---------------------------- MODULE AntiBanProofs ----------------------------
(***************************************************************************)
(* The circuit breaker's guarantees, for every policy, every Retry-After   *)
(* and every way of dropping jobs.                                         *)
(*                                                                         *)
(* The budget of probes is counted in two steps after allow() has read it; *)
(* what makes that safe is that a report which falls in between also       *)
(* leaves half open (AskingInv), and that only the asking coroutine gets   *)
(* there again.                                                            *)
(***************************************************************************)
EXTENDS AntiBan, JobQueueFacts, TLAPS

\* While the breaker is half open the answer under way is a probe, and the
\* budget it was granted is still there until it is used.
AskingInv ==
    breaker = "half_open" /\ admission # "idle" =>
        /\ ~overtaken
        /\ kind = "probe"
        /\ admission \in {"allowed", "marked"} => probes < HalfOpenProbeAllowed

\* Every probe that went ahead was counted, and so is the one about to.
BudgetInv ==
    /\ breaker = "half_open" =>
          /\ probes <= HalfOpenProbeAllowed
          /\ admitted <= probes
          /\ admission = "probed" => admitted < probes
    /\ breaker = "open" => admitted = 0

IInv ==
    /\ TypeOK
    /\ BreakerFollowsDenies
    /\ AskingInv
    /\ BudgetInv
    /\ ProbeOutstanding

-----------------------------------------------------------------------------
(* The initial state, and one lemma per action.                            *)

LEMMA InitInv == Init => IInv
  <1> SUFFICES ASSUME Init
               PROVE  IInv
    OBVIOUS
  <1>1. <<>> \in Seq(Kinds) /\ "normal" \in Kinds
    BY DEF Kinds
  <1>2. TypeOK
    <2>1. denies \in 0 .. MaxDenies
      BY BoundAssumption DEF Init
    <2>2. overtaken \in BOOLEAN /\ lost \in BOOLEAN
      BY DEF Init
    <2>3. waiting \in Seq(Kinds)
      BY <1>1 DEF Init
    <2> QED
      BY <1>1, <2>1, <2>2, <2>3 DEF Init, TypeOK
  <1> QED
    BY <1>2, PolicyAssumption
    DEF Init, IInv, BreakerFollowsDenies, AskingInv, BudgetInv, ProbeOutstanding

\* The backoff of the next deny is a number of seconds.
LEMMA DenyFacts ==
  ASSUME TypeOK
  PROVE  /\ MoreDenies \in 0 .. MaxDenies
         /\ MoreDenies >= 1
         /\ denies < OpenAfterDenies => MoreDenies = denies + 1
         /\ denies >= OpenAfterDenies => MoreDenies >= OpenAfterDenies
         /\ DenySeconds \subseteq Nat
  <1>1. /\ MoreDenies \in 0 .. MaxDenies
        /\ MoreDenies >= 1
        /\ denies < OpenAfterDenies => MoreDenies = denies + 1
        /\ denies >= OpenAfterDenies => MoreDenies >= OpenAfterDenies
    BY BoundAssumption, PolicyAssumption DEF TypeOK, MoreDenies
  <1>2. Compute(MoreDenies) \in Nat
    <2>1. MoreDenies \in 1 .. MaxDenies
      BY <1>1, BoundAssumption
    <2> QED
      BY <2>1, BackoffAssumption
  <1>3. DenySeconds \subseteq Nat
    BY <1>2, PolicyAssumption DEF DenySeconds, Longer
  <1> QED
    BY <1>1, <1>3

LEMMA TickInv ==
  ASSUME IInv, Tick
  PROVE  IInv'
  BY DEF IInv, Tick, TypeOK, BreakerFollowsDenies, AskingInv, BudgetInv,
         ProbeOutstanding, admissionVars, jobVars

\* An open breaker becomes half open with no probe counted; a half-open one
\* answers only while there is budget.
LEMMA AllowInv ==
  ASSUME IInv, Allow
  PROVE  IInv'
  <1> USE DEF IInv, Allow, TypeOK, admissionVars, jobVars
  <1>1. TypeOK'
    BY DEF Kinds
  <1>2. BreakerFollowsDenies'
    BY DEF BreakerFollowsDenies
  <1>3. AskingInv'
    BY PolicyAssumption DEF AskingInv
  <1>4. BudgetInv'
    BY PolicyAssumption DEF BudgetInv
  <1>5. ProbeOutstanding'
    BY DEF ProbeOutstanding
  <1> QED
    BY <1>1, <1>2, <1>3, <1>4, <1>5

LEMMA MarkOpInv ==
  ASSUME IInv, MarkOp
  PROVE  IInv'
  BY PolicyAssumption
  DEF IInv, MarkOp, TypeOK, BreakerFollowsDenies, AskingInv, BudgetInv,
      ProbeOutstanding, breakerVars, jobVars

\* The probe is counted: the budget was still there.
LEMMA UseHalfOpenProbeInv ==
  ASSUME IInv, UseHalfOpenProbe
  PROVE  IInv'
  BY PolicyAssumption
  DEF IInv, UseHalfOpenProbe, TypeOK, BreakerFollowsDenies, AskingInv,
      BudgetInv, ProbeOutstanding, jobVars

\* The answer is used; what becomes of the job is up to the caller.
LEMMA GoAheadInv ==
  ASSUME IInv, GoAhead
  PROVE  /\ admitted' \in Nat
         /\ kind \in Kinds
         /\ BreakerFollowsDenies'
         /\ AskingInv'
         /\ BudgetInv'
         /\ breaker = "half_open" => kind = "probe"
  <1> USE DEF IInv, GoAhead, TypeOK, breakerVars
  <1>1. admitted' \in Nat /\ kind \in Kinds
    OBVIOUS
  <1>2. BreakerFollowsDenies'
    BY DEF BreakerFollowsDenies
  <1>3. breaker = "half_open" => kind = "probe" /\ admission = "probed"
    BY DEF AskingInv
  <1>4. AskingInv'
    BY DEF AskingInv
  <1>5. BudgetInv'
    BY <1>3 DEF BudgetInv, AskingInv
  <1> QED
    BY <1>1, <1>2, <1>3, <1>4, <1>5

LEMMA FetchInv ==
  ASSUME IInv, Fetch
  PROVE  IInv'
  <1>1. GoAhead
    BY DEF Fetch
  <1>2. /\ admitted' \in Nat /\ kind \in Kinds
        /\ BreakerFollowsDenies' /\ AskingInv' /\ BudgetInv'
        /\ breaker = "half_open" => kind = "probe"
    BY <1>1, GoAheadInv
  <1>3. TypeOK'
    BY <1>2 DEF IInv, Fetch, GoAhead, TypeOK, breakerVars
  <1>4. ProbeOutstanding'
    BY <1>2 DEF Fetch, GoAhead, ProbeOutstanding, breakerVars
  <1> QED
    BY <1>2, <1>3, <1>4 DEF IInv

LEMMA SubmitInv ==
  ASSUME IInv, Submit
  PROVE  IInv'
  <1>1. GoAhead
    BY DEF Submit
  <1>2. /\ admitted' \in Nat /\ kind \in Kinds
        /\ BreakerFollowsDenies' /\ AskingInv' /\ BudgetInv'
        /\ breaker = "half_open" => kind = "probe"
    BY <1>1, GoAheadInv
  <1>3. /\ Append(waiting, kind) \in Seq(Kinds)
        /\ ToSet(Append(waiting, kind)) = ToSet(waiting) \cup {kind}
    BY <1>2, AppendFacts DEF IInv, TypeOK
  <1>4. TypeOK'
    BY <1>2, <1>3 DEF IInv, Submit, GoAhead, TypeOK, breakerVars
  <1>5. ProbeOutstanding'
    BY <1>2, <1>3 DEF Submit, GoAhead, ProbeOutstanding, breakerVars
  <1> QED
    BY <1>2, <1>4, <1>5 DEF IInv

\* A refused job takes its probe with it: that is what `lost` records.
LEMMA SubmitRefusedInv ==
  ASSUME IInv, SubmitRefused
  PROVE  IInv'
  <1>1. GoAhead
    BY DEF SubmitRefused
  <1>2. /\ admitted' \in Nat /\ kind \in Kinds
        /\ BreakerFollowsDenies' /\ AskingInv' /\ BudgetInv'
        /\ breaker = "half_open" => kind = "probe"
    BY <1>1, GoAheadInv
  <1>3. TypeOK'
    BY <1>2 DEF IInv, SubmitRefused, GoAhead, TypeOK, breakerVars, jobVars
  <1>4. ProbeOutstanding'
    BY <1>2 DEF SubmitRefused, GoAhead, ProbeOutstanding, breakerVars
  <1> QED
    BY <1>2, <1>3, <1>4 DEF IInv

LEMMA WatchlistSubmitInv ==
  ASSUME IInv, WatchlistSubmit
  PROVE  IInv'
  <1>1. /\ "watchlist" \in Kinds
        /\ Append(waiting, "watchlist") \in Seq(Kinds)
        /\ ToSet(Append(waiting, "watchlist")) = ToSet(waiting) \cup {"watchlist"}
    BY AppendFacts DEF IInv, TypeOK, Kinds
  <1>2. TypeOK'
    BY <1>1 DEF IInv, WatchlistSubmit, TypeOK, breakerVars, admissionVars
  <1> QED
    BY <1>1, <1>2
    DEF IInv, WatchlistSubmit, BreakerFollowsDenies, AskingInv, BudgetInv,
        ProbeOutstanding, breakerVars, admissionVars

LEMMA StartJobInv ==
  ASSUME IInv, StartJob
  PROVE  IInv'
  <1>1. /\ Head(waiting) \in Kinds
        /\ Tail(waiting) \in Seq(Kinds)
        /\ ToSet(waiting) = ToSet(Tail(waiting)) \cup {Head(waiting)}
    BY TailFacts DEF IInv, TypeOK, StartJob
  <1>2. NoJob # "probe"
    BY JobAssumption DEF Kinds
  <1>3. TypeOK'
    BY <1>1 DEF IInv, StartJob, TypeOK, breakerVars, admissionVars
  <1>4. ProbeOutstanding'
    BY <1>1, <1>2 DEF IInv, StartJob, ProbeOutstanding, breakerVars, admissionVars
  <1> QED
    BY <1>3, <1>4
    DEF IInv, StartJob, BreakerFollowsDenies, AskingInv, BudgetInv, breakerVars,
        admissionVars

LEMMA ClearInv ==
  ASSUME IInv, Clear
  PROVE  IInv'
  <1>1. <<>> \in Seq(Kinds)
    OBVIOUS
  <1>2. TypeOK'
    BY <1>1 DEF IInv, Clear, TypeOK, breakerVars, admissionVars
  <1> QED
    BY <1>2
    DEF IInv, Clear, BreakerFollowsDenies, AskingInv, BudgetInv, ProbeOutstanding,
        breakerVars, admissionVars

LEMMA EndUnreportedInv ==
  ASSUME IInv, EndUnreported
  PROVE  IInv'
  BY DEF IInv, EndUnreported, TypeOK, BreakerFollowsDenies, AskingInv, BudgetInv,
         ProbeOutstanding, breakerVars, admissionVars

\* A report never leaves the breaker half open: an answer it overtakes has
\* no budget to respect.
LEMMA ReportSuccessInv ==
  ASSUME IInv, ReportSuccess
  PROVE  IInv'
  <1>1. 0 \in 0 .. MaxDenies /\ 0 < OpenAfterDenies
    BY PolicyAssumption, BoundAssumption
  <1>2. TypeOK'
    BY <1>1 DEF IInv, TypeOK, ReportSuccess, Reported
  <1>3. BreakerFollowsDenies'
    BY <1>1 DEF ReportSuccess, BreakerFollowsDenies
  <1> QED
    BY <1>2, <1>3
    DEF IInv, ReportSuccess, Reported, AskingInv, BudgetInv, ProbeOutstanding

LEMMA ReportDenyInv ==
  ASSUME IInv, ReportDeny
  PROVE  IInv'
  <1>1. /\ MoreDenies \in 0 .. MaxDenies
        /\ DenySeconds \subseteq Nat
    BY DenyFacts DEF IInv
  <1>2. cooldown' \in Nat
    BY <1>1 DEF IInv, TypeOK, ReportDeny, Longer
  <1>3. TypeOK'
    BY <1>1, <1>2 DEF IInv, TypeOK, ReportDeny, Reported
  <1>4. BreakerFollowsDenies'
    BY <1>1, PolicyAssumption, BoundAssumption DEF ReportDeny, BreakerFollowsDenies
  <1> QED
    BY <1>3, <1>4
    DEF IInv, ReportDeny, Reported, AskingInv, BudgetInv, ProbeOutstanding

LEMMA StutterInv ==
  ASSUME IInv, UNCHANGED vars
  PROVE  IInv'
  BY DEF IInv, vars, TypeOK, BreakerFollowsDenies, AskingInv, BudgetInv,
         ProbeOutstanding

-----------------------------------------------------------------------------
(* The theorems.                                                           *)

\* The inductive invariant holds in every reachable state.
THEOREM Invariance == Spec => []IInv
  <1>1. ASSUME IInv, [Next]_vars
        PROVE  IInv'
    BY <1>1, TickInv, AllowInv, MarkOpInv, UseHalfOpenProbeInv, FetchInv,
       SubmitInv, SubmitRefusedInv, WatchlistSubmitInv, StartJobInv, ClearInv,
       EndUnreportedInv, ReportSuccessInv, ReportDenyInv, StutterInv
    DEF Next
  <1> QED
    BY InitInv, <1>1, PTL DEF Spec

\* The layer's state is well typed, whatever the policy.
THEOREM TypeCorrect == Spec => []TypeOK
  <1>1. IInv => TypeOK
    BY DEF IInv
  <1> QED
    BY <1>1, Invariance, PTL

\* Only a row of open_after_denies denies stops normal traffic, and it always
\* does, however reports, asks and jobs interleave.
THEOREM BreakerIsRight == Spec => []BreakerFollowsDenies
  <1>1. IInv => BreakerFollowsDenies
    BY DEF IInv
  <1> QED
    BY <1>1, Invariance, PTL

\* A half-open breaker admits no more probes than half_open_probe_allowed
\* between two reports.
THEOREM ProbesBounded == Spec => []ProbeBudget
  <1>1. IInv => ProbeBudget
    BY PolicyAssumption DEF IInv, TypeOK, BudgetInv, ProbeBudget
  <1> QED
    BY <1>1, Invariance, PTL

\* Used budget has a probe on its way, unless the probe was dropped.
THEOREM ProbesOutstanding == Spec => []ProbeOutstanding
  <1>1. IInv => ProbeOutstanding
    BY DEF IInv
  <1> QED
    BY <1>1, Invariance, PTL

\* No deny shortens a cooldown that runs, whatever its backoff.
THEOREM DenyKeepsCooldown == Spec => DenyNeverShortens
  <1>1. ASSUME IInv, [Next]_vars
        PROVE  [ running # NoJob /\ running' = NoJob /\ denies' > 0
                   => cooldown' >= cooldown ]_vars
    <2> SUFFICES ASSUME Next, running # NoJob, running' = NoJob, denies' > 0
                 PROVE  cooldown' >= cooldown
      BY <1>1
    <2>1. kind # NoJob
      BY <1>1, JobAssumption DEF IInv, TypeOK
    <2>2. CASE ReportDeny
      <3>1. DenySeconds \subseteq Nat
        BY <1>1, DenyFacts DEF IInv
      <3> QED
        BY <1>1, <2>2, <3>1 DEF ReportDeny, Longer, IInv, TypeOK
    <2>3. CASE ReportSuccess
      BY <2>3 DEF ReportSuccess
    <2>4. CASE EndUnreported
      BY <1>1, <2>4 DEF EndUnreported, breakerVars, IInv, TypeOK
    <2>5. CASE Tick \/ Allow \/ MarkOp \/ UseHalfOpenProbe \/ Fetch \/ Submit
               \/ SubmitRefused \/ WatchlistSubmit \/ StartJob \/ Clear
      BY <2>1, <2>5
      DEF Tick, Allow, MarkOp, UseHalfOpenProbe, Fetch, Submit, SubmitRefused,
          WatchlistSubmit, StartJob, Clear, jobVars
    <2> QED
      BY <2>2, <2>3, <2>4, <2>5 DEF Next
  <1> QED
    BY <1>1, Invariance, PTL DEF Spec, DenyNeverShortens
=============================================================================
