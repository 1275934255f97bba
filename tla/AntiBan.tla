------------------------------- MODULE AntiBan -------------------------------
(***************************************************************************)
(* The anti-ban manager for one layer of one site: minimum interval,       *)
(* cooldown after denies, and the circuit breaker with its half-open       *)
(* probes; together with those who ask it and those who report to it.      *)
(*                                                                         *)
(* Parser layer: run_site asks, fetches and always reports.  Worker layer: *)
(* the scan asks and submits a job, the worker thread reports when the job *)
(* has run, and the watchlist submits jobs without asking.  Layers and     *)
(* sites share nothing, so one of each is enough; `layer` says which.      *)
(*                                                                         *)
(* Time is relative: `cooldown` and `interval` are what is left of         *)
(* cooldown_until - now and of min_interval_seconds since last_op_at.      *)
(***************************************************************************)
EXTENDS Naturals, Sequences, SequencesExt

CONSTANTS
    MinInterval,            \* min_interval_seconds
    OpenAfterDenies,        \* open_after_denies
    HalfOpenProbeAllowed,   \* half_open_probe_allowed
    BaseSeconds, Factor, MaxSeconds, JitterSeconds,   \* BackoffPolicy
    RetryAfters,            \* Retry-After values a shop may send, 0 for none
    NoJob,
    Drops,                  \* how an admitted job may end without a report
    MaxDenies,              \* denies above it are not told apart
    MaxJobs                 \* bound on the waiting jobs

DropNames ==
    {"refused",     \* the reservation or the dispatcher refuses the job
     "cleared",     \* the operator clears the waiting jobs
     "unreported"}  \* a duplicate, or an error after the final submit

Kinds == {"normal", "probe", "watchlist"}

Longer(a, b) == IF a >= b THEN a ELSE b

\* BackoffPolicy.compute without the jitter.
Compute(n) ==
    LET raw == BaseSeconds * Factor ^ (n - 1)
    IN  IF raw <= MaxSeconds THEN raw ELSE MaxSeconds

ASSUME PolicyAssumption ==
    /\ MinInterval \in Nat
    /\ OpenAfterDenies \in Nat \ {0}
    /\ HalfOpenProbeAllowed \in Nat
    /\ JitterSeconds \in Nat
    /\ RetryAfters \subseteq Nat
ASSUME BackoffAssumption == \A n \in 1..MaxDenies : Compute(n) \in Nat
ASSUME JobAssumption == NoJob \notin Kinds /\ Drops \subseteq DropNames
ASSUME BoundAssumption ==
    /\ MaxDenies \in Nat
    /\ OpenAfterDenies <= MaxDenies
    /\ MaxJobs \in Nat

VARIABLES
    layer,       \* "parser" or "worker"
    cooldown, interval, denies, breaker, probes,   \* LayerRuntimeState
    admission,   \* how far the asking coroutine has come
    kind,        \* what allow() answered it
    waiting,     \* jobs queued for the worker
    running,     \* the operation under way
    overtaken,   \* history: a report fell between allow() and the submit
    admitted,    \* history: half-open admissions since the last report
    lost         \* history: a probe ended without a report since then

vars == <<layer, cooldown, interval, denies, breaker, probes, admission, kind,
          waiting, running, overtaken, admitted, lost>>

breakerVars   == <<cooldown, denies, breaker, probes>>
admissionVars == <<admission, kind, overtaken>>
jobVars       == <<waiting, running>>

Init ==
    /\ layer \in {"parser", "worker"}
    /\ cooldown = 0
    /\ interval = 0
    /\ denies = 0
    /\ breaker = "closed"
    /\ probes = 0
    /\ admission = "idle"
    /\ kind = "normal"
    /\ waiting = <<>>
    /\ running = NoJob
    /\ overtaken = FALSE
    /\ admitted = 0
    /\ lost = FALSE

Tick ==
    /\ cooldown + interval > 0
    /\ cooldown' = IF cooldown > 0 THEN cooldown - 1 ELSE 0
    /\ interval' = IF interval > 0 THEN interval - 1 ELSE 0
    /\ UNCHANGED <<layer, denies, breaker, probes, admissionVars, jobVars,
                   admitted, lost>>

-----------------------------------------------------------------------------
(* Asking.  allow(), mark_op() and use_half_open_probe() take the lock one *)
(* by one; the coroutine that calls them does not yield in between, but    *)
(* the worker thread's reports may come.                                   *)

\* A refusal changes nothing, except that an open breaker is half open now.
Allow ==
    /\ admission = "idle"
    /\ layer = "parser" => running = NoJob
    /\ cooldown = 0
    /\ interval = 0
    /\ \/ /\ breaker = "closed"
          /\ admission' = "allowed"
          /\ kind' = "normal"
          /\ overtaken' = FALSE
          /\ UNCHANGED <<breaker, probes>>
       \/ /\ breaker # "closed"
          /\ breaker' = "half_open"
          /\ probes' = IF breaker = "open" THEN 0 ELSE probes
          /\ IF probes' >= HalfOpenProbeAllowed
               THEN UNCHANGED admissionVars
               ELSE /\ admission' = "allowed"
                    /\ kind' = "probe"
                    /\ overtaken' = FALSE
    /\ UNCHANGED <<layer, cooldown, interval, denies, jobVars, admitted, lost>>

MarkOp ==
    /\ admission = "allowed"
    /\ admission' = "marked"
    /\ interval' = MinInterval
    /\ UNCHANGED <<layer, breakerVars, kind, overtaken, jobVars, admitted, lost>>

\* Mutant: the pipeline forgets to count the probe.
UseHalfOpenProbe_Uncounted ==
    /\ admission = "marked"
    /\ kind = "probe"
    /\ admission' = "probed"
    /\ UNCHANGED <<layer, interval, breakerVars, kind, overtaken, jobVars,
                   admitted, lost>>

\* Mutant: the budget is given back instead of used.
UseHalfOpenProbe_Down ==
    /\ admission = "marked"
    /\ kind = "probe"
    /\ probes' = IF breaker = "half_open" THEN probes - 1 ELSE probes
    /\ admission' = "probed"
    /\ UNCHANGED <<layer, interval, cooldown, denies, breaker, kind, overtaken,
                   jobVars, admitted, lost>>

UseHalfOpenProbe ==
    /\ admission = "marked"
    /\ kind = "probe"
    /\ probes' = IF breaker = "half_open" THEN probes + 1 ELSE probes
    /\ admission' = "probed"
    /\ UNCHANGED <<layer, interval, cooldown, denies, breaker, kind, overtaken,
                   jobVars, admitted, lost>>

\* The answer is complete and the operation goes ahead.
GoAhead ==
    /\ \/ admission = "marked" /\ kind = "normal"
       \/ admission = "probed"
    /\ admission' = "idle"
    /\ admitted' = IF breaker = "half_open" /\ ~overtaken THEN admitted + 1 ELSE admitted
    /\ UNCHANGED <<layer, interval, breakerVars, kind, overtaken>>

\* run_site fetches.
Fetch ==
    /\ layer = "parser"
    /\ GoAhead
    /\ running' = kind
    /\ UNCHANGED <<waiting, lost>>

\* The scan submits its job, ...
Submit ==
    /\ layer = "worker"
    /\ GoAhead
    /\ Len(waiting) < MaxJobs
    /\ waiting' = Append(waiting, kind)
    /\ UNCHANGED <<running, lost>>

\* ... or the reservation or the dispatcher refuses it.
SubmitRefused ==
    /\ layer = "worker"
    /\ "refused" \in Drops
    /\ GoAhead
    /\ lost' = (lost \/ kind = "probe")
    /\ UNCHANGED jobVars

-----------------------------------------------------------------------------
(* The jobs of the worker layer.                                           *)

WatchlistSubmit ==
    /\ layer = "worker"
    /\ Len(waiting) < MaxJobs
    /\ waiting' = Append(waiting, "watchlist")
    /\ UNCHANGED <<layer, interval, breakerVars, admissionVars, running,
                   admitted, lost>>

StartJob ==
    /\ running = NoJob
    /\ waiting # <<>>
    /\ running' = Head(waiting)
    /\ waiting' = Tail(waiting)
    /\ UNCHANGED <<layer, interval, breakerVars, admissionVars, admitted, lost>>

Clear ==
    /\ "cleared" \in Drops
    /\ waiting # <<>>
    /\ waiting' = <<>>
    /\ lost' = (lost \/ "probe" \in ToSet(waiting))
    /\ UNCHANGED <<layer, interval, breakerVars, admissionVars, running, admitted>>

\* The worker skips a duplicate, or an error after the final submit leaves
\* the outcome unknown: nothing is reported.
EndUnreported ==
    /\ layer = "worker"
    /\ "unreported" \in Drops
    /\ running # NoJob
    /\ running' = NoJob
    /\ lost' = (lost \/ running = "probe")
    /\ UNCHANGED <<layer, interval, breakerVars, admissionVars, waiting, admitted>>

-----------------------------------------------------------------------------
(* Reporting.                                                              *)

Reported ==
    /\ running # NoJob
    /\ running' = NoJob
    /\ overtaken' = (admission # "idle")
    /\ admitted' = 0
    /\ lost' = FALSE
    /\ UNCHANGED <<layer, interval, admission, kind, waiting>>

\* Mutant: a success closes the breaker and forgets to reset the denies.
ReportSuccess_KeepsDenies ==
    /\ Reported
    /\ breaker' = "closed"
    /\ probes' = 0
    /\ cooldown' = 0
    /\ UNCHANGED denies

ReportSuccess ==
    /\ Reported
    /\ breaker' = "closed"
    /\ denies' = 0
    /\ probes' = 0
    /\ cooldown' = 0

MoreDenies == IF denies < MaxDenies THEN denies + 1 ELSE denies

\* The cooldown a deny asks for; only the parser layer passes Retry-After.
DenySeconds ==
    {Longer(Compute(MoreDenies) + jitter, retry) :
        jitter \in 0..JitterSeconds,
        retry \in IF layer = "parser" THEN RetryAfters ELSE {0}}

\* Mutant: the new cooldown replaces the old one, however long that was.
ReportDeny_Replaces ==
    /\ Reported
    /\ denies' = MoreDenies
    /\ cooldown' \in DenySeconds
    /\ breaker' = IF denies' >= OpenAfterDenies THEN "open" ELSE "closed"
    /\ probes' = 0

\* Mutant: only a closed breaker is opened.
ReportDeny_FromClosed ==
    /\ Reported
    /\ denies' = MoreDenies
    /\ \E computed \in DenySeconds : cooldown' = Longer(cooldown, computed)
    /\ breaker' = IF breaker = "closed" /\ denies' >= OpenAfterDenies
                    THEN "open" ELSE breaker
    /\ UNCHANGED probes

ReportDeny ==
    /\ Reported
    /\ denies' = MoreDenies
    /\ \E computed \in DenySeconds : cooldown' = Longer(cooldown, computed)
    /\ breaker' = IF denies' >= OpenAfterDenies THEN "open" ELSE "closed"
    /\ probes' = 0

-----------------------------------------------------------------------------
Next ==
    \/ Tick
    \/ Allow \/ MarkOp \/ UseHalfOpenProbe
    \/ Fetch \/ Submit \/ SubmitRefused
    \/ WatchlistSubmit \/ StartJob \/ Clear \/ EndUnreported
    \/ ReportSuccess \/ ReportDeny

Spec == Init /\ [][Next]_vars

\* The coroutine goes on once allow() has answered; the worker thread takes
\* the waiting jobs, and an operation ends (fetches and jobs have timeouts).
\* Nobody has to ask: that depends on the products a scan finds.
FairSpec ==
    /\ Spec
    /\ WF_vars(MarkOp \/ UseHalfOpenProbe \/ Fetch \/ Submit \/ SubmitRefused)
    /\ WF_vars(StartJob)
    /\ WF_vars(EndUnreported \/ ReportSuccess \/ ReportDeny)

-----------------------------------------------------------------------------
(* Properties.                                                             *)

\* Type invariant of the layer's state and of the operations under way.
TypeOK ==
    /\ layer \in {"parser", "worker"}
    /\ cooldown \in Nat
    /\ interval \in Nat
    /\ denies \in 0..MaxDenies
    /\ breaker \in {"closed", "open", "half_open"}
    /\ probes \in Nat
    /\ admission \in {"idle", "allowed", "marked", "probed"}
    /\ kind \in Kinds
    /\ waiting \in Seq(Kinds)
    /\ running \in Kinds \cup {NoJob}
    /\ overtaken \in BOOLEAN
    /\ admitted \in Nat
    /\ lost \in BOOLEAN

\* The breaker lets normal traffic through exactly as long as fewer than
\* open_after_denies denies have come in a row, whoever reported them.
BreakerFollowsDenies == breaker = "closed" <=> denies < OpenAfterDenies

\* Between two reports a half-open breaker lets at most the allowed number of
\* probes through, although the asking takes three steps; a probe that a
\* report has overtaken belongs to the time before it.
ProbeBudget == breaker = "half_open" => admitted <= HalfOpenProbeAllowed

\* A probe that has used up budget is still on its way to a report, unless it
\* was dropped: the breaker is not half open over nothing.
ProbeOutstanding ==
    breaker = "half_open" /\ probes > 0 /\ ~lost
      => \/ admission = "probed"
         \/ running = "probe"
         \/ "probe" \in ToSet(waiting)

\* Only a success ends a cooldown early: a deny of a job queued before the
\* site's first denial never shortens it, however its jitter falls.
DenyNeverShortens ==
    [][ running # NoJob /\ running' = NoJob /\ denies' > 0
          => cooldown' >= cooldown ]_vars

\* A half-open breaker whose budget is used up is resolved by a report,
\* unless a probe was dropped without one.  The parser layer drops none.
HalfOpenResolves ==
    (breaker = "half_open" /\ probes > 0)
      ~> (breaker # "half_open" \/ (lost /\ layer = "worker"))

\* The class docstring: "circuit breaker OPEN -> HALF_OPEN -> CLOSED".
HalfOpenEnds ==
    (breaker = "half_open" /\ probes > 0) ~> breaker # "half_open"
=============================================================================
