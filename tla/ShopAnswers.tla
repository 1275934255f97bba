----------------------------- MODULE ShopAnswers -----------------------------
(***************************************************************************)
(* What the parsers and the watchlist's checks make of a shop's answer.    *)
(*                                                                         *)
(* A label stands for the inventory statuses the code treats alike: "pdp"  *)
(* and "listed" are two different names for an available product, "out" a  *)
(* conclusive negative, "blocked" a status that says nothing of the stock  *)
(* but is stored all the same, "missing" a product the shop does not find  *)
(* (not_found_currently), which is stored like a negative, "failed" one    *)
(* update_watchlist_check never stores (rate_limited_unknown,              *)
(* parse_unknown, error, ...).                                             *)
(*                                                                         *)
(* A page is what its honest author wrote of a product that is "in" or     *)
(* "out"; an HTTP code stands for its class ("503" for 408, 425 and 5xx,   *)
(* "4xx" for every refusal that is no 403, 404 or 429).  A shop may refuse *)
(* or not find a product whatever its stock.                               *)
(***************************************************************************)
EXTENDS Naturals

Stock == {"in", "out"}
Available == {"pdp", "listed"}
Codes == {"200", "403", "404", "429", "4xx", "503"}

\* What is written of the stock: a positive phrase, its negation, which
\* contains it ("niet leverbaar", "unavailable"), another negative one, or
\* nothing.
Texts == [s \in Stock |->
    IF s = "in" THEN {"leverbaar", "silent"}
    ELSE {"niet leverbaar", "uitverkocht", "silent"}]

\* `phrase in text`
SaysPositive(text) == text \in {"leverbaar", "niet leverbaar"}
SaysNegative(text) == text \in {"niet leverbaar", "uitverkocht"}

\* A working button or link that puts the product into the cart, which only a
\* product that is in has, if it has one.
Offer == [s \in Stock |-> IF s = "in" THEN BOOLEAN ELSE {FALSE}]

-----------------------------------------------------------------------------
(* MediaMarkt's category pages.                                            *)

\* A body that is no JSON object.
ClassifyUnparsed(code, body) ==
    CASE body = "challenge"                 -> "strong_deny"
      [] body # "challenge" /\ code = "200" ->
             IF body = "blank" THEN "transient_failure" ELSE "parse_failure"
      [] body # "challenge" /\ code \in {"429", "503"} -> "transient_failure"
      [] OTHER                              -> "soft_deny"

\* errors  the kind of the GraphQL errors, or none
\* usable  products, or a collection of any length, are in the answer
ClassifyParsed(code, errors, products, collection, data) ==
    IF errors # "none"
    THEN IF products \/ collection THEN "partial_success"
         ELSE CASE errors = "schema"    -> "parse_failure"
                [] errors = "transient" -> "transient_failure"
                [] OTHER                -> "soft_deny"
    ELSE CASE code \in {"429", "503"} -> "transient_failure"
           [] code \in {"403", "404", "4xx"} -> "soft_deny"
           [] OTHER -> IF ~data THEN "transient_failure"
                       ELSE IF products THEN "success"
                       ELSE IF collection THEN "valid_empty" ELSE "transient_failure"

\* The classification of the last attempt; a transport error is a transient
\* failure.
FetchGraphqlPage ==
    {"transient_failure"}
        \cup {ClassifyUnparsed(code, body) :
                 code \in Codes, body \in {"blank", "garbage", "challenge"}}
        \cup {ClassifyParsed(code, errors, products, collection, data) :
                 code \in Codes, errors \in {"none", "schema", "transient", "other"},
                 products \in BOOLEAN, collection \in BOOLEAN, data \in BOOLEAN}

\* _fetch_html: only a challenge makes a deny of a 403 or 429.
FetchHtml(code, challenge) ==
    CASE code = "200" -> "page"
      [] code \in {"403", "429"} /\ challenge -> "deny"
      [] OTHER -> "error"

\* The fallback page: a challenge on it is a deny too, a page without
\* products, prices or links is worth nothing.
HtmlSource(code, challenge, useful) ==
    CASE challenge /\ FetchHtml(code, challenge) \in {"deny", "page"} -> "deny"
      [] ~challenge /\ useful /\ FetchHtml(code, challenge) = "page" -> "html"
      [] OTHER -> "nothing"

\* Where a page's products come from; "circuit_open" is the outcome of not
\* asking at all.
FetchPageSources(outcome, code, challenge, useful) ==
    CASE outcome \in {"success", "partial_success", "valid_empty"} -> "graphql"
      [] outcome = "strong_deny" -> "deny"
      [] OTHER -> HtmlSource(code, challenge, useful)

PageSources ==
    {FetchPageSources(outcome, code, challenge, useful) :
        outcome \in FetchGraphqlPage \cup {"circuit_open"}, code \in Codes,
        challenge \in BOOLEAN, useful \in BOOLEAN}

\* _extract_stock: a status field is searched for positive phrases first,
\* the text of the whole node for negative ones first.
ExtractStock(status, text) ==
    IF SaysPositive(status) THEN TRUE
    ELSE IF SaysNegative(status) \/ SaysNegative(text) THEN FALSE
    ELSE SaysPositive(text)

\* Products of the HTML fallback always come after a soft deny.
ClassifyProductAvailability(inStock, cart, softDeny) ==
    CASE softDeny /\ ~inStock -> "blocked"       \* rate_limited_unknown
      [] ~(softDeny /\ ~inStock) /\ cart -> "pdp"      \* add_to_cart_available
      [] inStock /\ ~cart -> "listed"            \* delivery_available
      [] OTHER -> "out"                          \* notify_only, soon_available, ...

BuildPageItems(s, source) ==
    {ClassifyProductAvailability(ExtractStock(status, text), cart, source = "html") :
        status \in Texts[s], text \in Texts[s], cart \in Offer[s]}

MediaMarktListing == [s \in Stock |->
    UNION {BuildPageItems(s, source) : source \in PageSources \cap {"graphql", "html"}}]

-----------------------------------------------------------------------------
(* MediaMarkt's product pages: a page is the set of its signals.           *)

ButtonSignals == {"button", "disabled", "negative"}
PdpSignals == ButtonSignals \cup {"challenge", "delivery", "online", "not_delivered"}

ClassifyPdpSignals(page) ==
    LET negative == page \cap {"negative", "not_delivered", "disabled"}
    IN  IF "challenge" \in page THEN "blocked"       \* challenge_or_blocked
        ELSE IF "button" \in page /\ "disabled" \notin page THEN "pdp"
        ELSE IF negative = {} /\ {"online", "delivery"} \subseteq page THEN "listed"
        ELSE IF page \cap {"negative", "not_delivered"} # {} THEN "out"
        ELSE "failed"                                \* parse_unknown

\* A page offers the product if its button works, or if it says that it is
\* online and delivered and nothing else.
Offers(page) ==
    \/ "button" \in page /\ "disabled" \notin page
    \/ /\ {"online", "delivery"} \subseteq page
       /\ page \cap {"negative", "not_delivered", "disabled"} = {}

PdpPages == [s \in Stock |->
    {page \in SUBSET PdpSignals : "challenge" \in page \/ (Offers(page) <=> s = "in")}]

\* The answer to one check: its label, and whether it starts a cooldown.
Answer(status, denied) == [status |-> status, denied |-> denied]

ParsePdpHtml(page) == Answer(ClassifyPdpSignals(page), FALSE)

\* Every error but a challenge is an exception without an HTTP status.
MediaMarktCheck == [s \in Stock |->
    {LET html == FetchHtml(code, "challenge" \in page)
     IN  IF html = "page" THEN ParsePdpHtml(page)
         ELSE Answer("failed", html = "deny" /\ code = "429") :
        code \in Codes, page \in PdpPages[s]}]

-----------------------------------------------------------------------------
(* DreamLand.                                                              *)

\* detect_dreamland_availability; no negative phrase of the stock contains
\* "niet leverbaar".
DetectDreamlandAvailability(text) ==
    CASE text = "uitverkocht"  -> "unavailable"
      [] SaysPositive(text)    -> "purchasable"
      [] OTHER                 -> "unknown"

\* _fetch_text; a block page is a deny as well.
FetchDreamland(code, blocked) ==
    CASE code \in {"403", "429"} \/ (code = "200" /\ blocked) -> "deny"
      [] code = "200" /\ ~blocked -> "page"
      [] OTHER -> "error"

\* A status the listing stores as the page has it.
DreamlandLabel(status) ==
    CASE status = "purchasable" -> "listed"
      [] status = "unavailable" -> "out"
      [] OTHER                  -> "blocked"

\* A card says what its text says, ...
ListingCard(text) == DetectDreamlandAvailability(text)
BuildListingItem(card) == DreamlandLabel(card)

\* ... which the product page replaces unless it cannot be read.
EnrichOne(card, fetched, text) ==
    IF fetched = "page" THEN DreamlandLabel(DetectDreamlandAvailability(text)) ELSE card

\* A deny of one product page ends the whole fetch.
DreamlandListing == [s \in Stock |->
    {EnrichOne(BuildListingItem(ListingCard(card)), fetched, text) :
        card \in Texts[s], text \in Texts[s], fetched \in {"page", "error"}}]

\* Purchasable is in_stock here; a 404 is not_found_currently.
DreamlandAnswer(fetched, code, status) ==
    CASE fetched = "deny"  -> Answer("failed", code = "429")
      [] fetched = "error" -> Answer(IF code = "404" THEN "missing" ELSE "failed", FALSE)
      [] OTHER -> Answer(IF status = "purchasable" THEN "pdp" ELSE DreamlandLabel(status), FALSE)

DreamlandCheck == [s \in Stock |->
    {DreamlandAnswer(FetchDreamland(code, blocked), code, DetectDreamlandAvailability(text)) :
        code \in Codes, blocked \in BOOLEAN, text \in Texts[s]}]

-----------------------------------------------------------------------------
(* bol.com: an offer is the link that puts the product into the cart.      *)

BolTexts == [s \in Stock |->
    IF s = "in" THEN {"op voorraad", "silent"}
    ELSE {"niet op voorraad", "niet leverbaar", "silent"}]

\* _extract_availability of a card looks for "Op voorraad", with its capital.
BolCard(text, offer) ==
    CASE text = "op voorraad"    -> TRUE
      [] text = "niet leverbaar" -> FALSE
      [] OTHER                   -> offer

BolListing == [s \in Stock |->
    {IF BolCard(text, offer) THEN "listed" ELSE "out" :
        text \in BolTexts[s], offer \in Offer[s]}]

\* The page's text is in lower case: "niet op voorraad" contains "op voorraad".
BolPage(text, offer) ==
    CASE offer \/ text \in {"op voorraad", "niet op voorraad"} -> "pdp"
      [] ~offer /\ text = "niet leverbaar" -> "out"
      [] OTHER -> "failed"

\* _fetch_text: an error has no status the check looks at.
FetchBol(code) == IF code = "200" THEN "page" ELSE "error"

BolCheck == [s \in Stock |->
    {Answer(IF FetchBol(code) = "page" THEN BolPage(text, offer) ELSE "failed", FALSE) :
        code \in Codes, text \in BolTexts[s], offer \in Offer[s]}]

-----------------------------------------------------------------------------
(* PocketGames: JSON that says whether a variant is available.             *)

PocketGamesListing == [s \in Stock |-> {IF s = "in" THEN "listed" ELSE "out"}]

\* 429 is http_429_throttled, which is stored; 404 is not_found_currently.
PocketGamesAnswer(s, code) ==
    CASE code = "200" -> Answer(IF s = "in" THEN "pdp" ELSE "out", FALSE)
      [] code = "429" -> Answer("blocked", TRUE)
      [] code = "404" -> Answer("missing", FALSE)
      [] OTHER        -> Answer("failed", FALSE)

PocketGamesCheck == [s \in Stock |-> {PocketGamesAnswer(s, code) : code \in Codes}]

-----------------------------------------------------------------------------
Retailers == {"mediamarkt", "dreamland", "bol", "pocketgames"}

\* The parsers' fetch, for a product that is on the pages read.
Listing(shop, s) ==
    CASE shop = "mediamarkt"  -> MediaMarktListing[s]
      [] shop = "dreamland"   -> DreamlandListing[s]
      [] shop = "bol"         -> BolListing[s]
      [] shop = "pocketgames" -> PocketGamesListing[s]

\* WatchlistTracker._check_item
CheckItem(shop, s) ==
    CASE shop = "mediamarkt"  -> MediaMarktCheck[s]
      [] shop = "dreamland"   -> DreamlandCheck[s]
      [] shop = "bol"         -> BolCheck[s]
      [] shop = "pocketgames" -> PocketGamesCheck[s]

\* An answer that is about the stock.
Conclusive(label) == label \notin {"blocked", "missing", "failed"}
=============================================================================
