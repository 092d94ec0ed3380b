------------------------------- MODULE Reports -------------------------------
(***************************************************************************)
(* What the reports say of paid calls.  The books of a call are written    *)
(* one statement after the other while it is served; a report reads them   *)
(* with statements of its own, each a snapshot, with calls moving on in    *)
(* between.  The upstream providers charge by the card of the model that   *)
(* the caller has picked and tell the tokens or not; the server writes     *)
(* down what one card for each provider makes of what it was told.         *)
(*                                                                         *)
(* Charges are in hundredths of an atomic unit of USDC, so that the prices *)
(* per token are whole numbers; booked costs are in atomic units.          *)
(***************************************************************************)
EXTENDS Integers, Sequences

CONSTANTS
  Calls,      \* paid calls
  Usages,     \* [prompt, completion]: the tokens an inference may take
  OtherCards, \* what the models cost that the card of their provider is not about
  Window,     \* seconds a margin report goes back
  MaxNow,     \* bound: the clock
  NoProvider

ASSUME ReportsAssumption ==
  /\ Usages # {} /\ Usages \subseteq [prompt : Nat, completion : Nat]
  /\ OtherCards \subseteq [prompt : Nat, completion : Nat, flat : {0}]
  /\ Window \in Nat /\ MaxNow \in Nat

VARIABLES
  now,        \* the clock of the database
  handler,    \* each call: what comes next, its provider, the provider's answer
  books,      \* table, or condition on it |-> the calls with such a row
  entry,      \* each call: when its action was booked, its cost and when that was;
              \* history: whether it was free, and by how much the cost is off a
              \* charge that the card and the tokens told add up to
  report      \* the statements of a page that are left, and what the others found

reportVars == <<now, handler, books, entry, report>>

-----------------------------------------------------------------------------
(* Providers: what they charge, what they tell, and the server's idea of it. *)

\* PROVIDER_COST_RATES
Card ==
  [featherless |-> [prompt |-> 10, completion |-> 10, flat |-> 0],
   aimlapi     |-> [prompt |-> 15, completion |-> 60, flat |-> 0],
   validator   |-> [prompt |-> 0, completion |-> 0, flat |-> 5000],
   aisa        |-> [prompt |-> 0, completion |-> 0, flat |-> 1000]]

Providers == DOMAIN Card
NoUsage == [prompt |-> 0, completion |-> 0]

Charge(card, u) == card.flat + card.prompt * u.prompt + card.completion * u.completion

\* The caller of an inference picks one of three models; the card is that of one.
Cards(p) == {Card[p]} \cup IF p \in {"featherless", "aimlapi"} THEN OtherCards ELSE {}

\* The usage may come in parts or one of them, as a total, which is taken for
\* completion, or not at all.
Told(u) ==
  {u, [u EXCEPT !.prompt = 0], [u EXCEPT !.completion = 0],
   [prompt |-> 0, completion |-> u.prompt + u.completion], NoUsage}

\* exact: the charge is what the server's card makes of what it was told
Answer(source, usage, charge, exact) ==
  [source |-> source, usage |-> usage, charge |-> charge, exact |-> exact]

\* A failed request has been charged or not: nobody tells.
Unheard(p, source) ==
  {Answer(source, NoUsage, 0, TRUE)}
    \cup {Answer(source, NoUsage, Charge(card, u), FALSE) : card \in Cards(p), u \in Usages}

Telling(p, real, card, u) ==
  {Answer(real, told, Charge(card, u), card = Card[p] /\ told = u) : told \in Told(u)}

\* The text and what is told of its usage, or an error, or no key at all.
Inference(p, real) ==
  Unheard(p, "synthesized")
    \cup UNION {Telling(p, real, card, u) : card \in Cards(p), u \in Usages}

FeatherlessAnswers == Inference("featherless", "featherless-real")
AimlapiAnswers == Inference("aimlapi", "aimlapi-real")

\* The public ticker costs nothing; when it fails too, the signal is made up.
KrakenSources == {"kraken-public", "synthesized"}

AisaAnswers ==
  {Answer("aisa-real", NoUsage, Charge(Card["aisa"], NoUsage), TRUE)}
    \cup UNION {Unheard("aisa", source) : source \in KrakenSources}

\* In the process itself, at a flat price.
ValidatorAnswers ==
  {Answer("validator-internal", NoUsage, Charge(Card["validator"], NoUsage), TRUE)}

Answers(p) ==
  CASE p = "featherless" -> FeatherlessAnswers
    [] p = "aimlapi" -> AimlapiAnswers
    [] p = "aisa" -> AisaAnswers
    [] p = "validator" -> ValidatorAnswers

\* mistake: a signal is billed whoever gave it
BilledWhateverSource(p, source) ==
  /\ source # "synthesized"
  /\ p = "featherless" => source = "featherless-real"
  /\ p = "aimlapi" => source = "aimlapi-real"

\* sourceIsBilled
Billed(p, source) ==
  /\ source # "synthesized"
  /\ p = "aisa" => source = "aisa-real"
  /\ p = "featherless" => source = "featherless-real"
  /\ p = "aimlapi" => source = "aimlapi-real"

\* Math.round, in atomic units: one card for all the models of a provider.
Cost(p, a) == IF Billed(p, a.source) THEN (Charge(Card[p], a.usage) + 50) \div 100 ELSE 0

-----------------------------------------------------------------------------
(* Paid calls and their books. *)

\* The inserts of the tollbooth, in their order.
After ==
  [action |-> "payment", payment |-> "settlement", settlement |-> "splits", splits |-> "serve"]

Tables == {"action", "completed", "payment", "settlement", "splits", "cost"}

Upcoming(c) == handler[c].at

Goto(c, at) == handler' = [handler EXCEPT ![c].at = at]

Unasked == Answer("none", NoUsage, 0, TRUE)
Fresh == [at |-> "action", provider |-> NoProvider, answer |-> Unasked]

Enter(c, table) == books' = [books EXCEPT ![table] = @ \cup {c}]

Book(c) ==
  /\ Upcoming(c) \in DOMAIN After
  /\ Enter(c, Upcoming(c)) /\ Goto(c, After[Upcoming(c)])
  /\ entry' = [entry EXCEPT ![c].booked = IF Upcoming(c) = "action" THEN now ELSE @]
  /\ UNCHANGED <<now, report>>

\* An insert fails, or its answer is lost: the rest of the booking is skipped.
BookFails(c) ==
  /\ Upcoming(c) \in DOMAIN After
  /\ \/ UNCHANGED <<books, entry>>
     \/ /\ Enter(c, Upcoming(c))
        /\ entry' = [entry EXCEPT ![c].booked = IF Upcoming(c) = "action" THEN now ELSE @]
  /\ Goto(c, "serve")
  /\ UNCHANGED <<now, report>>

\* The endpoint asks its provider.
Ask(c) ==
  /\ Upcoming(c) = "serve"
  /\ \E p \in Providers : \E a \in Answers(p) :
       handler' = [handler EXCEPT ![c] = [at |-> "cost", provider |-> p, answer |-> a]]
  /\ UNCHANGED <<now, books, entry, report>>

\* The endpoint's own limit, or a parameter it rejects.
Decline(c) ==
  /\ Upcoming(c) = "serve"
  /\ Goto(c, "complete")
  /\ UNCHANGED <<now, books, entry, report>>

\* The answer goes out and the handler forgets.
Forget(c) ==
  handler' = [handler EXCEPT ![c] = [Fresh EXCEPT !.at = "complete"]]

\* The INSERT of logProviderCost: without its action the row has nothing to refer to.
LogProviderCost(c, cost, free, off) ==
  /\ c \in books["action"]
  /\ Enter(c, "cost")
  /\ entry' = [entry EXCEPT ![c].cost = cost, ![c].costed = now, ![c].free = free,
                            ![c].off = off]

LogCost(c) ==
  /\ Upcoming(c) = "cost"
  /\ LET a == handler[c].answer
         cost == Cost(handler[c].provider, a)
     IN  LogProviderCost(c, cost, a.source \in {"synthesized", "kraken-public"},
                         IF a.exact THEN 100 * cost - a.charge ELSE 0)
  /\ Forget(c)
  /\ UNCHANGED <<now, report>>

\* logCost keeps the error to itself.
LogCostFails(c) ==
  /\ Upcoming(c) = "cost"
  /\ Forget(c)
  /\ UNCHANGED <<now, books, entry, report>>

\* Behind the answer, which does not wait for it.
Complete(c) ==
  /\ Upcoming(c) = "complete"
  /\ books' = [books EXCEPT !["completed"] = @ \cup ({c} \cap books["action"])]
  /\ Goto(c, "done")
  /\ UNCHANGED <<now, entry, report>>

\* The update fails, or the process ends.
CutOff(c) ==
  /\ Upcoming(c) # "done"
  /\ handler' = [handler EXCEPT ![c] = [Fresh EXCEPT !.at = "done"]]
  /\ UNCHANGED <<now, books, entry, report>>

-----------------------------------------------------------------------------
(* Reports.  A page is a sequence of groups of statements; the statements   *)
(* of one group run side by side, on connections of their own.              *)

All(reads) == [reads |-> reads, recent |-> FALSE]
Recent(reads) == [reads |-> reads, recent |-> TRUE]

\* mistake: the cost is asked for first
CostBeforeRevenue ==
  <<{Recent({"cost"})}, {Recent({"completed"})},
    {Recent({"cost"})}>>

MarginReport ==
  <<{Recent({"completed"})}, {Recent({"cost"})},
    {Recent({"cost"})}>>

\* One statement for the revenue and its cost, per network.  The margin page shows it
\* beside the report; either is shown without the other when that one fails.
NetworkMargins == <<{All({"completed", "cost"})}>>

ActionDetail ==
  <<{All({"action", "completed"})},
    {All({"payment"}), All({"payment", "settlement"}),
     All({"splits"}), All({"cost"})}>>

Stats == All({"action", "completed", "payment", "settlement"})
RecentSettlements == All({"payment", "settlement"})

Metrics == <<{Stats, RecentSettlements, Recent({"cost"})}>>

AdminPage ==
  <<{All({"action", "completed", "settlement"}), All({"action"}),
     All({"action", "payment", "settlement"})}>>

ConsolePage ==
  <<{Stats, All({"action"}),
     All({"action", "completed", "payment", "settlement"}),
     All({"action", "completed", "payment", "settlement"}),
     All({"action", "completed", "payment", "settlement"})}>>

DashboardPage ==
  <<{All({"action", "completed", "payment", "settlement", "cost"})},
    {All({"action", "completed", "payment", "settlement"})},
    {All({"action", "completed", "payment", "settlement"})},
    {All({"splits"})}>>

LandingPage == <<{All({"action", "completed", "settlement", "cost"})}>>

SplitsPage ==
  <<{All({"splits", "action"})}, {All({"splits", "action"})},
    {All({"splits", "action"})}>>

Pages ==
  {MarginReport, NetworkMargins, ActionDetail, Metrics, AdminPage, ConsolePage,
   DashboardPage, LandingPage, SplitsPage}

\* A failed statement leaves these two pages with what they have, the others with nothing.
KeepsWhatItHas == {DashboardPage, SplitsPage}

\* These set what one statement found against what another one did.
AddsUp == {MarginReport, ActionDetail}

NoReport == [left |-> <<>>, found |-> <<>>, keeps |-> FALSE, adds |-> FALSE]

\* Of the statements of a page one is followed, or two of which one has its answer
\* before the other is asked: what the others find makes no difference to these.
OpenPage(page) ==
  /\ report = NoReport
  /\ \E i, j \in DOMAIN page : \E s \in page[i], t \in page[j] :
       /\ i < j \/ (i = j /\ s = t)
       /\ report' = [left |-> IF i < j THEN <<s, t>> ELSE <<s>>, found |-> <<>>,
                     keeps |-> page \in KeepsWhatItHas, adds |-> page \in AddsUp]
  /\ UNCHANGED <<now, handler, books, entry>>

\* The rows of the last Window seconds.
InWindow(c, table) ==
  now - Window <= IF table = "cost" THEN entry[c].costed ELSE entry[c].booked

Found(s) ==
  [rows |-> [t \in s.reads |-> {c \in books[t] : s.recent => InWindow(c, t)}],
   since |-> IF s.recent THEN now - Window ELSE 0]

Read ==
  /\ report.left # <<>>
  /\ report' = [report EXCEPT !.left = Tail(@), !.found = Append(@, Found(Head(report.left)))]
  /\ UNCHANGED <<now, handler, books, entry>>

ReadFails ==
  /\ report.left # <<>>
  /\ report' = [report EXCEPT !.left = <<>>, !.found = IF report.keeps THEN @ ELSE <<>>]
  /\ UNCHANGED <<now, handler, books, entry>>

Wait ==
  /\ now < MaxNow /\ now' = now + 1
  /\ UNCHANGED <<handler, books, entry, report>>

-----------------------------------------------------------------------------
ReportsInit ==
  /\ now = 0
  /\ handler = [c \in Calls |-> Fresh]
  /\ books = [t \in Tables |-> {}]
  /\ entry = [c \in Calls |-> [booked |-> 0, cost |-> 0, costed |-> 0, free |-> TRUE, off |-> 0]]
  /\ report = NoReport

ReportsNext ==
  \/ \E c \in Calls :
       Book(c) \/ BookFails(c) \/ Ask(c) \/ Decline(c) \/ LogCost(c) \/ LogCostFails(c)
         \/ Complete(c) \/ CutOff(c)
  \/ \E page \in Pages : OpenPage(page)
  \/ Read \/ ReadFails \/ Wait

-----------------------------------------------------------------------------
ReportsTypeOK ==
  /\ now \in 0..MaxNow
  /\ \A c \in Calls :
       /\ handler[c].at \in DOMAIN After \cup {"serve", "cost", "complete", "done"}
       /\ handler[c].provider \in Providers => handler[c].answer \in Answers(handler[c].provider)
       /\ entry[c] \in [booked : 0..MaxNow, cost : Nat, costed : 0..MaxNow,
                        free : BOOLEAN, off : Int]
  /\ books \in [Tables -> SUBSET Calls]
  /\ \A i \in DOMAIN report.found :
       report.found[i].rows \in [DOMAIN report.found[i].rows -> SUBSET Calls]

\* A call a report counts as completed is shown with every row it has or will ever
\* have, by the same statement and by those after it; the margin and the detail of a
\* call leave none out whatever their order.  Only a cost may have left the window in
\* between.
CompletedIsShownWhole ==
  \A i, j \in DOMAIN report.found :
    LET counts == report.found[i].rows
        shows  == report.found[j]
    IN  (i <= j \/ report.adds) /\ "completed" \in DOMAIN counts =>
          \A c \in counts["completed"], table \in DOMAIN shows.rows :
            \/ c \in books[table] => c \in shows.rows[table]
            \/ table = "cost" /\ entry[c].costed < shows.since

\* Nothing is booked for a stand-in or the public ticker, whatever was tried before; and
\* where the caller took the model the card is about and its tokens were told in parts,
\* the books have what the provider charged, to half an atomic unit.  (For other models
\* and other tellings they may have anything.)
CostIsHonest ==
  \A c \in Calls : (entry[c].free => entry[c].cost = 0) /\ entry[c].off \in -50..50
=============================================================================
