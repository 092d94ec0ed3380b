------------------------------ MODULE Tollbooth ------------------------------
(***************************************************************************)
(* The tollbooth middleware in front of the paid endpoints: requests that  *)
(* carry an X-PAYMENT header are verified, booked in the ledger by a       *)
(* sequence of separate statements, and handed to the endpoint whether or  *)
(* not the booking worked.  Requests run concurrently, in one server       *)
(* process or several, over one database; a client or a proxy may send the *)
(* same header again at any time.  The header and the ledger hold nonces   *)
(* as text, hex digits in either case, and compare them as text; the       *)
(* signature covers the bytes, so one authorization has several texts.     *)
(***************************************************************************)
EXTENDS Naturals, FiniteSets

CONSTANTS
  Requests,   \* paid requests; each one has an action_id of its own
  Headers,    \* X-PAYMENT headers that clients send
  NoHeader,   \* the header of a request that has not been sent
  NonceOf,    \* the text of the nonce in each header
  AuthOf,     \* the authorization it carries: payer and nonce as bytes
  Valid,      \* headers with the right payee, value, window, signature
  MaxFaults   \* bound: failed statements and crashes

ASSUME TollboothAssumption ==
  /\ NoHeader \notin Headers
  /\ DOMAIN NonceOf = Headers /\ DOMAIN AuthOf = Headers
  /\ Valid \subseteq Headers
  /\ MaxFaults \in Nat

VARIABLES
  pc,        \* where each request stands
  header,    \* the header it carries
  rows,      \* the ledger rows written under its action_id
  answer,    \* what its client has got
  unwritten, \* requests whose completeAction is still under way
  replays,   \* history: requests sent when the text of their nonce was in payments
  faults     \* faults so far

vars == <<pc, header, rows, answer, unwritten, replays, faults>>

\* Inserted in this order, then the cost of the call and its completion.
Tables == {"action", "payment", "settlement", "outbox", "splits", "cost", "completion"}
Answers == {"none", "refused", "declined", "served", "dropped"}
Labels == {"unsent", "checking", "action", "payment", "settlement", "outbox", "splits",
           "handler", "replying", "over"}

TypeOK ==
  /\ pc \in [Requests -> Labels]
  /\ header \in [Requests -> Headers \cup {NoHeader}]
  /\ rows \in [Requests -> SUBSET Tables]
  /\ answer \in [Requests -> Answers]
  /\ unwritten \subseteq Requests
  /\ replays \subseteq Requests
  /\ faults \in 0..MaxFaults

Fault == faults < MaxFaults /\ faults' = faults + 1

Nonces == {NonceOf[h] : h \in Headers}

\* The request was sent with this text for its nonce.
Bears(r, n) == header[r] \in Headers /\ NonceOf[header[r]] = n

\* A row of payments has this text.
NonceSeen(n) == \E r \in Requests : Bears(r, n) /\ "payment" \in rows[r]

\* What the lookup and the insert for request r ask.
Taken(r) == header[r] \in Headers /\ NonceSeen(NonceOf[header[r]])

Goto(r, label) == pc' = [pc EXCEPT ![r] = label]

Answer(r, what) == answer' = [answer EXCEPT ![r] = what]

-----------------------------------------------------------------------------
\* A client sends a request, for the first time or again.
Arrive(r, h) ==
  /\ pc[r] = "unsent"
  /\ Goto(r, "checking")
  /\ header' = [header EXCEPT ![r] = h]
  /\ replays' = IF NonceSeen(NonceOf[h]) THEN replays \cup {r} ELSE replays
  /\ UNCHANGED <<rows, answer, unwritten, faults>>

\* verifyPayment passes: the authorization is for this payee, price and time, is
\* signed by its payer whichever case its digits have, and payments does not
\* have its nonce in this very spelling.
Verifies(r) == header[r] \in Valid /\ ~Taken(r)

\* mistake: an error of the nonce lookup lets the request through
CheckFailsOpen(r) ==
  /\ pc[r] = "checking"
  /\ \/ /\ (Verifies(r) /\ UNCHANGED faults) \/ (header[r] \in Valid /\ Fault)
        /\ Goto(r, "action")
        /\ UNCHANGED answer
     \/ /\ ~Verifies(r) /\ UNCHANGED faults
        /\ Goto(r, "over")
        /\ Answer(r, "refused")
  /\ UNCHANGED <<header, rows, unwritten, replays>>

\* An error of the lookup refuses the request like a replay does.
Check(r) ==
  /\ pc[r] = "checking"
  /\ \/ /\ Verifies(r)
        /\ Goto(r, "action")
        /\ UNCHANGED <<answer, faults>>
     \/ /\ (~Verifies(r) /\ UNCHANGED faults) \/ Fault
        /\ Goto(r, "over")
        /\ Answer(r, "refused")
  /\ UNCHANGED <<header, rows, unwritten, replays>>

\* mistake: every statement has a try block of its own
InsertAndGoOn(r, table, then) ==
  /\ pc[r] = table
  /\ \/ /\ rows' = [rows EXCEPT ![r] = @ \cup {table}]
        /\ UNCHANGED faults
     \/ /\ Fault
        /\ UNCHANGED rows
  /\ Goto(r, then)
  /\ UNCHANGED <<header, answer, unwritten, replays>>

\* One INSERT of the booking.  An error, before the row is written or after it,
\* skips the rest of the booking and not the endpoint.  Foreign keys cannot fail:
\* a statement only runs after the ones it refers to.
Insert(r, table, then) ==
  /\ pc[r] = table
  /\ \/ /\ rows' = [rows EXCEPT ![r] = @ \cup {table}]
        /\ Goto(r, then)
        /\ UNCHANGED faults
     \/ /\ rows' = [rows EXCEPT ![r] = @ \cup {table}] \/ UNCHANGED rows
        /\ Goto(r, "handler")
        /\ Fault
  /\ UNCHANGED <<header, answer, unwritten, replays>>

InsertAction(r) == Insert(r, "action", "payment")

\* mistake: nonce is not unique in payments
InsertPaymentAnyNonce(r) == Insert(r, "payment", "settlement")

\* uq_payments_nonce, over the text, turns the second row of a text into an error.
InsertPayment(r) ==
  \/ ~Taken(r) /\ Insert(r, "payment", "settlement")
  \/ /\ pc[r] = "payment"
     /\ Taken(r)
     /\ Goto(r, "handler")
     /\ UNCHANGED <<header, rows, answer, unwritten, replays, faults>>

InsertSettlement(r) == Insert(r, "settlement", "outbox")

\* mistake: the test of settlementMode is the wrong way round
EnqueueOtherMode(r) ==
  /\ pc[r] = "outbox"
  /\ Goto(r, "splits")
  /\ UNCHANGED <<header, rows, answer, unwritten, replays, faults>>

EnqueueGatewayOutbox(r) == Insert(r, "outbox", "splits")

InsertSplits(r) == Insert(r, "splits", "handler")

\* logCost: provider_costs refers to the action, and an error is swallowed.
LogCost(r) ==
  \/ /\ rows' = [rows EXCEPT ![r] = IF "action" \in @ THEN @ \cup {"cost"} ELSE @]
     /\ UNCHANGED faults
  \/ UNCHANGED rows /\ Fault

\* The endpoint: its rate limit or its input checks decline the request, or it
\* does the work and logs what the work cost.
Handle(r) ==
  /\ pc[r] = "handler"
  /\ \/ /\ Answer(r, "declined")
        /\ unwritten' = unwritten \cup {r}
        /\ Goto(r, "over")
        /\ UNCHANGED <<rows, faults>>
     \/ /\ LogCost(r)
        /\ Goto(r, "replying")
        /\ UNCHANGED <<answer, unwritten>>
  /\ UNCHANGED <<header, replays>>

\* res.json: starts completeAction, does not wait for it, and answers.
Reply(r) ==
  /\ pc[r] = "replying"
  /\ Answer(r, "served")
  /\ unwritten' = unwritten \cup {r}
  /\ Goto(r, "over")
  /\ UNCHANGED <<header, rows, replays, faults>>

\* The UPDATE of completeAction, which finds the action's row or none.
CompleteAction(r) ==
  /\ r \in unwritten
  /\ unwritten' = unwritten \ {r}
  /\ \/ /\ rows' = [rows EXCEPT ![r] = IF "action" \in @ THEN @ \cup {"completion"} ELSE @]
        /\ UNCHANGED faults
     \/ UNCHANGED rows /\ Fault
  /\ UNCHANGED <<pc, header, answer, replays>>

\* A server process dies, and with it the requests it is working on: they get
\* no answer, their rows stay.
Crash(mine) ==
  /\ Fault
  /\ \A r \in mine : pc[r] \notin {"unsent", "over"} \/ r \in unwritten
  /\ pc' = [r \in Requests |-> IF r \in mine THEN "over" ELSE pc[r]]
  /\ answer' = [r \in Requests |-> IF r \in mine /\ pc[r] # "over" THEN "dropped"
                                  ELSE answer[r]]
  /\ unwritten' = unwritten \ mine
  /\ UNCHANGED <<header, rows, replays>>

-----------------------------------------------------------------------------
Init ==
  /\ pc = [r \in Requests |-> "unsent"]
  /\ header = [r \in Requests |-> NoHeader]
  /\ rows = [r \in Requests |-> {}]
  /\ answer = [r \in Requests |-> "none"]
  /\ unwritten = {}
  /\ replays = {}
  /\ faults = 0

Process(r) ==
  \/ Check(r) \/ InsertAction(r) \/ InsertPayment(r) \/ InsertSettlement(r)
  \/ EnqueueGatewayOutbox(r) \/ InsertSplits(r) \/ Handle(r) \/ Reply(r)
  \/ CompleteAction(r)

Next ==
  \/ \E r \in Requests : Process(r) \/ \E h \in Headers : Arrive(r, h)
  \/ \E mine \in (SUBSET Requests) \ {{}} : Crash(mine)

Spec == Init /\ [][Next]_vars

-----------------------------------------------------------------------------
(* Safety. *)

\* A request sent when payments already has its nonce, spelled the same, is turned
\* away and writes nothing, also when the lookup fails, the process dies in it, or
\* the first request is still running.
ReplayIsRefused ==
  \A r \in replays : answer[r] \in {"none", "refused", "dropped"} /\ rows[r] = {}

\* A row of the queue never outruns its books: whatever statement failed on the
\* way, behind each outbox row stand the action, the payment with the nonce, the
\* settlement, and a header that verified; nobody is promised a split of a payment
\* that was not queued.
BooksBehindQueue ==
  \A r \in Requests :
    /\ "outbox" \in rows[r] =>
         {"action", "payment", "settlement"} \subseteq rows[r] /\ header[r] \in Valid
    /\ "splits" \in rows[r] => "outbox" \in rows[r]

\* With no fault so far and nobody else sending the text of its nonce, a request the
\* endpoint has answered is on the books completely.
UncontestedIsBooked ==
  \A r \in Requests :
    (/\ faults = 0
     /\ answer[r] \in {"served", "declined"}
     /\ \A s \in Requests \ {r} : ~Bears(s, NonceOf[header[r]]))
      => {"action", "payment", "settlement", "outbox", "splits"} \subseteq rows[r]

\* The tollbooth implements the feed the worker relies on, with any number of
\* requests racing for the same nonce: one row for each text of a nonce, so an
\* authorization may be queued once for each of its texts.
RowsOf(table, n) == Cardinality({r \in Requests : Bears(r, n) /\ table \in rows[r]})

Feed == INSTANCE OutboxFeed WITH
  settlements <- [n \in Nonces |-> RowsOf("settlement", n)],
  queued <- [n \in Nonces |-> RowsOf("outbox", n)]

FeedSpec == Feed!Spec

-----------------------------------------------------------------------------
(* What the repository says of replays and the code does not do. *)

SameAuth(r, s) == {header[r], header[s]} \subseteq Headers /\ AuthOf[header[r]] = AuthOf[header[s]]

\* The contract of isNonceFresh: it must refuse a previously seen nonce, so that
\* one authorization buys one answer.  The lookup and the insert are two
\* statements, and an insert that fails on uq_payments_nonce is logged, not
\* refused: of two requests that passed the lookup together both are served.
NonceServedOnce ==
  \A r, s \in Requests :
    r # s /\ answer[r] = "served" /\ answer[s] = "served" => ~SameAuth(r, s)

\* The same contract, "replay defense across requests", with nobody racing: payments
\* holds an authorization once.  The nonce in another case is another text to the
\* lookup and to uq_payments_nonce, and the same one to the signature.
BookedOnce ==
  \A r, s \in Requests :
    r # s /\ "payment" \in rows[r] \cap rows[s] => ~SameAuth(r, s)
=============================================================================
