--------------------------- MODULE TollboothProofs ---------------------------
(***************************************************************************)
(* Theorems about Tollbooth for any number of requests, headers and faults,  *)
(* however nonces are spelled and authorizations shared.                   *)
(***************************************************************************)
EXTENDS Tollbooth, FiniteSetTheorems, TLAPS

Rest == {"handler", "replying", "over"}

(* How far a request has come shows in its rows, whoever it races with. *)
Stage(r) ==
  /\ pc[r] = "unsent" <=> header[r] = NoHeader
  /\ r \in unwritten => pc[r] = "over"
  /\ pc[r] \notin Rest => answer[r] = "none"
  /\ pc[r] \in {"unsent", "checking", "action"} => rows[r] = {}
  /\ pc[r] = "payment" => rows[r] = {"action"}
  /\ pc[r] = "settlement" => rows[r] = {"action", "payment"}
  /\ pc[r] = "outbox" => rows[r] = {"action", "payment", "settlement"}
  /\ pc[r] = "splits" => rows[r] = {"action", "payment", "settlement", "outbox"}

(* Rows are written in the order of the booking, for what has verified. *)
Ordered(r) ==
  /\ "payment" \in rows[r] => "action" \in rows[r]
  /\ "settlement" \in rows[r] => "payment" \in rows[r]
  /\ "outbox" \in rows[r] => "settlement" \in rows[r]
  /\ "splits" \in rows[r] => "outbox" \in rows[r]
  /\ rows[r] # {} \/ pc[r] \notin Rest \cup {"unsent", "checking"} => header[r] \in Valid

(* uq_payments_nonce. *)
OnePayment ==
  \A r, s \in Requests :
    \A n \in Nonces : Bears(r, n) /\ Bears(s, n) /\ "payment" \in rows[r] /\ "payment" \in rows[s]
                       => r = s

(* A replay never gets past the check. *)
Turned(r) ==
  r \in replays =>
    /\ Taken(r)
    /\ pc[r] \in {"checking", "over"}
    /\ rows[r] = {} /\ r \notin unwritten
    /\ answer[r] \in {"none", "refused", "dropped"}

(* Nothing but a fault or a contest for the nonce leads around the booking. *)
Booked(r) ==
  (/\ faults = 0
   /\ pc[r] \in {"handler", "replying"} \/ answer[r] \in {"served", "declined"}
   /\ \A s \in Requests \ {r} : ~Bears(s, NonceOf[header[r]]))
    => {"action", "payment", "settlement", "outbox", "splits"} \subseteq rows[r]

Staged == \A r \in Requests : Stage(r) /\ Ordered(r)

IInv ==
  /\ TypeOK /\ Staged /\ OnePayment
  /\ \A r \in Requests : Turned(r) /\ Booked(r)

-----------------------------------------------------------------------------
(* Type correctness. *)

LEMMA TypeInit == Init => TypeOK
  BY TollboothAssumption DEF Init, TypeOK, Labels, Answers

LEMMA InsertTyped ==
  ASSUME TypeOK, NEW r \in Requests, NEW table \in Tables, NEW then \in Labels,
         Insert(r, table, then)
  PROVE  TypeOK'
  <1>1. rows' \in [Requests -> SUBSET Tables] /\ pc' \in [Requests -> Labels]
    BY DEF TypeOK, Insert, Goto, Labels
  <1>2. faults' \in 0..MaxFaults
    BY TollboothAssumption DEF TypeOK, Insert, Fault
  <1>3. QED
    BY <1>1, <1>2 DEF TypeOK, Insert

LEMMA TypeStep == TypeOK /\ [Next]_vars => TypeOK'
  <1> SUFFICES ASSUME TypeOK, [Next]_vars PROVE TypeOK'
    OBVIOUS
  <1> USE TollboothAssumption
  <1>1. ASSUME NEW r \in Requests, NEW h \in Headers, Arrive(r, h) PROVE TypeOK'
    BY <1>1 DEF TypeOK, Arrive, Goto, Labels
  <1>2. ASSUME NEW r \in Requests, Check(r) PROVE TypeOK'
    BY <1>2 DEF TypeOK, Check, Goto, Answer, Labels, Answers, Fault
  <1>3. ASSUME NEW r \in Requests,
               \/ InsertAction(r) \/ InsertSettlement(r)
               \/ EnqueueGatewayOutbox(r) \/ InsertSplits(r)
        PROVE TypeOK'
    BY <1>3, InsertTyped DEF InsertAction, InsertSettlement, EnqueueGatewayOutbox,
       InsertSplits, Tables, Labels
  <1>4. ASSUME NEW r \in Requests, InsertPayment(r) PROVE TypeOK'
    <2>1. CASE Insert(r, "payment", "settlement")
      BY <2>1, InsertTyped DEF Tables, Labels
    <2>2. CASE Goto(r, "handler") /\ UNCHANGED <<header, rows, answer, unwritten, replays, faults>>
      BY <2>2 DEF TypeOK, Goto, Labels
    <2>3. QED
      BY <1>4, <2>1, <2>2 DEF InsertPayment
  <1>5. ASSUME NEW r \in Requests, Handle(r) PROVE TypeOK'
    <2>1. CASE Answer(r, "declined") /\ Goto(r, "over") /\ UNCHANGED <<rows, faults>>
               /\ unwritten' = unwritten \cup {r}
      BY <1>5, <2>1 DEF Handle, TypeOK, Goto, Answer, Labels, Answers
    <2>2. CASE LogCost(r) /\ Goto(r, "replying") /\ UNCHANGED <<answer, unwritten>>
      <3>1. rows' \in [Requests -> SUBSET Tables] /\ faults' \in 0..MaxFaults
        BY <2>2 DEF LogCost, TypeOK, Tables, Fault
      <3>2. QED
        BY <1>5, <2>2, <3>1 DEF Handle, TypeOK, Goto, Labels
    <2>3. QED
      BY <1>5, <2>1, <2>2 DEF Handle
  <1>6. ASSUME NEW r \in Requests, Reply(r) PROVE TypeOK'
    BY <1>6 DEF TypeOK, Reply, Goto, Answer, Labels, Answers
  <1>7. ASSUME NEW r \in Requests, CompleteAction(r) PROVE TypeOK'
    <2>1. rows' \in [Requests -> SUBSET Tables] /\ faults' \in 0..MaxFaults
      BY <1>7 DEF CompleteAction, TypeOK, Tables, Fault
    <2>2. QED
      BY <1>7, <2>1 DEF CompleteAction, TypeOK
  <1>8. ASSUME NEW mine \in SUBSET Requests, Crash(mine) PROVE TypeOK'
    BY <1>8 DEF TypeOK, Crash, Labels, Answers, Fault
  <1>9. CASE UNCHANGED vars
    BY <1>9 DEF TypeOK, vars
  <1>10. QED
    BY <1>1, <1>2, <1>3, <1>4, <1>5, <1>6, <1>7, <1>8, <1>9 DEF Next, Process

-----------------------------------------------------------------------------
(* What each step does to one request: the rest of the argument only needs *)
(* this.                                                                   *)

\* A request whose rows do not change and whose nonce is seen stays refused, and the
\* payments that are there stay.
LEMMA SeenStays ==
  ASSUME TypeOK, Staged, [Next]_vars, NEW r \in Requests
  PROVE  /\ rows[r] \subseteq rows'[r]
         /\ header[r] # NoHeader => header'[r] = header[r]
  <1> DEFINE Good == rows[r] \subseteq rows'[r] /\ (header[r] # NoHeader => header'[r] = header[r])
  <1>1. ASSUME NEW s \in Requests, NEW h \in Headers, Arrive(s, h) PROVE Good
    BY <1>1 DEF Staged, Stage, Arrive, TypeOK
  <1>2. ASSUME NEW s \in Requests, Process(s) PROVE Good
    BY <1>2 DEF Process, Check, InsertAction, InsertPayment, InsertSettlement,
       EnqueueGatewayOutbox, InsertSplits, Insert, Handle, LogCost, Reply,
       CompleteAction, TypeOK
  <1>3. ASSUME NEW mine, Crash(mine) PROVE Good
    BY <1>3 DEF Crash
  <1>4. CASE UNCHANGED vars
    BY <1>4 DEF vars
  <1>5. QED
    BY <1>1, <1>2, <1>3, <1>4 DEF Next

LEMMA HeaderStays ==
  ASSUME TypeOK, Staged, [Next]_vars, NEW r \in Requests, header[r] \in Headers
  PROVE  header'[r] = header[r]
  BY SeenStays, TollboothAssumption

LEMMA NonceStaysSeen ==
  ASSUME TypeOK, Staged, [Next]_vars, NEW n, NonceSeen(n)
  PROVE  NonceSeen(n)'
  <1>1. PICK s \in Requests : Bears(s, n) /\ "payment" \in rows[s]
    BY DEF NonceSeen
  <1>2. "payment" \in rows'[s] /\ header'[s] = header[s]
    BY <1>1, SeenStays, HeaderStays DEF Bears
  <1>3. QED
    BY <1>1, <1>2 DEF NonceSeen, Bears

-----------------------------------------------------------------------------
(* The inductive invariant. *)

LEMMA InvInit == Init => IInv
  <1> SUFFICES ASSUME Init PROVE IInv
    OBVIOUS
  <1>1. TypeOK
    BY TypeInit
  <1>2. Staged /\ OnePayment
    BY DEF Init, Staged, Stage, Ordered, OnePayment, Rest
  <1>3. \A r \in Requests : Turned(r) /\ Booked(r)
    BY DEF Init, Turned, Booked
  <1>4. QED
    BY <1>1, <1>2, <1>3 DEF IInv

LEMMA StagedStep == TypeOK /\ Staged /\ [Next]_vars => Staged'
  <1> SUFFICES ASSUME TypeOK, Staged, [Next]_vars, NEW r \in Requests
               PROVE  Stage(r)' /\ Ordered(r)'
    BY DEF Staged
  <1>0. Stage(r) /\ Ordered(r)
    BY DEF Staged
  <1> DEFINE Good == Stage(r)' /\ Ordered(r)'
  <1> USE TollboothAssumption, <1>0 DEF Stage, Ordered, Rest
  <1>1. ASSUME NEW s \in Requests, NEW h \in Headers, Arrive(s, h) PROVE Good
    BY <1>1 DEF TypeOK, Arrive, Goto
  <1>2. ASSUME NEW s \in Requests, Check(s) PROVE Good
    BY <1>2 DEF TypeOK, Check, Goto, Answer, Verifies
  <1>3. ASSUME NEW s \in Requests, InsertAction(s) PROVE Good
    BY <1>3 DEF TypeOK, InsertAction, Insert, Goto
  <1>4. ASSUME NEW s \in Requests, InsertPayment(s) PROVE Good
    BY <1>4 DEF TypeOK, InsertPayment, Insert, Goto
  <1>5. ASSUME NEW s \in Requests, InsertSettlement(s) PROVE Good
    BY <1>5 DEF TypeOK, InsertSettlement, Insert, Goto
  <1>6. ASSUME NEW s \in Requests, EnqueueGatewayOutbox(s) PROVE Good
    BY <1>6 DEF TypeOK, EnqueueGatewayOutbox, Insert, Goto
  <1>7. ASSUME NEW s \in Requests, InsertSplits(s) PROVE Good
    BY <1>7 DEF TypeOK, InsertSplits, Insert, Goto
  <1>8. ASSUME NEW s \in Requests, Handle(s) PROVE Good
    BY <1>8 DEF TypeOK, Handle, LogCost, Goto, Answer
  <1>9. ASSUME NEW s \in Requests, Reply(s) PROVE Good
    BY <1>9 DEF TypeOK, Reply, Goto, Answer
  <1>10. ASSUME NEW s \in Requests, CompleteAction(s) PROVE Good
    BY <1>10 DEF TypeOK, CompleteAction
  <1>11. ASSUME NEW mine \in SUBSET Requests, Crash(mine) PROVE Good
    BY <1>11 DEF TypeOK, Crash
  <1>12. CASE UNCHANGED vars
    BY <1>12 DEF vars
  <1>13. QED
    BY <1>1, <1>2, <1>3, <1>4, <1>5, <1>6, <1>7, <1>8, <1>9, <1>10, <1>11, <1>12
       DEF Next, Process

\* A row of payments appears in one way, and not when its nonce is there.
LEMMA PaymentsAppear ==
  ASSUME TypeOK, Staged, [Next]_vars, NEW r \in Requests,
         "payment" \notin rows[r], "payment" \in rows'[r]
  PROVE  /\ ~Taken(r)
         /\ header'[r] = header[r]
         /\ \A s \in Requests \ {r} : rows'[s] = rows[s] /\ header'[s] = header[s]
  <1> DEFINE Good == /\ ~Taken(r)
                     /\ header'[r] = header[r]
                     /\ \A s \in Requests \ {r} : rows'[s] = rows[s] /\ header'[s] = header[s]
  <1> USE DEF TypeOK
  <1>1. ASSUME NEW s \in Requests, InsertPayment(s) PROVE Good
    BY <1>1 DEF InsertPayment, Insert
  <1>2. ASSUME NEW s \in Requests,
               InsertAction(s) \/ InsertSettlement(s) \/ EnqueueGatewayOutbox(s) \/ InsertSplits(s)
        PROVE  FALSE
    BY <1>2 DEF InsertAction, InsertSettlement, EnqueueGatewayOutbox, InsertSplits, Insert
  <1>3. ASSUME NEW s \in Requests, Check(s) \/ Handle(s) \/ Reply(s) \/ CompleteAction(s)
        PROVE  FALSE
    BY <1>3 DEF Check, Handle, LogCost, Reply, CompleteAction
  <1>4. ASSUME NEW s \in Requests, NEW h \in Headers, Arrive(s, h) PROVE FALSE
    BY <1>4 DEF Arrive
  <1>5. ASSUME NEW mine \in SUBSET Requests, Crash(mine) PROVE FALSE
    BY <1>5 DEF Crash
  <1>6. CASE UNCHANGED vars
    BY <1>6 DEF vars
  <1>7. QED
    BY <1>1, <1>2, <1>3, <1>4, <1>5, <1>6 DEF Next, Process

\* Rows come with a header.
LEMMA RowsHaveHeader ==
  ASSUME Staged, NEW r \in Requests, rows[r] # {}
  PROVE  header[r] \in Headers /\ header[r] # NoHeader
  BY TollboothAssumption DEF Staged, Ordered

LEMMA OnePaymentStep == TypeOK /\ Staged /\ OnePayment /\ [Next]_vars => OnePayment'
  <1> SUFFICES ASSUME TypeOK, Staged, OnePayment, [Next]_vars,
                      NEW r \in Requests, NEW s \in Requests, NEW n \in Nonces,
                      Bears(r, n)', Bears(s, n)', "payment" \in rows'[r], "payment" \in rows'[s]
               PROVE  r = s
    BY DEF OnePayment, Nonces
  <1>1. CASE "payment" \in rows[r] /\ "payment" \in rows[s]
    <2>1. header'[r] = header[r] /\ header'[s] = header[s]
      BY <1>1, SeenStays, RowsHaveHeader
    <2>2. Bears(r, n) /\ Bears(s, n)
      BY <2>1 DEF Bears
    <2>3. QED
      BY <1>1, <2>2 DEF OnePayment
  <1>2. CASE "payment" \notin rows[r]
    BY <1>2, PaymentsAppear DEF NonceSeen, Taken, Bears
  <1>3. CASE "payment" \notin rows[s]
    BY <1>3, PaymentsAppear DEF NonceSeen, Taken, Bears
  <1>4. QED
    BY <1>1, <1>2, <1>3

LEMMA TurnedStep ==
  ASSUME TypeOK, Staged, [Next]_vars, NEW r \in Requests, Turned(r)
  PROVE  Turned(r)'
  <1> DEFINE Same == /\ pc'[r] \in {"checking", "over"} /\ rows'[r] = {}
                     /\ r \notin unwritten'
                     /\ answer'[r] \in {"none", "refused", "dropped"}
  <1>0. Stage(r)
    BY DEF Staged
  <1> USE DEF TypeOK, Turned
  <1>1. ASSUME r \in replays PROVE Turned(r)'
    <2>1. header[r] \in Headers /\ NonceSeen(NonceOf[header[r]])
      BY <1>1 DEF Taken
    <2>2. Taken(r)'
      <3>1. PICK n : n = NonceOf[header[r]]
        OBVIOUS
      <3>2. NonceSeen(n)' /\ header'[r] = header[r]
        BY <2>1, <3>1, HeaderStays, NonceStaysSeen
      <3>3. QED
        BY <2>1, <3>1, <3>2 DEF NonceSeen, Taken, Bears
    <2>3. ASSUME NEW s \in Requests, Check(s) PROVE Same
      BY <1>1, <2>3 DEF Check, Verifies, Goto, Answer
    <2>4. ASSUME NEW s \in Requests, Process(s), ~Check(s) PROVE Same
      BY <1>1, <2>4 DEF Process, InsertAction, InsertPayment, InsertSettlement,
         EnqueueGatewayOutbox, InsertSplits, Insert, Handle, LogCost, Reply,
         CompleteAction, Goto, Answer
    <2>5. ASSUME NEW s \in Requests, NEW h \in Headers, Arrive(s, h) PROVE Same
      BY <1>1, <2>5 DEF Arrive, Goto
    <2>6. ASSUME NEW mine \in SUBSET Requests, Crash(mine) PROVE Same
      BY <1>1, <2>6 DEF Crash
    <2>7. ASSUME UNCHANGED vars PROVE Same
      BY <1>1, <2>7 DEF vars
    <2>8. Same
      BY <2>3, <2>4, <2>5, <2>6, <2>7 DEF Next
    <2>9. QED
      BY <2>8, <2>2
  <1>2. ASSUME r \notin replays, r \in replays' PROVE Turned(r)'
    <2>1. PICK h \in Headers : Arrive(r, h) /\ NonceSeen(NonceOf[h])
      <3>1. ASSUME NEW s \in Requests, Process(s) PROVE UNCHANGED replays
        BY <3>1 DEF Process, Check, InsertAction, InsertPayment, InsertSettlement,
           EnqueueGatewayOutbox, InsertSplits, Insert, Handle, Reply, CompleteAction
      <3>2. ASSUME NEW mine, Crash(mine) PROVE UNCHANGED replays
        BY <3>2 DEF Crash
      <3>3. ASSUME UNCHANGED vars PROVE FALSE
        BY <1>2, <3>3 DEF vars
      <3>4. ASSUME NEW s \in Requests, NEW h \in Headers, Arrive(s, h)
            PROVE  s = r /\ NonceSeen(NonceOf[h])
        BY <1>2, <3>4 DEF Arrive
      <3>5. QED
        BY <1>2, <3>1, <3>2, <3>3, <3>4 DEF Next
    <2>2. header'[r] = h /\ NonceSeen(NonceOf[h])'
      BY <2>1, NonceStaysSeen DEF Arrive
    <2>3. Taken(r)'
      BY <2>2 DEF NonceSeen, Taken, Bears
    <2>4. Same
      BY <1>0, <2>1, TollboothAssumption DEF Stage, Arrive, Goto, Rest
    <2>5. QED
      BY <2>3, <2>4
  <1>3. CASE r \notin replays'
    BY <1>3
  <1>4. QED
    BY <1>1, <1>2, <1>3

\* A contest for a nonce, once there, stays.
LEMMA BookedStep ==
  ASSUME TypeOK, Staged, [Next]_vars, NEW r \in Requests, Booked(r)
  PROVE  Booked(r)'
  <1> DEFINE Rows == {"action", "payment", "settlement", "outbox", "splits"}
             On(q) == pc[q] \in {"handler", "replying"} \/ answer[q] \in {"served", "declined"}
  <1> SUFFICES ASSUME faults' = 0, On(r)', \A s \in Requests \ {r} : ~Bears(s, NonceOf[header[r]])'
               PROVE  Rows \subseteq rows'[r]
    BY DEF Booked
  <1>0. Stage(r) /\ Ordered(r)
    BY DEF Staged
  <1>1. rows[r] \subseteq rows'[r]
    BY SeenStays
  <1>2. faults = 0
    BY TollboothAssumption DEF TypeOK, Next, Process, Check, InsertAction, InsertPayment,
       InsertSettlement, EnqueueGatewayOutbox, InsertSplits, Insert, Handle, LogCost,
       Reply, CompleteAction, Arrive, Crash, Fault, vars
  <1>3. ASSUME header[r] # NoHeader PROVE \A s \in Requests \ {r} : ~Bears(s, NonceOf[header[r]])
    BY <1>3, SeenStays, HeaderStays DEF Bears
  <1>4. CASE On(r) /\ header[r] # NoHeader
    BY <1>1, <1>2, <1>3, <1>4 DEF Booked
  <1>5. CASE ~On(r) \/ header[r] = NoHeader
    <2> USE DEF TypeOK
    <2>1. CASE header[r] = NoHeader
      <3>1. pc[r] = "unsent" /\ answer[r] = "none"
        BY <1>0, <2>1 DEF Stage, Rest
      <3>2. pc'[r] \in {"unsent", "checking", "over"} /\ answer'[r] \in {"none", "dropped"}
        BY <3>1 DEF Next, Process, Check, InsertAction, InsertPayment, InsertSettlement,
           EnqueueGatewayOutbox, InsertSplits, Insert, Handle, LogCost, Reply,
           CompleteAction, Arrive, Crash, Goto, Answer, vars
      <3>3. QED
        BY <3>2
    <2>2. CASE header[r] # NoHeader /\ ~On(r)
      <3>1. ASSUME NEW s \in Requests, InsertSplits(s) PROVE Rows \subseteq rows'[r]
        BY <1>0, <1>2, <2>2, <3>1 DEF InsertSplits, Insert, Stage, Goto, Fault
      <3>2. ASSUME NEW s \in Requests, InsertPayment(s) PROVE FALSE
        <4>1. s = r
          BY <2>2, <3>2 DEF InsertPayment, Insert, Goto
        <4>2. ~Taken(r)
          BY <1>0, <1>3, <2>2, <3>2, <4>1 DEF InsertPayment, Insert, NonceSeen, Taken, Stage
        <4>3. QED
          BY <1>2, <2>2, <3>2, <4>1, <4>2 DEF InsertPayment, Insert, Goto, Fault
      <3>3. ASSUME NEW s \in Requests,
                   InsertAction(s) \/ InsertSettlement(s) \/ EnqueueGatewayOutbox(s)
            PROVE FALSE
        BY <1>2, <2>2, <3>3 DEF InsertAction, InsertSettlement, EnqueueGatewayOutbox,
           Insert, Goto, Fault
      <3>4. ASSUME NEW s \in Requests,
                   Check(s) \/ Handle(s) \/ Reply(s) \/ CompleteAction(s)
            PROVE FALSE
        BY <2>2, <3>4 DEF Check, Handle, Reply, CompleteAction, Goto, Answer
      <3>5. ASSUME NEW s \in Requests, NEW h \in Headers, Arrive(s, h) PROVE FALSE
        BY <2>2, <3>5 DEF Arrive, Goto
      <3>6. ASSUME NEW mine \in SUBSET Requests, Crash(mine) PROVE FALSE
        BY <2>2, <3>6 DEF Crash
      <3>7. CASE UNCHANGED vars
        BY <2>2, <3>7 DEF vars
      <3>8. QED
        BY <3>1, <3>2, <3>3, <3>4, <3>5, <3>6, <3>7 DEF Next, Process
    <2>3. QED
      BY <1>5, <2>1, <2>2
  <1>6. QED
    BY <1>4, <1>5

LEMMA InvStep == IInv /\ [Next]_vars => IInv'
  BY TypeStep, StagedStep, OnePaymentStep, TurnedStep, BookedStep DEF IInv

LEMMA Inductive == Spec => []IInv
  <1>1. Init => IInv
    BY InvInit
  <1>2. IInv /\ [Next]_vars => IInv'
    BY InvStep
  <1>3. QED
    BY <1>1, <1>2, PTL DEF Spec

-----------------------------------------------------------------------------
(* Theorems. *)

\* Every request, row set and answer stays in its type, for any number of requests.
THEOREM TypeCorrect == Spec => []TypeOK
  <1>1. IInv => TypeOK
    BY DEF IInv
  <1>2. QED
    BY <1>1, Inductive, PTL

\* A request sent when payments has its nonce in the same spelling is refused or
\* dropped and writes nothing, whatever else runs, fails or dies.
THEOREM ReplaysRefused == Spec => []ReplayIsRefused
  <1>1. IInv => ReplayIsRefused
    BY DEF IInv, TypeOK, Turned, ReplayIsRefused
  <1>2. QED
    BY <1>1, Inductive, PTL

\* Behind every row of the queue stand its books.
THEOREM QueueHasBooks == Spec => []BooksBehindQueue
  <1>1. IInv => BooksBehindQueue
    BY DEF IInv, Staged, Ordered, BooksBehindQueue
  <1>2. QED
    BY <1>1, Inductive, PTL

\* A call that is answered without a fault and without a rival is booked completely.
THEOREM AnsweredIsBooked == Spec => []UncontestedIsBooked
  <1>1. IInv => UncontestedIsBooked
    BY DEF IInv, Booked, UncontestedIsBooked
  <1>2. QED
    BY <1>1, Inductive, PTL

-----------------------------------------------------------------------------
(* The refinement: each text of a nonce has at most one row in each table, *)
(* so the two counts of OutboxFeed are 0 or 1, and a step raises one.      *)

Having(table, n) == {r \in Requests : Bears(r, n) /\ table \in rows[r]}

Fed == {"settlement", "outbox"}

LEMMA CountOfNone == ASSUME NEW table, NEW n, Having(table, n) = {} PROVE RowsOf(table, n) = 0
  BY FS_EmptySet DEF RowsOf, Having

LEMMA CountOfOne ==
  ASSUME NEW table, NEW n, NEW r, Having(table, n) = {r}
  PROVE  RowsOf(table, n) = 1
  BY FS_Singleton DEF RowsOf, Having

\* The one row a text has in a table.
LEMMA HavingOne ==
  ASSUME IInv, NEW r \in Requests, NEW table \in Fed, table \in rows[r],
         NEW n \in Nonces, Bears(r, n)
  PROVE  Having(table, n) = {r}
  BY DEF IInv, Staged, Ordered, OnePayment, Having, Fed

\* A table that no request's row appears in counts as before.
LEMMA CountStays ==
  ASSUME IInv, [Next]_vars, NEW table \in Fed, NEW n,
         \A r \in Requests : table \in rows'[r] => table \in rows[r] \/ ~Bears(r, n)'
  PROVE  RowsOf(table, n)' = RowsOf(table, n)
  <1>1. \A r \in Requests : table \in rows[r] => header'[r] = header[r] /\ table \in rows'[r]
    BY SeenStays, RowsHaveHeader DEF IInv
  <1>2. Having(table, n)' = Having(table, n)
    BY <1>1 DEF Having, Bears
  <1>3. QED
    BY <1>2 DEF RowsOf, Having

\* A row that appears is the first one of its text.
LEMMA CountRises ==
  ASSUME IInv, IInv', [Next]_vars, NEW r \in Requests, NEW table \in Fed,
         NEW n \in Nonces, Bears(r, n), header'[r] = header[r], table \notin rows[r], table \in rows'[r]
  PROVE  RowsOf(table, n) = 0 /\ RowsOf(table, n)' = 1
  <1>1. Having(table, n)' = {r}
    <2>1. Bears(r, n)'
      BY DEF Bears
    <2>2. QED
      BY <2>1 DEF IInv, Staged, Ordered, OnePayment, Having, Fed, Nonces
  <1>2. Having(table, n) = {}
    <2>1. \A s \in Requests : table \in rows[s] => header'[s] = header[s] /\ table \in rows'[s]
      BY SeenStays, RowsHaveHeader DEF IInv
    <2>2. Having(table, n) \subseteq Having(table, n)'
      BY <2>1 DEF Having, Bears
    <2>3. QED
      BY <1>1, <2>2 DEF Having
  <1>3. RowsOf(table, n) = 0
    BY <1>2, CountOfNone
  <1>4. RowsOf(table, n)' = 1
    BY <1>1, FS_Singleton DEF RowsOf, Having
  <1>5. QED
    BY <1>3, <1>4

Appears(r, table) ==
  /\ pc[r] = table
  /\ header' = header
  /\ \A q \in Requests :
       rows'[q] = rows[q] \/ (q = r /\ rows'[q] = rows[q] \cup {table})

\* A step writes one such row, or none.
LEMMA OneRowAtATime ==
  ASSUME IInv, [Next]_vars
  PROVE  \/ \A q \in Requests, table \in Fed : table \in rows'[q] => table \in rows[q]
         \/ \E r \in Requests, table \in Fed : Appears(r, table) /\ table \in rows'[r]
  <1> DEFINE Idle == \A q \in Requests, table \in Fed : table \in rows'[q] => table \in rows[q]
             Goal == Idle \/ \E r \in Requests, table \in Fed : Appears(r, table) /\ table \in rows'[r]
  <1> USE DEF Fed, IInv, TypeOK
  <1>1. ASSUME NEW r \in Requests, NEW table \in Fed, NEW then, Insert(r, table, then)
        PROVE  Goal
    <2>1. Appears(r, table)
      BY <1>1 DEF Appears, Insert
    <2>2. CASE table \in rows'[r]
      BY <2>1, <2>2
    <2>3. CASE table \notin rows'[r]
      BY <2>1, <2>3 DEF Appears
    <2>4. QED
      BY <2>2, <2>3
  <1>2. ASSUME NEW r \in Requests, NEW table \in Tables \ Fed, NEW then, Insert(r, table, then)
        PROVE  Idle
    BY <1>2 DEF Insert
  <1>3. ASSUME NEW r \in Requests,
               InsertAction(r) \/ InsertPayment(r) \/ InsertSplits(r)
        PROVE  Idle
    BY <1>2, <1>3 DEF InsertAction, InsertPayment, InsertSplits, Tables
  <1>4. ASSUME NEW r \in Requests, InsertSettlement(r) \/ EnqueueGatewayOutbox(r) PROVE Goal
    BY <1>1, <1>4 DEF InsertSettlement, EnqueueGatewayOutbox
  <1>5. ASSUME NEW r \in Requests, Check(r) \/ Handle(r) \/ Reply(r) \/ CompleteAction(r)
        PROVE  Idle
    BY <1>5 DEF Check, Handle, LogCost, Reply, CompleteAction
  <1>6. ASSUME NEW r \in Requests, NEW h \in Headers, Arrive(r, h) PROVE Idle
    BY <1>6 DEF Arrive
  <1>7. ASSUME NEW mine \in SUBSET Requests, Crash(mine) PROVE Idle
    BY <1>7 DEF Crash
  <1>8. ASSUME UNCHANGED vars PROVE Idle
    BY <1>8 DEF vars
  <1>9. QED
    BY <1>3, <1>4, <1>5, <1>6, <1>7, <1>8 DEF Next, Process

LEMMA FeedInit == Init => Feed!Init
  <1> SUFFICES ASSUME Init PROVE Feed!Init
    OBVIOUS
  <1>1. \A table, n : Having(table, n) = {}
    BY DEF Init, Having
  <1>2. \A table, n : RowsOf(table, n) = 0
    BY <1>1, CountOfNone
  <1>3. QED
    BY <1>2 DEF Feed!Init

LEMMA FeedStep ==
  ASSUME IInv, IInv', [Next]_vars
  PROVE  [Feed!Next]_(Feed!feedVars)
  <1>1. ASSUME \A q \in Requests, table \in Fed : table \in rows'[q] => table \in rows[q]
        PROVE  UNCHANGED Feed!feedVars
    <2>1. \A n \in Nonces : /\ RowsOf("settlement", n)' = RowsOf("settlement", n)
                          /\ RowsOf("outbox", n)' = RowsOf("outbox", n)
      BY <1>1, CountStays DEF Fed
    <2>2. QED
      BY <2>1 DEF Feed!feedVars
  <1>2. ASSUME NEW r \in Requests, NEW table \in Fed, Appears(r, table), table \in rows'[r]
        PROVE  Feed!Next
    <2>1. PICK b \in Nonces : Bears(r, b) /\ header'[r] = header[r]
      BY <1>2, TollboothAssumption DEF IInv, Staged, Ordered, Appears, Fed, Rest, Nonces, Bears
    <2>2. table \notin rows[r]
      BY <1>2 DEF IInv, Staged, Stage, Appears, Fed
    <2>3. RowsOf(table, b) = 0 /\ RowsOf(table, b)' = 1
      BY <1>2, <2>1, <2>2, CountRises
    <2>4. \A n \in Nonces \ {b} : RowsOf(table, n)' = RowsOf(table, n)
      <3> TAKE n \in Nonces \ {b}
      <3>1. \A q \in Requests : table \in rows'[q] => table \in rows[q] \/ ~Bears(q, n)'
        BY <1>2, <2>1 DEF Appears, Bears
      <3>2. QED
        BY <3>1, CountStays
    <2>5. \A other \in Fed \ {table}, n \in Nonces : RowsOf(other, n)' = RowsOf(other, n)
      <3> TAKE other \in Fed \ {table}, n \in Nonces
      <3>1. \A q \in Requests : other \in rows'[q] => other \in rows[q] \/ ~Bears(q, n)'
        BY <1>2 DEF Appears
      <3>2. QED
        BY <3>1, CountStays
    <2>6. CASE table = "settlement"
      <3>1. Feed!Settle(b)
        BY <2>1, <2>3, <2>4, <2>5, <2>6 DEF Feed!Settle, Fed
      <3>2. QED
        BY <2>1, <3>1 DEF Feed!Next
    <2>7. CASE table = "outbox"
      <3>1. RowsOf("settlement", b) = 1
        <4>1. "settlement" \in rows[r]
          BY <1>2, <2>7 DEF IInv, Staged, Stage, Appears
        <4>2. Having("settlement", b) = {r}
          BY <2>1, <4>1, HavingOne DEF Fed
        <4>3. QED
          BY <4>2, CountOfOne
      <3>2. Feed!Queue(b)
        BY <2>1, <2>3, <2>4, <2>5, <2>7, <3>1 DEF Feed!Queue, Fed
      <3>3. QED
        BY <2>1, <3>2 DEF Feed!Next
    <2>8. QED
      BY <2>6, <2>7 DEF Fed
  <1>3. QED
    BY <1>1, <1>2, OneRowAtATime

\* The tollbooth implements the feed that the settlement worker is modelled on: each
\* text of a nonce gets one settlement and then one place in the queue at most.
THEOREM TollboothFeeds == Spec => FeedSpec
  <1>1. IInv /\ IInv' /\ [Next]_vars => [Feed!Next]_(Feed!feedVars)
    BY FeedStep
  <1>2. QED
    BY <1>1, FeedInit, Inductive, PTL DEF Spec, FeedSpec, Feed!Spec
=============================================================================
