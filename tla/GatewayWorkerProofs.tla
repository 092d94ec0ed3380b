------------------------ MODULE GatewayWorkerProofs ------------------------
(***************************************************************************)
(* Theorems about GatewayWorker for any number of workers, rows, hashes    *)
(* and faults: its types and receipts, the settlement book it implements,  *)
(* and the attempts budget of a row.                                       *)
(***************************************************************************)
EXTENDS GatewayWorker, TLAPS

(* TypeOK in its three parts, as the actions touch them. *)
DbType ==
  /\ settlement \in [Jobs -> [status : Statuses, hash : TxIds \cup {NoTx}]]
  /\ outbox \in [Jobs -> [row : {"absent", "open", "done"}, attempts : Nat]]
  /\ logged \subseteq TxIds

ChainType ==
  /\ txs \in [TxIds -> [job : Jobs \cup {NoJob},
                        status : {"unsent", "pending", "success", "reverted"}]]
  /\ payable \subseteq Jobs

WorkerType ==
  /\ pc \in [Workers -> Labels]
  /\ todo \in [Workers -> SUBSET Jobs]
  /\ tries \in [Workers -> [Jobs -> Nat]]
  /\ tx \in [Workers -> TxIds \cup {NoTx}]

(* The hash a worker works with is the one it broadcast for the row it is *)
(* at, and past the receipt that transaction has succeeded.               *)
InFlight == {"recording", "awaiting", "promoting", "logging", "closing"}
PastReceipt == {"promoting", "logging", "closing"}

Carries ==
  \A w \in Workers, j \in Jobs : \A label \in InFlight :
    At(w, j, label) =>
      /\ tx[w] \in TxIds
      /\ txs[tx[w]].job = j
      /\ txs[tx[w]].status # "unsent"
      /\ label \in PastReceipt => txs[tx[w]].status = "success"

-----------------------------------------------------------------------------
(* Type correctness. *)

LEMMA TypeParts == TypeOK <=> DbType /\ ChainType /\ WorkerType /\ faults \in 0..MaxFaults
  BY DEF TypeOK, DbType, ChainType, WorkerType

\* The moves of a worker through the loop body keep its locals well typed.
LEMMA MovesTyped ==
  ASSUME WorkerType, NEW w \in Workers
  PROVE  /\ \A label \in Labels : Goto(w, label) => WorkerType'
         /\ Catch(w) => WorkerType'
         /\ \A j \in Jobs : Finish(w, j) => WorkerType'
         /\ Abort(w) => WorkerType'
  <1> USE DEF WorkerType
  <1>1. ASSUME NEW label \in Labels, Goto(w, label) PROVE WorkerType'
    BY <1>1 DEF Goto
  <1>2. ASSUME Catch(w) PROVE WorkerType'
    BY <1>2 DEF Catch, Labels
  <1>3. ASSUME NEW j \in Jobs, Finish(w, j) PROVE WorkerType'
    BY <1>3 DEF Finish, Labels
  <1>4. ASSUME Abort(w) PROVE WorkerType'
    BY <1>4 DEF Abort, Labels
  <1>5. QED
    BY <1>1, <1>2, <1>3, <1>4

\* The ledger's statements keep the tables well typed.
LEMMA StatementsTyped ==
  ASSUME DbType, NEW j \in Jobs, NEW t \in TxIds \cup {NoTx}
  PROVE  /\ MarkSettlementSubmitted(j, t) /\ UNCHANGED <<outbox, logged>> => DbType'
         /\ PromoteSettlement(j, t) /\ UNCHANGED <<outbox, logged>> => DbType'
         /\ FailSettlement(j) /\ UNCHANGED <<outbox, logged>> => DbType'
         /\ MarkOutboxDone(j) /\ UNCHANGED <<settlement, logged>> => DbType'
  <1> USE DEF DbType
  <1>1. MarkSettlementSubmitted(j, t) /\ UNCHANGED <<outbox, logged>> => DbType'
    BY DEF Statuses, MarkSettlementSubmitted
  <1>2. PromoteSettlement(j, t) /\ UNCHANGED <<outbox, logged>> => DbType'
    BY DEF Statuses, PromoteSettlement
  <1>3. FailSettlement(j) /\ UNCHANGED <<outbox, logged>> => DbType'
    BY DEF Statuses, FailSettlement
  <1>4. MarkOutboxDone(j) /\ UNCHANGED <<settlement, logged>> => DbType'
    BY DEF MarkOutboxDone
  <1>5. QED
    BY <1>1, <1>2, <1>3, <1>4

LEMMA AttemptsTyped ==
  ASSUME DbType, NEW rows, CountAttempts(rows), UNCHANGED <<settlement, logged>>
  PROVE  DbType'
  BY DEF DbType, CountAttempts

LEMMA FaultTyped == faults \in 0..MaxFaults /\ Fault => faults' \in 0..MaxFaults
  BY GatewayWorkerAssumption DEF Fault

LEMMA BroadcastTyped ==
  ASSUME ChainType, NEW j \in Jobs, NEW t \in TxIds, Broadcast(j, t)
  PROVE  ChainType'
  BY DEF ChainType, Broadcast
LEMMA TypeInit == Init => TypeOK
  BY GatewayWorkerAssumption DEF Init, TypeOK, Statuses, Labels

LEMMA TypeStep == TypeOK /\ Carries /\ [Next]_vars => TypeOK'
  <1> DEFINE Good == DbType' /\ ChainType' /\ WorkerType' /\ faults' \in 0..MaxFaults
  <1> SUFFICES ASSUME DbType, ChainType, WorkerType, faults \in 0..MaxFaults,
                      Carries, [Next]_vars
               PROVE  Good
    BY TypeParts DEF TypeOK, DbType, ChainType, WorkerType
  <1> USE DEF dbVars, chainVars, workerVars
  <1>1. ASSUME NEW j \in Jobs, InsertSettlement(j) \/ EnqueueGatewayOutbox(j) PROVE Good
    <2>1. CASE InsertSettlement(j)
      BY <2>1 DEF InsertSettlement, DbType, ChainType, WorkerType, Statuses
    <2>2. CASE EnqueueGatewayOutbox(j)
      BY <2>2 DEF EnqueueGatewayOutbox, DbType, ChainType, WorkerType
    <2>3. QED
      BY <1>1, <2>1, <2>2
  <1>2. ASSUME NEW j \in Jobs, RefundMark(j) PROVE Good
    BY <1>2, StatementsTyped DEF RefundMark, ChainType, WorkerType
  <1>3. ASSUME NEW j \in Jobs, Lapse(j) PROVE Good
    BY <1>3 DEF Lapse, Twins, DbType, ChainType, WorkerType
  <1>4. ASSUME NEW j \in Jobs, Replenish(j) PROVE Good
    BY <1>4, FaultTyped DEF Replenish, Twins, DbType, ChainType, WorkerType
  <1>5. ASSUME NEW t \in TxIds, Mine(t) PROVE Good
    BY <1>5 DEF Mine, DbType, ChainType, WorkerType
  <1>6. ASSUME NEW w \in Workers, Crash(w) PROVE Good
    BY <1>6, FaultTyped, MovesTyped DEF Crash, DbType, ChainType
  <1>7. ASSUME NEW w \in Workers, Step(w) PROVE Good
    <2> USE MovesTyped, FaultTyped DEF Labels
    <2>1. CASE ClaimSelect(w)
      <3>1. todo'[w] \subseteq Jobs
        BY <2>1 DEF ClaimSelect, Oldest, WorkerType
      <3>2. WorkerType'
        BY <2>1, <3>1 DEF ClaimSelect, WorkerType, DbType
      <3>3. QED
        BY <2>1, <3>2 DEF ClaimSelect, DbType, ChainType
    <2>2. CASE ClaimCommit(w)
      BY <2>2, AttemptsTyped DEF ClaimCommit, ChainType
    <2>3. CASE ClaimFails(w)
      BY <2>3, AttemptsTyped DEF ClaimFails, DbType, ChainType
    <2>4. ASSUME NEW j \in Jobs, NEW t \in TxIds, Submit(w, j, t) PROVE Good
      BY <2>4, BroadcastTyped DEF Submit, DbType, WorkerType
    <2>5. ASSUME NEW j \in Jobs, NEW t \in TxIds, SubmitAnswerLost(w, j, t) PROVE Good
      BY <2>5, BroadcastTyped DEF SubmitAnswerLost, DbType
    <2>6. ASSUME NEW j \in Jobs, SubmitRejected(w, j) PROVE Good
      BY <2>6 DEF SubmitRejected, DbType, ChainType
    <2>7. ASSUME NEW j \in Jobs, RecordSubmitted(w, j) PROVE Good
      <3>1. tx[w] \in TxIds \cup {NoTx}
        BY DEF WorkerType
      <3>2. DbType'
        BY <2>7, <3>1, StatementsTyped DEF RecordSubmitted, DbType
      <3>3. QED
        BY <2>7, <3>2 DEF RecordSubmitted, ChainType
    <2>8. ASSUME NEW j \in Jobs, ReceiptSuccess(w, j) \/ ReceiptReverted(w, j) PROVE Good
      BY <2>8 DEF ReceiptSuccess, ReceiptReverted, DbType, ChainType
    <2>9. ASSUME NEW j \in Jobs, ReceiptTimeout(w, j) PROVE Good
      BY <2>9 DEF ReceiptTimeout, DbType, ChainType
    <2>10. ASSUME NEW j \in Jobs, Promote(w, j) PROVE Good
      <3>1. tx[w] \in TxIds \cup {NoTx}
        BY DEF WorkerType
      <3>2. DbType'
        BY <2>10, <3>1, StatementsTyped DEF Promote, DbType
      <3>3. QED
        BY <2>10, <3>2 DEF Promote, ChainType
    <2>11. ASSUME NEW j \in Jobs, LogTransfer(w, j) PROVE Good
      <3>1. tx[w] \in TxIds
        BY <2>11 DEF LogTransfer, Carries, InFlight
      <3>2. DbType'
        BY <2>11, <3>1 DEF LogTransfer, LogOnchainTx, DbType
      <3>3. QED
        BY <2>11, <3>2 DEF LogTransfer, ChainType
    <2>12. ASSUME NEW j \in Jobs, Close(w, j) PROVE Good
      <3>1. DbType'
        BY <2>12, StatementsTyped DEF Close, DbType
      <3>2. QED
        BY <2>12, <3>1 DEF Close, ChainType
    <2>13. ASSUME NEW j \in Jobs, MarkFailed(w, j) PROVE Good
      BY <2>13 DEF MarkFailed, MarkOutboxFailed, DbType, ChainType
    <2>14. ASSUME NEW j \in Jobs, HardFail(w, j) PROVE Good
      <3>1. DbType'
        BY <2>14, StatementsTyped DEF HardFail, DbType
      <3>2. QED
        BY <2>14, <3>1 DEF HardFail, ChainType
    <2>15. QED
      BY <1>7, <2>1, <2>2, <2>3, <2>4, <2>5, <2>6, <2>7, <2>8, <2>9, <2>10, <2>11,
         <2>12, <2>13, <2>14 DEF Step
  <1>8. CASE UNCHANGED vars
    BY <1>8 DEF vars, DbType, ChainType, WorkerType
  <1>9. QED
    BY <1>1, <1>2, <1>3, <1>4, <1>5, <1>6, <1>7, <1>8 DEF Next, Environment

-----------------------------------------------------------------------------
(* The chain's side of the argument. *)

\* Only a broadcast and a block touch the transactions.
LEMMA ChainMoves ==
  ASSUME [Next]_vars
  PROVE  \/ UNCHANGED txs
         \/ \E t \in TxIds : Mine(t)
         \/ \E j \in Jobs, t \in TxIds : Broadcast(j, t)
  <1> USE DEF chainVars
  <1>1. ASSUME Environment
        PROVE  UNCHANGED txs \/ \E t \in TxIds : Mine(t)
    BY <1>1 DEF Environment, InsertSettlement, EnqueueGatewayOutbox, RefundMark, Lapse, Replenish, Crash
  <1>2. ASSUME NEW w \in Workers, Step(w)
        PROVE  UNCHANGED txs \/ \E j \in Jobs, t \in TxIds : Broadcast(j, t)
    <2>1. ASSUME NEW j \in Jobs, NEW t \in TxIds, Submit(w, j, t) \/ SubmitAnswerLost(w, j, t)
          PROVE  Broadcast(j, t)
      BY <2>1 DEF Submit, SubmitAnswerLost
    <2>2. ASSUME NEW j \in Jobs,
                 \/ SubmitRejected(w, j) \/ RecordSubmitted(w, j)
                 \/ ReceiptSuccess(w, j) \/ ReceiptReverted(w, j) \/ ReceiptTimeout(w, j)
                 \/ Promote(w, j) \/ LogTransfer(w, j) \/ Close(w, j)
                 \/ MarkFailed(w, j) \/ HardFail(w, j)
          PROVE  UNCHANGED txs
      BY <2>2 DEF SubmitRejected, RecordSubmitted, ReceiptSuccess, ReceiptReverted,
         ReceiptTimeout, Promote, LogTransfer, Close, MarkFailed, HardFail
    <2>3. CASE ClaimSelect(w) \/ ClaimCommit(w) \/ ClaimFails(w)
      BY <2>3 DEF ClaimSelect, ClaimCommit, ClaimFails
    <2>4. QED
      BY <1>2, <2>1, <2>2, <2>3 DEF Step
  <1>3. CASE UNCHANGED vars
    BY <1>3 DEF vars
  <1>4. QED
    BY <1>1, <1>2, <1>3 DEF Next

\* A broadcast transaction keeps its job, and a success is final.
LEMMA SuccessIsFinal ==
  ASSUME TypeOK, [Next]_vars, NEW t \in TxIds, txs[t].status # "unsent"
  PROVE  /\ txs'[t].job = txs[t].job
         /\ txs'[t].status # "unsent"
         /\ txs[t].status = "success" => txs'[t] = txs[t]
  <1>1. CASE UNCHANGED txs
    BY <1>1
  <1>2. ASSUME NEW s \in TxIds, Mine(s)
        PROVE  /\ txs'[t].job = txs[t].job
               /\ txs'[t].status # "unsent"
               /\ txs[t].status = "success" => txs'[t] = txs[t]
    BY <1>2 DEF Mine, TypeOK
  <1>3. ASSUME NEW j \in Jobs, NEW s \in TxIds, Broadcast(j, s)
        PROVE  txs'[t] = txs[t]
    BY <1>3 DEF Broadcast, TypeOK
  <1>4. QED
    BY <1>1, <1>2, <1>3, ChainMoves

LEMMA ExecutedIsFinal ==
  ASSUME TypeOK, [Next]_vars, NEW j \in Jobs, Executed(j)
  PROVE  Executed(j)'
  BY SuccessIsFinal DEF Executed

-----------------------------------------------------------------------------
(* The worker carries the hash of its own row. *)

LEMMA CarriesInit == Init => Carries
  BY DEF Init, Carries, At, InFlight

LEMMA CarriesStep == TypeOK /\ Carries /\ [Next]_vars => Carries'
  <1> DEFINE Held(v, i, l) ==
        /\ tx[v] \in TxIds
        /\ txs[tx[v]].job = i
        /\ txs[tx[v]].status # "unsent"
        /\ l \in PastReceipt => txs[tx[v]].status = "success"
  <1> SUFFICES ASSUME TypeOK, Carries, [Next]_vars,
                      NEW v \in Workers, NEW i \in Jobs, NEW l \in InFlight, At(v, i, l)'
               PROVE  Held(v, i, l)'
    BY DEF Carries
  <1>1. ASSUME NEW k \in InFlight, At(v, i, k), tx'[v] = tx[v],
               l \in PastReceipt => txs[tx[v]].status = "success"
        PROVE  Held(v, i, l)'
    <2>1. Held(v, i, k)
      BY <1>1 DEF Carries
    <2>2. QED
      BY <1>1, <2>1, SuccessIsFinal
  <1>2. ASSUME pc'[v] = pc[v], todo'[v] = todo[v], tx'[v] = tx[v]
        PROVE  Held(v, i, l)'
    <2>1. At(v, i, l)
      BY <1>2 DEF At
    <2>2. Held(v, i, l)
      BY <2>1 DEF Carries
    <2>3. QED
      BY <1>1, <1>2, <2>1, <2>2
  <1>3. CASE UNCHANGED workerVars
    BY <1>2, <1>3 DEF workerVars
  <1>4. ASSUME NEW w \in Workers, w # v, Step(w) \/ Crash(w)
        PROVE  Held(v, i, l)'
    <2>1. pc'[v] = pc[v] /\ todo'[v] = todo[v] /\ tx'[v] = tx[v]
      BY <1>4 DEF Step, Crash, ClaimSelect, ClaimCommit, ClaimFails, Submit,
         SubmitAnswerLost, SubmitRejected, RecordSubmitted, ReceiptSuccess, ReceiptReverted,
         ReceiptTimeout, Promote, LogTransfer, Close, MarkFailed, HardFail,
         Goto, Catch, Finish, Abort, TypeOK
    <2>2. QED
      BY <1>2, <2>1
  <1>5. ASSUME Step(v) \/ Crash(v)
        PROVE  Held(v, i, l)'
    <2>0. /\ pc'[v] = l
          /\ l \notin {"idle", "claiming", "submitting", "catching", "failing"}
          /\ pc \in [Workers -> Labels]
      BY DEF At, InFlight, TypeOK
    <2>1. CASE Crash(v)
      BY <2>0, <2>1 DEF Crash, Abort
    <2>2. CASE ClaimSelect(v) \/ ClaimCommit(v) \/ ClaimFails(v)
      BY <2>0, <2>2 DEF ClaimSelect, ClaimCommit, ClaimFails, Goto, Abort
    <2>3. ASSUME NEW j \in Jobs, NEW t \in TxIds, Submit(v, j, t)
          PROVE  Held(v, i, l)'
      <3>1. /\ l = "recording"
            /\ tx'[v] = t
            /\ todo'[v] = todo[v]
        BY <2>0, <2>3 DEF Submit, TypeOK
      <3>2. i = j
        BY <2>3, <3>1, GatewayWorkerAssumption DEF Submit, At
      <3>3. txs'[t] = [job |-> j, status |-> "pending"]
        BY <2>3 DEF Submit, Broadcast, TypeOK
      <3>4. QED
        BY <3>1, <3>2, <3>3 DEF PastReceipt
    <2>4. ASSUME NEW j \in Jobs, NEW t \in TxIds, SubmitAnswerLost(v, j, t)
          PROVE  Held(v, i, l)'
      BY <2>0, <2>4 DEF SubmitAnswerLost, Catch
    <2>5. ASSUME NEW j \in Jobs,
                 SubmitRejected(v, j) \/ ReceiptReverted(v, j) \/ ReceiptTimeout(v, j)
          PROVE  Held(v, i, l)'
      BY <2>0, <2>5 DEF SubmitRejected, ReceiptReverted, ReceiptTimeout, Catch
    <2>6. ASSUME NEW j \in Jobs, RecordSubmitted(v, j)
          PROVE  Held(v, i, l)'
      <3>1. pc[v] = "recording" /\ l = "awaiting" /\ todo'[v] = todo[v] /\ tx'[v] = tx[v]
        BY <2>0, <2>6 DEF RecordSubmitted, At, Goto, Catch
      <3>2. At(v, i, "recording")
        BY <3>1 DEF At
      <3>3. QED
        BY <1>1, <3>1, <3>2 DEF InFlight, PastReceipt
    <2>7. ASSUME NEW j \in Jobs, ReceiptSuccess(v, j)
          PROVE  Held(v, i, l)'
      <3>1. pc[v] = "awaiting" /\ todo'[v] = todo[v] /\ tx'[v] = tx[v]
        BY <2>7 DEF ReceiptSuccess, At, Goto
      <3>2. At(v, i, "awaiting")
        BY <3>1 DEF At
      <3>3. txs[tx[v]].status = "success"
        BY <2>7 DEF ReceiptSuccess
      <3>4. QED
        BY <1>1, <3>1, <3>2, <3>3 DEF InFlight
    <2>8. ASSUME NEW j \in Jobs, Promote(v, j)
          PROVE  Held(v, i, l)'
      <3>1. pc[v] = "promoting" /\ todo'[v] = todo[v] /\ tx'[v] = tx[v]
        BY <2>0, <2>8 DEF Promote, At, Goto, Catch
      <3>2. At(v, i, "promoting")
        BY <3>1 DEF At
      <3>3. Held(v, i, "promoting")
        BY <3>2 DEF Carries, InFlight
      <3>4. QED
        BY <1>1, <3>1, <3>2, <3>3 DEF InFlight, PastReceipt
    <2>9. ASSUME NEW j \in Jobs, LogTransfer(v, j)
          PROVE  Held(v, i, l)'
      <3>1. pc[v] = "logging" /\ todo'[v] = todo[v] /\ tx'[v] = tx[v]
        BY <2>0, <2>9 DEF LogTransfer, At, Goto, Catch
      <3>2. At(v, i, "logging")
        BY <3>1 DEF At
      <3>3. Held(v, i, "logging")
        BY <3>2 DEF Carries, InFlight
      <3>4. QED
        BY <1>1, <3>1, <3>2, <3>3 DEF InFlight, PastReceipt
    <2>10. ASSUME NEW j \in Jobs, Close(v, j)
           PROVE  Held(v, i, l)'
      BY <2>0, <2>10 DEF Close, Finish, Catch
    <2>11. ASSUME NEW j \in Jobs, MarkFailed(v, j) \/ HardFail(v, j)
           PROVE  Held(v, i, l)'
      BY <2>0, <2>11 DEF MarkFailed, HardFail, Goto, Finish, Abort
    <2>12. QED
      BY <1>5, <2>1, <2>2, <2>3, <2>4, <2>5, <2>6, <2>7, <2>8, <2>9, <2>10, <2>11 DEF Step
  <1>6. QED
    <2>1. UNCHANGED workerVars \/ \E w \in Workers : Step(w) \/ Crash(w)
      BY DEF Next, Environment, vars, InsertSettlement, EnqueueGatewayOutbox, RefundMark, Lapse, Replenish, Mine
    <2>2. QED
      BY <1>3, <1>4, <1>5, <2>1

LEMMA IInvTypeCarries == Spec => [](TypeOK /\ Carries)
  BY TypeInit, TypeStep, CarriesInit, CarriesStep, PTL DEF Spec

\* The type invariant holds in every reachable state.
THEOREM TypeCorrect == Spec => []TypeOK
  BY IInvTypeCarries, PTL

-----------------------------------------------------------------------------
(* What may happen to each table. *)

\* The hash a worker is at rest with past the receipt proves its row.
LEMMA CarriedHashProves ==
  ASSUME TypeOK, Carries, NEW w \in Workers, NEW j \in Jobs, NEW l \in PastReceipt,
         At(w, j, l)
  PROVE  tx[w] \in TxIds /\ Proves(tx[w], j)
  <1>1. tx[w] \in TxIds /\ txs[tx[w]].job = j /\ txs[tx[w]].status = "success"
    BY DEF Carries, InFlight, PastReceipt
  <1>2. txs[tx[w]] = [job |-> j, status |-> "success"]
    BY <1>1 DEF TypeOK
  <1>3. QED
    BY <1>1, <1>2 DEF Proves

LEMMA SettlementMoves ==
  ASSUME TypeOK, Carries, [Next]_vars
  PROVE  \/ UNCHANGED settlement
         \/ \E j \in Jobs : InsertSettlement(j)
         \/ \E j \in Jobs, t \in TxIds : MarkSettlementSubmitted(j, t)
         \/ \E j \in Jobs, t \in TxIds : PromoteSettlement(j, t) /\ Proves(t, j)
         \/ \E j \in Jobs :
              /\ FailSettlement(j)
              /\ settlement[j].status # "none" \/ \E w \in Workers : j \in todo[w]
  <1> DEFINE Moves ==
         \/ UNCHANGED settlement
         \/ \E j \in Jobs : InsertSettlement(j)
         \/ \E j \in Jobs, t \in TxIds : MarkSettlementSubmitted(j, t)
         \/ \E j \in Jobs, t \in TxIds : PromoteSettlement(j, t) /\ Proves(t, j)
         \/ \E j \in Jobs :
              /\ FailSettlement(j)
              /\ settlement[j].status # "none" \/ \E w \in Workers : j \in todo[w]
  <1> SUFFICES Moves OBVIOUS
  <1> USE DEF dbVars
  <1>1. ASSUME Environment PROVE Moves
    BY <1>1 DEF Environment, EnqueueGatewayOutbox, RefundMark, Lapse, Replenish, Mine, Crash
  <1>2. ASSUME NEW w \in Workers, Step(w) PROVE Moves
    <2>1. ASSUME NEW j \in Jobs, RecordSubmitted(w, j) PROVE Moves
      <3>1. tx[w] \in TxIds
        BY <2>1 DEF RecordSubmitted, Carries, InFlight
      <3>2. QED
        BY <2>1, <3>1 DEF RecordSubmitted
    <2>2. ASSUME NEW j \in Jobs, Promote(w, j) PROVE Moves
      <3>1. tx[w] \in TxIds /\ Proves(tx[w], j)
        BY <2>2, CarriedHashProves DEF Promote, PastReceipt
      <3>2. QED
        BY <2>2, <3>1 DEF Promote
    <2>3. ASSUME NEW j \in Jobs, HardFail(w, j) PROVE Moves
      BY <2>3 DEF HardFail, At
    <2>4. ASSUME NEW j \in Jobs,
                 \/ SubmitRejected(w, j) \/ ReceiptSuccess(w, j) \/ ReceiptReverted(w, j)
                 \/ ReceiptTimeout(w, j) \/ LogTransfer(w, j) \/ Close(w, j) \/ MarkFailed(w, j)
          PROVE  UNCHANGED settlement
      BY <2>4 DEF SubmitRejected, ReceiptSuccess, ReceiptReverted, ReceiptTimeout,
         LogTransfer, Close, MarkFailed
    <2>5. ASSUME NEW j \in Jobs, NEW t \in TxIds, Submit(w, j, t) \/ SubmitAnswerLost(w, j, t)
          PROVE  UNCHANGED settlement
      BY <2>5 DEF Submit, SubmitAnswerLost
    <2>6. CASE ClaimSelect(w) \/ ClaimCommit(w) \/ ClaimFails(w)
      BY <2>6 DEF ClaimSelect, ClaimCommit, ClaimFails
    <2>7. QED
      BY <1>2, <2>1, <2>2, <2>3, <2>4, <2>5, <2>6 DEF Step
  <1>3. CASE UNCHANGED vars
    BY <1>3 DEF vars
  <1>4. QED
    BY <1>1, <1>2, <1>3 DEF Next

LEMMA OutboxMoves ==
  ASSUME TypeOK, Carries, [Next]_vars
  PROVE  \/ UNCHANGED outbox
         \/ \E j \in Jobs : EnqueueGatewayOutbox(j)
         \/ \E rows \in SUBSET Jobs : CountAttempts(rows)
         \/ \E j \in Jobs : MarkOutboxDone(j) /\ Executed(j)
  <1> DEFINE Moves ==
         \/ UNCHANGED outbox
         \/ \E j \in Jobs : EnqueueGatewayOutbox(j)
         \/ \E rows \in SUBSET Jobs : CountAttempts(rows)
         \/ \E j \in Jobs : MarkOutboxDone(j) /\ Executed(j)
  <1> SUFFICES Moves OBVIOUS
  <1> USE DEF dbVars
  <1>1. ASSUME Environment PROVE Moves
    BY <1>1 DEF Environment, InsertSettlement, RefundMark, Lapse, Replenish, Mine, Crash
  <1>2. ASSUME NEW w \in Workers, Step(w) PROVE Moves
    <2>1. ASSUME NEW j \in Jobs, Close(w, j) PROVE Moves
      <3>1. Executed(j)
        BY <2>1, CarriedHashProves DEF Close, PastReceipt, Proves, Executed
      <3>2. QED
        BY <2>1, <3>1 DEF Close
    <2>2. CASE ClaimSelect(w) \/ ClaimCommit(w) \/ ClaimFails(w)
      <3>1. todo[w] \in SUBSET Jobs
        BY DEF TypeOK
      <3>2. QED
        BY <2>2, <3>1 DEF ClaimSelect, ClaimCommit, ClaimFails
    <2>3. ASSUME NEW j \in Jobs,
                 \/ SubmitRejected(w, j) \/ RecordSubmitted(w, j)
                 \/ ReceiptSuccess(w, j) \/ ReceiptReverted(w, j) \/ ReceiptTimeout(w, j)
                 \/ Promote(w, j) \/ LogTransfer(w, j) \/ MarkFailed(w, j) \/ HardFail(w, j)
          PROVE  UNCHANGED outbox
      BY <2>3 DEF SubmitRejected, RecordSubmitted, ReceiptSuccess, ReceiptReverted,
         ReceiptTimeout, Promote, LogTransfer, MarkFailed, MarkOutboxFailed, HardFail
    <2>4. ASSUME NEW j \in Jobs, NEW t \in TxIds, Submit(w, j, t) \/ SubmitAnswerLost(w, j, t)
          PROVE  UNCHANGED outbox
      BY <2>4 DEF Submit, SubmitAnswerLost
    <2>5. QED
      BY <1>2, <2>1, <2>2, <2>3, <2>4 DEF Step
  <1>3. CASE UNCHANGED vars
    BY <1>3 DEF vars
  <1>4. QED
    BY <1>1, <1>2, <1>3 DEF Next

LEMMA LogMoves ==
  ASSUME TypeOK, Carries, [Next]_vars
  PROVE  \/ UNCHANGED logged
         \/ \E t \in TxIds : LogOnchainTx(t) /\ txs[t].status = "success"
  <1> USE DEF dbVars
  <1>1. ASSUME Environment PROVE UNCHANGED logged
    BY <1>1 DEF Environment, InsertSettlement, EnqueueGatewayOutbox, RefundMark, Lapse, Replenish, Mine, Crash
  <1>2. ASSUME NEW w \in Workers, Step(w)
        PROVE  UNCHANGED logged \/ \E t \in TxIds : LogOnchainTx(t) /\ txs[t].status = "success"
    <2>1. ASSUME NEW j \in Jobs, LogTransfer(w, j)
          PROVE  UNCHANGED logged \/ \E t \in TxIds : LogOnchainTx(t) /\ txs[t].status = "success"
      <3>1. Proves(tx[w], j)
        BY <2>1, CarriedHashProves DEF LogTransfer, PastReceipt
      <3>2. tx[w] \in TxIds /\ txs[tx[w]].status = "success"
        BY <3>1 DEF Proves
      <3>3. QED
        BY <2>1, <3>2 DEF LogTransfer
    <2>2. ASSUME NEW j \in Jobs,
                 \/ SubmitRejected(w, j) \/ RecordSubmitted(w, j)
                 \/ ReceiptSuccess(w, j) \/ ReceiptReverted(w, j) \/ ReceiptTimeout(w, j)
                 \/ Promote(w, j) \/ Close(w, j) \/ MarkFailed(w, j) \/ HardFail(w, j)
          PROVE  UNCHANGED logged
      BY <2>2 DEF SubmitRejected, RecordSubmitted, ReceiptSuccess, ReceiptReverted,
         ReceiptTimeout, Promote, Close, MarkFailed, HardFail
    <2>3. ASSUME NEW j \in Jobs, NEW t \in TxIds, Submit(w, j, t) \/ SubmitAnswerLost(w, j, t)
          PROVE  UNCHANGED logged
      BY <2>3 DEF Submit, SubmitAnswerLost
    <2>4. CASE ClaimSelect(w) \/ ClaimCommit(w) \/ ClaimFails(w)
      BY <2>4 DEF ClaimSelect, ClaimCommit, ClaimFails
    <2>5. QED
      BY <1>2, <2>1, <2>2, <2>3, <2>4 DEF Step
  <1>3. CASE UNCHANGED vars
    BY <1>3 DEF vars
  <1>4. QED
    BY <1>1, <1>2, <1>3 DEF Next

-----------------------------------------------------------------------------
(* A receipt behind every claim. *)

LEMMA ReceiptInit == Init => ReceiptBehindEveryClaim
  BY DEF Init, ReceiptBehindEveryClaim

LEMMA ReceiptStep ==
  TypeOK /\ Carries /\ ReceiptBehindEveryClaim /\ [Next]_vars => ReceiptBehindEveryClaim'
  <1> SUFFICES ASSUME TypeOK, Carries, ReceiptBehindEveryClaim, [Next]_vars
               PROVE  ReceiptBehindEveryClaim'
    OBVIOUS
  <1>1. ASSUME NEW i \in Jobs, (settlement[i].status = "settled")'
        PROVE  Proves(settlement[i].hash, i)'
    <2>1. ASSUME NEW h, Proves(h, i) PROVE Proves(h, i)'
      BY <2>1, SuccessIsFinal DEF Proves
    <2>2. CASE settlement'[i] = settlement[i]
      BY <1>1, <2>1, <2>2 DEF ReceiptBehindEveryClaim
    <2>3. ASSUME NEW j \in Jobs, InsertSettlement(j)
          PROVE  settlement'[i].status = "pending" \/ settlement'[i] = settlement[i]
      BY <2>3 DEF InsertSettlement, TypeOK
    <2>4. ASSUME NEW j \in Jobs, NEW t \in TxIds, MarkSettlementSubmitted(j, t)
          PROVE  settlement'[i].status = "submitted" \/ settlement'[i] = settlement[i]
      BY <2>4 DEF MarkSettlementSubmitted, TypeOK
    <2>5. ASSUME NEW j \in Jobs, NEW t \in TxIds, PromoteSettlement(j, t), Proves(t, j)
          PROVE  settlement'[i] = settlement[i] \/ Proves(settlement'[i].hash, i)
      BY <2>5 DEF PromoteSettlement, TypeOK
    <2>6. ASSUME NEW j \in Jobs, FailSettlement(j)
          PROVE  settlement'[i].status = "failed" \/ settlement'[i] = settlement[i]
      BY <2>6 DEF FailSettlement, TypeOK
    <2>7. \/ settlement'[i] = settlement[i]
          \/ Proves(settlement'[i].hash, i)
      BY <1>1, <2>3, <2>4, <2>5, <2>6, SettlementMoves
    <2>8. QED
      BY <2>1, <2>2, <2>7 DEF Proves
  <1>2. ASSUME NEW i \in Jobs, (outbox[i].row = "done")'
        PROVE  Executed(i)'
    <2>1. ASSUME NEW j \in Jobs, EnqueueGatewayOutbox(j) PROVE outbox[i].row = "done"
      BY <1>2, <2>1 DEF EnqueueGatewayOutbox, TypeOK
    <2>2. ASSUME NEW rows \in SUBSET Jobs, CountAttempts(rows) PROVE outbox[i].row = "done"
      BY <1>2, <2>2 DEF CountAttempts, TypeOK
    <2>3. ASSUME NEW j \in Jobs, MarkOutboxDone(j), Executed(j)
          PROVE  outbox[i].row = "done" \/ Executed(i)
      BY <1>2, <2>3 DEF MarkOutboxDone, TypeOK
    <2>4. Executed(i)
      BY <1>2, <2>1, <2>2, <2>3, OutboxMoves DEF ReceiptBehindEveryClaim
    <2>5. QED
      BY <2>4, ExecutedIsFinal
  <1>3. ASSUME NEW t \in logged' PROVE (txs[t].status = "success")'
    <2>1. t \in TxIds /\ txs[t].status = "success"
      BY <1>3, LogMoves DEF LogOnchainTx, ReceiptBehindEveryClaim, TypeOK
    <2>2. QED
      BY <2>1, SuccessIsFinal
  <1>4. QED
    BY <1>1, <1>2, <1>3 DEF ReceiptBehindEveryClaim

\* A settled row, a logged transfer and a done outbox row each have a receipt of
\* status success behind them: for any number of workers, crashes and errors.
THEOREM ReceiptsBehindClaims == Spec => []ReceiptBehindEveryClaim
  BY IInvTypeCarries, ReceiptInit, ReceiptStep, PTL DEF Spec

-----------------------------------------------------------------------------
(* The hash of a settled payment is final, and the worker implements the   *)
(* settlement book.                                                        *)

(* The chain executes an authorization once: whatever number of workers    *)
(* submit it, from whatever number of rows, one hash proves it.            *)
OneTransferEach ==
  \A j, k \in Jobs \ Foreign : \A t, u \in TxIds :
    AuthOf[j] = AuthOf[k] /\ Proves(t, j) /\ Proves(u, k) => t = u

(* A row in the queue, in a worker's hands or on the chain has a settlement. *)
BookedRows ==
  /\ \A j \in Jobs : outbox[j].row # "absent" => settlement[j].status # "none"
  /\ \A w \in Workers : \A j \in todo[w] : settlement[j].status # "none"
  /\ \A t \in TxIds : txs[t].status # "unsent" =>
       txs[t].job \in Jobs /\ settlement[txs[t].job].status # "none"

-----------------------------------------------------------------------------
LEMMA OneTransferInit == Init => OneTransferEach
  BY DEF Init, OneTransferEach, Proves

LEMMA OneTransferStep == TypeOK /\ OneTransferEach /\ [Next]_vars => OneTransferEach'
  <1> SUFFICES ASSUME TypeOK, OneTransferEach, [Next]_vars,
                      NEW j \in Jobs \ Foreign, NEW k \in Jobs \ Foreign,
                      NEW t \in TxIds, NEW u \in TxIds,
                      AuthOf[j] = AuthOf[k], Proves(t, j)', Proves(u, k)'
               PROVE  t = u
    BY DEF OneTransferEach, Proves
  <1>1. CASE UNCHANGED txs
    BY <1>1 DEF OneTransferEach, Proves
  <1>2. ASSUME NEW i \in Jobs, NEW s \in TxIds, Broadcast(i, s) PROVE t = u
    <2>1. Proves(t, j) /\ Proves(u, k)
      BY <1>2 DEF Broadcast, Proves, TypeOK
    <2>2. QED
      BY <2>1 DEF OneTransferEach
  <1>3. ASSUME NEW s \in TxIds, Mine(s) PROVE t = u
    <2>1. \A i \in Jobs : \A x \in TxIds \ {s} : Proves(x, i)' => Proves(x, i)
      BY <1>3 DEF Mine, Proves, TypeOK
    <2>2. CASE t # s /\ u # s
      BY <2>1, <2>2 DEF OneTransferEach
    <2>3. ASSUME NEW i \in Jobs \ Foreign, NEW l \in Jobs \ Foreign, AuthOf[i] = AuthOf[l],
                 NEW x \in TxIds \ {s}, Proves(s, i)', Proves(x, l)'
          PROVE  FALSE
      <3>1. txs[s].job = i /\ WouldSucceed(i)
        BY <1>3, <2>3 DEF Mine, Proves, TypeOK
      <3>2. ~Used(i) /\ l \in Twins(i)
        BY <2>3, <3>1 DEF WouldSucceed, Twins
      <3>3. ~Executed(l)
        BY <3>2 DEF Used, Moved
      <3>4. QED
        BY <2>1, <2>3, <3>3 DEF Executed, Proves
    <2>4. CASE t = s /\ u # s
      BY <2>3, <2>4
    <2>5. CASE t # s /\ u = s
      BY <2>3, <2>5
    <2>6. QED
      BY <2>2, <2>4, <2>5
  <1>4. QED
    BY <1>1, <1>2, <1>3, ChainMoves

LEMMA IInvOneTransfer == Spec => [](TypeOK /\ Carries /\ OneTransferEach)
  BY IInvTypeCarries, OneTransferInit, OneTransferStep, PTL DEF Spec

\* A settlement that has been shown as settled keeps its hash, whoever else
\* still submits, promotes, fails or refund-marks the row.
THEOREM HashIsFinal == Spec => SettledHashIsFinal
  <1> DEFINE Kept ==
        \A j \in Jobs \ Foreign :
          Proves(settlement[j].hash, j) /\ settlement[j].status \in {"settled", "failed"}
            => settlement'[j].hash = settlement[j].hash
  <1>1. ASSUME TypeOK, Carries, OneTransferEach, [Next]_vars PROVE Kept
    <2> SUFFICES ASSUME NEW j \in Jobs \ Foreign, Proves(settlement[j].hash, j),
                        settlement[j].status \in {"settled", "failed"}
                 PROVE  settlement'[j].hash = settlement[j].hash
      OBVIOUS
    <2> DEFINE Same == settlement'[j].hash = settlement[j].hash
    <2>1. ASSUME NEW i \in Jobs, InsertSettlement(i) PROVE Same
      BY <1>1, <2>1 DEF InsertSettlement, TypeOK
    <2>2. ASSUME NEW i \in Jobs, NEW t \in TxIds, MarkSettlementSubmitted(i, t) PROVE Same
      BY <1>1, <2>2 DEF MarkSettlementSubmitted, TypeOK
    <2>3. ASSUME NEW i \in Jobs, NEW t \in TxIds, PromoteSettlement(i, t), Proves(t, i)
          PROVE  Same
      <3>1. CASE i = j
        <4>1. t = settlement[j].hash
          BY <1>1, <2>3, <3>1 DEF OneTransferEach, Proves
        <4>2. QED
          BY <1>1, <2>3, <3>1, <4>1 DEF PromoteSettlement, TypeOK
      <3>2. CASE i # j
        BY <1>1, <2>3, <3>2 DEF PromoteSettlement, TypeOK
      <3>3. QED
        BY <3>1, <3>2
    <2>4. ASSUME NEW i \in Jobs, FailSettlement(i) PROVE Same
      BY <1>1, <2>4 DEF FailSettlement, TypeOK
    <2>5. CASE UNCHANGED settlement
      BY <2>5
    <2>6. QED
      BY <1>1, <2>1, <2>2, <2>3, <2>4, <2>5, SettlementMoves
  <1>2. QED
    BY <1>1, IInvOneTransfer, PTL DEF Spec, SettledHashIsFinal

-----------------------------------------------------------------------------
(* What a worker works on has been booked. *)

LEMMA SettlementStays ==
  ASSUME TypeOK, Carries, [Next]_vars, NEW j \in Jobs, settlement[j].status # "none"
  PROVE  settlement'[j].status # "none"
  <1> DEFINE Stays == settlement'[j].status # "none"
  <1>1. ASSUME NEW i \in Jobs, InsertSettlement(i) PROVE Stays
    BY <1>1 DEF InsertSettlement, TypeOK
  <1>2. ASSUME NEW i \in Jobs, NEW t \in TxIds, MarkSettlementSubmitted(i, t) PROVE Stays
    BY <1>2 DEF MarkSettlementSubmitted, TypeOK
  <1>3. ASSUME NEW i \in Jobs, NEW t \in TxIds, PromoteSettlement(i, t) PROVE Stays
    BY <1>3 DEF PromoteSettlement, TypeOK
  <1>4. ASSUME NEW i \in Jobs, FailSettlement(i) PROVE Stays
    BY <1>4 DEF FailSettlement, TypeOK
  <1>5. CASE UNCHANGED settlement
    BY <1>5
  <1>6. QED
    BY <1>1, <1>2, <1>3, <1>4, <1>5, SettlementMoves

\* A worker's rows are those it had, or open ones it has just selected.
LEMMA TodoMoves ==
  ASSUME TypeOK, [Next]_vars, NEW w \in Workers
  PROVE  \A j \in todo'[w] : j \in todo[w] \/ (j \in Jobs /\ outbox[j].row = "open")
  <1> DEFINE Goal == \A j \in todo'[w] : j \in todo[w] \/ (j \in Jobs /\ outbox[j].row = "open")
  <1>1. CASE UNCHANGED workerVars
    BY <1>1 DEF workerVars
  <1>2. ASSUME NEW v \in Workers, Crash(v) PROVE Goal
    BY <1>2 DEF Crash, Abort, TypeOK
  <1>3. ASSUME NEW v \in Workers, Step(v) PROVE Goal
    <2>1. CASE ClaimSelect(v)
      BY <2>1 DEF ClaimSelect, Oldest, TypeOK
    <2>2. CASE ClaimCommit(v) \/ ClaimFails(v)
      <3>1. todo' = todo \/ Abort(v)
        BY <2>2 DEF ClaimCommit, ClaimFails, Goto
      <3>2. QED
        BY <3>1 DEF Abort, TypeOK
    <2>3. ASSUME NEW j \in Jobs, NEW t \in TxIds, Submit(v, j, t) \/ SubmitAnswerLost(v, j, t)
          PROVE  Goal
      BY <2>3 DEF Submit, SubmitAnswerLost, Catch
    <2>4. ASSUME NEW j \in Jobs,
                 \/ SubmitRejected(v, j) \/ RecordSubmitted(v, j)
                 \/ ReceiptSuccess(v, j) \/ ReceiptReverted(v, j) \/ ReceiptTimeout(v, j)
                 \/ Promote(v, j) \/ LogTransfer(v, j)
          PROVE  Goal
      BY <2>4 DEF SubmitRejected, RecordSubmitted, ReceiptSuccess, ReceiptReverted,
         ReceiptTimeout, Promote, LogTransfer, Goto, Catch
    <2>5. ASSUME NEW j \in Jobs, Close(v, j) \/ MarkFailed(v, j) \/ HardFail(v, j)
          PROVE  Goal
      <3>1. todo' = todo \/ Finish(v, j) \/ Abort(v)
        BY <2>5 DEF Close, MarkFailed, HardFail, Goto, Catch
      <3>2. todo \in [Workers -> SUBSET Jobs]
        BY DEF TypeOK
      <3>3. CASE Finish(v, j)
        BY <3>2, <3>3 DEF Finish
      <3>4. CASE Abort(v)
        BY <3>2, <3>4 DEF Abort
      <3>5. QED
        BY <3>1, <3>3, <3>4
    <2>6. QED
      BY <1>3, <2>1, <2>2, <2>3, <2>4, <2>5 DEF Step
  <1>4. QED
    <2>1. UNCHANGED workerVars \/ \E v \in Workers : Step(v) \/ Crash(v)
      BY DEF Next, Environment, vars, InsertSettlement, EnqueueGatewayOutbox, RefundMark,
         Lapse, Replenish, Mine
    <2>2. QED
      BY <1>1, <1>2, <1>3, <2>1

\* Only a row a worker holds is broadcast.
LEMMA SentMoves ==
  ASSUME [Next]_vars
  PROVE  \/ UNCHANGED txs
         \/ \E t \in TxIds : Mine(t)
         \/ \E w \in Workers, j \in Jobs, t \in TxIds : j \in todo[w] /\ Broadcast(j, t)
  <1>1. ASSUME Environment
        PROVE  UNCHANGED txs \/ \E t \in TxIds : Mine(t)
    BY <1>1 DEF Environment, InsertSettlement, EnqueueGatewayOutbox, RefundMark, Lapse,
       Replenish, Crash, chainVars
  <1>2. ASSUME NEW w \in Workers, Step(w), txs' # txs
        PROVE  \E j \in Jobs, t \in TxIds : j \in todo[w] /\ Broadcast(j, t)
    <2>1. ASSUME NEW j \in Jobs, NEW t \in TxIds, Submit(w, j, t) \/ SubmitAnswerLost(w, j, t)
          PROVE  j \in todo[w] /\ Broadcast(j, t)
      BY <2>1 DEF Submit, SubmitAnswerLost, At
    <2>2. QED
      BY <1>2, <2>1 DEF Step, ClaimSelect, ClaimCommit, ClaimFails, SubmitRejected,
         RecordSubmitted, ReceiptSuccess, ReceiptReverted, ReceiptTimeout, Promote,
         LogTransfer, Close, MarkFailed, HardFail, chainVars
  <1>3. CASE UNCHANGED vars
    BY <1>3 DEF vars, chainVars
  <1>4. QED
    BY <1>1, <1>2, <1>3 DEF Next

LEMMA BookedInit == Init => BookedRows
  BY DEF Init, BookedRows

LEMMA BookedStep == TypeOK /\ Carries /\ BookedRows /\ [Next]_vars => BookedRows'
  <1> SUFFICES ASSUME TypeOK, Carries, BookedRows, [Next]_vars
               PROVE  BookedRows'
    OBVIOUS
  <1>1. ASSUME NEW j \in Jobs, (outbox[j].row # "absent")'
        PROVE  (settlement[j].status # "none")'
    <2>1. ASSUME NEW i \in Jobs, EnqueueGatewayOutbox(i)
          PROVE  outbox[j].row # "absent" \/ settlement[j].status # "none"
      BY <1>1, <2>1 DEF EnqueueGatewayOutbox, TypeOK
    <2>2. ASSUME NEW rows \in SUBSET Jobs, CountAttempts(rows)
          PROVE  outbox[j].row # "absent"
      BY <1>1, <2>2 DEF CountAttempts, TypeOK
    <2>3. ASSUME NEW i \in Jobs, MarkOutboxDone(i), Executed(i)
          PROVE  outbox[j].row # "absent" \/ settlement[j].status # "none"
      BY <1>1, <2>3 DEF MarkOutboxDone, Executed, BookedRows, TypeOK
    <2>4. settlement[j].status # "none"
      BY <1>1, <2>1, <2>2, <2>3, OutboxMoves DEF BookedRows
    <2>5. QED
      BY <2>4, SettlementStays
  <1>2. ASSUME NEW w \in Workers, NEW j \in todo'[w]
        PROVE  (settlement[j].status # "none")'
    <2>1. j \in Jobs /\ settlement[j].status # "none"
      BY <1>2, TodoMoves DEF BookedRows, TypeOK
    <2>2. QED
      BY <2>1, SettlementStays
  <1>3. ASSUME NEW t \in TxIds, (txs[t].status # "unsent")'
        PROVE  (txs[t].job \in Jobs /\ settlement[txs[t].job].status # "none")'
    <2>1. CASE txs[t].status # "unsent"
      <3>1. txs[t].job \in Jobs /\ settlement[txs[t].job].status # "none"
        BY <2>1 DEF BookedRows
      <3>2. QED
        BY <2>1, <3>1, SuccessIsFinal, SettlementStays
    <2>2. CASE txs[t].status = "unsent"
      <3>1. PICK w \in Workers, j \in Jobs, s \in TxIds : j \in todo[w] /\ Broadcast(j, s)
        <4>1. txs' # txs
          BY <1>3, <2>2
        <4>2. ~ \E s \in TxIds : Mine(s)
          BY <1>3, <2>2 DEF Mine, TypeOK
        <4>3. QED
          BY <4>1, <4>2, SentMoves
      <3>2. s = t /\ txs'[t].job = j
        BY <1>3, <2>2, <3>1 DEF Broadcast, TypeOK
      <3>3. settlement[j].status # "none"
        BY <3>1 DEF BookedRows
      <3>4. QED
        BY <3>2, <3>3, SettlementStays
    <2>3. QED
      BY <2>1, <2>2
  <1>4. QED
    BY <1>1, <1>2, <1>3 DEF BookedRows

LEMMA IInvBooked == Spec => [](TypeOK /\ Carries /\ BookedRows)
  BY IInvTypeCarries, BookedInit, BookedStep, PTL DEF Spec

-----------------------------------------------------------------------------
(* The refinement. *)

\* The books, the queue and the chain never change in the same step.
LEMMA OneAtATime ==
  ASSUME [Next]_vars
  PROVE  /\ settlement' # settlement => UNCHANGED <<outbox, txs>>
         /\ txs' # txs => UNCHANGED <<settlement, outbox>>
  <1> DEFINE Goal == /\ settlement' # settlement => UNCHANGED <<outbox, txs>>
                     /\ txs' # txs => UNCHANGED <<settlement, outbox>>
  <1> USE DEF dbVars, chainVars
  <1>1. ASSUME Environment PROVE Goal
    BY <1>1 DEF Environment, InsertSettlement, EnqueueGatewayOutbox, RefundMark, Lapse,
       Replenish, Mine, Crash
  <1>2. ASSUME NEW w \in Workers, Step(w) PROVE Goal
    BY <1>2 DEF Step, ClaimSelect, ClaimCommit, ClaimFails, Submit, SubmitAnswerLost,
       SubmitRejected, RecordSubmitted, ReceiptSuccess, ReceiptReverted, ReceiptTimeout,
       Promote, LogTransfer, Close, MarkFailed, HardFail, MarkOutboxFailed
  <1>3. CASE UNCHANGED vars
    BY <1>3 DEF vars
  <1>4. QED
    BY <1>1, <1>2, <1>3 DEF Next

LEMMA BookInit == Init => Book!Init
  BY DEF Init, Book!Init, Executed

\* A change of the settlements is an acceptance, an announcement or a verdict.
LEMMA SettlementRefines ==
  ASSUME TypeOK, Carries, BookedRows, [Next]_vars, UNCHANGED <<outbox, txs>>
  PROVE  Book!Next \/ UNCHANGED Book!bookVars
  <1> DEFINE Shown == [j \in Jobs |-> settlement[j].status]
  <1>0. UNCHANGED <<{j \in Jobs : Executed(j)}, {j \in Jobs : outbox[j].row = "done"}>>
    BY DEF Executed
  <1> USE DEF Book!Next
  <1>1. ASSUME NEW j \in Jobs, InsertSettlement(j) PROVE Book!Next
    <2>1. Book!Accept(j)
      BY <1>0, <1>1, ZenonT(40) DEF InsertSettlement, Book!Accept, TypeOK
    <2>2. QED
      BY <2>1
  <1>2. ASSUME NEW j \in Jobs, NEW t \in TxIds, MarkSettlementSubmitted(j, t)
        PROVE  Book!Next \/ UNCHANGED Book!bookVars
    <2>1. CASE settlement[j].status \in {"pending", "submitted"}
      <3>1. Book!Announce(j)
        BY <1>0, <1>2, <2>1 DEF MarkSettlementSubmitted, Book!Announce, TypeOK
      <3>2. QED
        BY <3>1
    <2>2. CASE settlement[j].status \notin {"pending", "submitted"}
      BY <1>0, <1>2, <2>2 DEF MarkSettlementSubmitted, Book!bookVars
    <2>3. QED
      BY <2>1, <2>2
  <1>3. ASSUME NEW j \in Jobs, NEW t \in TxIds, PromoteSettlement(j, t), Proves(t, j)
        PROVE  Book!Next
    <2>1. Executed(j) /\ settlement[j].status # "none"
      BY <1>3 DEF Proves, Executed, BookedRows, TypeOK
    <2>2. Book!Judge(j, "settled")
      BY <1>0, <1>3, <2>1 DEF PromoteSettlement, Book!Judge, TypeOK
    <2>3. QED
      BY <2>2
  <1>4. ASSUME NEW j \in Jobs, FailSettlement(j), settlement[j].status # "none"
        PROVE  Book!Next
    <2>1. Book!Judge(j, "failed")
      BY <1>0, <1>4 DEF FailSettlement, Book!Judge, TypeOK
    <2>2. QED
      BY <2>1
  <1>5. CASE UNCHANGED settlement
    BY <1>0, <1>5 DEF Book!bookVars
  <1>6. QED
    BY <1>1, <1>2, <1>3, <1>4, <1>5, SettlementMoves DEF BookedRows

\* A change of the queue closes an executed row, or is of no concern to the book.
LEMMA OutboxRefines ==
  ASSUME TypeOK, Carries, [Next]_vars, UNCHANGED <<settlement, txs>>
  PROVE  Book!Next \/ UNCHANGED Book!bookVars
  <1>0. UNCHANGED <<[j \in Jobs |-> settlement[j].status], {j \in Jobs : Executed(j)}>>
    BY DEF Executed
  <1> DEFINE Done == {j \in Jobs : outbox[j].row = "done"}
  <1>1. ASSUME NEW i \in Jobs, MarkOutboxDone(i), Executed(i) PROVE Book!Next
    <2>1. Done' = Done \cup {i}
      BY <1>1 DEF MarkOutboxDone, TypeOK
    <2>2. Book!Close(i)
      BY <1>0, <1>1, <2>1 DEF Book!Close
    <2>3. QED
      BY <2>2 DEF Book!Next
  <1>2. ASSUME NEW i \in Jobs, EnqueueGatewayOutbox(i) PROVE Done' = Done
    BY <1>2 DEF EnqueueGatewayOutbox, TypeOK
  <1>3. ASSUME NEW rows \in SUBSET Jobs, CountAttempts(rows) PROVE Done' = Done
    BY <1>3 DEF CountAttempts, TypeOK
  <1>4. CASE UNCHANGED outbox
    BY <1>0, <1>4 DEF Book!bookVars
  <1>5. QED
    BY <1>0, <1>1, <1>2, <1>3, <1>4, OutboxMoves DEF Book!bookVars

\* A block executes one authorization at a time.
LEMMA ChainRefines ==
  ASSUME TypeOK, Carries, BookedRows, [Next]_vars, UNCHANGED <<settlement, outbox>>
  PROVE  Book!Next \/ UNCHANGED Book!bookVars
  <1>0. UNCHANGED <<[j \in Jobs |-> settlement[j].status],
                    {j \in Jobs : outbox[j].row = "done"}>>
    OBVIOUS
  <1> DEFINE Paid == {j \in Jobs : Executed(j)}
  <1>1. ASSUME NEW t \in TxIds, Mine(t) PROVE Book!Next \/ UNCHANGED Book!bookVars
    <2>1. PICK j \in Jobs : j = txs[t].job /\ settlement[j].status # "none"
      BY <1>1 DEF Mine, BookedRows
    <2>2. \A i \in Jobs : i # j => (Executed(i)' <=> Executed(i))
      BY <1>1, <2>1 DEF Mine, Executed, TypeOK
    <2>3. Executed(j) => Executed(j)'
      BY ExecutedIsFinal
    <2>4. Paid' = Paid \/ Paid' = Paid \cup {j}
      BY <2>2, <2>3
    <2>5. CASE Paid' = Paid \cup {j}
      <3>1. Book!Execute(j)
        BY <1>0, <2>1, <2>5 DEF Book!Execute
      <3>2. QED
        BY <2>1, <3>1 DEF Book!Next
    <2>6. CASE Paid' = Paid
      BY <1>0, <2>6 DEF Book!bookVars
    <2>7. QED
      BY <2>4, <2>5, <2>6
  <1>2. ASSUME NEW i \in Jobs, NEW t \in TxIds, Broadcast(i, t) PROVE Paid' = Paid
    BY <1>2 DEF Broadcast, Executed, TypeOK
  <1>3. CASE UNCHANGED txs
    BY <1>0, <1>3 DEF Executed, Book!bookVars
  <1>4. QED
    BY <1>0, <1>1, <1>2, <1>3, ChainMoves DEF Book!bookVars

\* The worker, with its retries, crashes and rivals, implements the book.
THEOREM WorkerKeepsTheBook == Spec => BookSpec
  <1>1. ASSUME TypeOK, Carries, BookedRows, [Next]_vars
        PROVE  [Book!Next]_(Book!bookVars)
    BY <1>1, OneAtATime, SettlementRefines, OutboxRefines, ChainRefines
  <1>2. QED
    BY <1>1, BookInit, IInvBooked, PTL DEF Spec, BookSpec, Book!Spec

-----------------------------------------------------------------------------
(* A settlement the worker fails has used its whole attempts budget, for   *)
(* any budget.                                                             *)

Spent(j) == outbox[j].attempts >= HardFailAt

(* The count a worker has read is at most the row's; once its claim has    *)
(* committed it is behind the row's, unless that has reached the budget.   *)
CountRead(w) ==
  \A j \in todo[w] :
    /\ pc[w] = "claiming" => tries[w][j] <= outbox[j].attempts
    /\ pc[w] \notin {"idle", "claiming"} =>
         Spent(j) \/ tries[w][j] < outbox[j].attempts
    /\ At(w, j, "failing") => Spent(j)

CountsRead == \A w \in Workers : CountRead(w)

-----------------------------------------------------------------------------
(* No statement lowers attempts: what a worker knows of a row it is not at *)
(* stays true, whoever counts on.                                          *)
LEMMA AttemptsGrow ==
  ASSUME TypeOK, Carries, [Next]_vars, NEW j \in Jobs
  PROVE  outbox'[j].attempts >= outbox[j].attempts
  <1> DEFINE Grows == outbox'[j].attempts >= outbox[j].attempts
  <1>0. outbox[j].attempts \in Nat
    BY DEF TypeOK
  <1>1. CASE UNCHANGED outbox
    BY <1>0, <1>1
  <1>2. ASSUME NEW i \in Jobs, EnqueueGatewayOutbox(i) PROVE Grows
    BY <1>0, <1>2 DEF EnqueueGatewayOutbox, TypeOK
  <1>3. ASSUME NEW rows \in SUBSET Jobs, CountAttempts(rows) PROVE Grows
    BY <1>0, <1>3 DEF CountAttempts, TypeOK
  <1>4. ASSUME NEW i \in Jobs, MarkOutboxDone(i) PROVE Grows
    BY <1>0, <1>4 DEF MarkOutboxDone, TypeOK
  <1>5. QED
    BY <1>1, <1>2, <1>3, <1>4, OutboxMoves

LEMMA CountTypes ==
  ASSUME TypeOK, Carries, [Next]_vars, NEW w \in Workers, NEW j \in Jobs
  PROVE  /\ tries[w][j] \in Nat
         /\ outbox[j].attempts \in Nat
         /\ outbox'[j].attempts \in Nat
         /\ outbox'[j].attempts >= outbox[j].attempts
         /\ HardFailAt \in Nat
  <1>1. TypeOK'
    BY TypeStep
  <1>2. QED
    BY <1>1, AttemptsGrow, GatewayWorkerAssumption DEF TypeOK

\* A worker that stays where it is keeps what it knows of its rows.
LEMMA CountsKept ==
  ASSUME TypeOK, Carries, CountsRead, [Next]_vars, NEW w \in Workers,
         pc'[w] = pc[w], todo'[w] = todo[w], tries'[w] = tries[w]
  PROVE  CountRead(w)'
  <1> SUFFICES ASSUME NEW j \in todo[w]
               PROVE  /\ pc[w] = "claiming" => tries[w][j] <= outbox'[j].attempts
                      /\ pc[w] \notin {"idle", "claiming"} =>
                           Spent(j)' \/ tries[w][j] < outbox'[j].attempts
                      /\ At(w, j, "failing") => Spent(j)'
    BY DEF At, CountRead
  <1>1. j \in Jobs
    BY DEF TypeOK
  <1>2. QED
    BY <1>1, CountTypes DEF CountsRead, CountRead, Spent

\* So does one that moves on inside the loop body, short of the hard fail, of
\* the rows it still holds.
LEMMA CountsCarried ==
  ASSUME TypeOK, Carries, CountsRead, [Next]_vars, NEW w \in Workers,
         pc[w] \notin {"idle", "claiming"}, pc'[w] \notin {"claiming", "failing"},
         todo'[w] \subseteq todo[w],
         \A j \in todo'[w] : tries'[w][j] = tries[w][j]
  PROVE  CountRead(w)'
  <1> SUFFICES ASSUME NEW j \in todo'[w]
               PROVE  Spent(j)' \/ tries[w][j] < outbox'[j].attempts
    BY DEF At, CountRead
  <1>1. j \in todo[w]
    OBVIOUS
  <1>2. j \in Jobs
    BY <1>1 DEF TypeOK
  <1>3. QED
    BY <1>1, <1>2, CountTypes DEF CountsRead, CountRead, Spent

\* The three moves of the loop body that do that.
LEMMA MovesCarry ==
  ASSUME TypeOK, Carries, CountsRead, [Next]_vars, NEW w \in Workers,
         pc[w] \notin {"idle", "claiming"}
  PROVE  /\ \A label \in Labels \ {"claiming", "failing"} : Goto(w, label) => CountRead(w)'
         /\ Catch(w) => CountRead(w)'
         /\ \A j \in Jobs : Finish(w, j) => CountRead(w)'
  <1>1. ASSUME NEW label \in Labels \ {"claiming", "failing"}, Goto(w, label)
        PROVE  CountRead(w)'
    BY <1>1, CountsCarried DEF Goto, TypeOK
  <1>2. ASSUME Catch(w) PROVE CountRead(w)'
    BY <1>2, CountsCarried DEF Catch, TypeOK
  <1>3. ASSUME NEW j \in Jobs, Finish(w, j) PROVE CountRead(w)'
    <2>1. pc'[w] \in {"idle", "submitting"} /\ todo'[w] = todo[w] \ {j}
      BY <1>3 DEF Finish, TypeOK
    <2>2. \A i \in todo'[w] : tries'[w][i] = tries[w][i]
      BY <1>3, <2>1 DEF Finish, TypeOK
    <2>3. QED
      BY <2>1, <2>2, CountsCarried
  <1>4. QED
    BY <1>1, <1>2, <1>3

\* A tick that ended holds no row.
LEMMA AbortForgets ==
  ASSUME TypeOK, NEW w \in Workers, Abort(w)
  PROVE  CountRead(w)'
  BY DEF Abort, CountRead, TypeOK

-----------------------------------------------------------------------------
LEMMA CountsInit == Init => CountsRead
  BY DEF Init, CountsRead, CountRead

\* The acting worker: it reads the counts, then adds to them, then looks at
\* what it has read; only MarkFailed leads to the hard fail.
LEMMA CountsStep ==
  ASSUME TypeOK, Carries, CountsRead, [Next]_vars, NEW w \in Workers, Step(w)
  PROVE  CountRead(w)'
  <1> USE DEF dbVars
  <1>1. CASE ClaimSelect(w)
    <2>1. /\ pc'[w] = "claiming" /\ outbox' = outbox
          /\ \A j \in todo'[w] : j \in Jobs /\ tries'[w][j] = outbox[j].attempts
      BY <1>1 DEF ClaimSelect, Oldest, TypeOK
    <2>2. \A j \in Jobs : outbox[j].attempts \in Nat
      BY DEF TypeOK
    <2>3. QED
      BY <2>1, <2>2 DEF CountRead, At
  <1>2. CASE ClaimCommit(w)
    <2>1. pc[w] = "claiming" /\ pc'[w] = "submitting" /\ todo'[w] = todo[w]
          /\ tries'[w] = tries[w]
      BY <1>2 DEF ClaimCommit, Goto, TypeOK
    <2>2. ASSUME NEW j \in todo[w] PROVE Spent(j)' \/ tries[w][j] < outbox'[j].attempts
      <3>1. j \in Jobs /\ tries[w][j] <= outbox[j].attempts
        BY <2>1 DEF CountsRead, CountRead, TypeOK
      <3>2. outbox'[j].attempts = IF outbox[j].attempts < HardFailAt
                                  THEN outbox[j].attempts + 1 ELSE outbox[j].attempts
        BY <1>2, <3>1 DEF ClaimCommit, CountAttempts, TypeOK
      <3>3. QED
        BY <3>1, <3>2, CountTypes DEF Spent
    <2>3. QED
      BY <2>1, <2>2 DEF CountRead, At
  <1>3. CASE ClaimFails(w)
    BY <1>3, AbortForgets DEF ClaimFails
  <1>4. ASSUME NEW j \in Jobs, NEW t \in TxIds, Submit(w, j, t) PROVE CountRead(w)'
    <2>1. pc[w] = "submitting" /\ pc'[w] = "recording" /\ UNCHANGED <<todo, tries>>
      BY <1>4 DEF Submit, At, TypeOK
    <2>2. QED
      BY <2>1, CountsCarried
  <1>5. ASSUME NEW j \in Jobs, NEW t \in TxIds, SubmitAnswerLost(w, j, t)
        PROVE  CountRead(w)'
    BY <1>5, MovesCarry DEF SubmitAnswerLost, At
  <1>6. ASSUME NEW j \in Jobs,
               \/ SubmitRejected(w, j) \/ RecordSubmitted(w, j)
               \/ ReceiptSuccess(w, j) \/ ReceiptReverted(w, j) \/ ReceiptTimeout(w, j)
               \/ Promote(w, j) \/ LogTransfer(w, j) \/ Close(w, j)
        PROVE  CountRead(w)'
    <2>1. pc[w] \notin {"idle", "claiming"}
      BY <1>6 DEF At, SubmitRejected, RecordSubmitted, ReceiptSuccess, ReceiptReverted,
         ReceiptTimeout, Promote, LogTransfer, Close
    <2>2. \/ Goto(w, "awaiting") \/ Goto(w, "promoting") \/ Goto(w, "logging")
          \/ Goto(w, "closing") \/ Catch(w) \/ Finish(w, j)
      BY <1>6 DEF SubmitRejected, RecordSubmitted, ReceiptSuccess, ReceiptReverted,
         ReceiptTimeout, Promote, LogTransfer, Close
    <2>3. QED
      BY <2>1, <2>2, MovesCarry DEF Labels
  <1>7. ASSUME NEW j \in Jobs, MarkFailed(w, j) PROVE CountRead(w)'
    <2>1. At(w, j, "catching") /\ pc[w] = "catching"
      BY <1>7 DEF MarkFailed, At
    <2>2. CASE Finish(w, j)
      BY <2>1, <2>2, MovesCarry
    <2>3. CASE Abort(w)
      BY <2>3, AbortForgets
    <2>4. CASE tries[w][j] + 1 >= HardFailAt /\ Goto(w, "failing")
      <3>1. pc'[w] = "failing" /\ UNCHANGED <<todo, tries, outbox>>
        BY <1>7, <2>4 DEF Goto, MarkFailed, MarkOutboxFailed, TypeOK
      <3>2. j \in todo[w] /\ (Spent(j) \/ tries[w][j] < outbox[j].attempts)
        BY <2>1 DEF At, CountsRead, CountRead
      <3>3. Spent(j)
        BY <2>4, <3>2, CountTypes DEF Spent
      <3>4. \A i \in todo[w] : At(w, i, "failing")' => i = j
        <4>1. todo[w] \subseteq Nat
          BY GatewayWorkerAssumption DEF TypeOK
        <4>2. QED
          BY <2>1, <3>1, <4>1 DEF At
      <3>5. \A i \in todo[w] : Spent(i) \/ tries[w][i] < outbox[i].attempts
        BY <2>1 DEF CountsRead, CountRead
      <3>6. QED
        BY <3>1, <3>3, <3>4, <3>5 DEF CountRead, Spent
    <2>5. QED
      BY <1>7, <2>2, <2>3, <2>4 DEF MarkFailed
  <1>8. ASSUME NEW j \in Jobs, HardFail(w, j) PROVE CountRead(w)'
    <2>1. pc[w] = "failing"
      BY <1>8 DEF HardFail, At
    <2>2. QED
      BY <1>8, <2>1, MovesCarry, AbortForgets DEF HardFail
  <1>9. QED
    BY <1>1, <1>2, <1>3, <1>4, <1>5, <1>6, <1>7, <1>8 DEF Step

\* A worker's step touches no other worker's locals.
LEMMA OthersStay ==
  ASSUME TypeOK, NEW v \in Workers, NEW w \in Workers, v # w, Step(v) \/ Crash(v)
  PROVE  pc'[w] = pc[w] /\ todo'[w] = todo[w] /\ tries'[w] = tries[w]
  <1> DEFINE Stay == pc'[w] = pc[w] /\ todo'[w] = todo[w] /\ tries'[w] = tries[w]
  <1>1. ASSUME NEW label \in Labels, Goto(v, label) PROVE Stay
    BY <1>1 DEF Goto, TypeOK
  <1>2. ASSUME Catch(v) PROVE Stay
    BY <1>2 DEF Catch, TypeOK
  <1>3. ASSUME NEW j \in Jobs, Finish(v, j) PROVE Stay
    BY <1>3 DEF Finish, TypeOK
  <1>4. ASSUME Abort(v) PROVE Stay
    BY <1>4 DEF Abort, TypeOK
  <1>5. CASE Crash(v)
    BY <1>4, <1>5 DEF Crash
  <1>6. CASE Step(v)
    <2>1. CASE ClaimSelect(v)
      BY <2>1 DEF ClaimSelect, TypeOK
    <2>2. CASE ClaimCommit(v) \/ ClaimFails(v)
      BY <2>2, <1>1, <1>4 DEF ClaimCommit, ClaimFails, Labels
    <2>3. ASSUME NEW j \in Jobs, NEW t \in TxIds, Submit(v, j, t) \/ SubmitAnswerLost(v, j, t)
          PROVE  Stay
      <3>1. CASE Submit(v, j, t)
        BY <3>1 DEF Submit, TypeOK
      <3>2. CASE SubmitAnswerLost(v, j, t)
        BY <3>2, <1>2 DEF SubmitAnswerLost
      <3>3. QED
        BY <2>3, <3>1, <3>2
    <2>4. ASSUME NEW j \in Jobs,
                 \/ SubmitRejected(v, j) \/ RecordSubmitted(v, j)
                 \/ ReceiptSuccess(v, j) \/ ReceiptReverted(v, j) \/ ReceiptTimeout(v, j)
                 \/ Promote(v, j) \/ LogTransfer(v, j) \/ Close(v, j)
                 \/ MarkFailed(v, j) \/ HardFail(v, j)
          PROVE  Stay
      BY <2>4, <1>1, <1>2, <1>3, <1>4 DEF SubmitRejected, RecordSubmitted, ReceiptSuccess,
         ReceiptReverted, ReceiptTimeout, Promote, LogTransfer, Close, MarkFailed, HardFail,
         Labels
    <2>5. QED
      BY <1>6, <2>1, <2>2, <2>3, <2>4 DEF Step
  <1>7. QED
    BY <1>5, <1>6

LEMMA CountsStepAll == TypeOK /\ Carries /\ CountsRead /\ [Next]_vars => CountsRead'
  <1> SUFFICES ASSUME TypeOK, Carries, CountsRead, [Next]_vars, NEW w \in Workers
               PROVE  CountRead(w)'
    BY DEF CountsRead
  <1>1. CASE UNCHANGED workerVars
    BY <1>1, CountsKept DEF workerVars
  <1>2. CASE Step(w)
    BY <1>2, CountsStep
  <1>3. CASE Crash(w)
    BY <1>3, AbortForgets DEF Crash
  <1>4. ASSUME NEW v \in Workers, v # w, Step(v) \/ Crash(v) PROVE CountRead(w)'
    BY <1>4, OthersStay, CountsKept
  <1>5. UNCHANGED workerVars \/ \E v \in Workers : Step(v) \/ Crash(v)
    BY DEF Next, Environment, vars, InsertSettlement, EnqueueGatewayOutbox, RefundMark,
       Lapse, Replenish, Mine
  <1>6. QED
    BY <1>1, <1>2, <1>3, <1>4, <1>5

-----------------------------------------------------------------------------
\* Two writers fail a settlement: the operator and the hard fail.
LEMMA WhoFails ==
  ASSUME TypeOK, Carries, [Next]_vars, NEW j \in Jobs,
         settlement[j].status # "failed", settlement'[j].status = "failed"
  PROVE  j \in Refundable \/ \E w \in Workers : HardFail(w, j)
  <1> DEFINE Who == j \in Refundable \/ \E w \in Workers : HardFail(w, j)
  <1> USE DEF dbVars
  <1>1. ASSUME Environment PROVE Who
    <2>1. \E i \in Jobs : InsertSettlement(i) \/ RefundMark(i)
      BY <1>1 DEF Environment, EnqueueGatewayOutbox, Lapse, Replenish, Mine, Crash
    <2>2. ASSUME NEW i \in Jobs, InsertSettlement(i) PROVE FALSE
      BY <2>2 DEF InsertSettlement, TypeOK
    <2>3. ASSUME NEW i \in Jobs, RefundMark(i) PROVE j \in Refundable
      BY <2>3 DEF RefundMark, FailSettlement, TypeOK
    <2>4. QED
      BY <2>1, <2>2, <2>3
  <1>2. ASSUME NEW w \in Workers, Step(w) PROVE Who
    <2>1. ASSUME NEW i \in Jobs, HardFail(w, i) PROVE Who
      BY <2>1 DEF HardFail, FailSettlement, TypeOK
    <2>2. ASSUME NEW i \in Jobs, RecordSubmitted(w, i) PROVE FALSE
      <3>1. MarkSettlementSubmitted(i, tx[w]) \/ UNCHANGED settlement
        BY <2>2 DEF RecordSubmitted
      <3>2. QED
        BY <3>1 DEF MarkSettlementSubmitted, TypeOK
    <2>3. ASSUME NEW i \in Jobs, Promote(w, i) PROVE FALSE
      <3>1. PromoteSettlement(i, tx[w]) \/ UNCHANGED settlement
        BY <2>3 DEF Promote
      <3>2. ASSUME NEW t, PromoteSettlement(i, t) PROVE FALSE
        <4>1. settlement' = [settlement EXCEPT ![i] = [status |-> "settled", hash |-> t]]
          BY <3>2 DEF PromoteSettlement
        <4>2. CASE i = j
          BY <4>1, <4>2 DEF TypeOK
        <4>3. CASE i # j
          BY <4>1, <4>3 DEF TypeOK
        <4>4. QED
          BY <4>2, <4>3
      <3>3. QED
        BY <3>1, <3>2
    <2>4. ASSUME NEW i \in Jobs,
                 \/ SubmitRejected(w, i) \/ ReceiptSuccess(w, i) \/ ReceiptReverted(w, i)
                 \/ ReceiptTimeout(w, i) \/ LogTransfer(w, i) \/ Close(w, i)
                 \/ MarkFailed(w, i)
          PROVE  FALSE
      BY <2>4 DEF SubmitRejected, ReceiptSuccess, ReceiptReverted, ReceiptTimeout,
         LogTransfer, Close, MarkFailed
    <2>5. ASSUME NEW i \in Jobs, NEW t \in TxIds, Submit(w, i, t) \/ SubmitAnswerLost(w, i, t)
          PROVE  FALSE
      BY <2>5 DEF Submit, SubmitAnswerLost
    <2>6. CASE ClaimSelect(w) \/ ClaimCommit(w) \/ ClaimFails(w)
      BY <2>6 DEF ClaimSelect, ClaimCommit, ClaimFails
    <2>7. QED
      BY <1>2, <2>1, <2>2, <2>3, <2>4, <2>5, <2>6 DEF Step
  <1>3. CASE UNCHANGED vars
    BY <1>3 DEF vars
  <1>4. QED
    BY <1>1, <1>2, <1>3 DEF Next

LEMMA BudgetInit == Init => HardFailOnlyAfterBudget
  BY DEF Init, HardFailOnlyAfterBudget

LEMMA BudgetStep ==
  TypeOK /\ Carries /\ CountsRead /\ HardFailOnlyAfterBudget /\ [Next]_vars
    => HardFailOnlyAfterBudget'
  <1> SUFFICES ASSUME TypeOK, Carries, CountsRead, HardFailOnlyAfterBudget, [Next]_vars,
                      NEW j \in Jobs \ Refundable, settlement'[j].status = "failed"
               PROVE  outbox'[j].attempts >= HardFailAt
    BY DEF HardFailOnlyAfterBudget
  <1>1. ASSUME NEW w \in Workers, HardFail(w, j) PROVE Spent(j)
    BY <1>1 DEF HardFail, At, CountsRead, CountRead
  <1>2. Spent(j)
    BY <1>1, WhoFails DEF HardFailOnlyAfterBudget, Spent
  <1>3. outbox'[j].attempts >= outbox[j].attempts
    BY AttemptsGrow
  <1>4. /\ outbox[j].attempts \in Nat
        /\ outbox'[j].attempts \in Nat
        /\ HardFailAt \in Nat
    BY TypeStep, GatewayWorkerAssumption DEF TypeOK
  <1>5. QED
    BY <1>2, <1>3, <1>4 DEF Spent

\* A settlement that is failed and was not marked by an operator has had all
\* its attempts, also when several workers hold its row with different counts.
THEOREM FailedHasUsedBudget == Spec => []HardFailOnlyAfterBudget
  BY IInvTypeCarries, CountsInit, CountsStepAll, BudgetInit, BudgetStep, PTL DEF Spec

=============================================================================
