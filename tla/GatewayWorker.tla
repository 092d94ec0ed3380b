--------------------------- MODULE GatewayWorker ---------------------------
(***************************************************************************)
(* The settlement worker of the seller server: several GatewayWorker       *)
(* processes drain the gateway_outbox table, submit each EIP-3009          *)
(* authorization as a transaction of the relayer, wait for its receipt and *)
(* write the outcome to the settlements, gateway_outbox and onchain_tx     *)
(* tables.  Every database statement and every RPC call is a step of its   *)
(* own: between two of them another worker, the chain, an operator or a    *)
(* crash may act.                                                          *)
(***************************************************************************)
EXTENDS Naturals, FiniteSets

CONSTANTS
  Workers,     \* the worker processes: one per server process, deploys may overlap
  Jobs,        \* outbox_id values; each row carries one text of a nonce
  AuthOf,      \* the authorization it carries: two texts may be one nonce
  TxIds,       \* hashes of the relayer's transactions, numbered as they are sent
  NoTx,        \* no transaction hash (a null column, an unset local)
  NoJob,       \* the job of a hash no transaction has
  BatchSize,   \* rows per claim (GATEWAY_BATCH_SIZE, default 8)
  HardFailAt,  \* attempts after which a settlement is failed (5 in the code)
  Foreign,     \* jobs whose asset_addr holds no code on the worker's own chain
  Volatile,    \* jobs whose authorization may stop and start being payable
  Refundable,  \* jobs an operator may mark as refunded
  MaxFaults    \* bound: crashes, lost answers, RPC and database errors

ASSUME GatewayWorkerAssumption ==
  /\ Jobs \subseteq Nat
  /\ DOMAIN AuthOf = Jobs
  /\ TxIds \subseteq Nat
  /\ NoTx \notin TxIds
  /\ NoJob \notin Jobs
  /\ BatchSize \in Nat \ {0}
  /\ HardFailAt \in Nat \ {0}
  /\ Foreign \subseteq Jobs
  /\ Volatile \subseteq Jobs
  /\ Refundable \subseteq Jobs
  /\ MaxFaults \in Nat

VARIABLES
  settlement,  \* settlements: status and tx_hash of each job's row
  outbox,      \* gateway_outbox: is the row there, open or done; its attempts
  logged,      \* onchain_tx: the transfers written to it
  txs,         \* the chain: the job and the fate of each transaction
  payable,     \* the chain would execute these authorizations if still unused
  pc,          \* where each worker stands in tick()
  todo,        \* the claimed rows each worker has not finished
  tries,       \* attempts of those rows as the claim's SELECT read them
  tx,          \* hash of the transaction each worker has just submitted
  faults       \* faults so far

dbVars == <<settlement, outbox, logged>>
chainVars == <<txs, payable>>
workerVars == <<pc, todo, tries, tx>>
vars == <<dbVars, chainVars, workerVars, faults>>

Statuses == {"none", "pending", "submitted", "settled", "failed"}
Labels == {"idle", "claiming", "submitting", "recording", "awaiting",
           "promoting", "logging", "closing", "catching", "failing"}

(* The columns, locals and chain facts each range over what they may hold. *)
TypeOK ==
  /\ settlement \in [Jobs -> [status : Statuses, hash : TxIds \cup {NoTx}]]
  /\ outbox \in [Jobs -> [row : {"absent", "open", "done"}, attempts : Nat]]
  /\ logged \subseteq TxIds
  /\ txs \in [TxIds -> [job : Jobs \cup {NoJob},
                        status : {"unsent", "pending", "success", "reverted"}]]
  /\ payable \subseteq Jobs
  /\ pc \in [Workers -> Labels]
  /\ todo \in [Workers -> SUBSET Jobs]
  /\ tries \in [Workers -> [Jobs -> Nat]]
  /\ tx \in [Workers -> TxIds \cup {NoTx}]
  /\ faults \in 0..MaxFaults

Fault == faults < MaxFaults /\ faults' = faults + 1

-----------------------------------------------------------------------------
(* The chain, as the worker uses it. *)

\* A transaction for j is in a block with a receipt of status "success".
Executed(j) == \E t \in TxIds : txs[t] = [job |-> j, status |-> "success"]

\* The payer's USDC has moved.  A call to an address without code succeeds
\* and moves nothing.
Moved(j) == j \notin Foreign /\ Executed(j)

\* The rows that carry the authorization of j, itself included.
Twins(j) == {k \in Jobs : AuthOf[k] = AuthOf[j]}

\* authorizationState: the nonce of j is used, under whatever text.
Used(j) == \E k \in Twins(j) : Moved(k)

\* transferWithAuthorization would not revert: the call is a no-op, or the
\* authorization is in its window, funded, and its nonce is unused.
WouldSucceed(j) == j \in Foreign \/ (j \in payable /\ ~Used(j))

Mine(t) ==
  /\ txs[t].status = "pending"
  /\ txs' = [txs EXCEPT ![t].status =
                IF WouldSucceed(txs[t].job) THEN "success" ELSE "reverted"]
  /\ UNCHANGED <<dbVars, payable, workerVars, faults>>

\* validBefore passes, or the buyer spends the balance ...
Lapse(j) ==
  /\ j \in Volatile \cap payable
  /\ payable' = payable \ Twins(j)
  /\ UNCHANGED <<dbVars, txs, workerVars, faults>>

\* ... and gets it back; counted with the faults, since each return may cost
\* one more transaction.
Replenish(j) ==
  /\ j \in Volatile \ payable
  /\ payable' = payable \cup Twins(j)
  /\ Fault
  /\ UNCHANGED <<dbVars, txs, workerVars>>

-----------------------------------------------------------------------------
(* The ledger's statements, each atomic in Postgres. *)

\* mistake: the status guard of the UPDATE is dropped
MarkSubmittedAnyStatus(j, t) ==
  settlement' = [settlement EXCEPT ![j] = [status |-> "submitted", hash |-> t]]

MarkSettlementSubmitted(j, t) ==
  settlement' = IF settlement[j].status \in {"pending", "submitted"}
                THEN [settlement EXCEPT ![j] = [status |-> "submitted", hash |-> t]]
                ELSE settlement

PromoteSettlement(j, t) ==
  settlement' = [settlement EXCEPT ![j] = [status |-> "settled", hash |-> t]]

FailSettlement(j) ==
  settlement' = [settlement EXCEPT ![j].status = "failed"]

LogOnchainTx(t) == logged' = logged \cup {t}

MarkOutboxDone(j) == outbox' = [outbox EXCEPT ![j].row = "done"]

\* mistake: a failed row is taken off the queue
MarkOutboxFailedCloses(j) == MarkOutboxDone(j)

\* picked_at and last_error, which no statement reads, are left out: the row
\* stays open.
MarkOutboxFailed(j) == UNCHANGED outbox

\* attempts + 1, up to HardFailAt: the code only asks whether it got there.
CountAttempts(rows) ==
  outbox' = [j \in Jobs |->
               IF j \in rows /\ outbox[j].attempts < HardFailAt
               THEN [outbox[j] EXCEPT !.attempts = @ + 1]
               ELSE outbox[j]]

\* ORDER BY outbox_id LIMIT n
Oldest(n, S) == {j \in S : Cardinality({k \in S : k < j}) < n}

\* Rows under FOR UPDATE in a transaction of another worker.
LockedByOthers(w) == UNION {todo[v] : v \in {u \in Workers \ {w} : pc[u] = "claiming"}}

-----------------------------------------------------------------------------
(* Writers outside the worker. *)

\* The tollbooth inserts the settlement, 'pending' by default ...
InsertSettlement(j) ==
  /\ settlement[j].status = "none"
  /\ settlement' = [settlement EXCEPT ![j].status = "pending"]
  /\ UNCHANGED <<outbox, logged, chainVars, workerVars, faults>>

\* ... and, in a statement of its own, the outbox row that refers to it; an
\* operator may have marked the settlement in between.
EnqueueGatewayOutbox(j) ==
  /\ settlement[j].status # "none"
  /\ outbox[j].row = "absent"
  /\ outbox' = [outbox EXCEPT ![j].row = "open"]
  /\ UNCHANGED <<settlement, logged, chainVars, workerVars, faults>>

\* POST /api/admin/actions/:id/refund-mark: looks the settlement up, then fails
\* it, whatever its status.
RefundMark(j) ==
  /\ j \in Refundable
  /\ settlement[j].status # "none"
  /\ FailSettlement(j)
  /\ UNCHANGED <<outbox, logged, chainVars, workerVars, faults>>

-----------------------------------------------------------------------------
(* One tick of a worker. *)

\* Worker w is at this point of the loop body for job j; rows go oldest first.
At(w, j, label) ==
  /\ pc[w] = label
  /\ j \in todo[w]
  /\ \A k \in todo[w] : j <= k

Goto(w, label) ==
  /\ pc' = [pc EXCEPT ![w] = label]
  /\ UNCHANGED <<todo, tries, tx>>

\* An exception inside the try block; its locals are gone.
Catch(w) ==
  /\ pc' = [pc EXCEPT ![w] = "catching"]
  /\ tx' = [tx EXCEPT ![w] = NoTx]
  /\ UNCHANGED <<todo, tries>>

\* The loop body ends: on to the next row, or the tick is over.
Finish(w, j) ==
  /\ pc' = [pc EXCEPT ![w] = IF todo[w] = {j} THEN "idle" ELSE "submitting"]
  /\ todo' = [todo EXCEPT ![w] = @ \ {j}]
  /\ tries' = [tries EXCEPT ![w][j] = 0]
  /\ tx' = [tx EXCEPT ![w] = NoTx]

\* The tick ends early: its rejection is logged, or the process is gone.  The
\* next tick starts from nothing.
Abort(w) ==
  /\ pc' = [pc EXCEPT ![w] = "idle"]
  /\ todo' = [todo EXCEPT ![w] = {}]
  /\ tries' = [tries EXCEPT ![w] = [j \in Jobs |-> 0]]
  /\ tx' = [tx EXCEPT ![w] = NoTx]

\* mistake: rows a claim has already picked are not offered again
ClaimSelectUnpicked(w) ==
  /\ pc[w] = "idle"
  /\ LET open == {j \in Jobs : outbox[j].row = "open" /\ outbox[j].attempts = 0}
         rows == Oldest(BatchSize, open \ LockedByOthers(w))
     IN rows # {} /\ todo' = [todo EXCEPT ![w] = rows]
  /\ pc' = [pc EXCEPT ![w] = "claiming"]
  /\ UNCHANGED <<tries, tx, dbVars, chainVars, faults>>

\* claimGatewayOutbox up to its UPDATE: the oldest open rows no other claim
\* holds locked.  picked_at is not asked for.
ClaimSelect(w) ==
  /\ pc[w] = "idle"
  /\ LET open == {j \in Jobs : outbox[j].row = "open"}
         rows == Oldest(BatchSize, open \ LockedByOthers(w))
     IN /\ rows # {}
        /\ todo' = [todo EXCEPT ![w] = rows]
        /\ tries' = [tries EXCEPT ![w] =
                        [j \in Jobs |-> IF j \in rows THEN outbox[j].attempts ELSE 0]]
  /\ pc' = [pc EXCEPT ![w] = "claiming"]
  /\ UNCHANGED <<tx, dbVars, chainVars, faults>>

ClaimCommit(w) ==
  /\ pc[w] = "claiming"
  /\ CountAttempts(todo[w])
  /\ Goto(w, "submitting")
  /\ UNCHANGED <<settlement, logged, chainVars, faults>>

\* The transaction rolled back, or it committed and the answer was lost.
ClaimFails(w) ==
  /\ pc[w] = "claiming"
  /\ Fault
  /\ CountAttempts(todo[w]) \/ UNCHANGED outbox
  /\ Abort(w)
  /\ UNCHANGED <<settlement, logged, chainVars>>

\* The node took the transaction, the relayer's next; gas estimation has shown
\* it would succeed.
Broadcast(j, t) ==
  /\ WouldSucceed(j)
  /\ txs[t].status = "unsent"
  /\ \A u \in TxIds : txs[u].status = "unsent" => t <= u
  /\ txs' = [txs EXCEPT ![t] = [job |-> j, status |-> "pending"]]
  /\ UNCHANGED payable

Submit(w, j, t) ==
  /\ At(w, j, "submitting")
  /\ Broadcast(j, t)
  /\ pc' = [pc EXCEPT ![w] = "recording"]
  /\ tx' = [tx EXCEPT ![w] = t]
  /\ UNCHANGED <<todo, tries, dbVars, faults>>

\* writeContract throws although the transaction is in the mempool.
SubmitAnswerLost(w, j, t) ==
  /\ At(w, j, "submitting")
  /\ Broadcast(j, t)
  /\ Fault
  /\ Catch(w)
  /\ UNCHANGED dbVars

\* writeContract throws and sends nothing: estimation reverts, or RPC is down.
SubmitRejected(w, j) ==
  /\ At(w, j, "submitting")
  /\ \/ ~WouldSucceed(j) /\ UNCHANGED faults
     \/ WouldSucceed(j) /\ Fault
  /\ Catch(w)
  /\ UNCHANGED <<dbVars, chainVars>>

\* markSettlementSubmitted; an error may come before or after the write.
RecordSubmitted(w, j) ==
  /\ At(w, j, "recording")
  /\ \/ MarkSettlementSubmitted(j, tx[w]) /\ Goto(w, "awaiting") /\ UNCHANGED faults
     \/ /\ MarkSettlementSubmitted(j, tx[w]) \/ UNCHANGED settlement
        /\ Fault
        /\ Catch(w)
  /\ UNCHANGED <<outbox, logged, chainVars>>

\* mistake: any receipt counts, receipt.status is not looked at
ReceiptOfAnyStatus(w, j) ==
  /\ At(w, j, "awaiting")
  /\ txs[tx[w]].status \in {"success", "reverted"}
  /\ Goto(w, "promoting")
  /\ UNCHANGED <<dbVars, chainVars, faults>>

\* waitForTransactionReceipt: a receipt, or no receipt within 60 s.
ReceiptSuccess(w, j) ==
  /\ At(w, j, "awaiting")
  /\ txs[tx[w]].status = "success"
  /\ Goto(w, "promoting")
  /\ UNCHANGED <<dbVars, chainVars, faults>>

ReceiptReverted(w, j) ==
  /\ At(w, j, "awaiting")
  /\ txs[tx[w]].status = "reverted"
  /\ Catch(w)
  /\ UNCHANGED <<dbVars, chainVars, faults>>

ReceiptTimeout(w, j) ==
  /\ At(w, j, "awaiting")
  /\ Fault
  /\ Catch(w)
  /\ UNCHANGED <<dbVars, chainVars>>

Promote(w, j) ==
  /\ At(w, j, "promoting")
  /\ \/ PromoteSettlement(j, tx[w]) /\ Goto(w, "logging") /\ UNCHANGED faults
     \/ /\ PromoteSettlement(j, tx[w]) \/ UNCHANGED settlement
        /\ Fault
        /\ Catch(w)
  /\ UNCHANGED <<outbox, logged, chainVars>>

LogTransfer(w, j) ==
  /\ At(w, j, "logging")
  /\ \/ LogOnchainTx(tx[w]) /\ Goto(w, "closing") /\ UNCHANGED faults
     \/ /\ LogOnchainTx(tx[w]) \/ UNCHANGED logged
        /\ Fault
        /\ Catch(w)
  /\ UNCHANGED <<settlement, outbox, chainVars>>

\* An UPDATE of the outbox row waits for a claim that holds its lock.
Close(w, j) ==
  /\ At(w, j, "closing")
  /\ j \notin LockedByOthers(w)
  /\ \/ MarkOutboxDone(j) /\ Finish(w, j) /\ UNCHANGED faults
     \/ /\ MarkOutboxDone(j) \/ UNCHANGED outbox
        /\ Fault
        /\ Catch(w)
  /\ UNCHANGED <<settlement, logged, chainVars>>

\* mistake: the budget is one attempt short
MarkFailedEarly(w, j) ==
  /\ At(w, j, "catching")
  /\ j \notin LockedByOthers(w)
  /\ IF tries[w][j] + 2 >= HardFailAt THEN Goto(w, "failing") ELSE Finish(w, j)
  /\ UNCHANGED <<dbVars, chainVars, faults>>

\* mistake: the catch block never gives up
MarkFailedForever(w, j) ==
  /\ At(w, j, "catching")
  /\ j \notin LockedByOthers(w)
  /\ Finish(w, j)
  /\ UNCHANGED <<dbVars, chainVars, faults>>

\* The catch block: markOutboxFailed, then the attempts budget.  An error here
\* leaves the loop, and the rest of the batch with it.
MarkFailed(w, j) ==
  /\ At(w, j, "catching")
  /\ j \notin LockedByOthers(w)
  /\ MarkOutboxFailed(j)
  /\ \/ tries[w][j] + 1 >= HardFailAt /\ Goto(w, "failing") /\ UNCHANGED faults
     \/ tries[w][j] + 1 < HardFailAt /\ Finish(w, j) /\ UNCHANGED faults
     \/ Fault /\ Abort(w)
  /\ UNCHANGED <<settlement, logged, chainVars>>

HardFail(w, j) ==
  /\ At(w, j, "failing")
  /\ \/ FailSettlement(j) /\ Finish(w, j) /\ UNCHANGED faults
     \/ /\ FailSettlement(j) \/ UNCHANGED settlement
        /\ Fault
        /\ Abort(w)
  /\ UNCHANGED <<outbox, logged, chainVars>>

\* The process dies and is restarted; an open claim transaction rolls back.
Crash(w) ==
  /\ pc[w] # "idle"
  /\ Fault
  /\ Abort(w)
  /\ UNCHANGED <<dbVars, chainVars>>

-----------------------------------------------------------------------------
Init ==
  /\ settlement = [j \in Jobs |-> [status |-> "none", hash |-> NoTx]]
  /\ outbox = [j \in Jobs |-> [row |-> "absent", attempts |-> 0]]
  /\ logged = {}
  /\ txs = [t \in TxIds |-> [job |-> NoJob, status |-> "unsent"]]
  /\ payable = Jobs
  /\ pc = [w \in Workers |-> "idle"]
  /\ todo = [w \in Workers |-> {}]
  /\ tries = [w \in Workers |-> [j \in Jobs |-> 0]]
  /\ tx = [w \in Workers |-> NoTx]
  /\ faults = 0

\* What a running worker does by itself: every wait of the loop body ends.
Step(w) ==
  \/ ClaimSelect(w) \/ ClaimCommit(w) \/ ClaimFails(w)
  \/ \E j \in Jobs :
       \/ \E t \in TxIds : Submit(w, j, t) \/ SubmitAnswerLost(w, j, t)
       \/ SubmitRejected(w, j) \/ RecordSubmitted(w, j)
       \/ ReceiptSuccess(w, j) \/ ReceiptReverted(w, j) \/ ReceiptTimeout(w, j)
       \/ Promote(w, j) \/ LogTransfer(w, j) \/ Close(w, j)
       \/ MarkFailed(w, j) \/ HardFail(w, j)

Environment ==
  \/ \E j \in Jobs : \/ InsertSettlement(j) \/ EnqueueGatewayOutbox(j) \/ RefundMark(j)
                   \/ Lapse(j) \/ Replenish(j)
  \/ \E t \in TxIds : Mine(t)
  \/ \E w \in Workers : Crash(w)

Next == Environment \/ \E w \in Workers : Step(w)

Spec == Init /\ [][Next]_vars

\* The loop of start() runs tick() again and again and no await in it is
\* unbounded; the chain includes what the relayer sent.  Nobody owes the system
\* a new payment, a refund mark or a change of balance.
FairSpec ==
  /\ Spec
  /\ \A w \in Workers : WF_vars(Step(w))
  /\ \A t \in TxIds : WF_vars(Mine(t))

-----------------------------------------------------------------------------
(* Safety. *)

\* t is the hash of a transaction for j that the chain has executed.
Proves(t, j) == t \in TxIds /\ txs[t] = [job |-> j, status |-> "success"]

\* "We never invent a tx hash": a settled row, a transfer in onchain_tx and a
\* done outbox row each stand on a receipt of status success for that very
\* payment, whatever errors, retries, overlapping workers and crashes came
\* between the receipt and the write.
ReceiptBehindEveryClaim ==
  /\ \A j \in Jobs : settlement[j].status = "settled" => Proves(settlement[j].hash, j)
  /\ \A j \in Jobs : outbox[j].row = "done" => Executed(j)
  /\ \A t \in logged : txs[t].status = "success"

\* failSettlement from the catch block is the last resort: a failed settlement
\* no operator has marked has used its whole attempts budget, also when two
\* workers hold the row with different counts.
HardFailOnlyAfterBudget ==
  \A j \in Jobs \ Refundable :
    settlement[j].status = "failed" => outbox[j].attempts >= HardFailAt

\* Once a payment has been shown as settled, the hash beside it never changes:
\* no second worker, late answer, hard fail or refund mark puts another
\* transaction there.
SettledHashIsFinal ==
  [][\A j \in Jobs \ Foreign :
       Proves(settlement[j].hash, j) /\ settlement[j].status \in {"settled", "failed"}
         => settlement'[j].hash = settlement[j].hash]_vars

\* The worker implements the settlement book.
Book == INSTANCE SettlementBook WITH
  Payments <- Jobs,
  book <- [j \in Jobs |-> settlement[j].status],
  executed <- {j \in Jobs : Executed(j)},
  closed <- {j \in Jobs : outbox[j].row = "done"}

BookSpec == Book!Spec

(* Liveness. *)

\* Open rows whose submission would fail now: lapsed, or executed already.
Stuck == {j \in Jobs : outbox[j].row = "open" /\ ~WouldSucceed(j)}

\* The claim takes the oldest open rows, and a row that keeps failing stays
\* open: BatchSize such rows at the head of the queue are all it ever sees.
ClaimReachesTheRest == <>[](Cardinality(Stuck) < BatchSize)

\* The doc of markSettlementSubmitted: a submitted settlement is followed up,
\* also when its receipt never came, a statement failed or the worker died.
SubmittedIsFollowedUp ==
  ClaimReachesTheRest =>
    \A j \in Jobs : settlement[j].status = "submitted"
                      ~> settlement[j].status \in {"settled", "failed"}

\* A queued authorization the chain goes on accepting is executed in the end, for
\* this row or for another one that spells its nonce differently.
PayableIsExecuted ==
  ClaimReachesTheRest =>
    \A j \in Jobs :
      (<>(outbox[j].row = "open") /\ <>[](j \in payable)) => <>(Executed(j) \/ Used(j))

-----------------------------------------------------------------------------
(* What the repository says of the worker and its code does not do. *)

\* The doc of claimGatewayOutbox: picked_at is set in the claim's transaction
\* "so a second worker can't grab" the row.  Nothing reads picked_at, and the
\* row lock ends with that transaction.
NoRowInTwoHands ==
  \A v, w \in Workers :
    v # w /\ {pc[v], pc[w]} \cap {"idle", "claiming"} = {} => todo[v] \cap todo[w] = {}

\* The admin page and markSettlementSubmitted: a settlement is failed if its
\* transaction reverts.  A receipt that comes too late, or an error after it,
\* makes the worker retry a used nonce until it fails a paid settlement.
FailedMeansUnpaid ==
  \A j \in Jobs : settlement[j].status = "failed" => ~Executed(j)

\* The admin page: every paid call becomes settled, or failed.  A row whose
\* settlement was failed stays open and is claimed for ever, ahead of the rest.
EveryPaidCallConcludes ==
  \A j \in Jobs : outbox[j].row = "open" ~> settlement[j].status \in {"settled", "failed"}

=============================================================================
