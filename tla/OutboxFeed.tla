----------------------------- MODULE OutboxFeed -----------------------------
(***************************************************************************)
(* What the settlement worker may rely on about the rows it is fed: each   *)
(* text of a nonce gets at most one settlement row and then at most one    *)
(* gateway_outbox row, and neither goes away.  The jobs of GatewayWorker   *)
(* are such texts on the strength of this, and two of them may carry one   *)
(* authorization; Tollbooth implements it.                                 *)
(***************************************************************************)
EXTENDS Naturals

CONSTANT Nonces    \* as text

VARIABLES
  settlements,  \* settlement rows of each text
  queued        \* gateway_outbox rows of each text

feedVars == <<settlements, queued>>

Init ==
  /\ settlements = [n \in Nonces |-> 0]
  /\ queued = [n \in Nonces |-> 0]

Settle(n) ==
  /\ settlements[n] = 0
  /\ settlements' = [settlements EXCEPT ![n] = 1]
  /\ UNCHANGED queued

Queue(n) ==
  /\ settlements[n] = 1
  /\ queued[n] = 0
  /\ queued' = [queued EXCEPT ![n] = 1]
  /\ UNCHANGED settlements

Next == \E n \in Nonces : Settle(n) \/ Queue(n)

Spec == Init /\ [][Next]_feedVars
=============================================================================
