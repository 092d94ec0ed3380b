----------------------------- MODULE Storefront -----------------------------
(***************************************************************************)
(* What stands before and behind the tollbooth: the market of quotes and   *)
(* paid calls, the runner of demos, the contract that holds bonds and the  *)
(* ledger's lane that simulates it.  They share no state, so a behaviour   *)
(* moves one of them: the lane it is in.  States of different lanes add up *)
(* instead of multiplying.                                                 *)
(***************************************************************************)
EXTENDS Market, DemoRunner, BondVault, ProofMesh

VARIABLE
  lane        \* the part that moves

vars == <<lane, marketVars, demoVars, vault, mesh>>

TypeOK ==
  /\ lane \in {"market", "demo", "vault", "mesh"}
  /\ MarketTypeOK /\ DemoTypeOK /\ VaultTypeOK /\ MeshTypeOK

Init ==
  /\ lane \in {"market", "demo", "vault", "mesh"}
  /\ MarketInit /\ DemoInit /\ VaultInit /\ MeshInit
  \* where another lane moves, one initial state of these stands for all
  /\ lane # "market" => deployment = CHOOSE d \in Deployments : TRUE
  /\ lane # "vault" => validators = {}

Next ==
  \/ lane = "market" /\ MarketNext /\ UNCHANGED <<lane, demoVars, vault, mesh>>
  \/ lane = "demo" /\ DemoNext /\ UNCHANGED <<lane, marketVars, vault, mesh>>
  \/ lane = "vault" /\ VaultNext /\ UNCHANGED <<lane, marketVars, demoVars, mesh>>
  \/ lane = "mesh" /\ MeshNext /\ UNCHANGED <<lane, marketVars, demoVars, vault>>

\* The fair actions of the runner are disabled where the other lanes leave it.
Spec == Init /\ [][Next]_vars /\ DemoFairness
=============================================================================
