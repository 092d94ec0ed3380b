------------------------------ MODULE BondBook ------------------------------
(***************************************************************************)
(* What a bond promises, on the chain and in the ledger: the bond of a     *)
(* claim is staked once, and ends once, slashed or refunded, for good.     *)
(***************************************************************************)
CONSTANT Claims

VARIABLE state    \* of the bond of each claim

Ends == {"slashed", "refunded"}

Init == state = [c \in Claims |-> "none"]

Stake(c) ==
  /\ state[c] = "none"
  /\ state' = [state EXCEPT ![c] = "staked"]

End(c, how) ==
  /\ state[c] = "staked"
  /\ state' = [state EXCEPT ![c] = how]

Next == \E c \in Claims : Stake(c) \/ \E how \in Ends : End(c, how)

Spec == Init /\ [][Next]_state
=============================================================================
