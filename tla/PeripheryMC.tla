---------------------------- MODULE PeripheryMC ----------------------------
(***************************************************************************)
(* Small instances of the lanes of Periphery for TLC.                      *)
(***************************************************************************)
EXTENDS Periphery

\* Batches of two ticks stand for batches of a hundred; caps lie below, at and above
\* the ends of batches.
MCAsked == 0..9

\* A plain setting and a secret one.
MCSeeds ==
  ("plain" :> [value |-> "a", secret |-> FALSE]) @@ ("api" :> [value |-> "s", secret |-> TRUE])
MCNewRows == {[value |-> "t", secret |-> FALSE]}
MCOthersRows == {[value |-> "t", secret |-> TRUE]}

MCSources == 1..3

\* One chain the wallet knows and one it does not.
MCChainOf == ("arbitrum" :> 1) @@ ("arc" :> 2)

\* .env and .env.production.
MCTargets == 1..2

\* An inference short of half an atomic unit by one card, and one at the half.
MCUsages == {[prompt |-> 4, completion |-> 0], [prompt |-> 5, completion |-> 0]}

\* A model that costs more than the one the card is about.
MCOtherCards == {[prompt |-> 80, completion |-> 400, flat |-> 0]}

MCPlan == 1..3
MCBonded == {2}

MCVisits == 1..3

\* One authorization in two spellings, another one, and a forged header with the nonce
\* of the first.
MCTextOf == ("a" :> "0xa") @@ ("A" :> "0xA") @@ ("b" :> "0xb") @@ ("f" :> "0xa")

MCMakings ==
  {[template |-> "seller", force |-> FALSE], [template |-> "both", force |-> TRUE],
   [template |-> "both", force |-> FALSE]}
=============================================================================
