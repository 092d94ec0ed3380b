------------------------------ MODULE MarketMC ------------------------------
(***************************************************************************)
(* Small instances of Market for TLC.  The deployments are the tiers and   *)
(* the floor of the server, and the example of the facilitator's README    *)
(* with a buyer of its own price; the proposals are the edges of the ten   *)
(* percent rule.                                                           *)
(***************************************************************************)
EXTENDS Market, TLC

CONSTANT Friend   \* a buyer with an override

Tier(v, bps) == [minVolume |-> v, discountBps |-> bps]

ServerDeployment ==
  [base |-> 4999, floor |-> PriceFloor(4999),
   tiers |-> {Tier(100, 200), Tier(1000, 500), Tier(10000, 1000)},
   overrides |-> <<>>]

ReadmeDeployment ==
  [base |-> 10000, floor |-> 5000,
   tiers |-> {Tier(100, 1000), Tier(1000, 2500)},
   overrides |-> Friend :> 5400]

MCDeployments == {ServerDeployment, ReadmeDeployment}

Ask1(v, b, p) == [volume |-> v, buyer |-> b, proposed |-> p]

MCRequests ==
  { Ask1(Nothing, Nothing, 4450), Ask1(1000, Nothing, 5271),
    Ask1(100, Friend, 4807), Ask1(10000, Nothing, Nothing) }

MCSplits == <<8000, 1000, 1000>>
=============================================================================
