---------------------------- MODULE StorefrontMC ----------------------------
(***************************************************************************)
(* Small instances of the lanes of Storefront for TLC.                     *)
(***************************************************************************)
EXTENDS Storefront, MarketMC

\* A proposal near the price and below the floor, where the buyer has a price of its own.
MCOneRequest == {Ask1(100, Friend, 4807)}

\* Three runs, so that one can overwrite the state of the next and let a third one in.
MCRuns == 1..3
=============================================================================
