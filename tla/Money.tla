-------------------------------- MODULE Money --------------------------------
(***************************************************************************)
(* Prices in atomic units of USDC.  A price string is cut after its sixth  *)
(* digit wherever the code converts it, so it stands for its atomic value. *)
(* Everything is integer division of non-negative numbers.                 *)
(***************************************************************************)
EXTENDS Integers, Sequences, SequencesExt

Bps == 10000

Gap(a, b) == IF a > b THEN a - b ELSE b - a

ApplyDiscountBps(price, bps) == (price * (Bps - bps)) \div Bps

\* "Within ten percent", after the division: up to just under eleven.
WithinTenPercent(a, b) == b # 0 /\ (Gap(a, b) * 100) \div b <= 10

\* Half of the list price, and the price itself when half of it is nothing.
PriceFloor(price) == IF price \div 2 = 0 THEN price ELSE price \div 2

\* mistake: the last share is rounded down like the others
SharesRoundedDown(total, bps) == [i \in 1..Len(bps) |-> (total * bps[i]) \div Bps]

\* computeSplits: rounded down, and the last recipient takes what is left.
Shares(total, bps) ==
  LET cut(i) == (total * bps[i]) \div Bps
      last == Len(bps)
  IN [i \in 1..last |->
        IF i < last THEN cut(i)
        ELSE total - FoldSeq(+, 0, [j \in 1..last - 1 |-> cut(j)])]
=============================================================================
