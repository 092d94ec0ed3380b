---------------------------- MODULE MarketProofs ----------------------------
(***************************************************************************)
(* Theorems about Market for any buyers, deployments and requests, any     *)
(* splits that add up, and any rate limit and window.                      *)
(***************************************************************************)
EXTENDS Market, SumTheorems

-----------------------------------------------------------------------------
(* The shares of a payment. *)

\* A sequence folded with + is the sum of its places.
LEMMA SeqSum == ASSUME NEW s PROVE FoldSeq(+, 0, s) = Sum(s, DOMAIN s)
  BY DEF FoldSeq, FoldFunction, FoldFunctionOnSet, SumFunctionOnSet, Sum

\* Division by Bps, and what it leaves.
Cut(total, bps) == [j \in 1..Len(bps) |-> (total * bps[j]) \div Bps]
Left(total, bps) == [j \in 1..Len(bps) |-> (total * bps[j]) % Bps]

LEMMA DivisionLeaves ==
  ASSUME NEW n \in Nat
  PROVE  /\ n \div Bps \in Nat /\ n % Bps \in 0..Bps - 1
         /\ n = Bps * (n \div Bps) + (n % Bps)
  BY DEF Bps

LEMMA DivisionIsClose ==
  ASSUME NEW n \in Nat, NEW q, q = n \div Bps
  PROVE  q \in Nat /\ n - q * Bps \in 0..Bps - 1
  <1> DEFINE r == n % Bps
  <1>1. q \in Nat /\ r \in 0..Bps - 1 /\ n = Bps * q + r
    BY DivisionLeaves
  <1> HIDE DEF r
  <1>2. n - q * Bps = r
    BY <1>1 DEF Bps
  <1>3. QED
    BY <1>1, <1>2

LEMMA CutsCount ==
  ASSUME NEW total \in Nat, NEW bps \in Seq(Nat), NEW n \in 0..Len(bps)
  PROVE  /\ Counts(bps, 1..n) /\ Counts(Cut(total, bps), 1..n)
         /\ Counts(Left(total, bps), 1..n)
         /\ \A j \in 1..n : Left(total, bps)[j] <= Bps - 1
  <1>1. IsFiniteSet(1..n)
    BY FS_Interval
  <1>2. ASSUME NEW j \in 1..n
        PROVE  bps[j] \in Nat /\ j \in 1..Len(bps) /\ total * bps[j] \in Nat
    <2>1. j \in 1..Len(bps) /\ bps[j] \in Nat
      OBVIOUS
    <2>2. \A a, b \in Nat : a * b \in Nat
      OBVIOUS
    <2>3. QED
      BY <2>1, <2>2
  <1>3. \A j \in 1..n : /\ Cut(total, bps)[j] \in Nat
                        /\ Left(total, bps)[j] \in 0..Bps - 1
    <2>1. SUFFICES ASSUME NEW j \in 1..n
                   PROVE  Cut(total, bps)[j] \in Nat /\ Left(total, bps)[j] \in 0..Bps - 1
      OBVIOUS
    <2> DEFINE x == total * bps[j]
    <2>2. Cut(total, bps)[j] = x \div Bps /\ Left(total, bps)[j] = x % Bps
      BY <1>2 DEF Cut, Left
    <2>3. x \in Nat
      BY <1>2
    <2> HIDE DEF x
    <2>4. QED
      BY <2>2, <2>3, DivisionLeaves
  <1>4. \A j \in 1..n : Left(total, bps)[j] \in Nat /\ Left(total, bps)[j] <= Bps - 1
    <2>1. \A x \in 0..Bps - 1 : x \in Nat /\ x <= Bps - 1
      BY DEF Bps
    <2>2. QED
      BY <1>3, <2>1
  <1>5. QED
    BY <1>1, <1>2, <1>3, <1>4 DEF Counts

\* What the first n recipients lose by the division.
LEMMA CutsLeave ==
  ASSUME NEW total \in Nat, NEW bps \in Seq(Nat), NEW n \in 0..Len(bps)
  PROVE  /\ Sum(bps, 1..n) \in Nat /\ Sum(Cut(total, bps), 1..n) \in Nat
         /\ Sum(Left(total, bps), 1..n) \in 0..(Bps - 1) * n
         /\ total * Sum(bps, 1..n)
              = Bps * Sum(Cut(total, bps), 1..n) + Sum(Left(total, bps), 1..n)
  <1> DEFINE S == 1..n
             cut == Cut(total, bps)
             left == Left(total, bps)
             whole == Times(total, bps, S)
             cuts == Times(Bps, cut, S)
             both == Plus(cuts, left, S)
  <1>1. /\ Counts(bps, S) /\ Counts(cut, S) /\ Counts(left, S)
        /\ \A j \in S : left[j] <= Bps - 1
    BY CutsCount
  <1>2. Bps \in Nat /\ Bps - 1 \in Nat
    BY DEF Bps
  <1>3. IsFiniteSet(S) /\ Cardinality(S) = n
    BY FS_Interval
  <1>4. Counts(whole, S) /\ Sum(whole, S) = total * Sum(bps, S)
    <2> HIDE DEF S
    <2>1. QED
      BY <1>1, SumTimes
  <1>5. Counts(cuts, S) /\ Sum(cuts, S) = Bps * Sum(cut, S)
    <2> HIDE DEF S, cut
    <2>1. QED
      BY <1>1, <1>2, SumTimes
  <1>6. Counts(both, S) /\ Sum(both, S) = Sum(cuts, S) + Sum(left, S)
    <2> HIDE DEF S, cuts, left
    <2>1. QED
      BY <1>1, <1>5, SumOfSums
  <1>7. \A j \in S : whole[j] = both[j]
    <2>1. SUFFICES ASSUME NEW j \in S PROVE whole[j] = both[j]
      OBVIOUS
    <2>2. bps[j] \in Nat /\ j \in 1..Len(bps)
      OBVIOUS
    <2>3. total * bps[j] \in Nat
      <3>1. \A a, b \in Nat : a * b \in Nat
        OBVIOUS
      <3>2. QED
        BY <2>2, <3>1
    <2>4. total * bps[j] = Bps * ((total * bps[j]) \div Bps) + ((total * bps[j]) % Bps)
      BY <2>3, DivisionLeaves
    <2>5. whole[j] = total * bps[j]
      BY DEF Times
    <2>6. both[j] = Bps * ((total * bps[j]) \div Bps) + ((total * bps[j]) % Bps)
      <3>1. both[j] = cuts[j] + left[j] /\ cuts[j] = Bps * cut[j]
        <4> HIDE DEF cut, left
        <4>1. QED
          BY DEF Times, Plus
      <3>2. cut[j] = (total * bps[j]) \div Bps /\ left[j] = (total * bps[j]) % Bps
        BY <2>2 DEF Cut, Left
      <3> HIDE DEF cut, left, cuts, both
      <3>3. QED
        BY <3>1, <3>2
    <2>7. QED
      BY <2>4, <2>5, <2>6
  <1>8. Sum(whole, S) = Sum(both, S)
    <2> HIDE DEF S, whole, both
    <2>1. QED
      BY <1>4, <1>7, SumAgrees
  <1>9. Sum(left, S) <= (Bps - 1) * n
    <2>1. Sum(left, S) <= (Bps - 1) * Cardinality(S)
      <3> HIDE DEF S, left
      <3>1. QED
        BY <1>1, <1>2, SumIsBounded
    <2>2. QED
      BY <1>3, <2>1
  <1>10. Sum(bps, S) \in Nat /\ Sum(cut, S) \in Nat /\ Sum(left, S) \in Nat
    BY <1>1, SumType
  <1>11. (Bps - 1) * n \in Nat
    BY DEF Bps
  <1>12. QED
    <2> HIDE DEF S, cut, left, whole, cuts, both
    <2>1. total * Sum(bps, S) = Bps * Sum(cut, S) + Sum(left, S)
      BY <1>4, <1>5, <1>6, <1>8
    <2>2. Sum(left, S) \in 0..(Bps - 1) * n
      BY <1>9, <1>10, <1>11
    <2>3. QED
      BY <1>10, <2>1, <2>2, Zenon DEF S, cut, left

SplitsAddUp(bps) == bps \in Seq(Nat) /\ FoldSeq(+, 0, bps) = Bps

\* The last recipient takes what the division has left.
LEMMA LastShare ==
  ASSUME NEW total \in Nat, NEW bps, SplitsAddUp(bps)
  PROVE  LET n == Len(bps)
             C == Sum(Cut(total, bps), 1..n - 1)
         IN /\ n \in Nat \ {0} /\ C \in Nat /\ total - C \in Nat
            /\ (total - C) * Bps - total * bps[n] \in 0..(Bps - 1) * (n - 1)
  <1> DEFINE n == Len(bps)
             B == Sum(bps, 1..n - 1)
             C == Sum(Cut(total, bps), 1..n - 1)
             R == Sum(Left(total, bps), 1..n - 1)
  <1>1. bps \in Seq(Nat) /\ DOMAIN bps = 1..n /\ n \in Nat
    <2> HIDE DEF B, C, R
    <2>1. bps \in Seq(Nat)
      BY Zenon DEF SplitsAddUp
    <2>2. QED
      BY <2>1
  <1>2. Sum(bps, 1..n) = Bps
    BY <1>1, SeqSum DEF SplitsAddUp
  <1>3. n # 0
    <2>1. SUFFICES ASSUME n = 0 PROVE FALSE
      OBVIOUS
    <2>2. 1..n = {}
      BY <2>1
    <2>3. QED
      BY <1>2, <2>2, SumOfNone DEF Bps
  <1>4. n - 1 \in 0..n /\ n \notin 1..n - 1 /\ (1..n - 1) \cup {n} = 1..n /\ bps[n] \in Nat
    BY <1>1, <1>3
  <1>5. /\ B \in Nat /\ C \in Nat /\ R \in 0..(Bps - 1) * (n - 1)
        /\ total * B = Bps * C + R
    BY <1>1, <1>4, CutsLeave, ZenonT(40)
  <1>6. B + bps[n] = Bps
    <2>1. Counts(bps, 1..n - 1)
      BY <1>1, <1>4, CutsCount
    <2>2. Sum(bps, (1..n - 1) \cup {n}) = Sum(bps, 1..n - 1) + bps[n]
      BY <1>4, <2>1, SumOfMore
    <2>3. QED
      BY <1>2, <1>4, <2>2
  <1> HIDE DEF n, B, C, R
  <1>7. total * B + total * bps[n] = total * Bps
    <2>1. \A a, b, c \in Nat : a * b + a * c = a * (b + c)
      OBVIOUS
    <2>2. total * B + total * bps[n] = total * (B + bps[n])
      BY <1>4, <1>5, <2>1
    <2>3. QED
      BY <1>6, <2>2
  <1>8. R \in Nat
    BY <1>1, <1>3, <1>5 DEF Bps
  <1>9. total * bps[n] \in Nat
    <2>1. \A a, b \in Nat : a * b \in Nat
      OBVIOUS
    <2>2. QED
      BY <1>4, <2>1
  <1>10. (total - C) * Bps - total * bps[n] = R
    <2> DEFINE x == total * bps[n]
               y == total * B
    <2>1. x \in Nat /\ y + x = total * Bps /\ y = Bps * C + R
      BY <1>5, <1>7, <1>9
    <2> HIDE DEF x, y
    <2>2. (total - C) * Bps - x = R
      BY <1>5, <1>8, <2>1 DEF Bps
    <2>3. QED
      BY <2>2 DEF x
  <1>11. total - C \in Nat
    <2> DEFINE x == total * bps[n]
    <2>1. x \in Nat /\ (total - C) * Bps - x = R
      BY <1>9, <1>10
    <2> HIDE DEF x
    <2>2. QED
      BY <1>5, <1>8, <2>1 DEF Bps
  <1>12. QED
    BY <1>1, <1>3, <1>5, <1>10, <1>11 DEF n, C, R

\* A remainder is a gap below one unit, and so below any number of them.
LEMMA GapBelow ==
  ASSUME NEW a \in Nat, NEW x \in Nat, NEW n \in Nat \ {0}, x - a * Bps \in 0..Bps - 1
  PROVE  Gap(a * Bps, x) < Bps * n
  <1> DEFINE y == a * Bps
  <1>1. y \in Nat /\ x - y \in 0..Bps - 1
    <2>1. Bps \in Nat
      BY DEF Bps
    <2>2. y \in Nat
      BY <2>1
    <2>3. QED
      BY <2>2
  <1>2. Bps \in Nat /\ Bps <= Bps * n
    BY DEF Bps
  <1> HIDE DEF y
  <1>3. x >= y
    BY <1>1, <1>2
  <1>4. Gap(y, x) = x - y
    BY <1>1, <1>3 DEF Gap
  <1>5. x - y < Bps * n
    BY <1>1, <1>2
  <1>6. QED
    BY <1>4, <1>5 DEF y

\* No share is off its part by as much as a unit for each recipient.
Fair(total, bps, shares) ==
  /\ shares \in Seq(Nat) /\ Len(shares) = Len(bps)
  /\ FoldSeq(+, 0, shares) = total
  /\ \A j \in 1..Len(bps) : Gap(shares[j] * Bps, total * bps[j]) < Bps * Len(bps)

LEMMA SharesAreFair ==
  ASSUME NEW total \in Nat, NEW bps, SplitsAddUp(bps)
  PROVE  Fair(total, bps, Shares(total, bps))
  <1> DEFINE n == Len(bps)
             C == Sum(Cut(total, bps), 1..n - 1)
             s == Shares(total, bps)
             part == [j \in 1..n - 1 |-> (total * bps[j]) \div Bps]
  <1>1. /\ n \in Nat \ {0} /\ C \in Nat /\ total - C \in Nat
        /\ (total - C) * Bps - total * bps[n] \in 0..(Bps - 1) * (n - 1)
    BY LastShare
  <1>2. bps \in Seq(Nat) /\ n - 1 \in 0..n
    <2> HIDE DEF C, s, part
    <2>1. n \in Nat \ {0}
      BY <1>1
    <2>2. bps \in Seq(Nat)
      BY Zenon DEF SplitsAddUp
    <2>3. QED
      BY <2>1, <2>2
  <1>3. Counts(Cut(total, bps), 1..n - 1)
    BY <1>2, CutsCount
  <1>4. FoldSeq(+, 0, part) = C
    <2>1. \A j \in 1..n - 1 : Cut(total, bps)[j] = part[j]
      BY <1>1 DEF Cut
    <2>2. Sum(Cut(total, bps), 1..n - 1) = Sum(part, 1..n - 1)
      <3> HIDE DEF part
      <3>1. QED
        BY <1>3, <2>1, SumAgrees
    <2>3. DOMAIN part = 1..n - 1
      OBVIOUS
    <2> HIDE DEF part
    <2>4. QED
      BY <2>2, <2>3, SeqSum
  <1>5. s = [i \in 1..n |-> IF i < n THEN (total * bps[i]) \div Bps ELSE total - C]
    <2>1. s = [i \in 1..n |-> IF i < n THEN (total * bps[i]) \div Bps
                             ELSE total - FoldSeq(+, 0, part)]
      BY DEF Shares
    <2> HIDE DEF part, n, C, s
    <2>2. QED
      BY <1>4, <2>1
  <1>6. /\ \A j \in 1..n - 1 : j \in 1..n /\ s[j] = Cut(total, bps)[j] /\ s[j] \in Nat
        /\ s[n] = total - C
    <2> HIDE DEF s
    <2>1. \A j \in 1..n - 1 : j \in 1..n /\ j < n /\ s[j] = Cut(total, bps)[j]
      BY <1>1, <1>5 DEF Cut
    <2>2. s[n] = total - C
      BY <1>1, <1>5
    <2>3. QED
      BY <1>3, <2>1, <2>2 DEF Counts
  <1>7. s \in Seq(Nat) /\ Len(s) = n /\ DOMAIN s = 1..n
    <2>1. DOMAIN s = 1..n
      BY <1>5
    <2>2. \A j \in 1..n : s[j] \in Nat
      <3>1. \A j \in 1..n : j \in 1..n - 1 \/ j = n
        BY <1>1
      <3>2. QED
        BY <1>1, <1>6, <3>1
    <2>3. s \in [1..n -> Nat]
      BY <1>5, <2>2
    <2>4. QED
      BY <1>1, <2>1, <2>3
  <1> HIDE DEF s, C, part
  <1>8. FoldSeq(+, 0, s) = total
    <2>1. Counts(s, 1..n - 1) /\ Sum(s, 1..n - 1) = C
      <3> DEFINE cut == Cut(total, bps)
      <3>1. \A j \in 1..n - 1 : cut[j] = s[j]
        BY <1>6
      <3> HIDE DEF cut
      <3>2. Counts(s, 1..n - 1) /\ Sum(cut, 1..n - 1) = Sum(s, 1..n - 1)
        BY <1>3, <3>1, SumAgrees DEF cut
      <3>3. QED
        BY <3>2 DEF cut, C
    <2>2. n \notin 1..n - 1 /\ (1..n - 1) \cup {n} = 1..n /\ s[n] \in Nat
      <3>1. n \in Nat \ {0} /\ s[n] \in Nat
        BY <1>1, <1>6
      <3> HIDE DEF n
      <3>2. QED
        BY <3>1
    <2>3. Sum(s, (1..n - 1) \cup {n}) = Sum(s, 1..n - 1) + s[n]
      BY <2>1, <2>2, SumOfMore
    <2>4. Sum(s, 1..n) = C + (total - C)
      BY <1>6, <2>1, <2>2, <2>3
    <2>5. Sum(s, 1..n) = total
      BY <1>1, <2>4
    <2>6. QED
      BY <1>7, <2>5, SeqSum
  <1>9. ASSUME NEW j \in 1..n
        PROVE  Gap(s[j] * Bps, total * bps[j]) < Bps * n
    <2> DEFINE x == total * bps[j]
    <2>1. x \in Nat
      <3>1. \A a, b \in Nat : a * b \in Nat
        OBVIOUS
      <3>2. QED
        BY <1>2, <3>1
    <2>2. CASE j # n
      <3>1. s[j] = x \div Bps
        <4>1. j \in 1..n - 1
          <5>1. n \in Nat
            BY <1>1
          <5> HIDE DEF x, n
          <5>2. QED
            BY <2>2, <5>1
        <4>2. QED
          BY <1>6, <4>1 DEF Cut
      <3> HIDE DEF x
      <3>2. x - s[j] * Bps \in 0..Bps - 1 /\ s[j] \in Nat
        BY <2>1, <3>1, DivisionIsClose, SMTT(40)
      <3>3. Gap(s[j] * Bps, x) < Bps * n
        <4>1. n \in Nat \ {0}
          BY <1>1
        <4>2. QED
          BY <2>1, <3>2, <4>1, GapBelow
      <3>4. QED
        BY <3>3 DEF x
    <2>3. CASE j = n
      <3>1. s[j] = total - C /\ (total - C) * Bps - x \in 0..(Bps - 1) * (n - 1)
        BY <1>1, <1>6, <2>3
      <3> HIDE DEF x
      <3>2. Gap(s[j] * Bps, x) < Bps * n
        <4>1. n \in Nat \ {0} /\ total - C \in Nat
          BY <1>1
        <4> HIDE DEF n
        <4>2. QED
          BY <2>1, <3>1, <4>1 DEF Gap, Bps
      <3>3. QED
        BY <3>2 DEF x
    <2>4. QED
      BY <2>2, <2>3
  <1>10. QED
    BY <1>7, <1>8, <1>9 DEF Fair, s, n

-----------------------------------------------------------------------------
(* The price of a quote. *)

LEMMA TierType ==
  ASSUME NEW d \in Deployments, NEW r \in Requests
  PROVE  Tiered(d, r) \in Nat
  <1> DEFINE reached == {t \in d.tiers : r.volume # Nothing /\ r.volume >= t.minVolume}
             Best(t) == \A u \in reached : u.minVolume <= t.minVolume
             best == CHOOSE t \in reached : Best(t)
  <1>1. d.base \in Nat
    BY QuoteAssumption
  <1>2. CASE reached = {}
    BY <1>1, <1>2 DEF Tiered
  <1>3. CASE reached # {}
    <2>1. \E t \in reached : Best(t)
      <3> DEFINE f == [t \in reached |-> t.minVolume]
      <3>1. IsFiniteSet(reached)
        <4>1. IsFiniteSet(d.tiers) /\ reached \subseteq d.tiers
          BY QuoteAssumption
        <4>2. QED
          BY <4>1, FS_Subset
      <3>2. \A t \in reached : f[t] \in Nat /\ f[t] = t.minVolume
        BY QuoteAssumption
      <3>3. \E t \in reached : \A u \in reached : f[u] <= f[t]
        <4> HIDE DEF f, reached
        <4>1. QED
          BY <1>3, <3>1, <3>2, GreatestExists
      <3>4. QED
        BY <3>2, <3>3
    <2>2. best \in reached
      BY <2>1
    <2>3. best.discountBps \in 0..Bps
      BY <2>2, QuoteAssumption
    <2>4. ApplyDiscountBps(d.base, best.discountBps) \in Nat
      <3> HIDE DEF best
      <3>1. \A a, b \in Nat : a * b \in Nat
        OBVIOUS
      <3>2. Bps - best.discountBps \in Nat
        <4>1. \A x \in 0..Bps : Bps - x \in Nat
          BY DEF Bps
        <4>2. QED
          BY <2>3, <4>1
      <3>3. d.base * (Bps - best.discountBps) \in Nat
        BY <1>1, <3>1, <3>2
      <3>4. QED
        BY <3>3, DivisionLeaves DEF ApplyDiscountBps
    <2>5. Tiered(d, r) = ApplyDiscountBps(d.base, best.discountBps)
      BY <1>3 DEF Tiered
    <2>6. QED
      BY <2>4, <2>5
  <1>4. QED
    BY <1>2, <1>3

LEMMA PolicyType ==
  ASSUME NEW d \in Deployments, NEW r \in Requests
  PROVE  PolicyPrice(d, r) \in Nat
  BY TierType, QuoteAssumption DEF PolicyPrice

LEMMA QuotedType ==
  ASSUME NEW d \in Deployments, NEW r \in Requests
  PROVE  Quoted(d, r) \in Nat
  BY PolicyType, QuoteAssumption DEF Accepted, Quoted

-----------------------------------------------------------------------------
(* Buyers and quotes. *)

\* Booked at most once, and shared out.
Paid(bookings) ==
  /\ Len(bookings) <= 1
  /\ \A i \in DOMAIN bookings : Fair(bookings[i].value, Splits, bookings[i].shares)

Bookings == [value : Nat, shares : Seq(Nat)]

LEMMA PaidNothing == Paid(<<>>) /\ <<>> \in Seq(Bookings)
  BY DEF Paid

LEMMA PaidOnce ==
  ASSUME NEW b \in Bookings, Fair(b.value, Splits, b.shares)
  PROVE  Paid(<<b>>) /\ <<b>> \in Seq(Bookings) /\ Append(<<>>, b) = <<b>>
  <1> HIDE DEF Bookings
  <1>1. Len(<<b>>) = 1 /\ DOMAIN <<b>> = {1} /\ <<b>>[1] = b
    OBVIOUS
  <1>2. Len(<<b>>) <= 1
    BY <1>1
  <1>3. \A i \in DOMAIN <<b>> : Fair(<<b>>[i].value, Splits, <<b>>[i].shares)
    BY <1>1
  <1>4. QED
    BY <1>2, <1>3 DEF Paid

LEMMA Bounds ==
  /\ RateLimit \in Nat \ {0} /\ RateWindow \in Nat \ {0} /\ MaxCalls \in Nat
  /\ NoBucket \in [count : 0..RateLimit + 1, resetAt : Nat]
  /\ \A n \in 0..MaxCalls : n < MaxCalls => n + 1 \in 0..MaxCalls
  <1>1. RateLimit \in Nat \ {0} /\ RateWindow \in Nat \ {0} /\ MaxCalls \in Nat
    BY MarketAssumption, Zenon
  <1>2. QED
    BY <1>1 DEF NoBucket

Unpaid == {"asking", "signing", "paying", "rejected"}

\* A call has no end before it has one, is not paid before the server has accepted its
\* payment, and what is paid is shared out.
WalletOK(w) ==
  /\ pc[w] \in Unpaid => charged[w] = <<>>
  /\ pc[w] # "idle" => outcome[w] = "none"
  /\ outcome[w] \in {"given up", "refused"} => charged[w] = <<>>
  /\ Paid(charged[w])

\* A quote keeps the price of the deployment that issued it.
QuoteOK(q) ==
  quote[q] # Nothing => quote[q].price = Quoted(deployment, quote[q].asked)

IInv ==
  /\ MarketTypeOK
  /\ \A w \in Wallets : WalletOK(w)
  /\ \A q \in QuoteIds : QuoteOK(q)

LEMMA InitIInv == MarketInit => IInv
  <1> SUFFICES ASSUME MarketInit PROVE IInv
    OBVIOUS
  <1> USE DEF MarketInit, EngineInit
  <1>1. EngineTypeOK /\ \A q \in QuoteIds : QuoteOK(q)
    BY QuoteAssumption DEF EngineTypeOK, QuoteOK
  <1>2. bucket \in [count : 0..RateLimit + 1, resetAt : Nat]
    BY Bounds
  <1>3. /\ pc \in [Wallets -> Labels] /\ outcome \in [Wallets -> Outcomes]
        /\ offer \in [Wallets -> Nat] /\ calls \in [Wallets -> 0..MaxCalls]
        /\ passes \in [0..MaxTime -> Nat]
    BY Bounds DEF Labels, Outcomes
  <1>4. charged \in [Wallets -> Seq(Bookings)]
    BY PaidNothing
  <1>5. \A w \in Wallets : WalletOK(w)
    BY PaidNothing DEF WalletOK, Unpaid
  <1>6. QED
    BY <1>1, <1>2, <1>3, <1>4, <1>5 DEF IInv, MarketTypeOK, Bookings

\* Only one wallet moves.
LEMMA WalletsMove ==
  ASSUME IInv, NEW w \in Wallets, UNCHANGED engine, MarketTypeOK', WalletOK(w)',
         \A v \in Wallets \ {w} : UNCHANGED <<pc[v], charged[v], outcome[v]>>
  PROVE  IInv'
  <1>1. ASSUME NEW v \in Wallets PROVE WalletOK(v)'
    <2>1. CASE v = w
      BY <2>1
    <2>2. CASE v # w
      BY <2>2 DEF IInv, WalletOK
    <2>3. QED
      BY <2>1, <2>2
  <1>2. \A q \in QuoteIds : QuoteOK(q)'
    BY DEF IInv, QuoteOK, engine
  <1>3. QED
    BY <1>1, <1>2 DEF IInv

LEMMA BuyerKeeps ==
  ASSUME IInv, NEW w \in Wallets, Buyer(w)
  PROVE  IInv'
  <1> USE DEF IInv, MarketTypeOK, EngineTypeOK, engine, limiter, Goto, End, Labels, Outcomes
  <1>1. UNCHANGED engine /\ WalletOK(w)
    BY DEF Buyer, Ask, GiveUp, Sign, Receive, Lose
  <1>2. \A v \in Wallets \ {w} : UNCHANGED <<pc[v], charged[v], outcome[v]>>
    BY DEF Buyer, Ask, GiveUp, Sign, Receive, Lose
  <1>3. MarketTypeOK'
    <2>1. CASE Ask(w)
      <3>1. charged' \in [Wallets -> Seq(Bookings)]
        BY <2>1, PaidNothing DEF Ask, Bookings
      <3>2. calls' \in [Wallets -> 0..MaxCalls]
        <4>1. calls[w] \in 0..MaxCalls /\ calls[w] < MaxCalls
          BY <2>1 DEF Ask
        <4>2. calls[w] + 1 \in 0..MaxCalls
          BY <4>1, Bounds
        <4>3. QED
          BY <2>1, <4>2 DEF Ask
      <3>3. QED
        BY <2>1, <3>1, <3>2 DEF Ask, Bookings
    <2>2. CASE GiveUp(w) \/ Sign(w) \/ Receive(w) \/ Lose(w)
      BY <2>2 DEF GiveUp, Sign, Receive, Lose
    <2>3. QED
      BY <2>1, <2>2 DEF Buyer
  <1>4. WalletOK(w)'
    <2>1. CASE Ask(w)
      BY <2>1, PaidNothing DEF Ask, WalletOK, Unpaid
    <2>2. CASE GiveUp(w)
      BY <1>1, <2>2 DEF GiveUp, WalletOK, Unpaid
    <2>3. CASE Sign(w)
      BY <1>1, <2>3 DEF Sign, WalletOK, Unpaid
    <2>4. CASE Receive(w)
      BY <1>1, <2>4 DEF Receive, WalletOK, Unpaid
    <2>5. CASE Lose(w)
      BY <1>1, <2>5 DEF Lose, WalletOK, Unpaid
    <2>6. QED
      BY <2>1, <2>2, <2>3, <2>4, <2>5 DEF Buyer
  <1> QED
    BY <1>1, <1>2, <1>3, <1>4, WalletsMove

LEMMA LimiterType ==
  ASSUME MarketTypeOK, RateLimited
  PROVE  /\ bucket' \in [count : 0..RateLimit + 1, resetAt : Nat]
         /\ passes' \in [0..MaxTime -> Nat]
  <1>1. bucket' \in [count : 0..RateLimit + 1, resetAt : Nat]
    <2>1. /\ RateLimit \in Nat /\ RateWindow \in Nat /\ now \in Nat
          /\ bucket \in [count : 0..RateLimit + 1, resetAt : Nat]
      BY Bounds, QuoteAssumption DEF MarketTypeOK, EngineTypeOK
    <2>2. CASE bucket.resetAt <= now
      <3>1. bucket' = [count |-> 1, resetAt |-> now + RateWindow]
        BY <2>2 DEF RateLimited, CountCall
      <3>2. 1 \in 0..RateLimit + 1 /\ now + RateWindow \in Nat
        BY <2>1
      <3>3. QED
        BY <3>1, <3>2
    <2>3. CASE ~(bucket.resetAt <= now)
      <3> DEFINE c == IF bucket.count > RateLimit THEN bucket.count ELSE bucket.count + 1
      <3>1. c \in 0..RateLimit + 1
        BY <2>1
      <3>2. bucket' = [bucket EXCEPT !.count = c]
        BY <2>3 DEF RateLimited, CountCall
      <3> HIDE DEF c
      <3>3. QED
        BY <2>1, <3>1, <3>2
    <2>4. QED
      BY <2>2, <2>3
  <1>2. passes' \in [0..MaxTime -> Nat]
    <2>1. now \in 0..MaxTime /\ passes \in [0..MaxTime -> Nat]
      BY DEF MarketTypeOK, EngineTypeOK
    <2>2. passes' = passes \/ passes' = [passes EXCEPT ![now] = @ + 1]
      BY DEF RateLimited
    <2>3. QED
      BY <2>1, <2>2
  <1>3. QED
    BY <1>1, <1>2

LEMMA SellerKeeps ==
  ASSUME IInv, NEW w \in Wallets, Seller(w)
  PROVE  IInv'
  <1> USE DEF IInv, MarketTypeOK, EngineTypeOK, engine, limiter, Goto, Labels, Outcomes
  <1>1. UNCHANGED engine /\ WalletOK(w)
    BY DEF Seller, Challenge, Verify, Serve
  <1>2. \A v \in Wallets \ {w} : UNCHANGED <<pc[v], charged[v], outcome[v]>>
    BY DEF Seller, Challenge, Verify, Serve
  <1>3. ListPrice \in Nat
    BY QuoteAssumption DEF ListPrice
  <1>4. CASE Challenge(w)
    <2>1. MarketTypeOK'
      BY <1>3, <1>4 DEF Challenge
    <2>2. WalletOK(w)'
      BY <1>1, <1>4 DEF Challenge, WalletOK, Unpaid
    <2>3. QED
      BY <1>1, <1>2, <2>1, <2>2, WalletsMove
  <1>5. CASE Verify(w)
    <2> DEFINE paid == [value |-> ListPrice, shares |-> Shares(ListPrice, Splits)]
    <2>1. Fair(ListPrice, Splits, Shares(ListPrice, Splits))
      BY <1>3, MarketAssumption, SharesAreFair DEF SplitsAddUp
    <2>2. paid \in Bookings
      BY <1>3, <2>1, Zenon DEF Fair, Bookings
    <2>3. Fair(paid.value, Splits, paid.shares)
      BY <2>1
    <2>4. charged[w] = <<>>
      BY <1>1, <1>5 DEF Verify, WalletOK, Unpaid
    <2>5. \/ pc'[w] \in {"booked", "rejected"} /\ UNCHANGED charged
          \/ pc'[w] = "booked" /\ charged' = [charged EXCEPT ![w] = Append(@, paid)]
      BY <1>5 DEF Verify
    <2> HIDE DEF paid
    <2>6. \/ pc'[w] \in {"booked", "rejected"} /\ UNCHANGED charged
          \/ pc'[w] = "booked" /\ charged' = [charged EXCEPT ![w] = <<paid>>]
      BY <2>2, <2>3, <2>4, <2>5, PaidOnce
    <2>7. charged' \in [Wallets -> Seq(Bookings)]
      BY <2>2, <2>3, <2>6, PaidOnce DEF Bookings
    <2>8. MarketTypeOK'
      BY <1>1, <1>5, <2>7 DEF Verify, Bookings
    <2>9. WalletOK(w)'
      <3>1. outcome'[w] = "none"
        BY <1>1, <1>5 DEF Verify, WalletOK
      <3>2. \/ pc'[w] \in {"booked", "rejected"} /\ charged'[w] = <<>>
            \/ pc'[w] = "booked" /\ charged'[w] = <<paid>>
        BY <2>4, <2>6
      <3>3. Paid(charged'[w])
        BY <2>2, <2>3, <3>2, PaidNothing, PaidOnce
      <3>4. QED
        BY <3>1, <3>2, <3>3 DEF WalletOK, Unpaid
    <2>10. QED
      BY <1>1, <1>2, <2>8, <2>9, WalletsMove
  <1>6. CASE Serve(w)
    <2>1. MarketTypeOK'
      BY <1>6, LimiterType DEF Serve
    <2>2. WalletOK(w)'
      BY <1>1, <1>6 DEF Serve, WalletOK, Unpaid
    <2>3. QED
      BY <1>1, <1>2, <2>1, <2>2, WalletsMove
  <1>7. QED
    BY <1>4, <1>5, <1>6 DEF Seller

LEMMA EngineKeeps ==
  ASSUME IInv,
         \/ \E r \in Requests : Negotiate(r)
         \/ \E q \in QuoteIds : LookUp(q)
         \/ Clock
  PROVE  IInv'
  <1> USE DEF IInv, MarketTypeOK, EngineTypeOK
  <1>1. UNCHANGED <<wallet, limiter, deployment>>
    BY DEF Negotiate, LookUp, Clock, Issue, Consume, Tick
  <1>2. \A w \in Wallets : WalletOK(w)'
    BY <1>1 DEF WalletOK, wallet
  <1>3. ASSUME NEW r \in Requests, Negotiate(r) PROVE IInv'
    <2>1. PICK p \in QuoteIds :
            /\ quote[p] = Nothing
            /\ quote' = [quote EXCEPT ![p] = [asked |-> r, price |-> Quoted(deployment, r),
                                              expires_at |-> now + Validity]]
            /\ kept' = {p} \cup IF Cardinality(kept) >= MaxKept THEN Sweep(kept) ELSE kept
            /\ UNCHANGED <<now, deployment>>
      BY <1>3 DEF Negotiate, Issue
    <2> DEFINE new == [asked |-> r, price |-> Quoted(deployment, r),
                       expires_at |-> now + Validity]
    <2>2. new \in Quotes /\ new # Nothing /\ new.asked = r
            /\ new.price = Quoted(deployment, r)
      BY QuotedType, QuoteAssumption, NothingAssumption DEF Quotes
    <2>3. quote' = [quote EXCEPT ![p] = new]
      BY <2>1
    <2> HIDE DEF new
    <2>4. quote' \in [QuoteIds -> Quotes \cup {Nothing}]
      BY <2>2, <2>3
    <2>5. kept' \subseteq {k \in QuoteIds : quote'[k] # Nothing}
      BY <2>1, <2>2, <2>3 DEF Sweep
    <2>6. \A k \in QuoteIds : QuoteOK(k)'
      BY <1>1, <2>2, <2>3 DEF QuoteOK
    <2>7. QED
      BY <1>1, <1>2, <2>1, <2>4, <2>5, <2>6 DEF wallet, limiter
  <1>4. CASE (\E q \in QuoteIds : LookUp(q)) \/ Clock
    <2>1. UNCHANGED quote /\ kept' \subseteq kept /\ now' \in 0..MaxTime
      BY <1>4, QuoteAssumption DEF LookUp, Clock, Consume, Tick
    <2>2. \A k \in QuoteIds : QuoteOK(k)'
      BY <1>1, <2>1 DEF QuoteOK
    <2>3. QED
      BY <1>1, <1>2, <2>1, <2>2 DEF wallet, limiter
  <1>5. QED
    BY <1>3, <1>4

LEMMA ServerKeeps ==
  ASSUME IInv, ServeOther \/ Restart
  PROVE  IInv'
  <1> USE DEF IInv, MarketTypeOK, EngineTypeOK
  <1>1. CASE ServeOther
    <2>1. MarketTypeOK'
      BY <1>1, LimiterType DEF ServeOther, engine, wallet
    <2>2. (\A w \in Wallets : WalletOK(w)') /\ \A q \in QuoteIds : QuoteOK(q)'
      BY <1>1 DEF ServeOther, engine, wallet, WalletOK, QuoteOK
    <2>3. QED
      BY <2>1, <2>2
  <1>2. CASE Restart
    <2>1. MarketTypeOK'
      <3>1. EngineTypeOK'
        BY <1>2 DEF Restart, Redeploy
      <3>2. bucket' \in [count : 0..RateLimit + 1, resetAt : Nat]
        BY <1>2, Bounds DEF Restart
      <3>3. /\ pc' \in [Wallets -> Labels] /\ outcome' \in [Wallets -> Outcomes]
            /\ passes' \in [0..MaxTime -> Nat]
        BY <1>2 DEF Restart, Labels, Outcomes
      <3>4. UNCHANGED <<offer, charged, calls>>
        BY <1>2 DEF Restart
      <3>5. QED
        BY <3>1, <3>2, <3>3, <3>4
    <2>2. \A q \in QuoteIds : QuoteOK(q)'
      BY <1>2 DEF Restart, Redeploy, QuoteOK
    <2>3. ASSUME NEW w \in Wallets PROVE WalletOK(w)'
      <3>1. WalletOK(w)
        OBVIOUS
      <3>2. /\ UNCHANGED charged
            /\ pc'[w] = IF pc[w] = "signing" THEN "signing" ELSE "idle"
            /\ outcome'[w] = IF pc[w] \in {"idle", "signing"} THEN outcome[w]
                             ELSE "network error"
        BY <1>2 DEF Restart
      <3>3. QED
        BY <3>1, <3>2 DEF WalletOK, Unpaid
    <2>4. QED
      BY <2>1, <2>2, <2>3
  <1>3. QED
    BY <1>1, <1>2

LEMMA NextIInv == IInv /\ [MarketNext]_marketVars => IInv'
  <1>1. SUFFICES ASSUME IInv, [MarketNext]_marketVars PROVE IInv'
    OBVIOUS
  <1>2. CASE \E w \in Wallets : Buyer(w) \/ Seller(w)
    BY <1>1, <1>2, BuyerKeeps, SellerKeeps
  <1>3. CASE \/ \E r \in Requests : Negotiate(r)
             \/ \E q \in QuoteIds : LookUp(q)
             \/ Clock
    BY <1>1, <1>3, EngineKeeps
  <1>4. CASE ServeOther \/ Restart
    BY <1>1, <1>4, ServerKeeps
  <1>5. CASE UNCHANGED marketVars
    BY <1>1, <1>5
    DEF marketVars, engine, wallet, limiter, IInv, MarketTypeOK, EngineTypeOK, WalletOK, QuoteOK
  <1>6. QED
    BY <1>1, <1>2, <1>3, <1>4, <1>5 DEF MarketNext

\* The variables keep their types; the prices and shares among them are naturals.
THEOREM Typed == MarketSpec => []MarketTypeOK
  <1>1. IInv => MarketTypeOK
    BY DEF IInv
  <1>2. QED
    BY <1>1, InitIInv, NextIInv, PTL DEF MarketSpec

\* A call is paid at most once, and one that the wallet gave up or was refused is not
\* paid, whatever is lost and however often the server starts again (paidCall).
THEOREM ErrorsAreHonest == MarketSpec => []ErrorsMeanUnpaid
  <1>1. IInv => ErrorsMeanUnpaid
    BY DEF IInv, WalletOK, Paid, ErrorsMeanUnpaid
  <1>2. QED
    BY <1>1, InitIInv, NextIInv, PTL DEF MarketSpec

\* No quote that the running server has issued is below its floor, whatever tiers,
\* overrides and proposals there are and however often it starts with another floor
\* (QuoteEngine.quote).
THEOREM QuotesKeepTheFloor == MarketSpec => []NeverBelowFloor
  <1>1. IInv => NeverBelowFloor
    <2>1. SUFFICES ASSUME IInv, NEW q \in QuoteIds, quote[q] # Nothing, deployment.floor # Nothing
                   PROVE  quote[q].price >= deployment.floor
      BY DEF NeverBelowFloor
    <2>2. /\ quote[q] \in Quotes /\ quote[q].price = Quoted(deployment, quote[q].asked)
          /\ deployment \in Deployments
      BY <2>1 DEF IInv, QuoteOK, MarketTypeOK, EngineTypeOK
    <2>3. quote[q].asked \in Requests
      BY <2>2 DEF Quotes
    <2>4. deployment.floor \in Nat /\ Accepted(deployment, quote[q].asked) \in Nat
      BY <2>1, <2>2, <2>3, PolicyType, QuoteAssumption DEF Accepted
    <2>5. Quoted(deployment, quote[q].asked) >= deployment.floor
      BY <2>1, <2>4 DEF Quoted
    <2>6. QED
      BY <2>2, <2>5
  <1>2. QED
    BY <1>1, InitIInv, NextIInv, PTL DEF MarketSpec

\* The shares add up to the value for every price and every split of the whole
\* (computeSplits).
THEOREM NothingIsLostInSplits == MarketSpec => []SharesAddUp
  <1>1. IInv => SharesAddUp
    <2>1. SUFFICES ASSUME IInv, NEW w \in Wallets, NEW i \in DOMAIN charged[w]
                   PROVE  LET c == charged[w][i] IN
                          /\ FoldSeq(+, 0, c.shares) = c.value
                          /\ \A j \in DOMAIN c.shares :
                               Gap(c.shares[j] * Bps, c.value * Splits[j])
                                 < Bps * Len(Splits)
      BY Zenon DEF SharesAddUp
    <2> DEFINE value == charged[w][i].value
               shares == charged[w][i].shares
    <2>2. Fair(value, Splits, shares)
      BY <2>1 DEF IInv, WalletOK, Paid
    <2> HIDE DEF value, shares
    <2>3. DOMAIN shares = 1..Len(Splits)
      <3>1. shares \in Seq(Nat) /\ Len(shares) = Len(Splits)
        BY <2>2, Zenon DEF Fair
      <3>2. QED
        BY <3>1
    <2>4. /\ FoldSeq(+, 0, shares) = value
          /\ \A j \in DOMAIN shares : Gap(shares[j] * Bps, value * Splits[j])
                                        < Bps * Len(Splits)
      BY <2>2, <2>3, Zenon DEF Fair
    <2>5. QED
      BY <2>4, Zenon DEF value, shares
  <1>2. QED
    BY <1>1, InitIInv, NextIInv, PTL DEF MarketSpec

-----------------------------------------------------------------------------
(* The rate limit.  These definitions take the bucket b, the passes p and *)
(* the second n as parameters, so that the lemmas speak of two states.     *)

Slots == 0..MaxTime
Span(t, u) == {s \in Slots : t <= s /\ s < u}
Since(t) == {s \in Slots : t <= s}
Opened(b) == b.resetAt - RateWindow

\* What the open bucket has let through, and what was let through shortly before it
\* was opened: less than the limit, for the call that opened the last one is too early
\* to be among them.
InBucket(b, p, n) ==
  /\ Opened(b) \in 0..n /\ p[Opened(b)] > 0
  /\ \A s \in Slots : s >= b.resetAt => p[s] = 0
  /\ Sum(p, Since(Opened(b))) <= b.count /\ Sum(p, Since(Opened(b))) <= RateLimit
  /\ \A t \in Slots : t > Opened(b) - RateWindow
                        => Sum(p, Span(t, Opened(b))) <= RateLimit - 1

Bounded(p) == \A t \in Slots : Sum(p, Span(t, t + RateWindow)) <= 2 * RateLimit - 1

LimiterOK(b, p, n) ==
  /\ b \in [count : 0..RateLimit + 1, resetAt : Nat] /\ p \in [Slots -> Nat] /\ n \in Slots
  /\ b.count = 0 => b.resetAt = 0 /\ \A s \in Slots : p[s] = 0
  /\ b.count > 0 => InBucket(b, p, n)
  /\ Bounded(p)

LEMMA SlotsCount ==
  ASSUME NEW p \in [Slots -> Nat], NEW S \in SUBSET Slots
  PROVE  Counts(p, S) /\ Sum(p, S) \in Nat
  <1>1. IsFiniteSet(Slots)
    BY QuoteAssumption, FS_Interval DEF Slots
  <1>2. IsFiniteSet(S)
    BY <1>1, FS_Subset
  <1>3. Counts(p, S)
    BY <1>2 DEF Counts
  <1>4. QED
    BY <1>3, SumType

LEMMA NoPasses ==
  ASSUME NEW p \in [Slots -> Nat], NEW S \in SUBSET Slots, \A s \in S : p[s] = 0
  PROVE  Sum(p, S) = 0
  <1>1. IsFiniteSet(S)
    BY SlotsCount DEF Counts
  <1>2. Sum(p, S) = 0 * Cardinality(S) /\ Cardinality(S) \in Nat
    BY <1>1, SumOfSame, FS_CardinalityType
  <1>3. QED
    BY <1>2

\* One more call at n: only sums over n change.
OneMore(p, q, n) == q = [p EXCEPT ![n] = @ + 1]

LEMMA OneMoreCounts ==
  ASSUME NEW p \in [Slots -> Nat], NEW n \in Slots, NEW q, OneMore(p, q, n),
         NEW S \in SUBSET Slots
  PROVE  /\ q \in [Slots -> Nat]
         /\ Sum(q, S) = IF n \in S THEN Sum(p, S) + 1 ELSE Sum(p, S)
  <1>1. q \in [Slots -> Nat] /\ q[n] = p[n] + 1 /\ \A s \in Slots \ {n} : q[s] = p[s]
    BY DEF OneMore
  <1>2. Counts(p, S) /\ Sum(p, S) \in Nat
    BY SlotsCount
  <1>3. CASE n \in S
    <2>1. SameBut(p, q, S, n) /\ q[n] \in Nat
      BY <1>1 DEF SameBut
    <2>2. SumFollows(p, q, S, n)
      BY <1>2, <1>3, <2>1, SumChanges DEF OneChanges
    <2>3. Sum(q, S) = Sum(p, S) + 1
      BY <1>1, <1>2, <2>2 DEF SumFollows
    <2>4. QED
      BY <1>1, <1>3, <2>3
  <1>4. CASE n \notin S
    <2>1. \A s \in S : p[s] = q[s]
      BY <1>1, <1>4
    <2>2. Sum(p, S) = Sum(q, S)
      BY <1>2, <2>1, SumAgrees
    <2>3. QED
      BY <1>1, <1>4, <2>2
  <1>5. QED
    BY <1>3, <1>4

\* A span that ends after the bucket was opened meets at most what the bucket let
\* through and what the spans before it did.
LEMMA BucketBounds ==
  ASSUME NEW p \in [Slots -> Nat], NEW n \in Slots, NEW b, InBucket(b, p, n),
         b \in [count : 0..RateLimit + 1, resetAt : Nat],
         NEW t \in Slots, t > Opened(b) - RateWindow
  PROVE  Sum(p, Span(t, t + RateWindow)) <= 2 * RateLimit - 1
  <1> DEFINE o == Opened(b)
             early == Span(t, o)
             late == Since(o)
  <1>1. RateLimit \in Nat \ {0} /\ RateWindow \in Nat \ {0} /\ o \in 0..n
    BY Bounds DEF InBucket
  <1>2. o \in Int
    BY <1>1
  <1> HIDE DEF o
  <1>3. early \in SUBSET Slots /\ late \in SUBSET Slots
    BY DEF Span, Since
  <1>4. early \cap late = {} /\ Span(t, t + RateWindow) \subseteq early \cup late
    BY <1>2 DEF Span, Since, Slots
  <1>5. Sum(p, early) <= RateLimit - 1 /\ Sum(p, late) <= RateLimit
    BY DEF InBucket, o
  <1> HIDE DEF early, late
  <1>6. Counts(p, early) /\ Counts(p, late) /\ Sum(p, early) \in Nat /\ Sum(p, late) \in Nat
    BY <1>3, SlotsCount
  <1>7. Counts(p, early \cup late) /\ Sum(p, early \cup late) = Sum(p, early) + Sum(p, late)
    BY <1>4, <1>6, SumOfBoth
  <1>8. Sum(p, Span(t, t + RateWindow)) <= Sum(p, early \cup late)
    <2>1. \A s \in Span(t, t + RateWindow) : p[s] \in Nat /\ p[s] <= p[s]
      BY DEF Span
    <2>2. QED
      BY <1>4, <1>7, <2>1, SumGrows
  <1>9. Sum(p, Span(t, t + RateWindow)) \in Nat
    <2>1. Span(t, t + RateWindow) \in SUBSET Slots
      BY DEF Span
    <2>2. QED
      BY <2>1, SlotsCount
  <1>10. QED
    BY <1>1, <1>5, <1>6, <1>7, <1>8, <1>9

\* After one more call at n only the spans with n in them have to be looked at, and the
\* bucket speaks of those.
LEMMA StaysBounded ==
  ASSUME NEW p \in [Slots -> Nat], NEW n \in Slots, NEW q, OneMore(p, q, n), Bounded(p),
         NEW b, b \in [count : 0..RateLimit + 1, resetAt : Nat], InBucket(b, q, n)
  PROVE  Bounded(q)
  <1>1. SUFFICES ASSUME NEW t \in Slots
                 PROVE  Sum(q, Span(t, t + RateWindow)) <= 2 * RateLimit - 1
    BY DEF Bounded
  <1>2. q \in [Slots -> Nat]
    BY DEF OneMore
  <1>3. CASE n \in Span(t, t + RateWindow)
    <2>1. n < t + RateWindow /\ Opened(b) \in 0..n /\ RateWindow \in Nat
      BY <1>3, Bounds DEF Span, InBucket
    <2>2. t > Opened(b) - RateWindow
      <3>1. \A x \in 0..n : t > x - RateWindow
        BY <2>1 DEF Slots
      <3>2. QED
        BY <2>1, <3>1
    <2>3. QED
      BY <1>2, <2>2, BucketBounds
  <1>4. CASE n \notin Span(t, t + RateWindow)
    <2>1. Span(t, t + RateWindow) \in SUBSET Slots
      BY DEF Span
    <2>2. Sum(q, Span(t, t + RateWindow)) = Sum(p, Span(t, t + RateWindow))
      BY <1>4, <2>1, OneMoreCounts
    <2>3. QED
      BY <2>2 DEF Bounded
  <1>5. QED
    BY <1>3, <1>4

\* The first call after the window of the last bucket: it is let through.
LEMMA Opens ==
  ASSUME NEW b, NEW p, NEW n, LimiterOK(b, p, n), b.resetAt <= n,
         NEW c, c = [count |-> 1, resetAt |-> n + RateWindow], NEW q, OneMore(p, q, n)
  PROVE  LimiterOK(c, q, n)
  <1>1. /\ p \in [Slots -> Nat] /\ n \in Slots /\ n \in Nat
        /\ b \in [count : 0..RateLimit + 1, resetAt : Nat]
    BY QuoteAssumption DEF LimiterOK, Slots
  <1>2. RateLimit \in Nat \ {0} /\ RateWindow \in Nat \ {0}
    BY Bounds
  <1>3. c.count = 1 /\ c.resetAt = n + RateWindow /\ Opened(c) = n
    <2>1. \A x, y \in Nat : (x + y) - y = x
      OBVIOUS
    <2>2. QED
      BY <1>1, <1>2, <2>1 DEF Opened
  <1>4. c \in [count : 0..RateLimit + 1, resetAt : Nat]
    <2>1. 1 \in 0..RateLimit + 1 /\ n + RateWindow \in Nat
      BY <1>1, <1>2
    <2>2. QED
      BY <2>1
  <1>5. q \in [Slots -> Nat] /\ q[n] = p[n] + 1 /\ \A s \in Slots \ {n} : q[s] = p[s]
    BY <1>1 DEF OneMore
  <1>6. \A s \in Slots : s >= b.resetAt => p[s] = 0
    BY <1>1 DEF LimiterOK, InBucket
  <1>7. \A s \in Since(n) : p[s] = 0
    BY <1>1, <1>6 DEF Since, Slots
  <1>8. Sum(q, Since(n)) = 1
    <2>1. Since(n) \in SUBSET Slots /\ n \in Since(n)
      BY <1>1 DEF Since
    <2>2. Sum(p, Since(n)) = 0
      BY <1>1, <1>7, <2>1, NoPasses
    <2>3. QED
      BY <1>1, <2>1, <2>2, OneMoreCounts
  <1>9. ASSUME NEW t \in Slots, t > n - RateWindow
        PROVE  Sum(q, Span(t, n)) <= RateLimit - 1
    <2>1. Span(t, n) \in SUBSET Slots /\ n \notin Span(t, n)
      BY <1>1 DEF Span
    <2>2. Sum(q, Span(t, n)) = Sum(p, Span(t, n))
      BY <1>1, <2>1, OneMoreCounts
    <2>3. CASE b.count = 0
      <3>1. \A s \in Span(t, n) : p[s] = 0
        BY <2>1, <2>3 DEF LimiterOK
      <3>2. Sum(p, Span(t, n)) = 0
        BY <1>1, <2>1, <3>1, NoPasses
      <3>3. QED
        BY <1>2, <2>2, <3>2
    <2>4. CASE b.count > 0
      <3> DEFINE o == Opened(b)
                 late == Since(o)
      <3>1. InBucket(b, p, n)
        BY <2>4 DEF LimiterOK
      <3>2. o \in Slots /\ o < t
        <4>1. o \in 0..n /\ o = b.resetAt - RateWindow
          BY <3>1 DEF InBucket, Opened
        <4>2. o \in Slots
          BY <1>1, <4>1, QuoteAssumption DEF Slots
        <4>3. o < t
          <5> HIDE DEF o
          <5>1. b.resetAt \in Nat /\ t \in Nat
            BY <1>1, QuoteAssumption DEF Slots
          <5>2. QED
            BY <1>1, <1>2, <1>9, <4>1, <5>1
        <4>4. QED
          BY <4>2, <4>3
      <3>3. late \in SUBSET Slots /\ o \in late
        <4> HIDE DEF o
        <4>1. QED
          BY <3>2 DEF Since, Slots
      <3>4. p[o] \in Nat /\ p[o] > 0 /\ Sum(p, late) <= RateLimit
        BY <1>1, <3>1, <3>2 DEF InBucket
      <3>5. Span(t, n) \subseteq late \ {o}
        <4> HIDE DEF o
        <4>1. QED
          BY <3>2 DEF Span, Since, Slots
      <3> HIDE DEF o, late
      <3>6. Counts(p, late \ {o}) /\ Sum(p, late) = Sum(p, late \ {o}) + p[o]
        BY <1>1, <3>3, SlotsCount, SumOfLess
      <3>7. Sum(p, Span(t, n)) <= Sum(p, late \ {o})
        <4>1. \A s \in Slots : p[s] \in Nat /\ p[s] <= p[s]
          BY <1>1
        <4>2. \A s \in Span(t, n) : p[s] \in Nat /\ p[s] <= p[s]
          BY <2>1, <4>1, Zenon
        <4>3. QED
          BY <3>5, <3>6, <4>2, SumGrows
      <3>8. Sum(p, Span(t, n)) \in Nat /\ Sum(p, late \ {o}) \in Nat
        BY <1>1, <2>1, <3>6, SlotsCount, SumType
      <3>9. QED
        BY <1>2, <2>2, <3>4, <3>6, <3>7, <3>8
    <2>5. QED
      BY <1>1, <2>3, <2>4
  <1>10. InBucket(c, q, n)
    <2>1. n \in 0..n /\ q[n] > 0
      <3>1. n \in 0..n /\ p[n] \in Nat
        BY <1>1
      <3>2. QED
        BY <1>5, <3>1
    <2>2. \A s \in Slots : s >= n + RateWindow => q[s] = 0
      <3>1. \A s \in Slots : s >= n + RateWindow => s \in Since(n) /\ s # n
        BY <1>1, <1>2, QuoteAssumption DEF Since, Slots
      <3>2. QED
        BY <1>5, <1>7, <3>1
    <2>3. 1 <= RateLimit /\ 1 <= 1
      BY <1>2
    <2>4. QED
      BY <1>3, <1>8, <1>9, <2>1, <2>2, <2>3 DEF InBucket
  <1>11. Bounded(q)
    BY <1>1, <1>4, <1>10, StaysBounded DEF LimiterOK
  <1>12. QED
    BY <1>1, <1>3, <1>4, <1>5, <1>10, <1>11 DEF LimiterOK

\* A call in the window of the bucket is counted, and let through up to the limit.
LEMMA Fills ==
  ASSUME NEW b, NEW p, NEW n, LimiterOK(b, p, n), b.resetAt > n,
         NEW k, k = (IF b.count > RateLimit THEN b.count ELSE b.count + 1),
         NEW c, c = [b EXCEPT !.count = k],
         NEW q, IF k <= RateLimit THEN OneMore(p, q, n) ELSE q = p
  PROVE  LimiterOK(c, q, n)
  <1> DEFINE o == Opened(b)
  <1>1. /\ p \in [Slots -> Nat] /\ n \in Slots /\ n \in Nat
        /\ b \in [count : 0..RateLimit + 1, resetAt : Nat]
        /\ b.count \in 0..RateLimit + 1 /\ b.resetAt \in Nat
    BY QuoteAssumption DEF LimiterOK, Slots
  <1>2. RateLimit \in Nat \ {0} /\ RateWindow \in Nat \ {0}
    BY Bounds
  <1>3. b.count > 0 /\ InBucket(b, p, n)
    BY <1>1 DEF LimiterOK
  <1>4. k \in 0..RateLimit + 1 /\ k > 0 /\ k >= b.count
    BY <1>1, <1>2
  <1>5. /\ c \in [count : 0..RateLimit + 1, resetAt : Nat]
        /\ c.count = k /\ c.resetAt = b.resetAt /\ Opened(c) = o
    BY <1>1, <1>4 DEF Opened
  <1>6. o \in 0..n /\ Since(o) \in SUBSET Slots /\ n \in Since(o)
    <2>1. o \in 0..n
      BY <1>3 DEF InBucket
    <2> HIDE DEF o
    <2>2. QED
      BY <1>1, <2>1 DEF Since
  <1>7. CASE k <= RateLimit
    <2>1. OneMore(p, q, n) /\ k = b.count + 1
      BY <1>1, <1>2, <1>7
    <2>2. q \in [Slots -> Nat] /\ q[n] = p[n] + 1 /\ \A s \in Slots \ {n} : q[s] = p[s]
      BY <1>1, <2>1 DEF OneMore
    <2>3. q[o] > 0
      <3>1. o \in Slots /\ p[o] > 0
        BY <1>1, <1>3, <1>6, QuoteAssumption DEF Slots, InBucket
      <3> HIDE DEF o
      <3>2. p[o] \in Nat /\ p[n] \in Nat
        BY <1>1, <3>1
      <3>3. QED
        BY <2>2, <3>1, <3>2
    <2>4. \A s \in Slots : s >= c.resetAt => q[s] = 0
      <3>1. \A s \in Slots : s >= b.resetAt => s # n
        BY <1>1 DEF Slots
      <3>2. QED
        BY <1>3, <1>5, <2>2, <3>1 DEF InBucket
    <2>5. Sum(q, Since(o)) <= k
      <3>1. Sum(q, Since(o)) = Sum(p, Since(o)) + 1
        BY <1>1, <1>6, <2>1, OneMoreCounts
      <3>2. Sum(p, Since(o)) \in Nat /\ Sum(p, Since(o)) <= b.count
        BY <1>1, <1>3, <1>6, SlotsCount DEF InBucket
      <3> HIDE DEF o
      <3>3. QED
        BY <1>1, <2>1, <3>1, <3>2
    <2>6. Sum(q, Since(o)) <= RateLimit
      <3>1. Sum(q, Since(o)) \in Nat
        BY <1>6, <2>2, SlotsCount
      <3> HIDE DEF o
      <3>2. QED
        BY <1>2, <1>4, <1>7, <2>5, <3>1
    <2>7. ASSUME NEW t \in Slots, t > o - RateWindow
          PROVE  Sum(q, Span(t, o)) <= RateLimit - 1
      <3>1. Span(t, o) \in SUBSET Slots /\ n \notin Span(t, o)
        <4> HIDE DEF o
        <4>1. QED
          BY <1>1, <1>6 DEF Span, Slots
      <3>2. Sum(q, Span(t, o)) = Sum(p, Span(t, o))
        BY <1>1, <2>1, <3>1, OneMoreCounts
      <3>3. QED
        BY <1>3, <2>7, <3>2 DEF InBucket
    <2>8. InBucket(c, q, n)
      BY <1>5, <1>6, <2>3, <2>4, <2>5, <2>6, <2>7 DEF InBucket
    <2>9. Bounded(q)
      BY <1>1, <1>5, <2>1, <2>8, StaysBounded DEF LimiterOK
    <2>10. QED
      BY <1>1, <1>4, <1>5, <2>2, <2>8, <2>9 DEF LimiterOK
  <1>8. CASE ~(k <= RateLimit)
    <2>1. q = p
      BY <1>8
    <2>2. Sum(p, Since(o)) <= k
      <3>1. Sum(p, Since(o)) \in Nat /\ Sum(p, Since(o)) <= b.count
        BY <1>1, <1>3, <1>6, SlotsCount DEF InBucket
      <3> HIDE DEF o
      <3>2. QED
        BY <1>1, <1>4, <3>1
    <2>3. InBucket(c, q, n)
      BY <1>3, <1>5, <2>1, <2>2 DEF InBucket
    <2>4. QED
      BY <1>1, <1>4, <1>5, <2>1, <2>3 DEF LimiterOK
  <1>9. QED
    BY <1>7, <1>8

RateIInv == LimiterOK(bucket, passes, now)

\* A call that reaches the rate limit.
LEMMA RateLimitedKeeps ==
  ASSUME RateIInv, RateLimited, UNCHANGED now
  PROVE  RateIInv'
  <1>1. passes' = IF bucket'.count <= RateLimit THEN [passes EXCEPT ![now] = @ + 1] ELSE passes
    BY DEF RateLimited, Admitted
  <1>2. now \in Nat /\ bucket.resetAt \in Nat /\ bucket.count \in 0..RateLimit + 1
          /\ bucket \in [count : 0..RateLimit + 1, resetAt : Nat]
    BY QuoteAssumption DEF RateIInv, LimiterOK, Slots
  <1>3. CASE bucket.resetAt <= now
    <2>1. bucket' = [count |-> 1, resetAt |-> now + RateWindow]
      BY <1>3 DEF RateLimited, CountCall
    <2>2. bucket'.count <= RateLimit
      BY <2>1, Bounds
    <2>3. OneMore(passes, passes', now)
      BY <1>1, <2>2 DEF OneMore
    <2>4. LimiterOK(bucket', passes', now)
      BY <1>3, <2>1, <2>3, Opens DEF RateIInv
    <2>5. QED
      BY <2>4 DEF RateIInv
  <1>4. CASE ~(bucket.resetAt <= now)
    <2> DEFINE k == IF bucket.count > RateLimit THEN bucket.count ELSE bucket.count + 1
    <2>1. bucket' = [bucket EXCEPT !.count = k]
      BY <1>4 DEF RateLimited, CountCall
    <2>2. bucket.resetAt > now
      BY <1>2, <1>4
    <2> HIDE DEF k
    <2>3. bucket'.count = k
      BY <1>2, <2>1
    <2>4. IF k <= RateLimit THEN OneMore(passes, passes', now) ELSE passes' = passes
      BY <1>1, <2>3 DEF OneMore
    <2>5. LimiterOK(bucket', passes', now)
      BY <2>1, <2>2, <2>4, Fills DEF RateIInv, k
    <2>6. QED
      BY <2>5 DEF RateIInv
  <1>5. QED
    BY <1>3, <1>4

LEMMA NoPassesBounded ==
  ASSUME NEW p, p = [t \in Slots |-> 0]
  PROVE  LimiterOK(NoBucket, p, 0) /\ \A n \in Slots : LimiterOK(NoBucket, p, n)
  <1>1. p \in [Slots -> Nat] /\ \A s \in Slots : p[s] = 0
    OBVIOUS
  <1>2. NoBucket.count = 0 /\ NoBucket.resetAt = 0
    BY DEF NoBucket
  <1>3. Bounded(p)
    <2>1. SUFFICES ASSUME NEW t \in Slots
                   PROVE  Sum(p, Span(t, t + RateWindow)) <= 2 * RateLimit - 1
      BY DEF Bounded
    <2>2. Span(t, t + RateWindow) \in SUBSET Slots
      BY DEF Span
    <2>3. Sum(p, Span(t, t + RateWindow)) = 0
      BY <1>1, <2>2, NoPasses
    <2>4. QED
      BY <2>3, Bounds
  <1>4. \A n \in Slots : LimiterOK(NoBucket, p, n)
    BY <1>1, <1>2, <1>3, Bounds DEF LimiterOK
  <1>5. 0 \in Slots
    BY QuoteAssumption DEF Slots
  <1>6. QED
    BY <1>4, <1>5

LEMMA NextRateIInv == RateIInv /\ [MarketNext]_marketVars => RateIInv'
  <1>1. SUFFICES ASSUME RateIInv, [MarketNext]_marketVars PROVE RateIInv'
    OBVIOUS
  <1>2. CASE UNCHANGED <<bucket, passes, now>>
    BY <1>1, <1>2 DEF RateIInv
  <1>3. ASSUME NEW w \in Wallets, Buyer(w) \/ Challenge(w) \/ Verify(w)
        PROVE  RateIInv'
    BY <1>2, <1>3
    DEF Buyer, Ask, GiveUp, Sign, Receive, Lose, Challenge, Verify, limiter, engine
  <1>4. ASSUME NEW w \in Wallets, Serve(w) PROVE RateIInv'
    BY <1>1, <1>4, RateLimitedKeeps DEF Serve, engine
  <1>5. CASE ServeOther
    BY <1>1, <1>5, RateLimitedKeeps DEF ServeOther, engine
  <1>6. ASSUME NEW r \in Requests, Negotiate(r) PROVE RateIInv'
    BY <1>2, <1>6 DEF Negotiate, Issue, limiter
  <1>7. ASSUME NEW q \in QuoteIds, LookUp(q) PROVE RateIInv'
    BY <1>2, <1>7 DEF LookUp, Consume, limiter
  <1>8. CASE Clock
    <2>1. now' = now + 1 /\ now < MaxTime /\ UNCHANGED <<bucket, passes>>
      BY <1>8 DEF Clock, Tick, limiter
    <2>2. now \in Slots /\ now' \in Slots
      BY <1>1, <2>1, QuoteAssumption DEF RateIInv, LimiterOK, Slots
    <2>3. \A x \in 0..now : x \in 0..now'
      BY <2>1, <2>2, QuoteAssumption DEF Slots
    <2>4. LimiterOK(bucket, passes, now')
      BY <1>1, <2>2, <2>3 DEF RateIInv, LimiterOK, InBucket
    <2>5. QED
      BY <2>1, <2>4 DEF RateIInv
  <1>9. CASE Restart
    <2>1. bucket' = NoBucket /\ passes' = [t \in Slots |-> 0] /\ now' \in Slots
      BY <1>1, <1>9 DEF Restart, Redeploy, RateIInv, LimiterOK, Slots
    <2>2. LimiterOK(bucket', passes', now')
      BY <2>1, NoPassesBounded
    <2>3. QED
      BY <2>2 DEF RateIInv
  <1>10. CASE UNCHANGED marketVars
    BY <1>2, <1>10 DEF marketVars, limiter, engine
  <1>11. QED
    BY <1>1, <1>3, <1>4, <1>5, <1>6, <1>7, <1>8, <1>9, <1>10 DEF MarketNext, Seller

\* No span as long as the window has twice the limit, for every limit and window
\* (rateLimit).
THEOREM RateLimitHolds == MarketSpec => []RateOverrunIsBounded
  <1>1. MarketInit => RateIInv
    <2>1. SUFFICES ASSUME MarketInit PROVE RateIInv
      OBVIOUS
    <2>2. bucket = NoBucket /\ passes = [t \in Slots |-> 0] /\ now = 0
      BY <2>1 DEF MarketInit, EngineInit, Slots
    <2>3. LimiterOK(bucket, passes, now)
      BY <2>2, NoPassesBounded
    <2>4. QED
      BY <2>3 DEF RateIInv
  <1>2. RateIInv => RateOverrunIsBounded
    BY DEF RateIInv, LimiterOK, Bounded, RateOverrunIsBounded, Slots, Span, Sum
  <1>3. QED
    BY <1>1, <1>2, NextRateIInv, PTL DEF MarketSpec
=============================================================================
