--------------------------- MODULE PeripheryProofs ---------------------------
(***************************************************************************)
(* Theorems about the parts around the payment path, for any number of     *)
(* ticks, rows, clients, scripts, steps and keys.  Each part has an        *)
(* inductive invariant of its own: the other lanes leave it alone.         *)
(***************************************************************************)
EXTENDS Periphery, SumTheorems, FiniteSetTheorems, SequenceTheorems, TLAPS

\* A step of one lane is a step or a stutter of every part.
LEMMA LaneSteps ==
  ASSUME [Next]_vars
  PROVE  /\ [StreamNext]_streamVars /\ [SettingsNext]_settingsVars /\ [FeedNext]_feedVars
         /\ [VaultPageNext]_vaultPageVars /\ [DemoPageNext]_demoPageVars
         /\ [KeyDeskNext]_keyDeskVars
         /\ [ReportsNext]_reportVars /\ [DeployerNext]_deployerVars
         /\ [RentingNext \/ FundingNext]_errandsVars /\ [AgentNext \/ RunnerNext]_buyerRunVars
         /\ [(ShopNext /\ UNCHANGED scaffoldVars) \/ (ScaffoldNext /\ UNCHANGED shopVars)]_kitVars
  <1> USE DEF pages, scripts, kits
  <1>1. CASE UNCHANGED vars
    BY <1>1 DEF vars
  <1>2. CASE StreamLane \/ SettingsLane \/ FeedLane
    BY <1>2 DEF StreamLane, SettingsLane, FeedLane
  <1>3. CASE VaultPageLane \/ DemoPageLane
    BY <1>3 DEF VaultPageLane, DemoPageLane
  <1>6. CASE KeyDeskLane \/ ReportsLane
    BY <1>6 DEF KeyDeskLane, ReportsLane
  <1>4. CASE DeployLane \/ ErrandsLane
    BY <1>4 DEF DeployLane, ErrandsLane
  <1>5. CASE BuyerLane \/ KitLane
    BY <1>5 DEF BuyerLane, KitLane
  <1>7. QED
    BY <1>1, <1>2, <1>3, <1>4, <1>5, <1>6 DEF Next

-----------------------------------------------------------------------------
(* The stream meter. *)

Batched(n) == 1..n \div Batch

\* The stream ticks only between its first message and its end; past its cap it
\* ticks only right at a cap that fills a batch; and each batch that has become
\* full is on record somewhere.
StreamIInv ==
  /\ StreamTypeOK
  /\ ticking => authed /\ socket = "open"
  /\ ~authed => tickCount = 0
  /\ cap # NaN /\ authed => tickCount <= cap + 1
  /\ cap # NaN /\ ticking /\ tickCount >= cap => tickCount = cap /\ cap % Batch = 0
  /\ billed \cup writing \cup lost = Batched(tickCount)

-----------------------------------------------------------------------------
(* Division by the size of a batch. *)

LEMMA Quotient ==
  ASSUME NEW n \in Nat, NEW B \in Nat \ {0}
  PROVE  n \div B \in Nat /\ B * (n \div B) <= n /\ n < B * (n \div B + 1)
  BY SMT

LEMMA NextQuotient ==
  ASSUME NEW n \in Nat, NEW B \in Nat \ {0}
  PROVE  (n + 1) \div B = IF (n + 1) % B = 0 THEN n \div B + 1 ELSE n \div B
  BY SMT

LEMMA QuotientGrows ==
  ASSUME NEW n \in Nat, NEW m \in Nat, NEW B \in Nat \ {0}, n <= m
  PROVE  n \div B <= m \div B
  BY SMT

LEMMA NoTwoMultiples ==
  ASSUME NEW n \in Nat, NEW B \in Nat \ {0, 1}, n % B = 0
  PROVE  (n + 1) % B # 0
  BY SMT

-----------------------------------------------------------------------------
LEMMA StreamInitially == StreamInit => StreamIInv
  <1> SUFFICES ASSUME StreamInit PROVE StreamIInv
    OBVIOUS
  <1>1. StreamTypeOK
    <2>1. \A S \in {writing, finishing, billed, lost} : S \subseteq Batches
      BY DEF StreamInit
    <2>2. 0 \in 0..MaxTicks /\ 0 \in 0..MaxCap
      BY StreamAssumption
    <2>3. QED
      BY <2>1, <2>2 DEF StreamInit, StreamTypeOK
  <1>2. Batched(tickCount) = {}
    BY StreamAssumption DEF StreamInit, Batched
  <1>3. QED
    BY <1>1, <1>2, StreamAssumption DEF StreamInit, StreamIInv

\* The batch of a tick that fills one is among those modelled.
LEMMA BatchOfTick ==
  ASSUME StreamIInv, SendTick, tickCount' % Batch = 0
  PROVE  /\ tickCount' \div Batch \in Batches
         /\ Batched(tickCount') = Batched(tickCount) \cup {tickCount' \div Batch}
  <1>1. tickCount \in Nat /\ tickCount + 1 <= MaxTicks /\ tickCount' = tickCount + 1
        /\ Batch \in Nat \ {0} /\ MaxTicks \in Nat
    BY StreamAssumption DEF StreamIInv, StreamTypeOK, SendTick
  <1> DEFINE q == tickCount \div Batch
             m == MaxTicks \div Batch
             q1 == (tickCount + 1) \div Batch
  <1>2. q \in Nat /\ m \in Nat /\ q1 = q + 1 /\ q1 <= m
    <2>1. q \in Nat /\ m \in Nat
      BY <1>1, Quotient
    <2>2. q1 = q + 1
      BY <1>1, NextQuotient
    <2>3. q1 <= m
      BY <1>1, QuotientGrows
    <2>4. QED
      BY <2>1, <2>2, <2>3
  <1> HIDE DEF q, m, q1
  <1>3. q1 \in 1..m /\ 1..q1 = 1..q \cup {q1}
    BY <1>2
  <1>4. QED
    BY <1>1, <1>3 DEF q, m, q1, Batches, Batched

LEMMA TickStep == StreamIInv /\ Tick => StreamIInv'
  <1> SUFFICES ASSUME StreamIInv, Tick PROVE StreamIInv'
    OBVIOUS
  <1>1. /\ SendTick /\ tickCount \in Nat /\ tickCount' = tickCount + 1 /\ tickCount' \in 0..MaxTicks
        /\ authed /\ UNCHANGED <<authed, cap, finishing, billed, lost>>
        /\ cap \in Nat \cup {NaN} /\ Batch \in Nat \ {0, 1} /\ NaN \notin Nat
    BY StreamAssumption DEF StreamIInv, StreamTypeOK, Tick, SendTick
  <1>2. cap # NaN /\ tickCount >= cap => tickCount = cap /\ tickCount' % Batch # 0
    BY <1>1, NoTwoMultiples DEF StreamIInv, Tick, SendTick
  <1>3. cap # NaN => tickCount' <= cap + 1
    BY <1>1, <1>2
  <1>4. CASE tickCount' % Batch = 0
    <2>1. writing' = writing \cup {tickCount' \div Batch} /\ UNCHANGED <<socket, ticking>>
      BY <1>4 DEF Tick
    <2>2. /\ tickCount' \div Batch \in Batches
          /\ Batched(tickCount)' = Batched(tickCount) \cup {tickCount' \div Batch}
      BY <1>1, <1>4, BatchOfTick DEF Batched
    <2>3. StreamTypeOK'
      BY <1>1, <2>1, <2>2 DEF StreamIInv, StreamTypeOK
    <2>4. cap # NaN /\ tickCount' >= cap => tickCount' = cap /\ cap % Batch = 0
      BY <1>1, <1>2, <1>4
    <2>5. (billed \cup writing \cup lost)' = Batched(tickCount)'
      BY <1>1, <2>1, <2>2 DEF StreamIInv
    <2>6. QED
      BY <1>1, <1>3, <2>1, <2>3, <2>4, <2>5 DEF StreamIInv
  <1>5. CASE tickCount' % Batch # 0
    <2>1. UNCHANGED writing /\ EndAtCap
      BY <1>5 DEF Tick
    <2>2. Batched(tickCount)' = Batched(tickCount)
      BY <1>1, <1>5, NextQuotient DEF Batched
    <2>3. StreamTypeOK'
      BY <1>1, <2>1 DEF StreamIInv, StreamTypeOK, EndAtCap, SendTick
    <2>4. cap # NaN /\ tickCount' >= cap => ~ticking'
      BY <1>1, <2>1 DEF EndAtCap, ReachesCap
    <2>5. ticking' => socket' = "open"
      BY <2>1 DEF EndAtCap, StreamIInv
    <2>6. QED
      BY <1>1, <1>3, <2>1, <2>2, <2>3, <2>4, <2>5 DEF StreamIInv
  <1>6. QED
    BY <1>4, <1>5

LEMMA StreamStep == StreamIInv /\ [StreamNext]_streamVars => StreamIInv'
  <1> SUFFICES ASSUME StreamIInv, [StreamNext]_streamVars PROVE StreamIInv'
    OBVIOUS
  <1> USE StreamAssumption DEF StreamIInv, StreamTypeOK, Batched
  <1>1. ASSUME NEW n \in Asked \cup {NaN}, Accept(n) PROVE StreamIInv'
    <2>1. Clamp(n) \in (1..MaxCap) \cup {NaN}
      BY DEF Clamp
    <2>2. QED
      BY <1>1, <2>1 DEF Accept, rows
  <1>2. CASE Hangup
    BY <1>2 DEF Hangup, rows
  <1>3. CASE Tick
    BY <1>3, TickStep
  <1>4. CASE Crash
    BY <1>4 DEF Crash
  <1>5. ASSUME NEW b \in Batches, Insert(b) PROVE StreamIInv'
    BY <1>5 DEF Insert, stream
  <1>6. ASSUME NEW b \in Batches, InsertFails(b) \/ Finish(b) PROVE StreamIInv'
    <2>1. /\ UNCHANGED <<authed, cap, tickCount>>
          /\ \/ UNCHANGED <<socket, ticking>>
             \/ socket' = "closed" /\ ticking' = FALSE
      BY <1>6 DEF InsertFails, Finish, EndAtCap
    <2>2. /\ (billed \cup writing \cup lost)' = billed \cup writing \cup lost
          /\ writing' \subseteq Batches /\ finishing' \subseteq Batches
          /\ billed' \subseteq Batches /\ lost' \subseteq Batches
      BY <1>6 DEF InsertFails, Finish
    <2>3. StreamTypeOK'
      BY <2>1, <2>2
    <2>4. Batched(tickCount)' = Batched(tickCount)
      BY <2>1
    <2>5. (billed \cup writing \cup lost)' = Batched(tickCount)'
      <3> HIDE DEF Batched
      <3>1. QED
        BY <2>2, <2>4
    <2>6. QED
      <3> HIDE DEF Batched, StreamTypeOK
      <3>1. QED
        BY <2>1, <2>3, <2>5
  <1>7. CASE UNCHANGED streamVars
    BY <1>7 DEF streamVars, stream, rows
  <1>8. QED
    BY <1>1, <1>2, <1>3, <1>4, <1>5, <1>6, <1>7 DEF StreamNext

LEMMA StreamHolds == Spec => []StreamIInv
  <1>1. Init => StreamIInv
    BY StreamInitially DEF Init
  <1>2. StreamIInv /\ [Next]_vars => StreamIInv'
    BY LaneSteps, StreamStep
  <1>3. QED
    BY <1>1, <1>2, PTL DEF Spec

\* Caps, ticks and batches stay in their types, for any size of a batch.
THEOREM StreamIsTyped == Spec => []StreamTypeOK
  <1>1. StreamIInv => StreamTypeOK
    BY DEF StreamIInv
  <1>2. QED
    BY <1>1, StreamHolds, PTL

\* One tick past the cap at most, for any cap and any batch of more than one tick: two
\* ticks in a row do not both fill a batch, so the second one ends the stream.
THEOREM CapHolds == Spec => []StopsAtMostOnePastCap
  <1>1. StreamIInv => StopsAtMostOnePastCap
    BY DEF StreamIInv, StopsAtMostOnePastCap
  <1>2. QED
    BY <1>1, StreamHolds, PTL

\* No more batches are billed than delivered, and less than one batch is delivered
\* without being on record, however the inserts and the end of the stream race.
THEOREM BatchesAreBilled == Spec => []UnbilledIsLessThanABatch
  <1>1. StreamIInv => UnbilledIsLessThanABatch
    <2> SUFFICES ASSUME StreamIInv PROVE UnbilledIsLessThanABatch
      OBVIOUS
    <2> DEFINE q == tickCount \div Batch
               all == billed \cup writing \cup lost
    <2>1. tickCount \in Nat /\ Batch \in Nat \ {0}
      BY StreamAssumption DEF StreamIInv, StreamTypeOK
    <2>2. q \in Nat /\ Batch * q <= tickCount /\ tickCount < Batch * (q + 1)
      BY <2>1, Quotient
    <2>3. all = 1..q
      BY DEF StreamIInv, Batched
    <2>4. billed \subseteq all
      OBVIOUS
    <2> HIDE DEF q, all
    <2>5. IsFiniteSet(all) /\ Cardinality(all) = q
      <3>1. IsFiniteSet(1..q) /\ Cardinality(1..q) = IF 1 > q THEN 0 ELSE q - 1 + 1
        BY <2>2, FS_Interval
      <3>2. QED
        BY <2>2, <2>3, <3>1
    <2>6. Cardinality(billed) \in Nat /\ Cardinality(billed) <= q
      BY <2>5, <2>4, FS_Subset, FS_CardinalityType
    <2>7. Batch * Cardinality(billed) <= Batch * q
      BY <2>1, <2>2, <2>6
    <2>8. Batch * Cardinality(billed) <= tickCount
      BY <2>1, <2>2, <2>6, <2>7
    <2>9. QED
      BY <2>2, <2>5, <2>8 DEF UnbilledIsLessThanABatch, all
  <1>2. QED
    BY <1>1, StreamHolds, PTL

-----------------------------------------------------------------------------
(* The settings page. *)

\* Texts that are not the mask, and rows that hold one; a list shows the mask for secrets.
Plain == Texts \ {Dots}
PlainRows == [value : Plain, secret : BOOLEAN]
ShownRows == {row \in Rows : ~row.secret => row.value # Dots}
Lists == [Keys -> ShownRows \cup {NoRow}]

AskRows == [kind : Writes \cup {"list", "reveal"}, key : Keys \cup {NoKey}, row : PlainRows,
             stage : {"sent", "answered", "refused"}, answer : Lists \cup Plain \cup {NoRow},
             from : Keys \cup {NoKey}, sure : BOOLEAN]

\* Requests whose answers are what they asked for; a save that was sure has the text of
\* its own row.
SoundCalls ==
  {c \in AskRows :
     /\ c.kind = "list" /\ c.stage = "answered" => c.answer \in Lists
     /\ c.kind = "reveal" /\ c.stage = "answered" => c.answer \in Plain
     /\ c.kind = "reveal" => c.key \in Keys
     /\ c.kind = "save" /\ c.sure => c.from = c.key}

\* As long as nobody has been too quick: one secret at most is awaited, for the input that
\* is open, and when none is, the draft is that of the open row.
InStep(cs, open, source, quick) ==
  /\ ~quick /\ open # NoKey =>
       /\ (\A i \in DOMAIN cs : cs[i].kind # "reveal") => source = open
       /\ \A i \in DOMAIN cs : cs[i].kind = "reveal" => cs[i].key = open
  /\ ~quick => \A i, j \in DOMAIN cs : cs[i].kind = "reveal" /\ cs[j].kind = "reveal" => i = j

SettingsIInv ==
  /\ settings \in [Keys -> PlainRows \cup {NoRow}]
  /\ items \in Lists
  /\ editing \in Keys \cup {NoKey} /\ from \in Keys \cup {NoKey} /\ draft \in Plain
  /\ unsure \in BOOLEAN
  /\ calls \in Seq(SoundCalls)
  /\ InStep(calls, editing, from, unsure)

LEMMA TextsAre ==
  /\ Empty \in Plain /\ Typed \subseteq Plain /\ Dots \in Texts /\ Plain \subseteq Texts
  /\ NewRows \subseteq PlainRows /\ OthersRows \subseteq PlainRows
  /\ \A k \in DOMAIN Seeds : Seeds[k] \in PlainRows
  /\ NoAnswer \in PlainRows
  <1>1. Empty \in Plain /\ Typed \subseteq Plain /\ Dots \in Texts /\ Plain \subseteq Texts
    BY SettingsAssumption DEF Plain, Texts
  <1>2. ASSUME NEW row \in NewRows \cup OthersRows \cup {Seeds[k] : k \in DOMAIN Seeds}
        PROVE  row \in PlainRows
    <2>1. IsRow(row) /\ row.value \in Plain
      BY SettingsAssumption DEF Plain, Texts
    <2>2. QED
      BY <2>1 DEF IsRow, PlainRows
  <1>3. NoAnswer \in PlainRows
    BY <1>1 DEF NoAnswer, PlainRows
  <1>4. QED
    BY <1>1, <1>2, <1>3

\* What the server shows of a row.
LEMMA MaskedIs ==
  ASSUME NEW row \in PlainRows \cup {NoRow}
  PROVE  Masked(row) \in ShownRows \cup {NoRow}
  <1>1. CASE row = NoRow
    BY <1>1 DEF Masked
  <1>2. CASE row # NoRow
    <2>1. row \in PlainRows /\ row \in Rows /\ row.value # Dots /\ row.secret \in BOOLEAN
      BY <1>2, TextsAre DEF PlainRows, Plain, Rows
    <2>2. CASE row.secret
      <3>1. [row EXCEPT !.value = Dots] \in Rows /\ [row EXCEPT !.value = Dots].secret
        BY <2>1, <2>2, TextsAre DEF Rows
      <3>2. QED
        BY <2>1, <2>2, <3>1 DEF Masked, ShownRows
    <2>3. CASE ~row.secret
      BY <2>1, <2>3 DEF Masked, ShownRows
    <2>4. QED
      BY <2>2, <2>3
  <1>3. QED
    BY <1>1, <1>2

\* The requests without one of them.
LEMMA WithoutOne ==
  ASSUME NEW S, NEW s \in Seq(S), NEW i \in DOMAIN s
  PROVE  /\ RemoveAt(s, i) \in Seq(S)
         /\ DOMAIN RemoveAt(s, i) = 1..(Len(s) - 1)
         /\ \A j \in 1..(Len(s) - 1) : RemoveAt(s, i)[j] = s[IF j < i THEN j ELSE j + 1]
  <1>1. i \in 1..Len(s) /\ Len(s) \in Nat
    OBVIOUS
  <1> DEFINE a == SubSeq(s, 1, i - 1)
             b == SubSeq(s, i + 1, Len(s))
  <1>2. /\ a \in Seq(S) /\ Len(a) = i - 1 /\ \A j \in 1..(i - 1) : a[j] = s[j]
        /\ b \in Seq(S) /\ Len(b) = Len(s) - i /\ \A j \in 1..(Len(s) - i) : b[j] = s[i + j]
    BY <1>1
  <1>3. RemoveAt(s, i) = a \o b
    BY DEF RemoveAt
  <1> HIDE DEF a, b
  <1>4. /\ a \o b \in Seq(S) /\ Len(a \o b) = Len(s) - 1
        /\ \A j \in 1..(Len(s) - 1) :
             (a \o b)[j] = IF j <= i - 1 THEN a[j] ELSE b[j - (i - 1)]
    <2>1. /\ a \o b \in Seq(S) /\ Len(a \o b) = Len(a) + Len(b)
          /\ \A j \in 1..(Len(a) + Len(b)) :
               (a \o b)[j] = IF j <= Len(a) THEN a[j] ELSE b[j - Len(a)]
      BY <1>2, ConcatProperties
    <2>2. Len(a) = i - 1 /\ Len(b) = Len(s) - i /\ Len(a) + Len(b) = Len(s) - 1
      BY <1>1, <1>2
    <2>3. QED
      BY <2>1, <2>2
  <1>5. ASSUME NEW j \in 1..(Len(s) - 1)
        PROVE  (a \o b)[j] = s[IF j < i THEN j ELSE j + 1]
    <2>1. CASE j < i
      BY <1>1, <1>2, <1>4, <2>1
    <2>2. CASE ~(j < i)
      <3>1. j - (i - 1) \in 1..(Len(s) - i) /\ i + (j - (i - 1)) = j + 1
        BY <1>1, <2>2
      <3>2. b[j - (i - 1)] = s[j + 1]
        BY <1>2, <3>1
      <3>3. ~(j <= i - 1)
        BY <1>1, <2>2
      <3>4. (a \o b)[j] = b[j - (i - 1)]
        BY <1>4, <3>3
      <3>5. QED
        BY <2>2, <3>2, <3>4
    <2>3. QED
      BY <2>1, <2>2
  <1>6. QED
    BY <1>3, <1>4, <1>5

\* A request is answered: whose it is and what it asks for stay.
LEMMA OneAnswered ==
  ASSUME NEW cs \in Seq(SoundCalls), NEW i \in DOMAIN cs, NEW c \in SoundCalls,
         c.kind = cs[i].kind, c.key = cs[i].key,
         NEW o, NEW f, NEW q, InStep(cs, o, f, q)
  PROVE  /\ [cs EXCEPT ![i] = c] \in Seq(SoundCalls)
         /\ InStep([cs EXCEPT ![i] = c], o, f, q)
  <1> DEFINE new == [cs EXCEPT ![i] = c]
  <1>1. /\ new \in Seq(SoundCalls) /\ DOMAIN new = DOMAIN cs
        /\ \A j \in DOMAIN cs : new[j] = IF j = i THEN c ELSE cs[j]
    BY ExceptSeq
  <1> HIDE DEF new
  <1>2. \A j \in DOMAIN cs : new[j].kind = cs[j].kind /\ new[j].key = cs[j].key
    BY <1>1
  <1>3. InStep(new, o, f, q)
    BY <1>1, <1>2 DEF InStep
  <1>4. QED
    BY <1>1, <1>3 DEF new

\* A request is gone.
LEMMA OneGone ==
  ASSUME NEW cs \in Seq(SoundCalls), NEW i \in DOMAIN cs,
         NEW o, NEW f, NEW q, InStep(cs, o, f, q)
  PROVE  /\ RemoveAt(cs, i) \in Seq(SoundCalls)
         /\ cs[i].kind # "reveal" => InStep(RemoveAt(cs, i), o, f, q)
         /\ ~q /\ cs[i].kind = "reveal" =>
              \A j \in DOMAIN RemoveAt(cs, i) : RemoveAt(cs, i)[j].kind # "reveal"
  <1> DEFINE rest == RemoveAt(cs, i)
             from1(j) == IF j < i THEN j ELSE j + 1
  <1>1. /\ rest \in Seq(SoundCalls) /\ DOMAIN rest = 1..(Len(cs) - 1)
        /\ \A j \in 1..(Len(cs) - 1) : rest[j] = cs[from1(j)]
    BY WithoutOne
  <1>2. Len(cs) \in Nat /\ DOMAIN cs = 1..Len(cs) /\ i \in 1..Len(cs)
    BY LenProperties
  <1> HIDE DEF rest
  <1>3. \A j \in DOMAIN rest : from1(j) \in DOMAIN cs /\ from1(j) # i
    BY <1>1, <1>2
  <1>4. \A j, l \in DOMAIN rest : from1(j) = from1(l) => j = l
    BY <1>1, <1>2
  <1>5. ASSUME NEW l \in DOMAIN cs, l # i
        PROVE  \E j \in DOMAIN rest : from1(j) = l
    <2>1. CASE l < i
      <3>1. l \in DOMAIN rest
        BY <1>1, <1>2, <2>1
      <3>2. QED
        BY <2>1, <3>1
    <2>2. CASE ~(l < i)
      <3>1. l - 1 \in DOMAIN rest /\ from1(l - 1) = l
        BY <1>1, <1>2, <1>5, <2>2
      <3>2. QED
        BY <3>1
    <2>3. QED
      BY <2>1, <2>2
  <1>6. \A j \in DOMAIN rest : rest[j] = cs[from1(j)]
    BY <1>1
  <1> HIDE DEF from1
  <1>7. ASSUME cs[i].kind # "reveal"
        PROVE  InStep(rest, o, f, q)
    <2>1. ASSUME ~q, o # NoKey, \A j \in DOMAIN rest : rest[j].kind # "reveal"
          PROVE  f = o
      <3>1. \A l \in DOMAIN cs : cs[l].kind # "reveal"
        BY <1>5, <1>6, <1>7, <2>1
      <3>2. QED
        BY <2>1, <3>1 DEF InStep
    <2>2. ASSUME ~q, o # NoKey, NEW j \in DOMAIN rest, rest[j].kind = "reveal"
          PROVE  rest[j].key = o
      BY <1>3, <1>6, <2>2 DEF InStep
    <2>3. ASSUME ~q, NEW j \in DOMAIN rest, NEW l \in DOMAIN rest,
                 rest[j].kind = "reveal", rest[l].kind = "reveal"
          PROVE  j = l
      <3>1. from1(j) = from1(l)
        BY <1>3, <1>6, <2>3 DEF InStep
      <3>2. QED
        BY <1>4, <3>1
    <2>4. QED
      BY <2>1, <2>2, <2>3 DEF InStep
  <1>8. ASSUME ~q, cs[i].kind = "reveal", NEW j \in DOMAIN rest
        PROVE  rest[j].kind # "reveal"
    BY <1>3, <1>6, <1>8 DEF InStep
  <1>9. QED
    BY <1>1, <1>7, <1>8 DEF rest

\* One request more, which is not for a secret.
LEMMA OneMore ==
  ASSUME NEW cs \in Seq(SoundCalls), NEW c \in SoundCalls
  PROVE  /\ Append(cs, c) \in Seq(SoundCalls)
         /\ \A o, f, q : c.kind # "reveal" /\ InStep(cs, o, f, q) => InStep(Append(cs, c), o, f, q)
         /\ c.kind = "reveal" /\ (\A i \in DOMAIN cs : cs[i].kind # "reveal") =>
              \A f, q : InStep(Append(cs, c), c.key, f, q)
  <1> DEFINE new == Append(cs, c)
  <1>1. /\ new \in Seq(SoundCalls) /\ Len(cs) \in Nat
        /\ DOMAIN new = DOMAIN cs \cup {Len(cs) + 1} /\ Len(cs) + 1 \notin DOMAIN cs
        /\ new[Len(cs) + 1] = c
        /\ \A j \in DOMAIN cs : new[j] = cs[j]
    OBVIOUS
  <1> HIDE DEF new
  <1>2. ASSUME NEW o, NEW f, NEW q, c.kind # "reveal", InStep(cs, o, f, q)
        PROVE  InStep(new, o, f, q)
    BY <1>1, <1>2 DEF InStep
  <1>3. ASSUME c.kind = "reveal", \A i \in DOMAIN cs : cs[i].kind # "reveal", NEW f, NEW q
        PROVE  InStep(new, c.key, f, q)
    BY <1>1, <1>3 DEF InStep
  <1>4. QED
    BY <1>1, <1>2, <1>3 DEF new

-----------------------------------------------------------------------------
\* The server's part: settings and answers.
LEMMA OneServed ==
  ASSUME SettingsIInv, NEW i \in DOMAIN calls, NEW answer,
         /\ calls[i].kind = "list" => answer \in Lists
         /\ calls[i].kind = "reveal" => answer \in Plain
         /\ calls[i].kind \in Writes => answer = NoRow,
         calls' = [calls EXCEPT ![i].stage = "answered", ![i].answer = answer]
  PROVE  calls' \in Seq(SoundCalls) /\ InStep(calls', editing, from, unsure)
  <1> DEFINE c == [calls[i] EXCEPT !.stage = "answered", !.answer = answer]
  <1>1. calls \in Seq(SoundCalls) /\ calls[i] \in SoundCalls /\ calls[i] \in AskRows
    BY ElementOfSeq, LenProperties DEF SettingsIInv, SoundCalls
  <1>2. /\ c.kind = calls[i].kind /\ c.key = calls[i].key /\ c.from = calls[i].from
        /\ c.sure = calls[i].sure /\ c.stage = "answered" /\ c.answer = answer
    BY <1>1 DEF AskRows
  <1>3. answer \in Lists \cup Plain \cup {NoRow}
    BY <1>1 DEF AskRows, Writes
  <1>4. c \in AskRows
    BY <1>1, <1>3 DEF AskRows
  <1>5. c \in SoundCalls
    BY <1>1, <1>2, <1>4 DEF SoundCalls
  <1>6. calls' = [calls EXCEPT ![i] = c]
    OBVIOUS
  <1> HIDE DEF c
  <1>7. InStep(calls, editing, from, unsure)
    BY DEF SettingsIInv
  <1>8. /\ [calls EXCEPT ![i] = c] \in Seq(SoundCalls)
        /\ InStep([calls EXCEPT ![i] = c], editing, from, unsure)
    BY ONLY <1>1, <1>2, <1>5, <1>7, i \in DOMAIN calls, OneAnswered
  <1>9. QED
    BY ONLY <1>6, <1>8

LEMMA OneRefused ==
  ASSUME SettingsIInv, NEW i \in DOMAIN calls,
         calls' = [calls EXCEPT ![i].stage = "refused"]
  PROVE  calls' \in Seq(SoundCalls) /\ InStep(calls', editing, from, unsure)
  <1> DEFINE c == [calls[i] EXCEPT !.stage = "refused"]
  <1>1. calls \in Seq(SoundCalls) /\ calls[i] \in SoundCalls /\ calls[i] \in AskRows
    BY ElementOfSeq, LenProperties DEF SettingsIInv, SoundCalls
  <1>2. /\ c.kind = calls[i].kind /\ c.key = calls[i].key /\ c.from = calls[i].from
        /\ c.sure = calls[i].sure /\ c.stage = "refused"
    BY <1>1 DEF AskRows
  <1>3. c \in AskRows
    BY <1>1 DEF AskRows
  <1>4. c \in SoundCalls
    BY <1>1, <1>2, <1>3 DEF SoundCalls
  <1>5. calls' = [calls EXCEPT ![i] = c]
    OBVIOUS
  <1> HIDE DEF c
  <1>6. InStep(calls, editing, from, unsure)
    BY DEF SettingsIInv
  <1>7. /\ [calls EXCEPT ![i] = c] \in Seq(SoundCalls)
        /\ InStep([calls EXCEPT ![i] = c], editing, from, unsure)
    BY ONLY <1>1, <1>2, <1>4, <1>6, i \in DOMAIN calls, OneAnswered
  <1>8. QED
    BY ONLY <1>5, <1>7

LEMMA ServerStep ==
  ASSUME SettingsIInv, NEW i \in DOMAIN calls, Serve(i) \/ Refuse(i)
  PROVE  SettingsIInv'
  <1>1. calls[i] \in SoundCalls /\ calls[i] \in AskRows
    BY ElementOfSeq, LenProperties DEF SettingsIInv, SoundCalls
  <1>2. UNCHANGED <<items, editing, draft, from, unsure>>
    BY DEF Serve, Refuse, editor
  <1>3. CASE Serve(i) /\ List(i)
    <2>1. Listing \in Lists
      BY MaskedIs DEF Listing, Lists, SettingsIInv
    <2>2. QED
      BY <1>2, <1>3, <2>1, OneServed DEF List, Answered, Writes, SettingsIInv
  <1>4. CASE Serve(i) /\ Reveal(i)
    <2>1. calls[i].key \in Keys
      BY <1>1, <1>4 DEF Reveal, SoundCalls
    <2>2. CASE settings[calls[i].key] = NoRow
      BY <1>2, <1>4, <2>2, OneRefused DEF Reveal, SettingsIInv
    <2>3. CASE settings[calls[i].key] # NoRow
      <3>1. settings[calls[i].key].value \in Plain
        BY <2>1, <2>3 DEF SettingsIInv, PlainRows
      <3>2. QED
        BY <1>2, <1>4, <2>3, <3>1, OneServed DEF Reveal, Answered, Writes, SettingsIInv
    <2>4. QED
      BY <2>2, <2>3
  <1>5. CASE Serve(i) /\ (Upsert(i) \/ Delete(i))
    <2>1. settings' \in [Keys -> PlainRows \cup {NoRow}]
      BY <1>1, <1>5 DEF Upsert, Delete, SettingsIInv, AskRows
    <2>2. calls[i].kind \in Writes
      BY <1>5 DEF Upsert, Delete, Writes
    <2>3. calls' \in Seq(SoundCalls) /\ InStep(calls', editing, from, unsure)
      BY <1>5, <2>2, OneServed DEF Upsert, Delete, Answered, Writes
    <2>4. QED
      BY <1>2, <2>1, <2>3 DEF SettingsIInv
  <1>6. CASE Refuse(i)
    BY <1>2, <1>6, OneRefused DEF Refuse, SettingsIInv
  <1>7. QED
    BY <1>3, <1>4, <1>5, <1>6 DEF Serve

LEMMA TableStep ==
  ASSUME SettingsIInv, Seed \/ \E k \in Keys, row \in OthersRows : OthersWrite(k, row)
  PROVE  SettingsIInv'
  <1>1. UNCHANGED <<items, editing, draft, from, unsure, calls>>
    BY DEF Seed, OthersWrite, editor, requests
  <1>2. settings' \in [Keys -> PlainRows \cup {NoRow}]
    <2>1. CASE Seed
      BY <2>1, TextsAre DEF Seed, SettingsIInv
    <2>2. ASSUME NEW k \in Keys, NEW row \in OthersRows, OthersWrite(k, row)
          PROVE  settings' \in [Keys -> PlainRows \cup {NoRow}]
      BY <2>2, TextsAre DEF OthersWrite, SettingsIInv
    <2>3. QED
      BY <2>1, <2>2
  <1>3. QED
    BY <1>1, <1>2 DEF SettingsIInv

-----------------------------------------------------------------------------
\* What the page asks for.
LEMMA CallIs ==
  ASSUME SettingsIInv, NEW kind \in Writes \cup {"list", "reveal"},
         NEW k \in Keys \cup {NoKey}, NEW row \in PlainRows,
         kind = "reveal" => k \in Keys,
         kind = "save" /\ ~unsure /\ Awaited = {} => from = k
  PROVE  Call(kind, k, row) \in SoundCalls /\ Call(kind, k, row).kind = kind
         /\ Call(kind, k, row).key = k
  <1> DEFINE c == Call(kind, k, row)
             sure == ~unsure /\ Awaited = {}
  <1>1. sure \in BOOLEAN /\ from \in Keys \cup {NoKey}
    BY DEF SettingsIInv
  <1>2. c = [kind |-> kind, key |-> k, row |-> row, stage |-> "sent", answer |-> NoRow,
             from |-> from, sure |-> sure]
    BY Zenon DEF Call
  <1>3. kind = "save" /\ sure => from = k
    OBVIOUS
  <1> HIDE DEF c, sure
  <1>4. c \in AskRows
    BY <1>1, <1>2 DEF AskRows
  <1>5. QED
    BY <1>2, <1>3, <1>4 DEF SoundCalls, c

LEMMA FirstListIs == FirstList \in SoundCalls /\ FirstList.kind = "list"
  BY TextsAre DEF FirstList, SoundCalls, AskRows

LEMMA PageStep ==
  ASSUME SettingsIInv,
         \/ Load \/ EnterToken \/ Cancel \/ Save
         \/ \E k \in Keys : AskDelete(k)
         \/ \E k \in Keys, row \in NewRows : Create(k, row)
         \/ \E text \in Typed : Type(text)
  PROVE  SettingsIInv'
  <1>1. CASE Load
    <2>1. Call("list", NoKey, NoAnswer) \in SoundCalls /\ Call("list", NoKey, NoAnswer).kind # "reveal"
      BY CallIs, TextsAre
    <2>2. calls' = Append(calls, Call("list", NoKey, NoAnswer))
          /\ UNCHANGED <<settings, items, editing, draft, from, unsure>>
      BY <1>1 DEF Load, Post, editor
    <2>3. QED
      BY <2>1, <2>2, OneMore DEF SettingsIInv
  <1>2. CASE EnterToken
    BY <1>2 DEF EnterToken, requests, SettingsIInv
  <1>3. CASE Cancel
    <2>1. /\ editing' = NoKey /\ from' = NoKey /\ draft' \in Plain
          /\ unsure' = (Awaited # {}) /\ UNCHANGED <<settings, items, calls>>
      BY <1>3, TextsAre DEF Cancel, requests
    <2>2. InStep(calls', editing', from', unsure')
      <3>1. CASE Awaited # {}
        BY <2>1, <3>1 DEF InStep
      <3>2. CASE Awaited = {}
        BY <2>1, <3>2 DEF InStep, Awaited
      <3>3. QED
        BY <3>1, <3>2
    <2>3. unsure' \in BOOLEAN
      BY <2>1
    <2>4. QED
      BY <2>1, <2>2, <2>3 DEF SettingsIInv
  <1>4. CASE Save
    <2> DEFINE row == [value |-> draft, secret |-> items[editing].secret]
    <2>1. editing \in Keys /\ items[editing] \in ShownRows
      BY <1>4 DEF Save, Shown, SettingsIInv, Lists
    <2>2. row \in PlainRows
      BY <2>1 DEF PlainRows, SettingsIInv, ShownRows, Rows
    <2>3. ~unsure /\ Awaited = {} => from = editing
      BY <2>1, SettingsAssumption DEF Awaited, InStep, SettingsIInv
    <2>4. calls' = Append(calls, Call("save", editing, row))
          /\ UNCHANGED <<settings, items, editing, draft, from, unsure>>
      BY <1>4 DEF Save, Post, editor
    <2> HIDE DEF row
    <2>5. Call("save", editing, row) \in SoundCalls /\ Call("save", editing, row).kind # "reveal"
      BY <2>1, <2>2, <2>3, CallIs DEF Writes
    <2>6. QED
      BY <2>4, <2>5, OneMore DEF SettingsIInv
  <1>5. ASSUME NEW k \in Keys, AskDelete(k)
        PROVE  SettingsIInv'
    <2>1. Call("delete", k, NoAnswer) \in SoundCalls /\ Call("delete", k, NoAnswer).kind # "reveal"
      BY CallIs, TextsAre DEF Writes
    <2>2. calls' = Append(calls, Call("delete", k, NoAnswer))
          /\ UNCHANGED <<settings, items, editing, draft, from, unsure>>
      BY <1>5 DEF AskDelete, Post, editor
    <2>3. QED
      BY <2>1, <2>2, OneMore DEF SettingsIInv
  <1>6. ASSUME NEW k \in Keys, NEW row \in NewRows, Create(k, row)
        PROVE  SettingsIInv'
    <2>1. row \in PlainRows
      BY TextsAre
    <2>2. Call("create", k, row) \in SoundCalls /\ Call("create", k, row).kind # "reveal"
      BY <2>1, CallIs DEF Writes
    <2>3. calls' = Append(calls, Call("create", k, row))
          /\ UNCHANGED <<settings, items, editing, draft, from, unsure>>
      BY <1>6 DEF Create, Post, editor
    <2>4. QED
      BY <2>2, <2>3, OneMore DEF SettingsIInv
  <1>7. ASSUME NEW text \in Typed, Type(text)
        PROVE  SettingsIInv'
    BY <1>7, TextsAre DEF Type, requests, SettingsIInv
  <1>8. QED
    BY <1>1, <1>2, <1>3, <1>4, <1>5, <1>6, <1>7

\* The input of another row opens.
LEMMA OpenStep ==
  ASSUME SettingsIInv, NEW k \in Keys, StartEdit(k)
  PROVE  SettingsIInv'
  <1>1. items[k] \in ShownRows
    BY DEF StartEdit, Shown, SettingsIInv, Lists
  <1>2. unsure' = (Awaited # {}) /\ UNCHANGED <<settings, items>>
    BY DEF StartEdit
  <1>3. unsure' \in BOOLEAN /\ (~unsure' <=> \A i \in DOMAIN calls : calls[i].kind # "reveal")
    BY <1>2 DEF Awaited
  <1>4. CASE EditPlain(k)
    <2>1. /\ editing' = k /\ from' = k /\ calls' = calls /\ draft' = items[k].value
      BY <1>4 DEF EditPlain, requests
    <2>2. draft' \in Plain
      BY <1>1, <1>4, <2>1 DEF EditPlain, ShownRows, Rows, Plain
    <2>3. InStep(calls', editing', from', unsure')
      BY <1>3, <2>1 DEF InStep
    <2>4. QED
      BY <1>2, <1>3, <2>1, <2>2, <2>3 DEF SettingsIInv
  <1>5. CASE EditSecretUnasked(k)
    <2>1. editing' = NoKey /\ UNCHANGED <<draft, from, calls>>
      BY <1>5 DEF EditSecretUnasked, requests
    <2>2. InStep(calls', editing', from', unsure')
      BY <1>3, <2>1 DEF InStep
    <2>3. QED
      BY <1>2, <1>3, <2>1, <2>2 DEF SettingsIInv
  <1>6. CASE EditSecret(k)
    <2> DEFINE c == Call("reveal", k, NoAnswer)
    <2>1. editing' = k /\ UNCHANGED <<draft, from>> /\ calls' = Append(calls, c)
      BY <1>6 DEF EditSecret, Post
    <2>2. c \in SoundCalls /\ c.kind = "reveal" /\ c.key = k
      BY CallIs, TextsAre
    <2> HIDE DEF c
    <2>3. calls' \in Seq(SoundCalls)
      BY <2>1, <2>2, OneMore DEF SettingsIInv
    <2>4. InStep(calls', editing', from', unsure')
      <3>1. CASE unsure'
        BY <3>1 DEF InStep
      <3>2. CASE ~unsure'
        BY <1>3, <2>1, <2>2, <3>2, OneMore DEF SettingsIInv
      <3>3. QED
        BY <3>1, <3>2
    <2>5. QED
      BY <1>2, <1>3, <2>1, <2>3, <2>4 DEF SettingsIInv
  <1>7. QED
    BY <1>4, <1>5, <1>6 DEF StartEdit

-----------------------------------------------------------------------------
\* What comes back.
LEMMA AnswerStep ==
  ASSUME SettingsIInv, NEW i \in DOMAIN calls, Arrive(i) \/ Refused(i) \/ Lost(i)
  PROVE  SettingsIInv'
  <1>1. calls[i] \in SoundCalls /\ calls[i] \in AskRows
    BY ElementOfSeq, LenProperties DEF SettingsIInv, SoundCalls
  <1>2. /\ Rest(i) \in Seq(SoundCalls)
        /\ calls[i].kind # "reveal" => InStep(Rest(i), editing, from, unsure)
        /\ ~unsure /\ calls[i].kind = "reveal" =>
             \A j \in DOMAIN Rest(i) : Rest(i)[j].kind # "reveal"
    BY OneGone DEF Rest, SettingsIInv
  <1>3. ~unsure /\ editing # NoKey /\ calls[i].kind = "reveal" => calls[i].key = editing
    BY DEF InStep, SettingsIInv
  <1>4. CASE Arrive(i) /\ Listed(i)
    BY <1>1, <1>2, <1>4 DEF Arrive, Listed, Back, SettingsIInv, SoundCalls
  <1>5. CASE Arrive(i) /\ Revealed(i)
    <2>1. /\ calls' = Rest(i) /\ draft' = calls[i].answer /\ from' = calls[i].key
          /\ calls[i].kind = "reveal" /\ calls[i].stage = "answered"
          /\ UNCHANGED <<settings, items, editing, unsure>>
      BY <1>5 DEF Arrive, Revealed, Back
    <2>2. draft' \in Plain /\ from' \in Keys
      BY <1>1, <2>1 DEF SoundCalls
    <2>3. InStep(calls', editing', from', unsure')
      BY <1>2, <1>3, <2>1 DEF InStep
    <2>4. QED
      BY <1>2, <2>1, <2>2, <2>3 DEF SettingsIInv
  <1>6. ASSUME NEW rest \in Seq(SoundCalls), InStep(rest, editing, from, unsure),
               calls' = Append(rest, FirstList), UNCHANGED unsure
        PROVE  calls' \in Seq(SoundCalls) /\ InStep(calls', editing, from, unsure')
    BY <1>6, FirstListIs, OneMore
  <1>7. CASE Arrive(i) /\ Saved(i)
    <2>1. /\ calls' = Append(Rest(i), FirstList) /\ calls[i].kind = "save"
          /\ editing' = NoKey /\ draft' = Empty /\ from' = NoKey
          /\ UNCHANGED <<settings, items, unsure>>
      BY <1>7 DEF Arrive, Saved, LoadNext
    <2>2. calls' \in Seq(SoundCalls) /\ InStep(calls', editing, from, unsure')
      BY <1>2, <1>6, <2>1
    <2>3. InStep(calls', editing', from', unsure')
      BY <2>1, <2>2 DEF InStep
    <2>4. QED
      BY <2>1, <2>2, <2>3, TextsAre DEF SettingsIInv
  <1>8. CASE Arrive(i) /\ Changed(i)
    <2>1. /\ calls' = Append(Rest(i), FirstList) /\ calls[i].kind # "reveal"
          /\ UNCHANGED <<settings, items, editing, draft, from, unsure>>
      BY <1>8 DEF Arrive, Changed, LoadNext
    <2>2. calls' \in Seq(SoundCalls) /\ InStep(calls', editing, from, unsure')
      BY <1>2, <1>6, <2>1
    <2>3. QED
      BY <2>1, <2>2 DEF SettingsIInv
  <1>9. CASE Refused(i)
    <2>1. /\ calls' = Rest(i) /\ UNCHANGED <<settings, items, draft, from, unsure>>
          /\ editing' = IF calls[i].kind = "reveal" THEN NoKey ELSE editing
      BY <1>9 DEF Refused, Back
    <2>2. InStep(calls', editing', from', unsure')
      BY <1>2, <2>1 DEF InStep
    <2>3. QED
      BY <1>2, <2>1, <2>2 DEF SettingsIInv
  <1>10. CASE Lost(i)
    <2>1. /\ calls' = Rest(i) /\ UNCHANGED <<settings, items, editing, draft, from>>
          /\ unsure' = (unsure \/ calls[i].kind = "reveal")
      BY <1>10 DEF Lost, Back, editor
    <2>2. InStep(calls', editing', from', unsure') /\ unsure' \in BOOLEAN
      <3>1. CASE unsure'
        BY <2>1, <3>1 DEF InStep
      <3>2. CASE ~unsure'
        BY <1>2, <2>1, <3>2 DEF SettingsIInv
      <3>3. QED
        BY <3>1, <3>2
    <2>3. QED
      BY <1>2, <2>1, <2>2 DEF SettingsIInv
  <1>11. QED
    BY <1>4, <1>5, <1>7, <1>8, <1>9, <1>10 DEF Arrive

LEMMA SettingsStep ==
  ASSUME SettingsIInv, [SettingsNext]_settingsVars
  PROVE  SettingsIInv'
  <1>1. CASE SettingsNext
    BY <1>1, ServerStep, TableStep, PageStep, OpenStep, AnswerStep DEF SettingsNext
  <1>2. CASE UNCHANGED settingsVars
    BY <1>2 DEF settingsVars, editor, requests, SettingsIInv
  <1>3. QED
    BY <1>1, <1>2

LEMMA SettingsHolds == (SettingsInit => SettingsIInv) /\ (SettingsIInv => SavesItsOwnDraft)
  <1>1. ASSUME SettingsInit
        PROVE  SettingsIInv
    <2>1. settings \in [Keys -> PlainRows \cup {NoRow}] /\ items \in Lists
      BY <1>1, TextsAre DEF SettingsInit, Lists
    <2>2. calls \in Seq(SoundCalls) /\ \A i \in DOMAIN calls : calls[i].kind = "list"
      BY <1>1, FirstListIs DEF SettingsInit
    <2>3. InStep(calls, editing, from, unsure)
      BY <1>1, <2>2 DEF SettingsInit, InStep
    <2>4. QED
      BY <1>1, <2>1, <2>2, <2>3, TextsAre DEF SettingsInit, SettingsIInv
  <1>2. ASSUME SettingsIInv, NEW i \in DOMAIN calls, calls[i].kind = "save", calls[i].sure
        PROVE  calls[i].from = calls[i].key /\ calls[i].row.value # Dots
    <2>1. calls[i] \in SoundCalls
      BY <1>2, ElementOfSeq, LenProperties DEF SettingsIInv
    <2>2. QED
      BY <1>2, <2>1 DEF SoundCalls, AskRows, PlainRows, Plain
  <1>3. QED
    BY <1>1, <1>2 DEF SavesItsOwnDraft

\* A settings page that is not too quick saves each row's own text and never the mask.
THEOREM DraftsStayWithTheirRow == Spec => []SavesItsOwnDraft
  <1>1. Init => SettingsIInv
    BY SettingsHolds DEF Init
  <1>2. SettingsIInv /\ [Next]_vars => SettingsIInv'
    BY LaneSteps, SettingsStep
  <1>3. SettingsIInv => SavesItsOwnDraft
    BY SettingsHolds
  <1>4. QED
    BY <1>1, <1>2, <1>3, PTL DEF Spec

-----------------------------------------------------------------------------
(* The event feed. *)

\* A sequence that ends with the event last, leaves none out, and has at least n
\* events or all since the event before.
TailOf(s, last, n, before) ==
  /\ \A i \in 1..Len(s) : s[i] = last - Len(s) + i
  /\ Len(s) >= n \/ Len(s) = last - before

\* The ring is such a tail too: that is what a newcomer is sent from.
FeedIInv ==
  /\ process \in [up : BOOLEAN, before : Nat] /\ emitted \in Nat
  /\ ring \in Seq(Nat) /\ clients \subseteq Sources /\ wire \in [Sources -> Seq(Nat)]
  /\ process.before <= emitted
  /\ ~process.up => clients = {}
  /\ TailOf(ring, emitted, Keep, process.before)
  /\ \A c \in clients : TailOf(wire[c], emitted, Replay, process.before)

LEMMA LatestIs ==
  ASSUME NEW s \in Seq(Nat), NEW n \in Nat \ {0}
  PROVE  /\ Latest(s, n) \in Seq(Nat)
         /\ Len(Latest(s, n)) = IF Len(s) > n THEN n ELSE Len(s)
         /\ \A i \in 1..Len(Latest(s, n)) :
              Latest(s, n)[i] = s[Len(s) - Len(Latest(s, n)) + i]
  <1>1. CASE Len(s) > n
    <2>1. Latest(s, n) = SubSeq(s, Len(s) - n + 1, Len(s))
      BY <1>1 DEF Latest
    <2>2. Len(s) - n + 1 \in 1..Len(s) /\ Len(s) \in Nat
      BY <1>1
    <2> DEFINE k == Len(s) - n
    <2>3. k + 1 \in 1..Len(s) + 1 /\ Len(s) \in (k + 1) - 1..Len(s) /\ Len(s) - (k + 1) + 1 = n
            /\ Len(s) = k + n
      BY <2>2
    <2> HIDE DEF k
    <2> DEFINE t == SubSeq(s, k + 1, Len(s))
    <2>8. /\ t \in Seq(Nat) /\ Len(t) = (IF k + 1 <= Len(s) THEN Len(s) - (k + 1) + 1 ELSE 0)
          /\ \A i \in 1..Len(s) - (k + 1) + 1 : t[i] = s[k + 1 + i - 1]
      <3>1. \A i \in k + 1..Len(s) : s[i] \in Nat
        BY <2>2, <2>3, SMTT(40)
      <3>2. k + 1 \in Int /\ Len(s) \in Int
        BY <2>2, <2>3
      <3> HIDE DEF t
      <3>3. QED
        BY <3>1, <3>2, SubSeqProperties DEF t
    <2> HIDE DEF t
    <2>9. k \in Nat
      BY <1>1 DEF k
    <2>4. t \in Seq(Nat) /\ Len(t) = n
      BY <2>2, <2>3, <2>8
    <2>5. \A i \in 1..n : t[i] = s[k + i]
      <3>1. \A i \in 1..n : k + 1 + i - 1 = k + i
        BY <2>9
      <3>2. QED
        BY <2>3, <2>8, <3>1
    <2>6. t = Latest(s, n) /\ Len(s) - n = k
      BY <2>1 DEF k, t
    <2>7. QED
      BY <1>1, <2>4, <2>5, <2>6
  <1>2. CASE ~(Len(s) > n)
    <2>1. Latest(s, n) = SubSeq(s, 1, Len(s))
      BY <1>2 DEF Latest
    <2>2. SubSeq(s, 1, Len(s)) = s
      OBVIOUS
    <2>3. Latest(s, n) = s
      BY <2>1, <2>2
    <2>4. \A i \in 1..Len(s) : Len(s) - Len(s) + i = i
      OBVIOUS
    <2>5. QED
      BY <1>2, <2>3, <2>4
  <1>3. QED
    BY <1>1, <1>2

LEMMA LatestIsTail ==
  ASSUME NEW s \in Seq(Nat), NEW last \in Nat, NEW before \in Nat, NEW k \in Nat, NEW n \in 1..k,
         TailOf(s, last, k, before)
  PROVE  Latest(s, n) \in Seq(Nat) /\ TailOf(Latest(s, n), last, n, before)
  <1> DEFINE t == Latest(s, n)
  <1>1. /\ t \in Seq(Nat) /\ Len(t) = (IF Len(s) > n THEN n ELSE Len(s))
        /\ \A i \in 1..Len(t) : t[i] = s[Len(s) - Len(t) + i]
    <2> HIDE DEF t
    <2>1. n \in Nat \ {0}
      OBVIOUS
    <2>2. QED
      BY <2>1, LatestIs DEF t
  <1> HIDE DEF t
  <1>2. Len(s) \in Nat /\ Len(t) \in Nat /\ Len(t) <= Len(s)
    BY <1>1
  <1>3. ASSUME NEW i \in 1..Len(t) PROVE t[i] = last - Len(t) + i
    <2>1. Len(s) - Len(t) + i \in 1..Len(s)
      BY <1>2
    <2>2. s[Len(s) - Len(t) + i] = last - Len(s) + (Len(s) - Len(t) + i)
      BY <2>1 DEF TailOf
    <2>3. t[i] = s[Len(s) - Len(t) + i]
      BY <1>1
    <2>4. last - Len(s) + (Len(s) - Len(t) + i) = last - Len(t) + i
      BY <1>2
    <2>5. QED
      BY <2>2, <2>3, <2>4
  <1>4. Len(t) >= n \/ Len(t) = last - before
    BY <1>1, <1>2 DEF TailOf
  <1>5. QED
    BY <1>1, <1>3, <1>4 DEF TailOf, t

LEMMA TailGoesOn ==
  ASSUME NEW s \in Seq(Nat), NEW last \in Nat, NEW before \in Nat, NEW n \in Nat,
         TailOf(s, last, n, before)
  PROVE  /\ Append(s, last + 1) \in Seq(Nat)
         /\ TailOf(Append(s, last + 1), last + 1, n, before)
  <1> DEFINE t == Append(s, last + 1)
  <1>1. /\ t \in Seq(Nat) /\ Len(t) = Len(s) + 1 /\ Len(s) \in Nat
        /\ \A i \in 1..Len(s) : t[i] = s[i]
        /\ t[Len(s) + 1] = last + 1
    OBVIOUS
  <1> HIDE DEF t
  <1>2. ASSUME NEW i \in 1..Len(t) PROVE t[i] = last + 1 - Len(t) + i
    <2>1. CASE i \in 1..Len(s)
      BY <1>1, <2>1 DEF TailOf
    <2>2. CASE i = Len(s) + 1
      BY <1>1, <2>2
    <2>3. QED
      BY <1>1, <2>1, <2>2
  <1>3. Len(t) >= n \/ Len(t) = last + 1 - before
    BY <1>1, SMTT(40) DEF TailOf
  <1>4. QED
    BY <1>1, <1>2, <1>3 DEF TailOf, t

LEMMA FeedStep ==
  ASSUME FeedIInv, [FeedNext]_feedVars
  PROVE  FeedIInv'
  <1>0. Keep \in Nat /\ Replay \in 1..Keep /\ Keep \in 1..Keep
    BY FeedAssumption
  <1> USE DEF FeedIInv
  <1>1. CASE Emit
    <2>1. /\ emitted' = emitted + 1 /\ UNCHANGED <<process, clients>>
          /\ ring' = Latest(Append(ring, emitted + 1), Keep)
          /\ wire' = [c \in Sources |->
               IF c \in clients THEN Append(wire[c], emitted + 1) ELSE wire[c]]
      BY <1>1 DEF Emit
    <2>2. process.before \in Nat
      OBVIOUS
    <2>3. ring' \in Seq(Nat) /\ TailOf(ring', emitted', Keep, process.before)
      <3>1. /\ Append(ring, emitted + 1) \in Seq(Nat)
            /\ TailOf(Append(ring, emitted + 1), emitted + 1, Keep, process.before)
        BY <1>0, <2>2, TailGoesOn
      <3>2. emitted + 1 \in Nat
        OBVIOUS
      <3> HIDE DEF FeedIInv
      <3>3. QED
        BY <1>0, <2>1, <2>2, <3>1, <3>2, LatestIsTail
    <2>4. ASSUME NEW c \in Sources
          PROVE  /\ wire'[c] \in Seq(Nat)
                 /\ c \in clients' => TailOf(wire'[c], emitted', Replay, process.before)
      <3>1. CASE c \in clients
        <4>1. wire'[c] = Append(wire[c], emitted + 1)
          BY <2>1, <3>1
        <4>2. wire[c] \in Seq(Nat) /\ TailOf(wire[c], emitted, Replay, process.before)
                /\ Replay \in Nat /\ emitted \in Nat
          BY <1>0, <3>1
        <4> HIDE DEF FeedIInv
        <4>3. QED
          BY <2>1, <2>2, <4>1, <4>2, TailGoesOn
      <3>2. CASE c \notin clients
        BY <2>1, <3>2
      <3>3. QED
        BY <3>1, <3>2
    <2>5. wire' \in [Sources -> Seq(Nat)]
      BY <2>1, <2>4
    <2>6. emitted' \in Nat /\ process.before <= emitted'
      BY <2>1
    <2>7. QED
      BY <2>1, <2>3, <2>4, <2>5, <2>6
  <1>2. ASSUME NEW c \in Sources, Join(c) PROVE FeedIInv'
    <2>1. /\ clients' = clients \cup {c} /\ UNCHANGED <<process, emitted, ring>>
          /\ wire' = [wire EXCEPT ![c] = Latest(ring, Replay)] /\ process.up
      BY <1>2 DEF Join
    <2>2. Latest(ring, Replay) \in Seq(Nat)
            /\ TailOf(Latest(ring, Replay), emitted, Replay, process.before)
      <3>1. /\ ring \in Seq(Nat) /\ emitted \in Nat /\ process.before \in Nat
            /\ TailOf(ring, emitted, Keep, process.before)
        OBVIOUS
      <3> HIDE DEF FeedIInv
      <3>2. QED
        BY <1>0, <3>1, LatestIsTail
    <2>3. QED
      BY <2>1, <2>2
  <1>3. CASE StopServer
    BY <1>3 DEF StopServer
  <1>4. CASE StartServer
    <2>1. process' = [up |-> TRUE, before |-> emitted] /\ ring' = <<>> /\ clients = {}
            /\ UNCHANGED <<emitted, clients, wire>>
      BY <1>4 DEF StartServer
    <2>2. TailOf(ring', emitted, Keep, emitted)
      <3>1. emitted - emitted = 0 /\ Len(<<>>) = 0
        OBVIOUS
      <3>2. QED
        BY <2>1, <3>1 DEF TailOf
    <2>3. QED
      BY <2>1, <2>2
  <1>5. ASSUME NEW c \in Sources, Leave(c) PROVE FeedIInv'
    BY <1>5 DEF Leave
  <1>6. CASE UNCHANGED feed
    BY <1>6 DEF feed
  <1>7. ASSUME NEW c \in Sources, Drop(c) PROVE FeedIInv'
    BY <1>6, <1>7 DEF Drop
  <1>8. CASE Mount \/ Opened \/ Rejected \/ Fail \/ Timer \/ Unmount
    BY <1>6, <1>8 DEF Mount, Opened, Rejected, Fail, Timer, Unmount
  <1>9. CASE UNCHANGED feedVars
    BY <1>6, <1>9 DEF feedVars
  <1>10. QED
    BY <1>1, <1>2, <1>3, <1>4, <1>5, <1>7, <1>8, <1>9 DEF FeedNext, Joins

LEMMA FeedHolds ==
  /\ FeedInit => FeedIInv
  /\ FeedIInv => WireIsTheTail
  <1>1. ASSUME FeedInit PROVE FeedIInv
    <2>1. <<>> \in Seq(Nat) /\ 0 - 0 = 0 /\ Len(<<>>) = 0
      OBVIOUS
    <2>2. QED
      BY <1>1, <2>1 DEF FeedInit, FeedIInv, TailOf
  <1>2. ASSUME FeedIInv PROVE WireIsTheTail
    BY <1>2 DEF FeedIInv, TailOf, WireIsTheTail
  <1>3. QED
    BY <1>1, <1>2

\* What the socket has sent is the tail of what was published, in order and without a
\* gap, whenever the client came.
THEOREM FeedShowsTheTail == Spec => []WireIsTheTail
  <1>1. Init => FeedIInv
    BY FeedHolds DEF Init
  <1>2. FeedIInv /\ [Next]_vars => FeedIInv'
    BY LaneSteps, FeedStep
  <1>3. FeedIInv => WireIsTheTail
    BY FeedHolds
  <1>4. QED
    BY <1>1, <1>2, <1>3, PTL DEF Spec

-----------------------------------------------------------------------------
(* The wallet page. *)

\* A transfer that nobody has disturbed is the only one under way, and the wallet is on
\* its chain from the moment it was asked for it.
VaultPageIInv ==
  /\ VaultPageTypeOK
  /\ \A i \in UnderWay \ disturbed :
       /\ UnderWay = {i}
       /\ transfers[i].step = "sending" => wallet.on = ChainOf[transfers[i].vault]
  /\ SentOnItsChain

TransferRows == [step : Steps, vault : Vaults, sentOn : Chains \cup {NoChain}]

LEMMA TransferMoves ==
  ASSUME NEW old \in [Transfers -> TransferRows], NEW i \in Transfers, NEW step \in Steps
  PROVE  /\ [old EXCEPT ![i].step = step] \in [Transfers -> TransferRows]
         /\ \A vault \in Vaults :
              [old EXCEPT ![i].step = step, ![i].vault = vault] \in [Transfers -> TransferRows]
         /\ \A on \in Chains :
              [old EXCEPT ![i].step = step, ![i].sentOn = on] \in [Transfers -> TransferRows]
  BY DEF TransferRows

LEMMA VaultPageStep ==
  ASSUME VaultPageIInv, [VaultPageNext]_vaultPageVars
  PROVE  VaultPageIInv'
  <1> USE DEF VaultPageIInv, VaultPageTypeOK, Steps, UnderWay, SentOnItsChain
  <1>1. CASE ConnectWallet
    BY <1>1 DEF ConnectWallet
  <1>2. ASSUME NEW v \in Vaults, SelectVault(v) PROVE VaultPageIInv'
    BY <1>2 DEF SelectVault
  <1>3. ASSUME NEW i \in Transfers, Begin(i) PROVE VaultPageIInv'
    <2>1. VaultPageTypeOK'
      <3>1. "switching" \in Steps
        OBVIOUS
      <3> HIDE DEF Steps
      <3>2. transfers' \in [Transfers -> TransferRows]
        <4>1. transfers \in [Transfers -> TransferRows] /\ chosen \in Vaults
          BY DEF TransferRows
        <4>2. transfers' = [transfers EXCEPT ![i].step = "switching", ![i].vault = chosen]
          BY <1>3 DEF Begin
        <4> HIDE DEF VaultPageIInv
        <4>3. QED
          BY <3>1, <4>1, <4>2, TransferMoves
      <3>3. disturbed' \subseteq Transfers /\ UNCHANGED <<wallet, account, chosen, moves>>
        BY <1>3 DEF Begin
      <3>4. QED
        BY <3>2, <3>3 DEF TransferRows
    <2>2. QED
      BY <1>3, <2>1 DEF Begin
  <1>4. ASSUME NEW i \in Transfers, Switched(i) PROVE VaultPageIInv'
    <2>1. VaultPageTypeOK'
      BY <1>4 DEF Switched, Chains
    <2>2. QED
      BY <1>4, <2>1 DEF Switched
  <1>5. ASSUME NEW i \in Transfers, SwitchDeclined(i) PROVE VaultPageIInv'
    BY <1>5 DEF SwitchDeclined
  <1>6. ASSUME NEW i \in Transfers, Added(i) PROVE VaultPageIInv'
    <2>1. VaultPageTypeOK'
      BY <1>6 DEF Added, Chains
    <2>2. QED
      BY <1>6, <2>1 DEF Added
  <1>7. ASSUME NEW i \in Transfers, SendTransfer(i) PROVE VaultPageIInv'
    <2>1. VaultPageTypeOK'
      <3>1. "sent" \in Steps
        OBVIOUS
      <3> HIDE DEF Steps
      <3>2. wallet.on \in Chains
        OBVIOUS
      <3>3. transfers' \in [Transfers -> TransferRows]
        <4>1. transfers \in [Transfers -> TransferRows]
          BY DEF TransferRows
        <4>2. transfers' = [transfers EXCEPT ![i].step = "sent", ![i].sentOn = wallet.on]
          BY <1>7 DEF SendTransfer
        <4> HIDE DEF VaultPageIInv
        <4>3. QED
          BY <3>1, <3>2, <4>1, <4>2, TransferMoves
      <3>4. UNCHANGED <<wallet, account, chosen, moves, disturbed>>
        BY <1>7 DEF SendTransfer
      <3>5. QED
        BY <3>3, <3>4 DEF TransferRows
    <2>2. QED
      BY <1>7, <2>1 DEF SendTransfer
  <1>8. ASSUME NEW i \in Transfers, TransferFails(i) PROVE VaultPageIInv'
    BY <1>8 DEF TransferFails
  <1>9. ASSUME NEW chain1 \in Chains, MoveByHand(chain1) PROVE VaultPageIInv'
    <2>1. moves' \in 0..MaxMoves
      BY <1>9, VaultPageAssumption DEF MoveByHand
    <2>2. QED
      BY <1>9, <2>1 DEF MoveByHand
  <1>10. CASE UNCHANGED vaultPageVars
    BY <1>10 DEF vaultPageVars
  <1>11. QED
    BY <1>1, <1>2, <1>3, <1>4, <1>5, <1>6, <1>7, <1>8, <1>9, <1>10 DEF VaultPageNext

\* Money leaves on the chain of its vault unless somebody meddled or the chain had to be
\* added, for any chains and any number of transfers (the wallet page).
THEOREM TransfersStayOnTheirChain == Spec => []SentOnItsChain
  <1>1. Init => VaultPageIInv
    <2>1. SUFFICES ASSUME VaultPageInit PROVE VaultPageIInv
      BY DEF Init
    <2>2. VaultPageTypeOK
      <3>1. Default \in Vaults /\ 0 \in 0..MaxMoves
        BY VaultPageAssumption DEF Vaults
      <3>2. wallet \in [on : Chains, knows : SUBSET Chains] /\ wallet.on \in wallet.knows
        BY <2>1 DEF VaultPageInit, Chains
      <3>3. QED
        BY <2>1, <3>1, <3>2 DEF VaultPageInit, VaultPageTypeOK, Steps
    <2>3. UnderWay = {} /\ SentOnItsChain
      BY <2>1 DEF VaultPageInit, UnderWay, SentOnItsChain
    <2>4. QED
      BY <2>2, <2>3 DEF VaultPageIInv
  <1>2. VaultPageIInv /\ [Next]_vars => VaultPageIInv'
    BY LaneSteps, VaultPageStep
  <1>3. VaultPageIInv => SentOnItsChain
    BY DEF VaultPageIInv
  <1>4. QED
    BY <1>1, <1>2, <1>3, PTL DEF Spec

-----------------------------------------------------------------------------
(* The page of the demo. *)

\* A run before that of the state could not be spawned.
AfterUnborn(state) == \E u \in unborn : u < state.demo

OfOneRun(state) == SpokenOf(state) \subseteq {state.demo} \/ AfterUnborn(state)

\* Runs are taken in order.
InOrder == \A r, q \in Demos : q < r /\ child[r] # "none" => child[q] # "none"

\* A child that has not closed is that of the run on the board, which then shows it as
\* running, unless a run before could not be spawned.
LivingIsOnBoard(r) ==
  /\ child[r] \in {"unborn", "errored"} => r \in unborn
  /\ child[r] \in Living =>
       /\ r <= board.demo
       /\ \/ child[r] = "errored"
          \/ r = board.demo /\ board.status = "running"
          \/ AfterUnborn(board)

DemoPageIInv ==
  /\ DemoPageTypeOK
  /\ InOrder
  /\ board.demo # NoDemo => child[board.demo] # "none"
  /\ \A r \in Demos : LivingIsOnBoard(r)
  /\ OfOneRun(board) /\ OfOneRun(view)
  /\ \A state \in answers : OfOneRun(state)

LEMMA DemosAreNumbers ==
  ASSUME DemoPageIInv
  PROVE  /\ board \in Boards /\ child \in [Demos -> Living \cup {"none", "closed"}]
         /\ unborn \subseteq Demos /\ board.demo \in SomeDemo
         /\ \A r \in SomeDemo : r \in Nat
         /\ \A r \in Demos : r \in Nat /\ 0 < r
  <1>1. \A r \in Demos : r \in Nat /\ 0 < r
    BY DemoPageAssumption
  <1>2. \A r \in SomeDemo : r \in Nat
    BY <1>1 DEF SomeDemo, NoDemo
  <1>3. board \in Boards /\ board.demo \in SomeDemo
    BY DEF DemoPageIInv, DemoPageTypeOK, Boards
  <1>4. QED
    BY <1>1, <1>2, <1>3 DEF DemoPageIInv, DemoPageTypeOK

\* Pages and answers are of one run as long as the runs that could not be spawned stay.
LEMMA PagesKeep ==
  ASSUME DemoPageIInv, unborn \subseteq unborn', view' \in answers \cup {view, board},
         answers' \subseteq answers \cup {board}
  PROVE  /\ OfOneRun(view)' /\ \A state \in answers' : OfOneRun(state)'
         /\ unborn' \subseteq Demos => view' \in Boards /\ answers' \subseteq Boards
  BY DEF DemoPageIInv, DemoPageTypeOK, OfOneRun, AfterUnborn

LEMMA StartStep ==
  ASSUME DemoPageIInv, NEW r \in Demos, StartDemo(r)
  PROVE  /\ board' \in Boards /\ child' \in [Demos -> Living \cup {"none", "closed"}]
         /\ InOrder' /\ (board.demo # NoDemo => child[board.demo] # "none")'
         /\ (\A q \in Demos : LivingIsOnBoard(q))' /\ OfOneRun(board)'
  <1>1. /\ board' = [status |-> "running", demo |-> r, report |-> NoDemo, error |-> NoDemo]
        /\ unborn' = unborn /\ board.status # "running"
        /\ child[r] = "none" /\ \A q \in Demos : q < r => child[q] # "none"
    BY DEF StartDemo, BlankBoard
  <1>2. /\ child' \in [Demos -> Living \cup {"none", "closed"}]
        /\ child'[r] = "minting" /\ \A q \in Demos \ {r} : child'[q] = child[q]
    BY DEF StartDemo, DemoPageIInv, DemoPageTypeOK, Living
  <1>3. board' \in Boards
    BY <1>1 DEF Boards, SomeDemo
  <1>4. InOrder'
    BY <1>1, <1>2 DEF DemoPageIInv, InOrder
  <1>5. child'[r] # "none" /\ board'.demo = r
    BY <1>1, <1>2
  <1>6. OfOneRun(board)'
    BY <1>1 DEF OfOneRun, SpokenOf
  <1>7. board.demo < r
    <2>1. board.demo \in Nat /\ r \in Nat /\ 0 < r
      BY DemosAreNumbers
    <2>2. CASE board.demo = NoDemo
      BY <2>1, <2>2 DEF NoDemo
    <2>3. CASE board.demo # NoDemo
      <3>1. board.demo \in Demos /\ child[board.demo] # "none"
        BY <2>3, DemosAreNumbers DEF DemoPageIInv, SomeDemo
      <3>2. ~(r < board.demo) /\ r # board.demo
        BY <1>1, <3>1 DEF DemoPageIInv, InOrder
      <3>3. QED
        BY <2>1, <3>2
    <2>4. QED
      BY <2>2, <2>3
  <1>8. ASSUME NEW q \in Demos PROVE LivingIsOnBoard(q)'
    <2>1. r \in Nat /\ q \in Nat /\ board.demo \in Nat /\ unborn \subseteq Nat
      BY DemosAreNumbers
    <2>2. CASE q = r
      BY <1>1, <1>2, <2>1, <2>2 DEF LivingIsOnBoard
    <2>3. CASE q # r
      <3>1. LivingIsOnBoard(q) /\ child'[q] = child[q]
        BY <1>2, <2>3 DEF DemoPageIInv
      <3>2. AfterUnborn(board) => AfterUnborn(board)'
        BY <1>1, <1>7, <2>1 DEF AfterUnborn
      <3>3. QED
        BY <1>1, <1>7, <2>1, <3>1, <3>2 DEF LivingIsOnBoard
    <2>4. QED
      BY <2>2, <2>3
  <1>9. QED
    BY <1>2, <1>3, <1>4, <1>5, <1>6, <1>8

\* A child goes on, and the board keeps its run.
LEMMA ChildStep ==
  ASSUME DemoPageIInv, NEW r \in Demos,
         SpawnDemo(r) \/ PrintReport(r) \/ ChildError(r) \/ ChildCloses(r)
  PROVE  /\ board' \in Boards /\ child' \in [Demos -> Living \cup {"none", "closed"}]
         /\ unborn' \subseteq Demos /\ unborn \subseteq unborn'
         /\ InOrder' /\ (board.demo # NoDemo => child[board.demo] # "none")'
         /\ (\A q \in Demos : LivingIsOnBoard(q))' /\ OfOneRun(board)'
  <1>1. /\ board \in Boards /\ child \in [Demos -> Living \cup {"none", "closed"}]
        /\ unborn \subseteq Demos /\ board.demo \in Nat /\ r \in Nat
    BY DemosAreNumbers
  <1>2. /\ child' \in [Demos -> Living \cup {"none", "closed"}]
        /\ child[r] \in Living /\ child'[r] # "none"
        /\ \A q \in Demos \ {r} : child'[q] = child[q]
        /\ board' \in Boards /\ board'.demo = board.demo
        /\ unborn' \subseteq Demos /\ unborn \subseteq unborn'
        /\ SpokenOf(board') \subseteq SpokenOf(board) \cup {r}
    <2>1. CASE SpawnDemo(r) \/ PrintReport(r)
      BY <1>1, <2>1 DEF SpawnDemo, PrintReport, Living
    <2>2. CASE ChildError(r)
      BY <1>1, <2>2 DEF ChildError, Living, Boards, SomeDemo, SpokenOf
    <2>3. CASE ChildCloses(r)
      <3>1. PICK status \in {"ok", "fail"} :
              board' = [board EXCEPT
                !.status = status,
                !.report = IF @ = NoDemo /\ child[r] = "reported" THEN r ELSE @,
                !.error = IF status = "fail" THEN r ELSE @]
        BY <2>3 DEF ChildCloses
      <3>2. board' \in Boards /\ board'.demo = board.demo
        BY <1>1, <3>1 DEF Boards, SomeDemo
      <3>3. board'.report \in {board.report, r} /\ board'.error \in {board.error, r}
        BY <1>1, <3>1 DEF Boards
      <3>4. QED
        BY <1>1, <2>3, <3>2, <3>3 DEF ChildCloses, Living, SpokenOf
    <2>4. QED
      BY <2>1, <2>2, <2>3
  <1>3. /\ AfterUnborn(board) => AfterUnborn(board)'
        /\ child[r] \in {"unborn", "errored"} => r \in unborn
        /\ r <= board.demo
        /\ r = board.demo \/ AfterUnborn(board)
    <2>1. LivingIsOnBoard(r)
      BY DEF DemoPageIInv
    <2>2. r <= board.demo /\ (child[r] \in {"unborn", "errored"} => r \in unborn)
      BY <1>2, <2>1 DEF LivingIsOnBoard
    <2>3. AfterUnborn(board) => AfterUnborn(board)'
      BY <1>2 DEF AfterUnborn
    <2>4. CASE child[r] = "errored"
      <3>1. r \in unborn
        BY <2>2, <2>4
      <3>2. r = board.demo \/ r < board.demo
        BY <1>1, <2>2
      <3>3. QED
        BY <2>2, <2>3, <3>1, <3>2 DEF AfterUnborn
    <2>5. CASE child[r] # "errored"
      BY <1>2, <2>1, <2>2, <2>3, <2>5 DEF LivingIsOnBoard
    <2>6. QED
      BY <2>4, <2>5
  <1>4. InOrder'
    <2>1. child[r] # "none"
      BY <1>2 DEF Living
    <2>2. \A q \in Demos : child'[q] = "none" <=> child[q] = "none"
      BY <1>2, <2>1
    <2>3. QED
      BY <2>2 DEF DemoPageIInv, InOrder
  <1>5. (board.demo # NoDemo => child[board.demo] # "none")'
    BY <1>1, <1>2 DEF DemoPageIInv, Boards, SomeDemo
  <1>6. OfOneRun(board)'
    BY <1>1, <1>2, <1>3 DEF DemoPageIInv, OfOneRun
  <1>7. ASSUME NEW q \in Demos PROVE LivingIsOnBoard(q)'
    <2>1. CASE q = r
      <3>1. CASE SpawnDemo(r) \/ PrintReport(r)
        BY <1>1, <1>2, <1>3, <2>1, <3>1 DEF DemoPageIInv, LivingIsOnBoard, SpawnDemo, PrintReport, Living
      <3>2. CASE ChildError(r)
        BY <1>1, <1>2, <1>3, <2>1, <3>2 DEF LivingIsOnBoard, ChildError
      <3>3. CASE ChildCloses(r)
        BY <1>1, <1>2, <1>3, <2>1, <3>3 DEF LivingIsOnBoard, ChildCloses, Living
      <3>4. QED
        BY <3>1, <3>2, <3>3
    <2>2. CASE q # r
      <3>1. LivingIsOnBoard(q) /\ child'[q] = child[q]
        BY <1>2, <2>2 DEF DemoPageIInv
      <3>2. CASE AfterUnborn(board)
        BY <1>2, <1>3, <3>1, <3>2 DEF LivingIsOnBoard
      <3>3. CASE ~AfterUnborn(board)
        <4>1. r = board.demo
          BY <1>3, <3>3
        <4>2. child[q] \in Living => child[q] = "errored"
          BY <2>2, <3>1, <3>3, <4>1 DEF LivingIsOnBoard
        <4>3. QED
          BY <1>2, <3>1, <4>2 DEF LivingIsOnBoard
      <3>4. QED
        BY <3>2, <3>3
    <2>3. QED
      BY <2>1, <2>2
  <1>8. QED
    BY <1>2, <1>4, <1>5, <1>6, <1>7

LEMMA DemoPageStep == DemoPageIInv /\ [DemoPageNext]_demoPageVars => DemoPageIInv'
  <1> SUFFICES ASSUME DemoPageIInv, [DemoPageNext]_demoPageVars PROVE DemoPageIInv'
    OBVIOUS
  <1>1. DemoPageTypeOK
    BY DEF DemoPageIInv
  <1>2. ASSUME UNCHANGED <<board, child, unborn>>, view' \in answers \cup {view, board},
               answers' \subseteq answers \cup {board},
               form' \in [chosen : Presets \cup {LiveNetwork, NoNetwork}, post : Posts]
        PROVE  DemoPageIInv'
    <2>1. /\ OfOneRun(view)' /\ \A state \in answers' : OfOneRun(state)'
          /\ view' \in Boards /\ answers' \subseteq Boards
      BY <1>1, <1>2, PagesKeep DEF DemoPageTypeOK
    <2>2. DemoPageTypeOK'
      BY <1>1, <1>2, <2>1 DEF DemoPageTypeOK
    <2>3. InOrder' /\ (\A r \in Demos : LivingIsOnBoard(r))' /\ OfOneRun(board)'
      BY <1>2 DEF DemoPageIInv, InOrder, LivingIsOnBoard, OfOneRun, AfterUnborn
    <2>4. QED
      BY <1>2, <2>1, <2>2, <2>3 DEF DemoPageIInv
  <1>3. ASSUME NEW r \in Demos, StartDemo(r), form' \in [chosen : Presets \cup {LiveNetwork, NoNetwork}, post : Posts]
        PROVE  DemoPageIInv'
    <2>1. unborn' = unborn /\ answers' = answers /\ view' = view
      BY <1>3 DEF StartDemo
    <2>2. /\ OfOneRun(view)' /\ \A state \in answers' : OfOneRun(state)'
      BY <2>1, PagesKeep
    <2>3. DemoPageTypeOK'
      BY <1>1, <1>3, <2>1, StartStep DEF DemoPageTypeOK
    <2>4. QED
      BY <1>3, <2>2, <2>3, StartStep DEF DemoPageIInv
  <1>4. CASE \E r \in Demos : OthersStart(r)
    <2>1. PICK r \in Demos : OthersStart(r)
      BY <1>4
    <2>2. StartDemo(r) /\ form' = form
      BY <2>1 DEF OthersStart
    <2>3. QED
      BY <1>1, <1>3, <2>2 DEF DemoPageTypeOK
  <1>5. CASE PostArrives
    <2>1. CASE \E r \in Demos : /\ StartDemo(r)
                                /\ form' = [form EXCEPT !.post.at = "starting", !.post.demo = r]
      <3>1. PICK r \in Demos : /\ StartDemo(r)
                               /\ form' = [form EXCEPT !.post.at = "starting", !.post.demo = r]
        BY <2>1
      <3>2. form' \in [chosen : Presets \cup {LiveNetwork, NoNetwork}, post : Posts]
        BY <1>1, <3>1 DEF DemoPageTypeOK, Posts, SomeDemo
      <3>3. QED
        BY <1>3, <3>1, <3>2
    <2>2. CASE form' = [form EXCEPT !.post.at = "refused"] /\ UNCHANGED <<board, child, unborn, answers, view>>
      <3>1. form' \in [chosen : Presets \cup {LiveNetwork, NoNetwork}, post : Posts]
        BY <1>1, <2>2 DEF DemoPageTypeOK, Posts
      <3>2. QED
        BY <1>2, <2>2, <3>1
    <2>3. QED
      BY <1>5, <2>1, <2>2 DEF PostArrives
  <1>6. CASE \E r \in Demos : SpawnDemo(r) \/ PrintReport(r) \/ ChildError(r) \/ ChildCloses(r)
    <2>1. PICK r \in Demos : SpawnDemo(r) \/ PrintReport(r) \/ ChildError(r) \/ ChildCloses(r)
      BY <1>6
    <2>2. answers' = answers /\ view' = view /\ form' = form
      BY <2>1 DEF SpawnDemo, PrintReport, ChildError, ChildCloses
    <2>3. unborn \subseteq unborn'
      BY <2>1, ChildStep
    <2>4. /\ OfOneRun(view)' /\ \A state \in answers' : OfOneRun(state)'
      BY <2>2, <2>3, PagesKeep
    <2>5. DemoPageTypeOK'
      BY <1>1, <2>1, <2>2, ChildStep DEF DemoPageTypeOK
    <2>6. QED
      BY <2>1, <2>4, <2>5, ChildStep DEF DemoPageIInv
  <1>7. CASE ServerRestarts
    <2>1. /\ board' = [status |-> "idle", demo |-> NoDemo, report |-> NoDemo, error |-> NoDemo]
          /\ unborn' = unborn /\ answers' = answers /\ view' = view /\ form' = form
          /\ child' = [r \in Demos |-> IF child[r] = "none" THEN "none" ELSE "closed"]
      BY <1>7 DEF ServerRestarts, BlankBoard
    <2>2. /\ OfOneRun(view)' /\ \A state \in answers' : OfOneRun(state)'
      BY <2>1, PagesKeep
    <2>3. DemoPageTypeOK'
      BY <1>1, <2>1 DEF DemoPageTypeOK, Boards, SomeDemo
    <2>4. InOrder' /\ (\A r \in Demos : LivingIsOnBoard(r))' /\ OfOneRun(board)'
      BY <2>1 DEF DemoPageIInv, InOrder, LivingIsOnBoard, Living, OfOneRun, SpokenOf
    <2>5. QED
      BY <2>1, <2>2, <2>3, <2>4 DEF DemoPageIInv
  <1>8. CASE LoadChains \/ ClickRun \/ PostAnswered \/ PostLost \/ \E n \in Presets : PickNetwork(n)
    <2>1. /\ UNCHANGED <<board, child, unborn, answers, view>>
          /\ form' \in [chosen : Presets \cup {LiveNetwork, NoNetwork}, post : Posts]
      BY <1>1, <1>8 DEF DemoPageTypeOK, Posts, SomeDemo, NoPost, LoadChains, ClickRun, PostAnswered,
                        PostLost, PickNetwork
    <2>2. QED
      BY <1>2, <2>1
  <1>9. CASE Poll \/ \E state \in answers : PollAnswered(state) \/ PollLost(state)
    <2>1. /\ UNCHANGED <<board, child, unborn, form>>
          /\ view' \in answers \cup {view, board} /\ answers' \subseteq answers \cup {board}
      BY <1>9 DEF Poll, PollAnswered, PollLost
    <2>2. QED
      BY <1>1, <1>2, <2>1 DEF DemoPageTypeOK
  <1>10. CASE UNCHANGED demoPageVars
    <2>1. UNCHANGED <<board, child, unborn, answers, view, form>>
      BY <1>10 DEF demoPageVars
    <2>2. QED
      BY <1>1, <1>2, <2>1 DEF DemoPageTypeOK
  <1>11. QED
    BY <1>4, <1>5, <1>6, <1>7, <1>8, <1>9, <1>10 DEF DemoPageNext

\* The page of the demo shows the report and the error of the run it shows, for any
\* number of runs, polls and restarts, unless an earlier run could not be spawned
\* (GET /api/demo/state and the page's poll).
THEOREM PagesShowOneRun == Spec => []ShownIsOneRun
  <1>1. Init => DemoPageIInv
    <2>1. SUFFICES ASSUME DemoPageInit PROVE DemoPageIInv
      BY DEF Init
    <2>2. DemoPageTypeOK
      BY <2>1 DEF DemoPageInit, DemoPageTypeOK, BlankBoard, NoPost, Boards, Posts, SomeDemo
    <2>3. InOrder /\ \A r \in Demos : LivingIsOnBoard(r)
      BY <2>1 DEF DemoPageInit, InOrder, LivingIsOnBoard, Living
    <2>4. OfOneRun(board) /\ OfOneRun(view)
      BY <2>1 DEF DemoPageInit, OfOneRun, SpokenOf, BlankBoard
    <2>5. QED
      BY <2>1, <2>2, <2>3, <2>4 DEF DemoPageInit, DemoPageIInv, BlankBoard
  <1>2. DemoPageIInv /\ [Next]_vars => DemoPageIInv'
    BY LaneSteps, DemoPageStep
  <1>3. DemoPageIInv => ShownIsOneRun
    BY DEF DemoPageIInv, OfOneRun, AfterUnborn, ShownIsOneRun
  <1>4. QED
    BY <1>1, <1>2, <1>3, PTL DEF Spec

-----------------------------------------------------------------------------
(* The pages where people sign in and handle keys. *)

Someone == Users \cup {Nobody}
AnyKey == ApiKeys \cup {NoApiKey}
Deeds ==
  {"open", "sign in", "mint", "revoke", "mint for", "revoke any", "edit orgs", "edit key"}

PageRows ==
  [at : {"login", "account", "orgs"}, user : Someone, listed : SUBSET ApiKeys, secret : AnyKey]
RequestRows ==
  [at : {"none", "act", "me", "list", "render"}, does : Deeds, to : {"account", "orgs"},
   token : Someone, flash : AnyKey, subject : AnyKey, org : Someone, user : Someone,
   listed : SUBSET ApiKeys, secret : AnyKey]
JarRows == [session : Someone, flash : AnyKey]
IssuedRows == [org : Someone, live : BOOLEAN]
WantedRows == [browser : Tabs, org : Someone]

\* A key that is seen in full has been issued, and was asked for in that browser.
SeenWhereAsked(k, b) == k # NoApiKey => issued[k].org # Nobody /\ wanted[k].browser = b

PageIsTrue(p, b) ==
  /\ SeenWhereAsked(p.secret, b)
  /\ p.at = "account" => p.user # Nobody /\ \A k \in p.listed : issued[k].org = p.user

\* What is under way asks for the org it will get the key for, and carries the keys of
\* its user to the page.
RequestIsTrue(r, b) ==
  /\ SeenWhereAsked(r.secret, b) /\ SeenWhereAsked(r.flash, b)
  /\ r.does = "mint" => r.org = r.token
  /\ r.does = "mint for" => r.org \in Users
  /\ r.at \in {"list", "render"} => r.user # Nobody
  /\ r.at = "list" => r.user = r.token
  /\ r.at = "render" /\ r.to = "account" => \A k \in r.listed : issued[k].org = r.user

KeyIsTrue(k) ==
  issued[k].org = wanted[k].org /\ ended[k] \in {Nobody, issued[k].org, "operator"}

KeyDeskIInv ==
  /\ browser \in [Tabs -> Tabs]
  /\ page \in [Tabs -> PageRows] /\ request \in [Tabs -> RequestRows]
  /\ jar \in [Tabs -> JarRows]
  /\ issued \in [ApiKeys -> IssuedRows] /\ wanted \in [ApiKeys -> WantedRows]
  /\ DOMAIN ended = ApiKeys
  /\ \A t \in Tabs :
       /\ PageIsTrue(page[t], browser[t]) /\ RequestIsTrue(request[t], browser[t])
       /\ SeenWhereAsked(jar[t].flash, t)
  /\ \A k \in ApiKeys : KeyIsTrue(k)

LEMMA RowsAre ==
  /\ Blank \in PageRows /\ Quiet \in RequestRows
  /\ \A b \in Tabs : PageIsTrue(Blank, b) /\ RequestIsTrue(Quiet, b)
  <1>1. Blank \in PageRows /\ Quiet \in RequestRows
    BY DEF Blank, Quiet, PageRows, RequestRows, Someone, AnyKey, Deeds
  <1>2. \A b \in Tabs : PageIsTrue(Blank, b) /\ RequestIsTrue(Quiet, b)
    BY DEF Blank, Quiet, PageIsTrue, RequestIsTrue, SeenWhereAsked
  <1>3. QED
    BY <1>1, <1>2

\* One tab moves, and the cookies of its browser; no key changes its org.
LEMMA TabMoves ==
  ASSUME KeyDeskIInv, NEW t \in Tabs,
         UNCHANGED <<browser, wanted>>,
         issued' \in [ApiKeys -> IssuedRows], DOMAIN ended' = ApiKeys,
         \A k \in ApiKeys :
           /\ issued'[k].org = issued[k].org
           /\ ended'[k] \in {ended[k], issued[k].org, "operator"},
         page' \in [Tabs -> PageRows], request' \in [Tabs -> RequestRows],
         \A u \in Tabs \ {t} : page'[u] = page[u] /\ request'[u] = request[u],
         PageIsTrue(page'[t], browser[t]), RequestIsTrue(request'[t], browser[t]),
         jar' \in [Tabs -> JarRows],
         \A u \in Tabs : SeenWhereAsked(jar'[u].flash, u)
  PROVE  KeyDeskIInv'
  <1>1. ASSUME NEW u \in Tabs
        PROVE  /\ PageIsTrue(page'[u], browser[u]) /\ RequestIsTrue(request'[u], browser[u])
               /\ SeenWhereAsked(jar'[u].flash, u)
    BY DEF KeyDeskIInv
  <1>2. ASSUME NEW u \in Tabs
        PROVE  /\ PageIsTrue(page[u], browser[u])' /\ RequestIsTrue(request[u], browser[u])'
               /\ SeenWhereAsked(jar[u].flash, u)'
    <2>1. /\ page'[u].secret \in AnyKey /\ page'[u].listed \subseteq ApiKeys
          /\ request'[u].secret \in AnyKey /\ request'[u].flash \in AnyKey
          /\ request'[u].listed \subseteq ApiKeys /\ jar'[u].flash \in AnyKey
      BY DEF PageRows, RequestRows, JarRows
    <2>2. \A k \in AnyKey : k # NoApiKey => issued'[k].org = issued[k].org
      BY DEF AnyKey
    <2>3. ASSUME NEW l \in AnyKey, NEW b \in Tabs, SeenWhereAsked(l, b)
          PROVE  l # NoApiKey => issued'[l].org # Nobody /\ wanted'[l].browser = b
      BY <2>2, <2>3 DEF SeenWhereAsked
    <2>4. browser[u] \in Tabs
      BY DEF KeyDeskIInv
    <2>5. PageIsTrue(page[u], browser[u])'
      <3>1. SeenWhereAsked(page[u].secret, browser[u])'
        BY <1>1, <2>1, <2>3, <2>4 DEF PageIsTrue, SeenWhereAsked
      <3>2. QED
        BY <1>1, <2>1, <3>1 DEF PageIsTrue
    <2>6. RequestIsTrue(request[u], browser[u])'
      <3>1. SeenWhereAsked(request[u].secret, browser[u])'
        BY <1>1, <2>1, <2>3, <2>4 DEF RequestIsTrue, SeenWhereAsked
      <3>2. SeenWhereAsked(request[u].flash, browser[u])'
        BY <1>1, <2>1, <2>3, <2>4 DEF RequestIsTrue, SeenWhereAsked
      <3>3. QED
        BY <1>1, <2>1, <3>1, <3>2 DEF RequestIsTrue
    <2>7. SeenWhereAsked(jar[u].flash, u)'
      BY <1>1, <2>1, <2>3 DEF SeenWhereAsked
    <2>8. QED
      BY <2>5, <2>6, <2>7
  <1>3. \A k \in ApiKeys : KeyIsTrue(k)'
    BY DEF KeyDeskIInv, KeyIsTrue
  <1>4. QED
    BY <1>2, <1>3 DEF KeyDeskIInv

\* A key is issued for the tab that asks, and goes into its request or its cookies.
LEMMA KeyIsIssued ==
  ASSUME KeyDeskIInv, NEW t \in Tabs, NEW k \in ApiKeys, NEW org \in Users,
         Issue(t, k, org), request[t].org = org,
         UNCHANGED <<browser, page, ended>>,
         request' \in [Tabs -> RequestRows],
         \A u \in Tabs \ {t} : request'[u] = request[u],
         request'[t].secret \in {k, request[t].secret},
         request'[t].flash \in {k, request[t].flash},
         request'[t].at = "me", request'[t].does = request[t].does,
         request'[t].org = request[t].org, request'[t].token = request[t].token,
         jar' \in [Tabs -> JarRows],
         \A u \in Tabs :
           jar'[u].flash = jar[u].flash \/ (u = browser[t] /\ jar'[u].flash = k)
  PROVE  KeyDeskIInv'
  <1>1. /\ issued[k].org = Nobody /\ Nobody \notin Users /\ NoApiKey \notin ApiKeys
        /\ issued' = [issued EXCEPT ![k] = [org |-> org, live |-> TRUE]]
        /\ wanted' = [wanted EXCEPT ![k] = [browser |-> browser[t], org |-> org]]
        /\ issued \in [ApiKeys -> IssuedRows] /\ wanted \in [ApiKeys -> WantedRows]
        /\ browser[t] \in Tabs
    BY KeyDeskAssumption DEF Issue, KeyDeskIInv
  <1>2. /\ issued' \in [ApiKeys -> IssuedRows] /\ wanted' \in [ApiKeys -> WantedRows]
        /\ issued'[k].org = org /\ wanted'[k].org = org /\ wanted'[k].browser = browser[t]
        /\ \A l \in ApiKeys \ {k} : issued'[l] = issued[l] /\ wanted'[l] = wanted[l]
    BY <1>1 DEF IssuedRows, WantedRows, Someone
  <1>3. ASSUME NEW l \in ApiKeys PROVE KeyIsTrue(l)'
    <2>1. KeyIsTrue(l)
      BY DEF KeyDeskIInv
    <2>2. QED
      BY <1>1, <1>2, <2>1 DEF KeyIsTrue
  <1>4. ASSUME NEW l \in AnyKey, NEW b \in Tabs,
               SeenWhereAsked(l, b) \/ (l = k /\ b = browser[t])
        PROVE  l # NoApiKey => issued'[l].org # Nobody /\ wanted'[l].browser = b
    BY <1>1, <1>2, <1>4 DEF SeenWhereAsked, AnyKey
  <1>5. ASSUME NEW u \in Tabs
        PROVE  /\ PageIsTrue(page[u], browser[u])' /\ RequestIsTrue(request[u], browser[u])'
               /\ SeenWhereAsked(jar[u].flash, u)'
    <2>1. /\ PageIsTrue(page[u], browser[u]) /\ RequestIsTrue(request[u], browser[u])
          /\ SeenWhereAsked(jar[u].flash, u) /\ browser[u] \in Tabs
          /\ page[u] \in PageRows /\ request[u] \in RequestRows /\ jar[u] \in JarRows
          /\ request'[u] \in RequestRows /\ jar'[u] \in JarRows
      BY DEF KeyDeskIInv
    <2>2. /\ page[u].secret \in AnyKey /\ page[u].listed \subseteq ApiKeys
          /\ request'[u].secret \in AnyKey /\ request'[u].flash \in AnyKey
          /\ request[u].listed \subseteq ApiKeys /\ jar'[u].flash \in AnyKey
      BY <2>1 DEF PageRows, RequestRows, JarRows
    <2>3. PageIsTrue(page[u], browser[u])'
      <3>1. SeenWhereAsked(page[u].secret, browser[u])'
        BY <1>4, <2>1, <2>2 DEF PageIsTrue, SeenWhereAsked
      <3>2. page[u].at = "account" =>
              page[u].user # Nobody /\ \A l \in page[u].listed : issued'[l].org = page[u].user
        BY <1>1, <1>2, <2>1, <2>2 DEF PageIsTrue
      <3>3. QED
        BY <3>1, <3>2 DEF PageIsTrue
    <2>4. SeenWhereAsked(jar[u].flash, u)'
      BY <1>4, <2>1, <2>2 DEF SeenWhereAsked
    <2>5. SeenWhereAsked(request[u].secret, browser[u])' /\ SeenWhereAsked(request[u].flash, browser[u])'
      <3>1. /\ SeenWhereAsked(request[u].secret, browser[u])
            /\ SeenWhereAsked(request[u].flash, browser[u])
        BY <2>1 DEF RequestIsTrue
      <3>2. /\ request'[u].secret = request[u].secret \/ (request'[u].secret = k /\ u = t)
            /\ request'[u].flash = request[u].flash \/ (request'[u].flash = k /\ u = t)
        OBVIOUS
      <3>3. /\ SeenWhereAsked(request'[u].secret, browser[u]) \/ (request'[u].secret = k /\ u = t)
            /\ SeenWhereAsked(request'[u].flash, browser[u]) \/ (request'[u].flash = k /\ u = t)
        BY <3>1, <3>2
      <3>4. SeenWhereAsked(request[u].secret, browser[u])'
        BY <1>4, <2>1, <2>2, <3>3 DEF SeenWhereAsked
      <3>5. SeenWhereAsked(request[u].flash, browser[u])'
        BY <1>4, <2>1, <2>2, <3>3 DEF SeenWhereAsked
      <3>6. QED
        BY <3>4, <3>5
    <2>6. RequestIsTrue(request[u], browser[u])'
      <3>1. CASE u = t
        BY <2>1, <2>5, <3>1 DEF RequestIsTrue
      <3>2. CASE u # t
        <4>1. request'[u] = request[u]
          BY <3>2
        <4>2. request[u].at = "render" /\ request[u].to = "account" =>
                \A l \in request[u].listed : issued'[l].org = request[u].user
          BY <1>1, <1>2, <2>1, <2>2, ZenonT(40) DEF RequestIsTrue
        <4>3. QED
          BY <2>1, <2>5, <4>1, <4>2 DEF RequestIsTrue
      <3>3. QED
        BY <3>1, <3>2
    <2>7. QED
      BY <2>3, <2>4, <2>6
  <1>6. browser' \in [Tabs -> Tabs] /\ page' \in [Tabs -> PageRows] /\ DOMAIN ended' = ApiKeys
    BY DEF KeyDeskIInv
  <1>7. QED
    BY <1>2, <1>3, <1>5, <1>6 DEF KeyDeskIInv

\* A tab sends a request, with the cookies of its browser.
LEMMA SendIs ==
  ASSUME KeyDeskIInv, NEW t \in Tabs, NEW does \in Deeds, NEW to \in {"account", "orgs"},
         NEW subject \in AnyKey, NEW org \in Someone, Send(t, does, to, subject, org),
         does = "mint" => org = Cookies(t).session, does = "mint for" => org \in Users
  PROVE  /\ request' \in [Tabs -> RequestRows]
         /\ \A u \in Tabs \ {t} : request'[u] = request[u]
         /\ RequestIsTrue(request'[t], browser[t])
  <1> DEFINE at == IF does = "open" THEN "me" ELSE "act"
             session == Cookies(t).session
             flash == Cookies(t).flash
             r == [Quiet EXCEPT !.at = at, !.does = does, !.to = to, !.token = session,
                               !.flash = flash, !.subject = subject, !.org = org]
  <1>1. request' = [request EXCEPT ![t] = r] /\ at \in {"me", "act"}
    BY DEF Send
  <1>2. session \in Someone /\ flash \in AnyKey /\ SeenWhereAsked(flash, browser[t])
    BY DEF KeyDeskIInv, Cookies, JarRows
  <1> HIDE DEF at, session, flash
  <1>3. /\ r \in RequestRows /\ r.at = at /\ r.does = does /\ r.token = session
        /\ r.flash = flash /\ r.org = org /\ r.secret = NoApiKey
    <2>1. Quiet \in RequestRows
      BY DEF Quiet, RequestRows, Deeds, Someone, AnyKey
    <2>2. r \in RequestRows
      BY <1>1, <1>2, <2>1 DEF RequestRows
    <2>3. r.at = at /\ r.does = does /\ r.token = session
      BY DEF Quiet
    <2>4. r.flash = flash /\ r.org = org /\ r.secret = NoApiKey
      BY DEF Quiet
    <2>5. QED
      BY <2>2, <2>3, <2>4
  <1> HIDE DEF r
  <1>4. RequestIsTrue(r, browser[t])
    BY <1>1, <1>2, <1>3 DEF RequestIsTrue, SeenWhereAsked, session
  <1>5. QED
    BY <1>1, <1>3, <1>4 DEF KeyDeskIInv

\* The keys stay as they are.
LEMMA OnlyTheTab ==
  ASSUME KeyDeskIInv, NEW t \in Tabs, UNCHANGED <<browser, issued, wanted, ended>>,
         page' \in [Tabs -> PageRows], request' \in [Tabs -> RequestRows],
         \A u \in Tabs \ {t} : page'[u] = page[u] /\ request'[u] = request[u],
         PageIsTrue(page'[t], browser[t]), RequestIsTrue(request'[t], browser[t]),
         jar' \in [Tabs -> JarRows],
         \A u \in Tabs : SeenWhereAsked(jar'[u].flash, u)
  PROVE  KeyDeskIInv'
  <1>1. issued \in [ApiKeys -> IssuedRows] /\ DOMAIN ended = ApiKeys
    BY DEF KeyDeskIInv
  <1>2. QED
    BY <1>1, TabMoves

\* A tab whose page and cookies stay as they are.
LEMMA OnlyTheRequest ==
  ASSUME KeyDeskIInv, NEW t \in Tabs, UNCHANGED <<browser, jar, page, issued, wanted, ended>>,
         request' \in [Tabs -> RequestRows],
         \A u \in Tabs \ {t} : request'[u] = request[u],
         RequestIsTrue(request'[t], browser[t])
  PROVE  KeyDeskIInv'
  <1>1. /\ issued \in [ApiKeys -> IssuedRows] /\ DOMAIN ended = ApiKeys
        /\ page \in [Tabs -> PageRows] /\ jar \in [Tabs -> JarRows]
        /\ PageIsTrue(page[t], browser[t]) /\ \A u \in Tabs : SeenWhereAsked(jar[u].flash, u)
    BY DEF KeyDeskIInv
  <1>2. QED
    BY <1>1, TabMoves

LEMMA TabsSend ==
  ASSUME KeyDeskIInv, NEW t \in Tabs,
         \/ OpenAccount(t) \/ OpenOrgs(t) \/ SendMint(t) \/ SendEditOrgs(t) \/ SendEditKey(t)
         \/ \E u \in Users : SendSignIn(t, u) \/ SendMintFor(t, u)
         \/ \E k \in ApiKeys : SendRevoke(t, k) \/ SendRevokeAny(t, k)
  PROVE  KeyDeskIInv'
  <1>1. Nobody \in Someone /\ NoApiKey \in AnyKey /\ Users \subseteq Someone /\ ApiKeys \subseteq AnyKey
    BY DEF Someone, AnyKey
  <1>2. Cookies(t).session \in Someone
    BY DEF Cookies, KeyDeskIInv, JarRows
  <1>3. /\ issued \in [ApiKeys -> IssuedRows] /\ DOMAIN ended = ApiKeys
        /\ page \in [Tabs -> PageRows] /\ jar \in [Tabs -> JarRows]
        /\ \A u \in Tabs : SeenWhereAsked(jar[u].flash, u) /\ browser[t] \in Tabs
    BY DEF KeyDeskIInv
  <1>4. CASE OpenAccount(t) \/ OpenOrgs(t)
    <2>1. PICK to \in {"account", "orgs"} : Send(t, "open", to, NoApiKey, Nobody)
      BY <1>4 DEF OpenAccount, OpenOrgs
    <2>2. /\ request' \in [Tabs -> RequestRows]
          /\ \A u \in Tabs \ {t} : request'[u] = request[u]
          /\ RequestIsTrue(request'[t], browser[t])
      BY <1>1, <2>1, SendIs DEF Deeds
    <2>3. page' = [page EXCEPT ![t] = Blank] /\ UNCHANGED <<browser, jar, issued, wanted, ended>>
      BY <1>4 DEF OpenAccount, OpenOrgs
    <2>4. /\ page' \in [Tabs -> PageRows] /\ PageIsTrue(page'[t], browser[t])
          /\ \A u \in Tabs \ {t} : page'[u] = page[u]
      BY <1>3, <2>3, RowsAre
    <2>5. QED
      BY <1>3, <2>2, <2>3, <2>4, TabMoves
  <1>5. ASSUME NEW does \in Deeds, NEW to \in {"account", "orgs"}, NEW subject \in AnyKey,
               NEW org \in Someone, Send(t, does, to, subject, org),
               does = "mint" => org = Cookies(t).session, does = "mint for" => org \in Users,
               UNCHANGED <<browser, jar, page, issued, wanted, ended>>
        PROVE  KeyDeskIInv'
    BY <1>5, SendIs, OnlyTheRequest
  <1>6. CASE SendMint(t)
    BY <1>1, <1>2, <1>5, <1>6 DEF SendMint, Deeds
  <1>7. CASE SendEditOrgs(t) \/ SendEditKey(t)
    BY <1>1, <1>5, <1>7 DEF SendEditOrgs, SendEditKey, Deeds
  <1>8. ASSUME NEW u \in Users, SendSignIn(t, u) \/ SendMintFor(t, u) PROVE KeyDeskIInv'
    BY <1>1, <1>5, <1>8 DEF SendSignIn, SendMintFor, Deeds
  <1>9. ASSUME NEW k \in ApiKeys, SendRevoke(t, k) \/ SendRevokeAny(t, k) PROVE KeyDeskIInv'
    BY <1>1, <1>5, <1>9 DEF SendRevoke, SendRevokeAny, Deeds
  <1>10. QED
    BY <1>4, <1>6, <1>7, <1>8, <1>9

LEMMA TabFacts ==
  ASSUME KeyDeskIInv, NEW t \in Tabs
  PROVE  /\ issued \in [ApiKeys -> IssuedRows] /\ DOMAIN ended = ApiKeys
         /\ page \in [Tabs -> PageRows] /\ jar \in [Tabs -> JarRows]
         /\ request \in [Tabs -> RequestRows]
         /\ page[t] \in PageRows /\ request[t] \in RequestRows /\ browser[t] \in Tabs
         /\ PageIsTrue(page[t], browser[t]) /\ RequestIsTrue(request[t], browser[t])
         /\ \A u \in Tabs : SeenWhereAsked(jar[u].flash, u) /\ jar[u] \in JarRows
  BY DEF KeyDeskIInv

\* A request that carries a key on: to the form of the page, or as a cookie.
WithSecret(old, t, k) == [old EXCEPT ![t].at = "me", ![t].secret = k]
WithFlash(old, t, k) == [old EXCEPT ![t].at = "me", ![t].flash = k]

LEMMA TakesSecret ==
  ASSUME NEW old \in [Tabs -> RequestRows], NEW t \in Tabs, NEW k \in AnyKey,
         NEW new, new = WithSecret(old, t, k)
  PROVE  /\ new \in [Tabs -> RequestRows] /\ \A u \in Tabs \ {t} : new[u] = old[u]
         /\ new[t].secret = k /\ new[t].flash = old[t].flash /\ new[t].at = "me"
         /\ new[t].does = old[t].does /\ new[t].org = old[t].org /\ new[t].token = old[t].token
  <1> DEFINE mid == [old EXCEPT ![t].at = "me"]
             r == mid[t]
  <1>1. /\ mid \in [Tabs -> RequestRows] /\ \A u \in Tabs \ {t} : mid[u] = old[u]
        /\ mid[t] = [old[t] EXCEPT !.at = "me"]
    BY DEF RequestRows
  <1>2. /\ r \in RequestRows /\ r.at = "me" /\ r.flash = old[t].flash
        /\ r.does = old[t].does /\ r.org = old[t].org /\ r.token = old[t].token
    BY <1>1 DEF RequestRows
  <1>3. new = [mid EXCEPT ![t] = [r EXCEPT !.secret = k]]
    BY Zenon DEF WithSecret
  <1> HIDE DEF mid, r
  <1>4. /\ [r EXCEPT !.secret = k] \in RequestRows
        /\ [r EXCEPT !.secret = k].secret = k /\ [r EXCEPT !.secret = k].flash = r.flash
        /\ [r EXCEPT !.secret = k].at = r.at /\ [r EXCEPT !.secret = k].does = r.does
        /\ [r EXCEPT !.secret = k].org = r.org /\ [r EXCEPT !.secret = k].token = r.token
    BY <1>2 DEF RequestRows
  <1>5. /\ new \in [Tabs -> RequestRows] /\ \A u \in Tabs \ {t} : new[u] = mid[u]
        /\ new[t] = [r EXCEPT !.secret = k]
    BY <1>1, <1>3, <1>4
  <1>6. QED
    BY <1>1, <1>2, <1>4, <1>5

LEMMA TakesFlash ==
  ASSUME NEW old \in [Tabs -> RequestRows], NEW t \in Tabs, NEW k \in AnyKey,
         NEW new, new = WithFlash(old, t, k)
  PROVE  /\ new \in [Tabs -> RequestRows] /\ \A u \in Tabs \ {t} : new[u] = old[u]
         /\ new[t].flash = k /\ new[t].secret = old[t].secret /\ new[t].at = "me"
         /\ new[t].does = old[t].does /\ new[t].org = old[t].org /\ new[t].token = old[t].token
  <1> DEFINE mid == [old EXCEPT ![t].at = "me"]
             r == mid[t]
  <1>1. /\ mid \in [Tabs -> RequestRows] /\ \A u \in Tabs \ {t} : mid[u] = old[u]
        /\ mid[t] = [old[t] EXCEPT !.at = "me"]
    BY DEF RequestRows
  <1>2. /\ r \in RequestRows /\ r.at = "me" /\ r.secret = old[t].secret
        /\ r.does = old[t].does /\ r.org = old[t].org /\ r.token = old[t].token
    BY <1>1 DEF RequestRows
  <1>3. new = [mid EXCEPT ![t] = [r EXCEPT !.flash = k]]
    BY Zenon DEF WithFlash
  <1> HIDE DEF mid, r
  <1>4. /\ [r EXCEPT !.flash = k] \in RequestRows
        /\ [r EXCEPT !.flash = k].flash = k /\ [r EXCEPT !.flash = k].secret = r.secret
        /\ [r EXCEPT !.flash = k].at = r.at /\ [r EXCEPT !.flash = k].does = r.does
        /\ [r EXCEPT !.flash = k].org = r.org /\ [r EXCEPT !.flash = k].token = r.token
    BY <1>2 DEF RequestRows
  <1>5. /\ new \in [Tabs -> RequestRows] /\ \A u \in Tabs \ {t} : new[u] = mid[u]
        /\ new[t] = [r EXCEPT !.flash = k]
    BY <1>1, <1>3, <1>4
  <1>6. QED
    BY <1>1, <1>2, <1>4, <1>5

\* Without a token, or a form, nothing is asked for.
LEMMA Continues ==
  ASSUME KeyDeskIInv, NEW t \in Tabs, Continue(t, "me")
  PROVE  /\ request' \in [Tabs -> RequestRows]
         /\ \A u \in Tabs \ {t} : request'[u] = request[u]
         /\ RequestIsTrue(request'[t], browser[t])
  <1>1. request \in [Tabs -> RequestRows] /\ RequestIsTrue(request[t], browser[t])
    BY TabFacts
  <1>2. request' = [request EXCEPT ![t].at = "me"]
    BY DEF Continue
  <1>3. /\ request' \in [Tabs -> RequestRows]
        /\ \A u \in Tabs \ {t} : request'[u] = request[u]
        /\ request'[t] = [request[t] EXCEPT !.at = "me"]
    BY <1>1, <1>2 DEF RequestRows
  <1>4. /\ request'[t].secret = request[t].secret /\ request'[t].flash = request[t].flash
        /\ request'[t].does = request[t].does /\ request'[t].org = request[t].org
        /\ request'[t].token = request[t].token /\ request'[t].at = "me"
    BY <1>1, <1>3 DEF RequestRows
  <1>5. QED
    BY <1>1, <1>3, <1>4 DEF RequestIsTrue

\* The request of a tab ends.
LEMMA RequestEnds ==
  ASSUME KeyDeskIInv, NEW t \in Tabs, request' = [request EXCEPT ![t] = Quiet]
  PROVE  /\ request' \in [Tabs -> RequestRows]
         /\ \A u \in Tabs \ {t} : request'[u] = request[u]
         /\ RequestIsTrue(request'[t], browser[t])
  <1>1. request \in [Tabs -> RequestRows] /\ browser[t] \in Tabs /\ Quiet \in RequestRows
    BY TabFacts, RowsAre
  <1>2. RequestIsTrue(Quiet, browser[t])
    BY <1>1, RowsAre
  <1>3. QED
    BY <1>1, <1>2

LEMMA GoesBlank ==
  ASSUME KeyDeskIInv, NEW t \in Tabs, page' = [page EXCEPT ![t] = Blank]
  PROVE  /\ page' \in [Tabs -> PageRows] /\ PageIsTrue(page'[t], browser[t])
         /\ \A u \in Tabs \ {t} : page'[u] = page[u]
  BY TabFacts, RowsAre

LEMMA TabsSignInAndOut ==
  ASSUME KeyDeskIInv, NEW t \in Tabs, SignOut(t) \/ Abandon(t) \/ SignIn(t) \/ FlashExpires(t)
  PROVE  KeyDeskIInv'
  <1>1. /\ issued \in [ApiKeys -> IssuedRows] /\ DOMAIN ended = ApiKeys
        /\ page \in [Tabs -> PageRows] /\ jar \in [Tabs -> JarRows]
        /\ request \in [Tabs -> RequestRows] /\ browser[t] \in Tabs
        /\ PageIsTrue(page[t], browser[t]) /\ RequestIsTrue(request[t], browser[t])
        /\ \A u \in Tabs : SeenWhereAsked(jar[u].flash, u) /\ jar[u] \in JarRows
    BY TabFacts
  <1>2. Nobody \in Someone /\ NoApiKey \in AnyKey
    BY DEF Someone, AnyKey
  <1>3. ASSUME NEW session \in Someone, jar' = [jar EXCEPT ![browser[t]].session = session]
        PROVE  jar' \in [Tabs -> JarRows] /\ \A u \in Tabs : SeenWhereAsked(jar'[u].flash, u)
    <2>1. jar' \in [Tabs -> JarRows] /\ \A u \in Tabs : jar'[u].flash = jar[u].flash
      BY <1>1, <1>3 DEF JarRows
    <2>2. QED
      BY <1>1, <2>1
  <1>4. CASE SignOut(t)
    <2>1. /\ jar' = [jar EXCEPT ![browser[t]].session = Nobody]
          /\ page' = [page EXCEPT ![t] = Blank]
          /\ UNCHANGED <<browser, request, issued, wanted, ended>>
      BY <1>4 DEF SignOut
    <2>2. QED
      BY <1>1, <1>2, <1>3, <2>1, GoesBlank, TabMoves
  <1>5. CASE Abandon(t)
    <2>1. /\ request' = [request EXCEPT ![t] = Quiet]
          /\ page' = page \/ page' = [page EXCEPT ![t] = Blank]
          /\ UNCHANGED <<browser, jar, issued, wanted, ended>>
      BY <1>5 DEF Abandon
    <2>2. /\ page' \in [Tabs -> PageRows] /\ PageIsTrue(page'[t], browser[t])
          /\ \A u \in Tabs \ {t} : page'[u] = page[u]
      BY <1>1, <2>1, GoesBlank
    <2>3. /\ request' \in [Tabs -> RequestRows]
          /\ \A u \in Tabs \ {t} : request'[u] = request[u]
          /\ RequestIsTrue(request'[t], browser[t])
      BY <2>1, RequestEnds
    <2>4. QED
      BY <1>1, <2>1, <2>2, <2>3, OnlyTheTab
  <1>6. CASE SignIn(t)
    <2>1. UNCHANGED <<browser, page, issued, wanted, ended>>
      BY <1>6 DEF SignIn
    <2>2. CASE request' = [request EXCEPT ![t] = Quiet] /\ UNCHANGED jar
      <3>1. /\ request' \in [Tabs -> RequestRows]
            /\ \A u \in Tabs \ {t} : request'[u] = request[u]
            /\ RequestIsTrue(request'[t], browser[t])
        BY <2>2, RequestEnds
      <3>2. QED
        BY <2>1, <2>2, <3>1, OnlyTheRequest
    <2>3. ASSUME jar' = [jar EXCEPT ![browser[t]].session = request[t].org],
                 request' = [request EXCEPT ![t] =
                   [Quiet EXCEPT !.at = "me", !.token = request[t].org, !.flash = Cookies(t).flash]]
          PROVE  KeyDeskIInv'
      <3> DEFINE org == request[t].org
                 flash == Cookies(t).flash
                 r == [Quiet EXCEPT !.at = "me", !.token = org, !.flash = flash]
      <3>1. org \in Someone /\ flash \in AnyKey /\ SeenWhereAsked(flash, browser[t])
        BY <1>1 DEF Cookies, JarRows, RequestRows
      <3>2. request' = [request EXCEPT ![t] = r] /\ jar' = [jar EXCEPT ![browser[t]].session = org]
        BY <2>3
      <3> HIDE DEF org, flash
      <3>3. /\ r \in RequestRows /\ r.at = "me" /\ r.does = "open" /\ r.flash = flash
            /\ r.secret = NoApiKey
        BY <3>1 DEF Quiet, RequestRows, Someone, AnyKey, Deeds
      <3> HIDE DEF r
      <3>4. RequestIsTrue(r, browser[t])
        BY <3>1, <3>3 DEF RequestIsTrue, SeenWhereAsked
      <3>5. /\ request' \in [Tabs -> RequestRows]
            /\ \A u \in Tabs \ {t} : request'[u] = request[u]
            /\ RequestIsTrue(request'[t], browser[t])
        BY <1>1, <3>2, <3>3, <3>4
      <3>6. jar' \in [Tabs -> JarRows] /\ \A u \in Tabs : SeenWhereAsked(jar'[u].flash, u)
        BY <1>3, <3>1, <3>2
      <3>7. QED
        BY <1>1, <2>1, <3>5, <3>6, TabMoves
    <2>4. QED
      BY <1>6, <2>2, <2>3 DEF SignIn
  <1>7. CASE FlashExpires(t)
    <2>1. /\ jar' = [jar EXCEPT ![browser[t]].flash = NoApiKey]
          /\ UNCHANGED <<browser, page, request, issued, wanted, ended>>
      BY <1>7 DEF FlashExpires
    <2>2. /\ jar' \in [Tabs -> JarRows]
          /\ \A u \in Tabs : jar'[u].flash \in {jar[u].flash, NoApiKey}
      BY <1>1, <1>2, <2>1 DEF JarRows
    <2>3. \A u \in Tabs : SeenWhereAsked(jar'[u].flash, u)
      BY <1>1, <2>2 DEF SeenWhereAsked
    <2>4. QED
      BY <1>1, <2>1, <2>2, <2>3, TabMoves
  <1>8. QED
    BY <1>4, <1>5, <1>6, <1>7

LEMMA KeysAreMinted ==
  ASSUME KeyDeskIInv, NEW t \in Tabs, MintKey(t) \/ MintKeyFor(t)
  PROVE  KeyDeskIInv'
  <1>1. /\ issued \in [ApiKeys -> IssuedRows] /\ DOMAIN ended = ApiKeys
        /\ page \in [Tabs -> PageRows] /\ jar \in [Tabs -> JarRows]
        /\ request \in [Tabs -> RequestRows] /\ browser[t] \in Tabs
        /\ PageIsTrue(page[t], browser[t]) /\ RequestIsTrue(request[t], browser[t])
        /\ \A u \in Tabs : SeenWhereAsked(jar[u].flash, u) /\ jar[u] \in JarRows
    BY TabFacts
  <1>2. UNCHANGED <<browser, ended>>
    BY DEF MintKey, MintKeyFor
  <1>3. ASSUME NEW k \in ApiKeys, MintKey(t), HasSession(t), Issue(t, k, Token(t)),
               request' = [request EXCEPT ![t].at = "me", ![t].secret = k], UNCHANGED page
        PROVE  KeyDeskIInv'
    <2>1. request[t].does = "mint" /\ jar' = jar
      BY <1>3 DEF MintKey, Acting
    <2>2. Token(t) \in Users /\ request[t].org = Token(t)
      BY <1>1, <1>3, <2>1 DEF HasSession, Token, RequestIsTrue, RequestRows, Someone
    <2>3. k \in AnyKey
      BY DEF AnyKey
    <2>4. request' = WithSecret(request, t, k)
      BY <1>3 DEF WithSecret
    <2>5. /\ request' \in [Tabs -> RequestRows] /\ \A u \in Tabs \ {t} : request'[u] = request[u]
          /\ request'[t].secret = k /\ request'[t].flash = request[t].flash /\ request'[t].at = "me"
          /\ request'[t].does = request[t].does /\ request'[t].org = request[t].org
          /\ request'[t].token = request[t].token
      BY <1>1, <2>3, <2>4, TakesSecret
    <2>6. QED
      BY <1>1, <1>2, <1>3, <2>1, <2>2, <2>5, KeyIsIssued
  <1>4. ASSUME request' = [request EXCEPT ![t] = Quiet],
               page' = [page EXCEPT ![t].secret = NoApiKey],
               UNCHANGED <<jar, issued, wanted>>
        PROVE  KeyDeskIInv'
    <2>1. NoApiKey \in AnyKey
      BY DEF AnyKey
    <2>2. /\ page' \in [Tabs -> PageRows] /\ \A u \in Tabs \ {t} : page'[u] = page[u]
          /\ page'[t] = [page[t] EXCEPT !.secret = NoApiKey]
      BY <1>1, <1>4, <2>1, ZenonT(40) DEF PageRows
    <2>3. /\ page'[t].secret = NoApiKey /\ page'[t].at = page[t].at
          /\ page'[t].user = page[t].user /\ page'[t].listed = page[t].listed
      BY <1>1, <2>2 DEF PageRows
    <2>4. PageIsTrue(page'[t], browser[t])
      BY <1>1, <2>3 DEF PageIsTrue, SeenWhereAsked
    <2>5. /\ request' \in [Tabs -> RequestRows]
          /\ \A u \in Tabs \ {t} : request'[u] = request[u]
          /\ RequestIsTrue(request'[t], browser[t])
      BY <1>4, RequestEnds
    <2>6. QED
      BY <1>1, <1>2, <1>4, <2>2, <2>4, <2>5, OnlyTheTab
  <1>5. ASSUME NEW k \in ApiKeys, MintKeyFor(t), Issue(t, k, request[t].org),
               request' = [request EXCEPT ![t].at = "me", ![t].flash = k],
               jar' = [jar EXCEPT ![browser[t]].flash = k]
        PROVE  KeyDeskIInv'
    <2>1. request[t].does = "mint for" /\ page' = page
      BY <1>5 DEF MintKeyFor, Acting
    <2>2. request[t].org \in Users
      BY <1>1, <2>1 DEF RequestIsTrue
    <2>3. k \in AnyKey
      BY DEF AnyKey
    <2>4. request' = WithFlash(request, t, k)
      BY <1>5 DEF WithFlash
    <2>5. /\ request' \in [Tabs -> RequestRows] /\ \A u \in Tabs \ {t} : request'[u] = request[u]
          /\ request'[t].flash = k /\ request'[t].secret = request[t].secret /\ request'[t].at = "me"
          /\ request'[t].does = request[t].does /\ request'[t].org = request[t].org
          /\ request'[t].token = request[t].token
      BY <1>1, <2>3, <2>4, TakesFlash
    <2>6. /\ jar' \in [Tabs -> JarRows]
          /\ \A u \in Tabs : jar'[u].flash = jar[u].flash \/ (u = browser[t] /\ jar'[u].flash = k)
      BY <1>1, <1>5, <2>3 DEF JarRows
    <2> DEFINE org == request[t].org
    <2>7. org \in Users /\ Issue(t, k, org) /\ request[t].org = org
      BY <1>5, <2>2
    <2> HIDE DEF org
    <2>8. request'[t].secret \in {k, request[t].secret} /\ request'[t].flash \in {k, request[t].flash}
      BY <2>5
    <2>9. QED
      BY <1>2, <2>1, <2>5, <2>6, <2>7, <2>8, KeyIsIssued
  <1>6. CASE Continue(t, "me") /\ UNCHANGED <<jar, page, issued, wanted>>
    BY <1>2, <1>6, Continues, OnlyTheRequest
  <1>7. QED
    BY <1>3, <1>4, <1>5, <1>6 DEF MintKey, MintKeyFor

LEMMA KeysAreRevoked ==
  ASSUME KeyDeskIInv, NEW t \in Tabs,
         RevokeKey(t) \/ RevokeAny(t) \/ EditOrgs(t) \/ EditKey(t)
  PROVE  KeyDeskIInv'
  <1>1. /\ issued \in [ApiKeys -> IssuedRows] /\ DOMAIN ended = ApiKeys
        /\ page \in [Tabs -> PageRows] /\ jar \in [Tabs -> JarRows]
        /\ PageIsTrue(page[t], browser[t])
        /\ \A u \in Tabs : SeenWhereAsked(jar[u].flash, u)
    BY TabFacts
  <1>2. Continue(t, "me") /\ UNCHANGED <<browser, jar, page, wanted>>
    BY DEF RevokeKey, RevokeAny, EditOrgs, EditKey
  <1>3. /\ issued' \in [ApiKeys -> IssuedRows] /\ DOMAIN ended' = ApiKeys
        /\ \A k \in ApiKeys :
             /\ issued'[k].org = issued[k].org
             /\ ended'[k] \in {ended[k], issued[k].org, "operator"}
    <2>1. CASE UNCHANGED <<issued, ended>>
      BY <1>1, <2>1
    <2>2. ASSUME NEW k, NEW by, issued' = [issued EXCEPT ![k].live = FALSE],
                 ended' = [ended EXCEPT ![k] = by], by = issued[k].org \/ by = "operator"
          PROVE  /\ issued' \in [ApiKeys -> IssuedRows] /\ DOMAIN ended' = ApiKeys
                 /\ \A l \in ApiKeys :
                      /\ issued'[l].org = issued[l].org
                      /\ ended'[l] \in {ended[l], issued[l].org, "operator"}
      BY <1>1, <2>2 DEF IssuedRows
    <2>3. QED
      BY <2>1, <2>2 DEF RevokeKey, RevokeAny, EditOrgs, EditKey, Token
  <1>4. QED
    BY <1>1, <1>2, <1>3, Continues, TabMoves

LEMMA PagesAreRendered ==
  ASSUME KeyDeskIInv, NEW t \in Tabs,
         Me(t) \/ LoadKeys(t) \/ LoadAllKeys(t) \/ ShowAccount(t) \/ ShowOrgs(t)
  PROVE  KeyDeskIInv'
  <1>1. /\ page \in [Tabs -> PageRows] /\ jar \in [Tabs -> JarRows]
        /\ request \in [Tabs -> RequestRows] /\ browser[t] \in Tabs
        /\ page[t] \in PageRows /\ request[t] \in RequestRows
        /\ PageIsTrue(page[t], browser[t]) /\ RequestIsTrue(request[t], browser[t])
        /\ \A u \in Tabs : SeenWhereAsked(jar[u].flash, u) /\ jar[u] \in JarRows
    BY TabFacts
  <1>2. UNCHANGED <<browser, issued, wanted, ended>>
    BY DEF Me, LoadKeys, LoadAllKeys, LoadFound, ShowAccount, ShowOrgs
  \* the request gets r, and nothing else changes
  <1>3. ASSUME NEW r \in RequestRows, RequestIsTrue(r, browser[t]),
               request' = [request EXCEPT ![t] = r], UNCHANGED <<jar, page>>
        PROVE  KeyDeskIInv'
    <2>1. /\ request' \in [Tabs -> RequestRows]
          /\ \A u \in Tabs \ {t} : request'[u] = request[u] /\ request'[t] = r
      BY <1>1, <1>3
    <2>2. RequestIsTrue(request'[t], browser[t])
      BY <1>1, <1>3
    <2>3. QED
      BY <1>2, <1>3, <2>1, <2>2, OnlyTheRequest
  <1>4. ASSUME NEW p \in PageRows, PageIsTrue(p, browser[t]), page' = [page EXCEPT ![t] = p],
               request' = [request EXCEPT ![t] = Quiet], jar' \in [Tabs -> JarRows],
               \A u \in Tabs : SeenWhereAsked(jar'[u].flash, u)
        PROVE  KeyDeskIInv'
    <2>1. /\ page' \in [Tabs -> PageRows] /\ PageIsTrue(page'[t], browser[t])
          /\ \A u \in Tabs \ {t} : page'[u] = page[u]
      BY <1>1, <1>4
    <2>2. /\ request' \in [Tabs -> RequestRows]
          /\ \A u \in Tabs \ {t} : request'[u] = request[u]
          /\ RequestIsTrue(request'[t], browser[t])
      BY <1>4, RequestEnds
    <2>3. QED
      BY <1>2, <1>4, <2>1, <2>2, OnlyTheTab
  <1>5. Blank \in PageRows /\ PageIsTrue(Blank, browser[t])
    BY <1>1, RowsAre
  <1>6. CASE Me(t)
    <2>1. CASE /\ request' = [request EXCEPT ![t] = Quiet]
               /\ page' = [page EXCEPT ![t] = Blank]
      <3>1. jar' = jar
        BY <1>6 DEF Me
      <3>2. QED
        BY <1>1, <1>4, <1>5, <2>1, <3>1
    <2>2. ASSUME HasSession(t), UNCHANGED page,
                 request' = [request EXCEPT ![t].at = "list", ![t].user = Token(t)]
          PROVE  KeyDeskIInv'
      <3> DEFINE user == request[t].token
                 r == [request[t] EXCEPT !.at = "list", !.user = user]
      <3>1. user \in Someone /\ user # Nobody
        BY <1>1, <2>2 DEF HasSession, Token, RequestRows
      <3>2. request' = [request EXCEPT ![t] = r]
        BY <2>2, Zenon DEF Token
      <3> HIDE DEF user
      <3>3. /\ r \in RequestRows /\ r.at = "list" /\ r.user = user
            /\ r.secret = request[t].secret /\ r.flash = request[t].flash
            /\ r.does = request[t].does /\ r.org = request[t].org
            /\ r.token = request[t].token
        BY <1>1, <3>1 DEF RequestRows
      <3> HIDE DEF r
      <3>4. RequestIsTrue(r, browser[t])
        BY <1>1, <3>1, <3>3 DEF RequestIsTrue, user
      <3>5. jar' = jar
        BY <1>6 DEF Me
      <3>6. QED
        BY <1>3, <2>2, <3>2, <3>3, <3>4, <3>5
    <2>3. QED
      BY <1>6, <2>1, <2>2 DEF Me
  <1>7. ASSUME NEW found \in SUBSET ApiKeys, LoadFound(t, found),
               request[t].to = "account" => \A k \in found : issued[k].org = Token(t)
        PROVE  KeyDeskIInv'
    <2>1. PICK shown \in {found, {}} :
            request' = [request EXCEPT ![t].at = "render", ![t].listed = shown]
      BY <1>7 DEF LoadFound
    <2> DEFINE r == [request[t] EXCEPT !.at = "render", !.listed = shown]
    <2>2. request' = [request EXCEPT ![t] = r]
      BY <2>1, Zenon
    <2>3. /\ shown \in SUBSET ApiKeys /\ request[t].at = "list"
          /\ request[t].to = "account" => \A k \in shown : issued[k].org = Token(t)
      BY <1>7, <2>1 DEF LoadFound
    <2>4. /\ r \in RequestRows /\ r.at = "render" /\ r.listed = shown
          /\ r.secret = request[t].secret /\ r.flash = request[t].flash
          /\ r.does = request[t].does /\ r.org = request[t].org /\ r.user = request[t].user
          /\ r.token = request[t].token /\ r.to = request[t].to
      BY <1>1, <2>3 DEF RequestRows
    <2> HIDE DEF r
    <2>5. RequestIsTrue(r, browser[t])
      BY <1>1, <2>3, <2>4 DEF RequestIsTrue, Token
    <2>6. UNCHANGED <<jar, page>>
      BY <1>7 DEF LoadFound
    <2>7. QED
      BY <1>3, <2>2, <2>4, <2>5, <2>6
  <1>8. CASE LoadKeys(t)
    <2>1. OwnKeys(t) \in SUBSET ApiKeys /\ \A k \in OwnKeys(t) : issued[k].org = Token(t)
      BY DEF OwnKeys, Live
    <2>2. QED
      BY <1>7, <1>8, <2>1 DEF LoadKeys
  <1>9. CASE LoadAllKeys(t)
    <2>1. Live \in SUBSET ApiKeys /\ request[t].to = "orgs"
      BY <1>9 DEF Live, LoadAllKeys
    <2>2. QED
      BY <1>7, <1>9, <2>1 DEF LoadAllKeys
  <1>10. CASE ShowAccount(t)
    <2> DEFINE secret == Secret(t)
               p == [at |-> "account", user |-> request[t].user, listed |-> request[t].listed,
                     secret |-> secret]
    <2>1. /\ page' = [page EXCEPT ![t] = p] /\ request' = [request EXCEPT ![t] = Quiet]
          /\ jar' = jar /\ request[t].at = "render" /\ request[t].to = "account"
      BY <1>10 DEF ShowAccount
    <2>2. secret \in AnyKey /\ SeenWhereAsked(secret, browser[t])
      BY <1>1 DEF Secret, PageIsTrue, RequestIsTrue, PageRows, RequestRows
    <2>3. request[t].user \in Someone /\ request[t].listed \in SUBSET ApiKeys
      BY <1>1 DEF RequestRows
    <2> HIDE DEF secret
    <2>4. p \in PageRows
      BY <2>2, <2>3 DEF PageRows
    <2>5. PageIsTrue(p, browser[t])
      BY <1>1, <2>1, <2>2 DEF PageIsTrue, RequestIsTrue
    <2> HIDE DEF p
    <2>6. QED
      BY <1>1, <1>4, <2>1, <2>4, <2>5
  <1>11. CASE ShowOrgs(t)
    <2> DEFINE p == [at |-> "orgs", user |-> request[t].user, listed |-> request[t].listed,
                     secret |-> request[t].flash]
    <2>1. /\ \/ page' = [page EXCEPT ![t] = p]
             \/ page' = [page EXCEPT ![t] = Blank]
          /\ request' = [request EXCEPT ![t] = Quiet]
          /\ jar' = jar \/ jar' = [jar EXCEPT ![browser[t]].flash = NoApiKey]
      BY <1>11 DEF ShowOrgs
    <2>2. /\ request[t].user \in Someone /\ request[t].listed \in SUBSET ApiKeys
          /\ request[t].flash \in AnyKey
      BY <1>1 DEF RequestRows
    <2>3. p \in PageRows
      BY <2>2 DEF PageRows
    <2>4. PageIsTrue(p, browser[t])
      BY <1>1 DEF PageIsTrue, RequestIsTrue
    <2> HIDE DEF p
    <2>5. NoApiKey \in AnyKey
      BY DEF AnyKey
    <2>6. /\ jar' \in [Tabs -> JarRows]
          /\ \A u \in Tabs : jar'[u].flash \in {jar[u].flash, NoApiKey}
      BY <1>1, <2>1, <2>5 DEF JarRows
    <2>7. \A u \in Tabs : SeenWhereAsked(jar'[u].flash, u)
      <3>1. \A u \in Tabs : SeenWhereAsked(NoApiKey, u)
        BY DEF SeenWhereAsked
      <3>2. \A u \in Tabs : SeenWhereAsked(jar[u].flash, u)
        BY <1>1
      <3>3. QED
        BY <2>6, <3>1, <3>2
    <2>8. QED
      BY <1>4, <1>5, <2>1, <2>3, <2>4, <2>6, <2>7
  <1>12. QED
    BY <1>6, <1>8, <1>9, <1>10, <1>11

LEMMA KeyDeskStep ==
  ASSUME KeyDeskIInv, [KeyDeskNext]_keyDeskVars
  PROVE  KeyDeskIInv'
  <1>1. CASE UNCHANGED keyDeskVars
    <2>1. PICK t \in Tabs : TRUE
      BY KeyDeskAssumption
    <2>2. UNCHANGED <<browser, jar, page, request, issued, wanted, ended>>
      BY <1>1 DEF keyDeskVars
    <2>3. request' \in [Tabs -> RequestRows] /\ RequestIsTrue(request'[t], browser[t])
      BY <2>1, <2>2, TabFacts
    <2>4. QED
      BY <2>1, <2>2, <2>3, OnlyTheRequest
  <1>2. CASE KeyDeskNext
    <2>1. PICK t \in Tabs :
            \/ OpenAccount(t) \/ OpenOrgs(t) \/ SignOut(t) \/ Abandon(t) \/ SendMint(t)
            \/ \E u \in Users : SendSignIn(t, u) \/ SendMintFor(t, u)
            \/ \E k \in ApiKeys : SendRevoke(t, k) \/ SendRevokeAny(t, k)
            \/ SendEditOrgs(t) \/ SendEditKey(t)
            \/ SignIn(t) \/ MintKey(t) \/ RevokeKey(t) \/ MintKeyFor(t) \/ RevokeAny(t)
            \/ EditOrgs(t) \/ EditKey(t)
            \/ Me(t) \/ LoadKeys(t) \/ LoadAllKeys(t) \/ ShowAccount(t) \/ ShowOrgs(t)
            \/ FlashExpires(t)
      BY <1>2 DEF KeyDeskNext
    <2>2. QED
      BY <2>1, TabsSend, TabsSignInAndOut, KeysAreMinted, KeysAreRevoked, PagesAreRendered
  <1>3. QED
    BY <1>1, <1>2

LEMMA KeyDeskHolds ==
  /\ KeyDeskInit => KeyDeskIInv
  /\ KeyDeskIInv => KeysStayWithTheirOrg
  <1>1. ASSUME KeyDeskInit PROVE KeyDeskIInv
    <2>1. /\ browser \in [Tabs -> Tabs]
          /\ \A t \in Tabs : page[t] = Blank /\ request[t] = Quiet
          /\ page \in [Tabs -> PageRows] /\ request \in [Tabs -> RequestRows]
      BY <1>1, RowsAre DEF KeyDeskInit
    <2>2. \A t \in Tabs : browser[t] \in Tabs
      BY <2>1
    <2>3. /\ jar \in [Tabs -> JarRows]
          /\ \A t \in Tabs : SeenWhereAsked(jar[t].flash, t)
      BY <1>1 DEF KeyDeskInit, JarRows, Someone, AnyKey, SeenWhereAsked
    <2>4. issued \in [ApiKeys -> IssuedRows] /\ DOMAIN ended = ApiKeys
      BY <1>1 DEF KeyDeskInit, IssuedRows, Someone
    <2>5. wanted \in [ApiKeys -> WantedRows]
      <3> DEFINE b == CHOOSE t \in Tabs : TRUE
      <3>1. b \in Tabs
        BY KeyDeskAssumption
      <3>2. wanted = [k \in ApiKeys |-> [browser |-> b, org |-> Nobody]]
        BY <1>1 DEF KeyDeskInit
      <3> HIDE DEF b
      <3>3. QED
        BY <3>1, <3>2 DEF WantedRows, Someone
    <2>6. \A k \in ApiKeys : KeyIsTrue(k)
      BY <1>1 DEF KeyDeskInit, KeyIsTrue
    <2>7. QED
      BY <2>1, <2>2, <2>3, <2>4, <2>5, <2>6, RowsAre DEF KeyDeskIInv
  <1>2. ASSUME KeyDeskIInv PROVE KeysStayWithTheirOrg
    BY <1>2 DEF KeyDeskIInv, KeyIsTrue, PageIsTrue, SeenWhereAsked, KeysStayWithTheirOrg
  <1>3. QED
    BY <1>1, <1>2

\* Whoever signs in or out in whichever tab: a key stays with the org it was asked for, is
\* seen in full in the browser it was asked from, and is listed on its own account's page;
\* for any tabs, browsers, users and keys (the account page and the page of orgs).
THEOREM KeysAreKept == Spec => []KeysStayWithTheirOrg
  <1>1. Init => KeyDeskIInv
    BY KeyDeskHolds DEF Init
  <1>2. KeyDeskIInv /\ [Next]_vars => KeyDeskIInv'
    BY LaneSteps, KeyDeskStep
  <1>3. KeyDeskIInv => KeysStayWithTheirOrg
    BY KeyDeskHolds
  <1>4. QED
    BY <1>1, <1>2, <1>3, PTL DEF Spec

-----------------------------------------------------------------------------
(* The reports on paid calls. *)

CallStages == DOMAIN After \cup {"serve", "cost", "complete", "done"}
AnswerRows == {Unasked} \cup UNION {Answers(p) : p \in Providers}
CallRows == [at : CallStages, provider : Providers \cup {NoProvider}, answer : AnswerRows]
EntryRows ==
  {e \in [booked : Nat, cost : Nat, costed : Nat, free : BOOLEAN, off : -50..50] :
     e.free => e.cost = 0}

\* A cost is booked for the answer of the provider that gave it.
CostIInv ==
  /\ now \in Nat
  /\ handler \in [Calls -> CallRows]
  /\ \A c \in Calls :
       handler[c].at = "cost" =>
         handler[c].provider \in Providers /\ handler[c].answer \in Answers(handler[c].provider)
  /\ entry \in [Calls -> EntryRows]

\* Math.round in hundredths of an atomic unit.
LEMMA RoundsToHalf ==
  ASSUME NEW x \in Nat
  PROVE  (x + 50) \div 100 \in Nat /\ 100 * ((x + 50) \div 100) - x \in -50..50
  OBVIOUS

LEMMA ChargeIs ==
  ASSUME NEW u \in [prompt : Nat, completion : Nat]
  PROVE  \A p \in Providers : Charge(Card[p], u) \in Nat
  <1>1. u.prompt \in Nat /\ u.completion \in Nat
    OBVIOUS
  <1>2. \A p \in Providers :
          Card[p].flat \in Nat /\ Card[p].prompt \in Nat /\ Card[p].completion \in Nat
    BY DEF Providers, Card
  <1>3. \A m, n \in Nat : m * n \in Nat
    OBVIOUS
  <1>4. QED
    BY <1>1, <1>2, <1>3 DEF Charge

\* What a provider may tell.
LEMMA AnswersAre ==
  ASSUME NEW p \in Providers, NEW a \in Answers(p)
  PROVE  /\ a.usage \in [prompt : Nat, completion : Nat]
         /\ a.exact => a.charge = IF Billed(p, a.source) THEN Charge(Card[p], a.usage) ELSE 0
         /\ a.source \in {"synthesized", "kraken-public"} => ~Billed(p, a.source)
  <1> USE DEF Answer, Billed
  <1>1. p \in {"featherless", "aimlapi", "validator", "aisa"}
    BY DEF Providers, Card
  <1>2. NoUsage \in [prompt : Nat, completion : Nat]
    BY DEF NoUsage
  <1>3. ASSUME NEW u \in Usages, NEW told \in Told(u)
        PROVE  told \in [prompt : Nat, completion : Nat]
    BY <1>2, <1>3, ReportsAssumption DEF Told
  <1>4. ASSUME NEW source \in {"synthesized", "kraken-public"}, a \in Unheard(p, source)
        PROVE  /\ a.source = source /\ a.usage = NoUsage
               /\ a.exact => a.charge = 0
    BY <1>4 DEF Unheard
  <1>5. ASSUME NEW real, a \in Inference(p, real), a \notin Unheard(p, "synthesized")
        PROVE  /\ a.source = real /\ a.usage \in [prompt : Nat, completion : Nat]
               /\ a.exact => a.charge = Charge(Card[p], a.usage)
    <2>1. PICK card \in Cards(p), u \in Usages : a \in Telling(p, real, card, u)
      BY <1>5 DEF Inference
    <2>2. PICK told \in Told(u) :
            a = Answer(real, told, Charge(card, u), card = Card[p] /\ told = u)
      BY <2>1 DEF Telling
    <2>3. a.source = real /\ a.usage = told /\ a.charge = Charge(card, u)
      BY <2>2
    <2>4. a.exact = (card = Card[p] /\ told = u)
      BY <2>2, Zenon
    <2>5. a.exact => a.charge = Charge(Card[p], a.usage)
      BY <2>3, <2>4, Zenon
    <2>6. QED
      BY <1>3, <2>3, <2>5
  <1>6. CASE p = "featherless"
    <2>1. a \in Inference(p, "featherless-real")
      BY <1>6 DEF Answers, FeatherlessAnswers
    <2>2. QED
      BY <1>2, <1>4, <1>5, <1>6, <2>1
  <1>7. CASE p = "aimlapi"
    <2>1. a \in Inference(p, "aimlapi-real")
      BY <1>7 DEF Answers, AimlapiAnswers
    <2>2. QED
      BY <1>2, <1>4, <1>5, <1>7, <2>1
  <1>8. CASE p = "validator"
    BY <1>2, <1>8 DEF Answers, ValidatorAnswers
  <1>9. CASE p = "aisa"
    <2>1. \/ a = Answer("aisa-real", NoUsage, Charge(Card[p], NoUsage), TRUE)
          \/ \E source \in KrakenSources : a \in Unheard(p, source)
      BY <1>9 DEF Answers, AisaAnswers
    <2>2. QED
      BY <1>2, <1>4, <1>9, <2>1 DEF KrakenSources
  <1>10. QED
    BY <1>1, <1>6, <1>7, <1>8, <1>9

\* A charge that the card and what was told add up to is booked to half an atomic unit.
LEMMA CostIsClose ==
  ASSUME NEW p \in Providers, NEW a \in Answers(p)
  PROVE  /\ Cost(p, a) \in Nat
         /\ a.source \in {"synthesized", "kraken-public"} => Cost(p, a) = 0
         /\ (IF a.exact THEN 100 * Cost(p, a) - a.charge ELSE 0) \in -50..50
  <1>1. Charge(Card[p], a.usage) \in Nat
    BY AnswersAre, ChargeIs
  <1>2. CASE Billed(p, a.source)
    BY <1>1, <1>2, AnswersAre, RoundsToHalf DEF Cost
  <1>3. CASE ~Billed(p, a.source)
    <2>1. Cost(p, a) = 0
      BY <1>3 DEF Cost
    <2>2. QED
      BY <1>3, <2>1, AnswersAre
  <1>4. QED
    BY <1>2, <1>3

LEMMA CallGoes ==
  ASSUME handler \in [Calls -> CallRows], NEW c \in Calls, NEW at \in CallStages, Goto(c, at)
  PROVE  /\ handler' \in [Calls -> CallRows] /\ handler'[c].at = at
         /\ \A d \in Calls \ {c} : handler'[d] = handler[d]
  BY DEF Goto, CallRows

LEMMA CallForgets ==
  ASSUME handler \in [Calls -> CallRows], NEW c \in Calls, NEW at \in CallStages,
         handler' = [handler EXCEPT ![c] = [Fresh EXCEPT !.at = at]]
  PROVE  /\ handler' \in [Calls -> CallRows] /\ handler'[c].at = at
         /\ \A d \in Calls \ {c} : handler'[d] = handler[d]
  <1>1. [Fresh EXCEPT !.at = at] \in CallRows
    BY DEF Fresh, CallRows, AnswerRows
  <1>2. [Fresh EXCEPT !.at = at].at = at
    BY DEF Fresh
  <1>3. QED
    BY <1>1, <1>2

LEMMA StagesAre ==
  /\ DOMAIN After = {"action", "payment", "settlement", "splits"}
  /\ {"serve", "complete", "done", "cost"} \subseteq CallStages
  /\ \A at \in DOMAIN After : After[at] \in CallStages /\ After[at] \notin {"cost", "done"}
  BY DEF After, CallStages

LEMMA EntryMoves ==
  ASSUME entry \in [Calls -> EntryRows], NEW c \in Calls, NEW booked \in Nat
  PROVE  [entry EXCEPT ![c].booked = booked] \in [Calls -> EntryRows]
  BY DEF EntryRows

\* What a call does to its books and to where it is.
LEMMA CostStep ==
  ASSUME CostIInv, [ReportsNext]_reportVars
  PROVE  CostIInv'
  <1>1. /\ now \in Nat /\ handler \in [Calls -> CallRows] /\ entry \in [Calls -> EntryRows]
        /\ \A c \in Calls : entry[c].booked \in Nat
    BY DEF CostIInv, EntryRows
  \* a call moves, and not to where its cost is booked
  <1>2. ASSUME NEW c \in Calls, NEW at \in CallStages \ {"cost"},
               handler' \in [Calls -> CallRows], handler'[c].at = at,
               \A d \in Calls \ {c} : handler'[d] = handler[d],
               now' \in Nat, entry' \in [Calls -> EntryRows]
        PROVE  CostIInv'
    BY <1>2 DEF CostIInv
  <1>3. ASSUME NEW c \in Calls, Book(c) \/ BookFails(c) PROVE CostIInv'
    <2>1. PICK at \in CallStages \ {"cost"} : Goto(c, at)
      BY <1>3, StagesAre DEF Book, BookFails
    <2>2. entry' \in [Calls -> EntryRows]
      <3>1. entry' = entry \/ \E b \in Nat : entry' = [entry EXCEPT ![c].booked = b]
        BY <1>1, <1>3 DEF Book, BookFails
      <3>2. QED
        BY <1>1, <3>1, EntryMoves
    <2>3. now' = now
      BY <1>3 DEF Book, BookFails
    <2>4. QED
      BY <1>1, <1>2, <2>1, <2>2, <2>3, CallGoes
  <1>4. ASSUME NEW c \in Calls, Ask(c) PROVE CostIInv'
    <2>0. PICK p \in Providers : \E a \in Answers(p) :
            handler' = [handler EXCEPT ![c] = [at |-> "cost", provider |-> p, answer |-> a]]
      BY <1>4 DEF Ask
    <2>1. PICK a \in Answers(p) :
            handler' = [handler EXCEPT ![c] = [at |-> "cost", provider |-> p, answer |-> a]]
      BY <2>0
    <2>2. [at |-> "cost", provider |-> p, answer |-> a] \in CallRows
      <3>1. a \in AnswerRows
        BY <2>1 DEF AnswerRows
      <3>2. QED
        BY <3>1, StagesAre DEF CallRows
    <2>3. UNCHANGED <<now, entry>>
      BY <1>4 DEF Ask
    <2>4. /\ handler' \in [Calls -> CallRows]
          /\ handler'[c] = [at |-> "cost", provider |-> p, answer |-> a]
          /\ \A d \in Calls \ {c} : handler'[d] = handler[d]
      BY <1>1, <2>1, <2>2
    <2>5. handler'[c].provider = p /\ handler'[c].answer = a
      BY <2>4
    <2>6. ASSUME NEW d \in Calls, handler'[d].at = "cost"
          PROVE  handler'[d].provider \in Providers /\ handler'[d].answer \in Answers(handler'[d].provider)
      <3>1. CASE d = c
        BY <2>1, <2>5, <3>1
      <3>2. CASE d # c
        BY <2>4, <2>6, <3>2 DEF CostIInv
      <3>3. QED
        BY <3>1, <3>2
    <2>7. QED
      BY <1>1, <2>3, <2>4, <2>6 DEF CostIInv
  <1>5. ASSUME NEW c \in Calls, Decline(c) PROVE CostIInv'
    <2>1. Goto(c, "complete") /\ UNCHANGED <<now, entry>>
      BY <1>5 DEF Decline
    <2>2. QED
      BY <1>1, <1>2, <2>1, CallGoes, StagesAre
  <1>6. ASSUME NEW c \in Calls, LogCost(c) PROVE CostIInv'
    <2> DEFINE a == handler[c].answer
               cost == Cost(handler[c].provider, a)
               free == a.source \in {"synthesized", "kraken-public"}
               off == IF a.exact THEN 100 * cost - a.charge ELSE 0
    <2>1. /\ Forget(c) /\ UNCHANGED now
          /\ entry' = [entry EXCEPT ![c].cost = cost, ![c].costed = now, ![c].free = free,
                                    ![c].off = off]
      BY <1>6 DEF LogCost, LogProviderCost
    <2>2. handler[c].provider \in Providers /\ a \in Answers(handler[c].provider)
      BY <1>6 DEF LogCost, LogProviderCost, CostIInv, Upcoming
    <2>3. cost \in Nat /\ free \in BOOLEAN /\ (free => cost = 0) /\ off \in -50..50
      BY <2>2, CostIsClose
    <2> HIDE DEF cost, free, off
    <2>4. entry' \in [Calls -> EntryRows]
      <3> DEFINE row == [entry[c] EXCEPT !.cost = cost, !.costed = now, !.free = free,
                                        !.off = off]
      <3>1. entry[c] \in EntryRows /\ now \in Nat
        BY <1>1
      <3>2. row \in EntryRows
        BY <2>3, <3>1 DEF EntryRows
      <3>3. entry' = [entry EXCEPT ![c] = row]
        BY <2>1
      <3> HIDE DEF row
      <3>4. QED
        BY <1>1, <3>2, <3>3
    <2>5. handler' = [handler EXCEPT ![c] = [Fresh EXCEPT !.at = "complete"]]
      BY <2>1 DEF Forget
    <2>6. "complete" \in CallStages \ {"cost"}
      BY StagesAre
    <2>7. /\ handler' \in [Calls -> CallRows] /\ handler'[c].at = "complete"
          /\ \A d \in Calls \ {c} : handler'[d] = handler[d]
      BY <1>1, <2>5, <2>6, CallForgets
    <2>8. QED
      BY <1>1, <1>2, <2>1, <2>4, <2>6, <2>7
  <1>7. ASSUME NEW c \in Calls, LogCostFails(c) \/ Complete(c) \/ CutOff(c) PROVE CostIInv'
    <2>1. PICK at \in CallStages \ {"cost"} :
            Goto(c, at) \/ handler' = [handler EXCEPT ![c] = [Fresh EXCEPT !.at = at]]
      BY <1>7, StagesAre DEF LogCostFails, Complete, CutOff, Forget
    <2>2. UNCHANGED <<now, entry>>
      BY <1>7 DEF LogCostFails, Complete, CutOff
    <2>3. /\ handler' \in [Calls -> CallRows] /\ handler'[c].at = at
          /\ \A d \in Calls \ {c} : handler'[d] = handler[d]
      BY <1>1, <2>1, CallForgets, CallGoes
    <2>4. QED
      BY <1>1, <1>2, <2>2, <2>3
  <1>8. CASE (\E pg \in Pages : OpenPage(pg)) \/ Read \/ ReadFails \/ Wait
    <2>1. UNCHANGED <<handler, entry>> /\ now' \in Nat
      BY <1>1, <1>8 DEF OpenPage, Read, ReadFails, Wait
    <2>2. QED
      BY <2>1 DEF CostIInv
  <1>9. CASE UNCHANGED reportVars
    BY <1>9 DEF reportVars, CostIInv
  <1>10. QED
    BY <1>3, <1>4, <1>5, <1>6, <1>7, <1>8, <1>9 DEF ReportsNext

LEMMA CostHolds ==
  /\ ReportsInit => CostIInv
  /\ CostIInv => CostIsHonest
  <1>1. ASSUME ReportsInit PROVE CostIInv
    <2>1. [booked |-> 0, cost |-> 0, costed |-> 0, free |-> TRUE, off |-> 0] \in EntryRows
      BY DEF EntryRows
    <2>2. Fresh \in CallRows /\ Fresh.at = "action"
      BY StagesAre DEF Fresh, CallRows, CallStages, AnswerRows
    <2>3. QED
      BY <1>1, <2>1, <2>2 DEF ReportsInit, CostIInv
  <1>2. ASSUME CostIInv PROVE CostIsHonest
    BY <1>2 DEF CostIInv, EntryRows, CostIsHonest
  <1>3. QED
    BY <1>1, <1>2

\* Nothing is booked for what a stand-in or the public ticker gave; and where the card is
\* that of the model the caller took, and its tokens were told in parts, the books have
\* the charge to half an atomic unit: for any tokens, any other models and any number of
\* calls (logCost and sourceIsBilled).
THEOREM CostsAreHonest == Spec => []CostIsHonest
  <1>1. Init => CostIInv
    BY CostHolds DEF Init
  <1>2. CostIInv /\ [Next]_vars => CostIInv'
    BY LaneSteps, CostStep
  <1>3. CostIInv => CostIsHonest
    BY CostHolds
  <1>4. QED
    BY <1>1, <1>2, <1>3, PTL DEF Spec

\* What a page asks for: of the statements that go back a window, one finds the completed
\* calls and the others costs.
Asks(s) ==
  /\ s.reads \subseteq Tables
  /\ s.recent => s.reads \in {{"completed"}, {"cost"}}

\* What it asks later, given what it has asked: costs, when it goes back a window; and no
\* more completed calls, when the answers are set against each other.
AsksAfter(reads, s, adds) ==
  /\ s.recent /\ "completed" \in reads => s.reads = {"cost"}
  /\ adds => "completed" \notin s.reads

Statements == [reads : SUBSET Tables, recent : BOOLEAN]
AnswerTables == [rows : UNION {[T -> SUBSET Calls] : T \in SUBSET Tables}, since : Int]

ReportRows ==
  [left : Seq(Statements), found : Seq(AnswerTables), keeps : BOOLEAN, adds : BOOLEAN]

\* The books of a completed call are closed, and what a report has found of it is whole;
\* what it still asks for follows what it has asked.
WholeIInv ==
  /\ books \in [Tables -> SUBSET Calls]
  /\ \A c \in books["completed"] : handler[c].at = "done"
  /\ report \in ReportRows
  /\ \A i \in DOMAIN report.left : Asks(report.left[i])
  /\ \A i, j \in DOMAIN report.left :
       i < j => AsksAfter(report.left[i].reads, report.left[j], report.adds)
  /\ \A i \in DOMAIN report.found, j \in DOMAIN report.left :
       AsksAfter(DOMAIN report.found[i].rows, report.left[j], report.adds)
  /\ \A i \in DOMAIN report.found :
       "completed" \in DOMAIN report.found[i].rows =>
         report.found[i].rows["completed"] \subseteq books["completed"]
  /\ CompletedIsShownWhole

PageIsSound(pg) ==
  \A i, j \in DOMAIN pg : \A s \in pg[i], t \in pg[j] :
    /\ s \in Statements /\ Asks(s)
    /\ i < j => AsksAfter(s.reads, t, pg \in AddsUp)

LEMMA StatementsAre ==
  /\ \A R \in SUBSET Tables :
       All(R) \in Statements /\ Asks(All(R)) /\ All(R).reads = R /\ ~All(R).recent
  /\ \A R \in {{"completed"}, {"cost"}} :
       Recent(R) \in Statements /\ Asks(Recent(R)) /\ Recent(R).reads = R /\ Recent(R).recent
  BY DEF All, Recent, Tables, Statements, Asks

LEMMA PagesAreSound == \A pg \in Pages : PageIsSound(pg)
  \* one group of statements, which run side by side
  <1>1. ASSUME NEW pg, DOMAIN pg = 1..1, \A s \in pg[1] : s \in Statements /\ Asks(s)
        PROVE  PageIsSound(pg)
    BY <1>1 DEF PageIsSound
  <1>2. PageIsSound(NetworkMargins)
    <2>1. DOMAIN NetworkMargins = 1..1
      BY DEF NetworkMargins
    <2>2. \A s \in NetworkMargins[1] : s \in Statements /\ Asks(s)
      BY StatementsAre DEF NetworkMargins, Tables
    <2>3. QED
      BY <1>1, <2>1, <2>2
  <1>3. PageIsSound(Metrics)
    <2>1. DOMAIN Metrics = 1..1
      BY DEF Metrics
    <2>2. \A s \in Metrics[1] : s \in Statements /\ Asks(s)
      BY StatementsAre DEF Metrics, Tables, Stats, RecentSettlements
    <2>3. QED
      BY <1>1, <2>1, <2>2
  <1>4. PageIsSound(AdminPage)
    <2>1. DOMAIN AdminPage = 1..1
      BY DEF AdminPage
    <2>2. \A s \in AdminPage[1] : s \in Statements /\ Asks(s)
      BY StatementsAre DEF AdminPage, Tables
    <2>3. QED
      BY <1>1, <2>1, <2>2
  <1>5. PageIsSound(ConsolePage)
    <2>1. DOMAIN ConsolePage = 1..1
      BY DEF ConsolePage
    <2>2. \A s \in ConsolePage[1] : s \in Statements /\ Asks(s)
      BY StatementsAre DEF ConsolePage, Tables, Stats
    <2>3. QED
      BY <1>1, <2>1, <2>2
  <1>6. PageIsSound(LandingPage)
    <2>1. DOMAIN LandingPage = 1..1
      BY DEF LandingPage
    <2>2. \A s \in LandingPage[1] : s \in Statements /\ Asks(s)
      BY StatementsAre DEF LandingPage, Tables
    <2>3. QED
      BY <1>1, <2>1, <2>2
  <1>7. PageIsSound(MarginReport)
    <2>1. DOMAIN MarginReport = 1..3
      BY DEF MarginReport
    <2>2. /\ MarginReport[1] = {Recent({"completed"})}
          /\ MarginReport[2] = {Recent({"cost"})} /\ MarginReport[3] = {Recent({"cost"})}
      BY DEF MarginReport
    <2>3. \A i \in 1..3 : \A s \in MarginReport[i] :
            /\ s \in Statements /\ Asks(s)
            /\ i # 1 => s.reads = {"cost"}
      BY <2>2, StatementsAre
    <2>4. QED
      BY <2>1, <2>3 DEF PageIsSound, AsksAfter
  <1>8. PageIsSound(ActionDetail)
    <2>1. DOMAIN ActionDetail = 1..2
      BY DEF ActionDetail
    <2>2. /\ ActionDetail[1] = {All({"action", "completed"})}
          /\ ActionDetail[2] = {All({"payment"}), All({"payment", "settlement"}),
                                All({"splits"}), All({"cost"})}
      BY DEF ActionDetail
    <2>3. \A i \in 1..2 : \A s \in ActionDetail[i] :
            /\ s \in Statements /\ Asks(s) /\ ~s.recent
            /\ i # 1 => "completed" \notin s.reads
      BY <2>2, StatementsAre DEF Tables
    <2>4. QED
      BY <2>1, <2>3 DEF PageIsSound, AsksAfter
  <1>9. PageIsSound(DashboardPage)
    <2>1. DOMAIN DashboardPage = 1..4
      BY DEF DashboardPage
    <2>2. DashboardPage \notin AddsUp
      <3>1. DOMAIN MarginReport = 1..3 /\ DOMAIN ActionDetail = 1..2
        BY DEF MarginReport, ActionDetail
      <3>2. QED
        BY <2>1, <3>1 DEF AddsUp
    <2>3. \A i \in 1..4 : \A s \in DashboardPage[i] : s \in Statements /\ Asks(s) /\ ~s.recent
      BY StatementsAre DEF Tables, DashboardPage
    <2>4. QED
      BY <2>1, <2>2, <2>3 DEF PageIsSound, AsksAfter
  <1>10. PageIsSound(SplitsPage)
    <2>1. DOMAIN SplitsPage = 1..3
      BY DEF SplitsPage
    <2>2. \A i \in 1..3 : \A s \in SplitsPage[i] :
            s \in Statements /\ Asks(s) /\ ~s.recent /\ "completed" \notin s.reads
      BY StatementsAre DEF Tables, SplitsPage
    <2>3. QED
      BY <2>1, <2>2 DEF PageIsSound, AsksAfter
  <1>11. QED
    BY <1>2, <1>3, <1>4, <1>5, <1>6, <1>7, <1>8, <1>9, <1>10 DEF Pages

\* A call that is not done moves and enters its rows; what is completed stays as it is.
LEMMA BooksMove ==
  ASSUME WholeIInv, NEW c \in Calls, handler[c].at # "done",
         \A d \in Calls \ {c} : handler'[d] = handler[d] /\ entry'[d] = entry[d],
         books' \in [Tables -> SUBSET Calls],
         \A table \in Tables : books'[table] \ {c} = books[table] \ {c},
         books["completed"] \subseteq books'["completed"],
         c \in books'["completed"] => handler'[c].at = "done",
         report' = report
  PROVE  WholeIInv'
  <1>1. "completed" \in Tables /\ c \notin books["completed"]
    BY DEF WholeIInv, Tables
  <1>2. \A d \in books'["completed"] : handler'[d].at = "done"
    BY <1>1 DEF WholeIInv
  <1>3. ASSUME NEW i \in DOMAIN report.found, NEW j \in DOMAIN report.found,
               i <= j \/ report.adds, "completed" \in DOMAIN report.found[i].rows,
               NEW d \in report.found[i].rows["completed"],
               NEW table \in DOMAIN report.found[j].rows
        PROVE  \/ d \in books'[table] => d \in report.found[j].rows[table]
               \/ table = "cost" /\ entry'[d].costed < report.found[j].since
    <2>1. d \in books["completed"] /\ d \in Calls \ {c}
      BY <1>1, <1>3 DEF WholeIInv
    <2>2. report.found[j] \in AnswerTables
      BY DEF WholeIInv, ReportRows
    <2>3. table \in Tables
      BY <2>2 DEF AnswerTables
    <2>4. d \in books'[table] => d \in books[table]
      BY <2>1, <2>3
    <2>5. entry'[d] = entry[d]
      BY <2>1
    <2>6. \/ d \in books[table] => d \in report.found[j].rows[table]
          \/ table = "cost" /\ entry[d].costed < report.found[j].since
      BY <1>3 DEF WholeIInv, CompletedIsShownWhole
    <2>7. QED
      BY <2>4, <2>5, <2>6
  <1>4. CompletedIsShownWhole'
    BY <1>3 DEF CompletedIsShownWhole
  <1>5. \A i \in DOMAIN report.found :
          "completed" \in DOMAIN report.found[i].rows =>
            report.found[i].rows["completed"] \subseteq books'["completed"]
    BY DEF WholeIInv
  <1>6. QED
    BY <1>2, <1>4, <1>5 DEF WholeIInv

\* What a statement finds of the calls that are completed.
LEMMA FoundIs ==
  ASSUME CostIInv, WholeIInv, NEW s \in Statements, Asks(s)
  PROVE  /\ Found(s) \in AnswerTables /\ DOMAIN Found(s).rows = s.reads
         /\ \A table \in s.reads : Found(s).rows[table] \subseteq books[table]
         /\ \A c \in Calls, table \in s.reads :
              c \in books[table] /\ ~s.recent => c \in Found(s).rows[table]
         /\ \A c \in Calls :
              s.recent /\ s.reads = {"cost"} /\ c \in books["cost"] =>
                c \in Found(s).rows["cost"] \/ entry[c].costed < Found(s).since
  <1> DEFINE hits == [t \in s.reads |-> {c \in books[t] : s.recent => InWindow(c, t)}]
             since == IF s.recent THEN now - Window ELSE 0
  <1>1. Found(s).rows = hits /\ Found(s).since = since /\ Found(s) = [rows |-> hits, since |-> since]
    BY DEF Found
  <1>2. s.reads \in SUBSET Tables /\ \A t \in s.reads : books[t] \subseteq Calls
    BY DEF Statements, WholeIInv
  <1>3. hits \in [s.reads -> SUBSET Calls]
    BY <1>2
  <1>4. since \in Int
    BY ReportsAssumption DEF CostIInv
  <1>5. Found(s) \in AnswerTables
    <2>1. hits \in UNION {[T -> SUBSET Calls] : T \in SUBSET Tables}
      BY <1>2, <1>3
    <2> HIDE DEF hits, since
    <2>2. QED
      BY <1>1, <1>4, <2>1 DEF AnswerTables
  <1>6. ASSUME NEW c \in Calls, s.recent, s.reads = {"cost"}, c \in books["cost"], ~InWindow(c, "cost")
        PROVE  entry[c].costed < since
    <2>1. entry[c].costed \in Nat /\ now \in Nat /\ Window \in Nat
      BY ReportsAssumption DEF CostIInv, EntryRows
    <2>2. ~(now - Window <= entry[c].costed)
      BY <1>6 DEF InWindow
    <2>3. QED
      BY <1>6, <2>1, <2>2
  <1>7. \A t \in s.reads : hits[t] = {c \in books[t] : s.recent => InWindow(c, t)}
    OBVIOUS
  <1>8. QED
    <2> HIDE DEF hits, since
    <2>1. DOMAIN hits = s.reads
      BY <1>3
    <2>2. QED
      BY <1>1, <1>5, <1>6, <1>7, <2>1

LEMMA ReadIsWhole ==
  ASSUME CostIInv, WholeIInv, Read
  PROVE  WholeIInv'
  <1> DEFINE s == Head(report.left)
             left == Tail(report.left)
             found == Append(report.found, Found(s))
             n == Len(report.found) + 1
  <1>1. /\ report.left # <<>> /\ UNCHANGED <<now, handler, books, entry>>
        /\ report' = [report EXCEPT !.left = left, !.found = found]
    BY DEF Read
  <1>2. /\ report \in ReportRows /\ report.left \in Seq(Statements)
        /\ report.found \in Seq(AnswerTables)
        /\ \A i \in DOMAIN report.found : report.found[i] \in AnswerTables
    BY DEF WholeIInv, ReportRows
  <1>3. s \in Statements /\ s = report.left[1] /\ 1 \in DOMAIN report.left
    BY <1>1, <1>2
  <1>4. Asks(s)
    BY <1>3 DEF WholeIInv
  <1>5. /\ left \in Seq(Statements)
        /\ \A j \in DOMAIN left :
             left[j] = report.left[j + 1] /\ j \in Nat /\ 1 < j + 1 /\ j + 1 \in DOMAIN report.left
    BY <1>1, <1>2
  <1>6. Found(s) \in AnswerTables
    BY <1>3, <1>4, FoundIs
  <1>7. /\ found \in Seq(AnswerTables) /\ DOMAIN found = DOMAIN report.found \cup {n}
        /\ found[n] = Found(s) /\ n \notin DOMAIN report.found
        /\ \A i \in DOMAIN report.found : found[i] = report.found[i] /\ i < n
    BY <1>2, <1>6
  <1> HIDE DEF left, found, n
  <1>8. report' \in ReportRows /\ report'.left = left /\ report'.found = found
        /\ report'.adds = report.adds
    BY <1>1, <1>2, <1>5, <1>7 DEF ReportRows
  <1>9. /\ \A i \in DOMAIN left : Asks(left[i])
        /\ \A i, j \in DOMAIN left : i < j => AsksAfter(left[i].reads, left[j], report.adds)
    <2>1. \A i \in DOMAIN left : Asks(left[i])
      BY <1>5 DEF WholeIInv
    <2>2. ASSUME NEW i \in DOMAIN left, NEW j \in DOMAIN left, i < j
          PROVE  AsksAfter(left[i].reads, left[j], report.adds)
      <3>1. i + 1 < j + 1 /\ i + 1 \in DOMAIN report.left /\ j + 1 \in DOMAIN report.left
        BY <1>5, <2>2
      <3>2. AsksAfter(report.left[i + 1].reads, report.left[j + 1], report.adds)
        BY <3>1 DEF WholeIInv
      <3>3. QED
        BY <1>5, <3>2
    <2>3. QED
      BY <2>1, <2>2
  <1>10. ASSUME NEW j \in DOMAIN left
         PROVE  AsksAfter(s.reads, left[j], report.adds)
    BY <1>3, <1>5 DEF WholeIInv
  <1>11. \A i \in DOMAIN found, j \in DOMAIN left :
           AsksAfter(DOMAIN found[i].rows, left[j], report.adds)
    <2>1. DOMAIN Found(s).rows = s.reads
      BY <1>3, <1>4, FoundIs
    <2>2. \A i \in DOMAIN report.found, j \in DOMAIN left :
            AsksAfter(DOMAIN report.found[i].rows, left[j], report.adds)
      BY <1>5 DEF WholeIInv
    <2>3. QED
      BY <1>7, <1>10, <2>1, <2>2
  <1>12. /\ DOMAIN Found(s).rows = s.reads
         /\ \A table \in s.reads : Found(s).rows[table] \subseteq books[table]
         /\ \A c \in Calls, table \in s.reads :
              c \in books[table] /\ ~s.recent => c \in Found(s).rows[table]
         /\ \A c \in Calls :
              s.recent /\ s.reads = {"cost"} /\ c \in books["cost"] =>
                c \in Found(s).rows["cost"] \/ entry[c].costed < Found(s).since
    BY <1>3, <1>4, FoundIs
  <1>13. \A i \in DOMAIN found :
           "completed" \in DOMAIN found[i].rows => found[i].rows["completed"] \subseteq books["completed"]
    BY <1>7, <1>12 DEF WholeIInv
  <1>14. ASSUME NEW i \in DOMAIN found, NEW j \in DOMAIN found,
                i <= j \/ report.adds, "completed" \in DOMAIN found[i].rows,
                NEW c \in found[i].rows["completed"], NEW table \in DOMAIN found[j].rows
         PROVE  \/ c \in books[table] => c \in found[j].rows[table]
                \/ table = "cost" /\ entry[c].costed < found[j].since
    <2>1. c \in Calls /\ c \in books["completed"]
      <3>1. books["completed"] \subseteq Calls
        BY DEF WholeIInv, Tables
      <3>2. QED
        BY <1>13, <1>14, <3>1
    <2>2. CASE i # n /\ j # n
      <3>1. i \in DOMAIN report.found /\ j \in DOMAIN report.found
        BY <1>7, <2>2
      <3>2. found[i] = report.found[i] /\ found[j] = report.found[j]
        BY <1>7, <3>1
      <3>3. QED
        BY <1>14, <3>1, <3>2 DEF WholeIInv, CompletedIsShownWhole
    <2>3. CASE j = n
      <3>1. found[j] = Found(s) /\ table \in s.reads
        BY <1>7, <1>12, <1>14, <2>3
      <3>2. CASE ~s.recent
        BY <1>12, <2>1, <3>1, <3>2
      <3>3. CASE s.recent /\ s.reads = {"cost"}
        BY <1>12, <2>1, <3>1, <3>3
      <3>4. CASE s.recent /\ s.reads = {"completed"}
        <4>1. i = n
          <5>1. SUFFICES ASSUME i \in DOMAIN report.found PROVE FALSE
            BY <1>7
          <5>2. AsksAfter(DOMAIN report.found[i].rows, s, report.adds)
            BY <1>3, <5>1 DEF WholeIInv
          <5>3. "completed" \in DOMAIN report.found[i].rows
            BY <1>7, <1>14, <5>1
          <5>4. s.reads = {"cost"}
            BY <3>4, <5>2, <5>3 DEF AsksAfter
          <5>5. QED
            BY <3>4, <5>4
        <4>2. table = "completed"
          BY <3>1, <3>4
        <4>3. QED
          BY <1>14, <2>3, <4>1, <4>2
      <3>5. QED
        BY <1>4, <3>2, <3>3, <3>4 DEF Asks
    <2>4. CASE i = n /\ j # n
      <3>1. j \in DOMAIN report.found /\ report.adds
        <4>1. j \in DOMAIN report.found /\ j < n
          BY <1>7, <2>4
        <4>2. n \in Nat /\ j \in Nat
          BY <1>2, <4>1 DEF n
        <4>3. QED
          BY <1>14, <2>4, <4>1, <4>2
      <3>2. "completed" \in s.reads
        BY <1>7, <1>12, <1>14, <2>4
      <3>3. AsksAfter(DOMAIN report.found[j].rows, s, report.adds)
        BY <1>3, <3>1 DEF WholeIInv
      <3>4. QED
        BY <3>1, <3>2, <3>3 DEF AsksAfter
    <2>5. QED
      BY <2>2, <2>3, <2>4
  <1>15. CompletedIsShownWhole'
    <2>1. \A i, j \in DOMAIN found :
            (i <= j \/ report.adds) /\ "completed" \in DOMAIN found[i].rows =>
              \A c \in found[i].rows["completed"], table \in DOMAIN found[j].rows :
                \/ c \in books[table] => c \in found[j].rows[table]
                \/ table = "cost" /\ entry[c].costed < found[j].since
      BY <1>14
    <2>2. books' = books /\ entry' = entry
      BY <1>1
    <2>3. QED
      BY <1>8, <2>1, <2>2, ZenonT(40) DEF CompletedIsShownWhole
  <1>16. books' \in [Tables -> SUBSET Calls] /\ \A c \in books'["completed"] : handler'[c].at = "done"
    BY <1>1 DEF WholeIInv
  <1>17. QED
    BY <1>1, <1>8, <1>9, <1>11, <1>13, <1>15, <1>16 DEF WholeIInv

LEMMA WholeStep ==
  ASSUME CostIInv, WholeIInv, [ReportsNext]_reportVars
  PROVE  WholeIInv'
  <1>1. /\ books \in [Tables -> SUBSET Calls] /\ "completed" \in Tables
        /\ handler \in [Calls -> CallRows] /\ entry \in [Calls -> EntryRows]
        /\ \A c \in books["completed"] : handler[c].at = "done"
    <2>1. "completed" \in Tables
      BY DEF Tables
    <2>2. QED
      BY <2>1 DEF WholeIInv, CostIInv
  <1>2. ASSUME NEW c \in Calls, NEW table \in Tables, Enter(c, table)
        PROVE  /\ books' \in [Tables -> SUBSET Calls]
               /\ \A t \in Tables : books'[t] \ {c} = books[t] \ {c}
               /\ books["completed"] \subseteq books'["completed"]
               /\ table # "completed" => books'["completed"] = books["completed"]
    BY <1>1, <1>2 DEF Enter
  <1>3. \A at \in DOMAIN After \cup {"serve", "cost"} : at \in Tables \cup {"serve", "cost"} /\ at \notin {"done", "completed"}
    BY DEF After, Tables
  <1>4. ASSUME NEW c \in Calls, Book(c) \/ BookFails(c) PROVE WholeIInv'
    <2>1. handler[c].at \in DOMAIN After
      BY <1>4 DEF Book, BookFails, Upcoming
    <2>2. handler[c].at \in Tables /\ handler[c].at # "done" /\ handler[c].at # "completed"
      BY <2>1, StagesAre DEF Tables
    <2>3. PICK at \in CallStages : Goto(c, at)
      BY <1>4, StagesAre DEF Book, BookFails
    <2>4. /\ books' = books \/ Enter(c, handler[c].at)
          /\ entry' = entry \/ \E b \in Nat : entry' = [entry EXCEPT ![c].booked = b]
          /\ report' = report
      <3>1. now \in Nat /\ entry[c].booked \in Nat
        BY DEF CostIInv, EntryRows
      <3>2. QED
        BY <1>4, <3>1 DEF Book, BookFails, Upcoming
    <2>5. \A d \in Calls \ {c} : handler'[d] = handler[d] /\ entry'[d] = entry[d]
      <3>1. \A d \in Calls \ {c} : handler'[d] = handler[d]
        BY <1>1, <2>3, CallGoes
      <3>2. \A d \in Calls \ {c} : entry'[d] = entry[d]
        BY <1>1, <2>4
      <3>3. QED
        BY <3>1, <3>2
    <2>6. /\ books' \in [Tables -> SUBSET Calls]
          /\ \A t \in Tables : books'[t] \ {c} = books[t] \ {c}
          /\ books["completed"] = books'["completed"]
      BY <1>1, <1>2, <2>2, <2>4
    <2>7. c \notin books["completed"]
      BY <1>1, <2>2
    <2>8. QED
      BY <2>2, <2>4, <2>5, <2>6, <2>7, BooksMove
  <1>5. ASSUME NEW c \in Calls, LogCost(c) PROVE WholeIInv'
    <2>1. /\ handler[c].at = "cost" /\ Enter(c, "cost") /\ Forget(c) /\ report' = report
          /\ \A d \in Calls \ {c} : entry'[d] = entry[d]
      BY <1>1, <1>5 DEF LogCost, LogProviderCost, Upcoming
    <2>2. "complete" \in CallStages /\ handler' = [handler EXCEPT ![c] = [Fresh EXCEPT !.at = "complete"]]
      BY <2>1, StagesAre DEF Forget
    <2>3. \A d \in Calls \ {c} : handler'[d] = handler[d]
      BY <1>1, <2>2, CallForgets
    <2>4. /\ books' \in [Tables -> SUBSET Calls]
          /\ \A t \in Tables : books'[t] \ {c} = books[t] \ {c}
          /\ books["completed"] = books'["completed"]
      BY <1>2, <2>1 DEF Tables
    <2>5. c \notin books["completed"]
      BY <1>1, <2>1
    <2>6. QED
      BY <2>1, <2>3, <2>4, <2>5, BooksMove
  <1>6. ASSUME NEW c \in Calls, Complete(c) PROVE WholeIInv'
    <2>1. /\ handler[c].at = "complete" /\ Goto(c, "done") /\ UNCHANGED <<entry, report>>
          /\ books' = [books EXCEPT !["completed"] = @ \cup ({c} \cap books["action"])]
      BY <1>6 DEF Complete, Upcoming
    <2>2. /\ handler'[c].at = "done"
          /\ \A d \in Calls \ {c} : handler'[d] = handler[d]
      <3>1. "done" \in CallStages /\ Goto(c, "done")
        BY <2>1, StagesAre
      <3>2. QED
        BY <1>1, <3>1, CallGoes
    <2>3. /\ books' \in [Tables -> SUBSET Calls]
          /\ \A t \in Tables : books'[t] \ {c} = books[t] \ {c}
          /\ books["completed"] \subseteq books'["completed"]
      BY <1>1, <2>1
    <2>4. QED
      BY <2>1, <2>2, <2>3, BooksMove
  <1>7. ASSUME NEW c \in Calls, Ask(c) \/ Decline(c) \/ LogCostFails(c) \/ CutOff(c)
        PROVE  WholeIInv'
    <2>1. handler[c].at # "done" /\ UNCHANGED <<books, entry, report>>
      BY <1>7 DEF Ask, Decline, LogCostFails, CutOff, Upcoming
    <2>2. \A d \in Calls \ {c} : handler'[d] = handler[d]
      BY <1>1, <1>7 DEF Ask, Decline, LogCostFails, CutOff, Goto, Forget
    <2>3. c \notin books["completed"]
      BY <1>1, <2>1
    <2>4. QED
      BY <1>1, <2>1, <2>2, <2>3, BooksMove
  <1>8. ASSUME NEW pg \in Pages, OpenPage(pg) PROVE WholeIInv'
    <2>1. PICK i \in DOMAIN pg, j \in DOMAIN pg :
            \E s \in pg[i], t \in pg[j] :
              /\ i < j \/ (i = j /\ s = t)
              /\ report' = [left |-> IF i < j THEN <<s, t>> ELSE <<s>>, found |-> <<>>,
                            keeps |-> pg \in KeepsWhatItHas, adds |-> pg \in AddsUp]
      BY <1>8 DEF OpenPage
    <2>2. PICK s \in pg[i], t \in pg[j] :
            /\ i < j \/ (i = j /\ s = t)
            /\ report' = [left |-> IF i < j THEN <<s, t>> ELSE <<s>>, found |-> <<>>,
                          keeps |-> pg \in KeepsWhatItHas, adds |-> pg \in AddsUp]
      BY <2>1
    <2> DEFINE left == IF i < j THEN <<s, t>> ELSE <<s>>
               adds == pg \in AddsUp
    <2>3. /\ s \in Statements /\ Asks(s) /\ t \in Statements /\ Asks(t)
          /\ i < j => AsksAfter(s.reads, t, adds)
      BY PagesAreSound DEF PageIsSound
    <2>4. left \in Seq(Statements) /\ \A k \in DOMAIN left : Asks(left[k])
      BY <2>3
    <2>5. \A k, l \in DOMAIN left : k < l => AsksAfter(left[k].reads, left[l], adds)
      BY <2>3
    <2>6. adds \in BOOLEAN /\ (pg \in KeepsWhatItHas) \in BOOLEAN /\ <<>> \in Seq(AnswerTables)
      <3>1. <<>> \in Seq(AnswerTables)
        OBVIOUS
      <3>2. adds \in BOOLEAN /\ (pg \in KeepsWhatItHas) \in BOOLEAN
        BY SMT DEF adds
      <3>3. QED
        BY <3>1, <3>2
    <2> HIDE DEF left, adds
    <2>7. /\ report' \in ReportRows /\ report'.left = left /\ report'.found = <<>>
          /\ report'.adds = adds
      BY <2>2, <2>4, <2>6 DEF ReportRows, left, adds
    <2>8. CompletedIsShownWhole'
      BY <2>7 DEF CompletedIsShownWhole
    <2>9. UNCHANGED <<books, handler, entry>>
      BY <1>8 DEF OpenPage
    <2>10. QED
      BY <2>4, <2>5, <2>7, <2>8, <2>9 DEF WholeIInv
  <1>9. CASE Read
    BY <1>9, ReadIsWhole
  <1>10. CASE ReadFails
    <2> DEFINE found == IF report.keeps THEN report.found ELSE <<>>
    <2>1. /\ UNCHANGED <<books, handler, entry>> /\ report \in ReportRows
          /\ report' = [report EXCEPT !.left = <<>>, !.found = found]
      BY <1>10 DEF ReadFails, WholeIInv
    <2>2. found \in Seq(AnswerTables) /\ (found = report.found \/ found = <<>>)
      BY <2>1 DEF ReportRows
    <2> HIDE DEF found
    <2>3. /\ report' \in ReportRows /\ report'.left = <<>> /\ report'.found = found
          /\ report'.adds = report.adds
      <3> DEFINE none == <<>>
      <3>1. none \in Seq(Statements) /\ report' = [report EXCEPT !.left = none, !.found = found]
        BY <2>1
      <3> HIDE DEF none
      <3>2. /\ report' \in ReportRows /\ report'.left = none /\ report'.found = found
            /\ report'.adds = report.adds
        BY <2>1, <2>2, <3>1 DEF ReportRows
      <3>3. QED
        BY <3>2 DEF none
    <2>4. CASE found = report.found
      BY <2>1, <2>3, <2>4 DEF WholeIInv, CompletedIsShownWhole
    <2>5. CASE found = <<>>
      BY <2>1, <2>3, <2>5 DEF WholeIInv, CompletedIsShownWhole
    <2>6. QED
      BY <2>2, <2>4, <2>5
  <1>11. CASE Wait \/ UNCHANGED reportVars
    <2>1. UNCHANGED <<books, handler, entry, report>>
      BY <1>11 DEF Wait, reportVars
    <2>2. QED
      BY <2>1 DEF WholeIInv, CompletedIsShownWhole
  <1>12. QED
    BY <1>4, <1>5, <1>6, <1>7, <1>8, <1>9, <1>10, <1>11 DEF ReportsNext

LEMMA WholeHolds ==
  /\ ReportsInit => WholeIInv
  /\ WholeIInv => CompletedIsShownWhole
  <1>1. ASSUME ReportsInit PROVE WholeIInv
    <2>1. report \in ReportRows /\ report.left = <<>> /\ report.found = <<>>
      BY <1>1 DEF ReportsInit, NoReport, ReportRows
    <2>2. CompletedIsShownWhole
      BY <2>1 DEF CompletedIsShownWhole
    <2>3. books \in [Tables -> SUBSET Calls] /\ books["completed"] = {}
      BY <1>1 DEF ReportsInit, Tables
    <2>4. QED
      BY <2>1, <2>2, <2>3 DEF WholeIInv
  <1>2. QED
    BY <1>1 DEF WholeIInv

\* No report shows a completed call without one of its rows, whatever is booked while
\* its statements are asked one after the other: for any calls, on every page (the margin
\* report and the pages of the dashboard).
THEOREM ReportsAreWhole == Spec => []CompletedIsShownWhole
  <1>1. Init => CostIInv /\ WholeIInv
    BY CostHolds, WholeHolds DEF Init
  <1>2. CostIInv /\ WholeIInv /\ [Next]_vars => (CostIInv /\ WholeIInv)'
    BY LaneSteps, CostStep, WholeStep
  <1>3. CostIInv /\ WholeIInv => CompletedIsShownWhole
    BY WholeHolds
  <1>4. QED
    BY <1>1, <1>2, <1>3, PTL DEF Spec

-----------------------------------------------------------------------------
(* The scripts that deploy. *)

\* On a chain: the addresses of a whole set of one run, or nothing that could be taken
\* for one.
NamesOn(onChain, set) ==
  set \in {NoFile, Torn, Old} \/
    \E r \in DeployRuns : \A k \in 1..Parts :
      set[k] \in DOMAIN onChain /\ onChain[set[k]] = [kind |-> k, run |-> r]

\* What a run has made is mined, each contract for its part.
MadeOn(onChain, r, made) ==
  \A k \in 1..Len(made) :
    made[k] \in DOMAIN onChain /\ onChain[made[k]] = [kind |-> k, run |-> r]

Written == Seq(Nat) \cup {NoFile, Torn}
ScriptRows ==
  [mode : Modes, at : Stages, made : Seq(Nat), nonce : Nat, read : Written, target : Targets,
   kept : BOOLEAN]
Mineable == [kind : Nat, run : DeployRuns]

\* A run counts what it has made.
RunIsSound(onChain, r, row) ==
  /\ row.at \in {"ready", "clear", "check", "create", "receipt"} => Len(row.made) < Parts
  /\ row.at \in {"open", "close"} => Len(row.made) = Parts
  /\ MadeOn(onChain, r, row.made)
  /\ row.at \in {"copy", "empty", "fill", "unlink"} => NamesOn(onChain, row.read)

\* Everything that is carried on names a set.
SetsIInv ==
  /\ mined \in Seq(Mineable)
  /\ pool \subseteq [nonce : Nat, tx : Mineable]
  /\ script \in [DeployRuns -> ScriptRows]
  /\ \A r \in DeployRuns : RunIsSound(mined, r, script[r])
  /\ file \in Written /\ NamesOn(mined, file)
  /\ fragment \in Written /\ NamesOn(mined, fragment)
  /\ env \in [Targets -> [others : BOOLEAN, set : Written]]
  /\ \A t \in Targets : NamesOn(mined, env[t].set)

LEMMA PartsIs == Parts \in Nat /\ Parts > 0 /\ Old \in Written
  <1>1. Parts \in Nat /\ Parts > 0
    BY DeployerAssumption
  <1>2. [k \in 1..Parts |-> 0] \in Seq(Nat)
    BY <1>1
  <1>3. QED
    BY <1>1, <1>2 DEF Old, Written

LEMMA FirstTarget == 1 \in Targets
  <1>1. Cardinality(Targets) \in Nat /\ Targets = 1..Cardinality(Targets) /\ Targets # {}
    BY DeployerAssumption, FS_CardinalityType
  <1>2. QED
    BY <1>1

\* What is named stays named while the chain grows.
LEMMA NamesStay ==
  ASSUME NEW onChain, NEW later, NEW set, NEW r,
         \A n \in DOMAIN onChain : n \in DOMAIN later /\ later[n] = onChain[n]
  PROVE  /\ NamesOn(onChain, set) => NamesOn(later, set)
         /\ MadeOn(onChain, r, set) => MadeOn(later, r, set)
  BY DEF NamesOn, MadeOn

LEMMA SetOfRun ==
  ASSUME NEW onChain, NEW r \in DeployRuns, NEW made, Len(made) = Parts, MadeOn(onChain, r, made)
  PROVE  NamesOn(onChain, made)
  BY DEF NamesOn, MadeOn

LEMMA Grows ==
  ASSUME mined \in Seq(Mineable), NEW tx \in Mineable
  PROVE  /\ Append(mined, tx) \in Seq(Mineable)
         /\ \A n \in DOMAIN mined :
              n \in DOMAIN Append(mined, tx) /\ Append(mined, tx)[n] = mined[n]
  OBVIOUS

\* A run that goes on to another stage, with what it has.
LEMMA Goes ==
  ASSUME NEW old \in [DeployRuns -> ScriptRows], NEW r \in DeployRuns, NEW at \in Stages
  PROVE  LET new == [old EXCEPT ![r].at = at]
         IN  /\ new \in [DeployRuns -> ScriptRows]
             /\ new[r].at = at /\ new[r].made = old[r].made /\ new[r].read = old[r].read
             /\ \A q \in DeployRuns \ {r} : new[q] = old[q]
  BY DEF ScriptRows

\* One run moves, and the chain, the files and the settings stay.
LEMMA RunMoves ==
  ASSUME SetsIInv, NEW r \in DeployRuns, script' \in [DeployRuns -> ScriptRows],
         \A q \in DeployRuns \ {r} : script'[q] = script[q],
         RunIsSound(mined, r, script'[r]), UNCHANGED mined,
         pool' \subseteq [nonce : Nat, tx : Mineable],
         file' \in Written /\ NamesOn(mined, file'),
         fragment' \in Written /\ NamesOn(mined, fragment'),
         env' \in [Targets -> [others : BOOLEAN, set : Written]],
         \A t \in Targets : NamesOn(mined, env'[t].set)
  PROVE  SetsIInv'
  <1>1. \A q \in DeployRuns : RunIsSound(mined, q, script'[q])
    BY DEF SetsIInv
  <1>2. QED
    BY <1>1 DEF SetsIInv

LEMMA SetsStep ==
  ASSUME SetsIInv, [DeployerNext]_deployerVars
  PROVE  SetsIInv'
  <1>1. /\ mined \in Seq(Mineable) /\ pool \subseteq [nonce : Nat, tx : Mineable]
        /\ script \in [DeployRuns -> ScriptRows]
        /\ \A r \in DeployRuns : RunIsSound(mined, r, script[r])
        /\ file \in Written /\ NamesOn(mined, file)
        /\ fragment \in Written /\ NamesOn(mined, fragment)
        /\ env \in [Targets -> [others : BOOLEAN, set : Written]]
        /\ \A t \in Targets : NamesOn(mined, env[t].set)
    BY DEF SetsIInv
  <1>2. CASE Mine
    <2>1. PICK t \in pool :
            mined' = Append(mined, t.tx) /\ pool' = {u \in pool : u.nonce # t.nonce}
              /\ UNCHANGED <<file, server, script>>
      BY <1>2 DEF Mine
    <2>2. UNCHANGED <<file, fragment, env, script>> /\ t.tx \in Mineable
      BY <1>1, <2>1 DEF server
    <2>3. /\ mined' \in Seq(Mineable)
          /\ \A n \in DOMAIN mined : n \in DOMAIN mined' /\ mined'[n] = mined[n]
      BY <1>1, <2>1, <2>2, Grows
    <2>4. \A set : NamesOn(mined, set) => NamesOn(mined', set)
      BY <2>3, NamesStay
    <2>5. \A r, made : MadeOn(mined, r, made) => MadeOn(mined', r, made)
      BY <2>3, NamesStay
    <2>6. \A r \in DeployRuns : RunIsSound(mined', r, script'[r])
      BY <1>1, <2>2, <2>4, <2>5 DEF RunIsSound
    <2>7. pool' \subseteq [nonce : Nat, tx : Mineable]
      BY <1>1, <2>1
    <2>8. QED
      BY <1>1, <2>2, <2>3, <2>4, <2>6, <2>7 DEF SetsIInv
  <1>3. ASSUME NEW r \in DeployRuns, DeployStep(r) PROVE SetsIInv'
    <2> DEFINE row == script[r]
    <2>1. row \in ScriptRows /\ RunIsSound(mined, r, row)
      BY <1>1
    <2>2. row.made \in Seq(Nat) /\ row.read \in Written /\ row.target \in Targets /\ row.nonce \in Nat
            /\ row.kept \in BOOLEAN /\ Len(row.made) \in Nat
      BY <2>1 DEF ScriptRows
    \* The run goes on and only its stage changes.
    <2>3. ASSUME NEW at \in Stages, Go(r, at)
          PROVE  /\ script' \in [DeployRuns -> ScriptRows]
                 /\ \A q \in DeployRuns \ {r} : script'[q] = script[q]
                 /\ script'[r].at = at /\ script'[r].made = row.made /\ script'[r].read = row.read
      BY <1>1, <2>3, Goes DEF Go
    <2>4. \A at \in {"dead", "done", "carry", "merge", "clear", "check", "create", "receipt", "open",
                    "close", "copy", "empty", "fill", "unlink"} : at \in Stages
      BY DEF Stages, Ends
    <2> HIDE DEF row
    <2>5. ASSUME NEW mode \in Modes, StartDeploy(r, mode) PROVE SetsIInv'
      <3>1. PICK at \in {"clear", "create"} :
              script' = [script EXCEPT ![r].mode = mode, ![r].at = at]
        BY <2>5 DEF StartDeploy
      <3>2. row.at = "ready" /\ UNCHANGED <<mined, pool, file, fragment, env>>
        BY <2>5 DEF StartDeploy, At, chain, server, row
      <3>3. at \in Stages
        BY <2>4
      <3>4. /\ script' \in [DeployRuns -> ScriptRows]
            /\ \A q \in DeployRuns \ {r} : script'[q] = script[q]
            /\ script'[r].at = at /\ script'[r].made = row.made
        BY <1>1, <3>1, <3>3, ZenonT(40) DEF ScriptRows, row
      <3>5. RunIsSound(mined, r, script'[r])
        <4>1. script'[r].at = "clear" \/ script'[r].at = "create"
          BY <3>1, <3>4
        <4>2. QED
          BY <2>1, <3>2, <3>4, <4>1 DEF RunIsSound
      <3>6. QED
        BY <1>1, <3>2, <3>4, <3>5, RunMoves
    <2>6. CASE ClearPool(r)
      <3>1. PICK stuck \in SUBSET pool :
              pool' = (pool \ stuck) \cup
                {[nonce |-> t.nonce, tx |-> [kind |-> Cancelled, run |-> r]] : t \in stuck}
        BY <2>6 DEF ClearPool
      <3>2. row.at = "clear" /\ Go(r, "check") /\ UNCHANGED <<mined, file, fragment, env>>
        BY <2>6 DEF ClearPool, At, server, row
      <3>3. pool' \subseteq [nonce : Nat, tx : Mineable]
        <4>1. [kind |-> Cancelled, run |-> r] \in Mineable
          BY DEF Cancelled, Mineable
        <4>2. \A t \in stuck :
                [nonce |-> t.nonce, tx |-> [kind |-> Cancelled, run |-> r]] \in [nonce : Nat, tx : Mineable]
          BY <1>1, <4>1
        <4>3. QED
          BY <1>1, <3>1, <4>2
      <3>4. /\ script' \in [DeployRuns -> ScriptRows]
            /\ \A q \in DeployRuns \ {r} : script'[q] = script[q]
            /\ script'[r].at = "check" /\ script'[r].made = row.made
        BY <2>3, <2>4, <3>2
      <3>5. RunIsSound(mined, r, script'[r])
        BY <2>1, <3>2, <3>4 DEF RunIsSound
      <3>6. QED
        BY <1>1, <3>2, <3>3, <3>4, <3>5, RunMoves
    <2>7. CASE CheckFile(r)
      <3>1. PICK at \in {"create", "dead", "done"} : Go(r, at)
        BY <2>7 DEF CheckFile
      <3>2. row.at = "check" /\ UNCHANGED <<mined, pool, file, fragment, env>>
        BY <2>7 DEF CheckFile, At, chain, server, row
      <3>3. /\ script' \in [DeployRuns -> ScriptRows]
            /\ \A q \in DeployRuns \ {r} : script'[q] = script[q]
            /\ script'[r].at = at /\ script'[r].made = row.made
        BY <2>3, <2>4, <3>1
      <3>4. RunIsSound(mined, r, script'[r])
        BY <2>1, <3>2, <3>3 DEF RunIsSound
      <3>5. QED
        BY <1>1, <3>2, <3>3, <3>4, RunMoves
    <2>8. CASE SendPart(r)
      <3>1. PICK n \in NextNonces :
              Deploy(r, n) /\ script' = [script EXCEPT ![r].at = "receipt", ![r].nonce = n]
        BY <2>8 DEF SendPart
      <3>2. row.at = "create" /\ UNCHANGED <<mined, file, fragment, env>>
        BY <2>8 DEF SendPart, At, server, row
      <3>3. n \in Nat
        <4>1. Cardinality(DeployRuns) * Parts \in Nat
          BY DeployerAssumption, FS_CardinalityType
        <4>2. QED
          BY <4>1 DEF NextNonces, Nonces
      <3>4. pool' \subseteq [nonce : Nat, tx : Mineable]
        <4>1. [kind |-> Len(row.made) + 1, run |-> r] \in Mineable
          BY <2>2 DEF Mineable
        <4>2. [nonce |-> n, tx |-> [kind |-> Len(row.made) + 1, run |-> r]]
                \in [nonce : Nat, tx : Mineable]
          BY <3>3, <4>1
        <4>3. QED
          BY <1>1, <3>1, <4>2 DEF Deploy, row
      <3>5. /\ script' \in [DeployRuns -> ScriptRows]
            /\ \A q \in DeployRuns \ {r} : script'[q] = script[q]
            /\ script'[r].at = "receipt" /\ script'[r].made = row.made
        BY <1>1, <2>4, <3>1, <3>3, ZenonT(40) DEF ScriptRows, row
      <3>6. RunIsSound(mined, r, script'[r])
        BY <2>1, <3>2, <3>5 DEF RunIsSound
      <3>7. QED
        BY <1>1, <3>2, <3>4, <3>5, <3>6, RunMoves
    <2>9. CASE PartReceipt(r)
      <3> DEFINE n == row.nonce
                 at == AfterPart(r)
                 made == Append(row.made, n)
      <3>1. /\ row.at = "receipt" /\ n \in DOMAIN mined
            /\ mined[n] = [kind |-> Len(row.made) + 1, run |-> r]
            /\ script' = [script EXCEPT ![r].at = at, ![r].made = made]
            /\ UNCHANGED <<mined, pool, file, fragment, env>>
        BY <2>9 DEF PartReceipt, Contract, At, chain, server, row
      <3>2. at = IF Len(row.made) + 1 = Parts THEN "open" ELSE "create"
        BY DEF AfterPart, row
      <3>3. /\ made \in Seq(Nat) /\ Len(made) = Len(row.made) + 1
            /\ made[Len(row.made) + 1] = n /\ \A k \in 1..Len(row.made) : made[k] = row.made[k]
        BY <2>2
      <3>4. at \in Stages
        BY <2>4, <3>2
      <3> HIDE DEF n, at, made
      <3>5. /\ script' \in [DeployRuns -> ScriptRows]
            /\ \A q \in DeployRuns \ {r} : script'[q] = script[q]
            /\ script'[r].at = at /\ script'[r].made = made
        BY <1>1, <3>1, <3>3, <3>4 DEF ScriptRows, row
      <3>6. MadeOn(mined, r, made)
        <4>1. \A k \in 1..Len(made) : k \in 1..Len(row.made) \/ k = Len(row.made) + 1
          BY <2>2, <3>3
        <4>2. MadeOn(mined, r, row.made)
          BY <2>1 DEF RunIsSound
        <4>3. QED
          BY <3>1, <3>3, <4>1, <4>2 DEF MadeOn
      <3>7. at = "create" => Len(made) < Parts
        <4>1. Len(row.made) < Parts
          BY <2>1, <3>1 DEF RunIsSound
        <4>2. QED
          BY <2>2, <3>2, <3>3, <4>1, PartsIs
      <3>8. at = "open" => Len(made) = Parts
        BY <3>2, <3>3
      <3>9. at \in {"open", "create"}
        BY <3>2
      <3>10. RunIsSound(mined, r, script'[r])
        BY <3>5, <3>6, <3>7, <3>8, <3>9 DEF RunIsSound
      <3>11. QED
        BY <1>1, <3>1, <3>5, <3>10, RunMoves
    <2>10. CASE OpenFile(r)
      <3>1. /\ row.at = "open" /\ Go(r, "close") /\ file' = Torn
            /\ UNCHANGED <<mined, pool, fragment, env>>
        BY <2>10 DEF OpenFile, At, chain, server, row
      <3>2. /\ script' \in [DeployRuns -> ScriptRows]
            /\ \A q \in DeployRuns \ {r} : script'[q] = script[q]
            /\ script'[r].at = "close" /\ script'[r].made = row.made
        BY <2>3, <2>4, <3>1
      <3>3. RunIsSound(mined, r, script'[r])
        BY <2>1, <3>1, <3>2 DEF RunIsSound
      <3>4. file' \in Written /\ NamesOn(mined, file')
        BY <3>1 DEF Written, NamesOn
      <3>5. QED
        BY <1>1, <3>1, <3>2, <3>3, <3>4, RunMoves
    <2>11. CASE CloseFile(r)
      <3>1. PICK at \in {"carry", "done"} : Go(r, at)
        BY <2>11 DEF CloseFile
      <3>2. row.at = "close" /\ file' = row.made /\ UNCHANGED <<mined, pool, fragment, env>>
        BY <2>11 DEF CloseFile, At, chain, server, row
      <3>3. /\ script' \in [DeployRuns -> ScriptRows]
            /\ \A q \in DeployRuns \ {r} : script'[q] = script[q]
            /\ script'[r].at = at /\ script'[r].made = row.made
        BY <2>3, <2>4, <3>1
      <3>4. RunIsSound(mined, r, script'[r])
        BY <2>1, <3>2, <3>3 DEF RunIsSound
      <3>5. file' \in Written
        BY <2>2, <3>2 DEF Written
      <3>6. NamesOn(mined, file')
        BY <2>1, <3>2, SetOfRun DEF RunIsSound
      <3>7. QED
        BY <1>1, <3>2, <3>3, <3>4, <3>5, <3>6, RunMoves
    <2>12. CASE Carry(r)
      <3>1. /\ row.at = "carry" /\ Go(r, "merge") /\ fragment' = file
            /\ UNCHANGED <<mined, pool, file, env>>
        BY <2>12 DEF Carry, At, chain, row
      <3>2. /\ script' \in [DeployRuns -> ScriptRows]
            /\ \A q \in DeployRuns \ {r} : script'[q] = script[q]
            /\ script'[r].at = "merge" /\ script'[r].made = row.made
        BY <2>3, <2>4, <3>1
      <3>3. RunIsSound(mined, r, script'[r])
        BY <2>1, <3>2 DEF RunIsSound
      <3>4. QED
        BY <1>1, <3>1, <3>2, <3>3, RunMoves
    <2>13. CASE Merge(r)
      <3>1. /\ script' = [script EXCEPT ![r].at = "copy", ![r].read = fragment, ![r].target = 1]
            /\ UNCHANGED <<mined, pool, file, fragment, env>>
        BY <2>13 DEF Merge, chain, server
      <3>2. 1 \in Targets
        BY FirstTarget
      <3>3. /\ script' \in [DeployRuns -> ScriptRows]
            /\ \A q \in DeployRuns \ {r} : script'[q] = script[q]
            /\ script'[r].at = "copy" /\ script'[r].made = row.made /\ script'[r].read = fragment
        BY <1>1, <2>4, <3>1, <3>2, ZenonT(40) DEF ScriptRows, row
      <3>4. RunIsSound(mined, r, script'[r])
        BY <1>1, <2>1, <3>3 DEF RunIsSound
      <3>5. QED
        BY <1>1, <3>1, <3>3, <3>4, RunMoves
    <2>14. CASE CopyEnv(r)
      <3>1. /\ row.at = "copy"
            /\ script' = [script EXCEPT ![r].at = "empty", ![r].kept = env[row.target].others]
            /\ UNCHANGED <<mined, pool, file, fragment, env>>
        BY <2>14 DEF CopyEnv, At, chain, row
      <3>2. env[row.target].others \in BOOLEAN
        BY <1>1, <2>2
      <3>3. /\ script' \in [DeployRuns -> ScriptRows]
            /\ \A q \in DeployRuns \ {r} : script'[q] = script[q]
            /\ script'[r].at = "empty" /\ script'[r].made = row.made /\ script'[r].read = row.read
        BY <1>1, <2>4, <3>1, <3>2, ZenonT(40) DEF ScriptRows, row
      <3>4. RunIsSound(mined, r, script'[r])
        BY <2>1, <3>1, <3>3 DEF RunIsSound
      <3>5. QED
        BY <1>1, <3>1, <3>3, <3>4, RunMoves
    <2>15. CASE TearCopy(r) \/ Die(r)
      <3>1. Go(r, "dead") /\ UNCHANGED <<mined, pool, file, fragment, env>>
        BY <2>15 DEF TearCopy, Die, chain, server
      <3>2. /\ script' \in [DeployRuns -> ScriptRows]
            /\ \A q \in DeployRuns \ {r} : script'[q] = script[q]
            /\ script'[r].at = "dead" /\ script'[r].made = row.made
        BY <2>3, <2>4, <3>1
      <3>3. RunIsSound(mined, r, script'[r])
        BY <2>1, <3>2 DEF RunIsSound
      <3>4. QED
        BY <1>1, <3>1, <3>2, <3>3, RunMoves
    <2>16. CASE EmptyEnv(r)
      <3>1. /\ row.at = "empty" /\ Go(r, "fill")
            /\ env' = [env EXCEPT ![row.target] = EmptyFile]
            /\ UNCHANGED <<mined, pool, file, fragment>>
        BY <2>16 DEF EmptyEnv, At, chain, row
      <3>2. /\ script' \in [DeployRuns -> ScriptRows]
            /\ \A q \in DeployRuns \ {r} : script'[q] = script[q]
            /\ script'[r].at = "fill" /\ script'[r].made = row.made /\ script'[r].read = row.read
        BY <2>3, <2>4, <3>1
      <3>3. RunIsSound(mined, r, script'[r])
        BY <2>1, <3>1, <3>2 DEF RunIsSound
      <3>4. EmptyFile \in [others : BOOLEAN, set : Written] /\ NamesOn(mined, EmptyFile.set)
        BY DEF EmptyFile, Written, NamesOn
      <3>5. env' \in [Targets -> [others : BOOLEAN, set : Written]]
              /\ \A t \in Targets : NamesOn(mined, env'[t].set)
        BY <1>1, <3>1, <3>4
      <3>6. QED
        BY <1>1, <3>1, <3>2, <3>3, <3>5, RunMoves
    <2>17. CASE FillEnv(r)
      <3>1. /\ row.at = "fill"
            /\ env' = [env EXCEPT ![row.target] = [others |-> row.kept, set |-> row.read]]
            /\ UNCHANGED <<mined, pool, file, fragment>>
        BY <2>17 DEF FillEnv, At, chain, row
      <3>2. NamesOn(mined, row.read)
        BY <2>1, <3>1 DEF RunIsSound
      <3>3. env' \in [Targets -> [others : BOOLEAN, set : Written]]
              /\ \A t \in Targets : NamesOn(mined, env'[t].set)
        BY <1>1, <2>2, <3>1, <3>2
      <3>4. /\ script' \in [DeployRuns -> ScriptRows]
            /\ \A q \in DeployRuns \ {r} : script'[q] = script[q]
            /\ script'[r].at \in {"copy", "unlink"} /\ script'[r].made = row.made
            /\ script'[r].read = row.read
        <4>1. CASE row.target + 1 \in Targets
          <5> DEFINE next == row.target + 1
          <5>1. script' = [script EXCEPT ![r].at = "copy", ![r].target = next] /\ next \in Targets
            BY <2>17, <4>1 DEF FillEnv, row
          <5> HIDE DEF next
          <5>2. QED
            BY <1>1, <2>4, <5>1 DEF ScriptRows, row
        <4>2. CASE row.target + 1 \notin Targets
          <5>1. Go(r, "unlink")
            BY <2>17, <4>2 DEF FillEnv, Go, row
          <5>2. QED
            BY <2>3, <2>4, <5>1
        <4>3. QED
          BY <4>1, <4>2
      <3>5. RunIsSound(mined, r, script'[r])
        BY <2>1, <3>1, <3>4 DEF RunIsSound
      <3>6. QED
        BY <1>1, <3>1, <3>3, <3>4, <3>5, RunMoves
    <2>18. CASE Unlink(r)
      <3>1. PICK at \in {"dead", "done"} : Go(r, at)
        BY <2>18 DEF Unlink
      <3>2. fragment' = NoFile /\ UNCHANGED <<mined, pool, file, env>>
        BY <2>18 DEF Unlink, chain
      <3>3. /\ script' \in [DeployRuns -> ScriptRows]
            /\ \A q \in DeployRuns \ {r} : script'[q] = script[q]
            /\ script'[r].at = at /\ script'[r].made = row.made
        BY <2>3, <2>4, <3>1
      <3>4. RunIsSound(mined, r, script'[r])
        BY <2>1, <3>3 DEF RunIsSound
      <3>5. fragment' \in Written /\ NamesOn(mined, fragment')
        BY <3>2 DEF Written, NamesOn
      <3>6. QED
        BY <1>1, <3>2, <3>3, <3>4, <3>5, RunMoves
    <2>19. QED
      BY <1>3, <2>5, <2>6, <2>7, <2>8, <2>9, <2>10, <2>11, <2>12, <2>13, <2>14, <2>15, <2>16, <2>17,
         <2>18 DEF DeployStep
  <1>4. CASE UNCHANGED deployerVars
    BY <1>4 DEF deployerVars, SetsIInv
  <1>5. QED
    BY <1>2, <1>3, <1>4 DEF DeployerNext

LEMMA SetsHold ==
  /\ DeployerInit => SetsIInv
  /\ SetsIInv => NamesOneLiveSet
  <1>1. ASSUME DeployerInit PROVE SetsIInv
    <2>1. <<>> \in Seq(Mineable) /\ Len(<<>>) = 0 /\ <<>> \in Seq(Nat) /\ 1 \in Targets
      BY FirstTarget
    <2>2. NoFile \in Written /\ \A onChain : NamesOn(onChain, NoFile) /\ NamesOn(onChain, Old)
      BY DEF Written, NamesOn
    <2>3. \A r \in DeployRuns :
            script[r] \in ScriptRows /\ script[r].at = "ready" /\ script[r].made = <<>>
      BY <1>1, <2>1, <2>2 DEF DeployerInit, ScriptRows, Modes, Stages
    <2>4. \A r \in DeployRuns : RunIsSound(mined, r, script[r])
      <3>1. \A onChain, r : MadeOn(onChain, r, <<>>)
        BY <2>1 DEF MadeOn
      <3>2. QED
        BY <2>1, <2>3, <3>1, PartsIs DEF RunIsSound
    <2>5. script \in [DeployRuns -> ScriptRows] /\ mined \in Seq(Mineable) /\ pool = {}
            /\ file \in Written /\ NamesOn(mined, file)
            /\ fragment \in Written /\ NamesOn(mined, fragment)
      BY <1>1, <2>1, <2>2, <2>3, PartsIs DEF DeployerInit
    <2>6. env \in [Targets -> [others : BOOLEAN, set : Written]]
            /\ \A t \in Targets : NamesOn(mined, env[t].set)
      BY <1>1, <2>2 DEF DeployerInit
    <2>7. QED
      BY <2>4, <2>5, <2>6 DEF SetsIInv
  <1>2. SetsIInv => NamesOneLiveSet
    BY DEF SetsIInv, NamesOn, NamesOneLiveSet
  <1>3. QED
    BY <1>1, <1>2

-----------------------------------------------------------------------------
(* The settings of the server. *)

\* A merge knows the other settings of the file it has in hand, and so does the copy.
HandOf(t, row) ==
  row.at \in {"empty", "fill"} /\ row.target = t

SurvivalIInv ==
  /\ backup \in [Targets -> [others : BOOLEAN, set : Written]]
  /\ SettingsSurvive
  /\ \A t \in Targets \ risked, r \in DeployRuns :
       HandOf(t, script[r]) => script[r].kept /\ backup[t].others

\* What a step must keep for each file.
LEMMA FilesSurvive ==
  ASSUME backup' \in [Targets -> [others : BOOLEAN, set : Written]],
         \A t \in Targets : t \notin risked' =>
           /\ env'[t].others \/ backup'[t].others
           /\ \A r \in DeployRuns : HandOf(t, script'[r]) => script'[r].kept /\ backup'[t].others
  PROVE  SurvivalIInv'
  BY DEF SurvivalIInv, SettingsSurvive

LEMMA SurvivalStep ==
  ASSUME SetsIInv, SurvivalIInv, [DeployerNext]_deployerVars
  PROVE  SurvivalIInv'
  <1>1. /\ script \in [DeployRuns -> ScriptRows]
        /\ env \in [Targets -> [others : BOOLEAN, set : Written]]
        /\ backup \in [Targets -> [others : BOOLEAN, set : Written]]
    BY DEF SetsIInv, SurvivalIInv
  <1>2. \A t \in Targets : t \notin risked =>
          /\ env[t].others \/ backup[t].others
          /\ \A r \in DeployRuns : HandOf(t, script[r]) => script[r].kept /\ backup[t].others
    BY DEF SurvivalIInv, SettingsSurvive
  \* The run of a step that leaves the settings alone is not at work on a file.
  <1>3. ASSUME NEW r \in DeployRuns, UNCHANGED <<env, backup, risked>>,
               \A q \in DeployRuns \ {r} : script'[q] = script[q],
               \A t \in Targets : ~HandOf(t, script'[r])
        PROVE  SurvivalIInv'
    <2>1. \A q \in DeployRuns, t \in Targets : HandOf(t, script'[q]) => script'[q] = script[q]
      BY <1>3
    <2>2. QED
      BY <1>1, <1>2, <1>3, <2>1, FilesSurvive
  <1>4. ASSUME NEW r \in DeployRuns, DeployStep(r) PROVE SurvivalIInv'
    <2> DEFINE row == script[r]
               t == row.target
    <2>1. row \in ScriptRows /\ t \in Targets
      BY <1>1 DEF ScriptRows
    <2>2. ASSUME NEW at \in Stages, Go(r, at)
          PROVE  /\ \A q \in DeployRuns \ {r} : script'[q] = script[q]
                 /\ script'[r].at = at /\ script'[r].target = t /\ script'[r].kept = row.kept
      BY <1>1, <2>2 DEF Go, ScriptRows
    <2>3. {"dead", "done", "carry", "merge", "clear", "check", "create", "receipt", "open",
           "close", "copy", "empty", "fill", "unlink"} \subseteq Stages
      BY DEF Stages, Ends
    <2>4. CASE /\ UNCHANGED <<env, backup, risked>>
               /\ \A q \in DeployRuns \ {r} : script'[q] = script[q]
               /\ script'[r].at \notin {"empty", "fill"}
      BY <1>3, <2>4 DEF HandOf
    <2>5. ASSUME NEW mode \in Modes, StartDeploy(r, mode) PROVE SurvivalIInv'
      <3>1. PICK at \in {"clear", "create"} :
              script' = [script EXCEPT ![r].mode = mode, ![r].at = at]
        BY <2>5 DEF StartDeploy
      <3>2. /\ \A q \in DeployRuns \ {r} : script'[q] = script[q]
            /\ script'[r].at = at
        BY <1>1, <3>1 DEF ScriptRows
      <3>3. script'[r].at \notin {"empty", "fill"}
        BY <3>1, <3>2
      <3>4. QED
        BY <2>4, <2>5, <3>2, <3>3 DEF StartDeploy, server
    <2>6. CASE ClearPool(r) \/ CheckFile(r) \/ OpenFile(r) \/ CloseFile(r) \/ Carry(r)
               \/ Unlink(r) \/ Die(r)
      <3>1. UNCHANGED <<env, backup, risked>>
        BY <2>6 DEF ClearPool, CheckFile, OpenFile, CloseFile, Carry, Unlink, Die, server
      <3>2. \E at \in {"check", "dead", "done", "create", "close", "carry", "merge"} : Go(r, at)
        BY <2>6 DEF ClearPool, CheckFile, OpenFile, CloseFile, Carry, Unlink, Die
      <3>3. PICK at \in {"check", "dead", "done", "create", "close", "carry", "merge"} : Go(r, at)
        BY <3>2
      <3>4. at \in Stages /\ at \notin {"empty", "fill"}
        BY <2>3
      <3>5. QED
        BY <2>2, <2>4, <3>1, <3>3, <3>4
    <2>7. CASE SendPart(r)
      <3>1. PICK n \in NextNonces : script' = [script EXCEPT ![r].at = "receipt", ![r].nonce = n]
        BY <2>7 DEF SendPart
      <3>2. /\ \A q \in DeployRuns \ {r} : script'[q] = script[q]
            /\ script'[r].at = "receipt"
        BY <1>1, <3>1 DEF ScriptRows
      <3>3. QED
        BY <2>4, <2>7, <3>2 DEF SendPart, server
    <2>8. CASE PartReceipt(r)
      <3> DEFINE at == AfterPart(r)
                 made == Append(row.made, row.nonce)
      <3>1. script' = [script EXCEPT ![r].at = at, ![r].made = made]
        BY <2>8 DEF PartReceipt
      <3>2. at \in {"open", "create"}
        BY DEF AfterPart
      <3> HIDE DEF at, made
      <3>3. /\ \A q \in DeployRuns \ {r} : script'[q] = script[q]
            /\ script'[r].at = at
        BY <1>1, <3>1 DEF ScriptRows
      <3>4. QED
        BY <2>4, <2>8, <3>2, <3>3 DEF PartReceipt, server
    <2>9. CASE Merge(r)
      <3>1. script' = [script EXCEPT ![r].at = "copy", ![r].read = fragment, ![r].target = 1]
        BY <2>9 DEF Merge
      <3>2. /\ \A q \in DeployRuns \ {r} : script'[q] = script[q]
            /\ script'[r].at = "copy"
        BY <1>1, <3>1 DEF ScriptRows
      <3>3. QED
        BY <2>4, <2>9, <3>2 DEF Merge, server
    \* A copy is a risk, or nobody else has its file in hand and the file is whole.
    <2>10. t \notin risked \cup Risky(r) =>
             /\ env[t].others
             /\ \A q \in DeployRuns \ {r} : ~HandOf(t, script[q])
      BY DEF Risky, HandOf
    <2>11. CASE CopyEnv(r)
      <3> DEFINE kept == env[t].others
      <3>1. /\ script' = [script EXCEPT ![r].at = "empty", ![r].kept = kept]
            /\ risked' = risked \cup Risky(r) /\ backup' = [backup EXCEPT ![t] = env[t]]
            /\ UNCHANGED env
        BY <2>11 DEF CopyEnv
      <3>2. backup' \in [Targets -> [others : BOOLEAN, set : Written]]
        BY <1>1, <2>1, <3>1
      <3>3. kept = TRUE \/ kept = FALSE
        BY <1>1, <2>1
      <3>4. env[t].others <=> kept
        OBVIOUS
      <3> HIDE DEF kept
      <3>5. /\ \A q \in DeployRuns \ {r} : script'[q] = script[q]
            /\ script'[r].at = "empty" /\ script'[r].target = t /\ script'[r].kept = kept
        BY <1>1, <3>1 DEF ScriptRows
      <3>6. ASSUME NEW u \in Targets, u \notin risked'
            PROVE  /\ env'[u].others \/ backup'[u].others
                   /\ \A q \in DeployRuns :
                        HandOf(u, script'[q]) => script'[q].kept /\ backup'[u].others
        <4>1. CASE u = t
          <5>1. env[t].others /\ \A q \in DeployRuns \ {r} : ~HandOf(t, script[q])
            BY <2>10, <3>1, <3>6, <4>1
          <5>2. backup'[t] = env[t]
            BY <1>1, <2>1, <3>1
          <5>3. QED
            BY <3>1, <3>4, <3>5, <4>1, <5>1, <5>2
        <4>2. CASE u # t
          <5>1. backup'[u] = backup[u] /\ u \notin risked /\ ~HandOf(u, script'[r])
            BY <1>1, <3>1, <3>5, <3>6, <4>2 DEF HandOf
          <5>2. QED
            BY <1>2, <3>1, <3>5, <5>1
        <4>3. QED
          BY <4>1, <4>2
      <3>7. QED
        BY <3>2, <3>6, FilesSurvive
    <2>12. CASE TearCopy(r)
      <3>1. /\ Go(r, "dead") /\ risked' = risked \cup Risky(r)
            /\ backup' = [backup EXCEPT ![t] = EmptyFile] /\ UNCHANGED env
        BY <2>12 DEF TearCopy
      <3>2. backup' \in [Targets -> [others : BOOLEAN, set : Written]]
        BY <1>1, <2>1, <3>1 DEF EmptyFile, Written
      <3>3. /\ \A q \in DeployRuns \ {r} : script'[q] = script[q]
            /\ script'[r].at = "dead"
        BY <2>2, <2>3, <3>1
      <3>4. ASSUME NEW u \in Targets, u \notin risked'
            PROVE  /\ env'[u].others \/ backup'[u].others
                   /\ \A q \in DeployRuns :
                        HandOf(u, script'[q]) => script'[q].kept /\ backup'[u].others
        <4>1. ~HandOf(u, script'[r])
          BY <3>3 DEF HandOf
        <4>2. CASE u = t
          <5>1. env[t].others /\ \A q \in DeployRuns \ {r} : ~HandOf(t, script[q])
            BY <2>10, <3>1, <3>4, <4>2
          <5>2. QED
            BY <3>1, <3>3, <4>1, <4>2, <5>1
        <4>3. CASE u # t
          <5>1. backup'[u] = backup[u] /\ u \notin risked
            BY <1>1, <3>1, <3>4, <4>3
          <5>2. QED
            BY <1>2, <3>1, <3>3, <4>1, <5>1
        <4>4. QED
          BY <4>2, <4>3
      <3>5. QED
        BY <3>2, <3>4, FilesSurvive
    <2>13. CASE EmptyEnv(r)
      <3>1. /\ row.at = "empty" /\ Go(r, "fill") /\ env' = [env EXCEPT ![t] = EmptyFile]
            /\ UNCHANGED <<backup, risked>>
        BY <2>13 DEF EmptyEnv, At
      <3>2. /\ \A q \in DeployRuns \ {r} : script'[q] = script[q]
            /\ script'[r].at = "fill" /\ script'[r].target = t /\ script'[r].kept = row.kept
        BY <2>2, <2>3, <3>1
      <3>3. \A u \in Targets, q \in DeployRuns :
              /\ HandOf(u, script'[q]) <=> HandOf(u, script[q])
              /\ script'[q].kept = script[q].kept
        BY <3>1, <3>2 DEF HandOf
      <3>4. ASSUME NEW u \in Targets, u \notin risked'
            PROVE  env'[u].others \/ backup'[u].others
        <4>1. CASE u = t
          BY <1>2, <3>1, <3>4, <4>1 DEF HandOf
        <4>2. CASE u # t
          BY <1>1, <1>2, <3>1, <3>4, <4>2
        <4>3. QED
          BY <4>1, <4>2
      <3> HIDE DEF row, t
      <3>5. QED
        BY <1>1, <1>2, <3>1, <3>3, <3>4, FilesSurvive
    <2>14. CASE FillEnv(r)
      <3>1. /\ row.at = "fill" /\ env' = [env EXCEPT ![t] = [others |-> row.kept, set |-> row.read]]
            /\ UNCHANGED <<backup, risked>>
        BY <2>14 DEF FillEnv, At
      <3>2. /\ \A q \in DeployRuns \ {r} : script'[q] = script[q]
            /\ script'[r].at \in {"copy", "unlink"}
        <4>1. CASE t + 1 \in Targets
          <5> DEFINE next == t + 1
          <5>1. script' = [script EXCEPT ![r].at = "copy", ![r].target = next]
            BY <2>14, <4>1 DEF FillEnv
          <5> HIDE DEF next
          <5>2. QED
            BY <1>1, <5>1 DEF ScriptRows
        <4>2. CASE t + 1 \notin Targets
          <5>1. script' = [script EXCEPT ![r].at = "unlink"]
            BY <2>14, <4>2 DEF FillEnv
          <5>2. QED
            BY <1>1, <5>1 DEF ScriptRows
        <4>3. QED
          BY <4>1, <4>2
      <3>3. \A u \in Targets, q \in DeployRuns :
              HandOf(u, script'[q]) => HandOf(u, script[q]) /\ script'[q].kept = script[q].kept
        BY <3>2 DEF HandOf
      <3>4. ASSUME NEW u \in Targets, u \notin risked'
            PROVE  env'[u].others \/ backup'[u].others
        <4>1. CASE u = t
          BY <1>2, <3>1, <3>4, <4>1 DEF HandOf
        <4>2. CASE u # t
          BY <1>1, <1>2, <3>1, <3>4, <4>2
        <4>3. QED
          BY <4>1, <4>2
      <3> HIDE DEF row, t
      <3>5. QED
        BY <1>1, <1>2, <3>1, <3>3, <3>4, FilesSurvive
    <2>15. QED
      BY <1>4, <2>5, <2>6, <2>7, <2>8, <2>9, <2>11, <2>12, <2>13, <2>14 DEF DeployStep
  <1>5. CASE Mine \/ UNCHANGED deployerVars
    <2>1. UNCHANGED <<env, backup, risked, script>>
      BY <1>5 DEF Mine, deployerVars, server
    <2>2. QED
      BY <2>1 DEF SurvivalIInv, SettingsSurvive
  <1>6. QED
    BY <1>4, <1>5 DEF DeployerNext

LEMMA SurvivalHolds ==
  /\ DeployerInit => SurvivalIInv
  /\ SurvivalIInv => SettingsSurvive
  <1>1. ASSUME DeployerInit PROVE SurvivalIInv
    <2>1. EmptyFile \in [others : BOOLEAN, set : Written]
      BY DEF EmptyFile, Written
    <2>2. backup \in [Targets -> [others : BOOLEAN, set : Written]]
      BY <1>1, <2>1 DEF DeployerInit
    <2>3. /\ \A t \in Targets : env[t].others
          /\ \A r \in DeployRuns, t \in Targets : ~HandOf(t, script[r])
      BY <1>1 DEF DeployerInit, HandOf
    <2>4. QED
      BY <2>2, <2>3 DEF SurvivalIInv, SettingsSurvive
  <1>2. QED
    BY <1>1 DEF SurvivalIInv

\* The addresses that the file and the settings name are those of one whole set on the
\* chain, however runs of the scripts overlap and die.
THEOREM SettingsNameALiveSet == Spec => []NamesOneLiveSet
  <1>1. Init => SetsIInv
    BY SetsHold DEF Init
  <1>2. SetsIInv /\ [Next]_vars => SetsIInv'
    BY LaneSteps, SetsStep
  <1>3. SetsIInv => NamesOneLiveSet
    BY SetsHold
  <1>4. QED
    BY <1>1, <1>2, <1>3, PTL DEF Spec

\* The other settings of a server outlive every merge that no other one has met.
THEOREM OtherSettingsSurvive == Spec => []SettingsSurvive
  <1>1. Init => SetsIInv /\ SurvivalIInv
    BY SetsHold, SurvivalHolds DEF Init
  <1>2. SetsIInv /\ SurvivalIInv /\ [Next]_vars => (SetsIInv /\ SurvivalIInv)'
    BY LaneSteps, SetsStep, SurvivalStep
  <1>3. SurvivalIInv => SettingsSurvive
    BY SurvivalHolds
  <1>4. QED
    BY <1>1, <1>2, <1>3, PTL DEF Spec

-----------------------------------------------------------------------------
(* The scripts that rent and fund. *)

RentRows == [at : RentStages, instance : Nat]
FundRows == [at : FundStages, key : Fundings \cup {NoKeyFile}, read : Nat]
FundTransfers == [run : Fundings, key : Fundings, amount : 1..Goal]

\* Until two runs of the provisioner cross, one is under way, and it asks for a server
\* only where there is none.
RentingIInv ==
  /\ instances \in Seq(BOOLEAN) /\ known \in BOOLEAN
  /\ renting \in [Provisions -> RentRows]
  /\ "renting" \notin crossed =>
       /\ \A p, q \in Provisions : Under(p) /\ Under(q) => p = q
       /\ known =>
            /\ Len(instances) <= 1
            /\ \A p \in Provisions : renting[p].at = "post" => instances = <<>>

\* What the stage of a run of the funding script says of the file, of its key, and of what
\* it has read.
StageIsTrue(f) ==
  /\ funding[f].at = "keep" => keyFile = NoKeyFile /\ funding[f].key = f
  /\ funding[f].at = "fill" => keyFile = TornKey /\ funding[f].key = f
  /\ funding[f].at \in {"read", "send", "receipt"} =>
       keyFile \in Fundings /\ funding[f].key = keyFile
  /\ funding[f].at = "send" =>
       funding[f].read < Goal /\ balance[funding[f].key] <= funding[f].read

\* A run has a key from where it took it, and sends less than the goal.
Keyed(f) ==
  /\ funding[f].at \in {"keep", "fill", "read", "send", "receipt"} => funding[f].key \in Fundings
  /\ funding[f].at = "send" => funding[f].read < Goal

PaidInFull(f) == Held(f) <= Goal /\ (Held(f) > 0 => keyFile = f)

\* Until two runs of the funding script cross, one is under way and at most one transfer
\* is, and then the run waits for it.
FundingIInv ==
  /\ keyFile \in Fundings \cup {NoKeyFile, TornKey}
  /\ balance \in [Fundings -> Nat] /\ unmined \subseteq FundTransfers
  /\ funding \in [Fundings -> FundRows]
  /\ \A f \in Fundings : Keyed(f)
  /\ "funding" \notin crossed =>
       /\ \A f, g \in Fundings : Paying(f) /\ Paying(g) => f = g
       /\ \A t, u \in unmined : t = u
       /\ \A f \in Fundings : Paying(f) /\ unmined # {} => funding[f].at = "receipt"
       /\ \A f \in Fundings : StageIsTrue(f)
       /\ \A f \in Fundings : PaidInFull(f)

LEMMA DueOfNone == ASSUME NEW f PROVE Due(f, {}) = 0
  <1>1. {t \in {} : t.key = f} = {}
    OBVIOUS
  <1>2. QED
    BY <1>1, SumOfNone DEF Due, Sum

LEMMA DueOfOne ==
  ASSUME NEW f, NEW t \in FundTransfers
  PROVE  /\ t.key = f => Due(f, {t}) = t.amount
         /\ t.key # f => Due(f, {t}) = 0
  <1> DEFINE g == [u \in {t} |-> u.amount]
  <1>1. t.amount \in Nat /\ g[t] = t.amount
    BY ErrandsAssumption DEF FundTransfers
  <1>2. CASE t.key = f
    <2>1. {u \in {t} : u.key = f} = {} \cup {t}
      BY <1>2
    <2>2. Counts(g, {}) /\ Sum(g, {}) = 0
      BY SumOfNone, FS_EmptySet DEF Counts
    <2> HIDE DEF g
    <2>3. Sum(g, {} \cup {t}) = 0 + g[t]
      BY <1>1, <2>2, SumOfMore
    <2>4. Due(f, {t}) = 0 + g[t]
      BY <2>1, <2>3 DEF Due, Sum, g
    <2>5. QED
      BY <1>1, <1>2, <2>4
  <1>3. CASE t.key # f
    <2>1. {u \in {t} : u.key = f} = {}
      BY <1>3
    <2>2. Due(f, {t}) = 0
      BY <2>1, SumOfNone DEF Due, Sum
    <2>3. QED
      BY <1>3, <2>2
  <1>4. QED
    BY <1>2, <1>3

LEMMA RentingStep ==
  ASSUME RentingIInv, RentingNext
  PROVE  RentingIInv' /\ UNCHANGED funds /\ ("funding" \in crossed' <=> "funding" \in crossed)
  <1> USE DEF Under, RentStages
  <1>1. ASSUME NEW p \in Provisions, NEW at \in RentStages, NEW instance \in Nat,
               Rent(p, at, instance)
        PROVE  /\ renting' \in [Provisions -> RentRows]
               /\ renting'[p].at = at /\ \A q \in Provisions \ {p} : renting'[q] = renting[q]
    BY <1>1 DEF RentingIInv, RentRows, Rent
  \* a run that was under way, or has found nobody, moves and rents nothing
  <1>2. ASSUME NEW p \in Provisions, NEW at \in RentStages, NEW instance \in Nat,
               Rent(p, at, instance), UNCHANGED <<instances, known, crossed>>, Under(p),
               at = "post" => ~known \/ instances = <<>>
        PROVE  RentingIInv'
    BY <1>1, <1>2 DEF RentingIInv
  <1>3. ASSUME NEW p \in Provisions, StartRenting(p) PROVE RentingIInv'
    <2>1. /\ renting' \in [Provisions -> RentRows]
          /\ renting'[p].at = "list" /\ \A q \in Provisions \ {p} : renting'[q] = renting[q]
      BY <1>1, <1>3 DEF StartRenting
    <2>2. QED
      BY <1>3, <2>1 DEF StartRenting, RentingIInv
  <1>4. ASSUME NEW p \in Provisions, ListInstances(p) PROVE RentingIInv'
    BY <1>2, <1>4 DEF ListInstances
  <1>5. ASSUME NEW p \in Provisions, DeclineToRent(p) PROVE RentingIInv'
    BY <1>2, <1>5 DEF DeclineToRent
  <1>6. ASSUME NEW p \in Provisions, PostInstance(p) PROVE RentingIInv'
    <2>1. PICK at \in {"poll", "stopped"}, instance \in Nat : Rent(p, at, instance)
      <3>1. Len(instances) + 1 \in Nat
        BY DEF RentingIInv
      <3>2. QED
        BY <1>6, <3>1 DEF PostInstance
    <2>2. /\ renting' \in [Provisions -> RentRows]
          /\ renting'[p].at = at /\ \A q \in Provisions \ {p} : renting'[q] = renting[q]
      BY <1>1, <2>1
    <2>3. /\ instances \in Seq(BOOLEAN) /\ instances' = Append(instances, FALSE)
          /\ renting[p].at = "post" /\ UNCHANGED <<known, crossed>>
      BY <1>6 DEF PostInstance, RentingIInv
    <2>4. instances' \in Seq(BOOLEAN) /\ (instances = <<>> => Len(instances') <= 1)
      BY <2>3
    <2>5. ASSUME "renting" \notin crossed
          PROVE  /\ \A q \in Provisions : Under(q) => q = p
                 /\ known => instances = <<>>
      BY <2>3, <2>5 DEF RentingIInv
    <2>6. \A q \in Provisions \ {p} : "renting" \notin crossed => ~Under(q)' /\ renting'[q].at # "post"
      BY <2>2, <2>5
    <2>7. QED
      BY <2>1, <2>2, <2>3, <2>4, <2>5, <2>6 DEF RentingIInv
  <1>7. ASSUME NEW p \in Provisions, PollInstance(p) PROVE RentingIInv'
    <2>1. renting[p].instance \in Nat
      BY DEF RentingIInv, RentRows
    <2>2. QED
      BY <1>2, <1>7, <2>1 DEF PollInstance
  <1>8. ASSUME NEW p \in Provisions, SaveState(p) PROVE RentingIInv'
    <2>1. renting[p].instance \in Nat
      BY DEF RentingIInv, RentRows
    <2>2. QED
      BY <1>2, <1>8, <2>1 DEF SaveState
  <1>9. ASSUME NEW p \in Provisions, RentingDies(p) PROVE RentingIInv'
    BY <1>2, <1>9 DEF RentingDies
  <1>10. ASSUME NEW i \in DOMAIN instances, Activate(i) PROVE RentingIInv'
    <2>1. instances' \in Seq(BOOLEAN) /\ Len(instances') = Len(instances)
      BY <1>10 DEF Activate, RentingIInv
    <2>2. instances # <<>>
      BY <1>10
    <2>3. QED
      BY <1>10, <2>1, <2>2 DEF Activate, RentingIInv
  <1>11. RentingIInv'
    BY <1>3, <1>4, <1>5, <1>6, <1>7, <1>8, <1>9, <1>10 DEF RentingNext
  <1>12. UNCHANGED funds /\ ("funding" \in crossed' <=> "funding" \in crossed)
    BY DEF RentingNext, StartRenting, ListInstances, DeclineToRent, PostInstance, PollInstance,
           SaveState, RentingDies, Activate
  <1>13. QED
    BY <1>11, <1>12

\* A run that goes from one stage to another.
LEMMA FundGoes ==
  ASSUME FundingIInv, NEW f \in Fundings, NEW at \in FundStages, Fund(f, at)
  PROVE  /\ funding' \in [Fundings -> FundRows]
         /\ funding'[f].at = at /\ funding'[f].key = funding[f].key
         /\ funding'[f].read = funding[f].read
         /\ \A g \in Fundings \ {f} : funding'[g] = funding[g]
  BY DEF FundingIInv, FundRows, Fund

\* What is kept until two runs cross.
Apart ==
  /\ \A f, g \in Fundings : Paying(f) /\ Paying(g) => f = g
  /\ \A t, u \in unmined : t = u
  /\ \A f \in Fundings : Paying(f) /\ unmined # {} => funding[f].at = "receipt"
  /\ \A f \in Fundings : StageIsTrue(f)
  /\ \A f \in Fundings : PaidInFull(f)

\* One run moves, and nothing but the file changes besides.
LEMMA FundStep ==
  ASSUME FundingIInv, NEW f \in Fundings, Paying(f),
         funding' \in [Fundings -> FundRows],
         \A g \in Fundings \ {f} : funding'[g] = funding[g],
         keyFile' \in Fundings \cup {NoKeyFile, TornKey}, Keyed(f)',
         UNCHANGED <<balance, unmined, crossed>>,
         "funding" \notin crossed /\ Apart =>
           /\ StageIsTrue(f)'
           /\ Paying(f)' /\ unmined # {} => funding'[f].at = "receipt"
           /\ \A g \in Fundings : Held(g) > 0 => keyFile' = g
  PROVE  FundingIInv'
  <1>1. SUFFICES ASSUME "funding" \notin crossed PROVE Apart'
    BY DEF FundingIInv, Apart, Keyed
  <1>2. Apart
    BY <1>1 DEF FundingIInv, Apart
  <1>3. \A g \in Fundings \ {f} : ~Paying(g) /\ ~Paying(g)'
    BY <1>2 DEF Apart, Paying
  <1>4. \A g \in Fundings : Held(g)' = Held(g) /\ (Held(g) > 0 => keyFile' = g)
    BY <1>1, <1>2 DEF Held
  <1>5. \A g \in Fundings : PaidInFull(g)'
    BY <1>2, <1>4 DEF Apart, PaidInFull
  <1>6. \A g \in Fundings : StageIsTrue(g)'
    BY <1>1, <1>2, <1>3 DEF StageIsTrue, Paying
  <1>7. QED
    BY <1>1, <1>2, <1>3, <1>5, <1>6 DEF Apart

LEMMA FundingStep ==
  ASSUME FundingIInv, FundingNext
  PROVE  /\ FundingIInv' /\ UNCHANGED provisioner
         /\ ("renting" \in crossed' <=> "renting" \in crossed)
  <1>1. \A at \in FundStages : at \in {"ready", "key", "keep", "fill", "read", "send", "receipt", "stopped"}
    BY DEF FundStages
  <1>2. ASSUME NEW f \in Fundings, StartFunding(f) PROVE FundingIInv'
    <2>1. /\ Fund(f, "key") /\ UNCHANGED <<keyFile, balance, unmined>>
          /\ funding[f].at = "ready"
          /\ "funding" \notin crossed' =>
               "funding" \notin crossed /\ unmined = {} /\ \A g \in Fundings : ~Paying(g)
      BY <1>2 DEF StartFunding
    <2>2. /\ funding' \in [Fundings -> FundRows]
          /\ funding'[f].at = "key"
          /\ \A g \in Fundings \ {f} : funding'[g] = funding[g]
      BY <2>1, FundGoes DEF FundStages
    <2>3. SUFFICES ASSUME "funding" \notin crossed' PROVE Apart'
      BY <2>1, <2>2 DEF FundingIInv, Apart, Keyed
    <2>4. Apart
      BY <2>1, <2>3 DEF FundingIInv, Apart
    <2>5. \A g \in Fundings : PaidInFull(g)'
      BY <2>1, <2>4 DEF Apart, PaidInFull, Held
    <2>6. \A g \in Fundings : StageIsTrue(g)'
      BY <2>1, <2>2, <2>3, <2>4 DEF Apart, StageIsTrue, Paying
    <2>7. QED
      BY <2>1, <2>2, <2>3, <2>5, <2>6 DEF Apart, Paying
  <1>3. ASSUME NEW f \in Fundings, TakeKey(f) PROVE FundingIInv'
    <2>1. /\ Paying(f) /\ UNCHANGED <<keyFile, balance, unmined, crossed>>
          /\ funding[f].at = "key"
      BY <1>3 DEF TakeKey, Paying
    <2>2. funding \in [Fundings -> FundRows] /\ keyFile \in Fundings \cup {NoKeyFile, TornKey}
      BY DEF FundingIInv
    <2>3. PICK at \in FundStages, key \in Fundings \cup {NoKeyFile} :
            /\ funding' \in [Fundings -> FundRows]
            /\ funding'[f].at = at /\ funding'[f].key = key
            /\ \A g \in Fundings \ {f} : funding'[g] = funding[g]
            /\ \/ at = "stopped"
               \/ at = "keep" /\ keyFile = NoKeyFile /\ key = f
               \/ at = "read" /\ keyFile \in Fundings /\ key = keyFile
      <3>1. CASE keyFile = TornKey
        <4>1. Fund(f, "stopped") /\ "stopped" \in FundStages
          BY <1>3, <3>1, ErrandsAssumption DEF TakeKey, FundStages
        <4>2. funding[f].key \in Fundings \cup {NoKeyFile}
          BY <2>2 DEF FundRows
        <4>3. QED
          BY <4>1, <4>2, FundGoes
      <3>2. CASE keyFile \in Fundings \cup {NoKeyFile}
        <4>1. PICK at \in {"keep", "read"}, key \in Fundings :
                /\ funding' = [funding EXCEPT ![f].at = at, ![f].key = key]
                /\ \/ at = "keep" /\ keyFile = NoKeyFile /\ key = f
                   \/ at = "read" /\ keyFile \in Fundings /\ key = keyFile
          BY <1>3, <3>2, ErrandsAssumption DEF TakeKey
        <4>2. at \in FundStages
          BY DEF FundStages
        <4>3. /\ funding' \in [Fundings -> FundRows]
              /\ funding'[f].at = at /\ funding'[f].key = key
              /\ \A g \in Fundings \ {f} : funding'[g] = funding[g]
          BY <2>2, <4>1, <4>2 DEF FundRows
        <4>4. QED
          BY <4>1, <4>2, <4>3
      <3>3. QED
        BY <2>2, <3>1, <3>2
    <2>5. ASSUME Apart PROVE unmined = {} /\ \A g \in Fundings : Held(g) > 0 => keyFile = g
      BY <2>1, <2>5 DEF Apart, PaidInFull
    <2>6. StageIsTrue(f)'
      BY <2>1, <2>3 DEF StageIsTrue
    <2>7. Keyed(f)'
      BY <2>3 DEF Keyed
    <2>8. QED
      BY <2>1, <2>2, <2>3, <2>5, <2>6, <2>7, FundStep
  <1>4. ASSUME NEW f \in Fundings, OpenKeyFile(f) PROVE FundingIInv'
    <2>1. /\ Paying(f) /\ UNCHANGED <<balance, unmined, crossed>>
          /\ funding[f].at = "keep" /\ Fund(f, "fill") /\ keyFile' = TornKey
      BY <1>4 DEF OpenKeyFile, Paying
    <2>2. /\ funding' \in [Fundings -> FundRows]
          /\ funding'[f].at = "fill" /\ funding'[f].key = funding[f].key
          /\ \A g \in Fundings \ {f} : funding'[g] = funding[g]
      BY <2>1, FundGoes DEF FundStages
    <2>3. ASSUME Apart
          PROVE  /\ StageIsTrue(f)' /\ unmined = {}
                 /\ \A g \in Fundings : Held(g) > 0 => keyFile' = g
      <3>1. keyFile = NoKeyFile /\ funding[f].key = f /\ unmined = {}
        BY <2>1, <2>3 DEF Apart, StageIsTrue
      <3>2. \A g \in Fundings : ~(Held(g) > 0)
        BY <2>3, <3>1, ErrandsAssumption DEF Apart, PaidInFull
      <3>3. StageIsTrue(f)'
        BY <2>1, <2>2, <3>1 DEF StageIsTrue
      <3>4. QED
        BY <3>1, <3>2, <3>3
    <2>4. Keyed(f)'
      BY <2>1, <2>2 DEF FundingIInv, Keyed
    <2>5. QED
      BY <2>1, <2>2, <2>3, <2>4, FundStep
  <1>5. ASSUME NEW f \in Fundings, CloseKeyFile(f) PROVE FundingIInv'
    <2>1. /\ Paying(f) /\ UNCHANGED <<balance, unmined, crossed>>
          /\ funding[f].at = "fill" /\ Fund(f, "read") /\ keyFile' = funding[f].key
      BY <1>5 DEF CloseKeyFile, Paying
    <2>2. /\ funding' \in [Fundings -> FundRows]
          /\ funding'[f].at = "read" /\ funding'[f].key = funding[f].key
          /\ \A g \in Fundings \ {f} : funding'[g] = funding[g]
      BY <2>1, FundGoes DEF FundStages
    <2>3. ASSUME Apart
          PROVE  /\ StageIsTrue(f)' /\ unmined = {}
                 /\ \A g \in Fundings : Held(g) > 0 => keyFile' = g
      <3>1. keyFile = TornKey /\ funding[f].key = f /\ unmined = {}
        BY <2>1, <2>3 DEF Apart, StageIsTrue
      <3>2. \A g \in Fundings : ~(Held(g) > 0)
        BY <2>3, <3>1, ErrandsAssumption DEF Apart, PaidInFull
      <3>3. StageIsTrue(f)'
        BY <2>1, <2>2, <3>1 DEF StageIsTrue
      <3>4. QED
        BY <3>1, <3>2, <3>3
    <2>4. keyFile' \in Fundings \cup {NoKeyFile, TornKey}
      BY <2>1 DEF FundingIInv, FundRows
    <2>5. Keyed(f)'
      BY <2>1, <2>2 DEF FundingIInv, Keyed
    <2>6. QED
      BY <2>1, <2>2, <2>3, <2>4, <2>5, FundStep
  <1>6. ASSUME NEW f \in Fundings, ReadBalance(f) PROVE FundingIInv'
    <2> DEFINE paid == balance[funding[f].key]
               at == IF paid >= Goal THEN "stopped" ELSE "send"
    <2>1. /\ Paying(f) /\ UNCHANGED <<keyFile, balance, unmined, crossed>>
          /\ funding[f].at = "read"
          /\ funding' = [funding EXCEPT ![f].read = paid, ![f].at = at]
      BY <1>6 DEF ReadBalance, Paying
    <2>2. /\ funding \in [Fundings -> FundRows] /\ keyFile \in Fundings \cup {NoKeyFile, TornKey}
          /\ at \in FundStages
          /\ at # "stopped" => ~(paid >= Goal) /\ at = "send"
      BY DEF FundingIInv, FundStages
    <2>3. funding[f].key \in Fundings /\ paid \in Nat /\ Goal \in Nat
      BY <2>1, ErrandsAssumption DEF FundingIInv, Keyed
    <2> HIDE DEF paid, at
    <2>4. /\ funding' \in [Fundings -> FundRows]
          /\ funding'[f].at = at /\ funding'[f].key = funding[f].key /\ funding'[f].read = paid
          /\ \A g \in Fundings \ {f} : funding'[g] = funding[g]
      BY <2>1, <2>2, <2>3 DEF FundRows
    <2>5. at # "stopped" => at = "send" /\ paid < Goal
      BY <2>2, <2>3
    <2>6. Keyed(f)'
      BY <2>2, <2>3, <2>4, <2>5 DEF Keyed
    <2>7. ASSUME Apart
          PROVE  /\ StageIsTrue(f)' /\ unmined = {}
                 /\ \A g \in Fundings : Held(g) > 0 => keyFile' = g
      <3>1. keyFile \in Fundings /\ funding[f].key = keyFile /\ unmined = {}
        BY <2>1, <2>7 DEF Apart, StageIsTrue
      <3>2. balance'[funding'[f].key] = paid
        BY <2>1, <2>4 DEF paid
      <3>3. StageIsTrue(f)'
        BY <2>1, <2>2, <2>3, <2>4, <2>5, <3>1, <3>2 DEF StageIsTrue
      <3>4. QED
        BY <2>1, <2>7, <3>1, <3>3 DEF Apart, PaidInFull
    <2>8. QED
      BY <2>1, <2>2, <2>4, <2>6, <2>7, FundStep
  <1>7. ASSUME NEW f \in Fundings, SendFunds(f) PROVE FundingIInv'
    <2> DEFINE t == [run |-> f, key |-> funding[f].key, amount |-> Goal - funding[f].read]
    <2>1. /\ Paying(f) /\ UNCHANGED <<keyFile, balance, crossed>>
          /\ funding[f].at = "send" /\ Fund(f, "receipt") /\ unmined' = unmined \cup {t}
      BY <1>7 DEF SendFunds, Paying
    <2>2. /\ funding' \in [Fundings -> FundRows]
          /\ funding'[f].at = "receipt" /\ funding'[f].key = funding[f].key
          /\ \A g \in Fundings \ {f} : funding'[g] = funding[g]
      BY <2>1, FundGoes DEF FundStages
    <2>3. /\ funding[f].key \in Fundings /\ funding[f].read \in Nat /\ Goal \in Nat
          /\ funding[f].read < Goal
      BY <2>1, ErrandsAssumption DEF FundingIInv, Keyed, FundRows
    <2>4. Goal - funding[f].read \in 1..Goal
      BY <2>3
    <2>5. /\ t \in FundTransfers /\ t.key = funding[f].key
          /\ t.amount = Goal - funding[f].read
      BY <2>3, <2>4 DEF FundTransfers
    <2> HIDE DEF t
    <2>6. Keyed(f)'
      BY <2>2, <2>3 DEF Keyed
    <2>7. SUFFICES ASSUME "funding" \notin crossed PROVE Apart'
      BY <2>1, <2>2, <2>5, <2>6 DEF FundingIInv, Apart, Keyed
    <2>8. Apart
      BY <2>7 DEF FundingIInv, Apart
    <2>9. /\ unmined = {} /\ unmined' = {t} /\ \A g \in Fundings \ {f} : ~Paying(g)
          /\ keyFile = funding[f].key /\ balance[keyFile] <= funding[f].read
      BY <2>1, <2>8 DEF Apart, StageIsTrue
    <2>10. ASSUME NEW g \in Fundings PROVE PaidInFull(g)'
      <3>1. balance[g] \in Nat /\ balance' = balance
        BY <2>1 DEF FundingIInv
      <3>2. Held(g) = balance[g] + 0
        BY <2>9, DueOfNone DEF Held
      <3>3. CASE g = keyFile
        <4>1. Held(g)' = balance[g] + t.amount
          BY <2>5, <2>9, <3>1, <3>3, DueOfOne DEF Held
        <4>2. Held(g)' <= Goal
          BY <2>3, <2>5, <2>9, <3>1, <3>3, <4>1
        <4>3. QED
          BY <2>1, <3>3, <4>2 DEF PaidInFull
      <3>4. CASE g # keyFile
        <4>1. Held(g)' = balance[g] + 0
          BY <2>5, <2>9, <3>1, <3>4, DueOfOne DEF Held
        <4>2. QED
          BY <2>1, <2>8, <3>2, <4>1 DEF Apart, PaidInFull
      <3>5. QED
        BY <3>3, <3>4
    <2>11. \A g \in Fundings : StageIsTrue(g)'
      BY <2>1, <2>2, <2>3, <2>8, <2>9 DEF Apart, StageIsTrue, Paying
    <2>12. QED
      BY <2>2, <2>9, <2>10, <2>11 DEF Apart, Paying
  <1>8. ASSUME NEW t \in unmined, MineFunds(t) PROVE FundingIInv'
    <2>1. PICK amount \in {0, t.amount} : balance' = [balance EXCEPT ![t.key] = @ + amount]
      BY <1>8 DEF MineFunds
    <2>2. /\ UNCHANGED <<keyFile, funding, crossed>> /\ unmined' = unmined \ {t}
      BY <1>8 DEF MineFunds
    <2>3. /\ t \in FundTransfers /\ balance \in [Fundings -> Nat] /\ t.key \in Fundings
          /\ t.amount \in Nat /\ amount \in Nat /\ amount <= t.amount
      BY <2>1, ErrandsAssumption DEF FundingIInv, FundTransfers
    <2>4. /\ balance' \in [Fundings -> Nat]
          /\ balance'[t.key] = balance[t.key] + amount
          /\ \A g \in Fundings \ {t.key} : balance'[g] = balance[g]
      BY <2>1, <2>3
    <2>5. SUFFICES ASSUME "funding" \notin crossed PROVE Apart'
      BY <2>2, <2>4 DEF FundingIInv, Apart, Keyed
    <2>6. Apart /\ unmined = {t} /\ unmined' = {}
      BY <2>2, <2>5 DEF FundingIInv, Apart
    <2>7. ASSUME NEW g \in Fundings PROVE PaidInFull(g)'
      <3>1. Held(g)' = balance'[g] + 0
        BY <2>6, DueOfNone DEF Held
      <3>2. Held(g) = balance[g] + (IF g = t.key THEN t.amount ELSE 0)
        BY <2>3, <2>6, DueOfOne DEF Held
      <3>3. balance[g] \in Nat /\ balance'[g] \in Nat
        BY <2>3, <2>4
      <3>4. Held(g)' <= Held(g) /\ Held(g) \in Nat /\ Held(g)' \in Nat
        BY <2>3, <2>4, <3>1, <3>2, <3>3
      <3>5. PaidInFull(g) /\ Goal \in Nat
        BY <2>6, ErrandsAssumption DEF Apart
      <3>6. QED
        BY <2>2, <3>4, <3>5 DEF PaidInFull
    <2>8. ASSUME NEW g \in Fundings PROVE StageIsTrue(g)'
      <3>1. funding[g].at # "send"
        BY <2>6 DEF Apart, Paying
      <3>2. QED
        BY <2>2, <2>6, <3>1 DEF Apart, StageIsTrue
    <2>9. QED
      BY <2>2, <2>6, <2>7, <2>8 DEF Apart, Paying
  <1>9. ASSUME NEW f \in Fundings, BuyerSpends(f) PROVE FundingIInv'
    <2>1. /\ UNCHANGED <<keyFile, funding, crossed, unmined>> /\ balance[f] > 0
          /\ balance' = [balance EXCEPT ![f] = @ - 1] /\ balance \in [Fundings -> Nat]
      BY <1>9 DEF BuyerSpends, FundingIInv
    <2>2. /\ balance' \in [Fundings -> Nat]
          /\ \A g \in Fundings : balance'[g] <= balance[g]
      BY <2>1
    <2>3. SUFFICES ASSUME "funding" \notin crossed PROVE Apart'
      BY <2>1, <2>2 DEF FundingIInv, Apart, Keyed
    <2>4. Apart
      BY <2>3 DEF FundingIInv, Apart
    <2>5. ASSUME NEW g \in Fundings PROVE Due(g, unmined) \in Nat
      <3>1. CASE unmined = {}
        BY <3>1, DueOfNone
      <3>2. ASSUME NEW t \in unmined PROVE Due(g, unmined) \in Nat
        <4>1. unmined = {t} /\ t \in FundTransfers /\ t.amount \in Nat
          BY <2>4, ErrandsAssumption DEF Apart, FundingIInv, FundTransfers
        <4>2. QED
          BY <4>1, DueOfOne
      <3>3. QED
        BY <3>1, <3>2
    <2>6. ASSUME NEW g \in Fundings PROVE PaidInFull(g)'
      <3>1. Held(g) = balance[g] + Due(g, unmined) /\ Held(g)' = balance'[g] + Due(g, unmined)
        BY <2>1 DEF Held
      <3>2. balance[g] \in Nat /\ balance'[g] \in Nat /\ balance'[g] <= balance[g] /\ Goal \in Nat
        BY <2>1, <2>2, ErrandsAssumption
      <3>3. Held(g)' <= Held(g) /\ Held(g) \in Nat /\ Held(g)' \in Nat
        BY <2>5, <3>1, <3>2
      <3>4. PaidInFull(g)
        BY <2>4 DEF Apart
      <3>5. QED
        BY <2>1, <3>2, <3>3, <3>4 DEF PaidInFull
    <2>7. ASSUME NEW g \in Fundings PROVE StageIsTrue(g)'
      <3>1. StageIsTrue(g) /\ funding[g] \in FundRows
        BY <2>4 DEF Apart, FundingIInv
      <3>2. CASE funding[g].at = "send"
        <4>1. funding[g].key \in Fundings /\ funding[g].read \in Nat
          BY <3>1, <3>2 DEF StageIsTrue, FundRows
        <4>2. balance'[funding[g].key] <= balance[funding[g].key]
          BY <2>2, <4>1
        <4>3. balance'[funding[g].key] \in Nat /\ balance[funding[g].key] \in Nat
          BY <2>1, <2>2, <4>1
        <4>4. balance'[funding[g].key] <= funding[g].read
          BY <3>1, <3>2, <4>1, <4>2, <4>3 DEF StageIsTrue
        <4>5. QED
          BY <2>1, <3>1, <3>2, <4>4 DEF StageIsTrue
      <3>3. CASE funding[g].at # "send"
        BY <2>1, <3>1, <3>3 DEF StageIsTrue
      <3>4. QED
        BY <3>2, <3>3
    <2>8. QED
      BY <2>1, <2>4, <2>6, <2>7 DEF Apart, Paying
  <1>10. ASSUME NEW f \in Fundings, FundsReceipt(f) \/ FundingDies(f) PROVE FundingIInv'
    <2>1. Paying(f) /\ UNCHANGED <<keyFile, balance, unmined, crossed>> /\ Fund(f, "stopped")
      BY <1>10 DEF FundsReceipt, FundingDies, Paying
    <2>2. /\ funding' \in [Fundings -> FundRows] /\ funding'[f].at = "stopped"
          /\ \A g \in Fundings \ {f} : funding'[g] = funding[g]
      BY <2>1, FundGoes DEF FundStages
    <2>3. StageIsTrue(f)' /\ Keyed(f)' /\ ~Paying(f)'
      BY <2>2 DEF StageIsTrue, Keyed, Paying
    <2>4. ASSUME Apart PROVE \A g \in Fundings : Held(g) > 0 => keyFile' = g
      BY <2>1, <2>4 DEF Apart, PaidInFull
    <2>5. keyFile' \in Fundings \cup {NoKeyFile, TornKey}
      BY <2>1 DEF FundingIInv
    <2>6. QED
      BY <2>1, <2>2, <2>3, <2>4, <2>5, FundStep
  <1>11. FundingIInv'
    BY <1>2, <1>3, <1>4, <1>5, <1>6, <1>7, <1>8, <1>9, <1>10 DEF FundingNext
  <1>12. UNCHANGED provisioner /\ ("renting" \in crossed' <=> "renting" \in crossed)
    BY DEF FundingNext, StartFunding, TakeKey, OpenKeyFile, CloseKeyFile, ReadBalance, SendFunds,
           MineFunds, BuyerSpends, FundsReceipt, FundingDies
  <1>13. QED
    BY <1>11, <1>12

LEMMA ErrandsStep ==
  ASSUME RentingIInv, FundingIInv, [RentingNext \/ FundingNext]_errandsVars
  PROVE  RentingIInv' /\ FundingIInv'
  <1>1. CASE RentingNext
    <2>1. RentingIInv' /\ UNCHANGED funds /\ ("funding" \in crossed' <=> "funding" \in crossed)
      BY <1>1, RentingStep
    <2>2. FundingIInv'
      BY <2>1 DEF FundingIInv, funds, Paying, StageIsTrue, Keyed, PaidInFull, Held
    <2>3. QED
      BY <2>1, <2>2
  <1>2. CASE FundingNext
    <2>1. /\ FundingIInv' /\ UNCHANGED provisioner
          /\ ("renting" \in crossed' <=> "renting" \in crossed)
      BY <1>2, FundingStep
    <2>2. RentingIInv'
      BY <2>1 DEF RentingIInv, provisioner, Under
    <2>3. QED
      BY <2>1, <2>2
  <1>3. CASE UNCHANGED errandsVars
    <2>1. FundingIInv'
      BY <1>3 DEF errandsVars, FundingIInv, funds, Paying, StageIsTrue, Keyed, PaidInFull, Held
    <2>2. RentingIInv'
      BY <1>3 DEF errandsVars, RentingIInv, provisioner, Under
    <2>3. QED
      BY <2>1, <2>2
  <1>4. QED
    BY <1>1, <1>2, <1>3

LEMMA ErrandsHold ==
  /\ ErrandsInit => RentingIInv /\ FundingIInv
  /\ RentingIInv /\ FundingIInv => DoneOnce
  <1>1. ASSUME ErrandsInit PROVE RentingIInv
    BY <1>1 DEF ErrandsInit, RentingIInv, RentRows, RentStages, Under
  <1>2. ASSUME ErrandsInit PROVE FundingIInv
    <2>1. \A f \in Fundings : Held(f) = 0 + 0
      BY <1>2, DueOfNone DEF ErrandsInit, Held
    <2>2. \A f \in Fundings : PaidInFull(f)
      BY <2>1, ErrandsAssumption DEF PaidInFull
    <2>3. funding \in [Fundings -> FundRows] /\ \A f \in Fundings : funding[f].at = "ready"
      BY <1>2 DEF ErrandsInit, FundRows, FundStages
    <2>4. \A f \in Fundings : StageIsTrue(f) /\ Keyed(f) /\ ~Paying(f)
      BY <2>3 DEF StageIsTrue, Keyed, Paying
    <2>5. /\ keyFile \in Fundings \cup {NoKeyFile, TornKey} /\ unmined = {}
          /\ balance \in [Fundings -> Nat]
      BY <1>2 DEF ErrandsInit
    <2>6. QED
      BY <2>2, <2>3, <2>4, <2>5 DEF FundingIInv
  <1>3. ASSUME RentingIInv, FundingIInv PROVE DoneOnce
    BY <1>3 DEF RentingIInv, FundingIInv, DoneOnce, PaidInFull
  <1>4. QED
    BY <1>1, <1>2, <1>3

\* Scripts that are run again, and not at the same time, rent once and pay once: for any
\* number of runs and any goal (the provisioner and the funding script).
THEOREM ScriptsDoItOnce == Spec => []DoneOnce
  <1>1. Init => RentingIInv /\ FundingIInv
    BY ErrandsHold DEF Init
  <1>2. RentingIInv /\ FundingIInv /\ [Next]_vars => (RentingIInv /\ FundingIInv)'
    BY LaneSteps, ErrandsStep
  <1>3. RentingIInv /\ FundingIInv => DoneOnce
    BY ErrandsHold
  <1>4. QED
    BY <1>1, <1>2, <1>3, PTL DEF Spec

-----------------------------------------------------------------------------
(* The buyer's agent and runner. *)

\* Steps of the plan the runner has behind it.
StepsBehind(r) ==
  CASE r.at = "call" -> r.step - 1
    [] r.at \in {"stake", "slash"} -> r.step
    [] OTHER -> Cardinality(Plan)

ServedSteps == {i \in Plan : sent[i] = "served"}

\* The list is complete until the agent is rejected; the runner's sums are right after
\* every call, and what lies before it has not been sent.
BuyerRunIInv ==
  /\ agent \in [at : {"idle", "model", "tools", "script", "returned", "rejected"},
                left : Int, tools : Int]
  /\ listed \in Nat /\ signed \in Nat
  /\ agent.at # "rejected" => listed = signed
  /\ runner \in [at : {"call", "stake", "slash", "stats", "reported", "fatal"},
                 step : Plan, ok : Nat, fail : Nat, spent : Nat, twice : Nat]
  /\ sent \in [Plan -> Outcomes \cup {"not yet"}]
  /\ \A i \in Plan : i > runner.step => sent[i] = "not yet"
  /\ runner.at = "call" => sent[runner.step] = "not yet"
  /\ runner.spent = Cardinality(ServedSteps)
  /\ runner.ok + runner.fail = StepsBehind(runner) + runner.twice

LEMMA PlanIs ==
  /\ Cardinality(Plan) \in Nat \ {0} /\ Plan = 1..Cardinality(Plan) /\ Plan \subseteq Nat
  /\ 1 \in Plan
  <1>1. Cardinality(Plan) \in Nat
    BY BuyerRunAssumption, FS_CardinalityType
  <1>2. Cardinality(Plan) # 0
    BY BuyerRunAssumption, FS_EmptySet
  <1>3. QED
    BY <1>1, <1>2, BuyerRunAssumption

RunnerRows ==
  [at : {"call", "stake", "slash", "stats", "reported", "fatal"},
   step : Plan, ok : Nat, fail : Nat, spent : Nat, twice : Nat]

LEMMA RunnerFields ==
  ASSUME NEW r \in RunnerRows
  PROVE  r.ok \in Nat /\ r.fail \in Nat /\ r.spent \in Nat /\ r.twice \in Nat /\ r.step \in Plan
  BY DEF RunnerRows

AgentRows ==
  [at : {"idle", "model", "tools", "script", "returned", "rejected"}, left : Int, tools : Int]

LEMMA AgentLeavesTools ==
  ASSUME NEW a \in AgentRows, NEW n \in Int,
         NEW at \in {"idle", "model", "tools", "script", "returned", "rejected"}
  PROVE  [a EXCEPT !.tools = n, !.at = at] \in AgentRows
  BY DEF AgentRows

LEMMA AgentNumbers ==
  ASSUME NEW a \in AgentRows
  PROVE  a.left \in Int /\ a.tools \in Int /\ a.left - 1 \in Int /\ a.tools - 1 \in Int
  <1>1. a.left \in Int /\ a.tools \in Int
    BY DEF AgentRows
  <1>2. QED
    BY <1>1

\* A runner that goes on has one step more behind it.
LEMMA AdvanceIs ==
  ASSUME NEW r \in RunnerRows
  PROVE  /\ Advance(r) \in RunnerRows
         /\ StepsBehind(Advance(r)) = r.step
         /\ Advance(r).ok = r.ok /\ Advance(r).fail = r.fail
         /\ Advance(r).spent = r.spent /\ Advance(r).twice = r.twice
         /\ Advance(r).at \in {"call", "stats"}
         /\ IF Advance(r).at = "call" THEN Advance(r).step = r.step + 1
            ELSE Advance(r).step = r.step
  <1>1. r.step \in Nat /\ r.step \in 1..Cardinality(Plan) /\ Cardinality(Plan) \in Nat
    BY PlanIs DEF RunnerRows
  <1>2. CASE r.step + 1 \in Plan
    <2> DEFINE n == r.step + 1
    <2>1. Advance(r) = [r EXCEPT !.step = n, !.at = "call"]
      BY <1>2 DEF Advance
    <2>2. n - 1 = r.step /\ n \in Plan
      BY <1>1, <1>2
    <2> HIDE DEF n
    <2>3. /\ Advance(r) \in RunnerRows /\ Advance(r).at = "call" /\ Advance(r).step = n
          /\ Advance(r).ok = r.ok /\ Advance(r).fail = r.fail
          /\ Advance(r).spent = r.spent /\ Advance(r).twice = r.twice
      BY <2>1, <2>2 DEF RunnerRows
    <2>4. StepsBehind(Advance(r)) = n - 1
      BY <2>3 DEF StepsBehind
    <2>5. QED
      BY <2>2, <2>3, <2>4 DEF n
  <1>3. CASE r.step + 1 \notin Plan
    <2>1. r.step = Cardinality(Plan)
      BY <1>1, <1>3, PlanIs
    <2>2. QED
      BY <1>3, <2>1 DEF Advance, StepsBehind, RunnerRows
  <1>4. QED
    BY <1>2, <1>3

\* A call that is answered with 200 after a payment was served for it.
LEMMA AuthIsCounted ==
  /\ \A outcome \in Outcomes : CountAuth(outcome) \in {0, 1}
  /\ \A outcome \in Status200 : CountAuth(outcome) = IF outcome = "served" THEN 1 ELSE 0
  /\ Status200 \subseteq Outcomes /\ "served" \in Status200
  BY DEF CountAuth, Outcomes, Authorized, Status200

LEMMA AgentStep ==
  ASSUME BuyerRunIInv, AgentNext
  PROVE  BuyerRunIInv'
  <1>1. UNCHANGED <<runner, sent>>
    BY DEF AgentNext, AgentStart, ModelAnswers, ModelFails, Tool, Scripted, ScriptToolThrows
  <1>2. /\ agent' \in AgentRows
        /\ listed' \in Nat /\ signed' \in Nat
        /\ agent'.at # "rejected" => listed' = signed'
    <2>7. /\ agent \in AgentRows
          /\ listed \in Nat /\ signed \in Nat
          /\ agent.at # "rejected" => listed = signed
      BY DEF BuyerRunIInv, AgentRows
    <2>8. {MaxTurns, MaxTools, ScriptPays} \subseteq Int /\ 1..MaxTools \subseteq Int
      BY BuyerRunAssumption
    <2>11. agent \in AgentRows
      BY <2>7
    <2>10. agent.at \in {"idle", "model", "tools", "script"} => listed = signed
      BY <2>7
    <2>1. CASE AgentStart
      <3>1. agent' \in {[agent EXCEPT !.at = "model", !.left = MaxTurns],
                        [agent EXCEPT !.at = "script", !.left = ScriptPays]}
        BY <2>1 DEF AgentStart
      <3>2. agent' \in AgentRows
        BY <2>7, <2>8, <3>1 DEF AgentRows
      <3>3. QED
        BY <2>1, <2>7, <2>10, <3>2 DEF AgentStart
    <2>2. CASE ModelAnswers
      <3>1. agent' \in AgentRows
        <4>1. CASE agent' = [agent EXCEPT !.at = "returned"]
          BY <2>7, <4>1 DEF AgentRows
        <4>2. ASSUME NEW n \in 1..MaxTools,
                     agent' = [agent EXCEPT !.at = "tools", !.left = @ - 1, !.tools = n]
              PROVE  agent' \in AgentRows
          <5> DEFINE left == agent.left - 1
          <5>1. left \in Int /\ n \in Int
            BY <2>7, <2>8, AgentNumbers
          <5>2. agent' = [agent EXCEPT !.at = "tools", !.left = left, !.tools = n]
            BY <4>2
          <5> HIDE DEF left
          <5>3. QED
            BY <2>7, <5>1, <5>2 DEF AgentRows
        <4>3. QED
          BY <2>2, <4>1, <4>2 DEF ModelAnswers
      <3>2. QED
        BY <2>2, <2>7, <2>10, <3>1 DEF ModelAnswers
    <2>9. CASE ModelFails
      <3>1. agent' = [agent EXCEPT !.at = "script", !.left = ScriptPays]
        BY <2>9 DEF ModelFails
      <3>2. agent' \in AgentRows
        BY <2>7, <2>8, <3>1 DEF AgentRows
      <3>3. QED
        BY <2>7, <2>9, <2>10, <3>2 DEF ModelFails
    <2>3. CASE Tool
      <3>1. PICK outcome \in Outcomes :
              signed' = signed + CountAuth(outcome) /\ listed' = listed + CountAuth(outcome)
        BY <2>3 DEF Tool
      <3>2. CountAuth(outcome) \in Nat
        BY AuthIsCounted
      <3>3. agent.at = "tools"
        BY <2>3 DEF Tool
      <3>4. \/ agent' = [agent EXCEPT !.tools = agent.tools - 1]
            \/ agent' = [agent EXCEPT !.tools = 0, !.at = "returned"]
            \/ agent' = [agent EXCEPT !.tools = 0, !.at = "model"]
        BY <2>3 DEF Tool
      <3>5. agent' \in AgentRows
        <4> DEFINE n == agent.tools - 1
        <4>1. n \in Int
          BY <2>7, AgentNumbers
        <4>2. \/ agent' = [agent EXCEPT !.tools = n]
              \/ agent' = [agent EXCEPT !.tools = 0, !.at = "returned"]
              \/ agent' = [agent EXCEPT !.tools = 0, !.at = "model"]
          BY <3>4
        <4> HIDE DEF n
        <4>3. CASE agent' = [agent EXCEPT !.tools = n]
          BY <2>7, <4>1, <4>3 DEF AgentRows
        <4>7. 0 \in Int /\ \A at \in {"returned", "model"} :
                at \in {"idle", "model", "tools", "script", "returned", "rejected"}
          OBVIOUS
        <4>8. \A at \in {"returned", "model"} : [agent EXCEPT !.tools = 0, !.at = at] \in AgentRows
          BY <2>11, <4>7, AgentLeavesTools, Zenon
        <4>4. CASE agent' = [agent EXCEPT !.tools = 0, !.at = "returned"]
          BY <4>4, <4>8, Zenon
        <4>5. CASE agent' = [agent EXCEPT !.tools = 0, !.at = "model"]
          BY <4>5, <4>8, Zenon
        <4>6. QED
          BY <4>2, <4>3, <4>4, <4>5
      <3>6. QED
        BY <2>7, <3>1, <3>2, <3>3, <3>5
    <2>4. CASE Scripted
      <3>1. PICK outcome \in Outcomes :
              /\ signed' = signed + CountAuth(outcome)
              /\ \/ /\ agent' = [agent EXCEPT !.at = "rejected"]
                    /\ UNCHANGED listed
                 \/ /\ agent' = [agent EXCEPT !.left = @ - 1,
                                               !.at = IF agent.left = 1 THEN "returned" ELSE @]
                    /\ listed' = listed + CountAuth(outcome)
        BY <2>4 DEF Scripted
      <3>2. CountAuth(outcome) \in Nat
        BY AuthIsCounted
      <3>3. agent.at = "script" /\ listed = signed
        BY <2>4, <2>7 DEF Scripted
      <3>4. CASE agent' = [agent EXCEPT !.at = "rejected"] /\ UNCHANGED listed
        <4>1. agent' \in AgentRows /\ agent'.at = "rejected"
          BY <2>7, <3>4 DEF AgentRows
        <4>2. QED
          BY <2>7, <3>1, <3>2, <3>4, <4>1
      <3>5. CASE /\ agent' = [agent EXCEPT !.left = @ - 1,
                                           !.at = IF agent.left = 1 THEN "returned" ELSE @]
                 /\ listed' = listed + CountAuth(outcome)
        <4> DEFINE at == IF agent.left = 1 THEN "returned" ELSE agent.at
        <4>1. at \in {"idle", "model", "tools", "script", "returned", "rejected"}
          BY <2>7 DEF AgentRows
        <4> DEFINE n == agent.left - 1
        <4>2. agent' = [agent EXCEPT !.left = n, !.at = at] /\ n \in Int
          BY <2>7, <3>5, AgentNumbers
        <4> HIDE DEF at, n
        <4>3. agent' \in AgentRows
          BY <2>7, <4>1, <4>2 DEF AgentRows
        <4>4. QED
          BY <2>7, <3>1, <3>2, <3>3, <3>5, <4>3
      <3>6. QED
        BY <3>1, <3>4, <3>5
    <2>5. CASE ScriptToolThrows
      <3>1. agent' = [agent EXCEPT !.at = "rejected"] /\ UNCHANGED <<listed, signed>>
        BY <2>5 DEF ScriptToolThrows
      <3>2. agent' \in AgentRows /\ agent'.at = "rejected"
        BY <2>7, <3>1 DEF AgentRows
      <3>3. QED
        BY <2>7, <3>1, <3>2
    <2>6. QED
      BY <2>1, <2>2, <2>3, <2>4, <2>5, <2>9 DEF AgentNext
  <1>3. QED
    BY <1>1, <1>2 DEF BuyerRunIInv, ServedSteps, StepsBehind, AgentRows

LEMMA RunnerStep ==
  ASSUME BuyerRunIInv, RunnerNext
  PROVE  BuyerRunIInv'
  <1>1. UNCHANGED <<agent, listed, signed>>
    BY DEF RunnerNext, Step, Bond, Conclude
  <1>2. runner \in RunnerRows /\ runner.step \in Plan /\ runner.step \in Nat
    BY PlanIs DEF BuyerRunIInv, RunnerRows
  <1>3. CASE Step
    <2>1. PICK outcome \in Outcomes :
            /\ sent' = [sent EXCEPT ![runner.step] = outcome]
            /\ runner' =
                 IF outcome \in Status200
                 THEN LET r == [runner EXCEPT !.ok = @ + 1, !.spent = @ + CountAuth(outcome)] IN
                        IF runner.step \in Bonded THEN [r EXCEPT !.at = "stake"] ELSE Advance(r)
                 ELSE Advance([runner EXCEPT !.fail = @ + 1])
      BY <1>3 DEF Step
    <2>2. runner.at = "call"
      BY <1>3 DEF Step
    <2> DEFINE n == IF outcome = "served" THEN 1 ELSE 0
    <2>3. sent' \in [Plan -> Outcomes \cup {"not yet"}]
      BY <2>1 DEF BuyerRunIInv
    <2>4. Cardinality(ServedSteps') = Cardinality(ServedSteps) + n
      <3>1. IsFiniteSet(ServedSteps) /\ runner.step \notin ServedSteps
        <4>1. ServedSteps \subseteq Plan
          BY DEF ServedSteps
        <4>2. sent[runner.step] = "not yet"
          BY <2>2 DEF BuyerRunIInv
        <4>3. QED
          BY <4>1, <4>2, FS_Subset, BuyerRunAssumption DEF ServedSteps
      <3>2. ServedSteps' = IF outcome = "served" THEN ServedSteps \cup {runner.step} ELSE ServedSteps
        BY <1>2, <2>1, <3>1 DEF ServedSteps, BuyerRunIInv
      <3>3. QED
        BY <3>1, <3>2, FS_AddElement, FS_CardinalityType
    <2>5. /\ runner' \in RunnerRows
          /\ runner'.spent = runner.spent + n
          /\ runner'.ok + runner'.fail = StepsBehind(runner') + runner'.twice
          /\ IF runner'.at = "call" THEN runner'.step = runner.step + 1
             ELSE runner'.step = runner.step
      <3>1. runner.ok + runner.fail = runner.step - 1 + runner.twice
              /\ runner.ok \in Nat /\ runner.fail \in Nat /\ runner.twice \in Nat /\ runner.spent \in Nat
        BY <2>2 DEF BuyerRunIInv, StepsBehind
      <3>2. CASE outcome \in Status200
        <4> DEFINE r == [runner EXCEPT !.ok = @ + 1, !.spent = @ + CountAuth(outcome)]
        <4>1. r \in RunnerRows /\ r.ok = runner.ok + 1 /\ r.spent = runner.spent + n
                /\ r.fail = runner.fail /\ r.twice = runner.twice /\ r.step = runner.step
          <5>1. CountAuth(outcome) = n /\ n \in Nat
            BY <3>2, AuthIsCounted
          <5> HIDE DEF n
          <5> DEFINE ok == runner.ok + 1
                     spent == runner.spent + n
          <5>2. ok \in Nat /\ spent \in Nat
            BY <1>2, <5>1, RunnerFields
          <5>3. r = [runner EXCEPT !.ok = ok, !.spent = spent]
            BY <5>1
          <5> HIDE DEF r, ok, spent
          <5>4. r \in RunnerRows /\ r.ok = ok /\ r.spent = spent
                  /\ r.fail = runner.fail /\ r.twice = runner.twice /\ r.step = runner.step
            BY <1>2, <5>2, <5>3 DEF RunnerRows
          <5>5. QED
            BY <5>4 DEF ok, spent
        <4>2. runner' = IF runner.step \in Bonded THEN [r EXCEPT !.at = "stake"] ELSE Advance(r)
          BY <2>1, <3>2
        <4> HIDE DEF r, n
        <4>3. CASE runner.step \in Bonded
          BY <1>2, <3>1, <4>1, <4>2, <4>3 DEF RunnerRows, StepsBehind
        <4>4. CASE runner.step \notin Bonded
          <5>1. runner' = Advance(r)
            BY <4>2, <4>4
          <5>2. QED
            BY <1>2, <3>1, <4>1, <5>1, AdvanceIs
        <4>5. QED
          BY <4>3, <4>4
      <3>3. CASE outcome \notin Status200
        <4> DEFINE r == [runner EXCEPT !.fail = @ + 1]
        <4>1. r \in RunnerRows /\ r.fail = runner.fail + 1 /\ r.spent = runner.spent
                /\ r.ok = runner.ok /\ r.twice = runner.twice /\ r.step = runner.step
          BY <1>2 DEF RunnerRows
        <4>2. runner' = Advance(r) /\ n = 0
          BY <2>1, <3>3, AuthIsCounted
        <4> HIDE DEF r, n
        <4>3. QED
          BY <1>2, <3>1, <4>1, <4>2, AdvanceIs
      <3>4. QED
        BY <3>2, <3>3
    <2>6. /\ \A i \in Plan : i > runner'.step => sent'[i] = "not yet"
          /\ runner'.at = "call" => sent'[runner'.step] = "not yet"
      <3>1. /\ \A i \in Plan : i > runner.step + 1 => i > runner.step
            /\ \A i \in Plan : i > runner.step => i # runner.step
            /\ runner.step + 1 > runner.step
        BY <1>2, PlanIs
      <3>2. /\ \A i \in Plan : i > runner.step => sent'[i] = "not yet"
        BY <2>1, <3>1 DEF BuyerRunIInv
      <3>3. runner'.step \in Plan
        BY <2>5 DEF RunnerRows
      <3>4. QED
        BY <2>5, <3>1, <3>2, <3>3
    <2> HIDE DEF n
    <2>7. QED
      BY <1>1, <2>3, <2>4, <2>5, <2>6 DEF BuyerRunIInv, RunnerRows
  <1>4. CASE Bond
    <2>1. /\ runner.at \in {"stake", "slash"} /\ UNCHANGED sent
          /\ \/ runner.at = "stake" /\ runner' = [runner EXCEPT !.at = "slash"]
             \/ runner' = Advance(runner)
             \/ runner' = Advance([runner EXCEPT !.fail = @ + 1, !.twice = @ + 1])
      BY <1>4 DEF Bond
    <2>2. runner.ok + runner.fail = runner.step + runner.twice /\ runner.spent = Cardinality(ServedSteps)
            /\ \A i \in Plan : sent[i] \in Outcomes \cup {"not yet"}
      BY <2>1 DEF BuyerRunIInv, StepsBehind
    <2>3. QED
      <3>1. CASE runner.at = "stake" /\ runner' = [runner EXCEPT !.at = "slash"]
        BY <1>1, <1>2, <2>1, <2>2, <3>1 DEF BuyerRunIInv, RunnerRows, StepsBehind, ServedSteps
      <3>2. ASSUME NEW r \in RunnerRows, runner' = Advance(r), r.spent = runner.spent,
                   r.step = runner.step, r.ok + r.fail = r.step + r.twice
            PROVE  BuyerRunIInv'
        <4>1. /\ runner' \in RunnerRows /\ StepsBehind(runner') = r.step
              /\ runner'.ok = r.ok /\ runner'.fail = r.fail
              /\ runner'.spent = runner.spent /\ runner'.twice = r.twice
          BY <3>2, AdvanceIs
        <4>2. /\ \A i \in Plan : i > runner'.step => sent'[i] = "not yet"
              /\ runner'.at = "call" => sent'[runner'.step] = "not yet"
          <5>1. /\ \A i \in Plan : i > runner.step + 1 => i > runner.step
                /\ runner.step + 1 > runner.step
            BY <1>2, PlanIs
          <5>2. /\ IF runner'.at = "call" THEN runner'.step = runner.step + 1
                   ELSE runner'.step = runner.step
                /\ runner'.step \in Plan
            BY <3>2, <4>1, AdvanceIs DEF RunnerRows
          <5>3. QED
            BY <2>1, <5>1, <5>2 DEF BuyerRunIInv
        <4>3. UNCHANGED ServedSteps
          BY <2>1 DEF ServedSteps
        <4>4. QED
          BY <1>1, <2>1, <2>2, <3>2, <4>1, <4>2, <4>3 DEF BuyerRunIInv, RunnerRows
      <3>3. CASE runner' = Advance(runner)
        BY <1>2, <2>2, <3>2, <3>3
      <3>4. CASE runner' = Advance([runner EXCEPT !.fail = @ + 1, !.twice = @ + 1])
        <4> DEFINE r == [runner EXCEPT !.fail = @ + 1, !.twice = @ + 1]
        <4>1. /\ r \in RunnerRows /\ r.spent = runner.spent /\ r.step = runner.step
              /\ r.ok = runner.ok /\ r.fail = runner.fail + 1 /\ r.twice = runner.twice + 1
              /\ runner.ok \in Nat /\ runner.fail \in Nat /\ runner.twice \in Nat
          <5> DEFINE fail == runner.fail + 1
                     twice == runner.twice + 1
          <5>1. fail \in Nat /\ twice \in Nat
            BY <1>2, RunnerFields
          <5>2. r = [runner EXCEPT !.fail = fail, !.twice = twice]
            OBVIOUS
          <5> HIDE DEF r, fail, twice
          <5>3. r \in RunnerRows /\ r.spent = runner.spent /\ r.step = runner.step
                  /\ r.ok = runner.ok /\ r.fail = fail /\ r.twice = twice
            BY <1>2, <5>1, <5>2 DEF RunnerRows
          <5>4. QED
            BY <1>2, <5>3, RunnerFields DEF fail, twice
        <4> HIDE DEF r
        <4>2. r.ok + r.fail = r.step + r.twice
          <5>1. runner.ok + runner.fail = runner.step + runner.twice
            BY <2>2
          <5>2. QED
            BY <1>2, <4>1, <5>1
        <4>3. QED
          BY <3>2, <3>4, <4>1, <4>2 DEF r
      <3>5. QED
        BY <2>1, <3>1, <3>3, <3>4
  <1>5. CASE Conclude
    BY <1>1, <1>2, <1>5 DEF Conclude, BuyerRunIInv, RunnerRows, StepsBehind, ServedSteps
  <1>6. QED
    BY <1>3, <1>4, <1>5 DEF RunnerNext

LEMMA BuyerRunHolds ==
  /\ BuyerRunInit => BuyerRunIInv
  /\ BuyerRunIInv => AccountsForPurchases
  <1>1. ASSUME BuyerRunInit PROVE BuyerRunIInv
    <2>1. ServedSteps = {} /\ Cardinality(ServedSteps) = 0
      <3>1. ServedSteps = {}
        BY <1>1 DEF BuyerRunInit, ServedSteps
      <3>2. QED
        BY <3>1, FS_EmptySet
    <2>2. /\ runner.at = "call" /\ runner.step = 1 /\ 1 \in Plan /\ runner \in RunnerRows
          /\ runner.ok = 0 /\ runner.fail = 0 /\ runner.spent = 0 /\ runner.twice = 0
      BY <1>1, PlanIs DEF BuyerRunInit, RunnerRows
    <2>3. StepsBehind(runner) = 0
      <3>1. StepsBehind(runner) = 1 - 1
        BY <2>2 DEF StepsBehind
      <3>2. QED
        BY <3>1
    <2>4. agent \in AgentRows /\ listed = 0 /\ signed = 0
      <3>1. agent = [at |-> "idle", left |-> 0, tools |-> 0]
        BY <1>1 DEF BuyerRunInit
      <3>2. QED
        <4>1. agent \in AgentRows
          BY <3>1 DEF AgentRows
        <4>2. QED
          BY <1>1, <4>1 DEF BuyerRunInit
    <2>5. sent \in [Plan -> Outcomes \cup {"not yet"}] /\ \A i \in Plan : sent[i] = "not yet"
      BY <1>1 DEF BuyerRunInit
    <2>6. QED
      BY <2>1, <2>2, <2>3, <2>4, <2>5 DEF BuyerRunIInv, AgentRows, RunnerRows
  <1>2. ASSUME BuyerRunIInv PROVE AccountsForPurchases
    BY <1>2 DEF BuyerRunIInv, AccountsForPurchases, StepsBehind, ServedSteps
  <1>3. QED
    BY <1>1, <1>2
LEMMA BuyerRunStep ==
  ASSUME BuyerRunIInv, [AgentNext \/ RunnerNext]_buyerRunVars
  PROVE  BuyerRunIInv'
  <1>1. CASE UNCHANGED buyerRunVars
    BY <1>1 DEF buyerRunVars, BuyerRunIInv, StepsBehind, ServedSteps
  <1>2. QED
    BY <1>1, AgentStep, RunnerStep

\* An agent's entries are its authorizations, and a runner's report adds up to what its
\* steps were served for, for any plan.
THEOREM RunsAccountForPurchases == Spec => []AccountsForPurchases
  <1>1. Init => BuyerRunIInv
    BY BuyerRunHolds DEF Init
  <1>2. BuyerRunIInv /\ [Next]_vars => BuyerRunIInv'
    BY LaneSteps, BuyerRunStep
  <1>3. BuyerRunIInv => AccountsForPurchases
    BY BuyerRunHolds
  <1>4. QED
    BY <1>1, <1>2, <1>3, PTL DEF Spec

-----------------------------------------------------------------------------
(* The shop without the tollbooth. *)

VisitRows ==
  [at : {"new", "recovering", "handing on", "served", "forgotten", "refused", "dropped"},
   payment : Payments \cup {NoPayment}]

\* What counts as served is among the nonces, so who comes late is refused at once.
ShopIInv ==
  /\ visit \in [Visits -> VisitRows]
  /\ late \subseteq Visits
  /\ \A v \in late : visit[v].at = "refused"
  /\ \A v \in Served : Text(v) \in nonces

LEMMA VisitMoves ==
  ASSUME NEW old \in [Visits -> VisitRows], NEW v \in Visits,
         NEW at \in {"refused", "handing on", "served"}
  PROVE  [old EXCEPT ![v].at = at] \in [Visits -> VisitRows]
  BY DEF VisitRows

LEMMA ShopStep ==
  ASSUME ShopIInv, [ShopNext]_shopVars
  PROVE  ShopIInv'
  <1> USE DEF ShopIInv, VisitRows, Served, Text
  <1>1. ASSUME NEW v \in Visits, Visit(v) PROVE ShopIInv'
    <2>1. PICK p \in Payments :
            /\ visit' = [visit EXCEPT ![v] =
                 [at |-> IF TextOf[p] \in nonces THEN "refused" ELSE "recovering", payment |-> p]]
            /\ late' = IF \E w \in Served : Text(w) = TextOf[p] THEN late \cup {v} ELSE late
      BY <1>1 DEF Visit
    <2>2. visit[v].at = "new" /\ UNCHANGED nonces
      BY <1>1 DEF Visit
    <2>3. visit' \in [Visits -> VisitRows] /\ visit'[v].at \in {"refused", "recovering"}
      BY <2>1
    <2>4. TextOf[p] \notin nonces => late' = late
      BY <2>1
    <2>5. QED
      <3>1. TextOf[p] \in nonces => visit'[v].at = "refused"
        BY <2>1
      <3>2. \A w \in Visits \ {v} : visit'[w] = visit[w]
        BY <2>1
      <3>3. late' \subseteq Visits /\ \A w \in late' : visit'[w].at = "refused"
        BY <2>1, <2>2, <2>4, <3>1, <3>2
      <3>4. \A w \in Served' : Text(w)' \in nonces'
        BY <2>2, <2>3, <3>2
      <3>5. QED
        BY <2>3, <3>3, <3>4
  <1>6. ASSUME NEW v \in Visits, visit[v].at \in {"recovering", "handing on"},
               \A w \in Visits \ {v} : visit'[w] = visit[w],
               visit' \in [Visits -> VisitRows], nonces \subseteq nonces', UNCHANGED late,
               visit'[v].at = "served" => Text(v)' \in nonces'
        PROVE  ShopIInv'
    <2>1. \A w \in late' : visit'[w].at = "refused"
      BY <1>6
    <2>2. \A w \in Served' : Text(w)' \in nonces'
      <3>1. ASSUME NEW w \in Visits \ {v}, w \in Served' PROVE Text(w)' \in nonces'
        BY <1>6, <3>1
      <3>2. QED
        BY <1>6, <3>1
    <2>3. QED
      BY <1>6, <2>1, <2>2
  <1>2. ASSUME NEW v \in Visits, Recovered(v) PROVE ShopIInv'
    <2>1. /\ visit[v].at = "recovering" /\ UNCHANGED late
          /\ \/ visit' = [visit EXCEPT ![v].at = "refused"] /\ UNCHANGED nonces
             \/ visit' = [visit EXCEPT ![v].at = "handing on"] /\ UNCHANGED nonces
             \/ /\ visit' = [visit EXCEPT ![v].at = "served"]
                /\ nonces' = nonces \cup {Text(v)}
      BY <1>2 DEF Recovered
    <2>2. visit' \in [Visits -> VisitRows]
      <3>1. visit \in [Visits -> VisitRows]
        OBVIOUS
      <3> HIDE DEF ShopIInv, VisitRows
      <3>2. \A at \in {"refused", "handing on", "served"} :
              [visit EXCEPT ![v].at = at] \in [Visits -> VisitRows]
        BY <3>1, VisitMoves
      <3>3. QED
        BY <2>1, <3>2, Zenon
    <2>3. /\ \A w \in Visits \ {v} : visit'[w] = visit[w]
          /\ visit'[v].payment = visit[v].payment
          /\ visit'[v].at = "served" => nonces' = nonces \cup {Text(v)}
      BY <2>1, ZenonT(40)
    <2>4. QED
      BY <1>6, <2>1, <2>2, <2>3
  <1>3. ASSUME NEW v \in Visits, HandedOn(v) PROVE ShopIInv'
    <2>1. /\ visit[v].at = "handing on" /\ UNCHANGED late
          /\ \/ /\ visit' = [visit EXCEPT ![v].at = "served"]
                /\ nonces' = nonces \cup {Text(v)}
             \/ /\ visit' = [visit EXCEPT ![v].at = "refused"]
                /\ nonces' \in {nonces, nonces \cup {Text(v)}}
      BY <1>3 DEF HandedOn
    <2>2. visit' \in [Visits -> VisitRows]
      <3>1. visit \in [Visits -> VisitRows]
        OBVIOUS
      <3> HIDE DEF ShopIInv, VisitRows
      <3>2. \A at \in {"refused", "handing on", "served"} :
              [visit EXCEPT ![v].at = at] \in [Visits -> VisitRows]
        BY <3>1, VisitMoves
      <3>3. QED
        BY <2>1, <3>2, Zenon
    <2>3. /\ \A w \in Visits \ {v} : visit'[w] = visit[w]
          /\ visit'[v].payment = visit[v].payment
          /\ visit'[v].at = "served" => nonces' = nonces \cup {Text(v)}
          /\ nonces \subseteq nonces'
      BY <2>1, ZenonT(40)
    <2>4. QED
      BY <1>6, <2>1, <2>2, <2>3
  <1>4. CASE StopShop
    <2>1. visit' \in [Visits -> VisitRows] /\ UNCHANGED late
      BY <1>4 DEF StopShop
    <2>2. \A v \in Visits : visit[v].at = "refused" => visit'[v] = visit[v]
      BY <1>4 DEF StopShop
    <2>3. \A v \in Visits : visit'[v].at = "served" => shop # "template" /\ visit'[v] = visit[v]
      BY <1>4 DEF StopShop
    <2>4. shop # "template" => nonces' = nonces
      BY <1>4 DEF StopShop
    <2>5. QED
      BY <2>1, <2>2, <2>3, <2>4
  <1>5. CASE UNCHANGED shopVars
    BY <1>5 DEF shopVars
  <1>7. QED
    BY <1>1, <1>2, <1>3, <1>4, <1>5 DEF ShopNext

LEMMA ShopHolds ==
  /\ KitInit => ShopIInv
  /\ ShopIInv => LateIsRefused
  <1>1. ASSUME KitInit PROVE ShopIInv
    <2>1. \A v \in Visits : visit[v] \in VisitRows /\ visit[v].at = "new"
      BY <1>1 DEF KitInit, VisitRows
    <2>2. late = {} /\ visit = [v \in Visits |-> visit[v]]
      BY <1>1 DEF KitInit
    <2>3. QED
      BY <2>1, <2>2 DEF ShopIInv, Served
  <1>2. ShopIInv => LateIsRefused
    BY DEF ShopIInv, LateIsRefused
  <1>3. QED
    BY <1>1, <1>2

\* A nonce that is presented again, spelled the same, after its service is refused,
\* unless the app has been started again in between.
THEOREM LatePaymentsAreRefused == Spec => []LateIsRefused
  <1>1. Init => ShopIInv
    BY ShopHolds DEF Init
  <1>2. ShopIInv /\ [Next]_vars => ShopIInv'
    BY LaneSteps, ShopStep DEF kitVars
  <1>3. ShopIInv => LateIsRefused
    BY ShopHolds
  <1>4. QED
    BY <1>1, <1>2, <1>3, PTL DEF Spec

-----------------------------------------------------------------------------
(* The scaffold. *)

Busy == {"copying", "patching"}

\* What a run that nobody has mixed with has in the folder: all the files of its
\* template but those that are left, and both scripts once the file of scripts is there.
InFolder(m) ==
  /\ ToSet(TemplateFiles(m)) \subseteq
       ToSet(making[m].left) \cup {f \in AllFiles : folder.by[f] = m}
  /\ "package.json" \in ToSet(making[m].left) \/ folder.scripts = "both"

ScaffoldIInv ==
  /\ making \in [Makings -> [at : {"ready", "refused", "making", "copying", "patching",
                                   "done", "killed"},
                             left : Seq(AllFiles)]]
  /\ folder \in [there : BOOLEAN, by : [AllFiles -> Makings \cup {NoMaking}],
                 scripts : {"none", "both", "seller", "buyer"}]
  /\ \A m \in Makings : making[m].at = "copying" => making[m].left # <<>>
  /\ \A m \in Makings \ mixed :
       /\ making[m].at = "patching" => making[m].left = <<>>
       /\ making[m].at \in Busy => InFolder(m)
  /\ ScaffoldIsWhole

LEMMA Templates ==
  ASSUME NEW m
  PROVE  /\ TemplateFiles(m) \in Seq(AllFiles) /\ TemplateFiles(m) # <<>>
         /\ "package.json" \in ToSet(TemplateFiles(m))
         /\ ToSet(TemplateFiles(m)) \subseteq AllFiles
  <1> DEFINE a == IF m.template = "buyer" THEN <<>> ELSE <<"server">>
             b == IF m.template = "seller" THEN <<>> ELSE <<"buyer">>
  <1>6. {"package.json", "readme", "server", "buyer"} \subseteq AllFiles
    BY DEF AllFiles
  <1>7. Common \in Seq(AllFiles) /\ Len(Common) = 2 /\ Common[1] = "package.json"
    BY <1>6 DEF Common
  <1>8. a \in Seq(AllFiles)
    BY <1>6
  <1>9. b \in Seq(AllFiles)
    BY <1>6
  <1> HIDE DEF a, b
  <1>1. a \in Seq(AllFiles) /\ b \in Seq(AllFiles) /\ Common \in Seq(AllFiles) /\ Len(Common) = 2
          /\ Common[1] = "package.json"
    BY <1>7, <1>8, <1>9
  <1>2. TemplateFiles(m) = Common \o a \o b
    BY DEF TemplateFiles, a, b
  <1> DEFINE t == Common \o a \o b
  <1>3. /\ t \in Seq(AllFiles) /\ Len(t) = 2 + Len(a) + Len(b) /\ Len(a) \in Nat /\ Len(b) \in Nat
        /\ t[1] = "package.json"
    <2> DEFINE ca == Common \o a
    <2>1. ca \in Seq(AllFiles) /\ Len(ca) = 2 + Len(a) /\ ca[1] = "package.json"
            /\ Len(a) \in Nat /\ Len(b) \in Nat
      <3>1. 1 \in 1..2 + Len(a) /\ 1 <= 2 /\ Len(a) \in Nat /\ Len(b) \in Nat
        BY <1>1
      <3>2. /\ Common \o a \in Seq(AllFiles) /\ Len(Common \o a) = Len(Common) + Len(a)
            /\ \A i \in 1..Len(Common) + Len(a) : (Common \o a)[i] =
                 IF i <= Len(Common) THEN Common[i] ELSE a[i - Len(Common)]
        BY <1>1, ConcatProperties
      <3>3. (Common \o a)[1] = Common[1]
        BY <1>1, <3>1, <3>2
      <3>4. QED
        BY <1>1, <3>1, <3>2, <3>3
    <2> HIDE DEF ca
    <2>2. /\ ca \o b \in Seq(AllFiles) /\ Len(ca \o b) = Len(ca) + Len(b)
          /\ (ca \o b)[1] = ca[1]
      <3>1. 1 \in 1..(2 + Len(a)) + Len(b) /\ 1 <= 2 + Len(a)
        BY <2>1
      <3>2. QED
        BY <1>1, <2>1, <3>1, ConcatProperties
    <2>3. QED
      BY <2>1, <2>2 DEF ca
  <1> HIDE DEF t
  <1>4. 1 \in 1..Len(t) /\ DOMAIN t = 1..Len(t) /\ t # <<>>
    BY <1>3
  <1>5. t[1] \in ToSet(t) /\ ToSet(t) \subseteq AllFiles
    BY <1>3, <1>4 DEF ToSet
  <1>10. QED
    BY <1>2, <1>3, <1>4, <1>5 DEF t

LEMMA HeadAndTail ==
  ASSUME NEW S, NEW s \in Seq(S), s # <<>>
  PROVE  /\ Head(s) \in S /\ Tail(s) \in Seq(S)
         /\ ToSet(s) = {Head(s)} \cup ToSet(Tail(s))
         /\ Len(s) = 1 <=> Tail(s) = <<>>
  <1>1. Head(s) \in S /\ Tail(s) \in Seq(S) /\ Head(s) = s[1] /\ Len(s) \in Nat \ {0}
          /\ Len(Tail(s)) = Len(s) - 1 /\ \A i \in 1..Len(s) - 1 : Tail(s)[i] = s[i + 1]
    OBVIOUS
  <1>2. ToSet(s) = {s[i] : i \in 1..Len(s)} /\ ToSet(Tail(s)) = {Tail(s)[i] : i \in 1..Len(s) - 1}
    <2>1. DOMAIN s = 1..Len(s) /\ DOMAIN Tail(s) = 1..Len(s) - 1
      BY <1>1
    <2>2. QED
      BY <2>1 DEF ToSet
  <1>3. ASSUME NEW i \in 1..Len(s) PROVE s[i] \in {Head(s)} \cup ToSet(Tail(s))
    <2>1. CASE i = 1
      BY <1>1, <2>1
    <2>2. CASE i # 1
      <3>1. i - 1 \in 1..Len(s) - 1 /\ (i - 1) + 1 = i
        BY <1>1, <2>2
      <3>2. Tail(s)[i - 1] = s[i]
        BY <1>1, <3>1
      <3>3. QED
        BY <1>2, <3>1, <3>2
    <2>3. QED
      BY <2>1, <2>2
  <1>4. ASSUME NEW i \in 1..Len(s) - 1 PROVE Tail(s)[i] \in ToSet(s)
    <2>1. i + 1 \in 1..Len(s) /\ Tail(s)[i] = s[i + 1]
      BY <1>1
    <2>2. QED
      BY <1>2, <2>1
  <1>5. Head(s) \in ToSet(s)
    BY <1>1, <1>2
  <1>6. Len(s) = 1 <=> Tail(s) = <<>>
    BY <1>1
  <1>7. QED
    BY <1>1, <1>2, <1>3, <1>4, <1>5, <1>6

MakingRows ==
  [at : {"ready", "refused", "making", "copying", "patching", "done", "killed"},
   left : Seq(AllFiles)]

\* The others are mixed with, and the writer itself if another run is at work.
LEMMA MixSpares ==
  ASSUME NEW m \in Makings, Mix(m), NEW o \in Makings \ mixed', o # m
  PROVE  o \notin mixed /\ making[o].at \in {"ready", "refused"}
  BY DEF Mix

LEMMA ScaffoldStep ==
  ASSUME ScaffoldIInv, [ScaffoldNext]_scaffoldVars
  PROVE  ScaffoldIInv'
  <1>1. /\ making \in [Makings -> MakingRows]
        /\ folder \in [there : BOOLEAN, by : [AllFiles -> Makings \cup {NoMaking}],
                       scripts : {"none", "both", "seller", "buyer"}]
    BY DEF ScaffoldIInv, MakingRows
  \* Only the run that moves has something to show.
  <1>2. ASSUME NEW m \in Makings, making' \in [Makings -> MakingRows],
               folder' \in [there : BOOLEAN, by : [AllFiles -> Makings \cup {NoMaking}],
                            scripts : {"none", "both", "seller", "buyer"}],
               \A o \in Makings \ {m} : making'[o] = making[o],
               \/ folder'.by = folder.by /\ folder'.scripts = folder.scripts /\ mixed' = mixed
               \/ Mix(m),
               making'[m].at = "copying" => making'[m].left # <<>>,
               m \notin mixed' =>
                 /\ making'[m].at = "patching" => making'[m].left = <<>>
                 /\ making'[m].at \in Busy => InFolder(m)'
                 /\ making'[m].at = "done" =>
                      /\ \A f \in ToSet(TemplateFiles(m)) : folder'.by[f] = m
                      /\ folder'.scripts = m.template
        PROVE  ScaffoldIInv'
    <2>1. ASSUME NEW o \in Makings \ mixed', o # m
          PROVE  /\ making'[o].at = "patching" => making'[o].left = <<>>
                 /\ making'[o].at \in Busy => InFolder(o)'
                 /\ making'[o].at = "done" =>
                      /\ \A f \in ToSet(TemplateFiles(o)) : folder'.by[f] = o
                      /\ folder'.scripts = o.template
      <3>1. CASE Mix(m)
        <4>1. making'[o].at \in {"ready", "refused"}
          BY <1>2, <2>1, <3>1, MixSpares
        <4>2. QED
          BY <4>1 DEF Busy
      <3>2. CASE folder'.by = folder.by /\ folder'.scripts = folder.scripts /\ mixed' = mixed
        <4>1. o \in Makings \ mixed /\ making'[o] = making[o]
          BY <1>2, <2>1, <3>2
        <4>2. InFolder(o) => InFolder(o)'
          BY <3>2, <4>1 DEF InFolder
        <4>3. QED
          BY <3>2, <4>1, <4>2 DEF ScaffoldIInv, ScaffoldIsWhole
      <3>3. QED
        BY <1>2, <3>1, <3>2
    <2>2. QED
      BY <1>2, <2>1 DEF ScaffoldIInv, ScaffoldIsWhole, MakingRows
  <1>3. ASSUME NEW m \in Makings, Look(m) PROVE ScaffoldIInv'
    <2>1. making' \in [Makings -> MakingRows] /\ making'[m].at \in {"refused", "making"}
            /\ \A o \in Makings \ {m} : making'[o] = making[o]
      BY <1>1, <1>3 DEF Look, MakingRows
    <2>2. UNCHANGED <<folder, mixed>>
      BY <1>3 DEF Look
    <2>3. QED
      BY <1>1, <1>2, <2>1, <2>2 DEF Busy
  <1>4. ASSUME NEW m \in Makings, MakeFolder(m) PROVE ScaffoldIInv'
    <2>1. /\ folder' = [folder EXCEPT !.there = TRUE] /\ UNCHANGED mixed
          /\ making' = [making EXCEPT ![m] = [at |-> "copying", left |-> TemplateFiles(m)]]
      BY <1>4 DEF MakeFolder
    <2>2. making' \in [Makings -> MakingRows]
            /\ making'[m] = [at |-> "copying", left |-> TemplateFiles(m)]
            /\ \A o \in Makings \ {m} : making'[o] = making[o]
      BY <1>1, <2>1, Templates DEF MakingRows
    <2>3. folder'.by = folder.by /\ folder'.scripts = folder.scripts
            /\ folder' \in [there : BOOLEAN, by : [AllFiles -> Makings \cup {NoMaking}],
                            scripts : {"none", "both", "seller", "buyer"}]
      BY <1>1, <2>1
    <2>4. InFolder(m)'
      BY <2>2, Templates DEF InFolder
    <2>5. QED
      BY <1>2, <2>1, <2>2, <2>3, <2>4, Templates
  <1>5. ASSUME NEW m \in Makings, CopyFile(m) PROVE ScaffoldIInv'
    <2> DEFINE s == making[m].left
               f == Head(s)
    <2>1. /\ making[m].at = "copying" /\ Mix(m)
          /\ folder' = [folder EXCEPT !.by[f] = m,
                                      !.scripts = IF f = "package.json" THEN "both" ELSE @]
          /\ making' = [making EXCEPT ![m] =
               [at |-> IF Len(s) = 1 THEN "patching" ELSE "copying", left |-> Tail(s)]]
      BY <1>5 DEF CopyFile
    <2>2. s \in Seq(AllFiles)
      BY <1>1 DEF MakingRows
    <2>3. m \notin mixed' => m \notin mixed
      BY <2>1 DEF Mix
    <2> HIDE DEF s
    <2>4. s # <<>>
      BY <2>1 DEF ScaffoldIInv, s
    <2>5. QED
      <3>1. f \in AllFiles /\ Tail(s) \in Seq(AllFiles) /\ ToSet(s) = {f} \cup ToSet(Tail(s))
              /\ (Len(s) = 1 <=> Tail(s) = <<>>)
        BY <2>2, <2>4, HeadAndTail
      <3> HIDE DEF f
      <3>2. /\ making' \in [Makings -> MakingRows] /\ making'[m].left = Tail(s)
            /\ making'[m].at = (IF Tail(s) = <<>> THEN "patching" ELSE "copying")
            /\ \A o \in Makings \ {m} : making'[o] = making[o]
        BY <1>1, <2>1, <3>1 DEF MakingRows
      <3>3. /\ folder' \in [there : BOOLEAN, by : [AllFiles -> Makings \cup {NoMaking}],
                             scripts : {"none", "both", "seller", "buyer"}]
            /\ folder'.by = [folder.by EXCEPT ![f] = m]
            /\ folder'.scripts = IF f = "package.json" THEN "both" ELSE folder.scripts
        BY <1>1, <2>1, <3>1
      <3>4. ASSUME m \notin mixed' PROVE InFolder(m)'
        <4>1. InFolder(m)
          BY <2>1, <2>3, <3>4 DEF ScaffoldIInv, Busy
        <4>2. \A g \in AllFiles : folder.by[g] = m \/ g = f => folder'.by[g] = m
          BY <1>1, <3>1, <3>3
        <4>3. {g \in AllFiles : folder.by[g] = m} \cup {f} \subseteq {g \in AllFiles : folder'.by[g] = m}
          BY <3>1, <4>2
        <4>4. ToSet(TemplateFiles(m)) \subseteq ToSet(s) \cup {g \in AllFiles : folder.by[g] = m}
          BY <4>1 DEF InFolder, s
        <4>5. "package.json" \in ToSet(s) \/ folder.scripts = "both"
          BY <4>1 DEF InFolder, s
        <4>6. QED
          BY <3>1, <3>2, <3>3, <4>3, <4>4, <4>5 DEF InFolder
      <3>5. making'[m].at \in {"patching", "copying"}
        BY <3>2
      <3>6. QED
        BY <1>2, <2>1, <3>2, <3>3, <3>4, <3>5
  <1>6. ASSUME NEW m \in Makings, Patch(m) PROVE ScaffoldIInv'
    <2>1. /\ making[m].at = "patching" /\ Mix(m)
          /\ folder' = [folder EXCEPT !.scripts =
               IF m.template = "both" THEN @
               ELSE IF @ \in {"both", m.template} THEN m.template ELSE "none"]
          /\ making' = [making EXCEPT ![m].at = "done"]
      BY <1>6 DEF Patch
    <2>2. making' \in [Makings -> MakingRows] /\ making'[m].at = "done"
            /\ \A o \in Makings \ {m} : making'[o] = making[o]
      BY <1>1, <2>1 DEF MakingRows
    <2>3. /\ folder' \in [there : BOOLEAN, by : [AllFiles -> Makings \cup {NoMaking}],
                           scripts : {"none", "both", "seller", "buyer"}]
          /\ folder'.by = folder.by
          /\ folder'.scripts = IF m.template = "both" THEN folder.scripts
               ELSE IF folder.scripts \in {"both", m.template} THEN m.template ELSE "none"
      <3> DEFINE to == IF m.template = "both" THEN folder.scripts
                       ELSE IF folder.scripts \in {"both", m.template} THEN m.template ELSE "none"
      <3>1. to \in {"none", "both", "seller", "buyer"}
        BY <1>1, SellerKitAssumption
      <3>2. folder' = [folder EXCEPT !.scripts = to]
        BY <2>1
      <3>3. folder'.scripts = to /\ folder'.by = folder.by
              /\ folder' \in [there : BOOLEAN, by : [AllFiles -> Makings \cup {NoMaking}],
                              scripts : {"none", "both", "seller", "buyer"}]
        <4> HIDE DEF to
        <4>1. QED
          BY <1>1, <3>1, <3>2
      <3>4. QED
        BY <3>3
    <2>4. ASSUME m \notin mixed'
          PROVE  /\ \A f \in ToSet(TemplateFiles(m)) : folder'.by[f] = m
                 /\ folder'.scripts = m.template
      <3>1. m \notin mixed
        BY <2>1, <2>4 DEF Mix
      <3>2. InFolder(m) /\ making[m].left = <<>>
        BY <2>1, <3>1 DEF ScaffoldIInv, Busy
      <3>3. ToSet(making[m].left) = {}
        BY <3>2 DEF ToSet
      <3>4. folder.scripts = "both" /\ \A f \in ToSet(TemplateFiles(m)) : folder.by[f] = m
        BY <3>2, <3>3 DEF InFolder
      <3>5. QED
        BY <2>3, <3>4
    <2>5. QED
      BY <1>2, <2>1, <2>2, <2>3, <2>4 DEF Busy
  <1>7. ASSUME NEW m \in Makings, KillMaking(m) PROVE ScaffoldIInv'
    <2>1. making' = [making EXCEPT ![m].at = "killed", ![m].left = <<>>]
            /\ UNCHANGED <<folder, mixed>>
      BY <1>7 DEF KillMaking
    <2>2. making' \in [Makings -> MakingRows] /\ making'[m].at = "killed"
            /\ \A o \in Makings \ {m} : making'[o] = making[o]
      <3>1. [making[m] EXCEPT !.at = "killed", !.left = <<>>] \in MakingRows
        <4>1. making[m] \in MakingRows
          BY <1>1
        <4>2. <<>> \in Seq(AllFiles)
          OBVIOUS
        <4>3. \A none \in Seq(AllFiles) :
                [making[m] EXCEPT !.at = "killed", !.left = none] \in MakingRows
          BY <4>1 DEF MakingRows
        <4>4. QED
          BY <4>2, <4>3
      <3>2. making' = [making EXCEPT ![m] = [making[m] EXCEPT !.at = "killed", !.left = <<>>]]
        BY <1>1, <2>1 DEF MakingRows
      <3>3. [making[m] EXCEPT !.at = "killed", !.left = <<>>].at = "killed"
        BY <1>1 DEF MakingRows
      <3>4. QED
        BY <1>1, <3>1, <3>2, <3>3
    <2>3. QED
      BY <1>1, <1>2, <2>1, <2>2 DEF Busy
  <1>8. CASE UNCHANGED scaffoldVars
    BY <1>8 DEF scaffoldVars, ScaffoldIInv, InFolder, ScaffoldIsWhole
  <1>9. QED
    BY <1>3, <1>4, <1>5, <1>6, <1>7, <1>8 DEF ScaffoldNext

LEMMA ScaffoldHolds ==
  /\ KitInit => ScaffoldIInv
  /\ ScaffoldIInv => ScaffoldIsWhole
  <1>1. ASSUME KitInit PROVE ScaffoldIInv
    <2>1. making \in [Makings -> MakingRows] /\ \A m \in Makings : making[m].at = "ready"
      BY <1>1 DEF KitInit, MakingRows
    <2>2. folder \in [there : BOOLEAN, by : [AllFiles -> Makings \cup {NoMaking}],
                      scripts : {"none", "both", "seller", "buyer"}]
      BY <1>1 DEF KitInit
    <2>3. QED
      BY <2>1, <2>2 DEF ScaffoldIInv, ScaffoldIsWhole, MakingRows, Busy
  <1>2. QED
    BY <1>1 DEF ScaffoldIInv

\* A run of the scaffold that nobody mixes into leaves all the files of its template.
THEOREM ScaffoldsAreWhole == Spec => []ScaffoldIsWhole
  <1>1. Init => ScaffoldIInv
    BY ScaffoldHolds DEF Init
  <1>2. ScaffoldIInv /\ [Next]_vars => ScaffoldIInv'
    BY LaneSteps, ScaffoldStep DEF kitVars
  <1>3. ScaffoldIInv => ScaffoldIsWhole
    BY ScaffoldHolds
  <1>4. QED
    BY <1>1, <1>2, <1>3, PTL DEF Spec
=============================================================================
