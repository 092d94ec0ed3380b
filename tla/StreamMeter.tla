----------------------------- MODULE StreamMeter -----------------------------
(***************************************************************************)
(* The stream meter: a process of its own that sends one socket a tick per *)
(* interval, up to the cap of the first message, and writes one ledger row *)
(* per Batch ticks.  The callback of the interval is asynchronous: while   *)
(* one awaits its row, the interval goes on calling, and it looks at the   *)
(* cap only when it resumes.                                               *)
(***************************************************************************)
EXTENDS Naturals, FiniteSets

CONSTANTS
  Batch,      \* SETTLE_EVERY_N_TICKS: 100 in the code
  MaxCap,     \* 50000 in the code
  Asked,      \* caps a client may ask for, in ticks it takes to reach them
  NaN,        \* the cap that comes of a text that is no number
  MaxTicks    \* bound: ticks modelled of a stream that does not end

ASSUME StreamAssumption ==
  /\ Batch \in Nat \ {0, 1} /\ MaxCap \in Nat \ {0} /\ MaxTicks \in Nat
  /\ Asked \subseteq Nat /\ NaN \notin Nat

VARIABLES
  socket,     \* open, or closed by either side
  authed,     \* a first message has been accepted
  cap,        \* ticks the stream is to have
  ticking,    \* the interval is set
  tickCount,  \* ticks sent
  writing,    \* batches whose callback awaits insertAction
  finishing,  \* batches whose callback awaits completeAction
  billed,     \* batches with a row
  lost        \* history: batches whose insert has failed or was cut off

stream == <<socket, authed, cap, ticking, tickCount>>
rows == <<writing, finishing, billed, lost>>
streamVars == <<stream, rows>>

Batches == 1..MaxTicks \div Batch

StreamTypeOK ==
  /\ socket \in {"open", "closed"}
  /\ authed \in BOOLEAN /\ ticking \in BOOLEAN
  /\ cap \in 0..MaxCap \cup {NaN}
  /\ authed => cap # 0
  /\ tickCount \in 0..MaxTicks
  /\ \A S \in {writing, finishing, billed, lost} : S \subseteq Batches

\* No number is at least NaN.
ReachesCap(n) == cap # NaN /\ n >= cap

-----------------------------------------------------------------------------
Clamp(n) ==
  CASE n = NaN -> NaN
    [] n # NaN /\ n > MaxCap -> MaxCap
    [] n # NaN /\ n < 1 -> 1
    [] OTHER -> n

\* The first message with an auth; later ones are ignored.
Accept(n) ==
  /\ socket = "open" /\ ~authed
  /\ authed' = TRUE
  /\ cap' = Clamp(n)
  /\ ticking' = TRUE
  /\ UNCHANGED <<socket, tickCount, rows>>

\* A message without an auth, or none that parses, and any close by the client.
Hangup ==
  /\ socket = "open"
  /\ socket' = "closed"
  /\ ticking' = FALSE
  /\ UNCHANGED <<authed, cap, tickCount, rows>>

\* mistake: the cap is compared for equality
EndExactlyAtCap ==
  IF cap # NaN /\ tickCount' = cap
  THEN socket' = "closed" /\ ticking' = FALSE
  ELSE UNCHANGED <<socket, ticking>>

\* The end of the callback: the cap is reached, the socket closed, and the interval
\* cleared, whichever callback sees it.
EndAtCap ==
  IF ReachesCap(tickCount')
  THEN socket' = "closed" /\ ticking' = FALSE
  ELSE UNCHANGED <<socket, ticking>>

SendTick ==
  /\ ticking /\ socket = "open" /\ tickCount < MaxTicks
  /\ tickCount' = tickCount + 1
  /\ UNCHANGED <<authed, cap>>

\* mistake: a stream that has reached its cap is closed before its batch is counted
TickEndsFirst ==
  /\ SendTick
  /\ IF tickCount' % Batch = 0 /\ ~ReachesCap(tickCount')
     THEN /\ writing' = writing \cup {tickCount' \div Batch}
          /\ UNCHANGED <<socket, ticking>>
     ELSE UNCHANGED writing /\ EndAtCap
  /\ UNCHANGED <<finishing, billed, lost>>

\* One call of the interval.  A full batch awaits its row before it comes to the
\* cap; any other tick comes to it at once.
Tick ==
  /\ SendTick
  /\ IF tickCount' % Batch = 0
     THEN /\ writing' = writing \cup {tickCount' \div Batch}
          /\ UNCHANGED <<socket, ticking>>
     ELSE UNCHANGED writing /\ EndAtCap
  /\ UNCHANGED <<finishing, billed, lost>>

\* insertAction returns, ...
Insert(b) ==
  /\ b \in writing
  /\ writing' = writing \ {b}
  /\ billed' = billed \cup {b}
  /\ finishing' = finishing \cup {b}
  /\ UNCHANGED <<stream, lost>>

\* ... or fails: completeAction is skipped, the cap is not.
InsertFails(b) ==
  /\ b \in writing
  /\ writing' = writing \ {b}
  /\ lost' = lost \cup {b}
  /\ UNCHANGED <<authed, cap, tickCount, finishing, billed>>
  /\ EndAtCap

\* completeAction returns or fails.
Finish(b) ==
  /\ b \in finishing
  /\ finishing' = finishing \ {b}
  /\ UNCHANGED <<authed, cap, tickCount, writing, billed, lost>>
  /\ EndAtCap

\* The process dies.
Crash ==
  /\ socket' = "closed" /\ ticking' = FALSE
  /\ lost' = lost \cup writing
  /\ writing' = {} /\ finishing' = {}
  /\ UNCHANGED <<authed, cap, tickCount, billed>>

-----------------------------------------------------------------------------
StreamInit ==
  /\ socket = "open" /\ authed = FALSE /\ ticking = FALSE
  /\ cap = 0 /\ tickCount = 0
  /\ writing = {} /\ finishing = {} /\ billed = {} /\ lost = {}

StreamNext ==
  \/ \E n \in Asked \cup {NaN} : Accept(n)
  \/ Hangup \/ Tick \/ Crash
  \/ \E b \in Batches : Insert(b) \/ InsertFails(b) \/ Finish(b)

StreamSpec == StreamInit /\ [][StreamNext]_streamVars

\* The interval fires; that a row is ever written is not assumed.
StreamFairness == WF_streamVars(Tick)

-----------------------------------------------------------------------------
(* Properties. *)

\* A stream stops at its cap, or one tick past it: when the cap ends a batch, the
\* next tick may come while the batch awaits its row, and that tick ends the stream.
StopsAtMostOnePastCap == authed /\ cap # NaN => tickCount <= cap + 1

\* Ticks are billed in full batches: what is delivered and neither billed, being
\* billed, nor lost with a failed insert is less than a batch, also at the end.
UnbilledIsLessThanABatch ==
  /\ Batch * Cardinality(billed) <= tickCount
  /\ tickCount < Batch * (Cardinality(billed \cup writing \cup lost) + 1)

\* A stream with a number for a cap ends, though no insert may ever return.
StreamEnds == authed /\ cap # NaN ~> socket = "closed"
=============================================================================
