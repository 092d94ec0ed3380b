--------------------------- MODULE DemoRunnerProofs ---------------------------
(***************************************************************************)
(* Theorems about DemoRunner for any number of runs.                       *)
(***************************************************************************)
EXTENDS DemoRunner, FiniteSetTheorems, TLAPS

\* Runs whose phase is one of L.
In(L) == {r \in Runs : phase[r] \in L}

Past == {"errored", "revoking", "deleting", "done"}
Open == UnderWay \cup {"errored"}

(* The tables go with the phase of a run, and the reaper only meets runs that are
   over. *)
Rows ==
  /\ \A r \in Runs : phase[r] \in {"none", "founding"} => org[r] = "none"
  /\ \A r \in Runs : phase[r] = "keying" => org[r] # "none"
  /\ server # "up" => \A r \in Runs : phase[r] \in {"none", "done"}
  /\ server # "reaping" => stale = {}
  /\ stale \subseteq swept
  /\ \A r \in swept : phase[r] = "done"
  /\ \A r \in (swept \ stale) \cup reaped : key[r] # "live"

(* A run whose 'close' is still to come is the one shown as running, or there has
   been an error for it. *)
Counts ==
  /\ errors <= Cardinality(In(Past))
  /\ Cardinality(In(Open)) <= errors + (IF status = "running" THEN 1 ELSE 0)

(* While every child could be spawned, no second run begins before the first is over. *)
Alone ==
  errors = 0 =>
    /\ \A r \in Runs : phase[r] # "errored"
    /\ \A q, r \in Active : q = r
    /\ status = "running" <=> Active # {}

Typed ==
  /\ server \in {"down", "reaping", "up"}
  /\ status \in {"idle", "running", "ok", "fail"}
  /\ phase \in [Runs -> Phases]
  /\ ids \subseteq Runs
  /\ org \in [Runs -> {"none", "young", "old"}]
  /\ key \in [Runs -> {"none", "live", "revoked"}]
  /\ \A r \in Runs : key[r] # "none" => org[r] # "none"
  /\ stale \subseteq Runs /\ reaped \subseteq stale
  /\ errors \in Nat
  /\ dropped \subseteq Runs /\ swept \subseteq Runs

IInv == Typed /\ Rows /\ Alone /\ Counts

-----------------------------------------------------------------------------
(* Phases. *)

LEMMA Moves ==
  ASSUME Typed, NEW r \in Runs, NEW label \in Phases, Enter(r, label)
  PROVE  /\ phase' \in [Runs -> Phases] /\ phase'[r] = label
         /\ \A q \in Runs \ {r} : phase'[q] = phase[q]
  BY DEF Typed, Enter

LEMMA FinitelyMany == ASSUME NEW L PROVE IsFiniteSet(In(L)) /\ Cardinality(In(L)) \in Nat
  BY RunsAssumption, FS_Subset, FS_CardinalityType DEF In

\* How many runs are in L after one of them has moved.
LEMMA Comes ==
  ASSUME NEW L, NEW r \in Runs, phase[r] \notin L, phase'[r] \in L,
         \A q \in Runs \ {r} : phase'[q] = phase[q]
  PROVE  Cardinality({q \in Runs : phase'[q] \in L}) = Cardinality(In(L)) + 1
  <1>1. {q \in Runs : phase'[q] \in L} = In(L) \cup {r} /\ r \notin In(L)
    BY DEF In
  <1>2. QED
    BY <1>1, FinitelyMany, FS_AddElement

LEMMA Goes ==
  ASSUME NEW L, NEW r \in Runs, phase[r] \in L, phase'[r] \notin L,
         \A q \in Runs \ {r} : phase'[q] = phase[q]
  PROVE  Cardinality({q \in Runs : phase'[q] \in L}) = Cardinality(In(L)) - 1
  <1>1. {q \in Runs : phase'[q] \in L} = In(L) \ {r} /\ r \in In(L)
    BY DEF In
  <1>2. QED
    BY <1>1, FinitelyMany, FS_RemoveElement

LEMMA Stays ==
  ASSUME NEW L, \A q \in Runs : phase'[q] \in L <=> phase[q] \in L
  PROVE  Cardinality({q \in Runs : phase'[q] \in L}) = Cardinality(In(L))
  BY DEF In

-----------------------------------------------------------------------------
(* Types. *)

LEMMA TypedStep == ASSUME Typed, Rows, [DemoNext]_demoVars PROVE Typed'
  <1> USE DEF tables, demo, reaper
  <1>1. ASSUME NEW r \in Runs, Run(r) PROVE Typed'
    <2>1. phase' \in [Runs -> Phases]
      BY <1>1, Moves DEF Run, Phases
    <2>2. QED
      BY <1>1, <2>1 DEF Run, Typed
  <1>2. ASSUME NEW r \in Runs, FoundOrg(r) PROVE Typed'
    <2>1. phase' \in [Runs -> Phases]
      BY <1>2, Moves DEF FoundOrg, Phases
    <2>2. QED
      BY <1>2, <2>1 DEF FoundOrg, Typed
  <1>3. ASSUME NEW r \in Runs, MintKey(r) PROVE Typed'
    <2>1. phase' \in [Runs -> Phases]
      BY <1>3, Moves DEF MintKey, Phases
    <2>2. QED
      BY <1>3, <2>1 DEF MintKey, Typed
  <1>4. ASSUME NEW r \in Runs, MintFails(r) PROVE Typed'
    <2>1. phase' \in [Runs -> Phases]
      BY <1>4, Moves DEF MintFails, Phases
    <2>2. QED
      BY <1>4, <2>1 DEF MintFails, Typed, Rows
  <1>5. ASSUME NEW r \in Runs, Spawn(r) \/ SpawnError(r) \/ Close(r) PROVE Typed'
    <2>1. phase' \in [Runs -> Phases]
      BY <1>5, Moves DEF Spawn, SpawnError, Close, Phases
    <2>2. QED
      BY <1>5, <2>1 DEF Spawn, SpawnError, Close, Typed
  <1>6. ASSUME NEW r \in Runs, TakeBackKey(r) \/ TakeBackOrg(r) \/ CleanupFails(r) PROVE Typed'
    <2>1. phase' \in [Runs -> Phases]
      BY <1>6, Moves DEF TakeBackKey, TakeBackOrg, CleanupFails, Phases
    <2>2. QED
      BY <1>6, <2>1 DEF TakeBackKey, TakeBackOrg, CleanupFails, RevokeKey, DeleteOrg, Typed
  <1>7. ASSUME NEW r \in Runs, GrowsOld(r) PROVE Typed'
    BY <1>7 DEF GrowsOld, Typed
  <1>8. CASE Crash
    BY <1>8 DEF Crash, Typed, Phases
  <1>9. CASE Boot
    BY <1>9 DEF Boot, Typed, Rows
  <1>10. ASSUME NEW r \in Runs, ReapKeys(r) \/ ReapOrg(r) PROVE Typed'
    BY <1>10 DEF ReapKeys, ReapOrg, RevokeKey, DeleteOrg, Typed
  <1>11. CASE ReapFails \/ Listen
    BY <1>11 DEF ReapFails, Listen, Typed
  <1>12. CASE UNCHANGED demoVars
    BY <1>12 DEF demoVars, Typed
  <1>13. QED
    BY <1>1, <1>2, <1>3, <1>4, <1>5, <1>6, <1>7, <1>8, <1>9, <1>10, <1>11, <1>12
       DEF DemoNext, Step, Reap

-----------------------------------------------------------------------------
(* Tables and the reaper. *)

LEMMA RowsStep == ASSUME Typed, Rows, [DemoNext]_demoVars PROVE Rows'
  <1> USE DEF tables, demo, reaper
  <1>1. ASSUME NEW r \in Runs, Run(r) \/ Step(r) PROVE Rows'
    <2>1. \A q \in Runs \ {r} : /\ phase'[q] = phase[q] /\ org'[q] = org[q]
                                /\ key'[q] = key[q]
      BY <1>1 DEF Step, Run, FoundOrg, MintKey, MintFails, Spawn, SpawnError, Close, TakeBackKey,
                  TakeBackOrg, CleanupFails, RevokeKey, DeleteOrg, Enter, Typed
    <2>2. UNCHANGED reaper
      BY <1>1 DEF Step, Run, FoundOrg, MintKey, MintFails, Spawn, SpawnError, Close, TakeBackKey,
                  TakeBackOrg, CleanupFails
    <2>3. phase[r] \in Phases \ {"done"} /\ server = "up" /\ r \notin swept
      <3>1. phase[r] \in Phases \ {"done"}
        BY <1>1 DEF Step, Run, FoundOrg, MintKey, MintFails, Spawn, SpawnError, Close, TakeBackKey,
                    TakeBackOrg, CleanupFails, Phases
      <3>2. phase[r] = "none" => server = "up"
        BY <1>1 DEF Step, Run, FoundOrg, MintKey, MintFails, Spawn, SpawnError, Close, TakeBackKey,
                    TakeBackOrg, CleanupFails
      <3>3. QED
        BY <3>1, <3>2 DEF Rows, Typed
    <2>4. /\ phase'[r] \in {"none", "founding"} => org'[r] = "none"
          /\ phase'[r] = "keying" => org'[r] # "none"
      BY <1>1 DEF Step, Run, FoundOrg, MintKey, MintFails, Spawn, SpawnError, Close, TakeBackKey,
                  TakeBackOrg, CleanupFails, RevokeKey, DeleteOrg, Enter, Typed, Rows
    <2>5. \A q \in swept : q # r /\ q \in Runs
      BY <2>3 DEF Typed
    <2>6. QED
      BY <2>1, <2>2, <2>3, <2>4, <2>5 DEF Rows, Typed
  <1>2. ASSUME NEW r \in Runs, GrowsOld(r) PROVE Rows'
    BY <1>2 DEF GrowsOld, Rows, Typed
  <1>3. CASE Crash
    BY <1>3 DEF Crash, Rows, Typed
  <1>4. CASE Boot
    BY <1>4 DEF Boot, Rows, Typed
  <1>5. ASSUME NEW r \in Runs, ReapKeys(r) PROVE Rows'
    BY <1>5 DEF ReapKeys, RevokeKey, Rows, Typed
  <1>6. ASSUME NEW r \in Runs, ReapOrg(r) PROVE Rows'
    <2>1. server = "reaping" /\ r \in swept /\ phase[r] = "done" /\ key[r] # "live"
      BY <1>6 DEF ReapOrg, Rows, Typed
    <2>2. QED
      BY <1>6, <2>1 DEF ReapOrg, DeleteOrg, Rows, Typed
  <1>7. CASE ReapFails \/ Listen
    BY <1>7 DEF ReapFails, Listen, Rows, Typed
  <1>8. CASE UNCHANGED demoVars
    BY <1>8 DEF demoVars, Rows
  <1>9. QED
    BY <1>1, <1>2, <1>3, <1>4, <1>5, <1>6, <1>7, <1>8 DEF DemoNext, Reap

-----------------------------------------------------------------------------
(* The state that is shown. *)

LEMMA AloneStep == ASSUME Typed, Rows, Alone, [DemoNext]_demoVars PROVE Alone'
  <1> USE DEF tables, demo, reaper
  <1> SUFFICES ASSUME errors' = 0
               PROVE  /\ \A q \in Runs : phase'[q] # "errored"
                      /\ \A p, q \in Runs : phase'[p] \in UnderWay /\ phase'[q] \in UnderWay => p = q
                      /\ status' = "running" <=> \E q \in Runs : phase'[q] \in UnderWay
    BY DEF Alone, Active
  <1> DEFINE Good == /\ \A q \in Runs : phase'[q] # "errored"
                     /\ \A p, q \in Runs : phase'[p] \in UnderWay /\ phase'[q] \in UnderWay => p = q
                     /\ status' = "running" <=> \E q \in Runs : phase'[q] \in UnderWay
             Now == /\ \A q \in Runs : phase[q] # "errored"
                    /\ \A p, q \in Runs : phase[p] \in UnderWay /\ phase[q] \in UnderWay => p = q
                    /\ status = "running" <=> \E q \in Runs : phase[q] \in UnderWay
  <1>1. errors = 0 => Now
    BY DEF Alone, Active
  <1>2. ASSUME NEW r \in Runs, NEW label \in UnderWay, errors = 0, Enter(r, label), status' = status,
               phase[r] \in UnderWay
        PROVE  Good
    BY <1>1, <1>2 DEF Enter, Typed, UnderWay
  <1>3. ASSUME NEW r \in Runs, Run(r) PROVE Good
    BY <1>1, <1>3 DEF Run, Enter, Typed, UnderWay
  <1>4. ASSUME NEW r \in Runs, FoundOrg(r) \/ MintKey(r) \/ MintFails(r) \/ Spawn(r) PROVE Good
    BY <1>2, <1>4 DEF FoundOrg, MintKey, MintFails, Spawn, UnderWay
  <1>5. ASSUME NEW r \in Runs, SpawnError(r) PROVE FALSE
    BY <1>5 DEF SpawnError, Typed
  <1>6. ASSUME NEW r \in Runs, Close(r) PROVE Good
    <2>1. errors = 0 /\ phase[r] = "child" /\ status' \in {"ok", "fail"}
      BY <1>1, <1>6 DEF Close
    <2>2. /\ phase'[r] \in {"revoking", "done"}
          /\ \A q \in Runs \ {r} : phase'[q] = phase[q] /\ phase[q] \notin UnderWay
      BY <1>1, <1>6, <2>1 DEF Close, Enter, Typed, UnderWay
    <2>3. QED
      BY <1>1, <2>1, <2>2 DEF UnderWay
  <1>7. ASSUME NEW r \in Runs, TakeBackKey(r) \/ TakeBackOrg(r) \/ CleanupFails(r) PROVE Good
    BY <1>1, <1>7 DEF TakeBackKey, TakeBackOrg, CleanupFails, Enter, Typed, UnderWay
  <1>8. CASE Crash
    BY <1>8 DEF Crash, Typed, UnderWay
  <1>9. CASE UNCHANGED demo
    BY <1>1, <1>9
  <1>10. QED
    BY <1>3, <1>4, <1>5, <1>6, <1>7, <1>8, <1>9
       DEF DemoNext, Step, Reap, GrowsOld, Boot, ReapKeys, ReapOrg, ReapFails, Listen, demoVars

LEMMA CountsStep == ASSUME Typed, Counts, [DemoNext]_demoVars PROVE Counts'
  <1> USE DEF tables, demo, reaper
  <1> DEFINE past == Cardinality(In(Past))
             open == Cardinality(In(Open))
             shown == IF status = "running" THEN 1 ELSE 0
             past1 == Cardinality({q \in Runs : phase'[q] \in Past})
             open1 == Cardinality({q \in Runs : phase'[q] \in Open})
             shown1 == IF status' = "running" THEN 1 ELSE 0
  <1>0. past \in Nat /\ open \in Nat /\ errors \in Nat /\ errors <= past /\ open <= errors + shown
    BY FinitelyMany DEF Counts, Typed
  <1> SUFFICES errors' <= past1 /\ open1 <= errors' + shown1
    BY DEF Counts, In
  <1>1. ASSUME NEW r \in Runs, Run(r) PROVE errors' <= past1 /\ open1 <= errors' + shown1
    <2>1. /\ phase'[r] = "founding" /\ \A q \in Runs \ {r} : phase'[q] = phase[q]
          /\ phase[r] = "none" /\ shown = 0 /\ shown1 = 1 /\ errors' = errors
      BY <1>1, Moves DEF Run, Phases
    <2>2. past1 = past
      BY <2>1, Stays DEF Past
    <2>3. open1 = open + 1
      BY <2>1, Comes DEF Open, UnderWay
    <2> HIDE DEF past, open, shown, past1, open1, shown1
    <2>4. QED
      BY <1>0, <2>1, <2>2, <2>3
  <1>2. ASSUME NEW r \in Runs, FoundOrg(r) \/ MintKey(r) \/ MintFails(r) \/ Spawn(r)
        PROVE  errors' <= past1 /\ open1 <= errors' + shown1
    <2>1. /\ phase'[r] \in UnderWay /\ \A q \in Runs \ {r} : phase'[q] = phase[q]
          /\ phase[r] \in UnderWay /\ status' = status /\ errors' = errors
      BY <1>2, Moves DEF FoundOrg, MintKey, MintFails, Spawn, Phases, UnderWay
    <2>2. past1 = past /\ open1 = open
      BY <2>1, Stays DEF Past, Open, UnderWay
    <2>3. shown1 = shown
      BY <2>1
    <2> HIDE DEF past, open, shown, past1, open1, shown1
    <2>4. QED
      BY <1>0, <2>1, <2>2, <2>3
  <1>3. ASSUME NEW r \in Runs, SpawnError(r) PROVE errors' <= past1 /\ open1 <= errors' + shown1
    <2>1. /\ phase'[r] = "errored" /\ \A q \in Runs \ {r} : phase'[q] = phase[q]
          /\ phase[r] = "unborn" /\ errors' = errors + 1 /\ shown \in {0, 1} /\ shown1 = 0
      BY <1>3, Moves DEF SpawnError, Phases
    <2>2. past1 = past + 1
      BY <2>1, Comes DEF Past
    <2>3. open1 = open
      BY <2>1, Stays DEF Open, UnderWay
    <2> HIDE DEF past, open, shown, past1, open1, shown1
    <2>4. QED
      BY <1>0, <2>1, <2>2, <2>3
  <1>4. ASSUME NEW r \in Runs, Close(r) PROVE errors' <= past1 /\ open1 <= errors' + shown1
    <2>1. /\ phase'[r] \in {"revoking", "done"} /\ \A q \in Runs \ {r} : phase'[q] = phase[q]
          /\ phase[r] \in {"child", "errored"} /\ errors' = errors /\ shown \in {0, 1} /\ shown1 \in {0, 1}
      BY <1>4, Moves DEF Close, Phases
    <2>2. past1 = past \/ past1 = past + 1
      <3>1. CASE phase[r] = "child"
        BY <2>1, <3>1, Comes DEF Past
      <3>2. CASE phase[r] = "errored"
        BY <2>1, <3>2, Stays DEF Past
      <3>3. QED
        BY <2>1, <3>1, <3>2
    <2>3. open1 = open - 1
      BY <2>1, Goes DEF Open, UnderWay
    <2> HIDE DEF past, open, shown, past1, open1, shown1
    <2>4. QED
      BY <1>0, <2>1, <2>2, <2>3
  <1>5. ASSUME NEW r \in Runs, TakeBackKey(r) \/ TakeBackOrg(r) \/ CleanupFails(r)
        PROVE  errors' <= past1 /\ open1 <= errors' + shown1
    <2>1. /\ phase'[r] \in {"deleting", "done"} /\ \A q \in Runs \ {r} : phase'[q] = phase[q]
          /\ phase[r] \in {"revoking", "deleting"} /\ status' = status /\ errors' = errors
      BY <1>5, Moves DEF TakeBackKey, TakeBackOrg, CleanupFails, Phases
    <2>2. past1 = past /\ open1 = open
      BY <2>1, Stays DEF Past, Open, UnderWay
    <2>3. shown1 = shown
      BY <2>1
    <2> HIDE DEF past, open, shown, past1, open1, shown1
    <2>4. QED
      BY <1>0, <2>1, <2>2, <2>3
  <1>6. CASE Crash
    <2>1. errors' = 0 /\ shown1 = 0 /\ \A q \in Runs : phase'[q] \in {"none", "done"}
      BY <1>6 DEF Crash
    <2>2. {q \in Runs : phase'[q] \in Open} = {}
      BY <2>1 DEF Open, UnderWay
    <2>3. open1 = 0
      BY <2>2, FS_EmptySet
    <2>4. past1 \in Nat
      BY RunsAssumption, FS_Subset, FS_CardinalityType
    <2> HIDE DEF past, open, shown, past1, open1, shown1
    <2>5. QED
      BY <2>1, <2>3, <2>4
  <1>7. CASE UNCHANGED demo
    <2>1. past1 = past /\ open1 = open /\ shown1 = shown /\ errors' = errors
      BY <1>7 DEF In
    <2> HIDE DEF past, open, shown, past1, open1, shown1
    <2>2. QED
      BY <1>0, <2>1
  <1>8. QED
    BY <1>1, <1>2, <1>3, <1>4, <1>5, <1>6, <1>7
       DEF DemoNext, Step, Reap, GrowsOld, Boot, ReapKeys, ReapOrg, ReapFails, Listen, demoVars

-----------------------------------------------------------------------------
LEMMA InvInit == DemoInit => IInv
  <1> SUFFICES ASSUME DemoInit PROVE IInv
    OBVIOUS
  <1>1. Typed /\ Rows /\ Alone
    BY DEF DemoInit, Typed, Rows, Alone, Active, UnderWay, Phases
  <1>2. In(Past) = {} /\ In(Open) = {}
    BY DEF DemoInit, In, Past, Open, UnderWay
  <1>3. Counts
    BY <1>2, FS_EmptySet DEF DemoInit, Counts
  <1>4. QED
    BY <1>1, <1>3 DEF IInv

LEMMA Inductive == DemoSpec => []IInv
  <1>1. IInv /\ [DemoNext]_demoVars => IInv'
    BY TypedStep, RowsStep, AloneStep, CountsStep DEF IInv
  <1>2. QED
    BY InvInit, <1>1, PTL DEF DemoSpec

\* Phases, rows and the reaper's lists stay in their types; there are never more errors
\* of children than runs that are past their children.
THEOREM TypeCorrect == DemoSpec => []DemoTypeOK
  <1>1. IInv => DemoTypeOK
    <2> SUFFICES ASSUME IInv PROVE DemoTypeOK
      OBVIOUS
    <2>1. Cardinality(In(Past)) <= Cardinality(Runs) /\ Cardinality(Runs) \in Nat
      BY RunsAssumption, FS_Subset, FS_CardinalityType DEF In
    <2>2. Cardinality(In(Past)) \in Nat /\ errors <= Cardinality(In(Past)) /\ errors \in Nat
      BY FinitelyMany DEF IInv, Counts, Typed
    <2>3. errors \in 0..Cardinality(Runs)
      BY <2>1, <2>2
    <2>4. QED
      BY <2>3 DEF IInv, Typed, DemoTypeOK
  <1>2. QED
    BY <1>1, Inductive, PTL

\* "demo already running" keeps runs apart, for any number of them, but for one more run
\* for each child that could not be spawned.
THEOREM OneRunAtATime == DemoSpec => []RunsOverlapOnlyAfterErrors
  <1>1. IInv => RunsOverlapOnlyAfterErrors
    <2> SUFFICES ASSUME IInv PROVE Cardinality(Active) <= 1 + errors
      BY DEF RunsOverlapOnlyAfterErrors
    <2>1. Active \subseteq In(Open)
      BY DEF Active, In, Open
    <2>2. Cardinality(Active) \in Nat /\ Cardinality(Active) <= Cardinality(In(Open))
      BY <2>1, FinitelyMany, FS_Subset, FS_CardinalityType
    <2>3. Cardinality(In(Open)) \in Nat /\ errors \in Nat /\ Cardinality(In(Open)) <= errors + 1
      BY FinitelyMany DEF IInv, Counts, Typed
    <2>4. QED
      BY <2>2, <2>3
  <1>2. QED
    BY <1>1, Inductive, PTL

\* The state shows running exactly while a run is under way, until a child could not be
\* spawned.
THEOREM StatusIsTheRun == DemoSpec => []StatusFollowsTheRun
  <1>1. IInv => StatusFollowsTheRun
    BY DEF IInv, Alone, StatusFollowsTheRun
  <1>2. QED
    BY <1>1, Inductive, PTL

\* Whatever a crash has left of earlier runs, a boot whose reaper goes through ends the
\* keys of all orgs that had grown old.
THEOREM TheReaperSweeps == DemoSpec => []LeftoversAreSwept
  <1>1. IInv => LeftoversAreSwept
    BY DEF IInv, Rows, LeftoversAreSwept
  <1>2. QED
    BY <1>1, Inductive, PTL
=============================================================================
