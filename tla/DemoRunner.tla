----------------------------- MODULE DemoRunner -----------------------------
(***************************************************************************)
(* The demo runner of the seller server: POST /api/demo/run takes the      *)
(* shared demo state, mints an org and an API key for the run, starts the  *)
(* buyer as a child process, and takes the key back when the child has     *)
(* closed.  A boot of the server reaps what earlier processes have left.   *)
(* Every await and every event of a child is a step of its own.            *)
(***************************************************************************)
EXTENDS Naturals, FiniteSets

CONSTANTS
  Runs        \* 1..n: accepted runs (a bound)

ASSUME RunsAssumption == Runs \subseteq Nat /\ IsFiniteSet(Runs)

VARIABLES
  server,     \* down, reaping at boot, or up
  status,     \* demoState.status
  phase,      \* how far each run has come
  ids,        \* runs with ephemeralOrgId and ephemeralKeyId set
  org,        \* demo-runner-<time>: none, young, or older than 15 minutes
  key,        \* its key: none, live, or revoked
  stale,      \* boot: orgs the reaper has selected and not finished
  reaped,     \* boot: those of them whose keys it has revoked
  errors,     \* 'error' events of children since boot
  dropped,    \* history: runs whose cleanup a crash or an error has cut off
  swept       \* history: orgs selected by the last boot, if its reaper went through

demo == <<status, phase, ids, errors, dropped>>
tables == <<org, key>>
reaper == <<server, stale, reaped, swept>>
demoVars == <<demo, tables, reaper>>

Phases == {"none", "founding", "keying", "spawning", "child", "unborn",
           "errored", "revoking", "deleting", "done"}
UnderWay == {"founding", "keying", "spawning", "child", "unborn"}
Active == {r \in Runs : phase[r] \in UnderWay}

\* No key without its org: the reference is ON DELETE CASCADE.
DemoTypeOK ==
  /\ server \in {"down", "reaping", "up"}
  /\ status \in {"idle", "running", "ok", "fail"}
  /\ phase \in [Runs -> Phases]
  /\ ids \subseteq Runs
  /\ org \in [Runs -> {"none", "young", "old"}]
  /\ key \in [Runs -> {"none", "live", "revoked"}]
  /\ \A r \in Runs : key[r] # "none" => org[r] # "none"
  /\ stale \subseteq Runs /\ reaped \subseteq stale
  /\ errors \in 0..Cardinality(Runs)
  /\ dropped \subseteq Runs /\ swept \subseteq Runs

Enter(r, label) == phase' = [phase EXCEPT ![r] = label]

\* DELETE FROM orgs; the keys go with it.
DeleteOrg(r) ==
  /\ org' = [org EXCEPT ![r] = "none"]
  /\ key' = [key EXCEPT ![r] = "none"]

\* revokeApiKey, and the UPDATE of the reaper: a key that is there.
RevokeKey(r) ==
  key' = [key EXCEPT ![r] = IF @ = "live" THEN "revoked" ELSE @]

-----------------------------------------------------------------------------
(* A run. *)

\* POST /api/demo/run, unless another run is shown as running (409).
Run(r) ==
  /\ server = "up" /\ status # "running"
  /\ phase[r] = "none" /\ \A q \in Runs : q < r => phase[q] # "none"
  /\ status' = "running"
  /\ Enter(r, "founding")
  /\ UNCHANGED <<ids, errors, dropped, tables, reaper>>

FoundOrg(r) ==
  /\ phase[r] = "founding"
  /\ org' = [org EXCEPT ![r] = "young"]
  /\ Enter(r, "keying")
  /\ UNCHANGED <<status, ids, errors, dropped, key, reaper>>

MintKey(r) ==
  /\ phase[r] = "keying" /\ org[r] # "none"
  /\ key' = [key EXCEPT ![r] = "live"]
  /\ ids' = ids \cup {r}
  /\ Enter(r, "spawning")
  /\ UNCHANGED <<status, errors, dropped, org, reaper>>

\* Either insert fails: the run goes on without a key, and the org may stay, and so
\* may the key when only the answer to its insert is lost.
MintFails(r) ==
  /\ phase[r] \in {"founding", "keying"}
  /\ Enter(r, "spawning")
  /\ \/ UNCHANGED <<key, dropped>>
     \/ /\ phase[r] = "keying"
        /\ key' = [key EXCEPT ![r] = "live"]
        /\ dropped' = dropped \cup {r}
  /\ UNCHANGED <<status, ids, errors, org, reaper>>

\* The child starts, or its 'error' event is on its way.
Spawn(r) ==
  /\ phase[r] = "spawning"
  /\ Enter(r, "child") \/ Enter(r, "unborn")
  /\ UNCHANGED <<status, ids, errors, dropped, tables, reaper>>

\* The 'error' handler; 'close' is still to come.
SpawnError(r) ==
  /\ phase[r] = "unborn"
  /\ status' = "fail"
  /\ errors' = errors + 1
  /\ Enter(r, "errored")
  /\ UNCHANGED <<ids, dropped, tables, reaper>>

\* mistake: the key is taken back from runs that went well
CloseKeepsOfFailed(r) ==
  /\ phase[r] \in {"child", "errored"}
  /\ status' \in IF phase[r] = "child" THEN {"ok", "fail"} ELSE {"fail"}
  /\ Enter(r, IF r \in ids /\ status' = "ok" THEN "revoking" ELSE "done")
  /\ UNCHANGED <<ids, errors, dropped, tables, reaper>>

\* The 'close' handler writes the shared state, whichever run that shows by now.
Close(r) ==
  /\ phase[r] \in {"child", "errored"}
  /\ status' \in IF phase[r] = "child" THEN {"ok", "fail"} ELSE {"fail"}
  /\ Enter(r, IF r \in ids THEN "revoking" ELSE "done")
  /\ UNCHANGED <<ids, errors, dropped, tables, reaper>>

\* The cleanup behind it: the key, then the org.
TakeBackKey(r) ==
  /\ phase[r] = "revoking"
  /\ RevokeKey(r)
  /\ Enter(r, "deleting")
  /\ UNCHANGED <<status, ids, errors, dropped, org, reaper>>

TakeBackOrg(r) ==
  /\ phase[r] = "deleting"
  /\ DeleteOrg(r)
  /\ Enter(r, "done")
  /\ UNCHANGED <<status, ids, errors, dropped, reaper>>

\* A statement of the cleanup fails, and what comes after it is skipped.
CleanupFails(r) ==
  /\ phase[r] \in {"revoking", "deleting"}
  /\ dropped' = dropped \cup {r}
  /\ Enter(r, "done")
  /\ UNCHANGED <<status, ids, errors, tables, reaper>>

-----------------------------------------------------------------------------
(* The process. *)

\* The server dies with its children; rows stay.
Crash ==
  /\ server' = "down"
  /\ status' = "idle" /\ errors' = 0 /\ ids' = {}
  /\ stale' = {} /\ reaped' = {} /\ swept' = {}
  /\ phase' = [r \in Runs |-> IF phase[r] = "none" THEN "none" ELSE "done"]
  /\ dropped' = dropped \cup {r \in Runs : phase[r] \notin {"none", "done"}}
  /\ UNCHANGED tables

\* The reaper's SELECT.
Boot ==
  /\ server = "down"
  /\ server' = "reaping"
  /\ stale' = {r \in Runs : org[r] = "old"}
  /\ swept' = stale'
  /\ UNCHANGED <<demo, tables, reaped>>

\* mistake: the keys are left to the cascade
ReapKeysByCascade(r) ==
  /\ server = "reaping" /\ r \in stale /\ reaped = {}
  /\ reaped' = {r}
  /\ UNCHANGED <<demo, tables, server, stale, swept>>

\* Its UPDATE, one org after the other.
ReapKeys(r) ==
  /\ server = "reaping" /\ r \in stale /\ reaped = {}
  /\ RevokeKey(r)
  /\ reaped' = {r}
  /\ UNCHANGED <<demo, org, server, stale, swept>>

\* The org goes, or its DELETE fails and is passed over.
ReapOrg(r) ==
  /\ r \in reaped
  /\ DeleteOrg(r) \/ UNCHANGED tables
  /\ stale' = stale \ {r} /\ reaped' = {}
  /\ UNCHANGED <<demo, server, swept>>

\* An UPDATE fails: the rest waits for the next boot.
ReapFails ==
  /\ server = "reaping" /\ reaped = {}
  /\ stale' = {} /\ swept' = {}
  /\ server' = "up"
  /\ UNCHANGED <<demo, tables, reaped>>

Listen ==
  /\ server = "reaping" /\ stale = {}
  /\ server' = "up"
  /\ UNCHANGED <<demo, tables, stale, reaped, swept>>

\* Fifteen minutes pass.
GrowsOld(r) ==
  /\ org[r] = "young"
  /\ org' = [org EXCEPT ![r] = "old"]
  /\ UNCHANGED <<demo, key, reaper>>

-----------------------------------------------------------------------------
DemoInit ==
  /\ server = "up" /\ status = "idle" /\ errors = 0
  /\ phase = [r \in Runs |-> "none"]
  /\ org = [r \in Runs |-> "none"]
  /\ key = [r \in Runs |-> "none"]
  /\ ids = {} /\ stale = {} /\ reaped = {} /\ dropped = {} /\ swept = {}

\* What the process does of itself with a run it has accepted.
Step(r) ==
  \/ FoundOrg(r) \/ MintKey(r) \/ MintFails(r) \/ Spawn(r) \/ SpawnError(r)
  \/ Close(r) \/ TakeBackKey(r) \/ TakeBackOrg(r) \/ CleanupFails(r)

Reap == (\E r \in Runs : ReapKeys(r) \/ ReapOrg(r)) \/ ReapFails \/ Listen

DemoNext ==
  \/ \E r \in Runs : Run(r) \/ Step(r) \/ GrowsOld(r)
  \/ Crash \/ Boot \/ Reap

DemoSpec == DemoInit /\ [][DemoNext]_demoVars

\* Awaits return, events are delivered, and a child ends: its requests time out and
\* its plan is finite.  The container is restarted.
DemoFairness ==
  WF_demoVars(Boot) /\ WF_demoVars(Reap) /\ \A r \in Runs : WF_demoVars(Step(r))

-----------------------------------------------------------------------------
(* Properties. *)

\* "demo already running": two runs are under way together only when the 'close' of a
\* run that could not be spawned has overwritten the state of the next one.
RunsOverlapOnlyAfterErrors == Cardinality(Active) <= 1 + errors

\* As long as every child could be spawned, the state shows running exactly while a
\* run is under way.
StatusFollowsTheRun == errors = 0 => (status = "running" <=> Active # {})

\* A boot whose reaper goes through leaves no good key of an org that was old.
LeftoversAreSwept == server = "up" => \A r \in swept : key[r] # "live"

\* The key of a run is taken back, or a crash or a failing statement has cut the
\* cleanup off.
KeysComeBack == \A r \in Runs : key[r] = "live" ~> key[r] # "live" \/ r \in dropped
=============================================================================
