------------------------------ MODULE Deployer ------------------------------
(***************************************************************************)
(* Runs of the deployment scripts with one deployer account: they create   *)
(* the contracts one by one, write their addresses to a file, and, when a  *)
(* run waited for its funds, merge them into the settings of the server.   *)
(* Any run may die anywhere, and its last transaction may still be mined.  *)
(* An address is the nonce of the transaction that creates it.             *)
(***************************************************************************)
EXTENDS Naturals, SequencesExt

CONSTANTS
  Parts,      \* contracts of a set: 3 in the code
  DeployRuns, \* bound: runs of the scripts
  Targets,    \* files of settings, 1..n: 2 in the code
  Torn,       \* a file that has been truncated and not been written
  NoFile

ASSUME DeployerAssumption ==
  /\ Parts \in Nat \ {0} /\ IsFiniteSet(DeployRuns) /\ IsFiniteSet(Targets)
  /\ Targets = 1..Cardinality(Targets) /\ Targets # {}
  /\ NoFile # Torn

VARIABLES
  mined,      \* the deployer's transactions: what each has created, and for which run
  pool,       \* those sent and not mined
  file,       \* deployments.<network>.json
  fragment,   \* the addresses on their way to the server
  env,        \* each file of settings: whether the other settings are in it, the addresses
  backup,     \* the copy of each from before the last merge
  script,     \* each run: its mode, where it is, what it has made and read
  risked      \* history: settings copied when they were torn or in the hands of another merge

deployerVars == <<mined, pool, file, fragment, env, backup, script, risked>>

Modes == {"plain", "funded", "careful", "forced"}
Cancelled == 0
\* A file from before the chain was set up anew: no contract is at its addresses.
Old == [k \in 1..Parts |-> 0]

Ends == {"done", "dead"}
Stages ==
  {"ready", "clear", "check", "create", "receipt", "open", "close", "carry", "merge",
   "copy", "empty", "fill", "unlink"} \cup Ends

Nonces == 1..Cardinality(DeployRuns) * Parts
Sets == [1..Parts -> Nonces]
EmptyFile == [others |-> FALSE, set |-> NoFile]
Files == [others : BOOLEAN, set : Sets \cup {NoFile}]
Transactions == [kind : 0..Parts, run : DeployRuns]

DeployerTypeOK ==
  /\ mined \in Seq(Transactions) /\ Len(mined) \in Nonces \cup {0}
  /\ pool \subseteq [nonce : Nonces, tx : Transactions]
  /\ file \in Sets \cup {NoFile, Torn, Old} /\ fragment \in Sets \cup {NoFile}
  /\ env \in [Targets -> Files] /\ backup \in [Targets -> Files]
  /\ risked \subseteq Targets
  /\ \A r \in DeployRuns :
       /\ script[r].mode \in Modes /\ script[r].at \in Stages
       /\ script[r].made \in Seq(Nonces) /\ Len(script[r].made) <= Parts
       /\ script[r].nonce \in Nonces \cup {0}
       /\ script[r].read \in Sets \cup {NoFile}
       /\ script[r].target \in Targets /\ script[r].kept \in BOOLEAN

At(r, stage) == script[r].at = stage
Go(r, stage) == script' = [script EXCEPT ![r].at = stage]
Contract(n) == n \in DOMAIN mined /\ mined[n].kind # Cancelled

chain == <<mined, pool>>
server == <<fragment, env, backup, risked>>

-----------------------------------------------------------------------------
Mine ==
  \E t \in pool :
    /\ t.nonce = Len(mined) + 1
    /\ mined' = Append(mined, t.tx)
    /\ pool' = {u \in pool : u.nonce # t.nonce}
    /\ UNCHANGED <<file, server, script>>

StartDeploy(r, mode) ==
  /\ At(r, "ready")
  /\ script' = [script EXCEPT ![r].mode = mode,
       ![r].at = IF mode \in {"careful", "forced"} THEN "clear" ELSE "create"]
  /\ UNCHANGED <<chain, file, server>>

\* Each pending transaction is replaced by one that does nothing, if the replacement
\* is accepted; the script waits a minute for them and goes on.
ClearPool(r) ==
  /\ At(r, "clear") /\ Go(r, "check")
  /\ \E stuck \in SUBSET pool :
       pool' = (pool \ stuck) \cup
         {[nonce |-> t.nonce, tx |-> [kind |-> Cancelled, run |-> r]] : t \in stuck}
  /\ UNCHANGED <<mined, file, server>>

\* A torn file is no JSON; if one contract is missing, all are made again.
CheckFile(r) ==
  /\ At(r, "check")
  /\ IF script[r].mode = "forced" \/ file = NoFile THEN Go(r, "create")
     ELSE IF file = Torn THEN Go(r, "dead")
     ELSE IF \A k \in 1..Parts : Contract(file[k]) THEN Go(r, "done")
     ELSE Go(r, "create")
  /\ UNCHANGED <<chain, file, server>>

\* The nonce is that behind what is mined or behind what is pending.
NextNonces == {Len(mined) + 1, Len(mined) + Cardinality(pool) + 1} \cap Nonces

Deploy(r, n) ==
  pool' = {t \in pool : t.nonce # n} \cup
    {[nonce |-> n, tx |-> [kind |-> Len(script[r].made) + 1, run |-> r]]}

AfterPart(r) == IF Len(script[r].made) + 1 = Parts THEN "open" ELSE "create"

\* mistake: the address is computed from the nonce, and nobody waits for the receipt
SendPartAndGoOn(r) ==
  /\ At(r, "create")
  /\ \E n \in NextNonces :
       /\ Deploy(r, n)
       /\ script' = [script EXCEPT ![r].at = AfterPart(r), ![r].made = Append(@, n)]
  /\ UNCHANGED <<mined, file, server>>

SendPart(r) ==
  /\ At(r, "create")
  /\ \E n \in NextNonces :
       /\ Deploy(r, n)
       /\ script' = [script EXCEPT ![r].at = "receipt", ![r].nonce = n]
  /\ UNCHANGED <<mined, file, server>>

\* The receipt of its own transaction, or none before the timeout: see Die.
PartReceipt(r) ==
  LET n == script[r].nonce IN
    /\ At(r, "receipt") /\ Contract(n)
    /\ mined[n] = [kind |-> Len(script[r].made) + 1, run |-> r]
    /\ script' = [script EXCEPT ![r].at = AfterPart(r), ![r].made = Append(@, n)]
    /\ UNCHANGED <<chain, file, server>>

OpenFile(r) ==
  /\ At(r, "open") /\ Go(r, "close")
  /\ file' = Torn
  /\ UNCHANGED <<chain, server>>

CloseFile(r) ==
  /\ At(r, "close") /\ Go(r, IF script[r].mode = "funded" THEN "carry" ELSE "done")
  /\ file' = script[r].made
  /\ UNCHANGED <<chain, server>>

-----------------------------------------------------------------------------
(* To the server. *)

\* The file of this moment, which another run may have written.
Carry(r) ==
  /\ At(r, "carry") /\ file # Torn
  /\ Go(r, "merge")
  /\ fragment' = file
  /\ UNCHANGED <<chain, file, env, backup, risked>>

Merge(r) ==
  /\ At(r, "merge") /\ fragment # NoFile
  /\ script' = [script EXCEPT ![r].at = "copy", ![r].read = fragment, ![r].target = 1]
  /\ UNCHANGED <<chain, file, server>>

\* The file a merge is about to copy, if it is torn or another merge has it in hand.
Risky(r) ==
  {t \in {script[r].target} :
     \/ ~env[t].others
     \/ \E q \in DeployRuns \ {r} : script[q].target = t /\ script[q].at \in {"empty", "fill"}}

\* mistake: the file is emptied before it is copied
CopyTooLate(r) ==
  LET t == script[r].target IN
    /\ At(r, "copy")
    /\ script' = [script EXCEPT ![r].at = "empty", ![r].kept = env[t].others]
    /\ risked' = risked \cup Risky(r)
    /\ backup' = [backup EXCEPT ![t] = EmptyFile]
    /\ UNCHANGED <<chain, file, fragment, env>>

CopyEnv(r) ==
  LET t == script[r].target IN
    /\ At(r, "copy")
    /\ script' = [script EXCEPT ![r].at = "empty", ![r].kept = env[t].others]
    /\ risked' = risked \cup Risky(r)
    /\ backup' = [backup EXCEPT ![t] = env[t]]
    /\ UNCHANGED <<chain, file, fragment, env>>

\* The end of the script while it writes the copy.
TearCopy(r) ==
  /\ At(r, "copy") /\ Go(r, "dead")
  /\ backup' = [backup EXCEPT ![script[r].target] = EmptyFile]
  /\ risked' = risked \cup Risky(r)
  /\ UNCHANGED <<chain, file, fragment, env>>

EmptyEnv(r) ==
  /\ At(r, "empty") /\ Go(r, "fill")
  /\ env' = [env EXCEPT ![script[r].target] = EmptyFile]
  /\ UNCHANGED <<chain, file, fragment, backup, risked>>

FillEnv(r) ==
  LET t == script[r].target IN
    /\ At(r, "fill")
    /\ env' = [env EXCEPT ![t] = [others |-> script[r].kept, set |-> script[r].read]]
    /\ script' = IF t + 1 \in Targets
                 THEN [script EXCEPT ![r].at = "copy", ![r].target = t + 1]
                 ELSE [script EXCEPT ![r].at = "unlink"]
    /\ UNCHANGED <<chain, file, fragment, backup, risked>>

\* The second of two merges finds nothing to remove and fails; all is written by then.
Unlink(r) ==
  /\ At(r, "unlink") /\ Go(r, IF fragment = NoFile THEN "dead" ELSE "done")
  /\ fragment' = NoFile
  /\ UNCHANGED <<chain, file, env, backup, risked>>

\* A statement fails, a wait is over, the watchdog kills the run, the machine goes down.
Die(r) ==
  /\ script[r].at \notin Ends \cup {"ready"} /\ Go(r, "dead")
  /\ UNCHANGED <<chain, file, server>>

-----------------------------------------------------------------------------
DeployerInit ==
  /\ mined = <<>> /\ pool = {} /\ file \in {NoFile, Old} /\ fragment = NoFile
  /\ env = [t \in Targets |-> [others |-> TRUE, set |-> NoFile]]
  /\ backup = [t \in Targets |-> EmptyFile]
  /\ risked = {}
  /\ script = [r \in DeployRuns |->
       [mode |-> "plain", at |-> "ready", made |-> <<>>, nonce |-> 0, read |-> NoFile,
        target |-> 1, kept |-> TRUE]]

DeployStep(r) ==
  \/ \E mode \in Modes : StartDeploy(r, mode)
  \/ ClearPool(r) \/ CheckFile(r) \/ SendPart(r) \/ PartReceipt(r)
  \/ OpenFile(r) \/ CloseFile(r) \/ Carry(r)
  \/ Merge(r) \/ CopyEnv(r) \/ TearCopy(r) \/ EmptyEnv(r) \/ FillEnv(r) \/ Unlink(r)
  \/ Die(r)

DeployerNext == Mine \/ \E r \in DeployRuns : DeployStep(r)

-----------------------------------------------------------------------------
(* Properties. *)

\* The addresses in the file, on their way and in the settings are those of a whole
\* set that one run has made, each with the contract it is named for, however runs
\* overlap, die and replace each other's transactions.
NamesOneLiveSet ==
  \A set \in {file, fragment} \cup {env[t].set : t \in Targets} :
    set \in {NoFile, Torn, Old} \/
      \E r \in DeployRuns : \A k \in 1..Parts :
        set[k] \in DOMAIN mined /\ mined[set[k]] = [kind |-> k, run |-> r]

\* The other settings are in the file or in its copy, unless a merge has begun on a
\* file that another one had emptied or was still at work on.
SettingsSurvive ==
  \A t \in Targets \ risked : env[t].others \/ backup[t].others
=============================================================================
