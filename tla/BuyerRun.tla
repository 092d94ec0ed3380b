------------------------------ MODULE BuyerRun ------------------------------
(***************************************************************************)
(* Two drivers of the buyer's client.  The agent lets a model choose tools *)
(* and falls back to a script when the model fails; it returns the list of *)
(* what was done.  The runner works off a plan and reports what it spent.  *)
(* Both must account for every authorization the client has signed and     *)
(* sent, whatever became of its answer.                                    *)
(***************************************************************************)
EXTENDS Naturals, FiniteSets

CONSTANTS
  MaxTurns,   \* maxIterations: answers of the model
  MaxTools,   \* bound: tools named by one answer
  ScriptPays, \* purchases of the script
  Plan,       \* 1..n, the steps of the runner
  Bonded      \* steps after which a bond is staked

ASSUME BuyerRunAssumption ==
  /\ MaxTurns \in Nat \ {0} /\ MaxTools \in Nat \ {0} /\ ScriptPays \in Nat \ {0}
  /\ IsFiniteSet(Plan) /\ Plan = 1..Cardinality(Plan) /\ Plan # {}
  /\ Bonded \subseteq Plan

VARIABLES
  agent,      \* the agent: what comes next, turns, tools or purchases left
  listed,     \* tool_calls: how many of its entries are authorizations
  signed,     \* history: authorizations sent by the agent's tools
  runner,     \* the runner: what comes next, its step, its counters
  sent        \* history: for the runner, step |-> what became of its call

buyerRunVars == <<agent, listed, signed, runner, sent>>

\* One call of the client: no payment asked for, an error before anything is sent, an
\* answer to the paid request, or none.
Outcomes == {"free", "declined", "unsent", "served", "refused", "unheard"}
Authorized == {"served", "refused", "unheard"}
Throws == {"unsent", "unheard"}
Status200 == {"free", "served"}

-----------------------------------------------------------------------------
(* runBuyerAgent. *)

AgentStart ==
  /\ agent.at = "idle"
  /\ \E key \in BOOLEAN :
       agent' = IF key THEN [agent EXCEPT !.at = "model", !.left = MaxTurns]
                ELSE [agent EXCEPT !.at = "script", !.left = ScriptPays]
  /\ UNCHANGED <<listed, signed, runner, sent>>

\* The model answers with tools or with the final text.
ModelAnswers ==
  /\ agent.at = "model"
  /\ \/ \E n \in 1..MaxTools :
          agent' = [agent EXCEPT !.at = "tools", !.left = @ - 1, !.tools = n]
     \/ agent' = [agent EXCEPT !.at = "returned"]
  /\ UNCHANGED <<listed, signed, runner, sent>>

\* mistake: the script begins a list of its own
ModelFailsAnew ==
  /\ agent.at = "model"
  /\ agent' = [agent EXCEPT !.at = "script", !.left = ScriptPays]
  /\ listed' = 0
  /\ UNCHANGED <<signed, runner, sent>>

\* An error of the model: the script takes over, with the same list.
ModelFails ==
  /\ agent.at = "model"
  /\ agent' = [agent EXCEPT !.at = "script", !.left = ScriptPays]
  /\ UNCHANGED <<listed, signed, runner, sent>>

CountAuth(outcome) == IF outcome \in Authorized THEN 1 ELSE 0

\* A tool that throws is an entry like any other.
Tool ==
  /\ agent.at = "tools"
  /\ \E outcome \in Outcomes :
       /\ signed' = signed + CountAuth(outcome)
       /\ listed' = listed + CountAuth(outcome)
  /\ agent' = IF agent.tools > 1 THEN [agent EXCEPT !.tools = @ - 1]
              ELSE [agent EXCEPT !.tools = 0, !.at = IF agent.left = 0 THEN "returned" ELSE "model"]
  /\ UNCHANGED <<runner, sent>>

\* In the script a tool that throws ends the run, and its list is gone.
Scripted ==
  /\ agent.at = "script"
  /\ \E outcome \in Outcomes :
       /\ signed' = signed + CountAuth(outcome)
       /\ IF outcome \in Throws
          THEN /\ agent' = [agent EXCEPT !.at = "rejected"]
               /\ UNCHANGED listed
          ELSE /\ agent' = [agent EXCEPT !.left = @ - 1,
                                         !.at = IF agent.left = 1 THEN "returned" ELSE @]
               /\ listed' = listed + CountAuth(outcome)
  /\ UNCHANGED <<runner, sent>>

\* So does one of the tools that buy nothing.
ScriptToolThrows ==
  /\ agent.at = "script"
  /\ agent' = [agent EXCEPT !.at = "rejected"]
  /\ UNCHANGED <<listed, signed, runner, sent>>

-----------------------------------------------------------------------------
(* The runner. *)

\* The plan goes on, or its report is due.
Advance(r) ==
  IF r.step + 1 \in Plan THEN [r EXCEPT !.step = @ + 1, !.at = "call"] ELSE [r EXCEPT !.at = "stats"]

\* Only an answer with status 200 counts, and its payment as spent.
Step ==
  /\ runner.at = "call"
  /\ \E outcome \in Outcomes :
       /\ sent' = [sent EXCEPT ![runner.step] = outcome]
       /\ runner' =
            IF outcome \in Status200
            THEN LET r == [runner EXCEPT !.ok = @ + 1, !.spent = @ + CountAuth(outcome)] IN
                   IF runner.step \in Bonded THEN [r EXCEPT !.at = "stake"] ELSE Advance(r)
            ELSE Advance([runner EXCEPT !.fail = @ + 1])
  /\ UNCHANGED <<agent, listed, signed>>

\* Staking and slashing share the call's try block: an error makes a step that was
\* counted as good a failed one too.
Bond ==
  /\ runner.at \in {"stake", "slash"}
  /\ \/ runner' = IF runner.at = "stake" THEN [runner EXCEPT !.at = "slash"] ELSE Advance(runner)
     \/ runner' = Advance([runner EXCEPT !.fail = @ + 1, !.twice = @ + 1])
  /\ UNCHANGED <<agent, listed, signed, sent>>

\* Without the statistics there is no report.
Conclude ==
  /\ runner.at = "stats"
  /\ \E at \in {"reported", "fatal"} : runner' = [runner EXCEPT !.at = at]
  /\ UNCHANGED <<agent, listed, signed, sent>>

-----------------------------------------------------------------------------
BuyerRunInit ==
  /\ agent = [at |-> "idle", left |-> 0, tools |-> 0]
  /\ listed = 0 /\ signed = 0
  /\ runner = [at |-> "call", step |-> 1, ok |-> 0, fail |-> 0, spent |-> 0, twice |-> 0]
  /\ sent = [i \in Plan |-> "not yet"]

AgentNext ==
  AgentStart \/ ModelAnswers \/ ModelFails \/ Tool \/ Scripted \/ ScriptToolThrows

RunnerNext == Step \/ Bond \/ Conclude

BuyerRunTypeOK ==
  /\ agent.at \in {"idle", "model", "tools", "script", "returned", "rejected"}
  /\ agent.left \in Nat /\ agent.tools \in 0..MaxTools
  /\ listed \in Nat /\ signed \in Nat
  /\ runner.at \in {"call", "stake", "slash", "stats", "reported", "fatal"}
  /\ runner.step \in Plan
  /\ sent \in [Plan -> Outcomes \cup {"not yet"}]

-----------------------------------------------------------------------------
(* Properties. *)

\* An agent's run that returns has an entry for every authorization it has sent, those
\* of a model that failed later included.  The runner's report counts as spent what was
\* served for money and nothing else, and more steps than the plan has only where the
\* lane of bonds failed after a good call.
AccountsForPurchases ==
  /\ agent.at = "returned" => listed = signed
  /\ runner.at = "reported" =>
       /\ runner.spent = Cardinality({i \in Plan : sent[i] = "served"})
       /\ runner.ok + runner.fail = Cardinality(Plan) + runner.twice
=============================================================================
