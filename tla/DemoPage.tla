------------------------------ MODULE DemoPage ------------------------------
(***************************************************************************)
(* The page of the demo and what it shows.  The server keeps one demoState *)
(* for all runs; each run resets it, and the events of its child write it, *)
(* whichever run it shows by then.  The page starts runs, asks for that    *)
(* state every second, and takes the answers in the order they come.  Keys *)
(* and their cleanup are in DemoRunner.                                    *)
(***************************************************************************)
EXTENDS Naturals, FiniteSets

CONSTANTS
  Demos,        \* 1..n: accepted runs (a bound)
  Presets,      \* CHAIN_PRESETS
  Deployed,     \* those with contractsDeployed
  LiveNetwork,  \* ARC_CHAIN_ID
  MaxPolls,     \* different answers to polls that are under way at once (a bound)
  NoNetwork

ASSUME DemoPageAssumption ==
  /\ Demos \subseteq Nat \ {0} /\ MaxPolls \in Nat
  /\ Deployed \subseteq Presets
  /\ NoNetwork \notin Presets \cup {LiveNetwork}

VARIABLES
  board,      \* demoState, with the run it was reset for, which gives its network and
              \* its start, and for the report and the error the runs they come from
  child,      \* how far the child of each run has come
  unborn,     \* history: runs whose child could not be spawned
  answers,    \* states on their way to the page
  view,       \* the state the page has
  form        \* the page: the network selected, and its POST

demoPageVars == <<board, child, unborn, answers, view, form>>

NoDemo == 0
SomeDemo == Demos \cup {NoDemo}

Boards ==
  [status : {"idle", "running", "ok", "fail"}, demo : SomeDemo, report : SomeDemo,
   error : SomeDemo]
Posts == [at : {"idle", "sent", "starting", "refused"}, demo : SomeDemo]

\* Children that have not closed.
Living == {"minting", "spawned", "reported", "unborn", "errored"}

\* An answer is made in one piece: it is whole.
DemoPageTypeOK ==
  /\ board \in Boards /\ view \in Boards
  /\ child \in [Demos -> Living \cup {"none", "closed"}]
  /\ unborn \subseteq Demos
  /\ answers \subseteq Boards
  /\ form \in [chosen : Presets \cup {LiveNetwork, NoNetwork}, post : Posts]

BlankBoard == [status |-> "idle", demo |-> NoDemo, report |-> NoDemo, error |-> NoDemo]
NoPost == [at |-> "idle", demo |-> NoDemo]

\* What the page makes a button of.
Offered == {n \in Presets : n \in Deployed \/ n = LiveNetwork}

\* The runs the page speaks of: in its badges, in the figures of the report, and in the
\* box of the error.
SpokenOf(state) == {state.demo, state.report, state.error} \ {NoDemo}

-----------------------------------------------------------------------------
(* The server. *)

\* mistake: the report of the last run stays until the next one is there
StartKeepsReport(r) ==
  /\ board.status # "running"
  /\ child[r] = "none" /\ \A q \in Demos : q < r => child[q] # "none"
  /\ board' = [board EXCEPT !.status = "running", !.demo = r, !.error = NoDemo]
  /\ child' = [child EXCEPT ![r] = "minting"]
  /\ UNCHANGED <<unborn, answers, view>>

\* POST /api/demo/run takes the state for the next run.
StartDemo(r) ==
  /\ board.status # "running"
  /\ child[r] = "none" /\ \A q \in Demos : q < r => child[q] # "none"
  /\ board' = [BlankBoard EXCEPT !.status = "running", !.demo = r]
  /\ child' = [child EXCEPT ![r] = "minting"]
  /\ UNCHANGED <<unborn, answers, view>>

\* Another visitor, or a POST whose page no longer listens.
OthersStart(r) ==
  /\ StartDemo(r)
  /\ UNCHANGED form

\* The POST of the page: accepted, or 409.
PostArrives ==
  /\ form.post.at = "sent"
  /\ \/ \E r \in Demos :
          /\ StartDemo(r)
          /\ form' = [form EXCEPT !.post.at = "starting", !.post.demo = r]
     \/ /\ board.status = "running"
        /\ form' = [form EXCEPT !.post.at = "refused"]
        /\ UNCHANGED <<board, child, unborn, answers, view>>

SpawnDemo(r) ==
  /\ child[r] = "minting"
  /\ \/ child' = [child EXCEPT ![r] = "spawned"] /\ UNCHANGED unborn
     \/ child' = [child EXCEPT ![r] = "unborn"] /\ unborn' = unborn \cup {r}
  /\ UNCHANGED <<board, answers, view, form>>

\* Over many lines, none of which is the one line pushLine looks for.
PrintReport(r) ==
  /\ child[r] = "spawned"
  /\ child' = [child EXCEPT ![r] = "reported"]
  /\ UNCHANGED <<board, unborn, answers, view, form>>

\* The 'error' handler; 'close' is still to come.
ChildError(r) ==
  /\ child[r] = "unborn"
  /\ child' = [child EXCEPT ![r] = "errored"]
  /\ board' = [board EXCEPT !.status = "fail", !.error = r]
  /\ UNCHANGED <<unborn, answers, view, form>>

\* The 'close' handler: the report from the output if the state has none, and the exit
\* code, which is 0 only behind the report.
ChildCloses(r) ==
  /\ child[r] \in {"spawned", "reported", "errored"}
  /\ child' = [child EXCEPT ![r] = "closed"]
  /\ \E status \in IF child[r] = "reported" THEN {"ok", "fail"} ELSE {"fail"} :
       board' = [board EXCEPT
         !.status = status,
         !.report = IF @ = NoDemo /\ child[r] = "reported" THEN r ELSE @,
         !.error = IF status = "fail" THEN r ELSE @]
  /\ UNCHANGED <<unborn, answers, view, form>>

\* The server goes, and its children with it; answers may be on their way.
ServerRestarts ==
  /\ board' = BlankBoard
  /\ child' = [r \in Demos |-> IF child[r] = "none" THEN "none" ELSE "closed"]
  /\ UNCHANGED <<unborn, answers, view, form>>

-----------------------------------------------------------------------------
(* The page. *)

\* loadChains: the live network is selected.
LoadChains ==
  /\ form.chosen = NoNetwork
  /\ form' = [form EXCEPT !.chosen = LiveNetwork]
  /\ UNCHANGED <<board, child, unborn, answers, view>>

PickNetwork(n) ==
  /\ form.chosen # NoNetwork /\ view.status # "running"
  /\ n \in Offered /\ n # form.chosen
  /\ form' = [form EXCEPT !.chosen = n]
  /\ UNCHANGED <<board, child, unborn, answers, view>>

\* run: one POST at a time, and none without a network.
ClickRun ==
  /\ form.post.at = "idle" /\ view.status # "running" /\ form.chosen # NoNetwork
  /\ form' = [form EXCEPT !.post.at = "sent"]
  /\ UNCHANGED <<board, child, unborn, answers, view>>

\* The answer, which comes when the child has been spawned, or none: busy is over.
PostAnswered ==
  /\ \/ form.post.at = "refused"
     \/ form.post.at = "starting" /\ child[form.post.demo] # "minting"
  /\ form' = [form EXCEPT !.post = NoPost]
  /\ UNCHANGED <<board, child, unborn, answers, view>>

PostLost ==
  /\ form.post.at # "idle"
  /\ form' = [form EXCEPT !.post = NoPost]
  /\ UNCHANGED <<board, child, unborn, answers, view>>

\* GET /api/demo/state, by the timer or after a POST: the state of this moment leaves.
Poll ==
  /\ Cardinality(answers) < MaxPolls
  /\ answers' = answers \cup {board}
  /\ UNCHANGED <<board, child, unborn, view, form>>

\* In any order: a later poll may have been answered before.  Another answer like this
\* one may be under way.
PollAnswered(state) ==
  /\ state \in answers
  /\ view' = state
  /\ answers' \in {answers, answers \ {state}}
  /\ UNCHANGED <<board, child, unborn, form>>

PollLost(state) ==
  /\ state \in answers
  /\ answers' = answers \ {state}
  /\ UNCHANGED <<board, child, unborn, view, form>>

-----------------------------------------------------------------------------
DemoPageInit ==
  /\ board = BlankBoard /\ view = BlankBoard
  /\ child = [r \in Demos |-> "none"] /\ unborn = {} /\ answers = {}
  /\ form = [chosen |-> NoNetwork, post |-> NoPost]

DemoPageNext ==
  \/ \E r \in Demos :
       OthersStart(r) \/ SpawnDemo(r) \/ PrintReport(r) \/ ChildError(r) \/ ChildCloses(r)
  \/ PostArrives \/ PostAnswered \/ PostLost \/ ServerRestarts
  \/ LoadChains \/ ClickRun \/ \E n \in Presets : PickNetwork(n)
  \/ Poll \/ \E state \in answers : PollAnswered(state) \/ PollLost(state)

-----------------------------------------------------------------------------
(* Properties. *)

\* The network, the report and the error that stand on the page together are of one
\* run, unless a run before it could not be spawned: its two events leave a run that
\* nobody has closed beside the next one.
ShownIsOneRun ==
  \/ SpokenOf(view) \subseteq {view.demo}
  \/ \E u \in unborn : u < view.demo
=============================================================================
