------------------------------ MODULE LiveFeed ------------------------------
(***************************************************************************)
(* The events of the gateway worker on their way to a browser: the ring    *)
(* of the server's process, the clients of its stream, and the panel that  *)
(* opens one source after the other, with a timer in between.              *)
(***************************************************************************)
EXTENDS Naturals, SequencesExt

CONSTANTS
  Keep,       \* events the ring holds: 200 in the code
  Replay,     \* events a newcomer gets first: 50
  Sources,    \* bound: 1..n, the connections a panel opens
  MaxEvents,  \* bound: events of the worker
  MaxMounts,  \* bound: times the panel is mounted
  NoSource

ASSUME FeedAssumption ==
  /\ Keep \in Nat /\ Replay \in 1..Keep
  /\ Sources \subseteq Nat \ {0} /\ NoSource \notin Sources

VARIABLES
  process,    \* the server: up, and the events emitted before it started
  emitted,    \* events emitted so far; an event is its number
  ring,       \* recentEvents
  clients,    \* sseClients
  wire,       \* what has been written to each connection
  link,       \* each connection: unused, asked, open, cut, or closed by the panel
  panel,      \* mounted, what it says of itself, its source, its timer
  mounts      \* times mounted

feed == <<process, emitted, ring, clients, wire>>
feedVars == <<feed, link, panel, mounts>>

FeedTypeOK ==
  /\ process \in [up : BOOLEAN, before : 0..MaxEvents]
  /\ emitted \in 0..MaxEvents
  /\ ring \in Seq(1..MaxEvents) /\ Len(ring) <= Keep
  /\ clients \subseteq Sources
  /\ wire \in [Sources -> Seq(1..MaxEvents)]
  /\ link \in [Sources -> {"unused", "asked", "open", "cut", "closed"}]
  /\ panel \in [mounted : BOOLEAN, source : Sources \cup {NoSource}, timer : BOOLEAN,
                says : {"connecting", "open", "reconnecting"}]
  /\ mounts \in 0..MaxMounts

Latest(s, n) == SubSeq(s, IF Len(s) > n THEN Len(s) - n + 1 ELSE 1, Len(s))

Unused == {c \in Sources : link[c] = "unused"}

-----------------------------------------------------------------------------
(* The server. *)

\* One call of the listener: the event goes into the ring and to every client, in
\* one turn.  Writing to a connection that is gone does no harm.
Emit ==
  /\ process.up /\ emitted < MaxEvents
  /\ emitted' = emitted + 1
  /\ ring' = Latest(Append(ring, emitted + 1), Keep)
  /\ wire' = [c \in Sources |->
       IF c \in clients THEN Append(wire[c], emitted + 1) ELSE wire[c]]
  /\ UNCHANGED <<process, clients, link, panel, mounts>>

\* mistake: the first events of the ring are replayed, not the latest
JoinWithOldest(c) ==
  /\ process.up /\ link[c] = "asked" /\ c \notin clients
  /\ clients' = clients \cup {c}
  /\ wire' = [wire EXCEPT ![c] = SubSeq(ring, 1, IF Len(ring) < Replay THEN Len(ring) ELSE Replay)]
  /\ UNCHANGED <<process, emitted, ring, link, panel, mounts>>

\* A client joins and gets the latest events, in one turn: none falls in between.
Join(c) ==
  /\ process.up /\ link[c] = "asked" /\ c \notin clients
  /\ clients' = clients \cup {c}
  /\ wire' = [wire EXCEPT ![c] = Latest(ring, Replay)]
  /\ UNCHANGED <<process, emitted, ring, link, panel, mounts>>

\* The server hears of the end of a connection when it is long gone.
Leave(c) ==
  /\ c \in clients /\ link[c] \in {"cut", "closed"}
  /\ clients' = clients \ {c}
  /\ UNCHANGED <<process, emitted, ring, wire, link, panel, mounts>>

Cut(c) == link[c] \in {"asked", "open"}

\* The network, or the proxy, drops a connection.  The last one stays.
Drop(c) ==
  /\ Cut(c) /\ Unused # {}
  /\ link' = [link EXCEPT ![c] = "cut"]
  /\ UNCHANGED <<feed, panel, mounts>>

StopServer ==
  /\ process.up /\ Unused # {}
  /\ process' = [process EXCEPT !.up = FALSE]
  /\ clients' = {}
  /\ link' = [c \in Sources |-> IF Cut(c) THEN "cut" ELSE link[c]]
  /\ UNCHANGED <<emitted, ring, wire, panel, mounts>>

\* The ring is gone with the process.
StartServer ==
  /\ ~process.up
  /\ process' = [up |-> TRUE, before |-> emitted]
  /\ ring' = <<>>
  /\ UNCHANGED <<emitted, clients, wire, link, panel, mounts>>

-----------------------------------------------------------------------------
(* The panel. *)

\* A new source, named by its number.
Connect(says) ==
  /\ Unused # {}
  /\ LET c == CHOOSE c \in Unused : \A d \in Unused : c <= d
     IN  /\ link' = [link EXCEPT ![c] = "asked"]
         /\ panel' = [mounted |-> TRUE, source |-> c, timer |-> FALSE, says |-> says]

\* The page opens, and again after it was left; attempts are counted on.
Mount ==
  /\ ~panel.mounted /\ mounts < MaxMounts
  /\ mounts' = mounts + 1
  /\ \E says \in IF mounts = 0 THEN {"connecting"} ELSE {"connecting", "reconnecting"} :
       Connect(says)
  /\ UNCHANGED feed

Opened ==
  /\ panel.source # NoSource
  /\ link[panel.source] = "asked" /\ panel.source \in clients
  /\ link' = [link EXCEPT ![panel.source] = "open"]
  /\ panel' = [panel EXCEPT !.says = "open"]
  /\ UNCHANGED <<feed, mounts>>

\* No server answers.
Rejected ==
  /\ panel.source # NoSource
  /\ ~process.up /\ link[panel.source] = "asked" /\ Unused # {}
  /\ link' = [link EXCEPT ![panel.source] = "cut"]
  /\ UNCHANGED <<feed, panel, mounts>>

\* onerror: the source is closed, so that it does not connect again by itself, and
\* the timer is set.
Fail ==
  /\ panel.source # NoSource
  /\ link[panel.source] = "cut"
  /\ link' = [link EXCEPT ![panel.source] = "closed"]
  /\ panel' = [panel EXCEPT !.source = NoSource, !.timer = TRUE, !.says = "reconnecting"]
  /\ UNCHANGED <<feed, mounts>>

\* mistake: the panel stays as it is when its timer fires
TimerIdles ==
  /\ panel.timer
  /\ panel' = [panel EXCEPT !.timer = FALSE]
  /\ UNCHANGED <<feed, link, mounts>>

Timer ==
  /\ panel.timer
  /\ Connect("reconnecting")
  /\ UNCHANGED <<feed, mounts>>

Unmount ==
  /\ panel.mounted
  /\ link' = [c \in Sources |-> IF c = panel.source THEN "closed" ELSE link[c]]
  /\ panel' = [panel EXCEPT !.mounted = FALSE, !.source = NoSource, !.timer = FALSE]
  /\ UNCHANGED <<feed, mounts>>

-----------------------------------------------------------------------------
FeedInit ==
  /\ process = [up |-> TRUE, before |-> 0]
  /\ emitted = 0 /\ ring = <<>> /\ clients = {} /\ mounts = 0
  /\ wire = [c \in Sources |-> <<>>]
  /\ link = [c \in Sources |-> "unused"]
  /\ panel = [mounted |-> FALSE, source |-> NoSource, timer |-> FALSE, says |-> "connecting"]

Joins == \E c \in Sources : Join(c)

FeedNext ==
  \/ Emit \/ Joins \/ StopServer \/ StartServer
  \/ Mount \/ Opened \/ Rejected \/ Fail \/ Timer \/ Unmount
  \/ \E c \in Sources : Leave(c) \/ Drop(c)

\* The restart policy of the containers, the network that carries a request or its
\* refusal, and the browser, which calls its handlers and fires its timers.
FeedFairness ==
  /\ WF_feedVars(StartServer) /\ WF_feedVars(Joins)
  /\ WF_feedVars(Opened) /\ WF_feedVars(Rejected)
  /\ WF_feedVars(Fail) /\ WF_feedVars(Timer)

-----------------------------------------------------------------------------
(* Properties. *)

\* What a client has been sent ends with the latest event, leaves none out, and goes
\* back far enough: the replay, or all the process has emitted.
WireIsTheTail ==
  \A c \in clients :
    LET n == Len(wire[c]) IN
      /\ \A i \in 1..n : wire[c][i] = emitted - n + i
      /\ n >= Replay \/ n = emitted - process.before

\* As long as the connection is not cut for good, a mounted panel gets its stream back.
PanelComesBack == panel.mounted ~> panel.says = "open" \/ ~panel.mounted
=============================================================================
