--------------------------- MODULE SettlementBook ---------------------------
(***************************************************************************)
(* What the settlement side of PicoFlow promises about each payment,       *)
(* whatever the worker, the database and the chain do in between: the      *)
(* chain executes an authorization and never takes that back; the ledger   *)
(* calls it settled, and the queue closes its row, only afterwards; and a  *)
(* closed row stays closed.                                                *)
(***************************************************************************)
CONSTANT Payments

VARIABLES
  book,      \* the status the ledger shows for each payment
  executed,  \* payments the chain has executed
  closed     \* payments whose queue row is done

bookVars == <<book, executed, closed>>

Init ==
  /\ book = [p \in Payments |-> "none"]
  /\ executed = {}
  /\ closed = {}

\* A payment was verified and queued.
Accept(p) ==
  /\ book[p] = "none"
  /\ book' = [book EXCEPT ![p] = "pending"]
  /\ UNCHANGED <<executed, closed>>

\* A transaction has gone out for it; a verdict is never withdrawn this way.
Announce(p) ==
  /\ book[p] \in {"pending", "submitted"}
  /\ book' = [book EXCEPT ![p] = "submitted"]
  /\ UNCHANGED <<executed, closed>>

\* A verdict: settled needs an executed authorization, failed needs nothing.
Judge(p, verdict) ==
  /\ book[p] # "none"
  /\ verdict = "settled" => p \in executed
  /\ book' = [book EXCEPT ![p] = verdict]
  /\ UNCHANGED <<executed, closed>>

Execute(p) ==
  /\ book[p] # "none"
  /\ executed' = executed \cup {p}
  /\ UNCHANGED <<book, closed>>

Close(p) ==
  /\ p \in executed
  /\ closed' = closed \cup {p}
  /\ UNCHANGED <<book, executed>>

Next == \E p \in Payments :
  \/ Accept(p) \/ Announce(p) \/ Execute(p) \/ Close(p)
  \/ \E verdict \in {"settled", "failed"} : Judge(p, verdict)

Spec == Init /\ [][Next]_bookVars
=============================================================================
