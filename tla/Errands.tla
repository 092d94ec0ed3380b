------------------------------ MODULE Errands ------------------------------
(***************************************************************************)
(* Two scripts that look before they act on something far away: the one    *)
(* that rents the server, and the one that makes a buyer's wallet and      *)
(* fills it up.  Each is run again after it has failed, or by somebody     *)
(* else at the same time.                                                  *)
(***************************************************************************)
EXTENDS Naturals, SequencesExt

CONSTANTS
  Provisions, \* bound: runs of the provisioner
  Fundings,   \* bound: runs of the funding script
  Goal,       \* what the buyer is to have
  NoKeyFile, TornKey

ASSUME ErrandsAssumption ==
  /\ Goal \in Nat \ {0} /\ Fundings \subseteq Nat
  /\ NoKeyFile \notin Fundings /\ TornKey \notin Fundings \cup {NoKeyFile}

VARIABLES
  instances,  \* the rented servers: whether each is active
  known,      \* what the provisioner rents it also finds
  stateFile,  \* vultr-state.json: the instance it names, or 0
  renting,    \* each run of the provisioner: where it is, its instance
  keyFile,    \* the secret of the buyer; a key is named by the run that made it
  balance,    \* what each key has been paid
  unmined,    \* transfers sent and not mined
  funding,    \* each run of the funding script: where it is, its key, what it read
  crossed     \* history: scripts that have looked while another run, or what it had
              \* sent, was under way

provisioner == <<instances, known, stateFile, renting>>
funds == <<keyFile, balance, unmined, funding>>
errandsVars == <<provisioner, funds, crossed>>

RentStages == {"ready", "list", "post", "poll", "save", "stopped"}
FundStages == {"ready", "key", "keep", "fill", "read", "send", "receipt", "stopped"}

ErrandsTypeOK ==
  /\ instances \in Seq(BOOLEAN) /\ Len(instances) <= Cardinality(Provisions)
  /\ known \in BOOLEAN
  /\ stateFile \in 0..Len(instances)
  /\ \A p \in Provisions :
       renting[p].at \in RentStages /\ renting[p].instance \in 0..Len(instances)
  /\ keyFile \in Fundings \cup {NoKeyFile, TornKey}
  /\ balance \in [Fundings -> Nat]
  /\ unmined \subseteq [run : Fundings, key : Fundings, amount : 1..Goal]
  /\ \A f \in Fundings :
       /\ funding[f].at \in FundStages /\ funding[f].read \in Nat
       /\ funding[f].key \in Fundings \cup {NoKeyFile}
  /\ crossed \subseteq {"renting", "funding"}

Rent(p, at, instance) == renting' = [renting EXCEPT ![p] = [at |-> at, instance |-> instance]]
Under(p) == renting[p].at \notin {"ready", "stopped"}

-----------------------------------------------------------------------------
(* The provisioner. *)

StartRenting(p) ==
  /\ renting[p].at = "ready"
  /\ Rent(p, "list", 0)
  /\ crossed' = IF \E q \in Provisions : Under(q) THEN crossed \cup {"renting"} ELSE crossed
  /\ UNCHANGED <<instances, known, stateFile, funds>>

\* Found by its label or tag: it is written down, in whatever state it is.
ListInstances(p) ==
  /\ renting[p].at = "list"
  /\ IF known /\ instances # <<>> THEN Rent(p, "save", 1) ELSE Rent(p, "post", 0)
  /\ UNCHANGED <<instances, known, stateFile, funds, crossed>>

\* Without --confirm, or with a plan that is gone or too dear.
DeclineToRent(p) ==
  /\ renting[p].at = "post"
  /\ Rent(p, "stopped", 0)
  /\ UNCHANGED <<instances, known, stateFile, funds, crossed>>

PostInstance(p) ==
  /\ renting[p].at = "post"
  /\ instances' = Append(instances, FALSE)
  /\ \/ Rent(p, "poll", Len(instances) + 1)
     \/ Rent(p, "stopped", 0)               \* the answer is lost
  /\ UNCHANGED <<known, stateFile, funds, crossed>>

Activate(i) ==
  /\ ~instances[i]
  /\ instances' = [instances EXCEPT ![i] = TRUE]
  /\ UNCHANGED <<known, stateFile, renting, funds, crossed>>

\* Not within five minutes: an error, and nothing is written down.
PollInstance(p) ==
  /\ renting[p].at = "poll"
  /\ Rent(p, IF instances[renting[p].instance] THEN "save" ELSE "stopped", renting[p].instance)
  /\ UNCHANGED <<instances, known, stateFile, funds, crossed>>

SaveState(p) ==
  /\ renting[p].at = "save"
  /\ stateFile' = renting[p].instance
  /\ Rent(p, "stopped", renting[p].instance)
  /\ UNCHANGED <<instances, known, funds, crossed>>

RentingDies(p) ==
  /\ Under(p)
  /\ Rent(p, "stopped", 0)
  /\ UNCHANGED <<instances, known, stateFile, funds, crossed>>

-----------------------------------------------------------------------------
(* The funding script. *)

Fund(f, at) == funding' = [funding EXCEPT ![f].at = at]
Paying(f) == funding[f].at \notin {"ready", "stopped"}

StartFunding(f) ==
  /\ funding[f].at = "ready"
  /\ Fund(f, "key")
  /\ crossed' = IF unmined # {} \/ \E g \in Fundings : Paying(g)
                THEN crossed \cup {"funding"} ELSE crossed
  /\ UNCHANGED <<provisioner, keyFile, balance, unmined>>

\* The key that is kept, or a new one.  A torn file stops the script.
TakeKey(f) ==
  /\ funding[f].at = "key"
  /\ CASE keyFile = TornKey -> Fund(f, "stopped")
       [] keyFile = NoKeyFile ->
            funding' = [funding EXCEPT ![f].at = "keep", ![f].key = f]
       [] OTHER -> funding' = [funding EXCEPT ![f].at = "read", ![f].key = keyFile]
  /\ UNCHANGED <<provisioner, keyFile, balance, unmined, crossed>>

OpenKeyFile(f) ==
  /\ funding[f].at = "keep"
  /\ keyFile' = TornKey
  /\ Fund(f, "fill")
  /\ UNCHANGED <<provisioner, balance, unmined, crossed>>

CloseKeyFile(f) ==
  /\ funding[f].at = "fill"
  /\ keyFile' = funding[f].key
  /\ Fund(f, "read")
  /\ UNCHANGED <<provisioner, balance, unmined, crossed>>

\* Of the latest block; what is pending does not show.
ReadBalance(f) ==
  /\ funding[f].at = "read"
  /\ LET paid == balance[funding[f].key]
     IN  funding' = [funding EXCEPT ![f].read = paid,
                       ![f].at = IF paid >= Goal THEN "stopped" ELSE "send"]
  /\ UNCHANGED <<provisioner, keyFile, balance, unmined, crossed>>

\* mistake: the whole goal is sent, not what is missing
SendWhole(f) ==
  /\ funding[f].at = "send"
  /\ unmined' = unmined \cup {[run |-> f, key |-> funding[f].key, amount |-> Goal]}
  /\ Fund(f, "receipt")
  /\ UNCHANGED <<provisioner, keyFile, balance, crossed>>

\* Behind what is pending, so that both are mined.
SendFunds(f) ==
  /\ funding[f].at = "send"
  /\ unmined' = unmined \cup
       {[run |-> f, key |-> funding[f].key, amount |-> Goal - funding[f].read]}
  /\ Fund(f, "receipt")
  /\ UNCHANGED <<provisioner, keyFile, balance, crossed>>

\* Paid, or reverted.
MineFunds(t) ==
  /\ unmined' = unmined \ {t}
  /\ \E amount \in {0, t.amount} : balance' = [balance EXCEPT ![t.key] = @ + amount]
  /\ UNCHANGED <<provisioner, keyFile, funding, crossed>>

BuyerSpends(f) ==
  /\ balance[f] > 0
  /\ balance' = [balance EXCEPT ![f] = @ - 1]
  /\ UNCHANGED <<provisioner, keyFile, unmined, funding, crossed>>

FundsReceipt(f) ==
  /\ funding[f].at = "receipt" /\ ~\E t \in unmined : t.run = f
  /\ Fund(f, "stopped")
  /\ UNCHANGED <<provisioner, keyFile, balance, unmined, crossed>>

\* A question answered with no, an error, the timeout of the receipt.
FundingDies(f) ==
  /\ Paying(f)
  /\ Fund(f, "stopped")
  /\ UNCHANGED <<provisioner, keyFile, balance, unmined, crossed>>

-----------------------------------------------------------------------------
ErrandsInit ==
  /\ instances = <<>> /\ known \in BOOLEAN /\ stateFile = 0
  /\ renting = [p \in Provisions |-> [at |-> "ready", instance |-> 0]]
  /\ keyFile = NoKeyFile /\ unmined = {}
  /\ balance = [f \in Fundings |-> 0]
  /\ funding = [f \in Fundings |-> [at |-> "ready", key |-> NoKeyFile, read |-> 0]]
  /\ crossed = {}

RentingNext ==
  \/ \E p \in Provisions :
       StartRenting(p) \/ ListInstances(p) \/ DeclineToRent(p) \/ PostInstance(p)
         \/ PollInstance(p) \/ SaveState(p) \/ RentingDies(p)
  \/ \E i \in DOMAIN instances : Activate(i)

FundingNext ==
  \/ \E f \in Fundings :
       StartFunding(f) \/ TakeKey(f) \/ OpenKeyFile(f) \/ CloseKeyFile(f) \/ ReadBalance(f)
         \/ SendFunds(f) \/ FundsReceipt(f) \/ FundingDies(f) \/ BuyerSpends(f)
  \/ \E t \in unmined : MineFunds(t)

-----------------------------------------------------------------------------
(* Properties. *)

\* What is on its way to f among the transfers sent.
Due(f, S) == SumFunctionOnSet([t \in S |-> t.amount], {t \in S : t.key = f})
Held(f) == balance[f] + Due(f, unmined)

\* Runs that do not cross each other, however many fail on the way, rent one server,
\* pay the buyer no more than the goal, and pay no key that is not on file.
DoneOnce ==
  /\ known /\ "renting" \notin crossed => Len(instances) <= 1
  /\ "funding" \notin crossed =>
       \A f \in Fundings :
         /\ Held(f) <= Goal
         /\ Held(f) > 0 => keyFile = f
=============================================================================
