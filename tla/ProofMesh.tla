------------------------------ MODULE ProofMesh ------------------------------
(***************************************************************************)
(* The ledger's lane of ProofMesh, which simulates the contract: the       *)
(* runner of a demo stakes a bond for a claim of its own and resolves it,  *)
(* statement by statement.  Refund and slash select a staked bond and      *)
(* update it by its id afterwards, without asking for its status again.    *)
(* Runners may overlap, fail at any statement, and be killed.              *)
(***************************************************************************)
EXTENDS Naturals, FiniteSets

CONSTANTS
  ClaimIds,   \* claims of the runners
  Runners,    \* runner processes
  NoClaim     \* the claim of a runner that is at none

ASSUME MeshAssumption == NoClaim \notin ClaimIds

VARIABLES
  statement,  \* next statement of each runner
  claim,      \* the claim it works on
  bond_status, \* bonds.status of the bond of each claim
  logged,     \* onchain_tx: claims with a stake, with a resolution
  rep,        \* reputations: the row of the staker, which all claims share
  cut         \* history: resolved claims whose bump was never made

mesh == <<statement, claim, bond_status, logged, rep, cut>>

Steps == {"idle", "insert", "log", "select", "slashed", "refunded", "resolution", "bump"}

MeshTypeOK ==
  /\ statement \in [Runners -> Steps]
  /\ claim \in [Runners -> ClaimIds \cup {NoClaim}]
  /\ bond_status \in [ClaimIds -> {"none", "staked", "slashed", "refunded"}]
  /\ logged \in [stake : SUBSET ClaimIds, end : SUBSET ClaimIds]
  /\ rep \in [claims : Nat, slashed : Nat]
  /\ cut \subseteq {c \in ClaimIds : bond_status[c] \in {"slashed", "refunded"}}
  /\ \A r \in Runners : statement[r] # "idle" => claim[r] # NoClaim

Go(r, label) == statement' = [statement EXCEPT ![r] = label] /\ UNCHANGED claim

Leave(r) ==
  /\ statement' = [statement EXCEPT ![r] = "idle"]
  /\ claim' = [claim EXCEPT ![r] = NoClaim]

\* A claim is named after the time and the step of its runner: nobody else's.
Begin(r, c) ==
  /\ statement[r] = "idle" /\ bond_status[c] = "none"
  /\ \A q \in Runners : claim[q] # c
  /\ statement' = [statement EXCEPT ![r] = "insert"]
  /\ claim' = [claim EXCEPT ![r] = c]
  /\ UNCHANGED <<bond_status, logged, rep, cut>>

InsertBond(r) ==
  /\ statement[r] = "insert"
  /\ bond_status' = [bond_status EXCEPT ![claim[r]] = "staked"]
  /\ Go(r, "log")
  /\ UNCHANGED <<logged, rep, cut>>

LogStake(r) ==
  /\ statement[r] = "log"
  /\ logged' = [logged EXCEPT !.stake = @ \cup {claim[r]}]
  /\ Go(r, "select")
  /\ UNCHANGED <<bond_status, rep, cut>>

\* mistake: the SELECT does not ask for a staked bond of this claim
SelectAnyBond(r, how) ==
  /\ statement[r] = "select"
  /\ \E c \in ClaimIds : bond_status[c] # "none" /\ claim' = [claim EXCEPT ![r] = c]
  /\ statement' = [statement EXCEPT ![r] = how]
  /\ UNCHANGED <<bond_status, logged, rep, cut>>

\* The SELECT of slash or refund: the staked bond of the claim.
SelectBond(r, how) ==
  /\ statement[r] = "select"
  /\ bond_status[claim[r]] = "staked"
  /\ Go(r, how)
  /\ UNCHANGED <<bond_status, logged, rep, cut>>

\* Its UPDATE, by the id of the bond.
UpdateBond(r) ==
  /\ statement[r] \in {"slashed", "refunded"}
  /\ bond_status' = [bond_status EXCEPT ![claim[r]] = statement[r]]
  /\ Go(r, "resolution")
  /\ UNCHANGED <<logged, rep, cut>>

LogResolution(r) ==
  /\ statement[r] = "resolution"
  /\ logged' = [logged EXCEPT !.end = @ \cup {claim[r]}]
  /\ Go(r, "bump")
  /\ UNCHANGED <<bond_status, rep, cut>>

\* mistake: ON CONFLICT takes the excluded row's slashed for the new value
BumpOverwrites(r) ==
  /\ statement[r] = "bump"
  /\ rep' = [claims |-> rep.claims + 1,
             slashed |-> IF bond_status[claim[r]] = "slashed" THEN 1 ELSE 0]
  /\ Leave(r)
  /\ UNCHANGED <<bond_status, logged, cut>>

\* bumpReputation: one statement, a first row or one more on both counts.
BumpReputation(r) ==
  /\ statement[r] = "bump"
  /\ rep' = [claims |-> rep.claims + 1,
             slashed |-> rep.slashed + (IF bond_status[claim[r]] = "slashed" THEN 1 ELSE 0)]
  /\ Leave(r)
  /\ UNCHANGED <<bond_status, logged, cut>>

\* A statement fails, or the runner is killed: what is left of the claim is left out.
Drop(r) ==
  /\ statement[r] # "idle"
  /\ cut' = cut \cup ({claim[r]} \cap {c \in ClaimIds : bond_status[c] \in {"slashed", "refunded"}})
  /\ Leave(r)
  /\ UNCHANGED <<bond_status, logged, rep>>

-----------------------------------------------------------------------------
MeshInit ==
  /\ statement = [r \in Runners |-> "idle"]
  /\ claim = [r \in Runners |-> NoClaim]
  /\ bond_status = [c \in ClaimIds |-> "none"]
  /\ logged = [stake |-> {}, end |-> {}]
  /\ rep = [claims |-> 0, slashed |-> 0]
  /\ cut = {}

Runner(r) ==
  \/ \E c \in ClaimIds : Begin(r, c)
  \/ InsertBond(r) \/ LogStake(r)
  \/ \E how \in {"slashed", "refunded"} : SelectBond(r, how)
  \/ UpdateBond(r) \/ LogResolution(r) \/ BumpReputation(r) \/ Drop(r)

MeshNext == \E r \in Runners : Runner(r)

MeshSpec == MeshInit /\ [][MeshNext]_mesh

InLedger == INSTANCE BondBook WITH Claims <- ClaimIds, state <- bond_status

-----------------------------------------------------------------------------
(* Properties. *)

\* The lane keeps the life cycle although nothing in its statements does: it rests on
\* each claim having one runner, which resolves it once.
MeshKeepsBook == InLedger!Spec

Bumped(how) ==
  {c \in ClaimIds : /\ bond_status[c] \in how /\ c \notin cut
                  /\ \A r \in Runners : claim[r] # c}

\* The reputation of the staker counts every bond that was resolved, once, whichever
\* runners bump the row together, and apart from bumps that failed.
ReputationCountsBonds ==
  /\ rep.claims = Cardinality(Bumped({"slashed", "refunded"}))
  /\ rep.slashed = Cardinality(Bumped({"slashed"}))
=============================================================================
