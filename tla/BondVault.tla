------------------------------ MODULE BondVault ------------------------------
(***************************************************************************)
(* The contract BondVault.  Transactions are atomic and come in any order; *)
(* an assertion or a transfer that fails is a transaction without effect,  *)
(* so it is a guard here.                                                  *)
(***************************************************************************)
EXTENDS Integers, FiniteSets, Functions

CONSTANTS
  Claims,       \* claim ids
  Accounts,     \* addresses: stakers, validators, whoever sends a refund
  Insurance,    \* the address that shares in a slashed bond
  Nobody,       \* the empty address
  Amounts,      \* amounts that are staked
  Funds,        \* USDC of each account at the start
  Window,       \* VALIDATION_WINDOW
  MaxBlockTime  \* bound: block timestamps

ASSUME VaultAssumption ==
  /\ IsFiniteSet(Claims) /\ IsFiniteSet(Accounts)
  /\ Insurance \in Accounts /\ Nobody \notin Accounts
  /\ Amounts \subseteq Nat /\ Funds \in Nat
  /\ Window \in Nat \ {0} /\ MaxBlockTime \in Nat

VARIABLES
  bond,         \* bonds
  validators,   \* validators
  usdc,         \* balances of the accounts
  held,         \* balance of the vault
  time,         \* block.timestamp
  paid,         \* history: what the bond of each claim has paid out
  ending        \* history: how it has ended

vault == <<bond, validators, usdc, held, time, paid, ending>>

Bonds == [staker : Accounts \cup {Nobody}, amount : Nat, staked_at : Nat, resolved : BOOLEAN]
NoBond == [staker |-> Nobody, amount |-> 0, staked_at |-> 0, resolved |-> FALSE]

VaultTypeOK ==
  /\ bond \in [Claims -> Bonds]
  /\ \A c \in Claims : bond[c].staker # Nobody <=> bond[c].amount > 0
  /\ validators \subseteq Accounts
  /\ usdc \in [Accounts -> Nat] /\ held \in Nat
  /\ time \in Nat
  /\ paid \in [Claims -> Nat]
  /\ ending \in [Claims -> {"none", "slashed", "refunded"}]

-----------------------------------------------------------------------------
(* Transactions. *)

SetValidator(v, allowed) ==
  /\ validators' = IF allowed THEN validators \cup {v} ELSE validators \ {v}
  /\ UNCHANGED <<bond, usdc, held, time, paid, ending>>

\* mistake: a claim can be bonded again when its bond has ended
StakeAgain(c, a, amount) ==
  /\ amount > 0
  /\ bond[c].staker = Nobody \/ bond[c].resolved
  /\ usdc[a] >= amount
  /\ usdc' = [usdc EXCEPT ![a] = @ - amount]
  /\ held' = held + amount
  /\ bond' = [bond EXCEPT ![c] =
       [staker |-> a, amount |-> amount, staked_at |-> time, resolved |-> FALSE]]
  /\ UNCHANGED <<validators, time, paid, ending>>

\* stake: a claim is bonded once, also after its bond has ended.
Stake(c, a, amount) ==
  /\ amount > 0
  /\ bond[c].staker = Nobody
  /\ usdc[a] >= amount
  /\ usdc' = [usdc EXCEPT ![a] = @ - amount]
  /\ held' = held + amount
  /\ bond' = [bond EXCEPT ![c] =
       [staker |-> a, amount |-> amount, staked_at |-> time, resolved |-> FALSE]]
  /\ UNCHANGED <<validators, time, paid, ending>>

Open(c) == bond[c].amount > 0 /\ ~bond[c].resolved

Resolve(c, how) ==
  /\ held >= bond[c].amount
  /\ bond' = [bond EXCEPT ![c].resolved = TRUE]
  /\ ending' = [ending EXCEPT ![c] = how]
  /\ UNCHANGED <<validators, time>>

\* mistake: both shares are rounded down
SlashInHalves(c, v) ==
  /\ v \in validators /\ Open(c)
  /\ Resolve(c, "slashed")
  /\ LET half == bond[c].amount \div 2 IN
     /\ usdc' = [a \in Accounts |-> usdc[a] + (IF a = v THEN half ELSE 0)
                                            + (IF a = Insurance THEN half ELSE 0)]
     /\ held' = held - 2 * half
     /\ paid' = [paid EXCEPT ![c] = @ + 2 * half]

\* slash: half to the validator, the rest to the insurance, at any time.
Slash(c, v) ==
  /\ v \in validators /\ Open(c)
  /\ Resolve(c, "slashed")
  /\ LET half == bond[c].amount \div 2
         rest == bond[c].amount - half
     IN /\ usdc' = [a \in Accounts |-> usdc[a] + (IF a = v THEN half ELSE 0)
                                               + (IF a = Insurance THEN rest ELSE 0)]
        /\ held' = held - half - rest
        /\ paid' = [paid EXCEPT ![c] = @ + half + rest]

\* refund: all of it to the staker after the window, whoever sends it.
Refund(c) ==
  /\ Open(c)
  /\ time >= bond[c].staked_at + Window
  /\ Resolve(c, "refunded")
  /\ usdc' = [usdc EXCEPT ![bond[c].staker] = @ + bond[c].amount]
  /\ held' = held - bond[c].amount
  /\ paid' = [paid EXCEPT ![c] = @ + bond[c].amount]

NextBlock ==
  /\ time < MaxBlockTime
  /\ time' = time + 1
  /\ UNCHANGED <<bond, validators, usdc, held, paid, ending>>

-----------------------------------------------------------------------------
VaultInit ==
  /\ bond = [c \in Claims |-> NoBond]
  /\ validators \in {{}} \cup {{v} : v \in Accounts}
  /\ usdc = [a \in Accounts |-> Funds] /\ held = 0
  /\ time = 0
  /\ paid = [c \in Claims |-> 0]
  /\ ending = [c \in Claims |-> "none"]

VaultNext ==
  \/ \E v \in Accounts, allowed \in BOOLEAN : SetValidator(v, allowed)
  \/ \E c \in Claims :
       \/ \E a \in Accounts, amount \in Amounts : Stake(c, a, amount)
       \/ \E v \in Accounts : Slash(c, v)
       \/ Refund(c)
  \/ NextBlock

VaultSpec == VaultInit /\ [][VaultNext]_vault

VaultState == [c \in Claims |->
  IF bond[c].resolved THEN ending[c]
  ELSE IF bond[c].amount > 0 THEN "staked" ELSE "none"]

OnChain == INSTANCE BondBook WITH state <- VaultState

-----------------------------------------------------------------------------
(* Properties. *)

\* A bond pays its whole amount when it ends, odd or even, and nothing before or
\* after, however slash and refund race once the window is over.
EachBondPaysOnce ==
  \A c \in Claims : paid[c] = IF bond[c].resolved THEN bond[c].amount ELSE 0

\* The vault holds exactly the bonds that are open, so every one of them can be paid,
\* and no USDC is made or lost on the way.
VaultIsSolvent ==
  /\ held = SumFunction([c \in Claims |-> IF Open(c) THEN bond[c].amount ELSE 0])
  /\ held + SumFunction(usdc) = Funds * Cardinality(Accounts)

\* The contract keeps the life cycle of bonds.
VaultKeepsBook == OnChain!Spec
=============================================================================
