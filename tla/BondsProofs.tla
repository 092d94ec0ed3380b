----------------------------- MODULE BondsProofs -----------------------------
(***************************************************************************)
(* Theorems about the two lanes of a bond, for any number of claims,       *)
(* accounts and runners, any amounts and any window.                       *)
(***************************************************************************)
EXTENDS BondVault, ProofMesh, SumTheorems

-----------------------------------------------------------------------------
(* The contract. *)

(* What is behind the two properties: an open bond has paid nothing, an    *)
(* ended one all it had, and only a bond with an amount ends.              *)
Account(c) ==
  IF bond[c].resolved
  THEN bond[c].amount > 0 /\ paid[c] = bond[c].amount /\ ending[c] \in {"slashed", "refunded"}
  ELSE paid[c] = 0 /\ ending[c] = "none"

VaultInv == VaultTypeOK /\ \A c \in Claims : Account(c)

LEMMA VaultInvInit == VaultInit => VaultInv
  BY VaultAssumption DEF VaultInit, VaultInv, VaultTypeOK, Account, Bonds, NoBond

\* Half of an amount and the rest of it.
LEMMA Halves ==
  ASSUME NEW n \in Nat
  PROVE  n \div 2 \in Nat /\ n - (n \div 2) \in Nat /\ (n \div 2) + (n - (n \div 2)) = n
  OBVIOUS

LEMMA StakeKeepsInv ==
  ASSUME VaultInv, NEW c \in Claims, NEW a \in Accounts, NEW amount \in Amounts,
         Stake(c, a, amount)
  PROVE  VaultInv'
  <1> DEFINE new == [staker |-> a, amount |-> amount, staked_at |-> time, resolved |-> FALSE]
  <1>1. amount \in Nat /\ new \in Bonds
    BY VaultAssumption DEF VaultInv, VaultTypeOK, Bonds
  <1>2. bond' = [bond EXCEPT ![c] = new]
    BY DEF Stake
  <1>3. usdc' \in [Accounts -> Nat] /\ held' \in Nat
    BY <1>1 DEF VaultInv, VaultTypeOK, Stake
  <1>4. ~bond[c].resolved
    BY DEF VaultInv, VaultTypeOK, Stake, Account, Bonds
  <1>5. VaultTypeOK'
    BY <1>1, <1>2, <1>3, VaultAssumption DEF VaultInv, VaultTypeOK, Stake
  <1>6. \A d \in Claims : Account(d)'
    BY <1>2, <1>4 DEF VaultInv, VaultTypeOK, Account, Stake
  <1>7. QED
    BY <1>5, <1>6 DEF VaultInv

\* Resolving a bond touches its mark and nothing else of it, nor another bond.
LEMMA ResolveMoves ==
  ASSUME VaultInv, NEW c \in Claims, NEW how, Resolve(c, how)
  PROVE  \A d \in Claims : /\ bond'[d].staker = bond[d].staker
                           /\ bond'[d].amount = bond[d].amount
                           /\ bond'[d].resolved = (d = c \/ bond[d].resolved)
  BY DEF VaultInv, VaultTypeOK, Resolve, Bonds

LEMMA ResolveKeepsInv ==
  ASSUME VaultInv, NEW c \in Claims, NEW how \in {"slashed", "refunded"},
         Open(c), Resolve(c, how),
         paid' = [paid EXCEPT ![c] = @ + bond[c].amount],
         usdc' \in [Accounts -> Nat], held' = held - bond[c].amount
  PROVE  VaultInv'
  <1>1. bond[c].amount \in Nat /\ paid[c] = 0
    BY DEF VaultInv, VaultTypeOK, Open, Account, Bonds
  <1>2. bond' \in [Claims -> Bonds]
    BY DEF VaultInv, VaultTypeOK, Resolve, Bonds
  <1>3. \A d \in Claims : /\ bond'[d].staker = bond[d].staker
                          /\ bond'[d].amount = bond[d].amount
                          /\ bond'[d].resolved = (d = c \/ bond[d].resolved)
    BY ResolveMoves
  <1>4. VaultTypeOK'
    BY <1>1, <1>2, <1>3 DEF VaultInv, VaultTypeOK, Resolve
  <1>5. ASSUME NEW d \in Claims PROVE Account(d)'
    BY <1>1, <1>3 DEF VaultInv, VaultTypeOK, Account, Resolve, Open
  <1>6. QED
    BY <1>4, <1>5 DEF VaultInv

LEMMA SlashKeepsInv ==
  ASSUME VaultInv, NEW c \in Claims, NEW v \in Accounts, Slash(c, v)
  PROVE  VaultInv'
  <1> DEFINE half == bond[c].amount \div 2
             rest == bond[c].amount - half
  <1>1. bond[c].amount \in Nat /\ half \in Nat /\ rest \in Nat
    BY Halves DEF VaultInv, VaultTypeOK, Bonds
  <1>2. usdc' = [a \in Accounts |-> usdc[a] + (IF a = v THEN half ELSE 0)
                                            + (IF a = Insurance THEN rest ELSE 0)]
        /\ held' = held - half - rest
        /\ paid' = [paid EXCEPT ![c] = @ + half + rest]
    BY DEF Slash
  <1> HIDE DEF half
  <1>3. usdc' \in [Accounts -> Nat]
    BY <1>1, <1>2 DEF VaultInv, VaultTypeOK
  <1>4. held' = held - bond[c].amount /\ paid' = [paid EXCEPT ![c] = @ + bond[c].amount]
    <2>1. held \in Nat /\ paid[c] \in Nat
      BY DEF VaultInv, VaultTypeOK
    <2>2. held - half - rest = held - bond[c].amount
      BY <1>1, <2>1
    <2>3. paid[c] + half + rest = paid[c] + bond[c].amount
      BY <1>1, <2>1
    <2>4. QED
      BY <1>2, <2>2, <2>3
  <1>5. QED
    BY <1>3, <1>4, ResolveKeepsInv DEF Slash

LEMMA RefundKeepsInv ==
  ASSUME VaultInv, NEW c \in Claims, Refund(c)
  PROVE  VaultInv'
  <1>1. bond[c].amount \in Nat /\ bond[c].staker \in Accounts
    BY DEF VaultInv, VaultTypeOK, Bonds, Refund, Open
  <1>2. usdc' \in [Accounts -> Nat]
    BY <1>1 DEF VaultInv, VaultTypeOK, Refund
  <1>3. QED
    BY <1>2, ResolveKeepsInv DEF Refund

LEMMA VaultInvStep == VaultInv /\ [VaultNext]_vault => VaultInv'
  <1> SUFFICES ASSUME VaultInv, [VaultNext]_vault PROVE VaultInv'
    OBVIOUS
  <1>1. ASSUME NEW v \in Accounts, NEW allowed \in BOOLEAN, SetValidator(v, allowed)
        PROVE  VaultInv'
    BY <1>1 DEF VaultInv, VaultTypeOK, Account, SetValidator
  <1>2. CASE NextBlock
    BY <1>2 DEF VaultInv, VaultTypeOK, Account, NextBlock
  <1>3. CASE UNCHANGED vault
    BY <1>3 DEF VaultInv, VaultTypeOK, Account, vault
  <1>4. QED
    BY <1>1, <1>2, <1>3, StakeKeepsInv, SlashKeepsInv, RefundKeepsInv DEF VaultNext

LEMMA VaultInductive == VaultSpec => []VaultInv
  <1>1. VaultInit => VaultInv
    BY VaultInvInit DEF VaultInit
  <1>2. VaultInv /\ [VaultNext]_vault => VaultInv'
    BY VaultInvStep
  <1>3. QED
    BY <1>1, <1>2, PTL DEF VaultSpec

\* A bond pays its whole amount once, when it ends, in whatever order transactions of
\* stakers, validators and others come.
THEOREM BondsPayOnce == VaultSpec => []EachBondPaysOnce
  <1>1. VaultInv => EachBondPaysOnce
    BY DEF VaultInv, VaultTypeOK, Bonds, Account, EachBondPaysOnce
  <1>2. QED
    BY <1>1, VaultInductive, PTL

-----------------------------------------------------------------------------
(* The money: what is owed on open bonds is there, and none is made. *)

Owed == [c \in Claims |-> IF Open(c) THEN bond[c].amount ELSE 0]

Solvent ==
  /\ held = Sum(Owed, Claims)
  /\ held + Sum(usdc, Accounts) = Funds * Cardinality(Accounts)

LEMMA MoneyCounts == VaultInv => Counts(Owed, Claims) /\ Counts(usdc, Accounts)
  BY VaultAssumption DEF VaultInv, VaultTypeOK, Bonds, Counts, Owed, Open

LEMMA SolventInit == VaultInit => Solvent
  <1> SUFFICES ASSUME VaultInit PROVE Solvent
    OBVIOUS
  <1>1. \A c \in Claims : Owed[c] = 0
    BY DEF VaultInit, NoBond, Owed, Open
  <1>2. Cardinality(Claims) \in Nat /\ Cardinality(Accounts) \in Nat
    BY VaultAssumption, FS_CardinalityType
  <1>3. Sum(Owed, Claims) = 0 * Cardinality(Claims)
    BY <1>1, VaultAssumption, SumOfSame
  <1>4. Sum(usdc, Accounts) = Funds * Cardinality(Accounts)
    BY VaultAssumption, SumOfSame DEF VaultInit
  <1>5. QED
    BY <1>2, <1>3, <1>4, VaultAssumption DEF VaultInit, Solvent

\* An amount leaves an account for a claim.
LEMMA StakeKeepsMoney ==
  ASSUME VaultInv, Solvent, NEW c \in Claims, NEW a \in Accounts, NEW amount \in Amounts,
         Stake(c, a, amount)
  PROVE  Solvent'
  <1>1. amount \in Nat /\ held \in Nat /\ held' = held + amount
    BY VaultAssumption DEF VaultInv, VaultTypeOK, Stake
  <1>2. Owed[c] = 0 /\ Owed'[c] = amount
    <2>1. bond'[c].amount = amount /\ bond'[c].resolved = FALSE
      BY DEF VaultInv, VaultTypeOK, Stake
    <2>2. bond[c].amount = 0
      BY DEF VaultInv, VaultTypeOK, Bonds, Stake
    <2>3. QED
      BY <1>1, <2>1, <2>2 DEF Owed, Open
  <1>3. SameBut(Owed, Owed', Claims, c)
    <2>1. \A d \in Claims \ {c} : bond'[d] = bond[d]
      BY DEF VaultInv, VaultTypeOK, Stake
    <2>2. QED
      BY <2>1 DEF Owed, Open, SameBut
  <1>4. usdc'[a] = usdc[a] - amount /\ usdc'[a] \in Nat /\ usdc[a] \in Nat
    BY <1>1 DEF VaultInv, VaultTypeOK, Stake
  <1>5. SameBut(usdc, usdc', Accounts, a)
    BY DEF VaultInv, VaultTypeOK, Stake, SameBut
  <1>6. /\ Sum(Owed, Claims) \in Nat /\ Sum(Owed', Claims) \in Nat
        /\ Sum(Owed', Claims) + Owed[c] = Sum(Owed, Claims) + Owed'[c]
    <2>1. OneChanges(Owed, Owed', Claims, c)
      BY <1>1, <1>2, <1>3, MoneyCounts DEF OneChanges
    <2>2. QED
      BY <2>1, SumChanges DEF SumFollows
  <1>7. /\ Sum(usdc, Accounts) \in Nat /\ Sum(usdc', Accounts) \in Nat
        /\ Sum(usdc', Accounts) + usdc[a] = Sum(usdc, Accounts) + usdc'[a]
    <2>1. OneChanges(usdc, usdc', Accounts, a)
      BY <1>4, <1>5, MoneyCounts DEF OneChanges
    <2>2. QED
      BY <2>1, SumChanges DEF SumFollows
  <1>8. /\ Sum(Owed', Claims) = Sum(Owed, Claims) + amount
        /\ Sum(usdc', Accounts) = Sum(usdc, Accounts) - amount
    BY <1>1, <1>2, <1>4, <1>6, <1>7
  <1>9. QED
    BY <1>1, <1>6, <1>7, <1>8 DEF Solvent

\* A bond that ends is owed no longer.
LEMMA EndIsNotOwed ==
  ASSUME VaultInv, NEW c \in Claims, NEW how, Open(c), Resolve(c, how)
  PROVE  /\ Owed[c] = bond[c].amount /\ Owed'[c] = 0
         /\ Sum(Owed, Claims) \in Nat /\ Sum(Owed', Claims) \in Nat
         /\ Sum(Owed', Claims) + Owed[c] = Sum(Owed, Claims) + Owed'[c]
  <1>1. \A d \in Claims : /\ bond'[d].amount = bond[d].amount
                          /\ bond'[d].resolved = (d = c \/ bond[d].resolved)
    BY ResolveMoves
  <1>2. Owed[c] = bond[c].amount /\ Owed'[c] = 0
    BY <1>1 DEF Owed, Open
  <1>3. SameBut(Owed, Owed', Claims, c)
    BY <1>1 DEF Owed, Open, SameBut
  <1>4. OneChanges(Owed, Owed', Claims, c)
    BY <1>2, <1>3, MoneyCounts DEF OneChanges
  <1>5. /\ Sum(Owed, Claims) \in Nat /\ Sum(Owed', Claims) \in Nat
        /\ Sum(Owed', Claims) + Owed[c] = Sum(Owed, Claims) + Owed'[c]
    BY <1>4, SumChanges DEF SumFollows
  <1>6. QED
    BY <1>2, <1>5

\* Its amount goes from the vault to accounts.
LEMMA ResolveKeepsMoney ==
  ASSUME VaultInv, Solvent, NEW c \in Claims, NEW how, Open(c), Resolve(c, how),
         held' = held - bond[c].amount,
         Sum(usdc', Accounts) = Sum(usdc, Accounts) + bond[c].amount
  PROVE  Solvent'
  <1>1. bond[c].amount \in Nat /\ held \in Nat
    BY DEF VaultInv, VaultTypeOK, Bonds
  <1>2. Sum(usdc, Accounts) \in Nat
    BY MoneyCounts, SumType
  <1>3. QED
    BY <1>1, <1>2, EndIsNotOwed DEF Solvent

LEMMA SlashKeepsMoney ==
  ASSUME VaultInv, Solvent, NEW c \in Claims, NEW v \in Accounts, Slash(c, v)
  PROVE  Solvent'
  <1> DEFINE half == bond[c].amount \div 2
             rest == bond[c].amount - half
             between == [usdc EXCEPT ![v] = @ + half]
  <1>1. bond[c].amount \in Nat /\ half \in Nat /\ rest \in Nat /\ half + rest = bond[c].amount
        /\ held \in Nat
    BY Halves DEF VaultInv, VaultTypeOK, Bonds
  <1>2. /\ usdc' = [a \in Accounts |-> usdc[a] + (IF a = v THEN half ELSE 0)
                                              + (IF a = Insurance THEN rest ELSE 0)]
        /\ held' = held - half - rest
    BY DEF Slash
  <1> HIDE DEF half, rest
  <1>3. usdc \in [Accounts -> Nat] /\ Insurance \in Accounts
    BY VaultAssumption DEF VaultInv, VaultTypeOK
  <1>4. between[v] = usdc[v] + half /\ between[v] \in Nat /\ usdc[v] \in Nat
    BY <1>1, <1>3
  <1>5. SameBut(usdc, between, Accounts, v)
    BY <1>3 DEF SameBut
  <1>6. /\ usdc'[Insurance] = between[Insurance] + rest
        /\ usdc'[Insurance] \in Nat /\ between[Insurance] \in Nat
    BY <1>1, <1>2, <1>3
  <1>7. SameBut(between, usdc', Accounts, Insurance)
    BY <1>1, <1>2, <1>3 DEF SameBut
  <1> HIDE DEF between
  <1>8. /\ Counts(between, Accounts)
        /\ Sum(usdc, Accounts) \in Nat /\ Sum(between, Accounts) \in Nat
        /\ Sum(between, Accounts) + usdc[v] = Sum(usdc, Accounts) + between[v]
    <2>1. OneChanges(usdc, between, Accounts, v)
      BY <1>4, <1>5, MoneyCounts DEF OneChanges
    <2>2. QED
      BY <2>1, SumChanges DEF SumFollows
  <1>9. /\ Sum(usdc', Accounts) \in Nat
        /\ Sum(usdc', Accounts) + between[Insurance] = Sum(between, Accounts) + usdc'[Insurance]
    <2>1. OneChanges(between, usdc', Accounts, Insurance)
      BY <1>3, <1>6, <1>7, <1>8 DEF OneChanges
    <2>2. QED
      BY <2>1, SumChanges DEF SumFollows
  <1>10. /\ Sum(usdc', Accounts) = Sum(usdc, Accounts) + bond[c].amount
         /\ held' = held - bond[c].amount
    BY <1>1, <1>2, <1>4, <1>6, <1>8, <1>9
  <1>11. QED
    BY <1>10, ResolveKeepsMoney DEF Slash

LEMMA RefundKeepsMoney ==
  ASSUME VaultInv, Solvent, NEW c \in Claims, Refund(c)
  PROVE  Solvent'
  <1> DEFINE to == bond[c].staker
  <1>1. bond[c].amount \in Nat /\ to \in Accounts
    BY DEF VaultInv, VaultTypeOK, Bonds, Refund, Open
  <1>2. usdc'[to] = usdc[to] + bond[c].amount /\ usdc'[to] \in Nat /\ usdc[to] \in Nat
    BY <1>1 DEF VaultInv, VaultTypeOK, Refund
  <1>3. SameBut(usdc, usdc', Accounts, to)
    BY <1>1 DEF VaultInv, VaultTypeOK, Refund, SameBut
  <1> HIDE DEF to
  <1>4. /\ Sum(usdc, Accounts) \in Nat /\ Sum(usdc', Accounts) \in Nat
        /\ Sum(usdc', Accounts) + usdc[to] = Sum(usdc, Accounts) + usdc'[to]
    <2>1. OneChanges(usdc, usdc', Accounts, to)
      BY <1>1, <1>2, <1>3, MoneyCounts DEF OneChanges
    <2>2. QED
      BY <2>1, SumChanges DEF SumFollows
  <1>5. Sum(usdc', Accounts) = Sum(usdc, Accounts) + bond[c].amount
    BY <1>1, <1>2, <1>4
  <1>6. QED
    BY <1>5, ResolveKeepsMoney DEF Refund

LEMMA SolventStep == VaultInv /\ Solvent /\ [VaultNext]_vault => Solvent'
  <1> SUFFICES ASSUME VaultInv, Solvent, [VaultNext]_vault PROVE Solvent'
    OBVIOUS
  <1>1. ASSUME UNCHANGED <<bond, usdc, held>> PROVE Solvent'
    BY <1>1 DEF Solvent, Owed, Open
  <1>2. ASSUME NEW v \in Accounts, NEW allowed \in BOOLEAN, SetValidator(v, allowed)
        PROVE  Solvent'
    BY <1>1, <1>2 DEF SetValidator
  <1>3. CASE NextBlock \/ UNCHANGED vault
    BY <1>1, <1>3 DEF NextBlock, vault
  <1>4. QED
    BY <1>2, <1>3, StakeKeepsMoney, SlashKeepsMoney, RefundKeepsMoney DEF VaultNext

\* The vault can always pay every bond that is open, and no transaction makes or loses
\* USDC, for any number of claims and accounts and any amounts, odd ones too.
THEOREM VaultStaysSolvent == VaultSpec => []VaultIsSolvent
  <1>1. VaultInit => Solvent
    BY SolventInit DEF VaultInit
  <1>2. VaultInv /\ Solvent /\ [VaultNext]_vault => Solvent'
    BY SolventStep
  <1>3. VaultInv /\ Solvent => VaultIsSolvent
    <2> SUFFICES ASSUME VaultInv, Solvent PROVE VaultIsSolvent
      OBVIOUS
    <2>1. DOMAIN usdc = Accounts /\ DOMAIN Owed = Claims
      BY DEF VaultInv, VaultTypeOK, Owed
    <2>2. SumFunction(usdc) = Sum(usdc, Accounts) /\ SumFunction(Owed) = Sum(Owed, Claims)
      BY <2>1 DEF SumFunction, Sum
    <2>3. QED
      BY <2>2 DEF Solvent, VaultIsSolvent, Owed
  <1>4. QED
    BY <1>1, <1>2, <1>3, VaultInductive, PTL DEF VaultSpec

-----------------------------------------------------------------------------
(* The life cycle on the chain. *)

LEMMA ChainBookStep ==
  ASSUME VaultInv, VaultInv', [VaultNext]_vault
  PROVE  [OnChain!Next]_VaultState
  <1>1. ASSUME NEW c \in Claims, NEW how \in {"slashed", "refunded"},
               Open(c), Resolve(c, how)
        PROVE  OnChain!End(c, how)
    <2>1. VaultState[c] = "staked"
      BY <1>1 DEF Open, VaultState
    <2>2. \A d \in Claims : /\ bond'[d].amount = bond[d].amount
                            /\ bond'[d].resolved = (d = c \/ bond[d].resolved)
      BY <1>1, ResolveMoves
    <2>3. \A d \in Claims : ending'[d] = IF d = c THEN how ELSE ending[d]
      BY <1>1 DEF VaultInv, VaultTypeOK, Resolve
    <2>4. VaultState' = [VaultState EXCEPT ![c] = how]
      BY <2>2, <2>3 DEF VaultState
    <2>5. QED
      BY <2>1, <2>4 DEF OnChain!End
  <1>2. ASSUME NEW c \in Claims, NEW a \in Accounts, NEW amount \in Amounts,
               Stake(c, a, amount)
        PROVE  OnChain!Stake(c)
    <2>1. amount \in Nat /\ amount > 0
      BY <1>2, VaultAssumption DEF Stake
    <2>2. ~bond[c].resolved /\ ~(bond[c].amount > 0)
      BY <1>2 DEF VaultInv, VaultTypeOK, Bonds, Account, Stake
    <2>3. VaultState[c] = "none"
      BY <2>2 DEF VaultState
    <2>4. \A d \in Claims \ {c} : bond'[d] = bond[d]
      BY <1>2 DEF VaultInv, VaultTypeOK, Stake
    <2>5. bond'[c].amount = amount /\ bond'[c].resolved = FALSE
      BY <1>2 DEF VaultInv, VaultTypeOK, Stake
    <2>6. VaultState' = [VaultState EXCEPT ![c] = "staked"]
      BY <1>2, <2>1, <2>4, <2>5 DEF VaultState, Stake
    <2>7. QED
      BY <2>3, <2>6 DEF OnChain!Stake
  <1>3. ASSUME UNCHANGED <<bond, ending>> PROVE UNCHANGED VaultState
    BY <1>3 DEF VaultState
  <1>4. ASSUME NEW c \in Claims, NEW v \in Accounts, Slash(c, v) PROVE OnChain!Next
    BY <1>1, <1>4 DEF Slash, OnChain!Next, OnChain!Ends
  <1>5. ASSUME NEW c \in Claims, Refund(c) PROVE OnChain!Next
    BY <1>1, <1>5 DEF Refund, OnChain!Next, OnChain!Ends
  <1>6. ASSUME NEW v \in Accounts, NEW allowed \in BOOLEAN, SetValidator(v, allowed)
        PROVE  UNCHANGED VaultState
    BY <1>3, <1>6 DEF SetValidator
  <1>7. ASSUME NextBlock \/ UNCHANGED vault PROVE UNCHANGED VaultState
    BY <1>3, <1>7 DEF NextBlock, vault
  <1>8. QED
    BY <1>2, <1>4, <1>5, <1>6, <1>7 DEF VaultNext, OnChain!Next

\* The contract implements the life cycle of a bond.
THEOREM VaultImplementsBook == VaultSpec => VaultKeepsBook
  <1>1. VaultInit => OnChain!Init
    BY DEF VaultInit, NoBond, VaultState, OnChain!Init
  <1>2. VaultInv /\ VaultInv' /\ [VaultNext]_vault => [OnChain!Next]_VaultState
    BY ChainBookStep
  <1>3. QED
    BY <1>1, <1>2, VaultInductive, PTL DEF VaultSpec, VaultKeepsBook, OnChain!Spec

-----------------------------------------------------------------------------
(* The ledger's lane. *)

Ended == {"slashed", "refunded"}

(* Each claim has one runner, whose place tells what the bond's row says. *)
Works(r) ==
  /\ statement[r] = "idle" <=> claim[r] = NoClaim
  /\ \A q \in Runners : claim[r] = claim[q] /\ claim[r] # NoClaim => r = q
  /\ claim[r] \notin cut
  /\ statement[r] = "insert" => bond_status[claim[r]] = "none"
  /\ statement[r] \in {"log", "select", "slashed", "refunded"} => bond_status[claim[r]] = "staked"
  /\ statement[r] \in {"resolution", "bump"} => bond_status[claim[r]] \in Ended

MeshInv == MeshTypeOK /\ \A r \in Runners : Works(r)

LEMMA MeshInvInit == MeshInit => MeshInv
  BY MeshAssumption DEF MeshInit, MeshInv, MeshTypeOK, Works, Steps

LEMMA MeshTypeStep == MeshInv /\ [MeshNext]_mesh => MeshTypeOK'
  <1> SUFFICES ASSUME MeshInv, [MeshNext]_mesh PROVE MeshTypeOK'
    OBVIOUS
  <1> USE MeshAssumption DEF MeshInv, MeshTypeOK
  <1>1. ASSUME NEW r \in Runners, NEW c \in ClaimIds, Begin(r, c) PROVE MeshTypeOK'
    BY <1>1 DEF Begin, Steps
  <1>2. ASSUME NEW r \in Runners, InsertBond(r) PROVE MeshTypeOK'
    BY <1>2 DEF InsertBond, Go, Steps, Works
  <1>3. ASSUME NEW r \in Runners, LogStake(r) PROVE MeshTypeOK'
    BY <1>3 DEF LogStake, Go, Steps
  <1>4. ASSUME NEW r \in Runners, NEW how \in Ended, SelectBond(r, how) PROVE MeshTypeOK'
    BY <1>4 DEF SelectBond, Go, Steps, Ended
  <1>5. ASSUME NEW r \in Runners, UpdateBond(r) PROVE MeshTypeOK'
    BY <1>5 DEF UpdateBond, Go, Steps
  <1>6. ASSUME NEW r \in Runners, LogResolution(r) PROVE MeshTypeOK'
    BY <1>6 DEF LogResolution, Go, Steps
  <1>7. ASSUME NEW r \in Runners, BumpReputation(r) PROVE MeshTypeOK'
    BY <1>7 DEF BumpReputation, Leave, Steps
  <1>8. ASSUME NEW r \in Runners, Drop(r) PROVE MeshTypeOK'
    BY <1>8 DEF Drop, Leave, Steps
  <1>9. CASE UNCHANGED mesh
    BY <1>9 DEF mesh
  <1>10. QED
    BY <1>1, <1>2, <1>3, <1>4, <1>5, <1>6, <1>7, <1>8, <1>9 DEF MeshNext, Runner, Ended

LEMMA WorksStep ==
  ASSUME MeshInv, [MeshNext]_mesh, NEW q \in Runners
  PROVE  Works(q)'
  <1> USE MeshAssumption DEF MeshInv, MeshTypeOK, Works, Ended
  <1>1. ASSUME NEW r \in Runners, NEW c \in ClaimIds, Begin(r, c) PROVE Works(q)'
    BY <1>1 DEF Begin
  <1>2. ASSUME NEW r \in Runners, InsertBond(r) PROVE Works(q)'
    BY <1>2 DEF InsertBond, Go
  <1>3. ASSUME NEW r \in Runners, LogStake(r) PROVE Works(q)'
    BY <1>3 DEF LogStake, Go
  <1>4. ASSUME NEW r \in Runners, NEW how \in Ended, SelectBond(r, how) PROVE Works(q)'
    BY <1>4 DEF SelectBond, Go
  <1>5. ASSUME NEW r \in Runners, UpdateBond(r) PROVE Works(q)'
    BY <1>5 DEF UpdateBond, Go
  <1>6. ASSUME NEW r \in Runners, LogResolution(r) PROVE Works(q)'
    BY <1>6 DEF LogResolution, Go
  <1>7. ASSUME NEW r \in Runners, BumpReputation(r) PROVE Works(q)'
    BY <1>7 DEF BumpReputation, Leave
  <1>8. ASSUME NEW r \in Runners, Drop(r) PROVE Works(q)'
    BY <1>8 DEF Drop, Leave
  <1>9. CASE UNCHANGED mesh
    BY <1>9 DEF mesh
  <1>10. QED
    BY <1>1, <1>2, <1>3, <1>4, <1>5, <1>6, <1>7, <1>8, <1>9 DEF MeshNext, Runner

LEMMA MeshInductive == MeshSpec => []MeshInv
  <1>1. MeshInit => MeshInv
    BY MeshInvInit DEF MeshInit
  <1>2. MeshInv /\ [MeshNext]_mesh => MeshInv'
    BY MeshTypeStep, WorksStep DEF MeshInv
  <1>3. QED
    BY <1>1, <1>2, PTL DEF MeshSpec

\* The contract stays in its types ...
THEOREM VaultTypeCorrect == VaultSpec => []VaultTypeOK
  <1>1. VaultInv => VaultTypeOK
    BY DEF VaultInv
  <1>2. QED
    BY <1>1, VaultInductive, PTL

\* ... and so does the ledger's lane.
THEOREM MeshTypeCorrect == MeshSpec => []MeshTypeOK
  <1>1. MeshInv => MeshTypeOK
    BY DEF MeshInv
  <1>2. QED
    BY <1>1, MeshInductive, PTL

\* The ledger's lane implements the life cycle of a bond, for any number of runners
\* with claims of their own.
THEOREM MeshImplementsBook == MeshSpec => MeshKeepsBook
  <1>1. MeshInit => InLedger!Init
    BY DEF MeshInit, InLedger!Init
  <1>2. ASSUME MeshInv, [MeshNext]_mesh PROVE [InLedger!Next]_bond_status
    <2> USE MeshAssumption DEF MeshInv, MeshTypeOK, Works
    <2>1. ASSUME NEW r \in Runners, InsertBond(r) PROVE InLedger!Next
      <3>1. InLedger!Stake(claim[r])
        BY <1>2, <2>1 DEF InsertBond, InLedger!Stake
      <3>2. QED
        BY <1>2, <2>1, <3>1 DEF InsertBond, InLedger!Next
    <2>2. ASSUME NEW r \in Runners, UpdateBond(r) PROVE InLedger!Next
      <3>1. InLedger!End(claim[r], statement[r])
        BY <1>2, <2>2 DEF UpdateBond, InLedger!End
      <3>2. claim[r] \in ClaimIds /\ statement[r] \in InLedger!Ends
        BY <1>2, <2>2 DEF UpdateBond, InLedger!Ends
      <3>3. QED
        BY <3>1, <3>2 DEF InLedger!Next
    <2>3. ASSUME UNCHANGED bond_status PROVE [InLedger!Next]_bond_status
      BY <2>3
    <2>4. ASSUME NEW r \in Runners, Runner(r), ~InsertBond(r), ~UpdateBond(r)
          PROVE  UNCHANGED bond_status
      BY <2>4 DEF Runner, Begin, LogStake, SelectBond, LogResolution, BumpReputation, Drop
    <2>5. QED
      BY <1>2, <2>1, <2>2, <2>4 DEF MeshNext, mesh
  <1>3. MeshInv /\ [MeshNext]_mesh => [InLedger!Next]_bond_status
    BY <1>2
  <1>4. QED
    BY <1>1, <1>3, MeshInductive, PTL DEF MeshSpec, MeshKeepsBook, InLedger!Spec

(* The reputation row. *)

CountInv ==
  /\ IsFiniteSet(Bumped(Ended)) /\ IsFiniteSet(Bumped({"slashed"}))
  /\ rep.claims = Cardinality(Bumped(Ended))
  /\ rep.slashed = Cardinality(Bumped({"slashed"}))

LEMMA CountInit == MeshInit => CountInv
  <1> SUFFICES ASSUME MeshInit PROVE CountInv
    OBVIOUS
  <1>1. Bumped(Ended) = {} /\ Bumped({"slashed"}) = {}
    BY DEF MeshInit, Bumped, Ended
  <1>2. QED
    BY <1>1, FS_EmptySet DEF MeshInit, CountInv

\* A bump adds the claim of its runner, if it ended in one of these ways; nothing else
\* moves the set.
LEMMA BumpedMoves ==
  ASSUME MeshInv, [MeshNext]_mesh, NEW how \in SUBSET Ended
  PROVE  \/ Bumped(how)' = Bumped(how) /\ UNCHANGED rep
         \/ \E r \in Runners :
              /\ BumpReputation(r)
              /\ IF bond_status[claim[r]] \in how
                 THEN /\ claim[r] \notin Bumped(how)
                      /\ Bumped(how)' = Bumped(how) \cup {claim[r]}
                 ELSE Bumped(how)' = Bumped(how)
  <1> USE MeshAssumption DEF MeshInv, MeshTypeOK, Works, Bumped, Ended
  <1>1. ASSUME NEW r \in Runners, BumpReputation(r), bond_status[claim[r]] \in how
        PROVE  /\ claim[r] \notin Bumped(how)
               /\ Bumped(how)' = Bumped(how) \cup {claim[r]}
    BY <1>1 DEF BumpReputation, Leave
  <1>2. ASSUME NEW r \in Runners, BumpReputation(r), bond_status[claim[r]] \notin how
        PROVE  Bumped(how)' = Bumped(how)
    BY <1>2 DEF BumpReputation, Leave
  <1>3. ASSUME NEW r \in Runners, Drop(r) PROVE Bumped(how)' = Bumped(how) /\ UNCHANGED rep
    BY <1>3 DEF Drop, Leave
  <1>4. ASSUME NEW r \in Runners, NEW c \in ClaimIds, Begin(r, c)
        PROVE  Bumped(how)' = Bumped(how) /\ UNCHANGED rep
    BY <1>4 DEF Begin
  <1>5. ASSUME NEW r \in Runners, InsertBond(r) \/ UpdateBond(r)
        PROVE  Bumped(how)' = Bumped(how) /\ UNCHANGED rep
    BY <1>5 DEF InsertBond, UpdateBond, Go
  <1>6. ASSUME NEW r \in Runners, NEW end \in Ended,
               LogStake(r) \/ LogResolution(r) \/ SelectBond(r, end)
        PROVE  Bumped(how)' = Bumped(how) /\ UNCHANGED rep
    BY <1>6 DEF LogStake, LogResolution, SelectBond, Go
  <1>7. ASSUME UNCHANGED mesh PROVE Bumped(how)' = Bumped(how) /\ UNCHANGED rep
    BY <1>7 DEF mesh
  <1>8. QED
    BY <1>1, <1>2, <1>3, <1>4, <1>5, <1>6, <1>7 DEF MeshNext, Runner

LEMMA CountStep == MeshInv /\ CountInv /\ [MeshNext]_mesh => CountInv'
  <1> SUFFICES ASSUME MeshInv, CountInv, [MeshNext]_mesh PROVE CountInv'
    OBVIOUS
  <1> DEFINE Moved(how) == Bumped(how)' = Bumped(how)
             Grown(how, r) == claim[r] \notin Bumped(how) /\ Bumped(how)' = Bumped(how) \cup {claim[r]}
  <1>0. rep \in [claims : Nat, slashed : Nat]
    BY DEF MeshInv, MeshTypeOK
  <1>1. ASSUME NEW r \in Runners, BumpReputation(r) PROVE CountInv'
    <2>1. bond_status[claim[r]] \in Ended
      BY <1>1 DEF MeshInv, Works, BumpReputation
    <2>2. rep' = [claims |-> rep.claims + 1,
                  slashed |-> rep.slashed + (IF bond_status[claim[r]] = "slashed" THEN 1 ELSE 0)]
      BY <1>1 DEF BumpReputation
    <2>3. Grown(Ended, r)
      BY <1>1, <2>1, MeshAssumption DEF MeshInv, MeshTypeOK, Works, Bumped, BumpReputation, Leave
    <2>4. IsFiniteSet(Bumped(Ended)') /\ Cardinality(Bumped(Ended)') = rep.claims + 1
      BY <2>3, FS_AddElement DEF CountInv, Ended
    <2>5. CASE bond_status[claim[r]] = "slashed"
      <3>1. Grown({"slashed"}, r)
        BY <1>1, <2>5, MeshAssumption DEF MeshInv, MeshTypeOK, Works, Bumped, BumpReputation, Leave
      <3>2. /\ IsFiniteSet(Bumped({"slashed"})')
            /\ Cardinality(Bumped({"slashed"})') = rep.slashed + 1
        BY <3>1, FS_AddElement, SMTT(40) DEF CountInv
      <3>3. QED
        BY <2>2, <2>4, <2>5, <3>2 DEF CountInv
    <2>6. CASE bond_status[claim[r]] # "slashed"
      <3>1. Moved({"slashed"})
        BY <1>1, <2>6, MeshAssumption DEF MeshInv, MeshTypeOK, Works, Bumped, BumpReputation, Leave
      <3>2. QED
        BY <1>0, <2>2, <2>4, <2>6, <3>1 DEF CountInv
    <2>7. QED
      BY <2>5, <2>6
  <1>2. CASE Moved(Ended) /\ Moved({"slashed"}) /\ UNCHANGED rep
    BY <1>2 DEF CountInv
  <1>3. CASE \A r \in Runners : ~BumpReputation(r)
    <2>1. {"slashed"} \in SUBSET Ended /\ Ended \in SUBSET Ended
      BY DEF Ended
    <2>2. Moved(Ended) /\ Moved({"slashed"}) /\ UNCHANGED rep
      BY <1>3, <2>1, BumpedMoves
    <2>3. QED
      BY <1>2, <2>2
  <1>4. QED
    BY <1>1, <1>3

\* The reputation of the staker counts each resolved bond once, whichever runners bump
\* the row together, apart from bumps that were cut off.
THEOREM ReputationIsTheCount == MeshSpec => []ReputationCountsBonds
  <1>1. MeshInit => CountInv
    BY CountInit DEF MeshInit
  <1>2. MeshInv /\ CountInv /\ [MeshNext]_mesh => CountInv'
    BY CountStep
  <1>3. CountInv => ReputationCountsBonds
    <2>1. Ended = {"slashed", "refunded"}
      BY DEF Ended
    <2>2. QED
      BY <2>1 DEF CountInv, ReputationCountsBonds, Ended
  <1>4. QED
    BY <1>1, <1>2, <1>3, MeshInductive, PTL DEF MeshSpec
=============================================================================
