--------------------------- MODULE AccessGateProofs ---------------------------
(***************************************************************************)
(* Theorems about AccessGate for any number of orgs, users, keys and       *)
(* requests, and for any quota.                                            *)
(***************************************************************************)
EXTENDS AccessGate, SumTheorems

Gated == {"lookup", "quota", "probe", "probed", "admitted"}
Holding == Gated \cup {"revoking", "admin"}

(* What a request holds is there, and stays there. *)
Held(c) ==
  /\ pc[c] \in Holding => held[c] \in Keys /\ OrgOf(c) \in Orgs
  /\ pc[c] \in {"signing", "seeding", "revoking"} => who[c] \in Emails
  /\ pc[c] \in {"probe", "probed"} => OrgOf(c) \in Metered

(* Keys belong to orgs there are, and a revoked one has lost its mark. *)
KeyRow(k) ==
  /\ key[k].org # NoOrg => org[key[k].org] # "none"
  /\ k \in revoked => key[k].org # NoOrg /\ ~key[k].live

IInv ==
  /\ TypeOK
  /\ \A c \in Clients : Held(c)
  /\ \A k \in Keys : KeyRow(k)

-----------------------------------------------------------------------------
(* The tables. *)

LEMMA NoRow == ASSUME NEW k \in Keys, key[k] = NoKeyRow
               PROVE  key[k].org = NoOrg /\ key[k].live = FALSE
  BY DEF NoKeyRow

\* What the statements on keys do to a row.
LEMMA Created ==
  ASSUME DirectoryTypeOK, NEW k \in Keys, NEW o \in Orgs, NEW admin \in BOOLEAN,
         CreateApiKey(k, o, admin)
  PROVE  /\ key' \in [Keys -> KeyRows]
         /\ key[k].org = NoOrg /\ key'[k].org = o /\ org[o] # "none"
         /\ \A j \in Keys \ {k} : key'[j] = key[j]
  BY NoRow DEF DirectoryTypeOK, CreateApiKey, KeyRows

LEMMA Marked ==
  ASSUME DirectoryTypeOK, NEW k \in Keys, RevokeApiKey(k)
  PROVE  /\ key' \in [Keys -> KeyRows]
         /\ key'[k].live = FALSE
         /\ \A j \in Keys : key'[j].org = key[j].org /\ (key'[j].live => key[j].live)
  BY DEF DirectoryTypeOK, RevokeApiKey, KeyRows

LEMMA Updated ==
  ASSUME DirectoryTypeOK, NEW k \in Keys, NEW admin \in BOOLEAN, UpdateApiKey(k, admin)
  PROVE  /\ key' \in [Keys -> KeyRows]
         /\ \A j \in Keys : key'[j].org = key[j].org /\ key'[j].live = key[j].live
  BY DEF DirectoryTypeOK, UpdateApiKey, KeyRows

LEMMA SignedUp ==
  ASSUME DirectoryTypeOK, NEW e \in Emails, NEW o \in Orgs, SignupUser(e, o)
  PROVE  /\ org' \in [Orgs -> OrgStates] /\ user' \in [Emails -> Orgs \cup {NoOrg}]
         /\ user[e] = NoOrg /\ user'[e] = o /\ \A d \in Emails \ {e} : user'[d] = user[d]
         /\ org[o] = "none" /\ org'[o] # "none" /\ \A p \in Orgs \ {o} : org'[p] = org[p]
  BY DEF DirectoryTypeOK, SignupUser, CreateOrg, OrgStates

-----------------------------------------------------------------------------
(* Steps, by what they leave alone. *)

Serving(c) ==
  \/ \E k \in Keys : Call(c, k)
  \/ Lookup(c) \/ CountFromCache(c) \/ Probe(c) \/ Charge(c)
  \/ Book(c) \/ LeaveUnbooked(c) \/ GateFails(c)

Starting(c) ==
  \/ \E e \in Emails : SignupCheck(c, e) \/ SeedCheck(c, e)
  \/ \E e \in Emails, k \in Keys : FindOwnKey(c, e, k)
  \/ \E k \in Keys : AdminLookup(c, k)

KeyWork ==
  \/ \E k \in Keys, o \in Orgs, admin \in BOOLEAN : CreateApiKey(k, o, admin) /\ UNCHANGED revoked
  \/ \E k \in Keys : RevokeApiKey(k) /\ key[k].org # NoOrg /\ revoked' = revoked \cup {k}
  \/ \E k \in Keys, admin \in BOOLEAN : UpdateApiKey(k, admin) /\ UNCHANGED revoked
  \/ UNCHANGED <<key, revoked>>

OrgWork ==
  \/ \E e \in Emails, o \in Orgs : SignupUser(e, o) /\ UNCHANGED founded
  \/ \E o \in Orgs : CreateOrg(o) /\ UNCHANGED user /\ founded' = founded \cup {o}
  \/ \E o \in Orgs, d \in BOOLEAN : SetOrgDisabled(o, d) /\ UNCHANGED <<user, founded>>
  \/ UNCHANGED <<org, user, founded>>

\* Every step does one thing to keys, or one thing to orgs and users.
LEMMA TableSteps ==
  ASSUME IInv, [Next]_vars
  PROVE  \/ KeyWork /\ UNCHANGED <<org, user, founded>>
         \/ OrgWork /\ UNCHANGED <<key, revoked>>
  <1> DEFINE Good == \/ KeyWork /\ UNCHANGED <<org, user, founded>>
                     \/ OrgWork /\ UNCHANGED <<key, revoked>>
  <1> USE DEF tables, directory, KeyWork, OrgWork
  <1>1. ASSUME NEW c \in Clients, Gate(c) PROVE Good
    BY <1>1 DEF Gate, Call, Lookup, CountFromCache, Probe, Charge, Book, LeaveUnbooked, GateFails
  <1>2. ASSUME NEW c \in Clients, Starting(c) PROVE Good
    BY <1>2 DEF Starting, SignupCheck, SeedCheck, FindOwnKey, AdminLookup
  <1>3. ASSUME NEW c \in Clients, NEW o \in Orgs, Signup(c, o) \/ Seed(c, o) PROVE Good
    <2>1. who[c] \in Emails
      BY <1>3 DEF Signup, Seed, IInv, Held
    <2>2. QED
      BY <1>3, <2>1 DEF Signup, Seed
  <1>4. ASSUME NEW e \in Emails, Login(e) \/ SessionExpires(e) PROVE Good
    BY <1>4 DEF Login, SessionExpires
  <1>5. ASSUME NEW e \in Emails, NEW k \in Keys, MintOwnKey(e, k) PROVE Good
    BY <1>5 DEF MintOwnKey, GetUserById
  <1>6. ASSUME NEW c \in Clients, RevokeOwnKey(c) PROVE Good
    <2>1. held[c] \in Keys /\ key[held[c]].org # NoOrg
      BY <1>6, DirectoryAssumption DEF IInv, Held, Holding, OrgOf, RevokeOwnKey
    <2>2. QED
      BY <1>6, <2>1 DEF RevokeOwnKey
  <1>7. ASSUME NEW o \in Orgs, OperatorFoundsOrg(o) PROVE Good
    BY <1>7 DEF OperatorFoundsOrg
  <1>8. ASSUME NEW o \in Orgs, NEW d \in BOOLEAN, OperatorDisablesOrg(o, d) PROVE Good
    BY <1>8 DEF OperatorDisablesOrg
  <1>9. ASSUME NEW k \in Keys, OperatorRevokes(k) PROVE Good
    BY <1>9 DEF OperatorRevokes
  <1>10. ASSUME NEW k \in Keys, NEW admin \in BOOLEAN, NEW o \in Orgs, NEW c \in Clients,
                AdminMints(c, k, o, admin)
         PROVE  Good
    BY <1>10 DEF AdminMints
  <1>11. ASSUME NEW k \in Keys, NEW admin \in BOOLEAN, OperatorUpdates(k, admin) PROVE Good
    BY <1>11 DEF OperatorUpdates
  <1>12. ASSUME NEW k \in Keys, NEW admin \in BOOLEAN, NEW c \in Clients, AdminUpdates(c, k, admin)
         PROVE  Good
    BY <1>12 DEF AdminUpdates
  <1>13. ASSUME NEW k \in Keys, NEW admin \in BOOLEAN, NEW o \in Orgs, OperatorMints(k, o, admin)
         PROVE  Good
    BY <1>13 DEF OperatorMints
  <1>14. ASSUME NEW o \in Orgs, CountExpires(o) PROVE Good
    BY <1>14 DEF CountExpires
  <1>15. ASSUME NewMonth \/ Restart \/ UNCHANGED vars PROVE Good
    BY <1>15 DEF NewMonth, Restart, vars
  <1>16. QED
    BY <1>1, <1>2, <1>3, <1>4, <1>5, <1>6, <1>7, <1>8, <1>9, <1>10, <1>11, <1>12, <1>13,
       <1>14, <1>15 DEF Next, Users, Operators, Starting

\* Whose key it is never changes, nor does whose user; a key that is no longer good
\* stays so, and no org goes.
LEMMA TablesGrow ==
  ASSUME IInv, [Next]_vars
  PROVE  /\ DirectoryTypeOK' /\ \A k \in Keys : KeyRow(k)'
         /\ \A k \in Keys : key[k].org # NoOrg => /\ key'[k].org = key[k].org
                                                  /\ key'[k].live => key[k].live
         /\ \A e \in Emails : user[e] # NoOrg => user'[e] = user[e]
         /\ \A o \in Orgs : org[o] # "none" => org'[o] # "none"
  <1> DEFINE Kept ==
        /\ DirectoryTypeOK' /\ \A k \in Keys : KeyRow(k)'
        /\ \A k \in Keys : key[k].org # NoOrg => /\ key'[k].org = key[k].org
                                                 /\ key'[k].live => key[k].live
        /\ \A e \in Emails : user[e] # NoOrg => user'[e] = user[e]
        /\ \A o \in Orgs : org[o] # "none" => org'[o] # "none"
  <1> USE DEF IInv, TypeOK
  <1>1. CASE UNCHANGED <<org, user, founded>>
    <2>1. ASSUME NEW k \in Keys, NEW o \in Orgs, NEW admin \in BOOLEAN,
                 CreateApiKey(k, o, admin), UNCHANGED revoked
          PROVE Kept
      <3>1. /\ key' \in [Keys -> KeyRows]
            /\ key[k].org = NoOrg /\ key'[k].org = o /\ org[o] # "none"
            /\ \A j \in Keys \ {k} : key'[j] = key[j]
        BY <2>1, Created
      <3>2. QED
        BY <1>1, <2>1, <3>1 DEF DirectoryTypeOK, KeyRow
    <2>2. ASSUME NEW k \in Keys, RevokeApiKey(k), key[k].org # NoOrg, revoked' = revoked \cup {k}
          PROVE Kept
      <3>1. /\ key' \in [Keys -> KeyRows] /\ key'[k].live = FALSE
            /\ \A j \in Keys : key'[j].org = key[j].org /\ (key'[j].live => key[j].live)
        BY <2>2, Marked
      <3>2. QED
        BY <1>1, <2>2, <3>1 DEF DirectoryTypeOK, KeyRow
    <2>3. ASSUME NEW k \in Keys, NEW admin \in BOOLEAN, UpdateApiKey(k, admin), UNCHANGED revoked
          PROVE Kept
      <3>1. /\ key' \in [Keys -> KeyRows]
            /\ \A j \in Keys : key'[j].org = key[j].org /\ key'[j].live = key[j].live
        BY <2>3, Updated
      <3>2. QED
        BY <1>1, <2>3, <3>1 DEF DirectoryTypeOK, KeyRow
    <2>4. CASE UNCHANGED <<key, revoked>>
      BY <1>1, <2>4 DEF DirectoryTypeOK, KeyRow
    <2>5. CASE KeyWork
      BY <2>1, <2>2, <2>3, <2>4, <2>5 DEF KeyWork
    <2>6. CASE OrgWork /\ UNCHANGED <<key, revoked>>
      BY <2>4, <2>6
    <2>7. QED
      BY <2>5, <2>6, TableSteps
  <1>2. CASE OrgWork /\ UNCHANGED <<key, revoked>>
    <2>1. \A k \in Keys : key[k].org \in Orgs \cup {NoOrg}
      BY DEF DirectoryTypeOK, KeyRows
    <2>2. ASSUME NEW e \in Emails, NEW o \in Orgs, SignupUser(e, o) PROVE Kept
      BY <1>2, <2>1, <2>2, SignedUp DEF DirectoryTypeOK, KeyRow
    <2>3. ASSUME NEW o \in Orgs, CreateOrg(o), UNCHANGED user PROVE Kept
      BY <1>2, <2>1, <2>3 DEF DirectoryTypeOK, KeyRow, CreateOrg, OrgStates
    <2>4. ASSUME NEW o \in Orgs, NEW d \in BOOLEAN, SetOrgDisabled(o, d), UNCHANGED user PROVE Kept
      BY <1>2, <2>1, <2>4 DEF DirectoryTypeOK, KeyRow, SetOrgDisabled, OrgStates
    <2>5. CASE UNCHANGED <<org, user>>
      BY <1>2, <2>5 DEF DirectoryTypeOK, KeyRow
    <2>6. QED
      BY <1>2, <2>2, <2>3, <2>4, <2>5 DEF OrgWork
  <1>3. QED
    BY <1>1, <1>2, TableSteps

-----------------------------------------------------------------------------
(* The requests. *)

RequestType ==
  /\ pc \in [Clients -> Labels]
  /\ held \in [Clients -> Keys \cup {NoKey}]
  /\ who \in [Clients -> Emails \cup {NoOne}]
  /\ read \in [Clients -> Nat]
  /\ late \subseteq Clients

QuotaType ==
  /\ cache \in [Orgs -> 0..Limit \cup {NoCount}]
  /\ booked \in [Orgs -> Nat]

RestType ==
  /\ sessions \subseteq {e \in Emails : user[e] # NoOrg}
  /\ edits \in 0..MaxEdits
  /\ revoked \subseteq Keys /\ founded \subseteq Orgs

LEMMA TypeParts == TypeOK <=> DirectoryTypeOK /\ RequestType /\ QuotaType /\ RestType
  BY DEF TypeOK, RequestType, QuotaType, RestType

\* A request moves on, begins or ends, and its locals stay in their types.
LEMMA EndTyped ==
  ASSUME RequestType, NEW c \in Clients, End(c)
  PROVE  RequestType' /\ pc'[c] = "idle" /\ \A d \in Clients \ {c} : /\ pc'[d] = pc[d]
                                                  /\ held'[d] = held[d] /\ who'[d] = who[d]
                                                  /\ read'[d] = read[d]
  BY DEF RequestType, End, Labels

LEMMA BeginTyped ==
  ASSUME RequestType, NEW c \in Clients, NEW label \in Labels,
         NEW k \in Keys \cup {NoKey}, NEW e \in Emails \cup {NoOne},
         Begin(c, label, k, e), late' \subseteq Clients
  PROVE  RequestType'
  BY DEF RequestType, Begin

LEMMA GotoTyped ==
  ASSUME RequestType, NEW c \in Clients, NEW label \in Labels, Goto(c, label),
         read' \in [Clients -> Nat], late' \subseteq Clients
  PROVE  RequestType'
  BY DEF RequestType, Goto

\* What a step leaves of each request: as it was, at its end, one step further with
\* the same key and user, or new with good ones.
Fresh(c) ==
  /\ pc'[c] \in Holding => held'[c] \in Keys /\ key[held'[c]].org # NoOrg
  /\ pc'[c] \in {"signing", "seeding", "revoking"} => who'[c] \in Emails
  /\ pc'[c] \notin {"quota", "probe", "probed", "admitted"}
  /\ pc'[c] = "revoking" => key[held'[c]].org = user[who'[c]]

Onward(c) ==
  /\ held'[c] = held[c] /\ who'[c] = who[c]
  /\ pc[c] \in Holding /\ pc'[c] \in Gated
  /\ pc'[c] \in {"probe", "probed"} => OrgOf(c) \in Metered

Settled(c) ==
  \/ pc'[c] = pc[c] /\ held'[c] = held[c] /\ who'[c] = who[c] /\ read'[c] = read[c]
  \/ pc'[c] = "idle"
  \/ Fresh(c)

Moved(c) == Settled(c) \/ Onward(c)

Requested == RequestType' /\ QuotaType' /\ \A d \in Clients : Moved(d)

LEMMA GateMoves ==
  ASSUME IInv, NEW c \in Clients, Gate(c)
  PROVE  Requested
  <1>0. RequestType /\ QuotaType /\ DirectoryTypeOK /\ Held(c)
    BY TypeParts DEF IInv
  <1> USE AccessAssumption DEF Requested, Moved, Settled
  <1>1. ASSUME NEW k \in Keys, Call(c, k) PROVE Requested
    <2>1. late' \subseteq Clients /\ Begin(c, "lookup", k, NoOne)
      BY <1>0, <1>1 DEF Call, RequestType
    <2>2. RequestType'
      BY <1>0, <2>1, BeginTyped DEF Labels
    <2>3. QuotaType' /\ key[k].org # NoOrg
      BY <1>0, <1>1 DEF Call, QuotaType, quota
    <2>4. \A d \in Clients : Moved(d)
      BY <1>0, <2>1, <2>3 DEF RequestType, Begin, Fresh
    <2>5. QED
      BY <2>2, <2>3, <2>4
  <1>2. ASSUME End(c), QuotaType' PROVE Requested
    BY <1>0, <1>2, EndTyped
  <1>3. ASSUME NEW label \in Gated, Goto(c, label), read' \in [Clients -> Nat], UNCHANGED late,
               \A d \in Clients \ {c} : read'[d] = read[d],
               QuotaType', pc[c] \in Holding, label \in {"probe", "probed"} => OrgOf(c) \in Metered
        PROVE  Requested
    <2>1. RequestType'
      BY <1>0, <1>3, GotoTyped DEF RequestType, Gated, Labels
    <2>2. \A d \in Clients : Moved(d)
      BY <1>0, <1>3 DEF RequestType, Goto, Onward
    <2>3. QED
      BY <1>3, <2>1, <2>2
  <1>4. CASE Lookup(c)
    BY <1>0, <1>2, <1>3, <1>4 DEF Lookup, QuotaType, quota, RequestType, Gated, Holding
  <1>5. CASE CountFromCache(c)
    <2>1. QuotaType'
      BY <1>0, <1>5 DEF CountFromCache, QuotaType
    <2>2. QED
      BY <1>0, <1>2, <1>3, <1>5, <2>1 DEF CountFromCache, RequestType, Gated, Holding
  <1>6. CASE Probe(c)
    <2>1. booked[OrgOf(c)] \in Nat
      BY <1>0, <1>6 DEF Probe, QuotaType, Held, Holding, Gated
    <2>2. QED
      BY <1>0, <1>3, <1>6, <2>1 DEF Probe, QuotaType, quota, RequestType, Gated, Holding, Held
  <1>7. CASE Charge(c)
    <2>1. QuotaType'
      <3> DEFINE count == IF read[c] < Limit THEN read[c] ELSE Limit
      <3>1. read[c] \in Nat /\ Limit \in Nat
        BY <1>0 DEF RequestType
      <3>2. count \in 0..Limit \cup {NoCount}
        BY <3>1
      <3>3. booked' = booked /\ cache' = [cache EXCEPT ![OrgOf(c)] = count]
        BY <1>7 DEF Charge
      <3> HIDE DEF count
      <3>4. cache' \in [Orgs -> 0..Limit \cup {NoCount}]
        BY <1>0, <3>2, <3>3 DEF QuotaType
      <3>5. QED
        BY <1>0, <3>3, <3>4 DEF QuotaType
    <2>2. ASSUME Goto(c, "admitted"), UNCHANGED <<read, late>> PROVE Requested
      BY <1>0, <1>3, <1>7, <2>1, <2>2 DEF Charge, RequestType, Gated, Holding
    <2>3. End(c) \/ (Goto(c, "admitted") /\ UNCHANGED <<read, late>>)
      BY <1>7 DEF Charge
    <2>4. QED
      BY <1>2, <2>1, <2>2, <2>3
  <1>8. CASE Book(c)
    <2>1. QuotaType'
      BY <1>0, <1>8 DEF Book, QuotaType
    <2>2. QED
      BY <1>2, <1>8, <2>1 DEF Book
  <1>9. CASE LeaveUnbooked(c) \/ GateFails(c)
    BY <1>0, <1>2, <1>9 DEF LeaveUnbooked, GateFails, quota, QuotaType
  <1>10. QED
    BY <1>1, <1>4, <1>5, <1>6, <1>7, <1>8, <1>9 DEF Gate

Waiting == RequestType' /\ QuotaType' /\ \A d \in Clients : Settled(d)

LEMMA OthersMove ==
  ASSUME IInv, [Next]_vars, \A c \in Clients : ~Gate(c)
  PROVE  Waiting
  <1>0. RequestType /\ QuotaType /\ DirectoryTypeOK
    BY TypeParts DEF IInv
  <1> USE AccessAssumption DEF Waiting, Settled, quota, request, QuotaType
  <1>1. ASSUME UNCHANGED <<request, quota>>, late' \subseteq Clients PROVE Waiting
    BY <1>0, <1>1 DEF RequestType
  <1>2. ASSUME NEW c \in Clients, End(c), UNCHANGED quota PROVE Waiting
    BY <1>0, <1>2, EndTyped
  <1>3. ASSUME NEW c \in Clients, Starting(c) PROVE Waiting
    <2>1. ASSUME NEW label \in {"signing", "seeding"}, NEW e \in Emails,
                 Begin(c, label, NoKey, e), UNCHANGED <<late, quota>>
          PROVE  Waiting
      <3>1. RequestType'
        BY <1>0, <2>1, BeginTyped DEF Labels, RequestType
      <3>2. QED
        BY <1>0, <2>1, <3>1 DEF Begin, RequestType, Fresh, Holding, Gated
    <2>2. ASSUME NEW e \in Emails, NEW k \in Keys, FindOwnKey(c, e, k) PROVE Waiting
      <3>1. key[k].org # NoOrg /\ key[k].org = user[e]
        BY <2>2, DirectoryAssumption DEF FindOwnKey, GetUserById, Listed, KeysOf
      <3>2. RequestType'
        BY <1>0, <2>2, BeginTyped DEF FindOwnKey, Labels, RequestType
      <3>3. QED
        BY <1>0, <2>2, <3>1, <3>2 DEF FindOwnKey, Begin, RequestType, Fresh
    <2>3. ASSUME NEW k \in Keys, AdminLookup(c, k) PROVE Waiting
      <3>1. RequestType'
        BY <1>0, <2>3, BeginTyped DEF AdminLookup, Labels, RequestType
      <3>2. QED
        BY <1>0, <2>3, <3>1 DEF AdminLookup, AdminKeyOpens, KeyOpens, Begin, RequestType, Fresh
    <2>4. QED
      BY <1>3, <2>1, <2>2, <2>3 DEF Starting, SignupCheck, SeedCheck
  <1>4. ASSUME NEW o \in Orgs, CountExpires(o) PROVE Waiting
    BY <1>0, <1>4 DEF CountExpires, RequestType
  <1>5. CASE NewMonth \/ Restart
    BY <1>0, <1>5 DEF NewMonth, Restart, RequestType, Labels
  <1>6. ASSUME NEW c \in Clients, NEW o \in Orgs, Signup(c, o) \/ Seed(c, o)
        PROVE  Waiting
    BY <1>2, <1>6 DEF Signup, Seed
  <1>7. ASSUME NEW c \in Clients, RevokeOwnKey(c) PROVE Waiting
    BY <1>2, <1>7 DEF RevokeOwnKey
  <1>8. ASSUME NEW k \in Keys, NEW admin \in BOOLEAN, NEW c \in Clients,
               \/ AdminUpdates(c, k, admin)
               \/ \E o \in Orgs : AdminMints(c, k, o, admin)
        PROVE  Waiting
    BY <1>2, <1>8 DEF AdminUpdates, AdminMints
  <1>9. ASSUME NEW e \in Emails, Login(e) \/ SessionExpires(e) \/ \E k \in Keys : MintOwnKey(e, k)
        PROVE  Waiting
    BY <1>0, <1>1, <1>9 DEF Login, SessionExpires, MintOwnKey, RequestType
  <1>10. ASSUME NEW o \in Orgs,
                OperatorFoundsOrg(o) \/ \E d \in BOOLEAN : OperatorDisablesOrg(o, d)
         PROVE  Waiting
    BY <1>0, <1>1, <1>10 DEF OperatorFoundsOrg, OperatorDisablesOrg, RequestType
  <1>11. ASSUME NEW k \in Keys,
                \/ OperatorRevokes(k)
                \/ \E admin \in BOOLEAN :
                     OperatorUpdates(k, admin) \/ \E o \in Orgs : OperatorMints(k, o, admin)
         PROVE  Waiting
    BY <1>0, <1>1, <1>11 DEF OperatorRevokes, OperatorUpdates, OperatorMints, RequestType
  <1>12. CASE UNCHANGED vars
    BY <1>0, <1>1, <1>12 DEF vars, RequestType
  <1>13. QED
    BY <1>3, <1>4, <1>5, <1>6, <1>7, <1>8, <1>9, <1>10, <1>11, <1>12
       DEF Next, Users, Operators, Starting

LEMMA RequestsMove == ASSUME IInv, [Next]_vars PROVE Requested
  <1>1. ASSUME NEW c \in Clients, Gate(c) PROVE Requested
    BY <1>1, GateMoves
  <1>2. QED
    BY <1>1, OthersMove DEF Waiting, Requested, Moved

-----------------------------------------------------------------------------
(* The inductive invariant. *)

LEMMA InvInit == Init => IInv
  BY AccessAssumption, DirectoryAssumption
     DEF Init, IInv, TypeOK, DirectoryInit, DirectoryTypeOK, KeyRows, NoKeyRow, OrgStates,
         Labels, Held, Holding, Gated, KeyRow

LEMMA EditSteps == [Next]_vars => Edit \/ UNCHANGED edits
  <1> DEFINE Good == Edit \/ UNCHANGED edits
  <1> SUFFICES ASSUME [Next]_vars PROVE Good
    OBVIOUS
  <1> USE DEF tables
  <1>1. ASSUME NEW c \in Clients, Gate(c) PROVE Good
    BY <1>1 DEF Gate, Call, Lookup, CountFromCache, Probe, Charge, Book, LeaveUnbooked, GateFails
  <1>2. ASSUME NEW c \in Clients, Starting(c) PROVE Good
    BY <1>2 DEF Starting, SignupCheck, SeedCheck, FindOwnKey, AdminLookup
  <1>3. CASE Users
    BY <1>2, <1>3 DEF Users, Starting, Signup, Login, SessionExpires, MintOwnKey, RevokeOwnKey
  <1>4. CASE Operators
    BY <1>2, <1>4 DEF Operators, Starting, OperatorFoundsOrg, OperatorDisablesOrg, OperatorRevokes,
       OperatorUpdates, OperatorMints, AdminUpdates, AdminMints, Seed
  <1>5. ASSUME NEW o \in Orgs, CountExpires(o) PROVE Good
    BY <1>5 DEF CountExpires
  <1>6. CASE NewMonth \/ Restart \/ UNCHANGED vars
    BY <1>6 DEF NewMonth, Restart, vars
  <1>7. QED
    BY <1>1, <1>3, <1>4, <1>5, <1>6 DEF Next

LEMMA RestStep == IInv /\ [Next]_vars => RestType'
  <1> SUFFICES ASSUME IInv, [Next]_vars PROVE RestType'
    OBVIOUS
  <1>0. RestType /\ DirectoryTypeOK
    BY TypeParts DEF IInv
  <1>1. \A e \in Emails : user[e] # NoOrg => user'[e] # NoOrg
    BY TablesGrow
  <1>2. edits' \in 0..MaxEdits
    BY <1>0, AccessAssumption, EditSteps DEF RestType, Edit
  <1>3. revoked' \subseteq Keys /\ founded' \subseteq Orgs
    BY <1>0, TableSteps DEF RestType, KeyWork, OrgWork
  <1>4. sessions' \subseteq {e \in Emails : user'[e] # NoOrg}
    <2>1. ASSUME sessions' \subseteq sessions PROVE sessions' \subseteq {e \in Emails : user'[e] # NoOrg}
      BY <1>0, <1>1, <2>1 DEF RestType
    <2>2. ASSUME NEW e \in Emails, Login(e) PROVE sessions' \subseteq {d \in Emails : user'[d] # NoOrg}
      <3>1. user[e] # NoOrg
        BY <2>2, DirectoryAssumption DEF Login, FindUserByEmail
      <3>2. QED
        BY <1>0, <1>1, <2>2, <3>1 DEF RestType, Login
    <2>3. ASSUME NEW c \in Clients, NEW o \in Orgs, Signup(c, o)
          PROVE  sessions' \subseteq {e \in Emails : user'[e] # NoOrg}
      <3>1. who[c] \in Emails
        BY <2>3 DEF Signup, IInv, Held
      <3>2. CASE SignupUser(who[c], o) /\ sessions' = sessions \cup {who[c]}
        BY <1>0, <1>1, <3>1, <3>2, SignedUp, DirectoryAssumption DEF RestType
      <3>3. QED
        BY <2>1, <2>3, <3>2 DEF Signup
    <2>4. ASSUME ~\E e \in Emails : Login(e), ~\E c \in Clients, o \in Orgs : Signup(c, o)
          PROVE  sessions' \subseteq sessions
      BY <2>4 DEF Next, vars, Gate, Users, Operators, tables, directory,
         Call, Lookup, CountFromCache, Probe, Charge, Book, LeaveUnbooked, GateFails,
         CountExpires, NewMonth, Restart, SignupCheck, SessionExpires,
         MintOwnKey, FindOwnKey, RevokeOwnKey, OperatorFoundsOrg, OperatorDisablesOrg,
         OperatorRevokes, SeedCheck, Seed, AdminLookup, AdminMints, AdminUpdates,
         OperatorMints, OperatorUpdates
    <2>5. QED
      BY <2>1, <2>2, <2>3, <2>4
  <1>5. QED
    BY <1>2, <1>3, <1>4 DEF RestType

\* Who held a key or acted for a user still does.
LEMMA HeldStep ==
  ASSUME IInv, [Next]_vars, NEW c \in Clients
  PROVE  Held(c)'
  <1>0. Requested
    BY RequestsMove
  <1>1. \A k \in Keys : key[k].org # NoOrg => key'[k].org = key[k].org /\ key[k].org \in Orgs
    BY TablesGrow DEF IInv, TypeOK, DirectoryTypeOK, KeyRows
  <1>2. Held(c) /\ NoOrg \notin Orgs
    BY DirectoryAssumption DEF IInv
  <1>3. CASE pc'[c] = "idle"
    BY <1>3 DEF Held, Holding, Gated
  <1>4. CASE pc'[c] = pc[c] /\ held'[c] = held[c] /\ who'[c] = who[c]
    BY <1>1, <1>2, <1>4 DEF Held, OrgOf, Holding, Gated
  <1>5. CASE Fresh(c)
    BY <1>1, <1>5 DEF Fresh, Held, OrgOf
  <1>6. CASE Onward(c)
    BY <1>1, <1>2, <1>6 DEF Onward, Held, OrgOf, Holding, Gated
  <1>7. QED
    BY <1>0, <1>3, <1>4, <1>5, <1>6 DEF Requested, Moved, Settled

LEMMA InvStep == IInv /\ [Next]_vars => IInv'
  <1> SUFFICES ASSUME IInv, [Next]_vars PROVE IInv'
    OBVIOUS
  <1>1. RequestType' /\ QuotaType'
    BY RequestsMove DEF Requested
  <1>2. DirectoryTypeOK' /\ (\A k \in Keys : KeyRow(k)')
    BY TablesGrow
  <1>3. TypeOK'
    BY <1>1, <1>2, RestStep, TypeParts DEF TypeOK, RequestType, QuotaType, RestType
  <1>4. QED
    BY <1>2, <1>3, HeldStep DEF IInv

LEMMA Inductive == Spec => []IInv
  <1>1. QED
    BY InvInit, InvStep, PTL DEF Spec

\* Requests, counts, keys, sessions stay in their types, for any sizes and any quota.
THEOREM TypeCorrect == Spec => []TypeOK
  <1>1. IInv => TypeOK
    BY DEF IInv
  <1>2. QED
    BY <1>1, Inductive, PTL

-----------------------------------------------------------------------------
(* Orgs and their owners. *)

Owned ==
  /\ \A o \in founded : o \in Orgs /\ org[o] # "none"
  /\ \A o \in Orgs : IF org[o] = "none" \/ o \in founded
                    THEN \A e \in Emails : user[e] # o
                    ELSE \E e \in Emails : /\ user[e] = o
                                          /\ \A d \in Emails \ {e} : user[d] # o

LEMMA OwnedStep == ASSUME IInv, Owned, [Next]_vars PROVE Owned'
  <1>0. DirectoryTypeOK /\ NoOrg \notin Orgs
    BY DirectoryAssumption DEF IInv, TypeOK
  <1>1. CASE UNCHANGED <<org, user, founded>>
    BY <1>1 DEF Owned
  <1>2. ASSUME NEW e \in Emails, NEW o \in Orgs, SignupUser(e, o), UNCHANGED founded PROVE Owned'
    <2>1. /\ user[e] = NoOrg /\ user'[e] = o /\ \A d \in Emails \ {e} : user'[d] = user[d]
          /\ org[o] = "none" /\ org'[o] # "none" /\ \A p \in Orgs \ {o} : org'[p] = org[p]
      BY <1>0, <1>2, SignedUp
    <2>2. \A p \in founded : p \in Orgs /\ org'[p] # "none"
      BY <2>1 DEF Owned
    <2>3. o \notin founded /\ \A d \in Emails : user[d] # o
      BY <2>1 DEF Owned
    <2>4. \A p \in Orgs \ {o} : \A d \in Emails : user'[d] = p <=> user[d] = p
      BY <1>0, <2>1
    <2>5. ASSUME NEW p \in Orgs \ {o}
          PROVE  IF org'[p] = "none" \/ p \in founded
                 THEN \A d \in Emails : user'[d] # p
                 ELSE \E d \in Emails : user'[d] = p /\ \A x \in Emails \ {d} : user'[x] # p
      BY <2>1, <2>4 DEF Owned
    <2>6. QED
      BY <1>2, <2>1, <2>2, <2>3, <2>5 DEF Owned
  <1>3. ASSUME NEW o \in Orgs, CreateOrg(o), UNCHANGED user, founded' = founded \cup {o} PROVE Owned'
    BY <1>0, <1>3 DEF Owned, CreateOrg, DirectoryTypeOK
  <1>4. ASSUME NEW o \in Orgs, NEW d \in BOOLEAN, SetOrgDisabled(o, d), UNCHANGED <<user, founded>>
        PROVE  Owned'
    BY <1>0, <1>4 DEF Owned, SetOrgDisabled, DirectoryTypeOK
  <1>5. CASE OrgWork
    BY <1>1, <1>2, <1>3, <1>4, <1>5 DEF OrgWork
  <1>6. QED
    BY <1>1, <1>5, TableSteps

\* Sign-up and the seeding of users leave no org without its one owner and give none
\* to two, however requests race for names and emails.
THEOREM EveryOrgHasItsOwner == Spec => []OrgsHaveOwners
  <1>1. Init => Owned
    BY DirectoryAssumption DEF Init, DirectoryInit, Owned
  <1>2. IInv /\ Owned /\ [Next]_vars => Owned'
    BY OwnedStep
  <1>3. Owned => OrgsHaveOwners
    <2> SUFFICES ASSUME Owned, NEW o \in Orgs
                 PROVE  Cardinality({e \in Emails : user[e] = o})
                          = IF org[o] = "none" \/ o \in founded THEN 0 ELSE 1
      BY DEF OrgsHaveOwners
    <2>1. CASE org[o] = "none" \/ o \in founded
      <3>1. {e \in Emails : user[e] = o} = {}
        BY <2>1 DEF Owned
      <3>2. QED
        BY <2>1, <3>1, FS_EmptySet
    <2>2. CASE ~(org[o] = "none" \/ o \in founded)
      <3>1. PICK e \in Emails : user[e] = o /\ \A d \in Emails \ {e} : user[d] # o
        BY <2>2 DEF Owned
      <3>2. {d \in Emails : user[d] = o} = {e}
        BY <3>1
      <3>3. QED
        BY <2>2, <3>2, FS_Singleton
    <2>3. QED
      BY <2>1, <2>2
  <1>4. QED
    BY <1>1, <1>2, <1>3, Inductive, PTL DEF Spec

-----------------------------------------------------------------------------
(* Keys: whose they are, and what revocation does. *)

LEMMA OwnKeysStep == ASSUME IInv, OwnKeysOnly, [Next]_vars PROVE OwnKeysOnly'
  <1> SUFFICES ASSUME NEW c \in Clients, pc'[c] = "revoking"
               PROVE  key'[held'[c]].org = user'[who'[c]]
    BY DEF OwnKeysOnly, OrgOf
  <1>1. /\ \A k \in Keys : key[k].org # NoOrg => key'[k].org = key[k].org
        /\ \A e \in Emails : user[e] # NoOrg => user'[e] = user[e]
    BY TablesGrow
  <1>2. Moved(c) /\ Held(c) /\ NoOrg \notin Orgs
    BY RequestsMove, DirectoryAssumption DEF Requested, IInv
  <1>3. CASE pc'[c] = pc[c] /\ held'[c] = held[c] /\ who'[c] = who[c]
    BY <1>1, <1>2, <1>3 DEF Held, Holding, OwnKeysOnly, OrgOf
  <1>4. CASE Fresh(c)
    BY <1>1, <1>4 DEF Fresh, Holding
  <1>5. QED
    BY <1>2, <1>3, <1>4 DEF Moved, Settled, Onward, Gated

\* The id that the second half of a user's revocation goes by is still the id of a
\* key of the user's own org, whatever was written since it was looked for.
THEOREM UsersRevokeTheirOwn == Spec => []OwnKeysOnly
  <1>1. Init => OwnKeysOnly
    BY DEF Init, OwnKeysOnly
  <1>2. IInv /\ OwnKeysOnly /\ [Next]_vars => OwnKeysOnly'
    BY OwnKeysStep
  <1>3. QED
    BY <1>1, <1>2, Inductive, PTL DEF Spec

Closed(k) == k \in revoked \/ ~KeyOpens(k)

LateAtTheDoor == \A c \in late : pc[c] = "lookup" /\ held[c] \in Keys /\ Closed(held[c])

LEMMA RevokedIsClosed == ASSUME IInv, NEW k \in Keys, Closed(k) PROVE ~KeyOpens(k)
  BY DEF IInv, KeyRow, Closed, KeyOpens

\* Only enabling its org can open a key again, and none that has been revoked.
LEMMA StaysClosed ==
  ASSUME IInv, [Next]_vars, NEW k \in Keys, Closed(k), key[k].org # NoOrg,
         k \in revoked \/ (org[key[k].org] = "disabled" => org'[key[k].org] = "disabled")
  PROVE  Closed(k)'
  <1>1. revoked \subseteq revoked'
    BY TableSteps DEF KeyWork, OrgWork
  <1>2. key'[k].org = key[k].org /\ (key'[k].live => key[k].live)
    BY TablesGrow
  <1>3. CASE k \in revoked
    BY <1>1, <1>3 DEF Closed
  <1>4. CASE k \notin revoked
    <2>1. ~key[k].live \/ org[key[k].org] # "open"
      BY <1>4 DEF Closed, KeyOpens
    <2>2. key[k].org \in Orgs /\ org[key[k].org] # "none" /\ org[key[k].org] \in OrgStates
      BY DEF IInv, TypeOK, DirectoryTypeOK, KeyRows, KeyRow
    <2>3. org[key[k].org] # "open" => org'[key[k].org] = "disabled"
      BY <1>4, <2>2 DEF OrgStates
    <2>4. QED
      BY <1>2, <2>1, <2>3 DEF Closed, KeyOpens
  <1>5. QED
    BY <1>3, <1>4

\* No org is enabled, and the late requests that stay are where they were.
Unmoved ==
  /\ \A o \in Orgs : org[o] = "disabled" => org'[o] = "disabled"
  /\ late' \subseteq late
  /\ \A c \in late' : pc'[c] = pc[c] /\ held'[c] = held[c]

LEMMA UnmovedStep ==
  ASSUME IInv, [Next]_vars, LateAtTheDoor, Unmoved
  PROVE  LateAtTheDoor'
  <1> SUFFICES ASSUME NEW c \in late'
               PROVE  pc'[c] = "lookup" /\ held'[c] \in Keys /\ Closed(held[c])'
    BY DEF LateAtTheDoor
  <1>1. c \in late /\ pc'[c] = pc[c] /\ held'[c] = held[c]
    BY DEF Unmoved
  <1>2. pc[c] = "lookup" /\ held[c] \in Keys /\ Closed(held[c])
    BY <1>1 DEF LateAtTheDoor
  <1>3. key[held[c]].org \in Orgs /\ key[held[c]].org # NoOrg
    BY <1>1, <1>2, DirectoryAssumption DEF IInv, TypeOK, Held, Holding, Gated, OrgOf
  <1>4. Closed(held[c])'
    BY <1>2, <1>3, StaysClosed, <1>1 DEF Unmoved, Closed, KeyOpens
  <1>5. QED
    BY <1>1, <1>2, <1>4

LEMMA LateGate ==
  ASSUME IInv, LateAtTheDoor, NEW c \in Clients, Gate(c), [Next]_vars
  PROVE  LateAtTheDoor'
  <1>0. RequestType
    BY TypeParts DEF IInv
  <1>1. ASSUME End(c), UNCHANGED tables PROVE LateAtTheDoor'
    BY <1>0, <1>1, EndTyped, UnmovedStep DEF Unmoved, tables, directory, End, RequestType
  <1>2. ASSUME c \notin late, UNCHANGED <<tables, late>>,
               \A d \in Clients \ {c} : pc'[d] = pc[d] /\ held'[d] = held[d]
        PROVE  LateAtTheDoor'
    BY <1>0, <1>2, UnmovedStep DEF Unmoved, tables, directory, RequestType
  <1>3. ASSUME NEW k \in Keys, Call(c, k) PROVE LateAtTheDoor'
    BY <1>0, <1>3 DEF Call, Begin, LateAtTheDoor, Closed, KeyOpens, tables, directory, RequestType
  <1>4. CASE Lookup(c)
    <2>1. KeyOpens(held[c]) => c \notin late
      BY RevokedIsClosed DEF LateAtTheDoor
    <2>2. QED
      BY <1>0, <1>1, <1>2, <1>4, <2>1 DEF Lookup, Goto, RequestType
  <1>5. CASE CountFromCache(c)
    BY <1>0, <1>1, <1>2, <1>5 DEF CountFromCache, Goto, RequestType, LateAtTheDoor
  <1>6. CASE Probe(c) \/ Charge(c)
    BY <1>0, <1>1, <1>2, <1>6 DEF Probe, Charge, Goto, RequestType, LateAtTheDoor
  <1>7. CASE Book(c) \/ LeaveUnbooked(c) \/ GateFails(c)
    BY <1>1, <1>7 DEF Book, LeaveUnbooked, GateFails
  <1>8. QED
    BY <1>3, <1>4, <1>5, <1>6, <1>7 DEF Gate

LEMMA LateOthers ==
  ASSUME IInv, LateAtTheDoor, [Next]_vars, \A c \in Clients : ~Gate(c)
  PROVE  LateAtTheDoor'
  <1>0. RequestType /\ DirectoryTypeOK
    BY TypeParts DEF IInv
  <1> DEFINE SameOrgs == \A o \in Orgs : org[o] = "disabled" => org'[o] = "disabled"
  <1>1. ASSUME NEW c \in Clients, End(c), SameOrgs PROVE LateAtTheDoor'
    BY <1>0, <1>1, EndTyped, UnmovedStep DEF Unmoved, End, RequestType
  <1>2. ASSUME UNCHANGED <<pc, held, late>>, SameOrgs PROVE LateAtTheDoor'
    BY <1>2, UnmovedStep DEF Unmoved
  <1>3. ASSUME NEW c \in Clients, Starting(c) PROVE LateAtTheDoor'
    <2>1. UNCHANGED <<org, late>>
      <3>1. ASSUME NEW k \in Keys, AdminLookup(c, k) PROVE UNCHANGED <<org, late>>
        BY <3>1, RevokedIsClosed DEF AdminLookup, AdminKeyOpens, Closed, tables, directory
      <3>2. QED
        BY <1>3, <3>1 DEF Starting, SignupCheck, SeedCheck, FindOwnKey, tables, directory
    <2>2. /\ c \notin late
          /\ \A d \in Clients \ {c} : pc'[d] = pc[d] /\ held'[d] = held[d]
      BY <1>0, <1>3 DEF Starting, SignupCheck, SeedCheck, FindOwnKey, AdminLookup, Begin,
                        LateAtTheDoor, RequestType
    <2>3. QED
      BY <1>0, <2>1, <2>2, UnmovedStep DEF Unmoved, RequestType
  <1>4. ASSUME NEW o \in Orgs, NEW d \in BOOLEAN, OperatorDisablesOrg(o, d) PROVE LateAtTheDoor'
    <2>1. CASE d
      <3>1. SameOrgs
        BY <1>0, <1>4, <2>1 DEF OperatorDisablesOrg, SetOrgDisabled, DirectoryTypeOK
      <3>2. QED
        BY <1>2, <1>4, <2>1, <3>1 DEF OperatorDisablesOrg, request
    <2>2. CASE ~d
      <3> SUFFICES ASSUME NEW c \in late'
                   PROVE  pc'[c] = "lookup" /\ held'[c] \in Keys /\ Closed(held[c])'
        BY DEF LateAtTheDoor
      <3>1. /\ c \in late /\ pc'[c] = pc[c] /\ held'[c] = held[c]
            /\ OrgOf(c) # o \/ held[c] \in revoked
        BY <1>4, <2>2 DEF OperatorDisablesOrg, request
      <3>2. pc[c] = "lookup" /\ held[c] \in Keys /\ Closed(held[c])
        BY <3>1 DEF LateAtTheDoor
      <3>3. key[held[c]].org \in Orgs /\ key[held[c]].org # NoOrg
        BY <1>0, <3>1, <3>2, DirectoryAssumption DEF RequestType, IInv, Held, Holding, Gated, OrgOf
      <3>4. OrgOf(c) # o => org'[key[held[c]].org] = org[key[held[c]].org]
        BY <1>0, <1>4, <3>3 DEF OperatorDisablesOrg, SetOrgDisabled, DirectoryTypeOK, OrgOf
      <3>5. Closed(held[c])'
        BY <3>1, <3>2, <3>3, <3>4, StaysClosed
      <3>6. QED
        BY <3>1, <3>2, <3>5
    <2>3. QED
      BY <2>1, <2>2
  <1>5. ASSUME NEW o \in Orgs, CountExpires(o) PROVE LateAtTheDoor'
    BY <1>2, <1>5 DEF CountExpires, tables, directory, request
  <1>6. CASE NewMonth \/ UNCHANGED vars
    BY <1>2, <1>6 DEF NewMonth, vars, tables, directory, request
  <1>7. CASE Restart
    BY <1>7 DEF Restart, LateAtTheDoor
  <1>8. ASSUME NEW c \in Clients, NEW o \in Orgs, Signup(c, o) \/ Seed(c, o) PROVE LateAtTheDoor'
    <2>1. SameOrgs
      BY <1>0, <1>8 DEF Signup, Seed, SignupUser, CreateOrg, DirectoryTypeOK
    <2>2. QED
      BY <1>1, <1>8, <2>1 DEF Signup, Seed
  <1>9. ASSUME NEW c \in Clients, RevokeOwnKey(c) PROVE LateAtTheDoor'
    BY <1>1, <1>9 DEF RevokeOwnKey
  <1>10. ASSUME NEW k \in Keys, NEW admin \in BOOLEAN, NEW c \in Clients,
               \/ AdminUpdates(c, k, admin)
               \/ \E o \in Orgs : AdminMints(c, k, o, admin)
        PROVE  LateAtTheDoor'
    BY <1>1, <1>10 DEF AdminUpdates, AdminMints
  <1>11. ASSUME NEW e \in Emails, Login(e) \/ SessionExpires(e) \/ \E k \in Keys : MintOwnKey(e, k)
        PROVE  LateAtTheDoor'
    BY <1>2, <1>11 DEF Login, SessionExpires, MintOwnKey, directory, request
  <1>12. ASSUME NEW o \in Orgs, OperatorFoundsOrg(o) PROVE LateAtTheDoor'
    <2>1. SameOrgs
      BY <1>0, <1>12 DEF OperatorFoundsOrg, CreateOrg, DirectoryTypeOK
    <2>2. QED
      BY <1>2, <1>12, <2>1 DEF OperatorFoundsOrg, request
  <1>13. ASSUME NEW k \in Keys,
                \/ OperatorRevokes(k)
                \/ \E admin \in BOOLEAN :
                     OperatorUpdates(k, admin) \/ \E o \in Orgs : OperatorMints(k, o, admin)
         PROVE  LateAtTheDoor'
    BY <1>2, <1>13 DEF OperatorRevokes, OperatorUpdates, OperatorMints, request
  <1>14. QED
    BY <1>3, <1>4, <1>5, <1>6, <1>7, <1>8, <1>9, <1>10, <1>11, <1>12, <1>13
       DEF Next, Users, Operators, Starting

\* A request sent after its key was revoked, or while its org was disabled, never gets
\* past the lookup, whatever edits of the key and the org come in between.
THEOREM RevocationHolds == Spec => []RevokedKeyOpensNothing
  <1>1. Init => LateAtTheDoor
    BY DEF Init, LateAtTheDoor
  <1>2. IInv /\ LateAtTheDoor /\ [Next]_vars => LateAtTheDoor'
    <2>1. ASSUME IInv, LateAtTheDoor, [Next]_vars, NEW c \in Clients, Gate(c) PROVE LateAtTheDoor'
      BY <2>1, LateGate
    <2>2. QED
      BY <2>1, LateOthers
  <1>3. LateAtTheDoor => RevokedKeyOpensNothing
    BY DEF LateAtTheDoor, RevokedKeyOpensNothing
  <1>4. QED
    BY <1>1, <1>2, <1>3, Inductive, PTL DEF Spec

-----------------------------------------------------------------------------
(* The quota. *)

\* A request does not carry a stale permission of org o.
Out(o, c) ==
  held[c] # NoKey /\ OrgOf(c) = o => pc[c] # "admitted" /\ (pc[c] = "probed" => read[c] >= Limit)

LEMMA UsedUpGate ==
  ASSUME IInv, NEW o \in Metered, UsedUp(o), NEW c \in Clients, Gate(c)
  PROVE  UsedUp(o)'
  <1>0. RequestType /\ QuotaType /\ Held(c) /\ o \in Orgs /\ Limit \in Nat
    BY TypeParts, AccessAssumption DEF IInv
  <1>used. booked[o] >= Limit /\ cache[o] \in {NoCount, Limit}
    BY DEF UsedUp
  <1>out. \A d \in Clients : Out(o, d)
    BY DEF UsedUp, Out
  <1>1. UNCHANGED <<key, org>> /\ \A d \in Clients \ {c} : Out(o, d)'
    <2>1. /\ UNCHANGED <<key, org>>
          /\ \A d \in Clients \ {c} : pc'[d] = pc[d] /\ held'[d] = held[d] /\ read'[d] = read[d]
      BY <1>0 DEF Gate, Call, Lookup, CountFromCache, Probe, Charge, Book, LeaveUnbooked, GateFails,
         Begin, Goto, End, RequestType, tables, directory
    <2>2. QED
      BY <1>out, <2>1 DEF Out, OrgOf
  <1> DEFINE Kept == booked'[o] >= Limit /\ cache'[o] \in {NoCount, Limit} /\ Out(o, c)'
  <1>2. ASSUME pc'[c] \notin {"admitted", "probed"}, UNCHANGED quota PROVE Kept
    BY <1>used, <1>2 DEF Out, quota
  <1>3. ASSUME End(c) PROVE pc'[c] = "idle"
    BY <1>0, <1>3, EndTyped
  <1>4. ASSUME NEW label \in Labels, Goto(c, label) PROVE pc'[c] = label /\ held'[c] = held[c]
    BY <1>0, <1>4 DEF Goto, RequestType
  <1>5. ASSUME OrgOf(c) # o, held'[c] = held[c] \/ pc'[c] = "idle", cache'[o] = cache[o], booked' = booked
        PROVE  Kept
    BY <1>used, <1>1, <1>5 DEF Out, OrgOf
  <1> SUFFICES Kept
    BY <1>1 DEF UsedUp, Out
  <1> HIDE DEF Kept
  <1>6. ASSUME NEW k \in Keys, Call(c, k) PROVE Kept
    <2>1. pc'[c] = "lookup"
      BY <1>0, <1>6 DEF Call, Begin, RequestType
    <2>2. QED
      BY <1>2, <1>6, <2>1 DEF Call
  <1>7. CASE Lookup(c)
    BY <1>2, <1>3, <1>4, <1>7 DEF Lookup, Labels
  <1>8. CASE CountFromCache(c)
    <2>1. CASE OrgOf(c) = o
      <3>1. Goto(c, "probe") /\ UNCHANGED quota
        BY <1>used, <1>8, <2>1 DEF CountFromCache, quota
      <3>2. QED
        BY <1>2, <1>4, <3>1 DEF Labels
    <2>2. CASE OrgOf(c) # o
      <3>1. cache'[o] = cache[o] /\ booked' = booked
        BY <1>0, <1>8, <2>2 DEF CountFromCache, QuotaType
      <3>2. held'[c] = held[c] \/ pc'[c] = "idle"
        BY <1>3, <1>4, <1>8 DEF CountFromCache, Labels
      <3>3. QED
        BY <1>5, <2>2, <3>1, <3>2
    <2>3. QED
      BY <2>1, <2>2
  <1>9. CASE Probe(c)
    <2>1. /\ pc'[c] = "probed" /\ held'[c] = held[c] /\ UNCHANGED quota
          /\ read'[c] = booked[OrgOf(c)]
      BY <1>0, <1>4, <1>9 DEF Probe, Labels, RequestType
    <2>2. CASE OrgOf(c) = o
      BY <1>used, <2>1, <2>2 DEF Kept, Out, quota
    <2>3. CASE OrgOf(c) # o
      BY <1>5, <2>1, <2>3 DEF quota
    <2>4. QED
      BY <2>2, <2>3
  <1>10. CASE Charge(c)
    <2>1. CASE OrgOf(c) = o
      <3>1. ~(read[c] < Limit)
        BY <1>0, <1>out, <1>10, <2>1, AccessAssumption DEF Charge, Out, RequestType, Held, Holding, Gated
      <3>2. cache'[o] = Limit /\ booked' = booked
        BY <1>0, <1>10, <2>1, <3>1 DEF Charge, QuotaType
      <3>3. pc'[c] = "idle"
        BY <1>3, <1>10, <3>1 DEF Charge
      <3>4. QED
        BY <1>used, <3>2, <3>3 DEF Kept, Out
    <2>2. CASE OrgOf(c) # o
      <3>1. cache'[o] = cache[o] /\ booked' = booked
        BY <1>0, <1>10, <2>2 DEF Charge, QuotaType
      <3>2. held'[c] = held[c] \/ pc'[c] = "idle"
        BY <1>3, <1>4, <1>10 DEF Charge, Labels
      <3>3. QED
        BY <1>5, <2>2, <3>1, <3>2
    <2>3. QED
      BY <2>1, <2>2
  <1>11. CASE Book(c)
    <2>1. pc'[c] = "idle" /\ cache' = cache
      BY <1>3, <1>11 DEF Book
    <2>2. booked'[o] = booked[o] \/ booked'[o] = booked[o] + 1
      BY <1>0, <1>11 DEF Book, QuotaType
    <2>3. booked[o] \in Nat
      BY <1>0 DEF QuotaType
    <2>4. booked'[o] >= Limit
      BY <1>0, <1>used, <2>2, <2>3
    <2>5. QED
      BY <1>used, <2>1, <2>4 DEF Kept, Out
  <1>12. CASE LeaveUnbooked(c) \/ GateFails(c)
    BY <1>2, <1>3, <1>12 DEF LeaveUnbooked, GateFails
  <1>13. QED
    BY <1>6, <1>7, <1>8, <1>9, <1>10, <1>11, <1>12 DEF Gate

\* Everybody else leaves the counts alone, forgets some, or starts a new month.
LEMMA QuotaSteps ==
  ASSUME [Next]_vars, \A c \in Clients : ~Gate(c)
  PROVE  \/ UNCHANGED quota
         \/ (\E o \in Orgs : CountExpires(o)) \/ NewMonth \/ Restart
  <1> DEFINE Good == UNCHANGED quota \/ (\E o \in Orgs : CountExpires(o)) \/ NewMonth \/ Restart
  <1>1. ASSUME NEW c \in Clients, Starting(c) PROVE Good
    BY <1>1 DEF Starting, SignupCheck, SeedCheck, FindOwnKey, AdminLookup
  <1>2. CASE Users
    BY <1>1, <1>2 DEF Users, Starting, Signup, Login, SessionExpires, MintOwnKey, RevokeOwnKey
  <1>3. CASE Operators
    BY <1>1, <1>3 DEF Operators, Starting, OperatorFoundsOrg, OperatorDisablesOrg, OperatorRevokes,
       OperatorUpdates, OperatorMints, AdminUpdates, AdminMints, Seed
  <1>4. QED
    BY <1>2, <1>3 DEF Next, vars

LEMMA UsedUpOthers ==
  ASSUME IInv, NEW o \in Metered, UsedUp(o), [Next]_vars, \A c \in Clients : ~Gate(c)
  PROVE  UsedUp(o)' \/ booked'[o] = 0
  <1>0. /\ QuotaType /\ o \in Orgs /\ (\A d \in Clients : Held(d)) /\ NoOrg \notin Orgs
        /\ booked[o] >= Limit /\ cache[o] \in {NoCount, Limit} /\ \A d \in Clients : Out(o, d)
    BY TypeParts, AccessAssumption, DirectoryAssumption DEF IInv, UsedUp, Out
  <1>1. ASSUME NEW c \in Clients PROVE Out(o, c)'
    <2>1. Settled(c)
      BY OthersMove DEF Waiting
    <2>2. CASE pc'[c] = pc[c] /\ held'[c] = held[c] /\ who'[c] = who[c] /\ read'[c] = read[c]
      <3>1. pc[c] \in {"admitted", "probed"} => OrgOf(c)' = OrgOf(c)
        BY <1>0, <2>2, TablesGrow DEF Held, Holding, Gated, OrgOf
      <3>2. QED
        BY <1>0, <2>2, <3>1 DEF Out, Held, Holding, Gated
    <2>3. CASE pc'[c] = "idle" \/ Fresh(c)
      BY <2>3 DEF Out, Fresh
    <2>4. QED
      BY <2>1, <2>2, <2>3 DEF Settled
  <1>2. \/ booked' = booked /\ cache'[o] \in {NoCount, Limit}
        \/ booked'[o] = 0
    BY <1>0, QuotaSteps DEF quota, CountExpires, NewMonth, Restart, QuotaType
  <1>3. QED
    BY <1>0, <1>1, <1>2 DEF UsedUp, Out

\* Once a month's quota is used up and no probe under way has read an older count, not
\* one call more is booked before the month is over, for any quota and any number of calls
\* at a time.
THEOREM UsedUpIsFinal == Spec => UsedUpStaysOut
  <1>1. IInv /\ [Next]_vars => [\A o \in Metered : UsedUp(o) => UsedUp(o)' \/ booked'[o] = 0]_vars
    <2>1. ASSUME IInv, [Next]_vars, NEW o \in Metered, UsedUp(o) PROVE UsedUp(o)' \/ booked'[o] = 0
      <3>1. ASSUME NEW c \in Clients, Gate(c) PROVE UsedUp(o)'
        BY <2>1, <3>1, UsedUpGate
      <3>2. QED
        BY <2>1, <3>1, UsedUpOthers
    <2>2. QED
      BY <2>1
  <1>2. QED
    BY <1>1, Inductive, PTL DEF Spec, UsedUpStaysOut

-----------------------------------------------------------------------------
(* How far concurrent probes can overrun the quota.  What a request can    *)
(* still make of it is its weight: one call when it is admitted, and all   *)
(* that is missing in the count it read when its probe is under way, since *)
(* it will put that count back.  The cached count has room of its own.     *)

Waits(c, o) == pc[c] \in {"probe", "probed"} /\ OrgOf(c) = o

Missing(count) == IF count < Limit THEN Limit - count ELSE 0

Weight(o, c) ==
  IF pc[c] = "admitted" /\ OrgOf(c) = o THEN 1
  ELSE IF Waits(c, o) THEN Missing(IF pc[c] = "probe" THEN booked[o] ELSE read[c])
  ELSE 0

Weights(o) == [c \in Clients |-> Weight(o, c)]

Room(o) == IF cache[o] \in 0..(Limit - 1) THEN Limit - 1 - cache[o] ELSE 0

\* A count is in the cache only after a probe has ended, so one request is not probing.
OneIsDone(o) == cache[o] \in 0..(Limit - 1) => \E c \in Clients : ~Waits(c, o)

WithinWeights(o) ==
  /\ booked[o] + Room(o) + Sum(Weights(o), Clients) <= Limit * Cardinality(Clients)
  /\ OneIsDone(o)

QuotaIInv == \A o \in Metered : WithinWeights(o)

Weighed(o) ==
  /\ IsFiniteSet(Clients)
  /\ booked[o] \in Nat /\ Room(o) \in 0..(Limit - 1)
  /\ \A c \in Clients : Weight(o, c) \in 0..Limit /\ (~Waits(c, o) => Weight(o, c) \in 0..1)

AllWeighed == \A o \in Metered : Weighed(o)

LEMMA WeightType == IInv => AllWeighed
  <1> SUFFICES ASSUME IInv, NEW o \in Metered PROVE Weighed(o)
    BY DEF AllWeighed
  <1>1. booked[o] \in Nat /\ Limit \in Nat \ {0} /\ read \in [Clients -> Nat] /\ IsFiniteSet(Clients)
    BY AccessAssumption DEF IInv, TypeOK
  <1>2. ASSUME NEW c \in Clients
        PROVE  Weight(o, c) \in 0..Limit /\ (~Waits(c, o) => Weight(o, c) \in 0..1)
    <2>1. read[c] \in Nat
      BY <1>1
    <2>2. QED
      BY <1>1, <2>1 DEF Weight, Missing
  <1>3. Room(o) \in 0..(Limit - 1)
    BY <1>1 DEF Room
  <1>4. QED
    BY <1>1, <1>2, <1>3 DEF Weighed

\* One request's weight pays for what is booked, the rest do not grow.
LEMMA WeightsPay ==
  ASSUME IInv, IInv', NEW o \in Metered, WithinWeights(o), OneIsDone(o)', NEW c \in Clients,
         \A d \in Clients \ {c} : Weight(o, d)' <= Weight(o, d),
         booked'[o] + Room(o)' + Weight(o, c)' <= booked[o] + Room(o) + Weight(o, c)
  PROVE  WithinWeights(o)'
  <1> DEFINE f == Weights(o)
             g == Weights(o)'
             a == booked[o] + Room(o)
             b == booked'[o] + Room(o)'
  <1>a. AllWeighed /\ AllWeighed'
    BY WeightType, PTL
  <1>0. /\ booked[o] \in Nat /\ Room(o) \in 0..(Limit - 1)
        /\ booked'[o] \in Nat /\ Room(o)' \in 0..(Limit - 1)
        /\ \A d \in Clients : f[d] = Weight(o, d) /\ f[d] \in 0..Limit
        /\ \A d \in Clients : g[d] = Weight(o, d)' /\ g[d] \in 0..Limit
    <2>1. Weighed(o) /\ Weighed(o)'
      BY <1>a DEF AllWeighed
    <2>2. \A d \in Clients : f[d] = Weight(o, d) /\ g[d] = Weight(o, d)'
      BY DEF Weights
    <2> HIDE DEF f, g
    <2>3. QED
      BY <2>1, <2>2 DEF Weighed
  <1>1. /\ Counts(f, Clients) /\ Sum(f, Clients) \in Nat
        /\ booked[o] \in Nat /\ Room(o) \in 0..(Limit - 1)
        /\ \A d \in Clients : f[d] = Weight(o, d)
    BY <1>0, AccessAssumption, SumType DEF Counts
  <1>2. /\ Counts(g, Clients) /\ Sum(g, Clients) \in Nat
        /\ booked'[o] \in Nat /\ Room(o)' \in 0..(Limit - 1)
        /\ \A d \in Clients : g[d] = Weight(o, d)'
    BY <1>0, AccessAssumption, SumType DEF Counts
  <1>3. a \in Int /\ b \in Int
    BY <1>1, <1>2, AccessAssumption
  <1>4. b + g[c] <= a + f[c] /\ \A d \in Clients \ {c} : g[d] <= f[d]
    BY <1>1, <1>2
  <1>5. b + Sum(g, Clients) <= a + Sum(f, Clients)
    <2> HIDE DEF a, b, f, g
    <2>1. QED
      BY <1>1, <1>2, <1>3, <1>4, SumTrades
  <1>6. a + Sum(f, Clients) <= Limit * Cardinality(Clients)
    BY DEF WithinWeights
  <1>7. Limit * Cardinality(Clients) \in Int
    <2>1. Cardinality(Clients) \in Nat
      BY AccessAssumption, FS_CardinalityType
    <2>2. QED
      BY <2>1, AccessAssumption
  <1>8. b + Sum(g, Clients) <= Limit * Cardinality(Clients)
    <2> DEFINE m == Limit * Cardinality(Clients)
    <2> HIDE DEF a, b, f, g, m
    <2>1. m \in Int /\ a + Sum(f, Clients) <= m
      BY <1>6, <1>7 DEF m
    <2>2. b + Sum(g, Clients) <= m
      BY <1>1, <1>2, <1>3, <1>5, <2>1
    <2>3. QED
      BY <2>2 DEF m
  <1>9. QED
    BY <1>8 DEF WithinWeights

\* Nothing grows.
LEMMA WeightsKeep ==
  ASSUME IInv, IInv', NEW o \in Metered, WithinWeights(o), OneIsDone(o)',
         \A d \in Clients : Weight(o, d)' <= Weight(o, d),
         booked'[o] + Room(o)' <= booked[o] + Room(o)
  PROVE  WithinWeights(o)'
  <1> DEFINE f == Weights(o)
             g == Weights(o)'
             a == booked[o] + Room(o)
             b == booked'[o] + Room(o)'
  <1>a. AllWeighed /\ AllWeighed'
    BY WeightType, PTL
  <1>0. /\ booked[o] \in Nat /\ Room(o) \in 0..(Limit - 1)
        /\ booked'[o] \in Nat /\ Room(o)' \in 0..(Limit - 1)
        /\ \A d \in Clients : f[d] = Weight(o, d) /\ f[d] \in 0..Limit
        /\ \A d \in Clients : g[d] = Weight(o, d)' /\ g[d] \in 0..Limit
    <2>1. Weighed(o) /\ Weighed(o)'
      BY <1>a DEF AllWeighed
    <2>2. \A d \in Clients : f[d] = Weight(o, d) /\ g[d] = Weight(o, d)'
      BY DEF Weights
    <2> HIDE DEF f, g
    <2>3. QED
      BY <2>1, <2>2 DEF Weighed
  <1>1. /\ Counts(f, Clients) /\ Sum(f, Clients) \in Nat /\ a \in Int
        /\ \A d \in Clients : f[d] = Weight(o, d)
    BY <1>0, AccessAssumption, SumType DEF Counts
  <1>2. /\ Counts(g, Clients) /\ Sum(g, Clients) \in Nat /\ b \in Int
        /\ \A d \in Clients : g[d] = Weight(o, d)'
    BY <1>0, AccessAssumption, SumType DEF Counts
  <1>3. \A d \in Clients : g[d] \in Nat /\ g[d] <= f[d]
    BY <1>1, <1>2 DEF Counts
  <1>4. Sum(g, Clients) <= Sum(f, Clients)
    <2> HIDE DEF f, g
    <2>1. QED
      BY <1>1, <1>3, SumGrows
  <1>5. a + Sum(f, Clients) <= Limit * Cardinality(Clients)
    BY DEF WithinWeights
  <1>6. Limit * Cardinality(Clients) \in Int
    <2>1. Cardinality(Clients) \in Nat
      BY AccessAssumption, FS_CardinalityType
    <2>2. QED
      BY <2>1, AccessAssumption
  <1>7. b + Sum(g, Clients) <= Limit * Cardinality(Clients)
    <2> DEFINE m == Limit * Cardinality(Clients)
    <2>1. b <= a
      OBVIOUS
    <2> HIDE DEF a, b, f, g, m
    <2>2. m \in Int /\ a + Sum(f, Clients) <= m
      BY <1>5, <1>6 DEF m
    <2>3. b + Sum(g, Clients) <= m
      BY <1>1, <1>2, <1>4, <2>1, <2>2
    <2>4. QED
      BY <2>3 DEF m
  <1>8. QED
    BY <1>7 DEF WithinWeights

\* A step of one request at the gate changes nothing of the others, and the keys stay.
LEMMA GateLeavesOthers ==
  ASSUME IInv, NEW c \in Clients, Gate(c)
  PROVE  /\ UNCHANGED key
         /\ \A d \in Clients \ {c} : pc'[d] = pc[d] /\ held'[d] = held[d] /\ read'[d] = read[d]
  BY TypeParts
     DEF IInv, Gate, Call, Lookup, CountFromCache, Probe, Charge, Book, LeaveUnbooked, GateFails,
         Begin, Goto, End, RequestType, tables, directory

LEMMA OneStaysDone ==
  ASSUME IInv, NEW o \in Metered, NEW c \in Clients, OneIsDone(o),
         \A d \in Clients \ {c} : Waits(d, o)' = Waits(d, o),
         \/ ~Waits(c, o)'
         \/ cache'[o] = cache[o] /\ Waits(c, o)
         \/ cache'[o] \in {NoCount, Limit}
  PROVE  OneIsDone(o)'
  <1>1. SUFFICES ASSUME cache'[o] \in 0..(Limit - 1) PROVE \E d \in Clients : ~Waits(d, o)'
    BY DEF OneIsDone
  <1>2. cache'[o] \notin {NoCount, Limit}
    BY <1>1, AccessAssumption
  <1>3. CASE ~Waits(c, o)'
    BY <1>3
  <1>4. CASE cache'[o] = cache[o] /\ Waits(c, o)
    <2>1. PICK d \in Clients : ~Waits(d, o)
      BY <1>1, <1>4 DEF OneIsDone
    <2>2. d \in Clients \ {c}
      BY <1>4, <2>1
    <2>3. QED
      BY <2>1, <2>2
  <1>5. QED
    BY <1>2, <1>3, <1>4

\* A probe is begun when nothing is in the cache: even if it puts back all that is
\* missing, and so does every other request, the bound holds.
LEMMA ProbeBegins ==
  ASSUME IInv, IInv', NEW o \in Metered, WithinWeights(o), OneIsDone(o)', NEW c \in Clients,
         \A d \in Clients \ {c} : Weight(o, d)' <= Weight(o, d),
         booked'[o] = booked[o], Room(o)' = 0, Weight(o, c)' = Missing(booked[o])
  PROVE  WithinWeights(o)'
  <1>1. CASE booked[o] < Limit
    <2> DEFINE g == Weights(o)'
               n == Cardinality(Clients)
    <2>1. AllWeighed'
      BY WeightType, PTL
    <2>2. \A d \in Clients : g[d] = Weight(o, d)'
      BY DEF Weights
    <2>3. \A d \in Clients : g[d] \in 0..Limit
      <3>1. Weighed(o)'
        BY <2>1 DEF AllWeighed
      <3> HIDE DEF g
      <3>2. QED
        BY <2>2, <3>1 DEF Weighed
    <2>4. Counts(g, Clients) /\ Limit \in Nat /\ booked[o] \in Nat
      BY <2>3, AccessAssumption DEF Counts, IInv, TypeOK
    <2>5. g[c] = Limit - booked[o]
      BY <1>1, <2>2 DEF Missing
    <2> HIDE DEF g
    <2>6. /\ Limit * n = Limit * (n - 1) + Limit
          /\ Sum(g, Clients) <= Limit * (n - 1) + g[c]
      BY <2>3, <2>4, SumBesides
    <2>7. Limit * (n - 1) \in Int /\ Sum(g, Clients) \in Nat
      <3>1. n \in Nat
        BY AccessAssumption, FS_CardinalityType
      <3>2. QED
        BY <2>4, <3>1, SumType
    <2>8. booked[o] + Sum(g, Clients) <= Limit * n
      <3> DEFINE rest == Limit * (n - 1)
      <3>1. rest \in Int
        BY <2>7
      <3> HIDE DEF rest, n
      <3>2. Limit * n = rest + Limit /\ Sum(g, Clients) <= rest + g[c]
        BY <2>6 DEF rest
      <3>3. QED
        BY <2>4, <2>5, <2>7, <3>1, <3>2
    <2>9. booked'[o] + Room(o)' + Sum(g, Clients) = booked[o] + Sum(g, Clients)
      BY <2>4, <2>7
    <2>10. QED
      BY <2>8, <2>9 DEF WithinWeights, g
  <1>2. CASE ~(booked[o] < Limit)
    <2>1. Weighed(o)
      BY WeightType DEF AllWeighed
    <2>2. Weight(o, c)' = 0 /\ Weight(o, c) \in 0..Limit /\ Room(o) \in 0..(Limit - 1)
          /\ booked[o] \in Nat
      BY <1>2, <2>1 DEF Missing, Weighed
    <2>3. booked'[o] + Room(o)' + Weight(o, c)' <= booked[o] + Room(o) + Weight(o, c)
      BY <2>2, AccessAssumption
    <2>4. QED
      BY <2>3, WeightsPay
  <1>3. QED
    BY <1>1, <1>2

LEMMA QuotaGate ==
  ASSUME IInv, IInv', NEW o \in Metered, WithinWeights(o), NEW c \in Clients, Gate(c)
  PROVE  WithinWeights(o)'
  <1>0. /\ RequestType /\ QuotaType /\ Held(c) /\ o \in Orgs /\ Limit \in Nat \ {0}
        /\ booked[o] \in Nat /\ read[c] \in Nat /\ Room(o) \in 0..(Limit - 1)
        /\ Weight(o, c) \in 0..Limit /\ NoCount \notin Nat /\ OneIsDone(o)
        /\ cache[o] \in 0..Limit \cup {NoCount}
    <2>1. Weighed(o)
      BY WeightType DEF AllWeighed
    <2>2. QED
      BY <2>1, TypeParts, AccessAssumption
         DEF IInv, Weighed, RequestType, QuotaType, WithinWeights
  <1>1. /\ UNCHANGED key
        /\ \A d \in Clients \ {c} : pc'[d] = pc[d] /\ held'[d] = held[d] /\ read'[d] = read[d]
    BY GateLeavesOthers
  <1>2. \A d \in Clients \ {c} : Waits(d, o)' = Waits(d, o)
    BY <1>1 DEF Waits, OrgOf
  <1>3. ASSUME booked'[o] = booked[o] \/ booked'[o] = booked[o] + 1
        PROVE  \A d \in Clients \ {c} : Weight(o, d)' <= Weight(o, d)
    <2> SUFFICES ASSUME NEW d \in Clients \ {c} PROVE Weight(o, d)' <= Weight(o, d)
      OBVIOUS
    <2>1. /\ pc'[d] = pc[d] /\ OrgOf(d)' = OrgOf(d) /\ read'[d] = read[d]
          /\ read[d] \in Nat /\ Waits(d, o)' = Waits(d, o)
      BY <1>0, <1>1, <1>2 DEF OrgOf, RequestType
    <2>2. QED
      BY <1>0, <1>3, <2>1 DEF Weight, Missing
  <1>4. ASSUME booked'[o] = booked[o], cache'[o] = cache[o],
               pc'[c] \notin {"probe", "probed", "admitted"} \/ OrgOf(c)' # o
        PROVE  WithinWeights(o)'
    <2>1. ~Waits(c, o)' /\ Weight(o, c)' = 0 /\ Room(o)' = Room(o)
      BY <1>4 DEF Waits, Weight, Room
    <2>2. OneIsDone(o)'
      BY <1>0, <1>2, <2>1, OneStaysDone
    <2>3. booked'[o] + Room(o)' + Weight(o, c)' <= booked[o] + Room(o) + Weight(o, c)
      BY <1>0, <1>4, <2>1
    <2>4. QED
      BY <1>3, <1>4, <2>2, <2>3, WeightsPay
  <1>5. ASSUME End(c) PROVE pc'[c] = "idle"
    BY <1>0, <1>5, EndTyped
  <1>6. ASSUME NEW label \in Labels, Goto(c, label) PROVE pc'[c] = label /\ OrgOf(c)' = OrgOf(c)
    BY <1>0, <1>1, <1>6 DEF Goto, RequestType, OrgOf
  <1>7. ASSUME NEW k \in Keys, Call(c, k) PROVE WithinWeights(o)'
    <2>1. pc'[c] = "lookup" /\ UNCHANGED quota
      BY <1>0, <1>7 DEF Call, Begin, RequestType
    <2>2. QED
      BY <1>4, <2>1 DEF quota
  <1>8. CASE Lookup(c) \/ LeaveUnbooked(c) \/ GateFails(c)
    <2>1. UNCHANGED quota /\ pc'[c] \in {"quota", "idle"}
      BY <1>5, <1>6, <1>8 DEF Lookup, LeaveUnbooked, GateFails, Labels
    <2>2. QED
      BY <1>4, <2>1 DEF quota
  <1>9. CASE CountFromCache(c)
    <2>1. CASE OrgOf(c) # o
      <3>1. booked'[o] = booked[o] /\ cache'[o] = cache[o]
        BY <1>0, <1>9, <2>1 DEF CountFromCache, QuotaType
      <3>2. pc'[c] = "idle" \/ OrgOf(c)' # o
        BY <1>5, <1>6, <1>9, <2>1 DEF CountFromCache, Labels
      <3>3. QED
        BY <1>4, <3>1, <3>2
    <2>2. CASE OrgOf(c) = o /\ cache[o] \in {NoCount, Limit}
      <3>1. pc'[c] = "probe" /\ OrgOf(c)' = o /\ booked' = booked /\ cache' = cache
        BY <1>6, <1>9, <2>2 DEF CountFromCache, Labels
      <3>2. Room(o)' = 0 /\ Weight(o, c)' = Missing(booked[o])
        BY <1>0, <2>2, <3>1 DEF Room, Weight, Waits, Missing
      <3>3. OneIsDone(o)'
        BY <1>0, <1>2, <2>2, <3>1, OneStaysDone
      <3>4. QED
        BY <1>3, <3>1, <3>2, <3>3, ProbeBegins
    <2>3. CASE OrgOf(c) = o /\ cache[o] \notin {NoCount, Limit}
      <3>1. cache[o] \in 0..(Limit - 1)
        BY <1>0, <2>3
      <3>2. booked' = booked /\ cache'[o] = cache[o] + 1
        BY <1>0, <1>9, <2>3 DEF CountFromCache, QuotaType
      <3>3. IF cache[o] + 1 < Limit THEN pc'[c] = "admitted" /\ OrgOf(c)' = o ELSE pc'[c] = "idle"
        BY <1>5, <1>6, <1>9, <2>3 DEF CountFromCache, Labels
      <3>4. ~Waits(c, o)'
        BY <3>3 DEF Waits
      <3>5. OneIsDone(o)'
        BY <1>0, <1>2, <3>4, OneStaysDone
      <3>6. Weight(o, c) = 0
        BY <1>9 DEF CountFromCache, Weight, Waits
      <3>7. booked'[o] + Room(o)' + Weight(o, c)' <= booked[o] + Room(o) + Weight(o, c)
        <4>1. CASE cache[o] + 1 < Limit
          <5>1. Weight(o, c)' = 1
            BY <3>3, <4>1 DEF Weight
          <5>2. Room(o)' = Room(o) - 1
            BY <1>0, <3>1, <3>2, <4>1 DEF Room
          <5>3. QED
            BY <1>0, <3>2, <3>6, <5>1, <5>2
        <4>2. CASE ~(cache[o] + 1 < Limit)
          <5>1. Weight(o, c)' = 0
            BY <3>3, <4>2 DEF Weight, Waits
          <5>2. Room(o)' = 0
            BY <1>0, <3>1, <3>2, <4>2 DEF Room
          <5>3. QED
            BY <1>0, <3>2, <3>6, <5>1, <5>2
        <4>3. QED
          BY <4>1, <4>2
      <3>8. QED
        BY <1>3, <3>2, <3>5, <3>7, WeightsPay
    <2>4. QED
      BY <2>1, <2>2, <2>3
  <1>10. CASE Probe(c)
    <2>1. /\ pc'[c] = "probed" /\ OrgOf(c)' = OrgOf(c) /\ UNCHANGED quota /\ pc[c] = "probe"
          /\ read'[c] = booked[OrgOf(c)]
      BY <1>0, <1>6, <1>10 DEF Probe, Labels, RequestType
    <2>2. CASE OrgOf(c) # o
      BY <1>4, <2>1, <2>2 DEF quota
    <2>3. CASE OrgOf(c) = o
      <3>1. Weight(o, c)' = Weight(o, c) /\ Room(o)' = Room(o)
        BY <2>1, <2>3 DEF Weight, Waits, Room, quota
      <3>2. OneIsDone(o)'
        BY <1>0, <1>2, <2>1, <2>3, OneStaysDone DEF Waits, quota
      <3>3. booked'[o] + Room(o)' + Weight(o, c)' <= booked[o] + Room(o) + Weight(o, c)
        BY <1>0, <2>1, <3>1 DEF quota
      <3>4. QED
        BY <1>3, <2>1, <3>2, <3>3, WeightsPay DEF quota
    <2>4. QED
      BY <2>2, <2>3
  <1>11. CASE Charge(c)
    <2>1. pc[c] = "probed" /\ booked' = booked /\ OrgOf(c) \in Orgs
      BY <1>0, <1>11 DEF Charge, Held, Holding, Gated
    <2>2. IF read[c] < Limit THEN pc'[c] = "admitted" /\ OrgOf(c)' = OrgOf(c) ELSE pc'[c] = "idle"
      BY <1>5, <1>6, <1>11 DEF Charge, Labels
    <2>3. CASE OrgOf(c) # o
      <3>1. cache'[o] = cache[o]
        BY <1>0, <1>11, <2>3 DEF Charge, QuotaType
      <3>2. QED
        BY <1>4, <2>1, <2>2, <2>3, <3>1
    <2>4. CASE OrgOf(c) = o
      <3>1. cache'[o] = IF read[c] < Limit THEN read[c] ELSE Limit
        BY <1>0, <1>11, <2>4 DEF Charge, QuotaType
      <3>2. ~Waits(c, o)'
        BY <2>2 DEF Waits
      <3>3. OneIsDone(o)'
        BY <1>0, <1>2, <3>2, OneStaysDone
      <3>4. booked'[o] + Room(o)' + Weight(o, c)' <= booked[o] + Room(o) + Weight(o, c)
        <4>1. CASE read[c] < Limit
          <5>1. Weight(o, c)' = 1 /\ Weight(o, c) = Limit - read[c]
            BY <2>1, <2>2, <2>4, <4>1 DEF Weight, Waits, Missing
          <5>2. Room(o)' = Limit - 1 - read[c]
            BY <1>0, <3>1, <4>1 DEF Room
          <5>3. QED
            BY <1>0, <2>1, <5>1, <5>2
        <4>2. CASE ~(read[c] < Limit)
          <5>1. Weight(o, c)' = 0 /\ Room(o)' = 0
            BY <1>0, <2>2, <3>1, <4>2 DEF Weight, Waits, Room
          <5>2. QED
            BY <1>0, <2>1, <5>1
        <4>3. QED
          BY <4>1, <4>2
      <3>5. QED
        BY <1>3, <2>1, <3>3, <3>4, WeightsPay
    <2>5. QED
      BY <2>3, <2>4
  <1>12. CASE Book(c)
    <2>1. pc[c] = "admitted" /\ pc'[c] = "idle" /\ cache' = cache
      BY <1>5, <1>12 DEF Book
    <2>2. CASE OrgOf(c) # o
      <3>1. booked'[o] = booked[o]
        BY <1>0, <1>12, <2>2 DEF Book, QuotaType
      <3>2. QED
        BY <1>4, <2>1, <3>1
    <2>3. CASE OrgOf(c) = o
      <3>1. booked'[o] = booked[o] + 1
        BY <1>0, <1>12, <2>3 DEF Book, QuotaType
      <3>2. Weight(o, c)' = 0 /\ Weight(o, c) = 1 /\ Room(o)' = Room(o) /\ ~Waits(c, o)'
        BY <2>1, <2>3 DEF Weight, Waits, Room
      <3>3. OneIsDone(o)'
        BY <1>0, <1>2, <3>2, OneStaysDone
      <3>4. booked'[o] + Room(o)' + Weight(o, c)' <= booked[o] + Room(o) + Weight(o, c)
        BY <1>0, <3>1, <3>2
      <3>5. QED
        BY <1>3, <3>1, <3>3, <3>4, WeightsPay
    <2>4. QED
      BY <2>2, <2>3
  <1>13. QED
    BY <1>7, <1>8, <1>9, <1>10, <1>11, <1>12 DEF Gate

\* Everybody else adds no weight, but a new month makes that of a begun probe whole.
LEMMA QuotaOthers ==
  ASSUME IInv, IInv', NEW o \in Metered, WithinWeights(o), [Next]_vars, \A c \in Clients : ~Gate(c)
  PROVE  WithinWeights(o)'
  <1>0. /\ RequestType /\ QuotaType /\ o \in Orgs /\ Limit \in Nat \ {0}
        /\ booked[o] \in Nat /\ Room(o) \in 0..(Limit - 1) /\ NoCount \notin Nat
        /\ \A c \in Clients : Held(c) /\ Weight(o, c) \in 0..Limit
        /\ OneIsDone(o)
    <2>1. Weighed(o)
      BY WeightType DEF AllWeighed
    <2>2. QED
      BY <2>1, TypeParts, AccessAssumption DEF IInv, Weighed, QuotaType, WithinWeights
  <1>1. ASSUME NEW c \in Clients
        PROVE  \/ pc'[c] \notin {"probe", "probed", "admitted"}
               \/ pc'[c] = pc[c] /\ read'[c] = read[c] /\ OrgOf(c)' = OrgOf(c)
    <2>1. Settled(c)
      BY OthersMove DEF Waiting
    <2>2. CASE pc'[c] = pc[c] /\ held'[c] = held[c] /\ who'[c] = who[c] /\ read'[c] = read[c]
      <3>1. pc[c] \in {"probe", "probed", "admitted"} => OrgOf(c)' = OrgOf(c)
        <4>1. Held(c) /\ NoOrg \notin Orgs
          BY <1>0, DirectoryAssumption
        <4>2. QED
          BY <2>2, <4>1, TablesGrow DEF Held, Holding, Gated, OrgOf
      <3>2. QED
        BY <2>2, <3>1
    <2>3. CASE pc'[c] = "idle" \/ Fresh(c)
      BY <2>3 DEF Fresh
    <2>4. QED
      BY <2>1, <2>2, <2>3 DEF Settled
  <1>2. \A c \in Clients : Waits(c, o)' => Waits(c, o)
    BY <1>1 DEF Waits
  <1>3. OneIsDone(o)'
    <2>1. cache'[o] = cache[o] \/ cache'[o] = NoCount
      BY <1>0, QuotaSteps DEF quota, CountExpires, NewMonth, Restart, QuotaType
    <2>2. QED
      BY <1>0, <1>2, <2>1 DEF OneIsDone
  <1>4. ASSUME booked'[o] = booked[o], cache'[o] = cache[o] \/ cache'[o] = NoCount
        PROVE  WithinWeights(o)'
    <2>1. Room(o)' <= Room(o) /\ Room(o)' \in Nat
      <3>1. CASE cache'[o] = cache[o]
        BY <1>0, <3>1 DEF Room
      <3>2. CASE cache'[o] = NoCount
        BY <1>0, <3>2 DEF Room
      <3>3. QED
        BY <1>4, <3>1, <3>2
    <2>2. ASSUME NEW c \in Clients PROVE Weight(o, c)' <= Weight(o, c)
      <3>1. read[c] \in Nat
        BY <1>0 DEF RequestType
      <3>2. CASE pc'[c] \notin {"probe", "probed", "admitted"}
        BY <1>0, <3>2 DEF Weight, Waits
      <3>3. CASE pc'[c] = pc[c] /\ read'[c] = read[c] /\ OrgOf(c)' = OrgOf(c)
        BY <1>0, <1>4, <3>1, <3>3 DEF Weight, Waits, Missing
      <3>4. QED
        BY <1>1, <3>2, <3>3
    <2>3. booked'[o] + Room(o)' <= booked[o] + Room(o)
      BY <1>0, <1>4, <2>1
    <2>4. QED
      BY <1>3, <2>2, <2>3, WeightsKeep
  <1>5. CASE NewMonth
    <2> DEFINE g == Weights(o)'
               n == Cardinality(Clients)
    <2>1. booked'[o] = 0 /\ cache' = cache
      BY <1>0, <1>5 DEF NewMonth
    <2>2. \A c \in Clients : g[c] = Weight(o, c)'
      BY DEF Weights
    <2>3. \A c \in Clients : g[c] \in 0..Limit /\ (~Waits(c, o)' => g[c] <= 1)
      <3>1. AllWeighed'
        BY WeightType, PTL
      <3>2. Weighed(o)'
        BY <3>1 DEF AllWeighed
      <3> HIDE DEF g
      <3>3. \A c \in Clients : Weight(o, c)' \in 0..Limit /\ (~Waits(c, o)' => Weight(o, c)' \in 0..1)
        BY <3>2 DEF Weighed
      <3>4. QED
        BY <2>2, <3>3
    <2> HIDE DEF g
    <2>4. Counts(g, Clients)
      BY <1>0, <2>3, AccessAssumption DEF Counts
    <2>5. n \in Nat /\ Limit * n \in Int /\ Sum(g, Clients) \in Nat
      <3>1. n \in Nat
        BY AccessAssumption, FS_CardinalityType
      <3>2. QED
        BY <1>0, <2>4, <3>1, SumType
    <2>6. Room(o)' + Sum(g, Clients) <= Limit * n
      <3>1. CASE cache[o] \in 0..(Limit - 1)
        <4>1. PICK c \in Clients : ~Waits(c, o)
          BY <1>0, <3>1 DEF OneIsDone
        <4>2. g[c] <= 1 /\ g[c] \in Nat
          BY <1>0, <1>2, <2>3, <4>1
        <4>3. /\ Limit * n = Limit * (n - 1) + Limit
              /\ Sum(g, Clients) <= Limit * (n - 1) + g[c]
          BY <1>0, <2>3, <2>4, SumBesides
        <4>4. Room(o)' = Limit - 1 - cache[o]
          BY <2>1, <3>1 DEF Room
        <4>5. Limit * (n - 1) \in Int
          BY <1>0, <2>5
        <4>6. QED
          <5> DEFINE rest == Limit * (n - 1)
          <5>1. rest \in Int
            BY <4>5
          <5> HIDE DEF rest, n
          <5>2. Limit * n = rest + Limit /\ Sum(g, Clients) <= rest + g[c]
            BY <4>3 DEF rest
          <5>3. QED
            BY <1>0, <2>5, <3>1, <4>2, <4>4, <5>1, <5>2
      <3>2. CASE cache[o] \notin 0..(Limit - 1)
        <4>1. Room(o)' = 0
          BY <2>1, <3>2 DEF Room
        <4>2. Sum(g, Clients) <= Limit * n
          BY <1>0, <2>3, <2>4, SumIsBounded
        <4>3. QED
          BY <2>5, <4>1, <4>2
      <3>3. QED
        BY <3>1, <3>2
    <2>7. booked'[o] + Room(o)' + Sum(g, Clients) = Room(o)' + Sum(g, Clients)
      <3>1. Room(o)' \in Int
        BY <1>0, <2>1 DEF Room
      <3>2. QED
        BY <2>1, <2>5, <3>1
    <2>8. QED
      BY <1>3, <2>6, <2>7 DEF WithinWeights, g
  <1>6. CASE (\E p \in Orgs : CountExpires(p)) \/ Restart \/ UNCHANGED quota
    <2>1. booked'[o] = booked[o] /\ (cache'[o] = cache[o] \/ cache'[o] = NoCount)
      BY <1>0, <1>6 DEF quota, CountExpires, Restart, QuotaType
    <2>2. QED
      BY <1>4, <2>1
  <1>7. QED
    BY <1>5, <1>6, QuotaSteps

\* At most Limit calls for each request that can be under way are booked in a month, for
\* any quota and any number of requests, however probes, bookings, restarts and the end of
\* the month interleave.
THEOREM QuotaHolds == Spec => []QuotaOverrunIsBounded
  <1>1. Init => QuotaIInv
    <2> SUFFICES ASSUME Init, NEW o \in Metered PROVE WithinWeights(o)
      BY DEF QuotaIInv
    <2> DEFINE f == Weights(o)
               n == Cardinality(Clients)
    <2>1. \A c \in Clients : f[c] = 0
      BY DEF Init, Weights, Weight, Waits
    <2> HIDE DEF f
    <2>2. Counts(f, Clients)
      BY <2>1, AccessAssumption DEF Counts
    <2>3. booked[o] = 0 /\ Room(o) = 0 /\ OneIsDone(o)
      BY AccessAssumption DEF Init, Room, OneIsDone
    <2>4. Sum(f, Clients) \in Nat /\ Sum(f, Clients) <= 0 * n
      BY <2>1, <2>2, SumType, SumIsBounded
    <2>5. n \in Nat /\ Limit * n \in Nat
      <3>1. n \in Nat
        BY AccessAssumption, FS_CardinalityType
      <3>2. QED
        BY <3>1, AccessAssumption
    <2>6. booked[o] + Room(o) + Sum(f, Clients) <= Limit * n
      BY <2>3, <2>4, <2>5
    <2>7. QED
      BY <2>3, <2>6 DEF WithinWeights, f
  <1>2. IInv /\ IInv' /\ QuotaIInv /\ [Next]_vars => QuotaIInv'
    <2> SUFFICES ASSUME IInv, IInv', QuotaIInv, [Next]_vars, NEW o \in Metered
                 PROVE  WithinWeights(o)'
      BY DEF QuotaIInv
    <2>1. WithinWeights(o)
      BY DEF QuotaIInv
    <2>2. ASSUME NEW c \in Clients, Gate(c) PROVE WithinWeights(o)'
      BY <2>1, <2>2, QuotaGate
    <2>3. QED
      BY <2>1, <2>2, QuotaOthers
  <1>3. IInv /\ QuotaIInv => QuotaOverrunIsBounded
    <2> SUFFICES ASSUME IInv, QuotaIInv, NEW o \in Metered
                 PROVE  booked[o] <= Limit * Cardinality(Clients)
      BY DEF QuotaOverrunIsBounded
    <2> DEFINE f == Weights(o)
               m == Limit * Cardinality(Clients)
    <2>1. booked[o] + Room(o) + Sum(f, Clients) <= m
      BY DEF QuotaIInv, WithinWeights
    <2>2. Weighed(o)
      BY WeightType DEF AllWeighed
    <2>3. Counts(f, Clients)
      BY <2>2 DEF Weighed, Weights, Counts
    <2> HIDE DEF f
    <2>4. Sum(f, Clients) \in Nat /\ Room(o) \in Nat /\ booked[o] \in Nat
      BY <2>2, <2>3, SumType DEF Weighed
    <2>5. m \in Int
      <3>1. Cardinality(Clients) \in Nat
        BY AccessAssumption, FS_CardinalityType
      <3>2. QED
        BY <3>1, AccessAssumption
    <2> HIDE DEF m
    <2>6. booked[o] <= m
      BY <2>1, <2>4, <2>5
    <2>7. QED
      BY <2>6 DEF m
  <1>4. QED
    BY <1>1, <1>2, <1>3, Inductive, PTL DEF Spec
=============================================================================
