----------------------------- MODULE AccessGate -----------------------------
(***************************************************************************)
(* Who may call the seller server.  The API-key gate in front of the paid  *)
(* endpoints looks a key up, then charges the call to the monthly quota of *)
(* its org through a cache in memory; sign-up, log-in and the key pages of *)
(* users, operators and admin keys change the tables meanwhile.  Handlers  *)
(* run concurrently and are interleaved at their awaits.                   *)
(***************************************************************************)
EXTENDS Directory

CONSTANTS
  Clients,    \* requests that can be under way at one time
  NoKey,      \* the key of a request that has none
  NoOne,      \* the user of a request that has none
  Metered,    \* orgs with a monthly_call_limit
  Limit,      \* that limit
  ListLimit,  \* keys a listing returns: 200 in the code
  NoCount,    \* no entry of the quota cache, or one that has expired
  MaxEdits    \* bound: changes of the tables

ASSUME AccessAssumption ==
  /\ NoKey \notin Keys /\ NoOne \notin Emails /\ NoCount \notin Nat
  /\ Metered \subseteq Orgs /\ IsFiniteSet(Clients)
  /\ Limit \in Nat \ {0} /\ ListLimit \in Nat \ {0} /\ MaxEdits \in Nat

VARIABLES
  pc,         \* where each request stands
  held,       \* the key it carries, or is about to revoke
  who,        \* the user it acts for
  read,       \* the count its quota probe has read
  cache,      \* quotaCache: calls counted for each org
  booked,     \* actions of this month with the org in their meta
  sessions,   \* users with a session token that has not expired
  edits,      \* changes of the tables so far
  revoked,    \* history: keys whose revocation has been answered
  founded,    \* history: orgs an operator has made
  late        \* history: requests sent when their key was no longer good

request == <<pc, held, who, read>>
quota == <<cache, booked>>
tables == <<directory, sessions, edits, revoked, founded>>
vars == <<tables, request, quota, late>>

Labels == {"idle", "lookup", "quota", "probe", "probed", "admitted",
           "signing", "seeding", "revoking", "admin"}

TypeOK ==
  /\ DirectoryTypeOK
  /\ pc \in [Clients -> Labels]
  /\ held \in [Clients -> Keys \cup {NoKey}]
  /\ who \in [Clients -> Emails \cup {NoOne}]
  /\ read \in [Clients -> Nat]
  /\ cache \in [Orgs -> 0..Limit \cup {NoCount}]
  /\ booked \in [Orgs -> Nat]
  /\ sessions \subseteq {e \in Emails : user[e] # NoOrg}
  /\ edits \in 0..MaxEdits
  /\ revoked \subseteq Keys /\ founded \subseteq Orgs /\ late \subseteq Clients

OrgOf(c) == key[held[c]].org

Goto(c, label) == pc' = [pc EXCEPT ![c] = label] /\ UNCHANGED <<held, who>>

Begin(c, label, k, e) ==
  /\ pc[c] = "idle"
  /\ pc' = [pc EXCEPT ![c] = label]
  /\ held' = [held EXCEPT ![c] = k]
  /\ who' = [who EXCEPT ![c] = e]
  /\ UNCHANGED read

\* The request is answered, and what it held is forgotten.
End(c) ==
  /\ pc' = [pc EXCEPT ![c] = "idle"]
  /\ held' = [held EXCEPT ![c] = NoKey]
  /\ who' = [who EXCEPT ![c] = NoOne]
  /\ read' = [read EXCEPT ![c] = 0]
  /\ late' = late \ {c}

Edit == edits < MaxEdits /\ edits' = edits + 1

-----------------------------------------------------------------------------
(* The gate. *)

\* A call of a paid endpoint, paid or not, with a key that was handed out.
Call(c, k) ==
  /\ key[k].org # NoOrg
  /\ Begin(c, "lookup", k, NoOne)
  /\ late' = IF k \in revoked \/ ~KeyOpens(k) THEN late \cup {c} ELSE late
  /\ UNCHANGED <<tables, quota>>

\* authenticateApiKey: the row as it is at its SELECT, or 401.
Lookup(c) ==
  /\ pc[c] = "lookup"
  /\ IF KeyOpens(held[c])
     THEN Goto(c, "quota") /\ UNCHANGED <<read, late>>
     ELSE End(c)
  /\ UNCHANGED <<tables, quota>>

\* mistake: a cached count admits the call and is not raised
CountFromCacheOnly(c) ==
  /\ pc[c] = "quota"
  /\ IF OrgOf(c) \in Metered /\ cache[OrgOf(c)] \in {NoCount, Limit}
     THEN Goto(c, "probe")
     ELSE Goto(c, "admitted")
  /\ UNCHANGED <<tables, quota, read, late>>

\* After last_used_at is written: one more on a cached count below the limit, and
\* 429 when that reaches it; otherwise the database is asked.
CountFromCache(c) ==
  /\ pc[c] = "quota"
  /\ LET o == OrgOf(c) IN
     IF o \notin Metered
     THEN Goto(c, "admitted") /\ UNCHANGED <<cache, read, late>>
     ELSE IF cache[o] \in {NoCount, Limit}
     THEN Goto(c, "probe") /\ UNCHANGED <<cache, read, late>>
     ELSE /\ cache' = [cache EXCEPT ![o] = @ + 1]
          /\ IF cache[o] + 1 < Limit
             THEN Goto(c, "admitted") /\ UNCHANGED <<read, late>>
             ELSE End(c)
  /\ UNCHANGED <<tables, booked>>

\* countActionsThisMonthForOrg reads ...
Probe(c) ==
  /\ pc[c] = "probe"
  /\ read' = [read EXCEPT ![c] = booked[OrgOf(c)]]
  /\ Goto(c, "probed")
  /\ UNCHANGED <<tables, quota, late>>

\* mistake: > for >=
ChargeAboveLimit(c) ==
  /\ pc[c] = "probed"
  /\ cache' = [cache EXCEPT ![OrgOf(c)] = IF read[c] < Limit THEN read[c] ELSE Limit]
  /\ IF read[c] <= Limit
     THEN Goto(c, "admitted") /\ UNCHANGED <<read, late>>
     ELSE End(c)
  /\ UNCHANGED <<tables, booked>>

\* ... and its answer, which may have become old, is put into the cache over
\* whatever is there.  (Counts at or above the limit act alike.)
Charge(c) ==
  /\ pc[c] = "probed"
  /\ cache' = [cache EXCEPT ![OrgOf(c)] = IF read[c] < Limit THEN read[c] ELSE Limit]
  /\ IF read[c] < Limit
     THEN Goto(c, "admitted") /\ UNCHANGED <<read, late>>
     ELSE End(c)
  /\ UNCHANGED <<tables, booked>>

\* The tollbooth books the call with the org in its meta ...
Book(c) ==
  /\ pc[c] = "admitted"
  /\ booked' = IF OrgOf(c) \in Metered THEN [booked EXCEPT ![OrgOf(c)] = @ + 1] ELSE booked
  /\ End(c)
  /\ UNCHANGED <<tables, cache>>

\* ... or does not: no payment, or one it refuses.
LeaveUnbooked(c) ==
  /\ pc[c] = "admitted"
  /\ End(c)
  /\ UNCHANGED <<tables, quota>>

\* A statement of the gate fails: 500.
GateFails(c) ==
  /\ pc[c] \in {"lookup", "quota", "probe"}
  /\ End(c)
  /\ UNCHANGED <<tables, quota>>

\* Sixty seconds after it was asked for, a count is no longer used.
CountExpires(o) ==
  /\ cache[o] # NoCount
  /\ cache' = [cache EXCEPT ![o] = NoCount]
  /\ UNCHANGED <<tables, request, booked, late>>

NewMonth ==
  /\ booked' = [o \in Orgs |-> 0]
  /\ UNCHANGED <<tables, request, cache, late>>

-----------------------------------------------------------------------------
(* Users: sign-up, log-in, and the keys of their own org. *)

\* findUserByEmail finds nobody; otherwise 409.
SignupCheck(c, e) ==
  /\ FindUserByEmail(e) = {}
  /\ Begin(c, "signing", NoKey, e)
  /\ UNCHANGED <<tables, quota, late>>

\* The transaction, and a session on success; 500 when it fails.
Signup(c, o) ==
  /\ pc[c] = "signing"
  /\ \/ /\ SignupUser(who[c], o)
        /\ Edit
        /\ sessions' = sessions \cup {who[c]}
     \/ UNCHANGED <<org, user, sessions, edits>>
  /\ End(c)
  /\ UNCHANGED <<key, revoked, founded, quota>>

\* A password that matches gives a new token; nothing ends a token but its time.
Login(e) ==
  /\ FindUserByEmail(e) # {}
  /\ sessions' = sessions \cup {e}
  /\ UNCHANGED <<directory, edits, revoked, founded, request, quota, late>>

SessionExpires(e) ==
  /\ e \in sessions
  /\ sessions' = sessions \ {e}
  /\ UNCHANGED <<directory, edits, revoked, founded, request, quota, late>>

\* userFromReq: the token names a user and has not expired; what has become of the user
\* is not in it.
UserFromReq(e) == e \in sessions

\* POST /api/me/keys: a tenant key of the user's org.
MintOwnKey(e, k) ==
  /\ UserFromReq(e)
  /\ \E o \in GetUserById(e) : CreateApiKey(k, o, FALSE)
  /\ Edit
  /\ UNCHANGED <<org, user, sessions, revoked, founded, request, quota, late>>

\* POST /api/me/keys/:key_id/revoke looks for the key in the listing of the user's
\* org, or answers 404, ...
FindOwnKey(c, e, k) ==
  /\ UserFromReq(e)
  /\ \E o \in GetUserById(e) : k \in Listed(o, ListLimit)
  /\ Begin(c, "revoking", k, e)
  /\ UNCHANGED <<tables, quota, late>>

\* ... and revokes it by its id, whatever has happened to it since.
RevokeOwnKey(c) ==
  /\ pc[c] = "revoking"
  /\ \/ /\ RevokeApiKey(held[c])
        /\ Edit
        /\ revoked' = revoked \cup {held[c]}
     \/ UNCHANGED <<key, edits, revoked>>
  /\ End(c)
  /\ UNCHANGED <<org, user, sessions, founded, quota>>

-----------------------------------------------------------------------------
(* Operators with the ADMIN_TOKEN, and admin keys. *)

OperatorFoundsOrg(o) ==
  /\ CreateOrg(o)
  /\ Edit
  /\ founded' = founded \cup {o}
  /\ UNCHANGED <<user, key, sessions, revoked, request, quota, late>>

\* Enabling an org makes its keys good again, those of late requests too.
OperatorDisablesOrg(o, disabled) ==
  /\ SetOrgDisabled(o, disabled)
  /\ Edit
  /\ late' = IF disabled THEN late
             ELSE {c \in late : OrgOf(c) # o \/ held[c] \in revoked}
  /\ UNCHANGED <<user, key, sessions, revoked, founded, request, quota>>

OperatorRevokes(k) ==
  /\ key[k].org # NoOrg
  /\ RevokeApiKey(k)
  /\ Edit
  /\ revoked' = revoked \cup {k}
  /\ UNCHANGED <<org, user, sessions, founded, request, quota, late>>

\* seed-roles: for each of its emails, an org and a user by the same transaction, or
\* new credentials for the user there is; nobody is logged in.
SeedCheck(c, e) ==
  /\ FindUserByEmail(e) = {}
  /\ Begin(c, "seeding", NoKey, e)
  /\ UNCHANGED <<tables, quota, late>>

Seed(c, o) ==
  /\ pc[c] = "seeding"
  /\ \/ SignupUser(who[c], o) /\ Edit
     \/ UNCHANGED <<org, user, edits>>
  /\ End(c)
  /\ UNCHANGED <<key, sessions, revoked, founded, quota>>

\* A key of scope admin stands in for the token when keys are listed, minted and
\* edited: looked up first, ...
AdminLookup(c, k) ==
  /\ AdminKeyOpens(k)
  /\ Begin(c, "admin", k, NoOne)
  /\ late' = IF k \in revoked THEN late \cup {c} ELSE late
  /\ UNCHANGED <<tables, quota>>

MayAdminister(c) == pc[c] = "admin"

\* ... the work done afterwards.
AdminMints(c, k, o, admin) ==
  /\ MayAdminister(c)
  /\ CreateApiKey(k, o, admin)
  /\ Edit
  /\ End(c)
  /\ UNCHANGED <<org, user, sessions, revoked, founded, quota>>

AdminUpdates(c, k, admin) ==
  /\ MayAdminister(c)
  /\ UpdateApiKey(k, admin)
  /\ Edit
  /\ End(c)
  /\ UNCHANGED <<org, user, sessions, revoked, founded, quota>>

\* The token does the same without a lookup.
OperatorMints(k, o, admin) ==
  /\ CreateApiKey(k, o, admin)
  /\ Edit
  /\ UNCHANGED <<org, user, sessions, revoked, founded, request, quota, late>>

OperatorUpdates(k, admin) ==
  /\ UpdateApiKey(k, admin)
  /\ Edit
  /\ UNCHANGED <<org, user, sessions, revoked, founded, request, quota, late>>

-----------------------------------------------------------------------------
\* The server dies, of an error in a handler that does not catch it for one, and is
\* started again: requests and counts are gone, rows and signed sessions stay.
Restart ==
  /\ pc' = [c \in Clients |-> "idle"]
  /\ held' = [c \in Clients |-> NoKey]
  /\ who' = [c \in Clients |-> NoOne]
  /\ read' = [c \in Clients |-> 0]
  /\ late' = {}
  /\ cache' = [o \in Orgs |-> NoCount]
  /\ UNCHANGED <<tables, booked>>

Init ==
  /\ DirectoryInit
  /\ pc = [c \in Clients |-> "idle"]
  /\ held = [c \in Clients |-> NoKey]
  /\ who = [c \in Clients |-> NoOne]
  /\ read = [c \in Clients |-> 0]
  /\ cache = [o \in Orgs |-> NoCount]
  /\ booked = [o \in Orgs |-> 0]
  /\ sessions = {} /\ edits = 0
  /\ revoked = {} /\ founded = {} /\ late = {}

Gate(c) ==
  \/ \E k \in Keys : Call(c, k)
  \/ Lookup(c) \/ CountFromCache(c) \/ Probe(c) \/ Charge(c)
  \/ Book(c) \/ LeaveUnbooked(c) \/ GateFails(c)

Users ==
  \/ \E c \in Clients, e \in Emails : SignupCheck(c, e)
  \/ \E c \in Clients, o \in Orgs : Signup(c, o)
  \/ \E e \in Emails : Login(e) \/ SessionExpires(e)
  \/ \E e \in Emails, k \in Keys :
       MintOwnKey(e, k) \/ \E c \in Clients : FindOwnKey(c, e, k)
  \/ \E c \in Clients : RevokeOwnKey(c)

Operators ==
  \/ \E o \in Orgs : OperatorFoundsOrg(o) \/ \E d \in BOOLEAN : OperatorDisablesOrg(o, d)
  \/ \E k \in Keys : OperatorRevokes(k)
  \/ \E k \in Keys, admin \in BOOLEAN :
       \/ OperatorUpdates(k, admin)
       \/ \E o \in Orgs : OperatorMints(k, o, admin)
       \/ \E c \in Clients : AdminUpdates(c, k, admin)
       \/ \E c \in Clients, o \in Orgs : AdminMints(c, k, o, admin)
  \/ \E c \in Clients, e \in Emails : SeedCheck(c, e)
  \/ \E c \in Clients, o \in Orgs : Seed(c, o)
  \/ \E c \in Clients, k \in Keys : AdminLookup(c, k)

Next ==
  \/ \E c \in Clients : Gate(c)
  \/ \E o \in Orgs : CountExpires(o)
  \/ NewMonth \/ Restart
  \/ Users
  \/ Operators

Spec == Init /\ [][Next]_vars

-----------------------------------------------------------------------------
(* Properties. *)

\* A revoked key "stops working immediately": a request sent after the revocation
\* of its key was answered, or while its org was disabled, is neither admitted nor
\* given admin rights, whatever edits of the key were on their way.
RevokedKeyOpensNothing ==
  \A c \in late : pc[c] \notin {"quota", "probe", "probed", "admitted", "admin"}

\* The quota of an org is overrun by concurrent probes only: each of them can put
\* an old count back once, so at most Limit calls per request under way are booked.
QuotaOverrunIsBounded ==
  \A o \in Metered : booked[o] <= Limit * Cardinality(Clients)

\* An org whose month is used up, whose cached count is gone and whose probes under
\* way have read it so, stays out for the rest of the month.
UsedUp(o) ==
  /\ booked[o] >= Limit
  /\ cache[o] \in {NoCount, Limit}
  /\ \A c \in Clients : held[c] # NoKey /\ OrgOf(c) = o =>
       pc[c] # "admitted" /\ (pc[c] = "probed" => read[c] >= Limit)

UsedUpStaysOut == [][\A o \in Metered : UsedUp(o) => UsedUp(o)' \/ booked'[o] = 0]_vars

\* Whatever a request is about to revoke for a user is a key of the user's org.
OwnKeysOnly ==
  \A c \in Clients : pc[c] = "revoking" => OrgOf(c) = user[who[c]]

\* Sign-up is all or nothing, whoever races for the name or the email: every org
\* was made by an operator or has the one user who signed up for it.
OrgsHaveOwners ==
  \A o \in Orgs : Cardinality({e \in Emails : user[e] = o})
                    = IF org[o] = "none" \/ o \in founded THEN 0 ELSE 1
=============================================================================
