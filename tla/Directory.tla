------------------------------ MODULE Directory ------------------------------
(***************************************************************************)
(* The tables orgs, users and api_keys of the ledger, and the statements   *)
(* that write them.  An org is known by its name and a user by the email,  *)
(* which are unique.  Of a key the table keeps its org, its scope and      *)
(* whether it has been revoked.                                            *)
(***************************************************************************)
EXTENDS Naturals, FiniteSets

CONSTANTS
  Orgs,       \* names of orgs
  NoOrg,      \* no org
  Emails,     \* email addresses
  Keys        \* ids of API keys, in the order of their creation

ASSUME DirectoryAssumption ==
  /\ NoOrg \notin Orgs
  /\ Keys \subseteq Nat

VARIABLES
  org,        \* each org: absent, open, or disabled
  user,       \* each email: the org of its user, or no user
  key         \* each key: its org (none: no row), its scope, not revoked

directory == <<org, user, key>>

OrgStates == {"none", "open", "disabled"}
KeyRows == [org : Orgs \cup {NoOrg}, admin : BOOLEAN, live : BOOLEAN]
NoKeyRow == [org |-> NoOrg, admin |-> FALSE, live |-> FALSE]

DirectoryTypeOK ==
  /\ org \in [Orgs -> OrgStates]
  /\ user \in [Emails -> Orgs \cup {NoOrg}]
  /\ key \in [Keys -> KeyRows]

DirectoryInit ==
  /\ org = [o \in Orgs |-> "none"]
  /\ user = [e \in Emails |-> NoOrg]
  /\ key = [k \in Keys |-> NoKeyRow]

\* findUserByEmail: the org in the row of the email, if there is one.
FindUserByEmail(e) == {o \in Orgs : user[e] = o}

\* getUserById: the row joined with that of its org.
GetUserById(e) == {o \in Orgs : user[e] = o /\ org[o] # "none"}

KeysOf(o) == {k \in Keys : key[k].org = o}

\* The SELECT of authenticateApiKey: a row that is not revoked, of an org that is
\* not disabled.
KeyOpens(k) ==
  /\ key[k].org # NoOrg
  /\ key[k].live
  /\ org[key[k].org] = "open"

\* authenticateApiKeyWithScope: the same for a key of scope admin.
AdminKeyOpens(k) == KeyOpens(k) /\ key[k].admin

\* listApiKeys: the newest keys of an org, up to the limit of the query.
Listed(o, limit) ==
  {k \in KeysOf(o) : Cardinality({j \in KeysOf(o) : j > k}) < limit}

-----------------------------------------------------------------------------
(* Statements.  Each one changes the column it names and no other table. *)

\* The INSERT of an org fails on a name that is taken.
CreateOrg(o) ==
  /\ org[o] = "none"
  /\ org' = [org EXCEPT ![o] = "open"]

SetOrgDisabled(o, disabled) ==
  /\ org[o] # "none"
  /\ org' = [org EXCEPT ![o] = IF disabled THEN "disabled" ELSE "open"]

\* A new key of an org that exists (the reference to it is checked).
CreateApiKey(k, o, admin) ==
  /\ org[o] # "none"
  /\ key[k] = NoKeyRow
  /\ \A j \in Keys : j < k => key[j] # NoKeyRow
  /\ key' = [key EXCEPT ![k] = [org |-> o, admin |-> admin, live |-> TRUE]]

RevokeApiKey(k) == key' = [key EXCEPT ![k].live = FALSE]

\* mistake: an edit writes the whole row as it was when the page was rendered
UpdateApiKeyWhole(k, admin) ==
  /\ key[k].org # NoOrg
  /\ key' = [key EXCEPT ![k].admin = admin, ![k].live = TRUE]

\* Label and scope of a key, also of one that has been revoked.
UpdateApiKey(k, admin) ==
  /\ key[k].org # NoOrg
  /\ key' = [key EXCEPT ![k].admin = admin]

\* mistake: the two INSERTs of signupUser commit one by one
SignupUserInTwo(e, o) ==
  /\ org[o] = "none"
  /\ org' = [org EXCEPT ![o] = "open"]
  /\ user' = IF user[e] = NoOrg THEN [user EXCEPT ![e] = o] ELSE user

\* The transaction of signupUser: an org and its owner, or neither, when the name
\* or the email is taken.
SignupUser(e, o) ==
  /\ user[e] = NoOrg
  /\ CreateOrg(o)
  /\ user' = [user EXCEPT ![e] = o]
=============================================================================
