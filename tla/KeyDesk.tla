------------------------------- MODULE KeyDesk -------------------------------
(***************************************************************************)
(* Where people sign in and handle API keys: the account page of a user    *)
(* and the operators' page of orgs.  The tabs of a browser share one jar   *)
(* of cookies; one dashboard process serves them all and asks the seller   *)
(* server on their behalf, several awaits for one page.  A minted key is   *)
(* shown in full once, by the answer to its form on the one page and       *)
(* through a cookie on the other.  Every user has an org of its own.       *)
(***************************************************************************)
EXTENDS Naturals, FiniteSets

CONSTANTS
  Tabs,         \* tabs of browsers
  Users,        \* with an account, and an org each
  Operators,    \* those whose role is admin
  ApiKeys,      \* keys that may be minted (a bound)
  MaxForms,     \* bound: forms sent
  Nobody, NoApiKey

ASSUME KeyDeskAssumption ==
  /\ Tabs # {} /\ Tabs \subseteq Nat /\ Operators \subseteq Users /\ Nobody \notin Users
  /\ NoApiKey \notin ApiKeys /\ MaxForms \in Nat

VARIABLES
  browser,      \* tab |-> the tab its browser was opened with
  jar,          \* cookies of each browser: pf_session and pf_minted_key
  page,         \* what each tab shows
  request,      \* what the dashboard does for each tab
  issued,       \* api_keys: the org of each key, and whether it is live
  forms,        \* forms sent
  wanted,       \* history: key |-> the browser and the org it was asked for
  ended         \* history: key |-> on whose behalf it was revoked

keyDeskVars == <<browser, jar, page, request, issued, forms, wanted, ended>>

Blank == [at |-> "login", user |-> Nobody, listed |-> {}, secret |-> NoApiKey]
Quiet == [at |-> "none", does |-> "open", to |-> "account", token |-> Nobody, flash |-> NoApiKey,
         subject |-> NoApiKey, org |-> Nobody, user |-> Nobody, listed |-> {}, secret |-> NoApiKey]

Cookies(t) == jar[browser[t]]

\* mistake: the process keeps one session for all it serves
TokenOfProcess(t) == jar[CHOOSE u \in Tabs : TRUE].session

\* cookies() of the request: as they were when it was sent.
Token(t) == request[t].token

\* What the seller server makes of it, unless the token has expired.
HasSession(t) == Token(t) # Nobody

Continue(t, at) == request' = [request EXCEPT ![t].at = at]

-----------------------------------------------------------------------------
(* The browser sends. *)

\* One request of a tab is under way at a time; its cookies go with it.
Send(t, does, to, subject, org) ==
  /\ request[t] = Quiet
  /\ request' = [request EXCEPT ![t] =
       [Quiet EXCEPT !.at = IF does = "open" THEN "me" ELSE "act", !.does = does, !.to = to,
                    !.token = Cookies(t).session, !.flash = Cookies(t).flash,
                    !.subject = subject, !.org = org]]

Form == forms < MaxForms /\ forms' = forms + 1

\* The tab is loaded anew: what it showed is gone.
OpenAccount(t) ==
  /\ Send(t, "open", "account", NoApiKey, Nobody)
  /\ page' = [page EXCEPT ![t] = Blank]
  /\ UNCHANGED <<browser, jar, issued, forms, wanted, ended>>

OpenOrgs(t) ==
  /\ Send(t, "open", "orgs", NoApiKey, Nobody)
  /\ page' = [page EXCEPT ![t] = Blank]
  /\ UNCHANGED <<browser, jar, issued, forms, wanted, ended>>

SendSignIn(t, u) ==
  /\ page[t].at = "login" /\ Form
  /\ Send(t, "sign in", "account", NoApiKey, u)
  /\ UNCHANGED <<browser, jar, page, issued, wanted, ended>>

SendMint(t) ==
  /\ page[t].at = "account" /\ Form
  /\ Send(t, "mint", "account", NoApiKey, Cookies(t).session)
  /\ UNCHANGED <<browser, jar, page, issued, wanted, ended>>

\* Every active key of the list has its buttons.
SendRevoke(t, k) ==
  /\ page[t].at = "account" /\ k \in page[t].listed /\ Form
  /\ Send(t, "revoke", "account", k, Nobody)
  /\ UNCHANGED <<browser, jar, page, issued, wanted, ended>>

SendMintFor(t, org) ==
  /\ page[t].at = "orgs" /\ Form
  /\ Send(t, "mint for", "orgs", NoApiKey, org)
  /\ UNCHANGED <<browser, jar, page, issued, wanted, ended>>

SendRevokeAny(t, k) ==
  /\ page[t].at = "orgs" /\ k \in page[t].listed /\ Form
  /\ Send(t, "revoke any", "orgs", k, Nobody)
  /\ UNCHANGED <<browser, jar, page, issued, wanted, ended>>

SendEditOrgs(t) ==
  /\ page[t].at = "orgs" /\ Form
  /\ Send(t, "edit orgs", "orgs", NoApiKey, Nobody)
  /\ UNCHANGED <<browser, jar, page, issued, wanted, ended>>

SendEditKey(t) ==
  /\ page[t].at = "orgs" /\ page[t].listed # {} /\ Form
  /\ Send(t, "edit key", "orgs", NoApiKey, Nobody)
  /\ UNCHANGED <<browser, jar, page, issued, wanted, ended>>

\* The answer deletes the cookie; the token itself stays good until its time.
SignOut(t) ==
  /\ page[t].at = "account" /\ request[t] = Quiet
  /\ jar' = [jar EXCEPT ![browser[t]].session = Nobody]
  /\ page' = [page EXCEPT ![t] = Blank]
  /\ UNCHANGED <<browser, request, issued, forms, wanted, ended>>

\* The answer is lost, an action throws, or the tab goes elsewhere: what the servers
\* have done stays.
Abandon(t) ==
  /\ request[t] # Quiet
  /\ request' = [request EXCEPT ![t] = Quiet]
  /\ page' \in {page, [page EXCEPT ![t] = Blank]}
  /\ UNCHANGED <<browser, jar, issued, forms, wanted, ended>>

-----------------------------------------------------------------------------
(* Server actions. *)

Acting(t, does) == request[t].at = "act" /\ request[t].does = does

\* A new key, live at once.
Issue(t, k, org) ==
  /\ issued[k].org = Nobody
  /\ issued' = [issued EXCEPT ![k] = [org |-> org, live |-> TRUE]]
  /\ wanted' = [wanted EXCEPT ![k] = [browser |-> browser[t], org |-> request[t].org]]

\* The seller server takes password and email, or neither; the session comes with the
\* answer, which sends the tab to its account.
SignIn(t) ==
  /\ Acting(t, "sign in")
  /\ \/ /\ jar' = [jar EXCEPT ![browser[t]].session = request[t].org]
        /\ request' = [request EXCEPT ![t] =
             [Quiet EXCEPT !.at = "me", !.token = request[t].org, !.flash = Cookies(t).flash]]
     \/ request' = [request EXCEPT ![t] = Quiet] /\ UNCHANGED jar
  /\ UNCHANGED <<browser, page, issued, forms, wanted, ended>>

\* For the org of the session, whoever the page still names.  An error becomes the
\* form's state in place of an earlier key, and the page stays.
MintKey(t) ==
  /\ Acting(t, "mint")
  /\ \/ \E k \in ApiKeys :
          /\ HasSession(t)
          /\ Issue(t, k, Token(t))
          /\ request' = [request EXCEPT ![t].at = "me", ![t].secret = k]
          /\ UNCHANGED page
     \/ /\ request' = [request EXCEPT ![t] = Quiet]
        /\ page' = [page EXCEPT ![t].secret = NoApiKey]
        /\ UNCHANGED <<issued, wanted>>
  /\ UNCHANGED <<browser, jar, forms, ended>>

\* Only a key of the session's org is found; nobody looks at the answer.
RevokeKey(t) ==
  /\ Acting(t, "revoke")
  /\ LET k == request[t].subject IN
     \/ /\ issued[k].org = Token(t)
        /\ issued' = [issued EXCEPT ![k].live = FALSE]
        /\ ended' = [ended EXCEPT ![k] = request[t].token]
     \/ UNCHANGED <<issued, ended>>
  /\ Continue(t, "me")
  /\ UNCHANGED <<browser, jar, page, forms, wanted>>

\* With the ADMIN_TOKEN of the dashboard.  The full key goes into a cookie of the
\* browser, which the page that is rendered next finds already.
MintKeyFor(t) ==
  /\ Acting(t, "mint for")
  /\ \/ \E k \in ApiKeys :
          /\ Issue(t, k, request[t].org)
          /\ request' = [request EXCEPT ![t].at = "me", ![t].flash = k]
          /\ jar' = [jar EXCEPT ![browser[t]].flash = k]
     \/ Continue(t, "me") /\ UNCHANGED <<issued, wanted, jar>>
  /\ UNCHANGED <<browser, page, forms, ended>>

RevokeAny(t) ==
  /\ Acting(t, "revoke any")
  /\ \/ /\ issued' = [issued EXCEPT ![request[t].subject].live = FALSE]
        /\ ended' = [ended EXCEPT ![request[t].subject] = "operator"]
     \/ UNCHANGED <<issued, ended>>
  /\ Continue(t, "me")
  /\ UNCHANGED <<browser, jar, page, forms, wanted>>

\* Orgs are made, enabled and disabled, labels and scopes of keys changed: nothing that
\* is looked at here.
EditOrgs(t) ==
  /\ Acting(t, "edit orgs")
  /\ Continue(t, "me")
  /\ UNCHANGED <<browser, jar, page, issued, forms, wanted, ended>>

EditKey(t) ==
  /\ Acting(t, "edit key")
  /\ Continue(t, "me")
  /\ UNCHANGED <<browser, jar, page, issued, forms, wanted, ended>>

-----------------------------------------------------------------------------
(* Rendering. *)

\* requireRole, by rank.
Allowed(user, to) == to = "account" \/ user \in Operators

\* getCurrentUser: the user of the token, or nobody when it has expired or the server
\* does not answer; then the tab is sent to the log-in page.
Me(t) ==
  /\ request[t].at = "me"
  /\ \/ /\ HasSession(t) /\ Allowed(Token(t), request[t].to)
        /\ request' = [request EXCEPT ![t].at = "list", ![t].user = Token(t)]
        /\ UNCHANGED page
     \/ /\ request' = [request EXCEPT ![t] = Quiet]
        /\ page' = [page EXCEPT ![t] = Blank]
  /\ UNCHANGED <<browser, jar, issued, forms, wanted, ended>>

\* The answer of a listing, or an error, which is shown as a list without keys.
LoadFound(t, found) ==
  /\ request[t].at = "list"
  /\ \E listed \in {found, {}} :
       request' = [request EXCEPT ![t].at = "render", ![t].listed = listed]
  /\ UNCHANGED <<browser, jar, page, issued, forms, wanted, ended>>

Live == {k \in ApiKeys : issued[k].live}

\* The active keys of the session's org.
OwnKeys(t) == {k \in Live : issued[k].org = Token(t)}

LoadKeys(t) == request[t].to = "account" /\ LoadFound(t, OwnKeys(t))

\* With the ADMIN_TOKEN of the dashboard: those of all orgs.
LoadAllKeys(t) == request[t].to = "orgs" /\ LoadFound(t, Live)

\* The form of the page keeps the last key it was answered with.
Secret(t) == IF request[t].secret # NoApiKey THEN request[t].secret ELSE page[t].secret

ShowAccount(t) ==
  /\ request[t].at = "render" /\ request[t].to = "account"
  /\ page' = [page EXCEPT ![t] =
       [at |-> "account", user |-> request[t].user, listed |-> request[t].listed,
        secret |-> Secret(t)]]
  /\ request' = [request EXCEPT ![t] = Quiet]
  /\ UNCHANGED <<browser, jar, issued, forms, wanted, ended>>

\* The cookie is read, and deleted with the answer.  A runtime that lets nobody
\* delete a cookie while a page is rendered shows its error page instead.
ShowOrgs(t) ==
  /\ request[t].at = "render" /\ request[t].to = "orgs"
  /\ \/ /\ page' = [page EXCEPT ![t] =
             [at |-> "orgs", user |-> request[t].user, listed |-> request[t].listed,
              secret |-> request[t].flash]]
        /\ jar' = IF request[t].flash # NoApiKey
                  THEN [jar EXCEPT ![browser[t]].flash = NoApiKey] ELSE jar
     \/ /\ request[t].flash # NoApiKey
        /\ page' = [page EXCEPT ![t] = Blank]
        /\ UNCHANGED jar
  /\ request' = [request EXCEPT ![t] = Quiet]
  /\ UNCHANGED <<browser, issued, forms, wanted, ended>>

\* After sixty seconds.
FlashExpires(t) ==
  /\ Cookies(t).flash # NoApiKey
  /\ jar' = [jar EXCEPT ![browser[t]].flash = NoApiKey]
  /\ UNCHANGED <<browser, page, request, issued, forms, wanted, ended>>

-----------------------------------------------------------------------------
KeyDeskInit ==
  /\ browser \in {b \in [Tabs -> Tabs] : \A t \in Tabs : b[b[t]] = b[t] /\ b[t] <= t}
  /\ jar = [t \in Tabs |-> [session |-> Nobody, flash |-> NoApiKey]]
  /\ page = [t \in Tabs |-> Blank]
  /\ request = [t \in Tabs |-> Quiet]
  /\ issued = [k \in ApiKeys |-> [org |-> Nobody, live |-> FALSE]]
  /\ forms = 0
  /\ wanted = [k \in ApiKeys |-> [browser |-> CHOOSE t \in Tabs : TRUE, org |-> Nobody]]
  /\ ended = [k \in ApiKeys |-> Nobody]

KeyDeskNext ==
  \E t \in Tabs :
    \/ OpenAccount(t) \/ OpenOrgs(t) \/ SignOut(t) \/ Abandon(t) \/ SendMint(t)
    \/ \E u \in Users : SendSignIn(t, u) \/ SendMintFor(t, u)
    \/ \E k \in ApiKeys : SendRevoke(t, k) \/ SendRevokeAny(t, k)
    \/ SendEditOrgs(t) \/ SendEditKey(t)
    \/ SignIn(t) \/ MintKey(t) \/ RevokeKey(t) \/ MintKeyFor(t) \/ RevokeAny(t)
    \/ EditOrgs(t) \/ EditKey(t)
    \/ Me(t) \/ LoadKeys(t) \/ LoadAllKeys(t) \/ ShowAccount(t) \/ ShowOrgs(t) \/ FlashExpires(t)

KeyDeskTypeOK ==
  /\ browser \in [Tabs -> Tabs] /\ forms \in 0..MaxForms
  /\ jar \in [Tabs -> [session : Users \cup {Nobody}, flash : ApiKeys \cup {NoApiKey}]]
  /\ \A t \in Tabs :
       /\ page[t].at \in {"login", "account", "orgs"} /\ page[t].listed \subseteq ApiKeys
       /\ request[t].at \in {"none", "act", "me", "list", "render"}
  /\ issued \in [ApiKeys -> [org : Users \cup {Nobody}, live : BOOLEAN]]
  /\ ended \in [ApiKeys -> Users \cup {Nobody, "operator"}]

-----------------------------------------------------------------------------
(* Properties. *)

\* Whoever else signs in, out or over in the tabs of this or another browser: a key
\* belongs to the org it was asked for (by the session the browser had then) and is shown in full in the browser it was asked
\* from, an account page shows the keys of one org, that of its user, and a key ends by
\* a form of its own org or of an operator's page.
KeysStayWithTheirOrg ==
  /\ \A k \in ApiKeys :
       /\ issued[k].org = wanted[k].org
       /\ ended[k] \in {Nobody, issued[k].org, "operator"}
  /\ \A t \in Tabs :
       /\ page[t].secret # NoApiKey => wanted[page[t].secret].browser = browser[t]
       /\ page[t].at = "account" => \A k \in page[t].listed : issued[k].org = page[t].user
=============================================================================
