------------------------------ MODULE SellerKit ------------------------------
(***************************************************************************)
(* What a builder gets to sell calls without the tollbooth: the scaffold   *)
(* that writes an app into a directory, the app it writes, which keeps the *)
(* nonces it has seen in its process, and the middleware of the            *)
(* facilitator, which leaves them to a store of the seller's.  A nonce is  *)
(* the text the header holds: an authorization whose hex digits come in    *)
(* another case has another nonce here, and the same signature.            *)
(***************************************************************************)
EXTENDS Naturals, FiniteSets, SequencesExt

CONSTANTS
  Visits,     \* bound: requests that carry a payment
  Payments,   \* X-PAYMENT headers
  TextOf,     \* the text of the nonce in each
  Forged,     \* those whose signature is not the payer's
  MaxStops,   \* bound: restarts of the process
  Makings,    \* bound: runs of the scaffold, [template, force]
  NoPayment, NoMaking

ASSUME SellerKitAssumption ==
  /\ DOMAIN TextOf = Payments
  /\ Forged \subseteq Payments /\ NoPayment \notin Payments
  /\ Makings \subseteq [template : {"seller", "buyer", "both"}, force : BOOLEAN]
  /\ NoMaking \notin Makings

VARIABLES
  shop,       \* "template" or "adapter": which of the two serves
  visit,      \* each request: its step and its header
  nonces,     \* the texts of nonces the shop has stored
  stops,
  late,       \* history: requests that came when the text of their nonce had been served
              \* by the process that runs, or by a seller with a store
  making,     \* each run of the scaffold: its step, the files left
  folder,     \* file |-> the run that wrote it; whether it exists, and its scripts
  mixed       \* history: runs that another one has written beside or after

shopVars == <<shop, visit, nonces, stops, late>>
scaffoldVars == <<making, folder, mixed>>
kitVars == <<shopVars, scaffoldVars>>

-----------------------------------------------------------------------------
(* The shop.  A request without a payment gets its challenge and changes   *)
(* nothing.                                                                *)

Served == {v \in Visits : visit[v].at = "served"}

\* The nonce of a request as its header spells it.
Text(v) == TextOf[visit[v].payment]

\* Decoded, checked against the challenge and looked up: all before the first await.
Visit(v) ==
  /\ visit[v].at = "new"
  /\ \E p \in Payments :
       /\ visit' = [visit EXCEPT ![v] =
            [at |-> IF TextOf[p] \in nonces THEN "refused" ELSE "recovering", payment |-> p]]
       /\ late' = IF \E w \in Served : Text(w) = TextOf[p]
                  THEN late \cup {v} ELSE late
  /\ UNCHANGED <<shop, nonces, stops>>

\* mistake: the nonce is not kept
RecoveredAndForgotten(v) ==
  /\ visit[v].at = "recovering"
  /\ visit' = [visit EXCEPT ![v].at = IF visit[v].payment \in Forged THEN "refused" ELSE "served"]
  /\ UNCHANGED <<shop, nonces, stops, late>>

\* The signer is recovered.  The app stores the nonce and answers; the middleware hands
\* on to the seller.
Recovered(v) ==
  /\ visit[v].at = "recovering"
  /\ IF visit[v].payment \in Forged
     THEN visit' = [visit EXCEPT ![v].at = "refused"] /\ UNCHANGED nonces
     ELSE IF shop = "template"
     THEN /\ visit' = [visit EXCEPT ![v].at = "served"]
          /\ nonces' = nonces \cup {Text(v)}
     ELSE visit' = [visit EXCEPT ![v].at = "handing on"] /\ UNCHANGED nonces
  /\ UNCHANGED <<shop, stops, late>>

\* onVerified, the seller's own: it stores the nonce, or throws before or after that.
HandedOn(v) ==
  /\ visit[v].at = "handing on"
  /\ \/ /\ visit' = [visit EXCEPT ![v].at = "served"]
        /\ nonces' = nonces \cup {Text(v)}
     \/ /\ visit' = [visit EXCEPT ![v].at = "refused"]
        /\ nonces' \in {nonces, nonces \cup {Text(v)}}
  /\ UNCHANGED <<shop, stops, late>>

\* The set of the app is gone with its process, the store of the seller is not: what
\* the app has served it has forgotten.
StopShop ==
  /\ stops < MaxStops /\ stops' = stops + 1
  /\ nonces' = IF shop = "template" THEN {} ELSE nonces
  /\ visit' = [v \in Visits |->
       CASE visit[v].at \in {"recovering", "handing on"} -> [visit[v] EXCEPT !.at = "dropped"]
         [] visit[v].at = "served" /\ shop = "template" -> [visit[v] EXCEPT !.at = "forgotten"]
         [] OTHER -> visit[v]]
  /\ UNCHANGED <<shop, late>>

-----------------------------------------------------------------------------
(* The scaffold. *)

Common == <<"package.json", "readme">>

TemplateFiles(m) ==
  Common \o (IF m.template = "buyer" THEN <<>> ELSE <<"server">>)
         \o (IF m.template = "seller" THEN <<>> ELSE <<"buyer">>)

\* Whoever writes mixes with every run that has begun, and with those that have ended.
Mix(m) ==
  mixed' = mixed \cup {o \in Makings \ {m} : making[o].at \notin {"ready", "refused"}}
                 \cup (IF \E o \in Makings \ {m} : making[o].at \in {"making", "copying", "patching"}
                       THEN {m} ELSE {})

\* Without --force an existing directory is an error.
Look(m) ==
  /\ making[m].at = "ready"
  /\ making' = [making EXCEPT ![m].at = IF folder.there /\ ~m.force THEN "refused" ELSE "making"]
  /\ UNCHANGED <<folder, mixed>>

MakeFolder(m) ==
  /\ making[m].at = "making"
  /\ folder' = [folder EXCEPT !.there = TRUE]
  /\ making' = [making EXCEPT ![m] = [at |-> "copying", left |-> TemplateFiles(m)]]
  /\ UNCHANGED mixed

\* One file of the templates, with the name of the app in its text.
CopyFile(m) ==
  /\ making[m].at = "copying"
  /\ LET f == Head(making[m].left) IN
       folder' = [folder EXCEPT !.by[f] = m,
                                !.scripts = IF f = "package.json" THEN "both" ELSE @]
  /\ making' = [making EXCEPT ![m] =
       [at |-> IF Len(making[m].left) = 1 THEN "patching" ELSE "copying",
        left |-> Tail(making[m].left)]]
  /\ Mix(m)

\* mistake: the scripts the template has no file for stay
PatchNothing(m) ==
  /\ making[m].at = "patching"
  /\ making' = [making EXCEPT ![m].at = "done"]
  /\ UNCHANGED folder
  /\ Mix(m)

\* The scripts the template has no file for go; a script that is gone stays gone.
Patch(m) ==
  /\ making[m].at = "patching"
  /\ folder' = [folder EXCEPT !.scripts =
       IF m.template = "both" THEN @ ELSE IF @ \in {"both", m.template} THEN m.template ELSE "none"]
  /\ making' = [making EXCEPT ![m].at = "done"]
  /\ Mix(m)

KillMaking(m) ==
  /\ making[m].at \in {"making", "copying", "patching"}
  /\ making' = [making EXCEPT ![m].at = "killed", ![m].left = <<>>]
  /\ UNCHANGED <<folder, mixed>>

-----------------------------------------------------------------------------
AllFiles == {"package.json", "readme", "server", "buyer"}

KitInit ==
  /\ shop \in {"template", "adapter"}
  /\ visit = [v \in Visits |-> [at |-> "new", payment |-> NoPayment]]
  /\ nonces = {} /\ stops = 0 /\ late = {}
  /\ making = [m \in Makings |-> [at |-> "ready", left |-> <<>>]]
  /\ folder = [there |-> FALSE, by |-> [f \in AllFiles |-> NoMaking], scripts |-> "none"]
  /\ mixed = {}

ShopNext ==
  \/ \E v \in Visits : Visit(v) \/ Recovered(v) \/ HandedOn(v)
  \/ StopShop

ScaffoldNext ==
  \E m \in Makings : Look(m) \/ MakeFolder(m) \/ CopyFile(m) \/ Patch(m) \/ KillMaking(m)

KitTypeOK ==
  /\ shop \in {"template", "adapter"}
  /\ visit \in [Visits -> [at : {"new", "recovering", "handing on", "served", "forgotten",
                                 "refused", "dropped"},
                           payment : Payments \cup {NoPayment}]]
  /\ nonces \subseteq {TextOf[p] : p \in Payments} /\ stops \in 0..MaxStops /\ late \subseteq Visits
  /\ \A m \in Makings :
       /\ making[m].at \in {"ready", "refused", "making", "copying", "patching", "done", "killed"}
       /\ making[m].left \in Seq(AllFiles)
  /\ folder.there \in BOOLEAN /\ folder.by \in [AllFiles -> Makings \cup {NoMaking}]
  /\ folder.scripts \in {"none", "both", "seller", "buyer"}
  /\ mixed \subseteq Makings

-----------------------------------------------------------------------------
(* Properties. *)

\* The nonces guard what they can: a nonce is redeemed twice in one spelling only by
\* requests that overlap, or across a restart of the app.  (An authorization is redeemed
\* once for each of its spellings.)
LateIsRefused == \A v \in late : visit[v].at \notin {"served", "forgotten"}

\* A run that ends, and that no other run writes beside or after, leaves all the files
\* of its template and the scripts that go with them.
ScaffoldIsWhole ==
  \A m \in Makings \ mixed :
    making[m].at = "done" =>
      /\ \A f \in ToSet(TemplateFiles(m)) : folder.by[f] = m
      /\ folder.scripts = m.template
=============================================================================
