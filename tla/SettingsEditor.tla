--------------------------- MODULE SettingsEditor ---------------------------
(***************************************************************************)
(* The settings table and one open page that edits it.  The page asks for  *)
(* lists and secrets and sends its changes in requests of their own, and   *)
(* applies each answer to whatever it shows when the answer arrives: the   *)
(* draft of the one open input may then belong to another row.             *)
(***************************************************************************)
EXTENDS Naturals, SequencesExt

CONSTANTS
  Keys,       \* keys of settings
  Seeds,      \* seeded keys |-> the rows the environment of the server gives them
  Typed,      \* texts an operator types
  NewRows,    \* rows an operator creates
  OthersRows, \* rows another operator writes
  Empty,      \* the empty text
  Dots,       \* what the server shows in place of a secret
  NoKey, NoRow,
  MaxCalls    \* bound: requests of the page

IsRow(row) == row = [value |-> row.value, secret |-> row.secret] /\ row.secret \in BOOLEAN

\* Nobody's text is the mask.
ASSUME SettingsAssumption ==
  /\ \A row \in NewRows \cup OthersRows \cup {Seeds[k] : k \in DOMAIN Seeds} :
       IsRow(row) /\ row.value # Dots
  /\ DOMAIN Seeds \subseteq Keys /\ NoKey \notin Keys
  /\ \A k \in DOMAIN Seeds : Seeds[k].value \notin {Empty, Dots}
  /\ Dots \notin Typed \cup {Empty}
  /\ MaxCalls \in Nat \ {0}

VARIABLES
  settings,   \* the table
  items,      \* the rows the page shows
  editing,    \* the row with the open input
  draft,      \* the text of the input
  token,      \* an admin token has been entered
  calls,      \* the page's requests that have not come back
  asked,      \* requests sent so far
  from,       \* history: the row the draft was read from
  unsure      \* history: the input was opened while a secret was awaited, or it never came

editor == <<items, editing, draft, token>>
requests == <<calls, asked>>
settingsVars == <<settings, editor, requests, from, unsure>>

Texts ==
  Typed \cup {row.value : row \in NewRows \cup OthersRows} \cup {Empty, Dots} \cup {Seeds[k].value : k \in DOMAIN Seeds}
Rows == [value : Texts, secret : BOOLEAN]

Awaited == {i \in DOMAIN calls : calls[i].kind = "reveal"}
Pending == DOMAIN calls
Writes == {"save", "create", "delete"}

SettingsTypeOK ==
  /\ settings \in [Keys -> Rows \cup {NoRow}]
  /\ items \in [Keys -> Rows \cup {NoRow}]
  /\ editing \in Keys \cup {NoKey} /\ from \in Keys \cup {NoKey}
  /\ draft \in Texts
  /\ {token, unsure} \subseteq BOOLEAN
  /\ asked \in 0..MaxCalls
  /\ \A i \in DOMAIN calls :
       /\ calls[i].kind \in Writes \cup {"list", "reveal"}
       /\ calls[i].stage \in {"sent", "answered", "refused"}
       /\ calls[i].key \in Keys \cup {NoKey} /\ calls[i].from \in Keys \cup {NoKey}
       /\ calls[i].row \in Rows

-----------------------------------------------------------------------------
(* The server. *)

Masked(row) ==
  IF row # NoRow /\ row.secret /\ row.value # Empty THEN [row EXCEPT !.value = Dots] ELSE row

Listing == [k \in Keys |-> Masked(settings[k])]

Answered(i, answer) ==
  /\ calls' = [calls EXCEPT ![i].stage = "answered", ![i].answer = answer]
  /\ UNCHANGED asked

List(i) ==
  /\ calls[i].kind = "list"
  /\ Answered(i, Listing)
  /\ UNCHANGED settings

Reveal(i) ==
  /\ calls[i].kind = "reveal"
  /\ IF settings[calls[i].key] = NoRow
     THEN calls' = [calls EXCEPT ![i].stage = "refused"] /\ UNCHANGED asked
     ELSE Answered(i, settings[calls[i].key].value)
  /\ UNCHANGED settings

\* One statement: a key that is there is overwritten with all its columns.
Upsert(i) ==
  /\ calls[i].kind \in {"save", "create"}
  /\ settings' = [settings EXCEPT ![calls[i].key] = calls[i].row]
  /\ Answered(i, NoRow)

Delete(i) ==
  /\ calls[i].kind = "delete"
  /\ settings' = [settings EXCEPT ![calls[i].key] = NoRow]
  /\ Answered(i, NoRow)

Serve(i) ==
  /\ calls[i].stage = "sent"
  /\ List(i) \/ Reveal(i) \/ Upsert(i) \/ Delete(i)
  /\ UNCHANGED <<editor, from, unsure>>

\* The token is wrong; lists ask for none.
Refuse(i) ==
  /\ calls[i].stage = "sent" /\ calls[i].kind # "list"
  /\ calls' = [calls EXCEPT ![i].stage = "refused"]
  /\ UNCHANGED <<settings, editor, asked, from, unsure>>

\* The server starts again, and seeds the keys that are not there.
Seed ==
  /\ Pending = {}
  /\ \E k \in DOMAIN Seeds : settings[k] = NoRow
  /\ settings' = [k \in Keys |->
       IF settings[k] = NoRow /\ k \in DOMAIN Seeds THEN Seeds[k] ELSE settings[k]]
  /\ UNCHANGED <<editor, requests, from, unsure>>

\* Another operator's page.
OthersWrite(k, row) ==
  /\ settings[k] # row
  /\ settings' = [settings EXCEPT ![k] = row]
  /\ UNCHANGED <<editor, requests, from, unsure>>

-----------------------------------------------------------------------------
(* The page's requests. *)

NoAnswer == [value |-> Empty, secret |-> FALSE]

Call(kind, k, row) ==
  [kind |-> kind, key |-> k, row |-> row, stage |-> "sent", answer |-> NoRow,
   from |-> from, sure |-> ~unsure /\ Awaited = {}]

FirstList == [kind |-> "list", key |-> NoKey, row |-> NoAnswer, stage |-> "sent",
              answer |-> NoRow, from |-> NoKey, sure |-> TRUE]

\* A change has a list behind it, for which a place is kept.
Room(n) ==
  asked + n + Cardinality({i \in Pending : calls[i].kind \in Writes}) <= MaxCalls

Post(call) ==
  /\ calls' = Append(calls, call) /\ asked' = asked + 1

Load ==
  /\ Room(1)
  /\ Post(Call("list", NoKey, NoAnswer))
  /\ UNCHANGED <<settings, editor, from, unsure>>

\* The operator types it, or the page finds it in the session's storage.
EnterToken ==
  /\ ~token /\ token' = TRUE
  /\ UNCHANGED <<settings, items, editing, draft, requests, from, unsure>>

Shown(k) == k # NoKey /\ items[k] # NoRow

EditPlain(k) ==
  /\ ~items[k].secret
  /\ editing' = k /\ draft' = items[k].value /\ from' = k
  /\ UNCHANGED <<requests>>

EditSecretUnasked(k) ==
  /\ items[k].secret /\ ~token
  /\ editing' = NoKey
  /\ UNCHANGED <<draft, from, requests>>

\* The input opens at once, with the draft of before, and the secret comes later.
EditSecret(k) ==
  /\ items[k].secret /\ token /\ Room(1)
  /\ editing' = k
  /\ Post(Call("reveal", k, NoAnswer))
  /\ UNCHANGED <<draft, from>>

\* mistake: what the list shows is taken for the value, also of a secret
EditAsListed(k) ==
  /\ Shown(k) /\ editing # k
  /\ editing' = k /\ draft' = items[k].value /\ from' = k
  /\ unsure' = (Awaited # {})
  /\ UNCHANGED <<settings, items, token, requests>>

StartEdit(k) ==
  /\ Shown(k) /\ editing # k
  /\ EditPlain(k) \/ EditSecretUnasked(k) \/ EditSecret(k)
  /\ unsure' = (Awaited # {})
  /\ UNCHANGED <<settings, items, token>>

Type(text) ==
  /\ Shown(editing)
  /\ draft' = text
  /\ UNCHANGED <<settings, items, editing, token, requests, from, unsure>>

Cancel ==
  /\ Shown(editing)
  /\ editing' = NoKey /\ draft' = Empty /\ from' = NoKey
  /\ unsure' = (Awaited # {})
  /\ UNCHANGED <<settings, items, token, requests>>

Save ==
  /\ Shown(editing) /\ token /\ Room(2)
  /\ Post(Call("save", editing, [value |-> draft, secret |-> items[editing].secret]))
  /\ UNCHANGED <<settings, editor, from, unsure>>

AskDelete(k) ==
  /\ Shown(k) /\ token /\ Room(2)
  /\ Post(Call("delete", k, NoAnswer))
  /\ UNCHANGED <<settings, editor, from, unsure>>

\* The form for a new row does not ask whether its key is there.
Create(k, row) ==
  /\ token /\ Room(2)
  /\ Post(Call("create", k, row))
  /\ UNCHANGED <<settings, editor, from, unsure>>

-----------------------------------------------------------------------------
(* Answers. *)

Rest(i) == RemoveAt(calls, i)
Back(i) == calls' = Rest(i) /\ UNCHANGED asked

Listed(i) ==
  /\ calls[i].kind = "list"
  /\ Back(i) /\ items' = calls[i].answer
  /\ UNCHANGED <<editing, draft, from>>

\* The secret goes into the input, whichever row it is open for.
Revealed(i) ==
  /\ calls[i].kind = "reveal"
  /\ Back(i)
  /\ draft' = calls[i].answer /\ from' = calls[i].key
  /\ UNCHANGED <<items, editing>>

LoadNext(i) ==
  /\ calls' = Append(Rest(i), FirstList)
  /\ asked' = asked + 1

Saved(i) ==
  /\ calls[i].kind = "save"
  /\ LoadNext(i)
  /\ editing' = NoKey /\ draft' = Empty /\ from' = NoKey
  /\ UNCHANGED items

Changed(i) ==
  /\ calls[i].kind \in {"create", "delete"}
  /\ LoadNext(i)
  /\ UNCHANGED <<items, editing, draft, from>>

Arrive(i) ==
  /\ calls[i].stage = "answered"
  /\ Listed(i) \/ Revealed(i) \/ Saved(i) \/ Changed(i)
  /\ UNCHANGED <<settings, token, unsure>>

\* An alert; a refused secret closes the input, whichever row it is open for.
Refused(i) ==
  /\ calls[i].stage = "refused"
  /\ Back(i)
  /\ editing' = IF calls[i].kind = "reveal" THEN NoKey ELSE editing
  /\ UNCHANGED <<settings, items, draft, token, from, unsure>>

\* fetch() rejects, before or after the request was served, and nobody catches it.
Lost(i) ==
  /\ Back(i)
  /\ unsure' = (unsure \/ calls[i].kind = "reveal")
  /\ UNCHANGED <<settings, editor, from>>

-----------------------------------------------------------------------------
SettingsInit ==
  /\ settings = [k \in Keys |-> IF k \in DOMAIN Seeds THEN Seeds[k] ELSE NoRow]
  /\ items = [k \in Keys |-> NoRow]
  /\ editing = NoKey /\ draft = Empty /\ from = NoKey
  /\ token = FALSE
  /\ calls = <<FirstList>> /\ asked = 1
  /\ unsure = FALSE

SettingsNext ==
  \/ \E i \in DOMAIN calls : Serve(i) \/ Refuse(i) \/ Arrive(i) \/ Refused(i) \/ Lost(i)
  \/ Load \/ EnterToken \/ Cancel \/ Save \/ Seed
  \/ \E k \in Keys : StartEdit(k) \/ AskDelete(k)
  \/ \E k \in Keys, row \in NewRows : Create(k, row)
  \/ \E k \in Keys, row \in OthersRows : OthersWrite(k, row)
  \/ \E text \in Typed : Type(text)

-----------------------------------------------------------------------------
(* Properties. *)

\* The only ways to save one row's text, or its mask, under another key are to open
\* an input while a secret is awaited, to save before it has come, or to go on in an
\* input whose secret has been lost.
SavesItsOwnDraft ==
  \A i \in DOMAIN calls :
    calls[i].kind = "save" /\ calls[i].sure =>
      calls[i].from = calls[i].key /\ calls[i].row.value # Dots
=============================================================================
