----------------------------- MODULE VaultPage -----------------------------
(***************************************************************************)
(* Deposits and withdrawals on the wallet page.  They go through the       *)
(* wallet of the browser, which is on one chain at a time: a transfer      *)
(* first asks the wallet for its chain and then to send, and nothing in    *)
(* the second request names the chain.                                     *)
(***************************************************************************)
EXTENDS Naturals

CONSTANTS
  ChainOf,    \* vault |-> its chain
  Default,    \* the vault selected when the page opens
  Known,      \* chains the wallet knows from the beginning
  Transfers,  \* bound: deposits and withdrawals
  MaxMoves,   \* bound: times the user changes the chain in the wallet or by the button
  NoChain

ASSUME VaultPageAssumption ==
  /\ Default \in DOMAIN ChainOf /\ Known # {} /\ MaxMoves \in Nat
  /\ NoChain \notin Known \cup {ChainOf[v] : v \in DOMAIN ChainOf}

VARIABLES
  wallet,     \* the chain the wallet is on and those it knows
  account,    \* the page has asked for an account and got it
  chosen,     \* the vault selected on the page
  transfers,  \* each transfer: its step, its vault, the chain it went out on
  disturbed,  \* history: transfers during which the chain was asked for by another
              \* hand, or was added to the wallet
  moves

vaultPageVars == <<wallet, account, chosen, transfers, disturbed, moves>>

Vaults == DOMAIN ChainOf
Chains == Known \cup {ChainOf[v] : v \in Vaults}
Steps == {"ready", "switching", "adding", "sending", "sent", "failed"}

VaultPageTypeOK ==
  /\ wallet \in [on : Chains, knows : SUBSET Chains] /\ wallet.on \in wallet.knows
  /\ account \in BOOLEAN /\ chosen \in Vaults
  /\ transfers \in
       [Transfers -> [step : Steps, vault : Vaults, sentOn : Chains \cup {NoChain}]]
  /\ disturbed \subseteq Transfers
  /\ moves \in 0..MaxMoves

UnderWay == {i \in Transfers : transfers[i].step \in {"switching", "adding", "sending"}}

-----------------------------------------------------------------------------
ConnectWallet ==
  /\ ~account /\ account' = TRUE
  /\ UNCHANGED <<wallet, chosen, transfers, disturbed, moves>>

SelectVault(v) ==
  /\ chosen # v /\ chosen' = v
  /\ UNCHANGED <<wallet, account, transfers, disturbed, moves>>

\* mistake: the wallet is taken to be on the right chain
BeginAtOnce(i) ==
  /\ transfers[i].step = "ready" /\ account
  /\ transfers' = [transfers EXCEPT ![i].step = "sending", ![i].vault = chosen]
  /\ disturbed' = IF UnderWay = {} THEN disturbed ELSE disturbed \cup UnderWay \cup {i}
  /\ UNCHANGED <<wallet, account, chosen, moves>>

\* A click: the vault is that of this moment, whatever is selected later.
Begin(i) ==
  /\ transfers[i].step = "ready" /\ account
  /\ transfers' = [transfers EXCEPT ![i].step = "switching", ![i].vault = chosen]
  /\ disturbed' = IF UnderWay = {} THEN disturbed ELSE disturbed \cup UnderWay \cup {i}
  /\ UNCHANGED <<wallet, account, chosen, moves>>

Switched(i) ==
  LET chain == ChainOf[transfers[i].vault] IN
    /\ transfers[i].step = "switching" /\ chain \in wallet.knows
    /\ wallet' = [wallet EXCEPT !.on = chain]
    /\ transfers' = [transfers EXCEPT ![i].step = "sending"]
    /\ UNCHANGED <<account, chosen, disturbed, moves>>

\* The wallet does not know the chain, or the user declines: it is asked to add it.
SwitchDeclined(i) ==
  /\ transfers[i].step = "switching"
  /\ transfers' = [transfers EXCEPT ![i].step = "adding"]
  /\ UNCHANGED <<wallet, account, chosen, disturbed, moves>>

\* A wallet that has added a chain may stay where it is.
Added(i) ==
  LET chain == ChainOf[transfers[i].vault] IN
    /\ transfers[i].step = "adding"
    /\ \E on \in {wallet.on, chain} :
         wallet' = [on |-> on, knows |-> wallet.knows \cup {chain}]
    /\ transfers' = [transfers EXCEPT ![i].step = "sending"]
    /\ disturbed' = disturbed \cup {i}
    /\ UNCHANGED <<account, chosen, moves>>

\* On the chain the wallet is on now.
SendTransfer(i) ==
  /\ transfers[i].step = "sending"
  /\ transfers' = [transfers EXCEPT ![i].step = "sent", ![i].sentOn = wallet.on]
  /\ UNCHANGED <<wallet, account, chosen, disturbed, moves>>

\* The chain is not added, the amount is no number, or the user declines to sign.
TransferFails(i) ==
  /\ transfers[i].step \in {"adding", "sending"}
  /\ transfers' = [transfers EXCEPT ![i].step = "failed"]
  /\ UNCHANGED <<wallet, account, chosen, disturbed, moves>>

\* The user changes the chain in the wallet, or by the page's button.
MoveByHand(chain) ==
  /\ moves < MaxMoves /\ chain \in wallet.knows /\ chain # wallet.on
  /\ moves' = moves + 1
  /\ wallet' = [wallet EXCEPT !.on = chain]
  /\ disturbed' = disturbed \cup UnderWay
  /\ UNCHANGED <<account, chosen, transfers>>

-----------------------------------------------------------------------------
VaultPageInit ==
  /\ wallet \in [on : Known, knows : {Known}]
  /\ account = FALSE /\ chosen = Default
  /\ transfers = [i \in Transfers |-> [step |-> "ready", vault |-> Default, sentOn |-> NoChain]]
  /\ disturbed = {} /\ moves = 0

VaultPageNext ==
  \/ ConnectWallet
  \/ \E v \in Vaults : SelectVault(v)
  \/ \E i \in Transfers :
       Begin(i) \/ Switched(i) \/ SwitchDeclined(i) \/ Added(i) \/ SendTransfer(i) \/ TransferFails(i)
  \/ \E chain \in Chains : MoveByHand(chain)

-----------------------------------------------------------------------------
(* Properties. *)

\* The only ways money leaves on a chain that is not the vault's are another transfer
\* or a change by hand while it is under way, and a chain that had to be added.
SentOnItsChain ==
  \A i \in Transfers \ disturbed :
    transfers[i].step = "sent" => transfers[i].sentOn = ChainOf[transfers[i].vault]
=============================================================================
