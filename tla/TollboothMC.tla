----------------------------- MODULE TollboothMC -----------------------------
(***************************************************************************)
(* Small instances of Tollbooth for TLC.                                   *)
(***************************************************************************)
EXTENDS Tollbooth, TLC

\* One authorization with its nonce in lower and in upper case, and a header of
\* another payer that has the first of these texts and does not verify.
CONSTANTS Lower, Upper, Bad

MCNonceOf == (Lower :> "0xab") @@ (Upper :> "0xAB") @@ (Bad :> "0xab")
MCAuthOf == (Lower :> 1) @@ (Upper :> 1) @@ (Bad :> 2)

\* The same header sent twice.
OneNonce == Lower :> "0xab"
OneAuth == Lower :> 1

\* The header and its respelling.
TwoNonces == (Lower :> "0xab") @@ (Upper :> "0xAB")
TwoAuths == (Lower :> 1) @@ (Upper :> 1)

Symmetry == Permutations(Requests)
=============================================================================
