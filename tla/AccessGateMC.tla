---------------------------- MODULE AccessGateMC ----------------------------
(***************************************************************************)
(* Small instances of AccessGate for TLC.                                  *)
(***************************************************************************)
EXTENDS AccessGate, TLC

Symmetry == Permutations(Clients)
=============================================================================
