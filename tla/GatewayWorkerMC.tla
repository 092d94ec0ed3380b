--------------------------- MODULE GatewayWorkerMC ---------------------------
(***************************************************************************)
(* Small instances of GatewayWorker for TLC.                               *)
(***************************************************************************)
EXTENDS GatewayWorker, TLC

\* Every row an authorization of its own ...
OneRowEach == [j \in Jobs |-> j]

\* ... or one authorization in two rows.
TwoRowsOfOne == [j \in Jobs |-> IF j = 3 THEN 2 ELSE j]

\* Workers are interchangeable; jobs and transactions are ordered.
Symmetry == Permutations(Workers)
=============================================================================
