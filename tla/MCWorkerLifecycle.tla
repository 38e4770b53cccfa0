------------------------- MODULE MCWorkerLifecycle -------------------------
(* Small instances of WorkerLifecycle for TLC.                             *)
EXTENDS WorkerLifecycle

CONSTANTS c1, c2

\* Datasources of all kinds in all orders, the second one hidden or not.
AllConfigurations ==
  [kind : [Datasources -> Kinds], hidden : {{}, {2}}, validPort : BOOLEAN]
=============================================================================
