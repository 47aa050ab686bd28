--------------------------- MODULE MCLeaseTiming ---------------------------
(* Instances of LeaseTiming for TLC.                                       *)
EXTENDS LeaseTiming, TLC

CONSTANTS w1, w2

Symmetry == Permutations({w1, w2})

\* Every configuration with a heartbeat of at most 4 units and the two timeouts of
\* at most 10.
SmallConfig == [heartbeat: 1..4, visibility: 1..10, lease: 1..10]

\* The deployed values in units of 30 seconds: compute.tf and queue.tf of
\* infrastructure/environments/development.
DeployedConfig == {[heartbeat |-> 1, visibility |-> 2, lease |-> 4]}
=============================================================================
