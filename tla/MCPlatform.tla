----------------------------- MODULE MCPlatform -----------------------------
(* Instances of Platform for TLC.                                          *)
EXTENDS Platform, TLC

CONSTANTS j1, p1, p2

TwoProcesses == {p1, p2}

Symmetry == Permutations(TwoProcesses)
=============================================================================
