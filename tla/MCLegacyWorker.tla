--------------------------- MODULE MCLegacyWorker ---------------------------
(* Instances of LegacyWorker for TLC.                                      *)
EXTENDS LegacyWorker

CONSTANTS m1, m2, w1, w2
=============================================================================
