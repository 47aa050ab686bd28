------------------------------ MODULE MCWorker ------------------------------
(* Instances of Worker for TLC.                                            *)
EXTENDS Worker, TLC

CONSTANTS j1, w1, w2, m1, m2

TwoWorkers == {w1, w2}
WorkerSymmetry == Permutations(TwoWorkers)

\* One job, whose one message is delivered again and again.
OneJob == {j1}
OneMessage == {m1}
OneMessageOf == [m \in OneMessage |-> j1]
=============================================================================
