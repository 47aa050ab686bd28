----------------------------- MODULE MCRequests -----------------------------
(* Instances of Requests for TLC.                                          *)
EXTENDS Requests, TLC

CONSTANTS r1, r2, r3, e1, c1

ThreeRequests == {r1, r2, r3}

\* Requests are alike until they arrive: without loss of generality they
\* arrive in this order.  (No fairness makes a client send a request, so the
\* constraint cuts off no step that has to happen.)
ArrivedInOrder ==
    /\ pc[r2] # "new" => pc[r1] # "new"
    /\ pc[r3] # "new" => pc[r2] # "new"

\* A bound: one request carries a client's correlation id, one that creates a
\* job (only create_job reads the id), and it arrives first.
OneHeader == \A r \in Request : req[r].header # None => r = r1 /\ req[r].kind = "job"

Bound == ArrivedInOrder /\ OneHeader
=============================================================================
