------------------------------ MODULE MCOutbox ------------------------------
(* Instances of Outbox for TLC.                                            *)
EXTENDS Outbox, TLC

CONSTANTS e1, e2, e3, d1, d2

ThreeEvents == {e1, e2, e3}
TwoDispatchers == {d1, d2}

\* Events are alike until they are created: without loss of generality they
\* are created in this order.  (No fairness makes a client create an event, so
\* the constraint cuts off no step that has to happen.)
CreatedInOrder == order = SubSeq(<<e1, e2, e3>>, 1, Len(order))
=============================================================================
