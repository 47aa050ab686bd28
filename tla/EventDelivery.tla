---------------------------- MODULE EventDelivery ----------------------------
(***************************************************************************)
(* What the outbox promises to the transaction that writes an event        *)
(* (Repository.create_job): the event is owed to the queue until it is     *)
(* kept, it is kept only after it was put on the queue, for good, and it   *)
(* is put there once, and once more for each fault at most.  There are no  *)
(* dispatchers, batches, leases or tokens here: module Outbox implements   *)
(* this one.                                                               *)
(***************************************************************************)
EXTENDS Naturals

CONSTANT Event

VARIABLES
    promise,  \* of each event: none yet, owed, or kept
    sends,    \* how often the event was put on the queue
    mishaps   \* how many faults there have been

deliveryVars == <<promise, sends, mishaps>>

Init ==
    /\ promise = [e \in Event |-> "none"]
    /\ sends = [e \in Event |-> 0]
    /\ mishaps = 0

Accept(e) ==
    /\ promise[e] = "none"
    /\ promise' = [promise EXCEPT ![e] = "owed"]
    /\ UNCHANGED <<sends, mishaps>>

\* The call that does its work may be the one that raises.
PerhapsMishap == mishaps' \in {mishaps, mishaps + 1}

\* A late sender may come after the promise was kept.
Send(e) ==
    /\ promise[e] # "none"
    /\ sends[e] < 1 + mishaps
    /\ sends' = [sends EXCEPT ![e] = @ + 1]
    /\ PerhapsMishap
    /\ UNCHANGED promise

Keep(e) ==
    /\ promise[e] = "owed" /\ sends[e] > 0
    /\ promise' = [promise EXCEPT ![e] = "kept"]
    /\ PerhapsMishap
    /\ UNCHANGED sends

Mishap == mishaps' = mishaps + 1 /\ UNCHANGED <<promise, sends>>

Next == (\E e \in Event : Accept(e) \/ Send(e) \/ Keep(e)) \/ Mishap

Spec == Init /\ [][Next]_deliveryVars
=============================================================================
