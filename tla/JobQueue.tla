------------------------------ MODULE JobQueue ------------------------------
(***************************************************************************)
(* The SQS queue and its dead-letter queue (infrastructure/modules/sqs),   *)
(* as application/shared/adapters.py uses them.  The service is external:  *)
(* a message is visible, or in flight after a receive until its visibility *)
(* timeout ends, which happens at any moment here (module LeaseTiming has  *)
(* the seconds).  A message that has been received MaxReceive times        *)
(* (maxReceiveCount of the redrive policy) is moved to the dead-letter     *)
(* queue instead of being received again.                                  *)
(***************************************************************************)
EXTENDS Naturals

CONSTANTS
    Message,      \* the messages that may ever be sent
    MaxReceive    \* maxReceiveCount

ASSUME MaxReceiveAssumption == MaxReceive \in Nat \ {0}

VARIABLE msgs     \* every message: its state and ApproximateReceiveCount

MessageState == {"unsent", "visible", "inflight", "deleted", "dead"}

QueueTypeOK ==
    msgs \in [Message -> [state: MessageState, receives: 0..MaxReceive]]

QueueInit == msgs = [m \in Message |-> [state |-> "unsent", receives |-> 0]]

SendMessage(m) ==
    /\ msgs[m].state = "unsent"
    /\ msgs' = [msgs EXCEPT ![m].state = "visible"]

\* Faulty variant: no redrive policy bounds the receives.
ReceiveUnbounded(m) ==
    /\ msgs[m].state = "visible"
    /\ msgs' = [msgs EXCEPT ![m].state = "inflight", ![m].receives = @ + 1]

ReceiveMessage(m) ==
    /\ msgs[m].state = "visible" /\ msgs[m].receives < MaxReceive
    /\ msgs' = [msgs EXCEPT ![m].state = "inflight", ![m].receives = @ + 1]

VisibilityTimeoutEnds(m) ==
    /\ msgs[m].state = "inflight"
    /\ msgs' = [msgs EXCEPT ![m].state = "visible"]

MoveToDeadLetter(m) ==
    /\ msgs[m].state = "visible" /\ msgs[m].receives = MaxReceive
    /\ msgs' = [msgs EXCEPT ![m].state = "dead"]

\* The receipt handle of the r-th receive of m.  A handle older than the last
\* receive may or may not delete the message; the call succeeds either way.
DeleteMessage(m, r) ==
    \/ /\ msgs[m].state \in {"visible", "inflight"}
       /\ msgs' = [msgs EXCEPT ![m].state = "deleted"]
    \/ /\ msgs[m].state \in {"deleted", "dead"} \/ r # msgs[m].receives
       /\ UNCHANGED msgs
=============================================================================
