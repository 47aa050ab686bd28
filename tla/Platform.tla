------------------------------ MODULE Platform ------------------------------
(***************************************************************************)
(* The platform from end to end: the API's transaction, the outbox         *)
(* (module Outbox) and the worker pool (module Worker) over one database   *)
(* and one queue.                                                          *)
(*                                                                         *)
(* Every worker process runs the loop of run_idle_worker: it dispatches a  *)
(* batch of the outbox, then polls the queue once, then dispatches again.  *)
(* `turn' says which half it is in.  A message of the queue is named by    *)
(* its job and by how many sends of the job's event came before it, so the *)
(* n-th publish of an event puts <<job, n>> on the queue.  Each send after *)
(* the first is owed to a fault of the outbox (WorkIsBounded), so the      *)
(* queue needs no bound of its own.                                        *)
(***************************************************************************)
EXTENDS Naturals, Sequences, FiniteSets

CONSTANTS
    Job,          \* the jobs that clients may create, each with its event
    Process,      \* the worker processes
    Limit,        \* the size of an outbox batch
    MaxReceive,   \* maxReceiveCount of the queue
    MaxFaults,    \* bound on the faults of the outbox, crashes included
    NoMessage     \* the message of a worker that has none

ASSUME PlatformAssumption ==
    /\ Limit \in Nat \ {0} /\ MaxReceive \in Nat \ {0} /\ MaxFaults \in Nat
    /\ NoMessage \notin Job \X Nat

Message == Job \X (1..(MaxFaults + 1))
JobOf == [m \in Message |-> m[1]]

VARIABLES
    jobs, jobResults, objectMetadata, auditEvents, tokenSeq,  \* JobStore
    msgs,                                                     \* JobQueue
    pc, task, heartbeats, artifacts, crashes,                 \* Worker
    outbox, order, claimSeq, sent, at, batch, current, claim, faults,  \* Outbox
    turn          \* the half of its loop each process is in

W == INSTANCE Worker WITH Worker <- Process, MaxCrashes <- MaxFaults

D == INSTANCE Outbox WITH
        Event <- Job, Dispatcher <- Process, tokenSeq <- claimSeq, pc <- at

workerSide == <<jobs, jobResults, objectMetadata, auditEvents, tokenSeq, msgs,
                pc, task, heartbeats, artifacts, crashes>>
outboxSide == <<outbox, order, claimSeq, sent, at, batch, current, claim, faults>>
vars == <<workerSide, outboxSide, turn>>

TypeOK ==
    /\ W!TypeOK /\ D!TypeOK
    /\ turn \in [Process -> {"dispatch", "consume"}]

Init ==
    /\ W!Init /\ D!Init
    /\ turn = [p \in Process |-> "dispatch"]

Enter(p, half) == turn' = [turn EXCEPT ![p] = half]

-----------------------------------------------------------------------------
(* Faulty variants; see Outbox.                                            *)

\* The API creates the job without an outbox event.
CreateJobAlone(j) == W!Submit(j) /\ UNCHANGED <<outboxSide, turn>>

\* The loop starts over when the outbox was empty, without a poll.
SkipThePoll(p) ==
    /\ turn[p] = "dispatch" /\ at[p] = "idle"
    /\ D!Claimable \subseteq D!MayBeLocked(p)
    /\ UNCHANGED vars

-----------------------------------------------------------------------------
(* The API and the clocks.                                                 *)

\* Repository.create_job: the job, its event and its audit row in one
\* transaction.
CreateJob(j) == W!Submit(j) /\ D!CreateEvent(j) /\ UNCHANGED turn

JobClock(j) == W!LeaseClock(j) /\ UNCHANGED <<outboxSide, turn>>

EventClock(j) ==
    (D!AbandonedLease(j) \/ D!SlowLease(j)) /\ UNCHANGED <<workerSide, turn>>

QueueClock(m) ==
    (W!VisibilityClock(m) \/ W!Redrive(m)) /\ UNCHANGED <<outboxSide, turn>>

-----------------------------------------------------------------------------
(* The loop of a process.                                                  *)

\* What a step of the dispatcher puts on the queue.
Deliver ==
    IF sent' = sent THEN UNCHANGED workerSide
    ELSE \E j \in Job : sent'[j] # sent[j] /\ W!Dispatch(<<j, sent'[j]>>)

\* A step of dispatch_outbox; it returns when its batch is done.
DispatchOutbox(p) ==
    /\ turn[p] = "dispatch"
    /\ D!Dispatch(p)
    /\ Deliver
    /\ IF at'[p] = "idle" THEN Enter(p, "consume") ELSE UNCHANGED turn

\* claim_outbox_events returned no row: none is claimable, or those that are
\* are locked.
NothingToDispatch(p) ==
    /\ turn[p] = "dispatch" /\ at[p] = "idle"
    /\ D!Claimable \subseteq D!MayBeLocked(p)
    /\ Enter(p, "consume")
    /\ UNCHANGED <<workerSide, outboxSide>>

\* A step of consume_one_message; back at the poll, it has returned.
ConsumeMessage(p) ==
    /\ turn[p] = "consume"
    /\ W!Consume(p)
    /\ IF pc'[p] = "idle" THEN Enter(p, "dispatch") ELSE UNCHANGED turn
    /\ UNCHANGED outboxSide

\* receive_job returned no message, or raised before the queue gave one out.
\* A long poll may come back empty although there is a message.
EmptyPoll(p) ==
    /\ turn[p] = "consume" /\ pc[p] = "idle"
    /\ Enter(p, "dispatch")
    /\ UNCHANGED <<workerSide, outboxSide>>

\* The heartbeat thread runs beside the loop.
Heartbeat(h) == W!Beat(h) /\ UNCHANGED <<outboxSide, turn>>

\* A process takes both halves down with it, and starts over.
Crash(p) == W!Crash(p) /\ D!Crash(p) /\ Enter(p, "dispatch")

Restart(p) == W!Restart(p) /\ D!Restart(p) /\ UNCHANGED turn

Loop(p) ==
    \/ DispatchOutbox(p) \/ NothingToDispatch(p)
    \/ ConsumeMessage(p) \/ EmptyPoll(p)

Next ==
    \/ \E j \in Job : CreateJob(j) \/ JobClock(j) \/ EventClock(j)
    \/ \E m \in Message : QueueClock(m)
    \/ \E p \in Process : Loop(p) \/ Crash(p) \/ Restart(p)
    \/ \E h \in heartbeats : Heartbeat(h)

Spec == Init /\ [][Next]_vars

\* The loop turns, a stopped task is restarted, time passes and the queue
\* keeps its promises.  A poll may be empty, but a process that polls again
\* and again while there are messages gets one.
Fairness ==
    /\ \A p \in Process :
          /\ WF_vars(Loop(p)) /\ WF_vars(Restart(p))
          /\ SF_vars(\E m \in Message : ConsumeMessage(p) /\ W!Receive(p, m))
    /\ \A j \in Job : WF_vars(D!AbandonedLease(j) /\ EventClock(j))
    /\ \A m \in Message : WF_vars(QueueClock(m))

FairSpec == Spec /\ Fairness

-----------------------------------------------------------------------------
(* Properties.                                                             *)

Messages(j) == {m \in Message : m[1] = j}

\* The outbox and the queue never both lose sight of a job: while it is not
\* completed, its event is still to be published, or one of its messages is in
\* the queue or in the dead-letter queue, whatever a dispatcher and a consumer
\* of the same job do at the same time (create_job, dispatch_outbox,
\* consume_one_message).
NoJobForgotten ==
    \A j \in Job : jobs[j].status \notin {"absent", "completed"} =>
        \/ outbox[j].status \in {"pending", "publishing", "failed"}
        \/ \E m \in Messages(j) : msgs[m].state \in {"visible", "inflight", "dead"}

\* The deliveries the job's messages have had: each message and the numbers of
\* its receives.
Deliveries(j) == {d \in Messages(j) \X (1..MaxReceive) : d[2] <= msgs[d[1]].receives}

\* Work is bounded from end to end: a job has one message, and one more for each
\* fault of the outbox at most, so a platform without faults sends no duplicates
\* (claim_outbox_events); and it is never attempted more often than its messages
\* were received, hence at most MaxReceive times per message.  And the variables
\* keep their types.
WorkIsBounded ==
    /\ TypeOK
    /\ \A j \in Job : /\ sent[j] <= 1 + faults
                      /\ jobs[j].attempts <= Cardinality(Deliveries(j))

\* The outbox may send a job's message twice, and two workers then be at the
\* job at once: the completion is still all or nothing, with its report in the
\* store, and the message that was not needed is deleted only when the job is
\* completed through the other (claim_job, consume_one_message).
DuplicatesAreHarmless == W!AtomicCompletion /\ W!DeletedOnlyCompleted

\* Each half of the loop gets the scheduling that Worker and Outbox assume of
\* it, although one process does both: a busy queue does not starve the outbox,
\* nor a busy outbox the queue (run_idle_worker).
NeitherHalfStarves == W!Fairness /\ D!Fairness

\* An accepted job is completed, or a message of it ends in the dead-letter
\* queue for an operator to see, whatever faults the outbox has.
AcceptedJobSettles ==
    \A j \in Job : jobs[j].status = "pending" ~>
        \/ jobs[j].status = "completed"
        \/ \E m \in Messages(j) : msgs[m].state = "dead"
=============================================================================
