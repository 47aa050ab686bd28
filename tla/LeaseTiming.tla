---------------------------- MODULE LeaseTiming ----------------------------
(***************************************************************************)
(* The seconds that Worker and JobStore leave out: one job and its message *)
(* under the three intervals of application/shared/config.py (heartbeat,   *)
(* visibility timeout, processing lease) and the maxReceiveCount of the    *)
(* queue.                                                                  *)
(*                                                                         *)
(* Workers are punctual here: from the moment a call to the database or    *)
(* the queue takes effect to the moment the worker's next call does, at    *)
(* most Latency passes, a wait between the two not counted.  (It is the    *)
(* answer of the one and the request of the other.)  Each call has a       *)
(* Latency of its own, also each of the two calls of a heartbeat, and a    *)
(* heartbeat thread runs when its wait is over.  Time (Tick) does not      *)
(* pass a moment by which a worker must have acted.  What may go wrong     *)
(* is a fault, and MaxFaults bounds their number: a crash, a failed        *)
(* job, a ChangeMessageVisibility call that raises.  Workers that stall    *)
(* for as long as they like are in module Worker.                          *)
(***************************************************************************)
EXTENDS Integers

CONSTANTS
    Worker,       \* the worker processes
    Config,       \* the intervals the program may be started with
    MaxReceive,   \* maxReceiveCount
    Latency,      \* the longest from the effect of a call to that of the next one
    MaxFaults     \* bound on the faults

Intervals == [heartbeat: Nat \ {0}, visibility: Nat \ {0}, lease: Nat \ {0}]

ASSUME TimingAssumption ==
    /\ Config \subseteq Intervals
    /\ MaxReceive \in Nat \ {0}
    /\ Latency \in Nat /\ MaxFaults \in Nat

VARIABLES
    conf,         \* the intervals this deployment was started with
    job,          \* the row: its status and the age of processing_started_at
    message,      \* the message: its state, receive count and hidden time
    worker,       \* each worker: where it is, since when, with which receipt
    faults        \* how many faults there have been

vars == <<conf, job, message, worker, faults>>

At == {"idle", "received", "working", "firing", "renewed"}

TypeOK ==
    /\ conf \in Config
    /\ job \in [status: {"pending", "processing", "completed", "failed"}, age: Nat]
    /\ message \in [state: {"queued", "deleted", "dead"}, receives: 0..MaxReceive, hidden: Nat]
    /\ worker \in [Worker -> [at: At, clock: Nat, receipt: 0..MaxReceive]]
    /\ faults \in 0..MaxFaults

Fault == faults < MaxFaults /\ faults' = faults + 1

-----------------------------------------------------------------------------
(* Faulty variants, each a mistake this code could plausibly make.  None is *)
(* used by the specification; each shows that some property would notice.  *)

\* The validator forgets the visibility timeout.
ValidLeaseOnly(heartbeat, visibility, lease) == heartbeat < lease

\* The validator compares the lease with nothing.
ValidVisibilityOnly(heartbeat, visibility, lease) == heartbeat < visibility

\* A job in processing is never claimed again.
NeverStale == FALSE

-----------------------------------------------------------------------------
(* The configuration and the clock.                                        *)

\* Settings.validate_runtime_intervals.
ValidIntervals(heartbeat, visibility, lease) ==
    heartbeat < visibility /\ heartbeat < lease

\* The intervals must hold with time to spare for the calls.  A lease is renewed
\* after a heartbeat and two calls at most: the one before the wait and the
\* renewal.  The visibility timeout is extended by a third call, after the
\* renewal.  With Latency = 0 this is the validator itself.
Init ==
    /\ conf \in {c \in Config :
                    ValidIntervals(c.heartbeat + 2 * Latency, c.visibility - Latency, c.lease)}
    /\ job = [status |-> "pending", age |-> 0]
    /\ message = [state |-> "queued", receives |-> 0, hidden |-> 0]
    /\ worker = [w \in Worker |-> [at |-> "idle", clock |-> 0, receipt |-> 0]]
    /\ faults = 0

\* The moment by which a worker must act.
Deadline(w) == IF worker[w].at = "working" THEN conf.heartbeat ELSE Latency

\* Ages are not counted beyond the lease.
Tick ==
    /\ \A w \in Worker : worker[w].at = "idle" \/ worker[w].clock < Deadline(w)
    /\ worker' = [w \in Worker |->
                    IF worker[w].at = "idle" THEN worker[w]
                    ELSE [worker[w] EXCEPT !.clock = @ + 1]]
    /\ message' = [message EXCEPT !.hidden = IF @ = 0 THEN 0 ELSE @ - 1]
    /\ job' = [job EXCEPT !.age = IF job.status = "processing" /\ @ <= conf.lease
                                  THEN @ + 1 ELSE @]
    /\ UNCHANGED <<conf, faults>>

\* processing_started_at < NOW() - lease: strictly older than the lease.
Stale == job.age > conf.lease

-----------------------------------------------------------------------------
(* The queue and the worker.                                               *)

Visible == message.state = "queued" /\ message.hidden = 0

MoveTo(w, at) == worker' = [worker EXCEPT ![w].at = at, ![w].clock = 0]

ToIdle(w) == worker' = [worker EXCEPT ![w] = [at |-> "idle", clock |-> 0, receipt |-> 0]]

Receive(w) ==
    /\ worker[w].at = "idle" /\ Visible /\ message.receives < MaxReceive
    /\ message' = [message EXCEPT !.receives = @ + 1, !.hidden = conf.visibility]
    /\ worker' = [worker EXCEPT ![w] = [at |-> "received", clock |-> 0,
                                        receipt |-> message.receives + 1]]
    /\ UNCHANGED <<conf, job, faults>>

Redrive ==
    /\ Visible /\ message.receives = MaxReceive
    /\ message' = [message EXCEPT !.state = "dead"]
    /\ UNCHANGED <<conf, job, worker, faults>>

Claimable ==
    \/ job.status \in {"pending", "failed"}
    \/ job.status = "processing" /\ Stale

Claim(w) ==
    /\ worker[w].at = "received" /\ Claimable
    /\ job' = [status |-> "processing", age |-> 0]
    /\ MoveTo(w, "working")
    /\ UNCHANGED <<conf, message, faults>>

\* claim_job finds the job in progress, or completed and then deletes the message.
Refuse(w) ==
    /\ worker[w].at = "received" /\ ~Claimable
    /\ ToIdle(w)
    /\ message' = IF job.status = "completed" THEN [message EXCEPT !.state = "deleted"]
                  ELSE message
    /\ UNCHANGED <<conf, job, faults>>

\* The wait of the heartbeat thread is over.
Fire(w) ==
    /\ worker[w].at = "working" /\ worker[w].clock = conf.heartbeat
    /\ MoveTo(w, "firing")
    /\ UNCHANGED <<conf, job, message, faults>>

\* A punctual worker still has its claim (LeaseKept), so the fence of this
\* statement, and of the two that end a job, lets it through.
RenewLease(w) ==
    /\ worker[w].at = "firing"
    /\ job' = [job EXCEPT !.age = 0]
    /\ MoveTo(w, "renewed")
    /\ UNCHANGED <<conf, message, faults>>

\* The receipt of an earlier receive, or of a message that is not in flight,
\* may be refused; the thread carries on either way.
ChangeVisibility(w) ==
    /\ worker[w].at = "renewed"
    /\ \/ /\ message.hidden > 0
          /\ message' = [message EXCEPT !.hidden = conf.visibility]
       \/ /\ message.hidden = 0 \/ worker[w].receipt # message.receives
          /\ UNCHANGED message
    /\ MoveTo(w, "working")
    /\ UNCHANGED <<conf, job, faults>>

ChangeVisibilityRaises(w) ==
    /\ worker[w].at = "renewed" /\ Fault
    /\ MoveTo(w, "working")
    /\ UNCHANGED <<conf, job, message>>

Busy(w) == worker[w].at \in {"working", "firing", "renewed"}

\* The report is stored, the job completed and the message deleted.
Complete(w) ==
    /\ Busy(w)
    /\ job' = [status |-> "completed", age |-> 0]
    /\ message' = [message EXCEPT !.state = "deleted"]
    /\ ToIdle(w)
    /\ UNCHANGED <<conf, faults>>

Fail(w) ==
    /\ Busy(w) /\ Fault
    /\ job' = [status |-> "failed", age |-> 0]
    /\ ToIdle(w)
    /\ UNCHANGED <<conf, message>>

\* Another worker takes the place of the one that crashed at once.
Crash(w) ==
    /\ worker[w].at # "idle" /\ Fault
    /\ ToIdle(w)
    /\ UNCHANGED <<conf, job, message>>

Next ==
    \/ Tick \/ Redrive
    \/ \E w \in Worker :
          \/ Receive(w) \/ Claim(w) \/ Refuse(w)
          \/ Fire(w) \/ RenewLease(w) \/ ChangeVisibility(w) \/ ChangeVisibilityRaises(w)
          \/ Complete(w) \/ Fail(w) \/ Crash(w)

Spec == Init /\ [][Next]_vars

-----------------------------------------------------------------------------
(* Properties.                                                             *)

\* A punctual worker keeps its claim for as long as the job takes, even when a
\* ChangeMessageVisibility call fails: no other worker is at the same job, and
\* its lease is never stale (validate_runtime_intervals, VisibilityHeartbeat).
LeaseKept ==
    \A w \in Worker : Busy(w) =>
        /\ job.status = "processing" /\ ~Stale
        /\ \A v \in Worker : Busy(v) => v = w

\* While every ChangeMessageVisibility call succeeds, the message of a worker
\* at work stays in flight and has not been received again.
VisibilityKept ==
    \A w \in Worker : Busy(w) /\ faults = 0 =>
        message.hidden > 0 /\ message.receives = worker[w].receipt

\* The message is gone, nobody works on the job, and its row says processing.
Stranded ==
    /\ job.status = "processing" /\ message.state = "dead"
    /\ \A w \in Worker : ~Busy(w)

\* The last receive of a message whose worker crashed in its first delivery
\* comes after the end of the lease, which may have been renewed as long as one
\* heartbeat and two calls (the claim and the renewal) after the visibility
\* timeout started.
LastReceiveAfterLease ==
    conf.lease + conf.heartbeat + 2 * Latency < (MaxReceive - 1) * conf.visibility

\* One crash during a first delivery does not strand the job, when the
\* intervals leave the last receive after the end of the lease.
CrashRecovered == LastReceiveAfterLease /\ faults <= 1 => ~Stranded

\* "If a worker crashes while a job is `processing`, another worker can reclaim
\* it after JOB_PROCESSING_LEASE_SECONDS": at least when nothing else goes
\* wrong, its message is still there to bring another worker to the job.
CrashedJobIsReclaimed == faults <= 1 => ~Stranded
=============================================================================
