------------------------------- MODULE Worker -------------------------------
(***************************************************************************)
(* The SQS worker pool: application/worker/main.py, consume_one_message    *)
(* with everything it calls, over the job tables (JobStore), the queue     *)
(* (JobQueue) and the artifact store.  A step is one transaction, one call *)
(* to the queue, or one call to the artifact store; between two steps of a *)
(* worker the other workers, its own heartbeat thread, the lease clock,    *)
(* the visibility clock and a crash may come in.                           *)
(*                                                                         *)
(* Where a call may raise, both outcomes are modelled: the exception may   *)
(* come before or after the call took effect.  An exception that           *)
(* consume_one_message does not catch ends the process, which is Crash.    *)
(* SIGTERM is only looked at between two messages (run_idle_worker), where *)
(* stopping leaves the same state as a crash.                              *)
(***************************************************************************)
EXTENDS JobStore, JobQueue

CONSTANTS
    Worker,       \* the worker processes (ECS tasks)
    JobOf,        \* the job_id in the body of each message
    NoMessage,    \* the message of a worker that has none
    MaxCrashes    \* bound on the number of crashes

ASSUME WorkerAssumption ==
    /\ JobOf \in [Message -> Job]
    /\ NoMessage \notin Message
    /\ MaxCrashes \in Nat

VARIABLES
    pc,           \* where each worker is in consume_one_message
    task,         \* its local variables
    heartbeats,   \* the live VisibilityHeartbeat threads
    artifacts,    \* the stored reports; the object key is the index
    crashes       \* how many crashes there have been

workerVars == <<pc, task, heartbeats, artifacts, crashes>>
vars == <<storeVars, msgs, workerVars>>

PC == {"down", "idle", "received", "refused", "discarding",
       "reporting", "reported", "leaving", "deleting", "failing"}

Outcome == {"none", "completed", "lost", "error"}

Task == [msg: Message \cup {NoMessage}, rcpt: Nat, token: Nat, attempt: Nat,
         key: Nat, outcome: Outcome]

\* A message was received with receipt r; nothing is claimed yet.
NewTask(m, r) == [msg |-> m, rcpt |-> r, token |-> NoToken, attempt |-> 0,
                  key |-> NoKey, outcome |-> "none"]

NoTask == NewTask(NoMessage, 0)

\* A thread waits on its stop event or is inside an iteration of its loop; a
\* thread that outlives the join of __exit__ has `stop' set.
Heartbeat == [worker: Worker, job: Job, token: Nat,
              at: {"waiting", "renewing"}, stop: BOOLEAN]

\* A stored report names its job and, in its rows, the attempt that wrote it.
Artifact == [job: Job, attempt: Nat]

TypeOK ==
    /\ StoreTypeOK
    /\ QueueTypeOK
    /\ pc \in [Worker -> PC]
    /\ task \in [Worker -> Task]
    /\ heartbeats \subseteq Heartbeat
    /\ artifacts \in Seq(Artifact)
    /\ crashes \in 0..MaxCrashes

Init ==
    /\ StoreInit
    /\ QueueInit
    /\ pc = [w \in Worker |-> "idle"]
    /\ task = [w \in Worker |-> NoTask]
    /\ heartbeats = {}
    /\ artifacts = <<>>
    /\ crashes = 0

-----------------------------------------------------------------------------
(* The environment: the API and the outbox give the workers jobs and       *)
(* messages, and the clocks run.  Module Outbox has the dispatcher; all    *)
(* the workers may rely on is that a message names an existing job.        *)

Submit(j) == CreateJob(j) /\ UNCHANGED <<msgs, workerVars>>

Dispatch(m) ==
    /\ jobs[JobOf[m]].status # "absent"
    /\ SendMessage(m)
    /\ UNCHANGED <<storeVars, workerVars>>

LeaseClock(j) == LeaseExpires(j) /\ UNCHANGED <<msgs, workerVars>>

VisibilityClock(m) ==
    /\ VisibilityTimeoutEnds(m)
    /\ UNCHANGED <<storeVars, workerVars>>

Redrive(m) == MoveToDeadLetter(m) /\ UNCHANGED <<storeVars, workerVars>>

-----------------------------------------------------------------------------

JobOfTask(w) == JobOf[task[w].msg]

Goto(w, l) == pc' = [pc EXCEPT ![w] = l]

\* Back to the loop of run_idle_worker: the locals are gone.
BackToIdle(w) == Goto(w, "idle") /\ task' = [task EXCEPT ![w] = NoTask]

-----------------------------------------------------------------------------
(* Faulty variants of the code below; see JobStore.                        *)

\* A job that is still processing counts as a duplicate.
FindAnyDuplicate(w) ==
    /\ pc[w] = "refused"
    /\ jobs[JobOfTask(w)].status \in {"completed", "processing"}
    /\ Goto(w, "discarding")
    /\ UNCHANGED <<storeVars, msgs, task, heartbeats, artifacts, crashes>>

\* The report is committed before it is stored.
PutReportDeferred(w) ==
    /\ pc[w] = "reporting"
    /\ Goto(w, "reported")
    /\ task' = [task EXCEPT ![w].key = Len(artifacts) + 1]
    /\ UNCHANGED <<storeVars, msgs, artifacts, heartbeats, crashes>>

\* The exception is swallowed without fail_job.
FailSkipped(w) ==
    /\ pc[w] = "failing"
    /\ BackToIdle(w)
    /\ UNCHANGED <<storeVars, msgs, heartbeats, artifacts, crashes>>

\* A failed attempt is repeated at once, from the same delivery.
FailAndRetry(w) ==
    /\ pc[w] = "failing"
    /\ FailJob(JobOfTask(w), task[w].token)
    /\ Goto(w, "received")
    /\ task' = [task EXCEPT ![w] = NewTask(@.msg, @.rcpt)]
    /\ UNCHANGED <<msgs, heartbeats, artifacts, crashes>>

-----------------------------------------------------------------------------
(* consume_one_message.                                                    *)

\* receive_job returned the message, whose receive count is its receipt.
Receive(w, m) ==
    /\ pc[w] = "idle"
    /\ ReceiveMessage(m)
    /\ Goto(w, "received")
    /\ task' = [task EXCEPT ![w] = NewTask(m, msgs[m].receives + 1)]
    /\ UNCHANGED <<storeVars, heartbeats, artifacts, crashes>>

\* receive_job raised after the queue handed the message out: it is in flight
\* and no worker has it.
ReceiveRaises(w, m) ==
    /\ pc[w] = "idle"
    /\ ReceiveMessage(m)
    /\ UNCHANGED <<storeVars, workerVars>>

NewHeartbeat(w) == [worker |-> w, job |-> JobOfTask(w), token |-> FreshToken,
                    at |-> "waiting", stop |-> FALSE]

\* claim_job got the row: the heartbeat thread starts (__enter__).
Claim(w) ==
    /\ pc[w] = "received"
    /\ MarkJobProcessing(JobOfTask(w))
    /\ Goto(w, "reporting")
    /\ task' = [task EXCEPT ![w].token = FreshToken,
                            ![w].attempt = jobs[JobOfTask(w)].attempts + 1]
    /\ heartbeats' = heartbeats \cup {NewHeartbeat(w)}
    /\ UNCHANGED <<msgs, artifacts, crashes>>

\* claim_job got no row, and reads the job in a transaction of its own.
ClaimRefused(w) ==
    /\ pc[w] = "received"
    /\ ~Claimable(JobOfTask(w))
    /\ Goto(w, "refused")
    /\ UNCHANGED <<storeVars, msgs, task, heartbeats, artifacts, crashes>>

\* DUPLICATE_COMPLETED: the message will be deleted.
FindCompleted(w) ==
    /\ pc[w] = "refused"
    /\ jobs[JobOfTask(w)].status = "completed"
    /\ Goto(w, "discarding")
    /\ UNCHANGED <<storeVars, msgs, task, heartbeats, artifacts, crashes>>

\* IN_PROGRESS_NOT_OWNED: the message is left to its visibility timeout.
FindInProgress(w) ==
    /\ pc[w] = "refused"
    /\ jobs[JobOfTask(w)].status # "completed"
    /\ BackToIdle(w)
    /\ UNCHANGED <<storeVars, msgs, heartbeats, artifacts, crashes>>

DiscardDuplicate(w) ==
    /\ pc[w] = "discarding"
    /\ DeleteMessage(task[w].msg, task[w].rcpt)
    /\ BackToIdle(w)
    /\ UNCHANGED <<storeVars, heartbeats, artifacts, crashes>>

\* put_csv_report stores the attempt's rows under a new key.
StoreArtifact(w) ==
    artifacts' = Append(artifacts, [job |-> JobOfTask(w), attempt |-> task[w].attempt])

PutReport(w) ==
    /\ pc[w] = "reporting"
    /\ StoreArtifact(w)
    /\ Goto(w, "reported")
    /\ task' = [task EXCEPT ![w].key = Len(artifacts) + 1]
    /\ UNCHANGED <<storeVars, msgs, heartbeats, crashes>>

\* The with-block ends, by falling through or with an exception.
EndWith(w, result) ==
    /\ Goto(w, "leaving")
    /\ task' = [task EXCEPT ![w].outcome = result]

PutReportRaises(w) ==
    /\ pc[w] = "reporting"
    /\ StoreArtifact(w) \/ UNCHANGED artifacts
    /\ EndWith(w, "error")
    /\ UNCHANGED <<storeVars, msgs, heartbeats, crashes>>

Complete(w) ==
    /\ pc[w] = "reported"
    /\ CompleteJobWithReport(JobOfTask(w), task[w].token, task[w].key)
    /\ EndWith(w, "completed")
    /\ UNCHANGED <<msgs, heartbeats, artifacts, crashes>>

\* LostJobClaimError.
CompleteFenced(w) ==
    /\ pc[w] = "reported"
    /\ ~OwnsClaim(JobOfTask(w), task[w].token)
    /\ EndWith(w, "lost")
    /\ UNCHANGED <<storeVars, msgs, heartbeats, artifacts, crashes>>

\* The database raises: the transaction rolled back, or it committed and the
\* connection broke before the answer.
CompleteRaises(w) ==
    /\ pc[w] = "reported"
    /\ \/ CompleteJobWithReport(JobOfTask(w), task[w].token, task[w].key)
       \/ UNCHANGED storeVars
    /\ EndWith(w, "error")
    /\ UNCHANGED <<msgs, heartbeats, artifacts, crashes>>

\* __exit__: the stop event is set and the thread joined.  A thread that waits
\* ends at once; one inside its iteration may outlive the join.
StopHeartbeat(w) ==
    heartbeats' =
        {h \in heartbeats : h.worker # w}
        \cup {[h EXCEPT !.stop = TRUE] :
                h \in {g \in heartbeats : g.worker = w /\ g.at = "renewing"}}

Leave(w) ==
    /\ pc[w] = "leaving"
    /\ StopHeartbeat(w)
    /\ CASE task[w].outcome = "completed" -> Goto(w, "deleting") /\ UNCHANGED task
         [] task[w].outcome = "error"     -> Goto(w, "failing") /\ UNCHANGED task
         [] OTHER                         -> BackToIdle(w)
    /\ UNCHANGED <<storeVars, msgs, artifacts, crashes>>

Delete(w) ==
    /\ pc[w] = "deleting"
    /\ DeleteMessage(task[w].msg, task[w].rcpt)
    /\ BackToIdle(w)
    /\ UNCHANGED <<storeVars, heartbeats, artifacts, crashes>>

\* The delete is inside the try: its exception goes to fail_job too.
DeleteRaises(w) ==
    /\ pc[w] = "deleting"
    /\ DeleteMessage(task[w].msg, task[w].rcpt) \/ UNCHANGED msgs
    /\ Goto(w, "failing")
    /\ UNCHANGED <<storeVars, task, heartbeats, artifacts, crashes>>

Fail(w) ==
    /\ pc[w] = "failing"
    /\ FailJob(JobOfTask(w), task[w].token)
    /\ BackToIdle(w)
    /\ UNCHANGED <<msgs, heartbeats, artifacts, crashes>>

-----------------------------------------------------------------------------
(* VisibilityHeartbeat._run.                                               *)

\* The wait of the stop event timed out.
HeartbeatFires(h) ==
    /\ h \in heartbeats /\ h.at = "waiting"
    /\ heartbeats' = (heartbeats \ {h}) \cup {[h EXCEPT !.at = "renewing"]}
    /\ UNCHANGED <<storeVars, msgs, pc, task, artifacts, crashes>>

\* The lease is renewed.  The ChangeMessageVisibility call that follows keeps
\* an in-flight message in flight, and its exceptions are caught: neither
\* changes the state.  Then the thread waits again, or ends if it is stopped.
HeartbeatRenews(h) ==
    /\ h \in heartbeats /\ h.at = "renewing"
    /\ RenewJobProcessingLease(h.job, h.token)
    /\ heartbeats' = (heartbeats \ {h}) \cup
                     (IF h.stop THEN {} ELSE {[h EXCEPT !.at = "waiting"]})
    /\ UNCHANGED <<msgs, pc, task, artifacts, crashes>>

\* The claim is lost and the thread returns, or the renewal raises (before or
\* after it took effect), which nothing catches: the thread dies, the worker
\* goes on without a heartbeat.
HeartbeatEnds(h) ==
    /\ h \in heartbeats /\ h.at = "renewing"
    /\ RenewJobProcessingLease(h.job, h.token) \/ UNCHANGED storeVars
    /\ heartbeats' = heartbeats \ {h}
    /\ UNCHANGED <<msgs, pc, task, artifacts, crashes>>

-----------------------------------------------------------------------------
(* The process.                                                            *)

Crash(w) ==
    /\ pc[w] # "down" /\ crashes < MaxCrashes
    /\ crashes' = crashes + 1
    /\ Goto(w, "down")
    /\ task' = [task EXCEPT ![w] = NoTask]
    /\ heartbeats' = {h \in heartbeats : h.worker # w}
    /\ UNCHANGED <<storeVars, msgs, artifacts>>

Restart(w) ==
    /\ pc[w] = "down"
    /\ Goto(w, "idle")
    /\ UNCHANGED <<storeVars, msgs, task, heartbeats, artifacts, crashes>>

-----------------------------------------------------------------------------

Environment ==
    \/ \E j \in Job : Submit(j) \/ LeaseClock(j)
    \/ \E m \in Message : Dispatch(m) \/ VisibilityClock(m) \/ Redrive(m)

\* One step of consume_one_message.
Consume(w) ==
    \/ \E m \in Message : Receive(w, m) \/ ReceiveRaises(w, m)
    \/ Claim(w) \/ ClaimRefused(w)
    \/ FindCompleted(w) \/ FindInProgress(w) \/ DiscardDuplicate(w)
    \/ PutReport(w) \/ PutReportRaises(w)
    \/ Complete(w) \/ CompleteFenced(w) \/ CompleteRaises(w)
    \/ Leave(w)
    \/ Delete(w) \/ DeleteRaises(w)
    \/ Fail(w)

Beat(h) == HeartbeatFires(h) \/ HeartbeatRenews(h) \/ HeartbeatEnds(h)

Next ==
    \/ Environment
    \/ \E w \in Worker : Consume(w) \/ Crash(w) \/ Restart(w)
    \/ \E h \in heartbeats : Beat(h)

Spec == Init /\ [][Next]_vars

\* The loop of run_idle_worker keeps turning, a long poll gets a visible
\* message, ECS restarts a task that stopped, and SQS ends visibility timeouts
\* and applies its redrive policy.  Nothing is assumed of the API, the outbox,
\* the leases or the heartbeats.
Fairness ==
    /\ \A w \in Worker : WF_vars(Consume(w)) /\ WF_vars(Restart(w))
    /\ \A m \in Message : WF_vars(VisibilityClock(m)) /\ WF_vars(Redrive(m))

FairSpec == Spec /\ Fairness
-----------------------------------------------------------------------------
(* Properties.                                                             *)

\* Worker w is working on job j under the claim t.
Holds(w, j, t) == /\ task[w].msg # NoMessage /\ JobOfTask(w) = j
                  /\ task[w].token = t /\ t # NoToken

MetadataRows(j) == {row \in objectMetadata : row[1] = j}

\* A job is completed together with exactly one result, one metadata row and
\* one audit row, all of the same stored report, which is the report of the
\* job's last attempt; before that it has none of them, whatever attempts were
\* lost, failed or repeated (complete_job_with_report).
AtomicCompletion ==
    \A j \in Job :
        IF jobs[j].status = "completed"
        THEN /\ jobResults[j] \in DOMAIN artifacts
             /\ artifacts[jobResults[j]] = [job |-> j, attempt |-> jobs[j].attempts]
             /\ MetadataRows(j) = {<<j, jobResults[j]>>}
             /\ auditEvents[j] = <<"created", "completed">>
        ELSE /\ jobResults[j] = NoKey
             /\ MetadataRows(j) = {}
             /\ auditEvents[j] = IF jobs[j].status = "absent" THEN <<>> ELSE <<"created">>

\* The fence is exact: among the workers busy with a job in processing, the
\* one whose token is in the row is the one that made the last attempt, and
\* there is at most one (mark_job_processing gives every claim its own token).
FencedClaims ==
    \A j \in Job : jobs[j].status = "processing" =>
        /\ \A w \in Worker : task[w].token # NoToken /\ JobOfTask(w) = j =>
              (task[w].token = jobs[j].token <=> task[w].attempt = jobs[j].attempts)
        /\ \A v, w \in Worker : Holds(v, j, jobs[j].token) /\ Holds(w, j, jobs[j].token)
              => v = w

\* A heartbeat thread, also one that outlived its join, can only keep alive the
\* claim of a worker that is still on the job: no abandoned claim is renewed
\* for ever (VisibilityHeartbeat, fail_job before the next message).
RenewalNeedsOwner ==
    \A h \in heartbeats : OwnsClaim(h.job, h.token) =>
        Holds(h.worker, h.job, h.token)

\* A message is deleted only when its job is completed: whatever a worker or
\* its late delete does, an unfinished job keeps its message (consume_one_message).
DeletedOnlyCompleted ==
    \A m \in Message : msgs[m].state = "deleted" => jobs[JobOf[m]].status = "completed"

\* No attempt stores two reports, so a completed job has at most attempts - 1
\* orphaned objects in the bucket (put_csv_report, once per claim).
OneReportPerAttempt ==
    \A k1, k2 \in DOMAIN artifacts : artifacts[k1] = artifacts[k2] => k1 = k2

\* A completed job never changes again: no late completion, failure, claim or
\* renewal of another attempt touches its row, result, metadata or audit trail.
CompletedIsFinal ==
    [][\A j \in Job : jobs[j].status = "completed" =>
          /\ jobs'[j] = jobs[j]
          /\ jobResults'[j] = jobResults[j]
          /\ MetadataRows(j)' = MetadataRows(j)
          /\ auditEvents'[j] = auditEvents[j]]_vars

\* A claim whose lease has not expired ends only by a step of the worker that
\* holds it: neither a late attempt nor a second delivery takes it away.
LiveClaimEndsByOwner ==
    [][\A j \in Job :
          /\ jobs[j].status = "processing" /\ ~jobs[j].expired
          /\ jobs'[j].token # jobs[j].token
          => \E w \in Worker : /\ Holds(w, j, jobs[j].token)
                               /\ pc[w] \in {"reported", "failing"}
                               /\ pc'[w] # pc[w]]_vars

\* A worker that polls again has let go of its claim: on every path out of
\* consume_one_message the job is completed, failed or someone else's.
NoClaimLeak ==
    [][\A w \in Worker : pc[w] # "idle" /\ pc'[w] = "idle" /\ task[w].token # NoToken =>
          jobs'[JobOfTask(w)].token # task[w].token]_vars

\* Every message that was sent is dealt with: it is deleted, its job completed,
\* or it is in the dead-letter queue.  No message circulates for ever, whatever
\* fails, is refused or crashes (a finite number of times).
SentSettles ==
    \A m \in Message :
        msgs[m].state = "visible" ~>
            \/ msgs[m].state = "dead"
            \/ msgs[m].state = "deleted" /\ jobs[JobOf[m]].status = "completed"

\* The worker pool implements the lifecycle a client relies on: the row's
\* status and attempts are the client's view, and the report it is shown is the
\* one the result row's key leads to.
Lifecycle == INSTANCE JobLifecycle WITH
    view <- [j \in Job |->
                [status |-> jobs[j].status, attempts |-> jobs[j].attempts,
                 report |-> IF jobResults[j] = NoKey THEN 0
                            ELSE artifacts[jobResults[j]].attempt]],
    stored <- {<<artifacts[k].job, artifacts[k].attempt>> : k \in DOMAIN artifacts}

ImplementsLifecycle == Lifecycle!Spec
=============================================================================
