---------------------------- MODULE LegacyWorker ----------------------------
(***************************************************************************)
(* The first stage of the platform, services/platform_app: the API commits *)
(* a job and then sends its message; a worker receives a batch of messages *)
(* and processes them one by one.  There are no tokens and no leases: a    *)
(* completion and a failure change the row whatever its status.            *)
(*                                                                         *)
(* The body of a message is a job id and a job has one message, so jobs    *)
(* are identified with their messages, except the malformed ones, which    *)
(* are nobody's.  The queue is created without a redrive policy:           *)
(* MaxReceive only bounds the exploration here, and no message is moved to *)
(* a dead-letter queue.                                                    *)
(***************************************************************************)
EXTENDS JobQueue, FiniteSets

CONSTANTS
    Malformed,    \* the messages whose body is no job id, sent past the API
    Worker,       \* the worker processes
    BatchSize,    \* MaxNumberOfMessages of a receive (5 in the code)
    MaxCrashes    \* bound on the number of crashes

ASSUME LegacyAssumption ==
    BatchSize \in Nat \ {0} /\ MaxCrashes \in Nat /\ Malformed \subseteq Message

VARIABLES
    jobs,         \* the jobs table: status and attempts
    results,      \* job_results: the attempt in the result, 0 without a row
    completions,  \* how many 'completed' audit events a job has
    answer,       \* what POST /jobs has answered for a job, "none" before it does
    pc,           \* where each worker is in the loop of run
    batch,        \* the messages it has yet to process, the current one included
    current,      \* the message it is at: a set with at most one element
    bound,        \* the job_id in its locals: a set with at most one element
    task,         \* the receipts of its batch, and the attempt it is making
    crashes       \* how many crashes there have been

tableVars == <<jobs, results, completions>>
localVars == <<pc, batch, current, bound, task>>
vars == <<tableVars, msgs, answer, localVars, crashes>>

JobStatus == {"absent", "pending", "processing", "completed", "failed"}

NoTask == [rcpt |-> [m \in Message |-> 0], attempt |-> 0]

\* An attempt is paid for by a receive of the job's message.
TypeOK ==
    /\ QueueTypeOK
    /\ jobs \in [Message -> [status: JobStatus, attempts: 0..MaxReceive]]
    /\ results \in [Message -> 0..MaxReceive]
    /\ completions \in [Message -> 0..MaxReceive]
    /\ answer \in [Message -> {"none", "202", "500"}]
    /\ pc \in [Worker -> {"down", "idle", "next", "refused", "processing", "deleting", "failing"}]
    /\ batch \in [Worker -> SUBSET Message]
    /\ current \in [Worker -> SUBSET Message]
    /\ bound \in [Worker -> SUBSET (Message \ Malformed)]
    /\ task \in [Worker -> [rcpt: [Message -> 0..MaxReceive], attempt: 0..MaxReceive]]
    /\ crashes \in 0..MaxCrashes

Init ==
    /\ QueueInit
    /\ jobs = [m \in Message |-> [status |-> "absent", attempts |-> 0]]
    /\ results = [m \in Message |-> 0]
    /\ completions = [m \in Message |-> 0]
    /\ answer = [m \in Message |-> "none"]
    /\ pc = [w \in Worker |-> "idle"]
    /\ batch = [w \in Worker |-> {}]
    /\ current = [w \in Worker |-> {}]
    /\ bound = [w \in Worker |-> {}]
    /\ task = [w \in Worker |-> NoTask]
    /\ crashes = 0

Goto(w, l) == pc' = [pc EXCEPT ![w] = l]

-----------------------------------------------------------------------------
(* Faulty variants, each a mistake this code could plausibly make.  None is *)
(* used by the specification; each shows that some property would notice.  *)

\* A failed job is tried again at once, from the same message.
FailAndRetry(w) ==
    /\ pc[w] = "failing"
    /\ \E m \in current[w] : jobs' = [jobs EXCEPT ![m].status = "failed"]
    /\ Goto(w, "next")
    /\ UNCHANGED <<answer, results, completions, msgs, batch, current, bound, task, crashes>>

\* The messages of a batch are deleted together, when its first job is completed.
DeleteBatch(w) ==
    /\ pc[w] = "deleting"
    /\ msgs' = [m \in Message |-> IF m \in batch[w] THEN [msgs[m] EXCEPT !.state = "deleted"]
                                ELSE msgs[m]]
    /\ batch' = [batch EXCEPT ![w] = {}]
    /\ current' = [current EXCEPT ![w] = {}]
    /\ bound' = [bound EXCEPT ![w] = {}]
    /\ Goto(w, "idle")
    /\ task' = [task EXCEPT ![w] = NoTask]
    /\ UNCHANGED <<answer, tableVars, crashes>>

\* The exception of send_job is logged, not raised.
SendAnyway(m) ==
    /\ jobs[m].status # "absent" /\ answer[m] = "none"
    /\ SendMessage(m) \/ (msgs[m].state = "unsent" /\ UNCHANGED msgs)
    /\ answer' = [answer EXCEPT ![m] = "202"]
    /\ UNCHANGED <<tableVars, localVars, crashes>>

\* The finally without its del.
Remember(w) == UNCHANGED bound

\* job_id is assigned after the claim: the handler does not know what to fail.
ClaimedBeforeJobId(w) ==
    /\ pc[w] = "next"
    /\ \E m \in batch[w] \ Malformed :
          /\ current' = [current EXCEPT ![w] = {m}]
          /\ \/ /\ jobs[m].status \in {"pending", "failed"}
                /\ jobs' = [jobs EXCEPT ![m] = [status |-> "processing", attempts |-> @.attempts + 1]]
             \/ UNCHANGED jobs
    /\ Goto(w, "failing")
    /\ UNCHANGED <<answer, results, completions, msgs, batch, bound, task, crashes>>

-----------------------------------------------------------------------------
(* The API.                                                                *)

\* Repository.create_job commits; the request has yet to send its message.
CreateJob(m) ==
    /\ m \notin Malformed
    /\ jobs[m].status = "absent"
    /\ jobs' = [jobs EXCEPT ![m].status = "pending"]
    /\ UNCHANGED <<results, completions, msgs, answer, localVars, crashes>>

Answer(m, code) == answer[m] = "none" /\ answer' = [answer EXCEPT ![m] = code]

SendJob(m) ==
    /\ jobs[m].status # "absent"
    /\ SendMessage(m)
    /\ Answer(m, "202")
    /\ UNCHANGED <<tableVars, localVars, crashes>>

\* send_job raises, before or after the queue took the message: nothing catches
\* it, and the job stays, with or without its message.  A process that ends
\* between the two statements leaves the same without an answer.
SendRaises(m) ==
    /\ jobs[m].status # "absent"
    /\ SendMessage(m) \/ (msgs[m].state = "unsent" /\ UNCHANGED msgs)
    /\ Answer(m, "500")
    /\ UNCHANGED <<tableVars, localVars, crashes>>

\* Somebody else's message.
SendStray(m) ==
    /\ m \in Malformed
    /\ SendMessage(m)
    /\ UNCHANGED <<answer, tableVars, localVars, crashes>>

VisibilityClock(m) ==
    /\ VisibilityTimeoutEnds(m)
    /\ UNCHANGED <<answer, tableVars, localVars, crashes>>

-----------------------------------------------------------------------------
(* The worker.                                                             *)

Receivable == {m \in Message : msgs[m].state = "visible" /\ msgs[m].receives < MaxReceive}

\* The queue hands out S, each message with a receipt of its own.
HandOut(S) ==
    msgs' = [m \in Message |->
                IF m \in S THEN [state |-> "inflight", receives |-> msgs[m].receives + 1]
                ELSE msgs[m]]

ReceiveMessages(w) ==
    /\ pc[w] = "idle"
    /\ \E S \in SUBSET Receivable \ {{}} :
          /\ Cardinality(S) <= BatchSize
          /\ HandOut(S)
          /\ batch' = [batch EXCEPT ![w] = S]
          /\ task' = [task EXCEPT ![w].rcpt = [m \in Message |->
                                      IF m \in S THEN msgs[m].receives + 1 ELSE 0]]
    /\ Goto(w, "next")
    /\ UNCHANGED <<answer, tableVars, current, bound, crashes>>

\* The WHERE clause of mark_job_processing.
Claimable(m) == jobs[m].status \in {"pending", "failed"}

MarkProcessing(m) ==
    jobs' = [jobs EXCEPT ![m] = [status |-> "processing", attempts |-> @.attempts + 1]]

\* The next message of the batch, in any order, and its job_id.
Take(w, m) ==
    /\ m \in batch[w] \ Malformed
    /\ current' = [current EXCEPT ![w] = {m}]
    /\ bound' = [bound EXCEPT ![w] = {m}]

\* UUID(...) raises: job_id is not assigned.
ParseRaises(w) ==
    /\ pc[w] = "next"
    /\ \E m \in batch[w] \cap Malformed : current' = [current EXCEPT ![w] = {m}]
    /\ Goto(w, "failing")
    /\ UNCHANGED <<answer, tableVars, msgs, batch, bound, task, crashes>>

Claim(w) ==
    /\ pc[w] = "next"
    /\ \E m \in batch[w] :
          /\ Take(w, m) /\ Claimable(m) /\ MarkProcessing(m)
          /\ task' = [task EXCEPT ![w].attempt = jobs[m].attempts + 1]
    /\ Goto(w, "processing")
    /\ UNCHANGED <<answer, results, completions, msgs, batch, crashes>>

ClaimRefused(w) ==
    /\ pc[w] = "next"
    /\ \E m \in batch[w] : Take(w, m) /\ ~Claimable(m)
    /\ Goto(w, "refused")
    /\ UNCHANGED <<answer, tableVars, msgs, batch, task, crashes>>

\* The database raises, before or after the claim committed.
ClaimRaises(w) ==
    /\ pc[w] = "next"
    /\ \E m \in batch[w] : /\ Take(w, m)
                           /\ (Claimable(m) /\ MarkProcessing(m)) \/ UNCHANGED jobs
    /\ Goto(w, "failing")
    /\ UNCHANGED <<answer, results, completions, msgs, batch, task, crashes>>

\* get_job shows a completed job: the message is a duplicate.
FindCompleted(w) ==
    /\ pc[w] = "refused"
    /\ \A m \in current[w] : jobs[m].status = "completed"
    /\ Goto(w, "deleting")
    /\ UNCHANGED <<answer, tableVars, msgs, batch, current, bound, task, crashes>>

\* RuntimeError: the job is not processable, or get_job raised.
FindNotProcessable(w) ==
    /\ pc[w] = "refused"
    /\ Goto(w, "failing")
    /\ UNCHANGED <<answer, tableVars, msgs, batch, current, bound, task, crashes>>

\* INSERT ... ON CONFLICT (job_id) DO NOTHING.
Inserted(m, attempt) == IF results[m] = 0 THEN [results EXCEPT ![m] = attempt] ELSE results

CompleteJob(m, attempt) ==
    /\ results' = Inserted(m, attempt)
    /\ jobs' = [jobs EXCEPT ![m].status = "completed"]
    /\ completions' = [completions EXCEPT ![m] = @ + 1]

Complete(w) ==
    /\ pc[w] = "processing"
    /\ \E m \in current[w] : CompleteJob(m, task[w].attempt)
    /\ Goto(w, "deleting")
    /\ UNCHANGED <<answer, msgs, batch, current, bound, task, crashes>>

CompleteRaises(w) ==
    /\ pc[w] = "processing"
    /\ \E m \in current[w] : CompleteJob(m, task[w].attempt) \/ UNCHANGED tableVars
    /\ Goto(w, "failing")
    /\ UNCHANGED <<answer, msgs, batch, current, bound, task, crashes>>

Forget(w) == bound' = [bound EXCEPT ![w] = {}]

\* On to the next message of the batch, or to the next receive; the finally
\* forgets the job_id.
NextMessage(w) ==
    LET rest == batch[w] \ current[w] IN
    /\ batch' = [batch EXCEPT ![w] = rest]
    /\ current' = [current EXCEPT ![w] = {}]
    /\ Forget(w)
    /\ Goto(w, IF rest = {} THEN "idle" ELSE "next")
    /\ task' = [task EXCEPT ![w] = IF rest = {} THEN NoTask ELSE [@ EXCEPT !.attempt = 0]]

Delete(w) ==
    /\ pc[w] = "deleting"
    /\ \E m \in current[w] : DeleteMessage(m, task[w].rcpt[m])
    /\ NextMessage(w)
    /\ UNCHANGED <<answer, tableVars, crashes>>

DeleteRaises(w) ==
    /\ pc[w] = "deleting"
    /\ \E m \in current[w] : DeleteMessage(m, task[w].rcpt[m]) \/ UNCHANGED msgs
    /\ Goto(w, "failing")
    /\ UNCHANGED <<answer, tableVars, batch, current, bound, task, crashes>>

\* fail_job, whatever the status, if there is a job_id; its own exceptions end
\* the process.
Fail(w) ==
    /\ pc[w] = "failing"
    /\ jobs' = [m \in Message |-> IF m \in bound[w] THEN [jobs[m] EXCEPT !.status = "failed"]
                                ELSE jobs[m]]
    /\ NextMessage(w)
    /\ UNCHANGED <<answer, results, completions, msgs, crashes>>

\* Also when fail_job or receive_messages raises, and after SIGTERM.
Crash(w) ==
    /\ pc[w] # "down" /\ crashes < MaxCrashes
    /\ crashes' = crashes + 1
    /\ Goto(w, "down")
    /\ batch' = [batch EXCEPT ![w] = {}]
    /\ current' = [current EXCEPT ![w] = {}]
    /\ bound' = [bound EXCEPT ![w] = {}]
    /\ task' = [task EXCEPT ![w] = NoTask]
    /\ UNCHANGED <<answer, tableVars, msgs>>

Restart(w) ==
    /\ pc[w] = "down"
    /\ Goto(w, "idle")
    /\ UNCHANGED <<answer, tableVars, msgs, batch, current, bound, task, crashes>>

Next ==
    \/ \E m \in Message : 
          \/ CreateJob(m) \/ SendJob(m) \/ SendRaises(m)
          \/ SendStray(m) \/ VisibilityClock(m)
    \/ \E w \in Worker :
          \/ ReceiveMessages(w)
          \/ ParseRaises(w) \/ Claim(w) \/ ClaimRefused(w) \/ ClaimRaises(w)
          \/ FindCompleted(w) \/ FindNotProcessable(w)
          \/ Complete(w) \/ CompleteRaises(w)
          \/ Delete(w) \/ DeleteRaises(w) \/ Fail(w)
          \/ Crash(w) \/ Restart(w)

Spec == Init /\ [][Next]_vars

-----------------------------------------------------------------------------
(* Properties.                                                             *)

\* Worker w has claimed the job of m, or knows its id, and will complete or fail it.
Attends(w, m) == pc[w] \in {"processing", "failing"} /\ m \in bound[w]

\* The jobs in processing that nobody will complete or fail.
Stranded ==
    {m \in Message : /\ jobs[m].status = "processing"
                     /\ \A w \in Worker : ~Attends(w, m)}

\* There are no leases, and mark_job_processing refuses a job in processing.  Only
\* a crash may therefore leave one there with nobody to complete or fail it, and
\* one crash at most one job: not a claim whose answer was lost, not a worker whose
\* job another one failed, claimed or completed under its hands, not the messages
\* of its batch that it has not come to (run, fail_job in the handler).
StrandedByCrashes == Cardinality(Stranded) <= crashes

\* A job that was accepted or sent is not forgotten: it has a result, or a
\* message that will still bring a worker to it, whatever its row's status became
\* meanwhile (create_job sends before it answers 202, and nothing deletes a
\* message without a result).  And the variables keep their types: no job is
\* attempted more often than its message is received.
AcceptedIsNotForgotten ==
    /\ TypeOK
    /\ \A m \in Message : answer[m] = "202" \/ msgs[m].state # "unsent" =>
          results[m] # 0 \/ msgs[m].state \in {"visible", "inflight"}

\* A job fails only by a worker that is at its message: a message that cannot be
\* parsed does not fail the job before it in the batch (run, del job_id).
FailuresAreOwn ==
    [][\A m \in Message : jobs[m].status # "failed" /\ jobs'[m].status = "failed"
          => \E w \in Worker : pc[w] = "failing" /\ m \in current[w]]_vars

\* "A completed job may be redelivered; the worker treats completed jobs as
\* duplicates and ignores them": a job is completed once.
CompletedOnce == \A m \in Message : completions[m] <= 1
=============================================================================
