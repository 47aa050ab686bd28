---------------------------- MODULE WorkerProofs ----------------------------
(***************************************************************************)
(* Proofs about module Worker, for any sets of jobs, messages and workers, *)
(* any redrive limit and any bound on the crashes.                         *)
(*                                                                         *)
(* The properties are not inductive: that a message is deleted only when   *)
(* its job is completed depends on what a worker about to delete knows,    *)
(* and that a claim is fenced depends on tokens never coming back.  IInv   *)
(* says what a worker's program counter tells about its locals             *)
(* (TaskShape), about the row of its job (ClaimState) and about the store  *)
(* (ReportState), and that tokens and attempt numbers are never shared.    *)
(*                                                                         *)
(* The last three parts prove what a single step may do (Effect), that the *)
(* pool implements JobLifecycle, and that the attempts of a job are paid   *)
(* for by the deliveries of its messages.                                  *)
(***************************************************************************)
EXTENDS Worker, FiniteSetTheorems, SequenceTheorems, TLAPS

\* The worker has claimed its job and not yet returned.
Working == {"reporting", "reported", "leaving", "deleting", "failing"}

\* What the program counter says about the locals.
Shape(l, t) ==
    /\ l \in {"idle", "down"} => t = NoTask
    /\ l \notin {"idle", "down"} => t.msg \in Message
    /\ l \in Working <=> t.token # NoToken
    /\ l = "leaving" => t.outcome # "none"

TaskShape == \A w \in Worker : Shape(pc[w], task[w])

\* A job in processing has a token, and only such a job; no token is in use
\* before uuid4() returned it.
TokenState ==
    /\ \A j \in Job : /\ jobs[j].status = "processing" <=> jobs[j].token # NoToken
                      /\ jobs[j].token <= tokenSeq
    /\ \A w \in Worker : task[w].token <= tokenSeq
    /\ \A h \in heartbeats : h.token <= tokenSeq /\ h.token # NoToken

\* What a worker that claimed knows of the row.
ClaimState ==
    \A w \in Worker : pc[w] \in Working =>
        LET row == jobs[JobOfTask(w)] IN
        /\ task[w].attempt \in 1..row.attempts
        /\ row.status = "processing" =>
              (task[w].token = row.token <=> task[w].attempt = row.attempts)
        /\ pc[w] = "leaving" /\ task[w].outcome = "lost" => row.token # task[w].token

\* No two workers share a token, nor an attempt of the same job.
NothingShared ==
    \A v, w \in Worker : v # w /\ pc[v] \in Working /\ pc[w] \in Working =>
        /\ task[v].token # task[w].token
        /\ JobOfTask(v) = JobOfTask(w) => task[v].attempt # task[w].attempt

\* A worker about to delete its message knows that the job is completed.
DeleteKnowledge ==
    \A w \in Worker :
        \/ pc[w] \in {"deleting", "discarding"}
        \/ pc[w] = "leaving" /\ task[w].outcome = "completed"
        => jobs[JobOfTask(w)].status = "completed"

\* The attempts the stored reports belong to, and the report of a worker.
ReportState ==
    /\ \A k \in DOMAIN artifacts :
          artifacts[k].attempt \in 1..jobs[artifacts[k].job].attempts
    /\ \A w \in Worker :
          /\ pc[w] = "reporting" => \A k \in DOMAIN artifacts :
                artifacts[k] # [job |-> JobOfTask(w), attempt |-> task[w].attempt]
          /\ pc[w] = "reported" =>
                /\ task[w].key \in DOMAIN artifacts
                /\ artifacts[task[w].key] = [job |-> JobOfTask(w), attempt |-> task[w].attempt]

Typed == TypeOK /\ TaskShape

IInv ==
    /\ Typed
    /\ TokenState
    /\ ClaimState
    /\ NothingShared
    /\ DeleteKnowledge
    /\ ReportState
    /\ RenewalNeedsOwner
    /\ DeletedOnlyCompleted
    /\ AtomicCompletion
    /\ OneReportPerAttempt

-----------------------------------------------------------------------------
(* Type correctness.                                                       *)

\* Every transaction keeps the tables well typed.
LEMMA StoreTyped ==
  ASSUME StoreTypeOK, NEW j \in Job, NEW t \in Nat, NEW key \in Nat,
         \/ CreateJob(j) \/ MarkJobProcessing(j) \/ RenewJobProcessingLease(j, t)
         \/ CompleteJobWithReport(j, t, key) \/ FailJob(j, t) \/ LeaseExpires(j)
  PROVE  StoreTypeOK'
<1> USE DEF StoreTypeOK, JobRow, JobStatus
<1>1. ASSUME NEW e \in {"created", "completed"}
      PROVE  [auditEvents EXCEPT ![j] = Append(@, e)] \in [Job -> Seq({"created", "completed"})]
  <2>1. Append(auditEvents[j], e) \in Seq({"created", "completed"})
    BY AppendProperties
  <2> QED BY <2>1
<1>2. CASE CreateJob(j)
  BY <1>1, <1>2 DEF CreateJob
<1>3. CASE MarkJobProcessing(j)
  BY <1>3 DEF MarkJobProcessing, FreshToken
<1>4. CASE RenewJobProcessingLease(j, t)
  BY <1>4 DEF RenewJobProcessingLease
<1>5. CASE CompleteJobWithReport(j, t, key)
  <2>1. jobs' \in [Job -> JobRow]
    BY <1>5 DEF CompleteJobWithReport, Released, NoToken
  <2>2. jobResults' \in [Job -> Nat] /\ tokenSeq' \in Nat
    BY <1>5 DEF CompleteJobWithReport
  <2>3. objectMetadata' \subseteq Job \X Nat
    BY <1>5 DEF CompleteJobWithReport
  <2>4. auditEvents' \in [Job -> Seq({"created", "completed"})]
    BY <1>1, <1>5 DEF CompleteJobWithReport
  <2> QED BY <2>1, <2>2, <2>3, <2>4
<1>6. CASE FailJob(j, t)
  BY <1>6 DEF FailJob, Released, NoToken
<1>7. CASE LeaseExpires(j)
  BY <1>7 DEF LeaseExpires
<1> QED BY <1>2, <1>3, <1>4, <1>5, <1>6, <1>7

\* Every call to the queue keeps it well typed.
LEMMA QueueTyped ==
  ASSUME QueueTypeOK, NEW m \in Message, NEW r \in Nat,
         \/ SendMessage(m) \/ ReceiveMessage(m) \/ VisibilityTimeoutEnds(m)
         \/ MoveToDeadLetter(m) \/ DeleteMessage(m, r)
  PROVE  QueueTypeOK'
  BY MaxReceiveAssumption
  DEF QueueTypeOK, MessageState, SendMessage, ReceiveMessage, VisibilityTimeoutEnds,
      MoveToDeadLetter, DeleteMessage

\* The locals of a worker, and the row of the job it is busy with.
LEMMA TaskTyped ==
  ASSUME Typed, NEW w \in Worker
  PROVE  /\ pc[w] \in PC
         /\ task[w] \in Task
         /\ task[w].rcpt \in Nat /\ task[w].token \in Nat /\ task[w].key \in Nat
         /\ task[w].attempt \in Nat
         /\ Shape(pc[w], task[w])
         /\ pc[w] \notin {"idle", "down"} =>
              /\ task[w].msg \in Message
              /\ JobOfTask(w) \in Job
              /\ jobs[JobOfTask(w)] \in JobRow
<1>1. pc[w] \in PC /\ task[w] \in Task /\ Shape(pc[w], task[w])
  BY DEF Typed, TypeOK, TaskShape
<1>2. pc[w] \notin {"idle", "down"} => task[w].msg \in Message
  BY <1>1 DEF Shape
<1>3. pc[w] \notin {"idle", "down"} => JobOfTask(w) \in Job
  BY <1>2, WorkerAssumption DEF JobOfTask
<1>4. \A j \in Job : jobs[j] \in JobRow
  BY DEF Typed, TypeOK, StoreTypeOK
<1>5. /\ task[w].rcpt \in Nat /\ task[w].token \in Nat
      /\ task[w].key \in Nat /\ task[w].attempt \in Nat
  BY <1>1 DEF Task
<1> QED BY <1>1, <1>2, <1>3, <1>4, <1>5

\* A stored report is of some job.
LEMMA ArtifactTyped ==
  ASSUME Typed, NEW k \in DOMAIN artifacts
  PROVE  artifacts[k].job \in Job /\ artifacts[k].attempt \in Nat /\ k \in Nat
<1>1. artifacts[k] \in Artifact /\ k \in Nat
  BY ElementOfSeq, LenProperties DEF Typed, TypeOK
<1> QED BY <1>1 DEF Artifact

\* A step that moves one worker to a well-formed place.
LEMMA MoveTyped ==
  ASSUME Typed, NEW w \in Worker, NEW l \in PC, NEW t \in Task, Shape(l, t),
         pc' = [pc EXCEPT ![w] = l], task' = [task EXCEPT ![w] = t]
  PROVE  pc' \in [Worker -> PC] /\ task' \in [Worker -> Task] /\ TaskShape'
  BY DEF Typed, TypeOK, TaskShape

\* The parts of TypeOK besides the tables, the queue and the workers' locals.
OthersTyped ==
    /\ heartbeats \subseteq Heartbeat
    /\ artifacts \in Seq(Artifact)
    /\ crashes \in 0..MaxCrashes

\* The initial states are well typed.
LEMMA TypedInit == Init => Typed
<1> SUFFICES ASSUME Init PROVE Typed
  OBVIOUS
<1>1. StoreTypeOK
  <2>1. <<>> \in Seq({"created", "completed"})
    OBVIOUS
  <2> QED BY <2>1 DEF Init, StoreInit, StoreTypeOK, JobRow, JobStatus, NoToken, NoKey
<1>2. QueueTypeOK
  BY MaxReceiveAssumption DEF Init, QueueInit, QueueTypeOK, MessageState
<1>3. NoTask \in Task
  BY DEF NoTask, NewTask, Task, Outcome, NoToken, NoKey
<1>4. pc \in [Worker -> PC] /\ task \in [Worker -> Task]
  BY <1>3 DEF Init, PC
<1>5. OthersTyped
  BY WorkerAssumption DEF Init, OthersTyped
<1>6. TaskShape
  BY DEF Init, TaskShape, Shape, NoTask, NewTask, NoToken, Working
<1> QED BY <1>1, <1>2, <1>4, <1>5, <1>6 DEF Typed, TypeOK, OthersTyped

\* The steps that leave every worker's locals alone.
LEMMA EnvironmentTyped ==
  ASSUME Typed, Environment
  PROVE  Typed'
<1>1. ASSUME UNCHANGED workerVars, StoreTypeOK', QueueTypeOK'
      PROVE  Typed'
  BY <1>1 DEF Typed, TypeOK, TaskShape, workerVars
<1>2. UNCHANGED storeVars => StoreTypeOK'
  BY DEF Typed, TypeOK, StoreTypeOK, storeVars
<1>3. UNCHANGED msgs => QueueTypeOK'
  BY DEF Typed, TypeOK, QueueTypeOK
<1>4. ASSUME NEW j \in Job, Submit(j) \/ LeaseClock(j)
      PROVE  Typed'
  <2>1. StoreTypeOK'
    BY <1>4, StoreTyped DEF Submit, LeaseClock, Typed, TypeOK
  <2> QED BY <1>1, <1>3, <1>4, <2>1 DEF Submit, LeaseClock
<1>5. ASSUME NEW m \in Message, Dispatch(m) \/ VisibilityClock(m) \/ Redrive(m)
      PROVE  Typed'
  <2>1. QueueTypeOK'
    BY <1>5, QueueTyped DEF Dispatch, VisibilityClock, Redrive, Typed, TypeOK
  <2> QED BY <1>1, <1>2, <1>5, <2>1 DEF Dispatch, VisibilityClock, Redrive
<1> QED BY <1>4, <1>5 DEF Environment

\* The steps of consume_one_message.
LEMMA ConsumeTyped ==
  ASSUME Typed, NEW w \in Worker, Consume(w)
  PROVE  Typed'
<1> DEFINE Moves(l, t) == pc' = [pc EXCEPT ![w] = l] /\ task' = [task EXCEPT ![w] = t]
<1>1. ASSUME NEW l \in PC, NEW t \in Task, Shape(l, t), Moves(l, t),
             StoreTypeOK', QueueTypeOK', OthersTyped'
      PROVE  Typed'
  <2>1. pc' \in [Worker -> PC] /\ task' \in [Worker -> Task] /\ TaskShape'
    BY <1>1, MoveTyped
  <2> QED BY <1>1, <2>1 DEF Typed, TypeOK, OthersTyped
<1>2. UNCHANGED storeVars => StoreTypeOK'
  BY DEF Typed, TypeOK, StoreTypeOK, storeVars
<1>3. UNCHANGED msgs => QueueTypeOK'
  BY DEF Typed, TypeOK, QueueTypeOK
<1>4. UNCHANGED <<heartbeats, artifacts, crashes>> => OthersTyped'
  BY DEF Typed, TypeOK, OthersTyped
<1>5. NoTask \in Task /\ Shape("idle", NoTask) /\ "idle" \in PC
  BY DEF NoTask, NewTask, Task, Outcome, NoToken, NoKey, Shape, Working, PC
<1>6. /\ pc[w] \in PC /\ task[w] \in Task /\ Shape(pc[w], task[w])
      /\ task[w].rcpt \in Nat /\ task[w].token \in Nat /\ task[w].key \in Nat
      /\ task[w].attempt \in Nat
  BY TaskTyped
<1>7. pc[w] \notin {"idle", "down"} =>
         task[w].msg \in Message /\ JobOfTask(w) \in Job /\ jobs[JobOfTask(w)] \in JobRow
  BY TaskTyped
<1>8. task' = task => task' = [task EXCEPT ![w] = task[w]]
  BY DEF Typed, TypeOK
<1>9. ASSUME NEW m \in Message, Receive(w, m)
      PROVE  Typed'
  <2> DEFINE t == NewTask(m, msgs[m].receives + 1)
  <2>1. msgs[m].receives \in Nat
    BY MaxReceiveAssumption DEF Typed, TypeOK, QueueTypeOK
  <2>2. t \in Task /\ Shape("received", t) /\ "received" \in PC
    <3>1. t \in Task /\ t.msg = m /\ t.token = NoToken
      BY <2>1 DEF NewTask, Task, Outcome, NoToken, NoKey
    <3> QED BY <3>1 DEF Shape, Working, PC
  <2>3. QueueTypeOK'
    BY <1>9, QueueTyped DEF Receive, Typed, TypeOK
  <2>4. Moves("received", t) /\ UNCHANGED <<storeVars, heartbeats, artifacts, crashes>>
    BY <1>9 DEF Receive, Goto
  <2> QED BY <1>1, <1>2, <1>4, <2>2, <2>3, <2>4
<1>10. ASSUME NEW m \in Message, ReceiveRaises(w, m)
       PROVE  Typed'
  <2>1. QueueTypeOK'
    BY <1>10, QueueTyped DEF ReceiveRaises, Typed, TypeOK
  <2> QED BY <1>2, <1>10, <2>1 DEF ReceiveRaises, Typed, TypeOK, TaskShape, workerVars
<1>11. ASSUME Claim(w)
       PROVE  Typed'
  <2> DEFINE t == [task[w] EXCEPT !.token = FreshToken,
                                  !.attempt = jobs[JobOfTask(w)].attempts + 1]
  <2>1. /\ pc[w] = "received" /\ MarkJobProcessing(JobOfTask(w))
        /\ Moves("reporting", t) /\ heartbeats' = heartbeats \cup {NewHeartbeat(w)}
        /\ UNCHANGED <<msgs, artifacts, crashes>>
    BY <1>11 DEF Claim, Goto
  <2>2. FreshToken \in Nat \ {0} /\ jobs[JobOfTask(w)].attempts + 1 \in Nat
    BY <1>7, <2>1 DEF FreshToken, Typed, TypeOK, StoreTypeOK, JobRow
  <2>3. t \in Task /\ Shape("reporting", t) /\ "reporting" \in PC
    <3>1. t \in Task /\ t.msg = task[w].msg /\ t.token = FreshToken
      BY <1>6, <2>2 DEF Task
    <3> QED BY <1>7, <2>1, <2>2, <3>1 DEF Shape, Working, NoToken, PC
  <2>4. NewHeartbeat(w) \in Heartbeat
    BY <1>7, <2>1, <2>2 DEF NewHeartbeat, Heartbeat
  <2>5. OthersTyped'
    BY <2>1, <2>4 DEF Typed, TypeOK, OthersTyped
  <2>6. StoreTypeOK'
    BY <1>7, <2>1, StoreTyped DEF Typed, TypeOK
  <2> QED BY <1>1, <1>3, <2>1, <2>3, <2>5, <2>6
<1>12. ASSUME ClaimRefused(w) \/ FindCompleted(w)
       PROVE  Typed'
  <2>1. \E l \in {"refused", "discarding"} : Moves(l, task[w])
    BY <1>8, <1>12 DEF ClaimRefused, FindCompleted, Goto
  <2>2. \A l \in {"refused", "discarding"} : l \in PC /\ Shape(l, task[w])
    BY <1>6, <1>12 DEF ClaimRefused, FindCompleted, Shape, Working, PC
  <2> QED BY <1>1, <1>2, <1>3, <1>4, <1>6, <1>12, <2>1, <2>2 DEF ClaimRefused, FindCompleted
<1>13. ASSUME FindInProgress(w) \/ DiscardDuplicate(w) \/ Delete(w) \/ Fail(w)
       PROVE  Typed'
  <2>1. /\ pc[w] \notin {"idle", "down"} /\ Moves("idle", NoTask)
        /\ UNCHANGED <<heartbeats, artifacts, crashes>>
    BY <1>13 DEF FindInProgress, DiscardDuplicate, Delete, Fail, BackToIdle, Goto
  <2>2. StoreTypeOK'
    <3>1. UNCHANGED storeVars \/ FailJob(JobOfTask(w), task[w].token)
      BY <1>13 DEF FindInProgress, DiscardDuplicate, Delete, Fail
    <3> QED BY <1>2, <1>6, <1>7, <2>1, <3>1, StoreTyped DEF Typed, TypeOK
  <2>3. QueueTypeOK'
    <3>1. UNCHANGED msgs \/ DeleteMessage(task[w].msg, task[w].rcpt)
      BY <1>13 DEF FindInProgress, DiscardDuplicate, Delete, Fail
    <3> QED BY <1>3, <1>6, <1>7, <2>1, <3>1, QueueTyped DEF Typed, TypeOK
  <2> QED BY <1>1, <1>4, <1>5, <2>1, <2>2, <2>3
<1>14. ASSUME pc[w] \in Working, artifacts' \in Seq(Artifact), UNCHANGED <<heartbeats, crashes>>,
              StoreTypeOK', QueueTypeOK',
              NEW l \in Working, NEW k \in Nat, NEW o \in Outcome, l = "leaving" => o # "none",
              Moves(l, [task[w] EXCEPT !.key = k, !.outcome = o])
       PROVE  Typed'
  <2> DEFINE t == [task[w] EXCEPT !.key = k, !.outcome = o]
  <2>1. t \in Task /\ t.msg = task[w].msg /\ t.token = task[w].token /\ t.outcome = o
    BY <1>6 DEF Task
  <2>2. l \in PC /\ Shape(l, t)
    BY <1>6, <1>14, <2>1 DEF Shape, Working, PC
  <2>3. OthersTyped'
    BY <1>14 DEF Typed, TypeOK, OthersTyped
  <2> QED BY <1>1, <1>14, <2>1, <2>2, <2>3
<1>15. \A k, o : /\ [task[w] EXCEPT !.key = k, !.outcome = task[w].outcome] = [task[w] EXCEPT !.key = k]
                 /\ [task[w] EXCEPT !.key = task[w].key, !.outcome = o] = [task[w] EXCEPT !.outcome = o]
  BY <1>6 DEF Task
<1>16. pc[w] = "reporting" /\ StoreArtifact(w) => artifacts' \in Seq(Artifact)
  <2>1. ASSUME pc[w] = "reporting"
        PROVE  [job |-> JobOfTask(w), attempt |-> task[w].attempt] \in Artifact
    BY <1>6, <1>7, <2>1 DEF Artifact
  <2> QED BY <2>1, AppendProperties DEF StoreArtifact, Typed, TypeOK
<1>17. ASSUME PutReport(w)
       PROVE  Typed'
  <2>1. Len(artifacts) + 1 \in Nat
    BY LenProperties DEF Typed, TypeOK
  <2>2. Moves("reported", [task[w] EXCEPT !.key = Len(artifacts) + 1])
    BY <1>17 DEF PutReport, Goto
  <2>3. Moves("reported", [task[w] EXCEPT !.key = Len(artifacts) + 1, !.outcome = task[w].outcome])
    BY <1>15, <2>2
  <2>4. task[w].outcome \in Outcome /\ "reported" \in Working /\ "reporting" \in Working
    BY <1>6 DEF Task, Working
  <2> QED BY <1>2, <1>3, <1>14, <1>16, <1>17, <2>1, <2>3, <2>4 DEF PutReport
<1>18. ASSUME PutReportRaises(w) \/ Complete(w) \/ CompleteFenced(w) \/ CompleteRaises(w)
       PROVE  Typed'
  <2>1. /\ pc[w] \in {"reporting", "reported"} /\ UNCHANGED <<msgs, heartbeats, crashes>>
        /\ \E o \in Outcome \ {"none"} : Moves("leaving", [task[w] EXCEPT !.outcome = o])
    BY <1>18 DEF PutReportRaises, Complete, CompleteFenced, CompleteRaises, EndWith, Goto, Outcome
  <2>2. PICK o \in Outcome \ {"none"} :
           Moves("leaving", [task[w] EXCEPT !.key = task[w].key, !.outcome = o])
    BY <1>15, <2>1
  <2>3. artifacts' \in Seq(Artifact)
    BY <1>16, <1>18 DEF PutReportRaises, Complete, CompleteFenced, CompleteRaises, Typed, TypeOK
  <2>4. StoreTypeOK'
    <3>1. \/ UNCHANGED storeVars
          \/ CompleteJobWithReport(JobOfTask(w), task[w].token, task[w].key)
      BY <1>18 DEF PutReportRaises, Complete, CompleteFenced, CompleteRaises
    <3> QED BY <1>2, <1>6, <1>7, <2>1, <3>1, StoreTyped DEF Typed, TypeOK
  <2>5. "leaving" \in Working /\ pc[w] \in Working
    BY <2>1 DEF Working
  <2> QED BY <1>3, <1>6, <1>14, <2>1, <2>2, <2>3, <2>4, <2>5
<1>19. ASSUME Leave(w)
       PROVE  Typed'
  <2>1. heartbeats' \subseteq Heartbeat
    BY <1>19 DEF Leave, StopHeartbeat, Heartbeat, Typed, TypeOK
  <2>2. OthersTyped'
    BY <1>19, <2>1 DEF Leave, Typed, TypeOK, OthersTyped
  <2>3. Moves("idle", NoTask) \/ \E l \in {"deleting", "failing"} : Moves(l, task[w])
    BY <1>8, <1>19 DEF Leave, BackToIdle, Goto
  <2>4. \A l \in {"deleting", "failing"} : l \in PC /\ Shape(l, task[w])
    BY <1>6, <1>19 DEF Leave, Shape, Working, PC
  <2> QED BY <1>1, <1>2, <1>3, <1>5, <1>6, <1>19, <2>2, <2>3, <2>4 DEF Leave
<1>20. ASSUME DeleteRaises(w)
       PROVE  Typed'
  <2>1. Moves("failing", task[w]) /\ "failing" \in PC /\ Shape("failing", task[w])
    BY <1>6, <1>8, <1>20 DEF DeleteRaises, Goto, Shape, Working, PC
  <2>2. QueueTypeOK'
    BY <1>3, <1>6, <1>7, <1>20, QueueTyped DEF DeleteRaises, Typed, TypeOK
  <2> QED BY <1>1, <1>2, <1>4, <1>6, <1>20, <2>1, <2>2 DEF DeleteRaises
<1> QED
  BY <1>9, <1>10, <1>11, <1>12, <1>13, <1>17, <1>18, <1>19, <1>20 DEF Consume

\* Heartbeats, crashes and restarts.
LEMMA BeatTyped ==
  ASSUME Typed, NEW h \in heartbeats, Beat(h)
  PROVE  Typed'
<1>1. h \in Heartbeat
  BY DEF Typed, TypeOK
<1>2. h.job \in Job /\ h.token \in Nat
  BY <1>1 DEF Heartbeat
<1>3. StoreTypeOK'
  <2>1. UNCHANGED storeVars \/ RenewJobProcessingLease(h.job, h.token)
    BY DEF Beat, HeartbeatFires, HeartbeatRenews, HeartbeatEnds
  <2>2. UNCHANGED storeVars => StoreTypeOK'
    BY DEF Typed, TypeOK, StoreTypeOK, storeVars
  <2> QED BY <1>2, <2>1, <2>2, StoreTyped DEF Typed, TypeOK
<1>4. heartbeats' \subseteq Heartbeat
  <2>1. \A l \in {"waiting", "renewing"} : [h EXCEPT !.at = l] \in Heartbeat
    BY <1>1 DEF Heartbeat
  <2> QED BY <2>1 DEF Beat, HeartbeatFires, HeartbeatRenews, HeartbeatEnds, Typed, TypeOK
<1>5. UNCHANGED <<msgs, pc, task, artifacts, crashes>>
  BY DEF Beat, HeartbeatFires, HeartbeatRenews, HeartbeatEnds
<1> QED BY <1>3, <1>4, <1>5 DEF Typed, TypeOK, QueueTypeOK, TaskShape

\* Crashes and restarts.
LEMMA ProcessTyped ==
  ASSUME Typed, NEW w \in Worker, Crash(w) \/ Restart(w)
  PROVE  Typed'
<1>1. UNCHANGED <<storeVars, msgs, artifacts>> => StoreTypeOK' /\ QueueTypeOK'
  BY DEF Typed, TypeOK, StoreTypeOK, QueueTypeOK, storeVars
<1>2. NoTask \in Task /\ \A l \in {"idle", "down"} : Shape(l, NoTask) /\ l \in PC
  BY DEF NoTask, NewTask, Task, Outcome, NoToken, NoKey, Shape, Working, PC
<1>3. pc' \in [Worker -> PC] /\ task' \in [Worker -> Task] /\ TaskShape'
  <2>1. task' = [task EXCEPT ![w] = NoTask]
    BY TaskTyped DEF Crash, Restart, Shape, Typed, TypeOK
  <2>2. \E l \in {"idle", "down"} : pc' = [pc EXCEPT ![w] = l]
    BY DEF Crash, Restart, Goto
  <2> QED BY <1>2, <2>1, <2>2, MoveTyped
<1>4. OthersTyped'
  BY WorkerAssumption DEF Crash, Restart, OthersTyped, Typed, TypeOK
<1>5. UNCHANGED <<storeVars, msgs, artifacts>>
  BY DEF Crash, Restart
<1> QED BY <1>1, <1>3, <1>4, <1>5 DEF Typed, TypeOK, OthersTyped

\* Every step keeps the types and the shape of the locals.
LEMMA TypedStep ==
  ASSUME Typed, [Next]_vars
  PROVE  Typed'
<1>1. CASE UNCHANGED vars
  BY <1>1 DEF Typed, TypeOK, StoreTypeOK, QueueTypeOK, TaskShape, vars, storeVars, workerVars
<1> QED
  BY <1>1, EnvironmentTyped, ConsumeTyped, BeatTyped, ProcessTyped DEF Next

\* The variables of the worker pool keep their types, and a worker's program
\* counter tells what its locals hold.
THEOREM TypeCorrect == Spec => []TypeOK
<1>1. Spec => []Typed
  BY TypedInit, TypedStep, PTL DEF Spec
<1>2. Typed => TypeOK
  BY DEF Typed
<1> QED BY <1>1, <1>2, PTL

-----------------------------------------------------------------------------
(* The inductive invariant.                                                *)

\* The invariant holds initially.
LEMMA InvInit == Init => IInv
<1> SUFFICES ASSUME Init PROVE IInv
  OBVIOUS
<1>1. Typed
  BY TypedInit
<1>2. \A w \in Worker : pc[w] = "idle" /\ task[w] = NoTask /\ NoTask.token = 0
  BY DEF Init, NoTask, NewTask, NoToken
<1>3. \A j \in Job : jobs[j].status = "absent" /\ jobs[j].token = 0
  BY DEF Init, StoreInit, NoToken
<1>4. heartbeats = {} /\ tokenSeq = 0 /\ objectMetadata = {} /\ DOMAIN artifacts = {}
  BY DEF Init, StoreInit
<1>5. TokenState /\ ClaimState /\ NothingShared /\ DeleteKnowledge /\ ReportState
  BY <1>2, <1>3, <1>4
  DEF TokenState, ClaimState, NothingShared, DeleteKnowledge, ReportState, Working, NoToken
<1>6. RenewalNeedsOwner /\ OneReportPerAttempt
  BY <1>4 DEF RenewalNeedsOwner, OneReportPerAttempt
<1>7. DeletedOnlyCompleted
  BY DEF Init, QueueInit, DeletedOnlyCompleted
<1>8. AtomicCompletion
  BY <1>3, <1>4 DEF Init, StoreInit, AtomicCompletion, MetadataRows
<1> QED BY <1>1, <1>5, <1>6, <1>7, <1>8 DEF IInv

\* A row that keeps everything the invariant reads, but for being created.
RowKept(j) ==
    /\ jobs'[j].attempts = jobs[j].attempts /\ jobs'[j].token = jobs[j].token
    /\ \/ jobs'[j].status = jobs[j].status /\ auditEvents'[j] = auditEvents[j]
       \/ /\ jobs[j].status = "absent" /\ jobs'[j].status = "pending"
          /\ auditEvents'[j] = Append(auditEvents[j], "created")

\* The environment, and the heartbeats' threads.
LEMMA BackgroundInv ==
  ASSUME IInv, Typed', UNCHANGED <<pc, task, artifacts, jobResults, objectMetadata, tokenSeq>>,
         \A j \in Job : RowKept(j),
         \A h \in heartbeats' : \E g \in heartbeats :
            h.worker = g.worker /\ h.job = g.job /\ h.token = g.token,
         \A m \in Message : msgs'[m].state = "deleted" => msgs[m].state = "deleted"
  PROVE  IInv'
<1> USE DEF IInv, RowKept
<1>1. \A w \in Worker : pc[w] \notin {"idle", "down"} => JobOfTask(w) \in Job
  BY TaskTyped
<1>2. \A w \in Worker : JobOfTask(w)' = JobOfTask(w)
  BY DEF JobOfTask
<1>3. TokenState'
  BY DEF TokenState, NoToken
<1>4. ClaimState'
  BY <1>1, <1>2 DEF ClaimState, Working
<1>5. NothingShared'
  BY <1>2 DEF NothingShared
<1>6. DeleteKnowledge'
  BY <1>1, <1>2 DEF DeleteKnowledge
<1>7. ReportState'
  <2>1. \A k \in DOMAIN artifacts : artifacts[k].job \in Job
    BY ArtifactTyped
  <2> QED BY <1>2, <2>1 DEF ReportState
<1>8. RenewalNeedsOwner'
  <2> SUFFICES ASSUME NEW h \in heartbeats', OwnsClaim(h.job, h.token)'
               PROVE  Holds(h.worker, h.job, h.token)'
    BY DEF RenewalNeedsOwner
  <2>1. PICK g \in heartbeats : h.worker = g.worker /\ h.job = g.job /\ h.token = g.token
    OBVIOUS
  <2>2. g.job \in Job /\ g.worker \in Worker
    BY DEF Typed, TypeOK, Heartbeat
  <2>3. OwnsClaim(g.job, g.token)
    BY <2>1, <2>2 DEF OwnsClaim
  <2>4. Holds(g.worker, g.job, g.token)
    BY <2>3 DEF RenewalNeedsOwner
  <2> QED BY <1>2, <2>1, <2>2, <2>4 DEF Holds
<1>9. DeletedOnlyCompleted'
  BY WorkerAssumption DEF DeletedOnlyCompleted
<1>10. AtomicCompletion'
  <2>1. \A j \in Job : MetadataRows(j)' = MetadataRows(j)
    BY DEF MetadataRows
  <2>2. Append(<<>>, "created") = <<"created">>
    OBVIOUS
  <2> QED BY <2>1, <2>2 DEF AtomicCompletion
<1>11. OneReportPerAttempt'
  BY DEF OneReportPerAttempt
<1> QED
  BY <1>3, <1>4, <1>5, <1>6, <1>7, <1>8, <1>9, <1>10, <1>11

\* A step of worker w leaves the other workers alone.
Others(w) == \A v \in Worker \ {w} : pc'[v] = pc[v] /\ task'[v] = task[v]

\* Which threads there are: none is new.
NoNewHeartbeat ==
    \A h \in heartbeats' : \E g \in heartbeats :
        h.worker = g.worker /\ h.job = g.job /\ h.token = g.token

\* Only messages of completed jobs disappear.
DeletesCompleted ==
    \A m \in Message : msgs'[m].state = "deleted" =>
        msgs[m].state = "deleted" \/ jobs[JobOf[m]].status = "completed"

\* A worker without a claim moves, or gives up a claim that is not the row's
\* any more, or loses its heartbeat with its claim.
LEMMA ReturnInv ==
  ASSUME IInv, Typed', NEW w \in Worker, UNCHANGED <<storeVars, artifacts>>,
         Others(w), NoNewHeartbeat, DeletesCompleted,
         pc'[w] \notin Working,
         pc'[w] = "discarding" => jobs[JobOf[task'[w].msg]].status = "completed",
         \A h \in heartbeats' : h.worker = w /\ Holds(w, h.job, h.token) =>
            ~OwnsClaim(h.job, h.token)
  PROVE  IInv'
<1> USE DEF IInv, Others
<1>1. /\ task'[w].token = NoToken /\ tokenSeq \in Nat
      /\ UNCHANGED <<jobs, jobResults, objectMetadata, auditEvents, tokenSeq>>
  BY DEF Typed, TypeOK, StoreTypeOK, TaskShape, Shape, storeVars
<1>2. \A v \in Worker : pc'[v] \in Working => pc[v] \in Working /\ v # w
  OBVIOUS
<1>3. \A v \in Worker \ {w} : JobOfTask(v)' = JobOfTask(v)
  BY DEF JobOfTask
<1>4. TokenState'
  BY <1>1 DEF TokenState, NoNewHeartbeat, NoToken
<1>5. ClaimState'
  BY <1>1, <1>2, <1>3 DEF ClaimState
<1>6. NothingShared'
  BY <1>2, <1>3 DEF NothingShared
<1>7. DeleteKnowledge'
  BY <1>1, <1>3 DEF DeleteKnowledge, JobOfTask, Working
<1>8. ReportState'
  BY <1>1, <1>3 DEF ReportState, Working
<1>9. RenewalNeedsOwner'
  <2> SUFFICES ASSUME NEW h \in heartbeats', OwnsClaim(h.job, h.token)'
               PROVE  Holds(h.worker, h.job, h.token)'
    BY DEF RenewalNeedsOwner
  <2>1. PICK g \in heartbeats : h.worker = g.worker /\ h.job = g.job /\ h.token = g.token
    BY DEF NoNewHeartbeat
  <2>2. OwnsClaim(h.job, h.token)
    BY <1>1 DEF OwnsClaim
  <2>3. Holds(h.worker, h.job, h.token) /\ h.worker \in Worker
    BY <2>1, <2>2 DEF RenewalNeedsOwner, Typed, TypeOK, Heartbeat
  <2>4. h.worker # w
    BY <2>2, <2>3
  <2> QED BY <1>3, <2>3, <2>4 DEF Holds
<1>10. DeletedOnlyCompleted'
  BY <1>1 DEF DeletedOnlyCompleted, DeletesCompleted
<1>11. AtomicCompletion'
  BY <1>1 DEF AtomicCompletion, MetadataRows
<1>12. OneReportPerAttempt'
  BY DEF OneReportPerAttempt
<1> QED
  BY <1>4, <1>5, <1>6, <1>7, <1>8, <1>9, <1>10, <1>11, <1>12

\* What a new report leaves of the old ones.
LEMMA StoredArtifact ==
  ASSUME Typed, NEW w \in Worker, StoreArtifact(w)
  PROVE  /\ DOMAIN artifacts' = DOMAIN artifacts \cup {Len(artifacts) + 1}
         /\ \A k \in DOMAIN artifacts : artifacts'[k] = artifacts[k]
         /\ artifacts'[Len(artifacts) + 1] =
               [job |-> JobOfTask(w), attempt |-> task[w].attempt]
  BY DEF StoreArtifact, Typed, TypeOK

\* A worker goes on with its claim, the tables unchanged.
LEMMA WorkInv ==
  ASSUME IInv, Typed', NEW w \in Worker, UNCHANGED storeVars,
         Others(w), NoNewHeartbeat, DeletesCompleted,
         pc[w] \in Working, pc'[w] \in Working \ {"reporting"},
         task'[w].msg = task[w].msg, task'[w].token = task[w].token,
         task'[w].attempt = task[w].attempt,
         UNCHANGED artifacts \/ (pc[w] = "reporting" /\ StoreArtifact(w)),
         pc'[w] = "reported" => StoreArtifact(w) /\ task'[w].key = Len(artifacts) + 1,
         pc'[w] = "leaving" /\ task'[w].outcome = "lost" =>
            jobs[JobOfTask(w)].token # task[w].token,
         pc'[w] = "deleting" \/ (pc'[w] = "leaving" /\ task'[w].outcome = "completed") =>
            jobs[JobOfTask(w)].status = "completed"
  PROVE  IInv'
<1> USE DEF IInv, Others
<1>1. UNCHANGED <<jobs, jobResults, objectMetadata, auditEvents, tokenSeq>>
  BY DEF storeVars
<1>2. \A v \in Worker : /\ JobOfTask(v)' = JobOfTask(v)
                        /\ task'[v].token = task[v].token
                        /\ task'[v].attempt = task[v].attempt
                        /\ task'[v].msg = task[v].msg
                        /\ pc'[v] \in Working <=> pc[v] \in Working
  BY DEF JobOfTask
<1>3. TokenState'
  BY <1>1, <1>2 DEF TokenState, NoNewHeartbeat
<1>4. ClaimState'
  BY <1>1, <1>2 DEF ClaimState
<1>5. NothingShared'
  BY <1>2 DEF NothingShared
<1>6. DeleteKnowledge'
  BY <1>1, <1>2 DEF DeleteKnowledge, Working
<1>7. /\ DOMAIN artifacts \subseteq DOMAIN artifacts'
      /\ \A k \in DOMAIN artifacts : artifacts'[k] = artifacts[k]
      /\ \A k \in DOMAIN artifacts' \ DOMAIN artifacts :
            /\ pc[w] = "reporting" /\ k = Len(artifacts) + 1
            /\ artifacts'[k] = [job |-> JobOfTask(w), attempt |-> task[w].attempt]
  <2>1. CASE UNCHANGED artifacts
    BY <2>1
  <2>2. CASE pc[w] = "reporting" /\ StoreArtifact(w)
    BY <2>2, StoredArtifact
  <2> QED BY <2>1, <2>2
<1>8. \A v \in Worker : pc[v] \in Working => JobOfTask(v) \in Job
  BY TaskTyped DEF Working
<1>9. ReportState'
  <2>1. ASSUME NEW k \in DOMAIN artifacts'
        PROVE  artifacts'[k].attempt \in 1..jobs[artifacts'[k].job].attempts
    BY <1>7 DEF ReportState, ClaimState
  <2>2. ASSUME NEW v \in Worker, pc'[v] = "reporting", NEW k \in DOMAIN artifacts'
        PROVE  artifacts'[k] # [job |-> JobOfTask(v), attempt |-> task[v].attempt]
    <3>1. v # w /\ pc[v] = "reporting"
      BY <2>2
    <3>2. CASE k \in DOMAIN artifacts
      BY <1>7, <3>1, <3>2 DEF ReportState
    <3>3. CASE k \notin DOMAIN artifacts
      <4>1. pc[w] = "reporting" /\ artifacts'[k] = [job |-> JobOfTask(w), attempt |-> task[w].attempt]
        BY <1>7, <2>2, <3>3
      <4>2. JobOfTask(v) = JobOfTask(w) => task[v].attempt # task[w].attempt
        BY <3>1, <4>1 DEF NothingShared, Working
      <4> QED BY <4>1, <4>2
    <3> QED BY <3>2, <3>3
  <2>3. ASSUME NEW v \in Worker, pc'[v] = "reported"
        PROVE  /\ task'[v].key \in DOMAIN artifacts'
               /\ artifacts'[task'[v].key] = [job |-> JobOfTask(v), attempt |-> task[v].attempt]
    <3>1. CASE v = w
      BY <2>3, <3>1, StoredArtifact
    <3>2. CASE v # w
      BY <1>7, <2>3, <3>2 DEF ReportState
    <3> QED BY <3>1, <3>2
  <2> QED BY <1>1, <1>2, <2>1, <2>2, <2>3 DEF ReportState
<1>10. RenewalNeedsOwner'
  <2> SUFFICES ASSUME NEW h \in heartbeats', OwnsClaim(h.job, h.token)'
               PROVE  Holds(h.worker, h.job, h.token)'
    BY DEF RenewalNeedsOwner
  <2>1. PICK g \in heartbeats : h.worker = g.worker /\ h.job = g.job /\ h.token = g.token
    BY DEF NoNewHeartbeat
  <2>2. OwnsClaim(h.job, h.token)
    BY <1>1 DEF OwnsClaim
  <2>3. Holds(h.worker, h.job, h.token) /\ h.worker \in Worker
    BY <2>1, <2>2 DEF RenewalNeedsOwner, Typed, TypeOK, Heartbeat
  <2> QED BY <1>2, <2>3 DEF Holds
<1>11. DeletedOnlyCompleted'
  BY <1>1 DEF DeletedOnlyCompleted, DeletesCompleted
<1>12. AtomicCompletion'
  BY <1>1, <1>7 DEF AtomicCompletion, MetadataRows
<1>13. OneReportPerAttempt'
  <2> SUFFICES ASSUME NEW k1 \in DOMAIN artifacts', NEW k2 \in DOMAIN artifacts',
                      artifacts'[k1] = artifacts'[k2]
               PROVE  k1 = k2
    BY DEF OneReportPerAttempt
  <2>1. pc[w] = "reporting" => \A k \in DOMAIN artifacts :
           artifacts[k] # [job |-> JobOfTask(w), attempt |-> task[w].attempt]
    BY DEF ReportState
  <2> QED BY <1>7, <2>1 DEF OneReportPerAttempt
<1> QED
  BY <1>3, <1>4, <1>5, <1>6, <1>9, <1>10, <1>11, <1>12, <1>13

\* A claim: the new token and the new attempt are nobody's.
LEMMA ClaimInv ==
  ASSUME IInv, Typed', NEW w \in Worker, Claim(w)
  PROVE  IInv'
<1> DEFINE j == JobOfTask(w)
<1> USE DEF IInv
<1>1. /\ pc[w] = "received" /\ j \in Job /\ task[w].msg \in Message
      /\ tokenSeq \in Nat /\ jobs[j].attempts \in Nat
  BY TaskTyped DEF Claim, Typed, TypeOK, StoreTypeOK, JobRow
<1>2. /\ pc'[w] = "reporting"
      /\ task'[w].msg = task[w].msg /\ task'[w].token = tokenSeq + 1
      /\ task'[w].attempt = jobs[j].attempts + 1
  <2>1. /\ pc' = [pc EXCEPT ![w] = "reporting"]
        /\ task' = [task EXCEPT ![w] = [task[w] EXCEPT !.token = FreshToken,
                                                      !.attempt = jobs[j].attempts + 1]]
    BY DEF Claim, Goto
  <2>2. task[w] \in Task /\ pc \in [Worker -> PC] /\ task \in [Worker -> Task]
    BY DEF Typed, TypeOK
  <2> QED BY <2>1, <2>2 DEF FreshToken, Task
<1>3. Others(w)
  BY DEF Claim, Goto, Others, Typed, TypeOK
<1>4. /\ Claimable(j)
      /\ jobs'[j].status = "processing" /\ jobs'[j].token = tokenSeq + 1
      /\ jobs'[j].attempts = jobs[j].attempts + 1
      /\ \A i \in Job \ {j} : jobs'[i] = jobs[i]
      /\ tokenSeq' = tokenSeq + 1
      /\ UNCHANGED <<jobResults, objectMetadata, auditEvents, msgs, artifacts>>
  BY <1>1 DEF Claim, MarkJobProcessing, FreshToken, Typed, TypeOK, StoreTypeOK
<1>5. \A v \in Worker : JobOfTask(v)' = JobOfTask(v) /\ (v # w => pc'[v] = pc[v] /\ task'[v] = task[v])
  BY <1>2, <1>3 DEF JobOfTask, Others
<1>6. \A v \in Worker : pc[v] \in Working => JobOfTask(v) \in Job
  BY TaskTyped DEF Working
<1>7. \A v \in Worker : task[v].token \in Nat /\ task[v].token <= tokenSeq
  BY TaskTyped DEF TokenState
<1>8. \A i \in Job : jobs[i].attempts \in Nat /\ jobs[i].attempts <= jobs'[i].attempts
  <2>1. \A i \in Job : jobs[i].attempts \in Nat
    BY DEF Typed, TypeOK, StoreTypeOK, JobRow
  <2> QED BY <1>1, <1>4, <2>1
<1>9. jobs[j].status \notin {"completed", "absent"} /\ jobs'[j].status # "completed"
  BY <1>4 DEF Claimable
<1>10. heartbeats' = heartbeats \cup {NewHeartbeat(w)}
  BY DEF Claim
<1>11. /\ NewHeartbeat(w).worker = w /\ NewHeartbeat(w).job = j
       /\ NewHeartbeat(w).token = tokenSeq + 1
  BY DEF NewHeartbeat, FreshToken
<1>12. TokenState'
  <2>1. \A i \in Job : /\ jobs'[i].status = "processing" <=> jobs'[i].token # NoToken
                       /\ jobs'[i].token <= tokenSeq'
    <3>1. \A i \in Job : jobs[i].token \in Nat
      BY DEF Typed, TypeOK, StoreTypeOK, JobRow
    <3> QED BY <1>1, <1>4, <3>1 DEF TokenState, NoToken
  <2>2. \A v \in Worker : task'[v].token <= tokenSeq'
    BY <1>1, <1>2, <1>4, <1>5, <1>7
  <2>3. \A h \in heartbeats' : h.token <= tokenSeq' /\ h.token # NoToken
    <3>1. \A h \in heartbeats : h.token \in Nat
      BY DEF Typed, TypeOK, Heartbeat
    <3> QED BY <1>1, <1>4, <1>10, <1>11, <3>1 DEF TokenState, NoToken
  <2> QED BY <2>1, <2>2, <2>3 DEF TokenState
<1>13. ClaimState'
  <2> SUFFICES ASSUME NEW v \in Worker, pc'[v] \in Working
               PROVE  LET row == jobs'[JobOfTask(v)] IN
                      /\ task'[v].attempt \in 1..row.attempts
                      /\ row.status = "processing" =>
                            (task'[v].token = row.token <=> task'[v].attempt = row.attempts)
                      /\ pc'[v] = "leaving" /\ task'[v].outcome = "lost" =>
                            row.token # task'[v].token
    BY <1>5 DEF ClaimState
  <2>1. CASE v = w
    BY <1>1, <1>2, <1>4, <2>1
  <2>2. CASE v # w /\ JobOfTask(v) # j
    BY <1>4, <1>5, <1>6, <2>2 DEF ClaimState
  <2>3. CASE v # w /\ JobOfTask(v) = j
    <3>1. task[v].attempt \in 1..jobs[j].attempts /\ task[v].token <= tokenSeq
      BY <1>5, <1>7, <2>3 DEF ClaimState
    <3> QED BY <1>1, <1>4, <1>5, <1>7, <2>3, <3>1
  <2> QED BY <2>1, <2>2, <2>3
<1>14. NothingShared'
  <2>1. ASSUME NEW v \in Worker, v # w, pc[v] \in Working
        PROVE  /\ task[v].token # task'[w].token
               /\ JobOfTask(v) = j => task[v].attempt # task'[w].attempt
    <3>1. task[v].attempt \in 1..jobs[JobOfTask(v)].attempts
      BY <2>1 DEF ClaimState
    <3> QED BY <1>1, <1>2, <1>7, <2>1, <3>1
  <2> QED BY <1>5, <2>1 DEF NothingShared
<1>15. DeleteKnowledge'
  <2>1. \A v \in Worker : v # w /\ pc[v] \in Working \cup {"discarding"} => JobOfTask(v) \in Job
    BY TaskTyped DEF Working
  <2> QED BY <1>2, <1>4, <1>5, <1>9, <2>1 DEF DeleteKnowledge, Working
<1>16. ReportState'
  <2>1. ASSUME NEW k \in DOMAIN artifacts
        PROVE  /\ artifacts[k].job \in Job
               /\ artifacts[k].attempt \in 1..jobs[artifacts[k].job].attempts
    BY ArtifactTyped DEF ReportState
  <2>2. \A k \in DOMAIN artifacts : artifacts[k].attempt \in 1..jobs'[artifacts[k].job].attempts
    BY <1>8, <2>1, <1>1, <1>4
  <2>3. \A k \in DOMAIN artifacts : artifacts[k] # [job |-> j, attempt |-> jobs[j].attempts + 1]
    BY <1>1, <2>1
  <2> QED BY <1>2, <1>4, <1>5, <2>2, <2>3 DEF ReportState
<1>17. RenewalNeedsOwner'
  <2> SUFFICES ASSUME NEW h \in heartbeats', OwnsClaim(h.job, h.token)'
               PROVE  Holds(h.worker, h.job, h.token)'
    BY DEF RenewalNeedsOwner
  <2>1. CASE h = NewHeartbeat(w)
    BY <1>1, <1>2, <1>5, <1>11, <2>1, WorkerAssumption DEF Holds, NoToken
  <2>2. CASE h \in heartbeats
    <3>1. h.token \in Nat /\ h.token <= tokenSeq /\ h.job \in Job /\ h.worker \in Worker
      BY <2>2 DEF Typed, TypeOK, Heartbeat, TokenState
    <3>2. h.job # j
      BY <1>1, <1>4, <3>1 DEF OwnsClaim
    <3>3. Holds(h.worker, h.job, h.token)
      BY <1>4, <2>2, <3>1, <3>2 DEF OwnsClaim, RenewalNeedsOwner
    <3>4. h.worker # w
      BY <3>2, <3>3 DEF Holds
    <3> QED BY <1>5, <3>1, <3>3, <3>4 DEF Holds
  <2> QED BY <1>10, <2>1, <2>2
<1>18. DeletedOnlyCompleted'
  BY <1>4, <1>9, WorkerAssumption DEF DeletedOnlyCompleted
<1>19. AtomicCompletion'
  <2>1. \A i \in Job : MetadataRows(i)' = MetadataRows(i)
    BY <1>4 DEF MetadataRows
  <2> QED BY <1>4, <1>9, <2>1 DEF AtomicCompletion
<1>20. OneReportPerAttempt'
  BY <1>4 DEF OneReportPerAttempt
<1> QED
  BY <1>12, <1>13, <1>14, <1>15, <1>16, <1>17, <1>18, <1>19, <1>20

\* The row of a job whose claim is released, by completion or failure.
RowReleased(j, s) ==
    /\ jobs'[j].status = s /\ jobs'[j].token = NoToken
    /\ jobs'[j].attempts = jobs[j].attempts
    /\ \A i \in Job \ {j} : jobs'[i] = jobs[i]

\* What a release by worker w, which goes on to a place that needs no claim,
\* leaves true, whether the job is then completed or failed.
LEMMA ReleaseInv ==
  ASSUME IInv, Typed', NEW w \in Worker, NEW s \in {"completed", "failed"},
         pc[w] \in Working, OwnsClaim(JobOfTask(w), task[w].token),
         RowReleased(JobOfTask(w), s), Others(w), UNCHANGED <<tokenSeq, artifacts>>,
         heartbeats' = heartbeats,
         \/ pc'[w] = "idle" /\ task'[w] = NoTask
         \/ /\ pc'[w] = "leaving" /\ task'[w].outcome \in {"completed", "error"}
            /\ task'[w].outcome = "completed" => s = "completed"
            /\ task'[w].msg = task[w].msg /\ task'[w].token = task[w].token
            /\ task'[w].attempt = task[w].attempt
  PROVE  /\ TokenState' /\ ClaimState' /\ NothingShared' /\ DeleteKnowledge'
         /\ ReportState' /\ RenewalNeedsOwner'
<1> DEFINE j == JobOfTask(w)
<1> USE DEF IInv, Others, RowReleased
<1>1. /\ j \in Job /\ task[w].token \in Nat \ {0} /\ tokenSeq \in Nat
      /\ jobs[j].status = "processing" /\ jobs[j].token = task[w].token
  BY TaskTyped DEF Working, Shape, OwnsClaim, NoToken, Typed, TypeOK, StoreTypeOK
<1>2. \A v \in Worker : pc[v] \in Working => JobOfTask(v) \in Job /\ task[v].token # NoToken
  BY TaskTyped DEF Working, Shape
<1>3. \A v \in Worker \ {w} : JobOfTask(v)' = JobOfTask(v)
  BY DEF JobOfTask
<1>4. pc'[w] = "leaving" => JobOfTask(w)' = j
  BY DEF JobOfTask
<1>5. NoTask.token = NoToken
  BY DEF NoTask, NewTask
<1>6. TokenState'
  <2>1. \A i \in Job : /\ jobs'[i].status = "processing" <=> jobs'[i].token # NoToken
                       /\ jobs'[i].token <= tokenSeq'
    BY <1>1 DEF TokenState, NoToken
  <2>2. \A v \in Worker : task'[v].token <= tokenSeq'
    BY <1>1, <1>5 DEF TokenState, NoToken
  <2> QED BY <2>1, <2>2 DEF TokenState
<1>7. ClaimState'
  <2> SUFFICES ASSUME NEW v \in Worker, pc'[v] \in Working
               PROVE  LET row == jobs'[JobOfTask(v)'] IN
                      /\ task'[v].attempt \in 1..row.attempts
                      /\ row.status = "processing" =>
                            (task'[v].token = row.token <=> task'[v].attempt = row.attempts)
                      /\ pc'[v] = "leaving" /\ task'[v].outcome = "lost" =>
                            row.token # task'[v].token
    BY DEF ClaimState
  <2>1. pc[v] \in Working /\ JobOfTask(v)' = JobOfTask(v) /\ JobOfTask(v) \in Job
        /\ task'[v].attempt = task[v].attempt /\ task'[v].token = task[v].token
        /\ task[v].token # NoToken
    BY <1>2, <1>3, <1>4 DEF Working
  <2>2. CASE JobOfTask(v) = j
    BY <2>1, <2>2 DEF ClaimState
  <2>3. CASE JobOfTask(v) # j
    BY <2>1, <2>3 DEF ClaimState
  <2> QED BY <2>2, <2>3
<1>8. NothingShared'
  <2>1. \A v \in Worker : pc'[v] \in Working =>
           /\ pc[v] \in Working /\ JobOfTask(v)' = JobOfTask(v)
           /\ task'[v].attempt = task[v].attempt /\ task'[v].token = task[v].token
    BY <1>3, <1>4 DEF Working
  <2> QED BY <2>1 DEF NothingShared
<1>9. DeleteKnowledge'
  <2>1. \A v \in Worker \ {w} : pc[v] \in Working \cup {"discarding"} => JobOfTask(v) \in Job
    BY TaskTyped DEF Working
  <2> QED BY <1>1, <1>3, <1>4, <2>1 DEF DeleteKnowledge, Working
<1>10. ReportState'
  <2>1. \A k \in DOMAIN artifacts : artifacts[k].job \in Job
    BY ArtifactTyped
  <2> QED BY <1>1, <1>3, <2>1 DEF ReportState
<1>11. RenewalNeedsOwner'
  <2> SUFFICES ASSUME NEW h \in heartbeats, OwnsClaim(h.job, h.token)'
               PROVE  Holds(h.worker, h.job, h.token)'
    BY DEF RenewalNeedsOwner
  <2>1. h.job \in Job /\ h.worker \in Worker /\ h.token # NoToken
    BY DEF Typed, TypeOK, Heartbeat, TokenState
  <2>2. h.job # j
    BY <1>1, <2>1 DEF OwnsClaim
  <2>3. OwnsClaim(h.job, h.token)
    BY <2>1, <2>2 DEF OwnsClaim
  <2>4. Holds(h.worker, h.job, h.token)
    BY <2>3 DEF RenewalNeedsOwner
  <2>5. h.worker # w
    BY <2>2, <2>4 DEF Holds
  <2> QED BY <1>3, <2>1, <2>4, <2>5 DEF Holds
<1> QED BY <1>6, <1>7, <1>8, <1>9, <1>10, <1>11

\* The audit trail of a job that has been created and then completed.
LEMMA CompletedTrail == Append(<<"created">>, "completed") = <<"created", "completed">>
<1> DEFINE S == {"created", "completed"}
           s == <<"created">>
           t == <<"created", "completed">>
           u == Append(s, "completed")
<1>1. s \in Seq(S) /\ Len(s) = 1 /\ s[1] = "created"
  OBVIOUS
<1>2. t \in Seq(S)
  OBVIOUS
<1>3. Len(t) = 2 /\ t[1] = "created" /\ t[2] = "completed"
  OBVIOUS
<1>4. u \in Seq(S) /\ Len(u) = 2 /\ u[1] = "created" /\ u[2] = "completed"
  BY <1>1, AppendProperties
<1>5. Len(u) = Len(t) /\ \A i \in 1..Len(u) : u[i] = t[i]
  BY <1>3, <1>4
<1> HIDE DEF S, t, u
<1>6. u = t
  BY <1>2, <1>4, <1>5, SeqEqual
<1> QED BY <1>6 DEF t, u

\* A completion that commits.
LEMMA CompleteInv ==
  ASSUME IInv, Typed', NEW w \in Worker, NEW o \in {"completed", "error"},
         pc[w] = "reported",
         CompleteJobWithReport(JobOfTask(w), task[w].token, task[w].key),
         EndWith(w, o), UNCHANGED <<msgs, heartbeats, artifacts, crashes>>
  PROVE  IInv'
<1> DEFINE j == JobOfTask(w)
<1> USE DEF IInv
<1>1. /\ pc[w] \in Working /\ j \in Job /\ OwnsClaim(j, task[w].token) /\ task[w] \in Task
  BY TaskTyped DEF Working, CompleteJobWithReport
<1>2. Others(w) /\ pc'[w] = "leaving" /\ task'[w] = [task[w] EXCEPT !.outcome = o]
  BY DEF EndWith, Goto, Others, Typed, TypeOK
<1>3. /\ task'[w].outcome = o /\ task'[w].msg = task[w].msg
      /\ task'[w].token = task[w].token /\ task'[w].attempt = task[w].attempt
  BY <1>1, <1>2 DEF Task
<1>4. RowReleased(j, "completed")
  BY <1>1 DEF CompleteJobWithReport, Released, RowReleased, Typed, TypeOK, StoreTypeOK, JobRow
<1>5. /\ TokenState' /\ ClaimState' /\ NothingShared' /\ DeleteKnowledge'
      /\ ReportState' /\ RenewalNeedsOwner'
  BY <1>1, <1>2, <1>3, <1>4, ReleaseInv DEF CompleteJobWithReport
<1>6. DeletedOnlyCompleted'
  BY <1>4, WorkerAssumption DEF DeletedOnlyCompleted, RowReleased
<1>7. AtomicCompletion'
  <2>1. /\ jobResults'[j] = task[w].key
        /\ auditEvents'[j] = Append(auditEvents[j], "completed")
        /\ \A i \in Job \ {j} : /\ jobResults'[i] = jobResults[i]
                                /\ auditEvents'[i] = auditEvents[i]
    BY <1>1 DEF CompleteJobWithReport, Typed, TypeOK, StoreTypeOK
  <2>2. \A i \in Job : MetadataRows(i)' = MetadataRows(i) \cup
                             (IF i = j THEN {<<i, task[w].key>>} ELSE {})
    <3>1. objectMetadata' = objectMetadata \cup {<<j, task[w].key>>}
      BY DEF CompleteJobWithReport
    <3>2. <<j, task[w].key>>[1] = j
      OBVIOUS
    <3> QED BY <3>1, <3>2 DEF MetadataRows
  <2>3. jobs[j].status = "processing" /\ jobs[j].token = task[w].token
    BY <1>1 DEF OwnsClaim
  <2>4. task[w].attempt = jobs[j].attempts
    BY <1>1, <2>3 DEF ClaimState
  <2>5. /\ task[w].key \in DOMAIN artifacts
        /\ artifacts[task[w].key] = [job |-> j, attempt |-> jobs[j].attempts]
    BY <2>4 DEF ReportState
  <2>6. MetadataRows(j) = {} /\ auditEvents[j] = <<"created">>
    BY <1>1, <2>3 DEF AtomicCompletion
  <2>7. auditEvents'[j] = <<"created", "completed">>
    BY <2>1, <2>6, CompletedTrail
  <2>8. ASSUME NEW i \in Job \ {j}
        PROVE  jobs'[i] = jobs[i]
    BY <1>4 DEF RowReleased
  <2>9. jobs'[j].status = "completed" /\ jobs'[j].attempts = jobs[j].attempts
    BY <1>4 DEF RowReleased
  <2> SUFFICES ASSUME NEW i \in Job
               PROVE  IF jobs'[i].status = "completed"
                      THEN /\ jobResults'[i] \in DOMAIN artifacts
                           /\ artifacts[jobResults'[i]] = [job |-> i, attempt |-> jobs'[i].attempts]
                           /\ MetadataRows(i)' = {<<i, jobResults'[i]>>}
                           /\ auditEvents'[i] = <<"created", "completed">>
                      ELSE /\ jobResults'[i] = NoKey
                           /\ MetadataRows(i)' = {}
                           /\ auditEvents'[i] = IF jobs'[i].status = "absent" THEN <<>>
                                                ELSE <<"created">>
    BY DEF AtomicCompletion
  <2>10. CASE i = j
    BY <2>1, <2>2, <2>5, <2>6, <2>7, <2>9, <2>10
  <2>11. CASE i # j
    BY <2>1, <2>2, <2>8, <2>11 DEF AtomicCompletion
  <2> QED BY <2>10, <2>11
<1>8. OneReportPerAttempt'
  BY DEF OneReportPerAttempt
<1> QED BY <1>5, <1>6, <1>7, <1>8

\* A failure recorded by the owner of the claim.
LEMMA FailInv ==
  ASSUME IInv, Typed', NEW w \in Worker, Fail(w), OwnsClaim(JobOfTask(w), task[w].token)
  PROVE  IInv'
<1> DEFINE j == JobOfTask(w)
<1> USE DEF IInv
<1>1. pc[w] \in Working /\ j \in Job
  BY TaskTyped DEF Fail, Working
<1>2. Others(w) /\ pc'[w] = "idle" /\ task'[w] = NoTask
  BY DEF Fail, BackToIdle, Goto, Others, Typed, TypeOK
<1>3. RowReleased(j, "failed") /\ jobs[j].status = "processing"
  BY <1>1 DEF Fail, FailJob, Released, RowReleased, OwnsClaim, Typed, TypeOK, StoreTypeOK, JobRow
<1>4. UNCHANGED <<jobResults, objectMetadata, auditEvents, tokenSeq, msgs, heartbeats, artifacts>>
  BY DEF Fail, FailJob
<1>5. /\ TokenState' /\ ClaimState' /\ NothingShared' /\ DeleteKnowledge'
      /\ ReportState' /\ RenewalNeedsOwner'
  BY <1>1, <1>2, <1>3, <1>4, ReleaseInv
<1>6. DeletedOnlyCompleted'
  BY <1>3, <1>4, WorkerAssumption DEF DeletedOnlyCompleted, RowReleased
<1>7. AtomicCompletion'
  <2>1. \A i \in Job : MetadataRows(i)' = MetadataRows(i)
    BY <1>4 DEF MetadataRows
  <2> QED BY <1>3, <1>4, <2>1 DEF AtomicCompletion, RowReleased
<1>8. OneReportPerAttempt'
  BY <1>4 DEF OneReportPerAttempt
<1> QED BY <1>5, <1>6, <1>7, <1>8

\* Deleting a message of a job known to be completed.
LEMMA SafeDelete ==
  ASSUME IInv, NEW w \in Worker, pc[w] \in {"deleting", "discarding"},
         DeleteMessage(task[w].msg, task[w].rcpt) \/ UNCHANGED msgs
  PROVE  DeletesCompleted
<1>1. task[w].msg \in Message
  BY TaskTyped DEF IInv
<1>2. jobs[JobOf[task[w].msg]].status = "completed"
  BY DEF IInv, DeleteKnowledge, JobOfTask
<1> QED
  BY <1>1, <1>2 DEF DeleteMessage, DeletesCompleted, IInv, Typed, TypeOK, QueueTypeOK

\* The environment's steps keep the invariant.
LEMMA EnvironmentInv ==
  ASSUME IInv, Typed', Environment
  PROVE  IInv'
<1>1. ASSUME NEW j \in Job, Submit(j) \/ LeaseClock(j)
      PROVE  IInv'
  <2>1. \A i \in Job : RowKept(i)
    <3>1. jobs \in [Job -> JobRow] /\ DOMAIN auditEvents = Job
      BY DEF IInv, Typed, TypeOK, StoreTypeOK
    <3>2. CASE Submit(j)
      BY <3>1, <3>2 DEF Submit, CreateJob, RowKept, JobRow
    <3>3. CASE LeaseClock(j)
      BY <3>1, <3>3 DEF LeaseClock, LeaseExpires, RowKept, JobRow
    <3> QED BY <1>1, <3>2, <3>3
  <2>2. UNCHANGED <<msgs, pc, task, heartbeats, artifacts, jobResults, objectMetadata, tokenSeq>>
    BY <1>1 DEF Submit, LeaseClock, CreateJob, LeaseExpires, workerVars
  <2> QED BY <2>1, <2>2, BackgroundInv
<1>2. ASSUME NEW m \in Message, Dispatch(m) \/ VisibilityClock(m) \/ Redrive(m)
      PROVE  IInv'
  <2>1. UNCHANGED <<storeVars, workerVars>>
    BY <1>2 DEF Dispatch, VisibilityClock, Redrive
  <2>2. \A n \in Message : msgs'[n].state = "deleted" => msgs[n].state = "deleted"
    BY <1>2
    DEF Dispatch, VisibilityClock, Redrive, SendMessage, VisibilityTimeoutEnds,
        MoveToDeadLetter, IInv, Typed, TypeOK, QueueTypeOK
  <2> QED BY <2>1, <2>2, BackgroundInv DEF RowKept, storeVars, workerVars
<1> QED BY <1>1, <1>2 DEF Environment

\* The steps of consume_one_message keep the invariant.
LEMMA ConsumeInv ==
  ASSUME IInv, Typed', NEW w \in Worker, Consume(w)
  PROVE  IInv'
<1> USE DEF IInv
<1>1. UNCHANGED heartbeats => NoNewHeartbeat
  BY DEF NoNewHeartbeat
<1>2. UNCHANGED msgs => DeletesCompleted
  BY DEF DeletesCompleted
<1>3. ASSUME NEW l, pc' = [pc EXCEPT ![w] = l], NEW t, task' = [task EXCEPT ![w] = t]
      PROVE  Others(w) /\ pc'[w] = l /\ task'[w] = t
  BY <1>3 DEF Others, Typed, TypeOK
<1>4. task' = task => task' = [task EXCEPT ![w] = task[w]]
  BY DEF Typed, TypeOK
<1>5. /\ task[w] \in Task
      /\ pc[w] \notin Working => \A h : ~Holds(w, h.job, h.token)
  <2>1. task[w] \in Task /\ Shape(pc[w], task[w])
    BY TaskTyped
  <2> QED BY <2>1 DEF Shape, Holds
<1>6. ASSUME NEW m \in Message, Receive(w, m)
      PROVE  IInv'
  <2>1. Others(w) /\ pc'[w] = "received" /\ pc[w] = "idle"
    BY <1>3, <1>6 DEF Receive, Goto
  <2>2. DeletesCompleted
    BY <1>6 DEF Receive, ReceiveMessage, DeletesCompleted, Typed, TypeOK, QueueTypeOK
  <2> QED BY <1>1, <1>5, <1>6, <2>1, <2>2, ReturnInv DEF Receive, Working
<1>7. ASSUME NEW m \in Message, ReceiveRaises(w, m)
      PROVE  IInv'
  <2>1. UNCHANGED <<storeVars, workerVars>>
    BY <1>7 DEF ReceiveRaises
  <2>2. \A n \in Message : msgs'[n].state = "deleted" => msgs[n].state = "deleted"
    BY <1>7 DEF ReceiveRaises, ReceiveMessage, Typed, TypeOK, QueueTypeOK
  <2> QED BY <2>1, <2>2, BackgroundInv DEF RowKept, storeVars, workerVars
<1>8. ASSUME Claim(w)
      PROVE  IInv'
  BY <1>8, ClaimInv
<1>9. ASSUME ClaimRefused(w) \/ FindCompleted(w)
      PROVE  IInv'
  <2>1. /\ pc[w] \notin Working /\ pc'[w] \notin Working /\ Others(w) /\ task'[w] = task[w]
        /\ UNCHANGED <<storeVars, msgs, heartbeats, artifacts>>
    BY <1>3, <1>4, <1>9 DEF ClaimRefused, FindCompleted, Goto, Working
  <2>2. pc'[w] = "discarding" => jobs[JobOf[task'[w].msg]].status = "completed"
    BY <1>3, <1>4, <1>9, <2>1 DEF ClaimRefused, FindCompleted, Goto, JobOfTask
  <2> QED BY <1>1, <1>2, <1>5, <2>1, <2>2, ReturnInv
<1>10. ASSUME FindInProgress(w) \/ DiscardDuplicate(w) \/ Delete(w)
       PROVE  IInv'
  <2>1. /\ pc[w] \in {"refused", "discarding", "deleting"}
        /\ pc'[w] = "idle" /\ Others(w) /\ UNCHANGED <<storeVars, heartbeats, artifacts>>
    BY <1>3, <1>10 DEF FindInProgress, DiscardDuplicate, Delete, BackToIdle, Goto
  <2>2. DeletesCompleted
    BY <1>2, <1>10, SafeDelete DEF FindInProgress, DiscardDuplicate, Delete
  <2>3. \A h : Holds(w, h.job, h.token) => ~OwnsClaim(h.job, h.token)
    BY <1>5, <2>1 DEF DeleteKnowledge, Holds, OwnsClaim, Working
  <2> QED BY <1>1, <2>1, <2>2, <2>3, ReturnInv DEF Working
<1>11. ASSUME PutReport(w)
       PROVE  IInv'
  <2>1. /\ pc[w] = "reporting" /\ pc'[w] = "reported" /\ Others(w)
        /\ task'[w] = [task[w] EXCEPT !.key = Len(artifacts) + 1]
        /\ StoreArtifact(w) /\ UNCHANGED <<storeVars, msgs, heartbeats>>
    BY <1>3, <1>11 DEF PutReport, Goto
  <2>2. /\ task'[w].key = Len(artifacts) + 1 /\ task'[w].msg = task[w].msg
        /\ task'[w].token = task[w].token /\ task'[w].attempt = task[w].attempt
    BY <1>5, <2>1 DEF Task
  <2> QED BY <1>1, <1>2, <2>1, <2>2, WorkInv DEF Working
<1>12. ASSUME NEW o \in Outcome, EndWith(w, o)
       PROVE  /\ Others(w) /\ pc'[w] = "leaving" /\ task'[w].outcome = o
              /\ task'[w].msg = task[w].msg /\ task'[w].token = task[w].token
              /\ task'[w].attempt = task[w].attempt
  <2>1. Others(w) /\ pc'[w] = "leaving" /\ task'[w] = [task[w] EXCEPT !.outcome = o]
    BY <1>3, <1>12 DEF EndWith, Goto
  <2> QED BY <1>5, <2>1 DEF Task
<1>13. "lost" \in Outcome /\ "error" \in Outcome /\ "completed" \in Outcome
  BY DEF Outcome
<1>14. ASSUME PutReportRaises(w)
       PROVE  IInv'
  <2>1. /\ pc[w] = "reporting" /\ EndWith(w, "error")
        /\ UNCHANGED <<storeVars, msgs, heartbeats>>
        /\ StoreArtifact(w) \/ UNCHANGED artifacts
    BY <1>14 DEF PutReportRaises
  <2> QED BY <1>1, <1>2, <1>12, <1>13, <2>1, WorkInv DEF Working
<1>15. ASSUME CompleteFenced(w)
       PROVE  IInv'
  <2>1. /\ pc[w] = "reported" /\ ~OwnsClaim(JobOfTask(w), task[w].token)
        /\ EndWith(w, "lost") /\ UNCHANGED <<storeVars, msgs, heartbeats, artifacts>>
    BY <1>15 DEF CompleteFenced
  <2>2. jobs[JobOfTask(w)].token # task[w].token
    <3>1. JobOfTask(w) \in Job /\ task[w].token # NoToken
      BY <2>1, TaskTyped DEF Shape, Working
    <3> QED BY <2>1, <3>1 DEF OwnsClaim, TokenState
  <2> QED BY <1>1, <1>2, <1>12, <1>13, <2>1, <2>2, WorkInv DEF Working
<1>16. ASSUME CompleteRaises(w), UNCHANGED storeVars
       PROVE  IInv'
  <2>1. /\ pc[w] = "reported" /\ EndWith(w, "error")
        /\ UNCHANGED <<msgs, heartbeats, artifacts>>
    BY <1>16 DEF CompleteRaises
  <2> QED BY <1>1, <1>2, <1>12, <1>13, <1>16, <2>1, WorkInv DEF Working
<1>17. ASSUME Complete(w) \/ CompleteRaises(w), ~UNCHANGED storeVars
       PROVE  IInv'
  BY <1>17, CompleteInv DEF Complete, CompleteRaises
<1>18. ASSUME Complete(w), UNCHANGED storeVars
       PROVE  IInv'
  BY <1>18, CompleteInv DEF Complete
<1>19. ASSUME Leave(w)
       PROVE  IInv'
  <2>1. /\ pc[w] = "leaving" /\ UNCHANGED <<storeVars, msgs, artifacts>>
        /\ NoNewHeartbeat /\ DeletesCompleted
    BY <1>2, <1>19 DEF Leave, StopHeartbeat, NoNewHeartbeat, Typed, TypeOK, Heartbeat
  <2>2. CASE task[w].outcome \in {"completed", "error"}
    <3>1. Others(w) /\ task'[w] = task[w]
          /\ pc'[w] = IF task[w].outcome = "completed" THEN "deleting" ELSE "failing"
      BY <1>3, <1>4, <1>19, <2>2 DEF Leave, Goto
    <3>2. pc'[w] = "deleting" => jobs[JobOfTask(w)].status = "completed"
      BY <2>1, <2>2, <3>1 DEF DeleteKnowledge
    <3> QED BY <2>1, <3>1, <3>2, WorkInv DEF Working
  <2>3. CASE task[w].outcome = "lost"
    <3>1. Others(w) /\ pc'[w] = "idle"
      BY <1>3, <1>19, <2>3 DEF Leave, BackToIdle, Goto
    <3>2. jobs[JobOfTask(w)].token # task[w].token
      BY <2>1, <2>3 DEF ClaimState, Working
    <3>3. \A h : Holds(w, h.job, h.token) => ~OwnsClaim(h.job, h.token)
      BY <3>2 DEF Holds, OwnsClaim
    <3> QED BY <2>1, <3>1, <3>3, ReturnInv DEF Working
  <2>4. task[w].outcome \in {"completed", "error", "lost"}
    BY <1>5, <2>1, TaskTyped DEF Shape, Task, Outcome
  <2> QED BY <2>2, <2>3, <2>4
<1>20. ASSUME DeleteRaises(w)
       PROVE  IInv'
  <2>1. /\ pc[w] = "deleting" /\ pc'[w] = "failing" /\ Others(w) /\ task'[w] = task[w]
        /\ UNCHANGED <<storeVars, heartbeats, artifacts>>
    BY <1>3, <1>4, <1>20 DEF DeleteRaises, Goto
  <2>2. DeletesCompleted
    BY <1>20, <2>1, SafeDelete DEF DeleteRaises
  <2> QED BY <1>1, <2>1, <2>2, WorkInv DEF Working
<1>21. ASSUME Fail(w)
       PROVE  IInv'
  <2>1. CASE OwnsClaim(JobOfTask(w), task[w].token)
    BY <1>21, <2>1, FailInv
  <2>2. CASE ~OwnsClaim(JobOfTask(w), task[w].token)
    <3>1. /\ pc'[w] = "idle" /\ Others(w)
          /\ UNCHANGED <<storeVars, msgs, heartbeats, artifacts>>
      BY <1>3, <1>21, <2>2 DEF Fail, FailJob, BackToIdle, Goto, storeVars
    <3>2. \A h : Holds(w, h.job, h.token) => ~OwnsClaim(h.job, h.token)
      BY <2>2 DEF Holds
    <3> QED BY <1>1, <1>2, <3>1, <3>2, ReturnInv DEF Working
  <2> QED BY <2>1, <2>2
<1> QED
  BY <1>6, <1>7, <1>8, <1>9, <1>10, <1>11, <1>14, <1>15, <1>16, <1>17, <1>18, <1>19, <1>20,
     <1>21 DEF Consume

\* The heartbeat threads: one that renews a claim was its worker's before.
LEMMA BeatInv ==
  ASSUME IInv, Typed', NEW h \in heartbeats, Beat(h)
  PROVE  IInv'
<1>1. h.job \in Job
  BY DEF IInv, Typed, TypeOK, Heartbeat
<1>2. \A j \in Job : RowKept(j)
  <2>1. jobs \in [Job -> JobRow]
    BY DEF IInv, Typed, TypeOK, StoreTypeOK
  <2>2. CASE UNCHANGED storeVars
    BY <2>2 DEF RowKept, storeVars
  <2>3. CASE RenewJobProcessingLease(h.job, h.token)
    BY <1>1, <2>1, <2>3 DEF RenewJobProcessingLease, RowKept, JobRow
  <2> QED BY <2>2, <2>3 DEF Beat, HeartbeatFires, HeartbeatRenews, HeartbeatEnds
<1>3. UNCHANGED <<msgs, pc, task, artifacts, jobResults, objectMetadata, tokenSeq>>
  BY DEF Beat, HeartbeatFires, HeartbeatRenews, HeartbeatEnds, RenewJobProcessingLease, storeVars
<1>4. \A g \in heartbeats' : \E f \in heartbeats :
         g.worker = f.worker /\ g.job = f.job /\ g.token = f.token
  <2>1. h \in Heartbeat
    BY DEF IInv, Typed, TypeOK
  <2>2. \A l \in {"waiting", "renewing"} :
           /\ [h EXCEPT !.at = l].worker = h.worker /\ [h EXCEPT !.at = l].job = h.job
           /\ [h EXCEPT !.at = l].token = h.token
    BY <2>1 DEF Heartbeat
  <2>3. heartbeats' \subseteq heartbeats \cup {[h EXCEPT !.at = "waiting"], [h EXCEPT !.at = "renewing"]}
    BY DEF Beat, HeartbeatFires, HeartbeatRenews, HeartbeatEnds
  <2> QED BY <2>2, <2>3
<1> QED BY <1>2, <1>3, <1>4, BackgroundInv

\* Crashes and restarts: the worker has no claim afterwards.
LEMMA ProcessInv ==
  ASSUME IInv, Typed', NEW w \in Worker, Crash(w) \/ Restart(w)
  PROVE  IInv'
<1>1. /\ Others(w) /\ pc'[w] \in {"idle", "down"} /\ UNCHANGED <<storeVars, msgs, artifacts>>
  BY DEF Crash, Restart, Goto, Others, IInv, Typed, TypeOK
<1>2. NoNewHeartbeat /\ DeletesCompleted
  BY DEF Crash, Restart, NoNewHeartbeat, DeletesCompleted
<1>3. \A h \in heartbeats' : h.worker = w => ~Holds(w, h.job, h.token)
  <2>1. CASE Crash(w)
    BY <2>1 DEF Crash
  <2>2. CASE Restart(w)
    BY <2>2, TaskTyped DEF Restart, Holds, Shape, Working, IInv
  <2> QED BY <2>1, <2>2
<1> QED BY <1>1, <1>2, <1>3, ReturnInv DEF Working

\* The invariant is inductive.
LEMMA InvStep ==
  ASSUME IInv, [Next]_vars
  PROVE  IInv'
<1>1. Typed'
  BY TypedStep DEF IInv
<1>2. CASE UNCHANGED vars
  <2>1. UNCHANGED <<pc, task, artifacts, jobs, jobResults, objectMetadata, auditEvents, tokenSeq,
                    heartbeats, msgs>>
    BY <1>2 DEF vars, storeVars, workerVars
  <2> QED BY <1>1, <2>1, BackgroundInv DEF RowKept
<1> QED
  BY <1>1, <1>2, EnvironmentInv, ConsumeInv, BeatInv, ProcessInv DEF Next

\* The inductive invariant holds of every reachable state of the worker pool.
THEOREM Invariance == Spec => []IInv
  BY InvInit, InvStep, PTL DEF Spec

-----------------------------------------------------------------------------
(* The properties.                                                         *)

\* A job and its result, metadata row and audit row are completed together, and
\* with the stored report of the job's last attempt.
THEOREM CompletionIsAtomic == Spec => []AtomicCompletion
  BY Invariance, PTL DEF IInv

\* Among the workers busy with a job, only the one of the last attempt holds
\* the row's token, and no two hold it.
THEOREM ClaimsAreFenced == Spec => []FencedClaims
<1>1. IInv => FencedClaims
  <2> SUFFICES ASSUME IInv, NEW j \in Job, jobs[j].status = "processing"
               PROVE  /\ \A w \in Worker : task[w].token # NoToken /\ JobOfTask(w) = j =>
                            (task[w].token = jobs[j].token <=> task[w].attempt = jobs[j].attempts)
                      /\ \A v, w \in Worker :
                            Holds(v, j, jobs[j].token) /\ Holds(w, j, jobs[j].token) => v = w
    BY DEF FencedClaims
  <2>1. \A w \in Worker : task[w].token # NoToken => pc[w] \in Working
    BY DEF IInv, Typed, TaskShape, Shape
  <2> QED BY <2>1 DEF IInv, ClaimState, NothingShared, Holds
<1> QED BY <1>1, Invariance, PTL

\* A heartbeat thread only renews the claim of a worker that is on that job.
THEOREM RenewalsHaveOwners == Spec => []RenewalNeedsOwner
  BY Invariance, PTL DEF IInv

\* A message is deleted only when its job is completed.
THEOREM DeletesAreSafe == Spec => []DeletedOnlyCompleted
  BY Invariance, PTL DEF IInv

\* No attempt stores two reports.
THEOREM ReportsAreUnique == Spec => []OneReportPerAttempt
  BY Invariance, PTL DEF IInv

\* What get_job shows of a job, and its audit trail, stay as they are.
CompletedStays(j) ==
    /\ jobs'[j] = jobs[j]
    /\ jobResults'[j] = jobResults[j]
    /\ MetadataRows(j)' = MetadataRows(j)
    /\ auditEvents'[j] = auditEvents[j]

\* A transaction on any job leaves what a completed job shows alone.
LEMMA CompletedKept ==
  ASSUME StoreTypeOK, NEW j \in Job, NEW k \in Job, NEW t, NEW key,
         jobs[j].status = "completed",
         \/ CreateJob(k) \/ MarkJobProcessing(k) \/ RenewJobProcessingLease(k, t)
         \/ CompleteJobWithReport(k, t, key) \/ FailJob(k, t) \/ LeaseExpires(k)
  PROVE  CompletedStays(j)
<1> USE DEF StoreTypeOK, CompletedStays
<1>1. CASE k = j
  BY <1>1 DEF CreateJob, MarkJobProcessing, Claimable, RenewJobProcessingLease,
              CompleteJobWithReport, FailJob, LeaseExpires, OwnsClaim, MetadataRows
<1>2. CASE k # j /\ CompleteJobWithReport(k, t, key)
  <2>1. MetadataRows(j)' = MetadataRows(j)
    BY <1>2 DEF CompleteJobWithReport, MetadataRows
  <2> QED BY <1>2, <2>1 DEF CompleteJobWithReport
<1>3. CASE k # j /\ ~CompleteJobWithReport(k, t, key)
  BY <1>3 DEF CreateJob, MarkJobProcessing, RenewJobProcessingLease, FailJob, LeaseExpires,
              MetadataRows
<1> QED BY <1>1, <1>2, <1>3

\* A completed job never changes again: no late completion, failure, claim or
\* renewal of another attempt has an effect on it.
THEOREM CompletionIsFinal == Spec => CompletedIsFinal
<1>1. ASSUME Typed, [Next]_vars, NEW j \in Job, jobs[j].status = "completed"
      PROVE  CompletedStays(j)
  <2>1. CASE UNCHANGED storeVars
    BY <2>1 DEF storeVars, CompletedStays, MetadataRows
  <2>2. CASE UNCHANGED vars
    BY <2>1, <2>2 DEF vars
  <2>3. StoreTypeOK
    BY <1>1 DEF Typed, TypeOK
  <2>4. CASE Environment
    BY <1>1, <2>1, <2>3, <2>4, CompletedKept
    DEF Environment, Submit, LeaseClock, Dispatch, VisibilityClock, Redrive
  <2>5. ASSUME NEW w \in Worker, Consume(w), ~UNCHANGED storeVars
        PROVE  CompletedStays(j)
    <3>1. pc[w] \notin {"idle", "down"}
      BY <2>5 DEF Consume, Receive, ReceiveRaises, Claim, ClaimRefused, FindCompleted,
           FindInProgress, DiscardDuplicate, PutReport, PutReportRaises, Complete,
           CompleteFenced, CompleteRaises, Leave, Delete, DeleteRaises, Fail
    <3>2. JobOfTask(w) \in Job
      BY <1>1, <3>1, TaskTyped
    <3>3. \/ MarkJobProcessing(JobOfTask(w)) \/ FailJob(JobOfTask(w), task[w].token)
          \/ CompleteJobWithReport(JobOfTask(w), task[w].token, task[w].key)
      BY <2>5 DEF Consume, Receive, ReceiveRaises, Claim, ClaimRefused, FindCompleted,
           FindInProgress, DiscardDuplicate, PutReport, PutReportRaises, Complete,
           CompleteFenced, CompleteRaises, Leave, Delete, DeleteRaises, Fail
    <3> QED BY <1>1, <2>3, <3>2, <3>3, CompletedKept
  <2>6. ASSUME NEW w \in Worker, Crash(w) \/ Restart(w)
        PROVE  CompletedStays(j)
    BY <2>1, <2>6 DEF Crash, Restart
  <2>7. ASSUME NEW h \in heartbeats, Beat(h)
        PROVE  CompletedStays(j)
    <3>1. h.job \in Job
      BY <1>1 DEF Typed, TypeOK, Heartbeat
    <3>2. UNCHANGED storeVars \/ RenewJobProcessingLease(h.job, h.token)
      BY <2>7 DEF Beat, HeartbeatFires, HeartbeatRenews, HeartbeatEnds
    <3> QED BY <1>1, <2>1, <2>3, <3>1, <3>2, CompletedKept
  <2> QED BY <1>1, <2>1, <2>2, <2>4, <2>5, <2>6, <2>7 DEF Next
<1>2. Typed /\ [Next]_vars
      => [\A j \in Job : jobs[j].status = "completed" =>
            /\ jobs'[j] = jobs[j]
            /\ jobResults'[j] = jobResults[j]
            /\ MetadataRows(j)' = MetadataRows(j)
            /\ auditEvents'[j] = auditEvents[j]]_vars
  BY <1>1 DEF CompletedStays
<1>3. IInv => Typed
  BY DEF IInv
<1> QED BY <1>2, <1>3, Invariance, PTL DEF Spec, CompletedIsFinal

-----------------------------------------------------------------------------
(* Steps.  What the inductive invariant says of the steps of the worker    *)
(* pool: who may end a claim, that no worker keeps one, and that every     *)
(* step is a step of module JobLifecycle, or none.  The proofs go over     *)
(* what a step can do to the tables and the artifact store (Effect), not   *)
(* over the actions one by one.                                            *)

\* Worker w, at l, runs a transaction on the job it holds.
Finishes(w) ==
    /\ OwnsClaim(JobOfTask(w), task[w].token)
    /\ \/ /\ pc[w] = "reported" /\ pc'[w] = "leaving"
          /\ CompleteJobWithReport(JobOfTask(w), task[w].token, task[w].key)
       \/ /\ pc[w] = "failing" /\ pc'[w] = "idle"
          /\ FailJob(JobOfTask(w), task[w].token)

\* A transaction that changes nothing but the expired flag of a row.
MovesLease == \E j \in Job : LeaseExpires(j) \/ \E t \in Nat : RenewJobProcessingLease(j, t)

Effect ==
    \/ UNCHANGED <<storeVars, artifacts>>
    \/ \E w \in Worker : pc[w] = "reporting" /\ StoreArtifact(w) /\ UNCHANGED storeVars
    \/ /\ UNCHANGED artifacts
       /\ \/ MovesLease
          \/ \E j \in Job : Submit(j)
          \/ \E w \in Worker : Claim(w)
          \/ \E w \in Worker : Finishes(w)

\* Every step has one of these effects on the tables and the artifact store.
LEMMA StepEffect ==
  ASSUME Typed, [Next]_vars
  PROVE  Effect
<1>1. ASSUME UNCHANGED <<storeVars, artifacts>>
      PROVE  Effect
  BY <1>1 DEF Effect
<1>2. CASE UNCHANGED vars
  BY <1>1, <1>2 DEF vars, workerVars
<1>3. ASSUME NEW j \in Job, Submit(j) \/ LeaseClock(j)
      PROVE  Effect
  BY <1>3 DEF Submit, LeaseClock, Effect, MovesLease, workerVars
<1>4. ASSUME NEW m \in Message, Dispatch(m) \/ VisibilityClock(m) \/ Redrive(m)
      PROVE  Effect
  BY <1>1, <1>4 DEF Dispatch, VisibilityClock, Redrive, workerVars
<1>5. ASSUME NEW w \in Worker, Consume(w)
      PROVE  Effect
  <2>1. ASSUME NEW l, Goto(w, l)
        PROVE  pc'[w] = l
    BY <2>1 DEF Goto, Typed, TypeOK
  <2>2. CASE Claim(w)
    <3>1. UNCHANGED artifacts
      BY <2>2 DEF Claim
    <3> QED BY <2>2, <3>1 DEF Effect
  <2>3. CASE PutReport(w) \/ PutReportRaises(w)
    BY <1>1, <2>3 DEF PutReport, PutReportRaises, Effect
  <2>4. CASE Complete(w) \/ CompleteRaises(w)
    <3>1. pc[w] = "reported" /\ pc'[w] = "leaving" /\ UNCHANGED artifacts
      BY <2>1, <2>4 DEF Complete, CompleteRaises, EndWith
    <3>2. CASE CompleteJobWithReport(JobOfTask(w), task[w].token, task[w].key)
      <4>1. Finishes(w)
        BY <3>1, <3>2 DEF Finishes, CompleteJobWithReport
      <4> QED BY <3>1, <4>1 DEF Effect
    <3>3. CASE UNCHANGED storeVars
      BY <1>1, <3>1, <3>3
    <3> QED BY <2>4, <3>2, <3>3 DEF Complete, CompleteRaises
  <2>5. CASE Fail(w)
    <3>1. /\ pc[w] = "failing" /\ pc'[w] = "idle" /\ UNCHANGED artifacts
          /\ FailJob(JobOfTask(w), task[w].token)
      BY <2>1, <2>5 DEF Fail, BackToIdle
    <3>2. CASE OwnsClaim(JobOfTask(w), task[w].token)
      <4>1. Finishes(w)
        BY <3>1, <3>2 DEF Finishes
      <4> QED BY <3>1, <4>1 DEF Effect
    <3>3. CASE ~OwnsClaim(JobOfTask(w), task[w].token)
      BY <1>1, <3>1, <3>3 DEF FailJob, storeVars
    <3> QED BY <3>2, <3>3
  <2>6. CASE \/ \E m \in Message : Receive(w, m) \/ ReceiveRaises(w, m)
             \/ ClaimRefused(w) \/ FindCompleted(w) \/ FindInProgress(w) \/ DiscardDuplicate(w)
             \/ CompleteFenced(w) \/ Leave(w) \/ Delete(w) \/ DeleteRaises(w)
    BY <1>1, <2>6 DEF Receive, ReceiveRaises, ClaimRefused, FindCompleted, FindInProgress,
       DiscardDuplicate, CompleteFenced, Leave, Delete, DeleteRaises, workerVars
  <2> QED BY <1>5, <2>2, <2>3, <2>4, <2>5, <2>6 DEF Consume
<1>6. ASSUME NEW w \in Worker, Crash(w) \/ Restart(w)
      PROVE  Effect
  BY <1>1, <1>6 DEF Crash, Restart
<1>7. ASSUME NEW h \in heartbeats, Beat(h)
      PROVE  Effect
  <2>1. h.job \in Job /\ h.token \in Nat
    BY DEF Typed, TypeOK, Heartbeat
  <2>2. /\ UNCHANGED artifacts
        /\ UNCHANGED storeVars \/ RenewJobProcessingLease(h.job, h.token)
    BY <1>7 DEF Beat, HeartbeatFires, HeartbeatRenews, HeartbeatEnds
  <2> QED BY <1>1, <2>1, <2>2 DEF Effect, MovesLease
<1> QED
  BY <1>2, <1>3, <1>4, <1>5, <1>6, <1>7 DEF Next, Environment

-----------------------------------------------------------------------------
(* Claims.                                                                 *)

\* A live claim is ended by nobody but the worker that holds it, in the step
\* that completes or fails the job.
THEOREM LiveClaimsEndByOwner == Spec => LiveClaimEndsByOwner
<1>1. ASSUME IInv, [Next]_vars, NEW j \in Job,
             jobs[j].status = "processing", ~jobs[j].expired, jobs'[j].token # jobs[j].token
      PROVE  \E w \in Worker : /\ Holds(w, j, jobs[j].token)
                               /\ pc[w] \in {"reported", "failing"}
                               /\ pc'[w] # pc[w]
  <2>1. Typed /\ jobs \in [Job -> JobRow]
    BY <1>1 DEF IInv, Typed, TypeOK, StoreTypeOK
  <2>2. jobs' # jobs
    BY <1>1
  <2>3. ~MovesLease
    BY <1>1, <2>1 DEF MovesLease, LeaseExpires, RenewJobProcessingLease, JobRow
  <2>4. \A k \in Job : ~CreateJob(k)
    BY <1>1, <2>1 DEF CreateJob, JobRow
  <2>5. \A k \in Job : ~MarkJobProcessing(k)
    BY <1>1, <2>1 DEF MarkJobProcessing, Claimable
  <2>6. \A w \in Worker : pc[w] = "received" => JobOfTask(w) \in Job
    BY <2>1, TaskTyped
  <2>7. PICK w \in Worker : Finishes(w)
    BY <1>1, <2>1, <2>2, <2>3, <2>4, <2>5, <2>6, StepEffect DEF Effect, Submit, Claim, storeVars
  <2>8. /\ task[w].msg \in Message /\ task[w].token # NoToken
        /\ pc[w] \in {"reported", "failing"} /\ pc'[w] # pc[w]
    BY <2>1, <2>7, TaskTyped DEF Finishes, Shape, Working
  <2>9. JobOfTask(w) = j
    BY <1>1, <2>1, <2>7 DEF Finishes, CompleteJobWithReport, FailJob
  <2> QED BY <2>7, <2>8, <2>9, WorkerAssumption DEF Finishes, OwnsClaim, Holds
<1>2. IInv /\ [Next]_vars
      => [\A j \in Job :
            /\ jobs[j].status = "processing" /\ ~jobs[j].expired
            /\ jobs'[j].token # jobs[j].token
            => \E w \in Worker : /\ Holds(w, j, jobs[j].token)
                                 /\ pc[w] \in {"reported", "failing"}
                                 /\ pc'[w] # pc[w]]_vars
  BY <1>1
<1> QED BY <1>2, Invariance, PTL DEF Spec, LiveClaimEndsByOwner

\* The ways a worker comes to poll again.
LEMMA WaysToIdle ==
  ASSUME Typed, [Next]_vars, NEW w \in Worker, pc[w] # "idle", pc'[w] = "idle"
  PROVE  \/ FindInProgress(w) \/ DiscardDuplicate(w) \/ Leave(w) \/ Delete(w) \/ Fail(w)
         \/ Restart(w)
<1>1. ASSUME NEW v \in Worker, NEW l, Goto(v, l)
      PROVE  pc'[v] = l /\ (v # w => pc'[w] = pc[w])
  BY <1>1 DEF Goto, Typed, TypeOK
<1>2. ~UNCHANGED pc
  OBVIOUS
<1>3. ~UNCHANGED vars /\ ~Environment /\ ~\E h \in heartbeats : Beat(h)
  BY <1>2 DEF vars, workerVars, Environment, Submit, LeaseClock, Dispatch, VisibilityClock,
     Redrive, Beat, HeartbeatFires, HeartbeatRenews, HeartbeatEnds
<1>4. PICK v \in Worker : Consume(v) \/ Crash(v) \/ Restart(v)
  BY <1>3 DEF Next
<1>5. CASE Crash(v)
  BY <1>1, <1>5 DEF Crash
<1>6. CASE Restart(v)
  BY <1>1, <1>6 DEF Restart
<1>7. CASE Consume(v)
  <2>1. CASE \/ \E m \in Message : Receive(v, m) \/ ReceiveRaises(v, m)
             \/ Claim(v) \/ ClaimRefused(v) \/ FindCompleted(v)
             \/ PutReport(v) \/ PutReportRaises(v)
             \/ Complete(v) \/ CompleteFenced(v) \/ CompleteRaises(v) \/ DeleteRaises(v)
    BY <1>1, <1>2, <2>1 DEF Receive, ReceiveRaises, Claim, ClaimRefused, FindCompleted, PutReport,
       PutReportRaises, Complete, CompleteFenced, CompleteRaises, DeleteRaises, EndWith, workerVars
  <2>2. CASE FindInProgress(v) \/ DiscardDuplicate(v) \/ Delete(v) \/ Fail(v)
    BY <1>1, <2>2 DEF FindInProgress, DiscardDuplicate, Delete, Fail, BackToIdle
  <2>3. CASE Leave(v)
    <3>1. \E l : Goto(v, l)
      BY <2>3 DEF Leave, BackToIdle
    <3> QED BY <1>1, <2>3, <3>1
  <2> QED BY <1>7, <2>1, <2>2, <2>3 DEF Consume
<1> QED BY <1>4, <1>5, <1>6, <1>7

\* A worker that polls again has let go of its claim, by whichever path it left
\* consume_one_message.
THEOREM ClaimsAreLetGo == Spec => NoClaimLeak
<1>1. ASSUME IInv, [Next]_vars, NEW w \in Worker,
             pc[w] # "idle", pc'[w] = "idle", task[w].token # NoToken
      PROVE  jobs'[JobOfTask(w)].token # task[w].token
  <2>1. Typed /\ jobs \in [Job -> JobRow]
    BY <1>1 DEF IInv, Typed, TypeOK, StoreTypeOK
  <2>2. pc[w] \in Working /\ JobOfTask(w) \in Job
    BY <1>1, <2>1, TaskTyped DEF Shape, Working
  <2>3. \/ Leave(w) \/ Delete(w) \/ Fail(w)
    BY <1>1, <2>1, <2>2, WaysToIdle DEF FindInProgress, DiscardDuplicate, Restart, Working
  <2>4. CASE Leave(w)
    <3>1. pc[w] = "leaving" /\ UNCHANGED jobs
      BY <2>4 DEF Leave, storeVars
    <3>2. task[w].outcome \in Outcome \ {"none"}
      BY <2>1, <3>1, TaskTyped DEF Shape, Task
    <3>3. task[w].outcome = "lost"
      <4>1. ASSUME NEW l, Goto(w, l)
            PROVE  l = "idle"
        BY <1>1, <2>1, <4>1 DEF Goto, Typed, TypeOK
      <4> QED BY <2>4, <3>2, <4>1 DEF Leave, Outcome
    <3> QED BY <1>1, <2>2, <3>1, <3>3 DEF IInv, ClaimState
  <2>5. CASE Delete(w)
    <3>1. pc[w] = "deleting" /\ UNCHANGED jobs
      BY <2>5 DEF Delete, storeVars
    <3> QED BY <1>1, <2>2, <3>1 DEF IInv, DeleteKnowledge, TokenState
  <2>6. CASE Fail(w)
    <3>1. FailJob(JobOfTask(w), task[w].token)
      BY <2>6 DEF Fail
    <3> QED BY <1>1, <2>1, <2>2, <3>1 DEF FailJob, OwnsClaim, Released, JobRow, IInv, TokenState
  <2> QED BY <2>3, <2>4, <2>5, <2>6
<1>2. IInv /\ [Next]_vars
      => [\A w \in Worker : pc[w] # "idle" /\ pc'[w] = "idle" /\ task[w].token # NoToken =>
            jobs'[JobOfTask(w)].token # task[w].token]_vars
  BY <1>1
<1> QED BY <1>2, Invariance, PTL DEF Spec, NoClaimLeak

-----------------------------------------------------------------------------
(* The refinement of JobLifecycle.                                         *)

\* The mapped variables, as Worker's Lifecycle defines them.
ReportOf(j) == IF jobResults[j] = NoKey THEN 0 ELSE artifacts[jobResults[j]].attempt

View == [j \in Job |-> [status |-> jobs[j].status, attempts |-> jobs[j].attempts,
                        report |-> ReportOf(j)]]

Stored == {<<artifacts[k].job, artifacts[k].attempt>> : k \in DOMAIN artifacts}

\* The actions of the lifecycle, read as actions on the mapped variables.
LEMMA MappedActions ==
  ASSUME NEW j \in Job
  PROVE  /\ /\ View[j].status = "absent"
            /\ View' = [View EXCEPT ![j].status = "pending"]
            /\ Stored' = Stored
            => Lifecycle!Submit(j)
         /\ /\ View[j].status \in {"pending", "failed", "processing"}
            /\ View' = [View EXCEPT ![j].status = "processing", ![j].attempts = @ + 1]
            /\ Stored' = Stored
            => Lifecycle!Begin(j)
         /\ \A a : /\ a \in 1..View[j].attempts /\ <<j, a>> \notin Stored
                   /\ Stored' = Stored \cup {<<j, a>>}
                   /\ View' = View
                   => Lifecycle!Store(j, a)
         /\ /\ View[j].status = "processing"
            /\ View' = [View EXCEPT ![j].status = "failed"]
            /\ Stored' = Stored
            => Lifecycle!Fail(j)
         /\ /\ View[j].status = "processing" /\ <<j, View[j].attempts>> \in Stored
            /\ View' = [View EXCEPT ![j].status = "completed", ![j].report = View[j].attempts]
            /\ Stored' = Stored
            => Lifecycle!Finish(j)
<1> USE DEF View, Stored, ReportOf
<1>1. /\ View[j].status = "absent"
      /\ View' = [View EXCEPT ![j].status = "pending"]
      /\ Stored' = Stored
      => Lifecycle!Submit(j)
  BY DEF Lifecycle!Submit
<1>2. /\ View[j].status \in {"pending", "failed", "processing"}
      /\ View' = [View EXCEPT ![j].status = "processing", ![j].attempts = @ + 1]
      /\ Stored' = Stored
      => Lifecycle!Begin(j)
  BY DEF Lifecycle!Begin
<1>3. \A a : /\ a \in 1..View[j].attempts /\ <<j, a>> \notin Stored
             /\ Stored' = Stored \cup {<<j, a>>}
             /\ View' = View
             => Lifecycle!Store(j, a)
  BY DEF Lifecycle!Store
<1>4. /\ View[j].status = "processing"
      /\ View' = [View EXCEPT ![j].status = "failed"]
      /\ Stored' = Stored
      => Lifecycle!Fail(j)
  BY DEF Lifecycle!Fail
<1>5. /\ View[j].status = "processing" /\ <<j, View[j].attempts>> \in Stored
      /\ View' = [View EXCEPT ![j].status = "completed", ![j].report = View[j].attempts]
      /\ Stored' = Stored
      => Lifecycle!Finish(j)
  BY DEF Lifecycle!Finish
<1> HIDE DEF View, Stored, ReportOf
<1> QED BY <1>1, <1>2, <1>3, <1>4, <1>5

\* What a client is shown of a job's report follows from its result row alone,
\* however many reports are stored besides.
LEMMA ReportStays ==
  ASSUME IInv, NEW j \in Job, jobResults'[j] = jobResults[j],
         UNCHANGED artifacts \/ \E w \in Worker : StoreArtifact(w)
  PROVE  ReportOf(j)' = ReportOf(j)
<1>1. jobResults[j] # NoKey => jobResults[j] \in DOMAIN artifacts
  BY DEF IInv, AtomicCompletion
<1>2. \A k \in DOMAIN artifacts : artifacts'[k] = artifacts[k]
  BY StoredArtifact DEF IInv
<1> QED BY <1>1, <1>2 DEF ReportOf

\* What a transaction changes of the view: the row of one job.
LEMMA ViewChanges ==
  ASSUME IInv, NEW j \in Job, NEW row,
         UNCHANGED artifacts,
         \A k \in Job \ {j} : jobs'[k] = jobs[k] /\ jobResults'[k] = jobResults[k],
         row = [status |-> jobs'[j].status, attempts |-> jobs'[j].attempts, report |-> ReportOf(j)']
  PROVE  View' = [View EXCEPT ![j] = row] /\ Stored' = Stored
<1>1. \A k \in Job \ {j} : ReportOf(k)' = ReportOf(k)
  BY ReportStays
<1> QED BY <1>1 DEF View, Stored

\* A job that is not completed shows no report, a completed one its last.
LastShown ==
    \A j \in Job : ReportOf(j) = IF jobs[j].status = "completed" THEN jobs[j].attempts ELSE 0

\* The invariant says so.
LEMMA ReportShown == IInv => LastShown
<1> SUFFICES ASSUME IInv, NEW j \in Job
             PROVE  ReportOf(j) = IF jobs[j].status = "completed" THEN jobs[j].attempts ELSE 0
  BY DEF LastShown
<1>1. \A k \in DOMAIN artifacts : k # NoKey
  BY DEF IInv, Typed, TypeOK, NoKey
<1>2. /\ jobs[j].status = "completed" =>
            /\ jobResults[j] \in DOMAIN artifacts
            /\ artifacts[jobResults[j]] = [job |-> j, attempt |-> jobs[j].attempts]
      /\ jobs[j].status # "completed" => jobResults[j] = NoKey
  BY DEF IInv, AtomicCompletion
<1> QED BY <1>1, <1>2 DEF ReportOf

\* The initial states are initial states of the lifecycle.
LEMMA LifecycleInit == Init => Lifecycle!Init
<1> SUFFICES ASSUME Init PROVE Lifecycle!Init
  OBVIOUS
<1>1. View = [j \in Job |-> [status |-> "absent", attempts |-> 0, report |-> 0]]
  BY DEF Init, StoreInit, View, ReportOf
<1>2. Stored = {}
  BY DEF Init, Stored
<1> QED BY <1>1, <1>2 DEF Lifecycle!Init, View, Stored, ReportOf

\* A report is stored: the attempt is one that was made, and its first report.
LEMMA StoreRefines ==
  ASSUME IInv, NEW w \in Worker, pc[w] = "reporting", StoreArtifact(w), UNCHANGED storeVars
  PROVE  Lifecycle!Next
<1>1. Typed
  BY DEF IInv
<1> PICK j \in Job : j = JobOfTask(w)
  BY <1>1, TaskTyped
<1> PICK a \in Nat : a = task[w].attempt
  BY <1>1, TaskTyped
<1>2. View' = View
  BY ReportStays DEF View, storeVars
<1>3. Stored' = Stored \cup {<<j, a>>}
  <2>1. /\ DOMAIN artifacts' = DOMAIN artifacts \cup {Len(artifacts) + 1}
        /\ \A k \in DOMAIN artifacts : artifacts'[k] = artifacts[k]
        /\ artifacts'[Len(artifacts) + 1] = [job |-> j, attempt |-> a]
    BY <1>1, StoredArtifact
  <2>2. \A x : x \in Stored' <=>
           \E k \in DOMAIN artifacts' : x = <<artifacts'[k].job, artifacts'[k].attempt>>
    BY DEF Stored
  <2>3. \A x : x \in Stored <=>
           \E k \in DOMAIN artifacts : x = <<artifacts[k].job, artifacts[k].attempt>>
    BY DEF Stored
  <2>4. ASSUME NEW x PROVE x \in Stored' <=> x \in Stored \/ x = <<j, a>>
    BY <2>1, <2>2, <2>3
  <2> QED BY <2>4
<1>4. <<j, a>> \notin Stored
  <2>1. ASSUME NEW k \in DOMAIN artifacts, artifacts[k].job = j, artifacts[k].attempt = a
        PROVE  FALSE
    <3>1. artifacts[k] \in Artifact
      BY <1>1, ElementOfSeq, LenProperties DEF Typed, TypeOK
    <3>2. artifacts[k] = [job |-> j, attempt |-> a]
      BY <2>1, <3>1 DEF Artifact
    <3> QED BY <3>2 DEF IInv, ReportState
  <2> QED BY <2>1 DEF Stored
<1>5. a \in 1..jobs[j].attempts
  BY <1>1 DEF IInv, ClaimState, Working
<1>6. Lifecycle!Store(j, a)
  <2>1. View[j].attempts = jobs[j].attempts
    BY <1>1 DEF View
  <2>2. a \in 1..View[j].attempts
    BY <1>5, <2>1
  <2> QED BY <1>1, <1>2, <1>3, <1>4, <2>2, MappedActions
<1> QED BY <1>1, <1>5, <1>6 DEF Lifecycle!Next

\* A job is created, claimed, completed or failed.
LEMMA TransactionRefines ==
  ASSUME IInv, IInv', NEW j \in Job, UNCHANGED artifacts,
         \/ CreateJob(j)
         \/ MarkJobProcessing(j)
         \/ \E w \in Worker : Finishes(w) /\ JobOfTask(w) = j
  PROVE  Lifecycle!Next
<1> DEFINE row == [status |-> jobs'[j].status, attempts |-> jobs'[j].attempts,
                   report |-> ReportOf(j)']
<1> PICK old : old = View[j]
  OBVIOUS
<1>1. jobs \in [Job -> JobRow]
  BY DEF IInv, Typed, TypeOK, StoreTypeOK
<1>2. \A k \in Job \ {j} : jobs'[k] = jobs[k] /\ jobResults'[k] = jobResults[k]
  BY <1>1 DEF CreateJob, MarkJobProcessing, Finishes, CompleteJobWithReport, FailJob,
     IInv, Typed, TypeOK, StoreTypeOK
<1>3. View' = [View EXCEPT ![j] = row] /\ Stored' = Stored
  BY <1>2, ViewChanges
<1>4. /\ ReportOf(j) = IF jobs[j].status = "completed" THEN jobs[j].attempts ELSE 0
      /\ ReportOf(j)' = IF jobs'[j].status = "completed" THEN jobs'[j].attempts ELSE 0
  <2>1. LastShown /\ LastShown'
    BY ReportShown, PTL
  <2> QED BY <2>1 DEF LastShown
<1>5. /\ old.status = jobs[j].status /\ old.attempts = jobs[j].attempts /\ old.report = ReportOf(j)
      /\ old \in [status: JobStatus, attempts: Nat, report: Nat]
  BY <1>1, <1>4 DEF View, JobRow
<1>6. ASSUME NEW s, NEW x
      PROVE  /\ row = [status |-> s, attempts |-> old.attempts, report |-> old.report]
                  => View' = [View EXCEPT ![j].status = s]
             /\ row = [status |-> s, attempts |-> old.attempts, report |-> x]
                  => View' = [View EXCEPT ![j].status = s, ![j].report = x]
  <2> HIDE DEF row
  <2>1. /\ [View EXCEPT ![j].status = s] = [View EXCEPT ![j] = [old EXCEPT !.status = s]]
        /\ [View EXCEPT ![j].status = s, ![j].report = x] =
              [View EXCEPT ![j] = [old EXCEPT !.status = s, !.report = x]]
    BY DEF View
  <2> DEFINE new == [status |-> s, attempts |-> old.attempts, report |-> old.report]
  <2>2. [old EXCEPT !.status = s] = new
    BY <1>5
  <2>3. [new EXCEPT !.report = x] = [status |-> s, attempts |-> old.attempts, report |-> x]
    OBVIOUS
  <2> HIDE DEF new
  <2>4. [old EXCEPT !.status = s, !.report = x] = [new EXCEPT !.report = x]
    BY <2>2
  <2> QED BY <1>3, <2>1, <2>2, <2>3, <2>4 DEF new
<1>7. CASE CreateJob(j)
  <2>1. /\ jobs[j].status = "absent"
        /\ row = [status |-> "pending", attempts |-> old.attempts, report |-> old.report]
    BY <1>1, <1>4, <1>5, <1>7 DEF CreateJob, JobRow
  <2>2. Lifecycle!Submit(j)
    BY <1>3, <1>5, <1>6, <2>1, MappedActions
  <2> QED BY <2>2 DEF Lifecycle!Next
<1>8. CASE MarkJobProcessing(j)
  <2>1. /\ jobs[j].status \in {"pending", "failed", "processing"}
        /\ row = [status |-> "processing", attempts |-> old.attempts + 1, report |-> old.report]
    BY <1>1, <1>4, <1>5, <1>8 DEF MarkJobProcessing, Claimable, JobRow
  <2>2. View' = [View EXCEPT ![j].status = "processing", ![j].attempts = @ + 1]
    <3> DEFINE new == [status |-> "processing", attempts |-> old.attempts, report |-> old.report]
    <3>1. [old EXCEPT !.status = "processing"] = new
      BY <1>5
    <3>2. [new EXCEPT !.attempts = old.attempts + 1] = row
      BY <2>1
    <3> HIDE DEF new, row
    <3>3. [View EXCEPT ![j].status = "processing", ![j].attempts = @ + 1] =
             [View EXCEPT ![j] = [old EXCEPT !.status = "processing", !.attempts = old.attempts + 1]]
      BY DEF View
    <3>4. [old EXCEPT !.status = "processing", !.attempts = old.attempts + 1] =
             [new EXCEPT !.attempts = old.attempts + 1]
      BY <3>1
    <3> QED BY <1>3, <3>2, <3>3, <3>4
  <2>3. Lifecycle!Begin(j)
    BY <1>3, <1>5, <2>1, <2>2, MappedActions
  <2> QED BY <2>3 DEF Lifecycle!Next
<1>9. ASSUME NEW w \in Worker, Finishes(w), JobOfTask(w) = j
      PROVE  Lifecycle!Next
  <2>1. jobs[j].status = "processing" /\ jobs[j].token = task[w].token
    BY <1>9 DEF Finishes, OwnsClaim
  <2>2. CASE FailJob(j, task[w].token)
    <3>1. row = [status |-> "failed", attempts |-> old.attempts, report |-> old.report]
      BY <1>1, <1>4, <1>5, <2>1, <2>2 DEF FailJob, OwnsClaim, Released, JobRow
    <3>2. Lifecycle!Fail(j)
      BY <1>3, <1>5, <1>6, <2>1, <3>1, MappedActions
    <3> QED BY <3>2 DEF Lifecycle!Next
  <2>3. CASE pc[w] = "reported" /\ CompleteJobWithReport(j, task[w].token, task[w].key)
    <3>1. row = [status |-> "completed", attempts |-> old.attempts, report |-> old.attempts]
      BY <1>1, <1>4, <1>5, <2>3 DEF CompleteJobWithReport, Released, JobRow
    <3>2. <<j, jobs[j].attempts>> \in Stored
      <4>1. task[w].attempt = jobs[j].attempts
        BY <1>9, <2>1, <2>3 DEF IInv, ClaimState, Working
      <4>2. /\ task[w].key \in DOMAIN artifacts
            /\ artifacts[task[w].key] = [job |-> j, attempt |-> jobs[j].attempts]
        BY <1>9, <2>3, <4>1 DEF IInv, ReportState
      <4> QED BY <4>2 DEF Stored
    <3>3. View' = [View EXCEPT ![j].status = "completed", ![j].report = old.attempts]
      BY <1>6, <3>1
    <3>4. Lifecycle!Finish(j)
      BY <1>3, <1>5, <2>1, <3>2, <3>3, MappedActions
    <3> QED BY <3>4 DEF Lifecycle!Next
  <2> QED BY <1>9, <2>2, <2>3 DEF Finishes
<1> QED BY <1>7, <1>8, <1>9

\* The worker pool implements the lifecycle a client relies on: every step is
\* one of JobLifecycle's, or the client and the bucket do not see it.
THEOREM WorkersImplementLifecycle == Spec => ImplementsLifecycle
<1>1. ASSUME IInv, IInv', [Next]_vars
      PROVE  [Lifecycle!Next]_(Lifecycle!lifecycleVars)
  <2>1. ASSUME View' = View, Stored' = Stored
        PROVE  UNCHANGED Lifecycle!lifecycleVars
    BY <2>1 DEF Lifecycle!lifecycleVars, View, Stored, ReportOf
  <2>2. Typed /\ jobs \in [Job -> JobRow]
    BY <1>1 DEF IInv, Typed, TypeOK, StoreTypeOK
  <2>3. CASE UNCHANGED <<storeVars, artifacts>>
    BY <2>1, <2>3 DEF View, Stored, ReportOf, storeVars
  <2>4. CASE UNCHANGED artifacts /\ MovesLease
    <3>1. /\ jobResults' = jobResults
          /\ \A j \in Job : jobs'[j].status = jobs[j].status /\ jobs'[j].attempts = jobs[j].attempts
      BY <2>2, <2>4 DEF MovesLease, LeaseExpires, RenewJobProcessingLease, JobRow
    <3>2. View' = View /\ Stored' = Stored
      BY <2>4, <3>1 DEF View, Stored, ReportOf
    <3> QED BY <2>1, <3>2
  <2>5. ASSUME NEW w \in Worker, pc[w] \in {"received", "reported", "failing"}
        PROVE  JobOfTask(w) \in Job
    BY <2>2, <2>5, TaskTyped
  <2>6. \A w \in Worker : Finishes(w) => pc[w] \in {"reported", "failing"}
    BY DEF Finishes
  <2> QED
    BY <1>1, <2>2, <2>3, <2>4, <2>5, <2>6, StepEffect, StoreRefines, TransactionRefines
       DEF Effect, Submit, Claim
<1> QED
  BY <1>1, LifecycleInit, Invariance, PTL DEF Spec, ImplementsLifecycle, Lifecycle!Spec

-----------------------------------------------------------------------------
(* Deliveries and attempts.                                                *)

\* The deliveries that a job's messages have had, and the workers that have one
\* of them and have not come to the claim.
Delivered(j) == {d \in Message \X (1..MaxReceive) : JobOf[d[1]] = j /\ d[2] <= msgs[d[1]].receives}
MayClaim(j) == {w \in Worker : pc[w] = "received" /\ JobOfTask(w) = j}

\* So much was spent, and by so many may one more be spent each, of the given.
Within(spent, S, given) ==
    IsFiniteSet(S) /\ IsFiniteSet(given) /\ spent + Cardinality(S) <= Cardinality(given)

AttemptsDelivered == \A j \in Job : Within(jobs[j].attempts, MayClaim(j), Delivered(j))

\* Nothing was spent, and no more may spend.
LEMMA WithinKept ==
  ASSUME NEW a \in Nat, NEW S, NEW D, Within(a, S, D), NEW T \in SUBSET S
  PROVE  Within(a, T, D)
<1>1. IsFiniteSet(T) /\ Cardinality(T) <= Cardinality(S)
  BY FS_Subset DEF Within
<1>2. Cardinality(T) \in Nat /\ Cardinality(S) \in Nat /\ Cardinality(D) \in Nat
  BY <1>1, FS_CardinalityType DEF Within
<1> QED BY <1>1, <1>2 DEF Within

\* One who might spend has spent.
LEMMA WithinSpent ==
  ASSUME NEW a \in Nat, NEW S, NEW D, Within(a, S, D), NEW w \in S, NEW T, T = S \ {w}
  PROVE  Within(a + 1, T, D)
<1>1. IsFiniteSet(T) /\ Cardinality(T) = Cardinality(S) - 1
  BY FS_RemoveElement DEF Within
<1>2. Cardinality(T) \in Nat /\ Cardinality(S) \in Nat /\ Cardinality(D) \in Nat
  BY <1>1, FS_CardinalityType DEF Within
<1> QED BY <1>1, <1>2 DEF Within

\* One more is given, and at most one more may spend.
LEMMA WithinGained ==
  ASSUME NEW a \in Nat, NEW S, NEW D, Within(a, S, D),
         NEW w, NEW T \in SUBSET (S \cup {w}), NEW d, d \notin D, NEW E, E = D \cup {d}
  PROVE  Within(a, T, E)
<1>1. IsFiniteSet(S) /\ Cardinality(S) \in Nat /\ IsFiniteSet(D) /\ Cardinality(D) \in Nat
  BY FS_CardinalityType DEF Within
<1>2. /\ IsFiniteSet(S \cup {w})
      /\ Cardinality(S \cup {w}) = IF w \in S THEN Cardinality(S) ELSE Cardinality(S) + 1
  BY <1>1, FS_AddElement
<1>3. IsFiniteSet(E) /\ Cardinality(E) = Cardinality(D) + 1
  BY <1>1, FS_AddElement
<1>4. IsFiniteSet(T) /\ Cardinality(T) <= Cardinality(S \cup {w})
  BY <1>2, FS_Subset
<1>5. Cardinality(T) \in Nat
  BY <1>4, FS_CardinalityType
<1> QED BY <1>1, <1>2, <1>3, <1>4, <1>5 DEF Within

\* The steps of the workers and the clocks: all but the API's and the outbox's.
Later ==
    \/ \E j \in Job : LeaseClock(j)
    \/ \E m \in Message : VisibilityClock(m) \/ Redrive(m)
    \/ \E w \in Worker : Consume(w) \/ Crash(w) \/ Restart(w)
    \/ \E h \in heartbeats : Beat(h)

\* A call to the queue, other than a send, sends nothing.
LEMMA QueueSteps ==
  ASSUME QueueTypeOK, NEW m \in Message, NEW r,
         ReceiveMessage(m) \/ VisibilityTimeoutEnds(m) \/ MoveToDeadLetter(m) \/ DeleteMessage(m, r)
  PROVE  \A n \in Message : msgs'[n].state = "unsent" <=> msgs[n].state = "unsent"
<1>1. CASE ReceiveMessage(m)
  <2>1. /\ msgs[m].state = "visible"
        /\ msgs' = [msgs EXCEPT ![m] = [state |-> "inflight", receives |-> msgs[m].receives + 1]]
    BY <1>1 DEF ReceiveMessage, QueueTypeOK
  <2> QED BY <1>1, <2>1 DEF QueueTypeOK
<1>2. CASE VisibilityTimeoutEnds(m) \/ MoveToDeadLetter(m) \/ DeleteMessage(m, r)
  BY <1>2 DEF VisibilityTimeoutEnds, MoveToDeadLetter, DeleteMessage, QueueTypeOK
<1> QED BY <1>1, <1>2

\* What a step of the workers or the clocks does to the queue.
LEMMA QueueCalls ==
  ASSUME Typed, Later
  PROVE  \/ UNCHANGED msgs
         \/ \E w \in Worker, m \in Message : Receive(w, m) \/ ReceiveRaises(w, m)
         \/ \E m \in Message : \/ VisibilityTimeoutEnds(m) \/ MoveToDeadLetter(m)
                               \/ \E r \in Nat : DeleteMessage(m, r)
<1>1. CASE \/ \E j \in Job : LeaseClock(j)
           \/ \E m \in Message : VisibilityClock(m) \/ Redrive(m)
  BY <1>1 DEF LeaseClock, VisibilityClock, Redrive
<1>2. ASSUME NEW w \in Worker, DiscardDuplicate(w) \/ Delete(w) \/ DeleteRaises(w)
      PROVE  UNCHANGED msgs \/ \E m \in Message, r \in Nat : DeleteMessage(m, r)
  <2>1. task[w].msg \in Message /\ task[w].rcpt \in Nat
    BY <1>2, TaskTyped DEF DiscardDuplicate, Delete, DeleteRaises
  <2> QED BY <1>2, <2>1 DEF DiscardDuplicate, Delete, DeleteRaises
<1>3. ASSUME NEW w \in Worker,
             \/ Claim(w) \/ ClaimRefused(w) \/ FindCompleted(w) \/ FindInProgress(w)
             \/ PutReport(w) \/ PutReportRaises(w)
             \/ Complete(w) \/ CompleteFenced(w) \/ CompleteRaises(w)
             \/ Leave(w) \/ Fail(w) \/ Crash(w) \/ Restart(w)
      PROVE  UNCHANGED msgs
  BY <1>3 DEF Claim, ClaimRefused, FindCompleted, FindInProgress, PutReport, PutReportRaises,
     Complete, CompleteFenced, CompleteRaises, Leave, Fail, Crash, Restart
<1>4. ASSUME NEW h \in heartbeats, Beat(h)
      PROVE  UNCHANGED msgs
  BY <1>4 DEF Beat, HeartbeatFires, HeartbeatRenews, HeartbeatEnds
<1> QED BY <1>1, <1>2, <1>3, <1>4 DEF Later, Consume

\* No message is sent by a worker or a clock.
LEMMA NothingSent ==
  ASSUME Typed, Later
  PROVE  \A m \in Message : msgs'[m].state = "unsent" <=> msgs[m].state = "unsent"
<1>1. QueueTypeOK
  BY DEF Typed, TypeOK
<1>2. ASSUME NEW m \in Message, NEW r,
             \/ ReceiveMessage(m) \/ VisibilityTimeoutEnds(m) \/ MoveToDeadLetter(m)
             \/ DeleteMessage(m, r)
      PROVE  \A n \in Message : msgs'[n].state = "unsent" <=> msgs[n].state = "unsent"
  BY <1>1, <1>2, QueueSteps
<1> QED BY <1>2, QueueCalls DEF Receive, ReceiveRaises

\* Only a claim counts an attempt, and no worker or clock makes a job appear.
LEMMA RowsKept ==
  ASSUME Typed, Later
  PROVE  \A j \in Job : /\ jobs'[j].status = "absent" <=> jobs[j].status = "absent"
                        /\ (\E w \in Worker : Claim(w)) \/ jobs'[j].attempts = jobs[j].attempts
<1>1. /\ jobs \in [Job -> JobRow]
      /\ \A w \in Worker : pc[w] \in {"received", "reported", "failing"} => JobOfTask(w) \in Job
  BY TaskTyped DEF Typed, TypeOK, StoreTypeOK
<1>2. CASE UNCHANGED jobs
  BY <1>2
<1>3. ASSUME NEW i \in Job, NEW t, LeaseExpires(i) \/ RenewJobProcessingLease(i, t)
      PROVE  \A j \in Job : /\ jobs'[j].status = jobs[j].status
                            /\ jobs'[j].attempts = jobs[j].attempts
  <2>1. \E b \in BOOLEAN : jobs' = [jobs EXCEPT ![i].expired = b]
    BY <1>3 DEF LeaseExpires, RenewJobProcessingLease
  <2> QED BY <1>1, <2>1 DEF JobRow
<1>4. ASSUME NEW w \in Worker, Claim(w)
      PROVE  \A j \in Job : jobs'[j].status = "absent" <=> jobs[j].status = "absent"
  BY <1>1, <1>4 DEF Claim, MarkJobProcessing, Claimable, JobRow
<1>5. ASSUME NEW i \in Job, NEW t, NEW key, CompleteJobWithReport(i, t, key) \/ FailJob(i, t)
      PROVE  \A j \in Job : /\ jobs'[j].status = "absent" <=> jobs[j].status = "absent"
                            /\ jobs'[j].attempts = jobs[j].attempts
  <2>1. \/ UNCHANGED jobs
        \/ /\ OwnsClaim(i, t)
           /\ \E s \in {"completed", "failed"} : jobs' = [jobs EXCEPT ![i] = Released(@, s)]
    BY <1>5 DEF CompleteJobWithReport, FailJob
  <2>2. ASSUME NEW s \in {"completed", "failed"}, OwnsClaim(i, t),
               jobs' = [jobs EXCEPT ![i] = Released(jobs[i], s)]
        PROVE  /\ jobs'[i].status = s /\ jobs'[i].attempts = jobs[i].attempts
               /\ jobs[i].status = "processing"
               /\ \A j \in Job \ {i} : jobs'[j] = jobs[j]
    BY <1>1, <2>2 DEF OwnsClaim, Released, JobRow
  <2> QED BY <2>1, <2>2
<1>6. ASSUME NEW w \in Worker, Consume(w)
      PROVE  \/ UNCHANGED jobs \/ Claim(w)
             \/ \E t, key : CompleteJobWithReport(JobOfTask(w), t, key) \/ FailJob(JobOfTask(w), t)
  BY <1>6 DEF Consume, Receive, ReceiveRaises, ClaimRefused, FindCompleted, FindInProgress,
     DiscardDuplicate, PutReport, PutReportRaises, Complete, CompleteFenced, CompleteRaises,
     Leave, Delete, DeleteRaises, Fail, storeVars
<1>7. ASSUME NEW w \in Worker, Consume(w), ~Claim(w), ~UNCHANGED jobs
      PROVE  JobOfTask(w) \in Job
  <2>1. pc[w] \in {"reported", "failing"}
    BY <1>7 DEF Consume, Receive, ReceiveRaises, ClaimRefused, FindCompleted, FindInProgress,
       DiscardDuplicate, PutReport, PutReportRaises, Complete, CompleteFenced, CompleteRaises,
       Leave, Delete, DeleteRaises, Fail, storeVars
  <2> QED BY <1>1, <2>1
<1>8. ASSUME NEW h \in heartbeats, Beat(h)
      PROVE  \/ UNCHANGED jobs
             \/ \E i \in Job, t \in Nat : RenewJobProcessingLease(i, t)
  BY <1>8 DEF Beat, HeartbeatFires, HeartbeatRenews, HeartbeatEnds, storeVars, Typed, TypeOK,
     Heartbeat
<1> QED
  BY <1>2, <1>3, <1>4, <1>5, <1>6, <1>7, <1>8
  DEF Later, LeaseClock, VisibilityClock, Redrive, Crash, Restart, storeVars

\* What a step does to the deliveries that have not come to the claim: only a
\* receive adds one.
LEMMA ReceivedBefore ==
  ASSUME Typed, [Next]_vars, NEW w \in Worker, pc'[w] = "received",
         ~\E m \in Message : Receive(w, m)
  PROVE  pc[w] = "received" /\ task'[w] = task[w]
<1>1. /\ pc \in [Worker -> PC] /\ task \in [Worker -> Task]
  BY DEF Typed, TypeOK
<1>2. CASE UNCHANGED <<pc, task>>
  BY <1>2
<1>3. CASE Environment \/ UNCHANGED vars \/ \E h \in heartbeats : Beat(h)
  BY <1>2, <1>3 DEF Environment, Submit, Dispatch, LeaseClock, VisibilityClock, Redrive, vars,
     workerVars, Beat, HeartbeatFires, HeartbeatRenews, HeartbeatEnds
<1>4. ASSUME NEW v \in Worker, Consume(v) \/ Crash(v) \/ Restart(v)
      PROVE  pc[w] = "received" /\ task'[w] = task[w]
  <2>1. CASE \E m \in Message : Receive(v, m)
    BY <1>1, <2>1 DEF Receive, Goto
  <2>2. CASE \E m \in Message : ReceiveRaises(v, m)
    BY <1>2, <2>2 DEF ReceiveRaises, workerVars
  <2>3. ASSUME NEW l, l # "received", Goto(v, l), \A u \in Worker \ {v} : task'[u] = task[u]
        PROVE  pc[w] = "received" /\ task'[w] = task[w]
    BY <1>1, <2>3 DEF Goto
  <2>4. CASE Claim(v)
    <3>1. Goto(v, "reporting") /\ \A u \in Worker \ {v} : task'[u] = task[u]
      BY <1>1, <2>4 DEF Claim
    <3> QED BY <2>3, <3>1
  <2>5. CASE ClaimRefused(v) \/ FindCompleted(v)
    BY <2>3, <2>5 DEF ClaimRefused, FindCompleted
  <2>6. CASE FindInProgress(v) \/ DiscardDuplicate(v) \/ Delete(v) \/ Fail(v)
    <3>1. Goto(v, "idle") /\ \A u \in Worker \ {v} : task'[u] = task[u]
      BY <1>1, <2>6 DEF FindInProgress, DiscardDuplicate, Delete, Fail, BackToIdle
    <3> QED BY <2>3, <3>1
  <2>7. CASE PutReport(v)
    <3>1. Goto(v, "reported") /\ \A u \in Worker \ {v} : task'[u] = task[u]
      BY <1>1, <2>7 DEF PutReport
    <3> QED BY <2>3, <3>1
  <2>8. CASE PutReportRaises(v) \/ Complete(v) \/ CompleteFenced(v) \/ CompleteRaises(v)
    <3>1. Goto(v, "leaving") /\ \A u \in Worker \ {v} : task'[u] = task[u]
      BY <1>1, <2>8 DEF PutReportRaises, Complete, CompleteFenced, CompleteRaises, EndWith
    <3> QED BY <2>3, <3>1
  <2>9. CASE Leave(v)
    <3>1. /\ \E l \in {"deleting", "failing", "idle"} : Goto(v, l)
          /\ \A u \in Worker \ {v} : task'[u] = task[u]
      BY <1>1, <2>9 DEF Leave, BackToIdle
    <3> QED BY <2>3, <3>1
  <2>10. CASE DeleteRaises(v)
    BY <2>3, <2>10 DEF DeleteRaises
  <2>11. CASE Crash(v)
    <3>1. Goto(v, "down") /\ \A u \in Worker \ {v} : task'[u] = task[u]
      BY <1>1, <2>11 DEF Crash
    <3> QED BY <2>3, <3>1
  <2>12. CASE Restart(v)
    BY <2>3, <2>12 DEF Restart
  <2> QED BY <1>4, <2>1, <2>2, <2>4, <2>5, <2>6, <2>7, <2>8, <2>9, <2>10, <2>11, <2>12 DEF Consume
<1> QED BY <1>3, <1>4 DEF Next

\* No one else may claim a job who could not before.
LEMMA NoNewClaimant ==
  ASSUME Typed, [Next]_vars, NEW j \in Job,
         ~\E w \in Worker, m \in Message : JobOf[m] = j /\ Receive(w, m)
  PROVE  MayClaim(j)' \subseteq MayClaim(j)
<1> SUFFICES ASSUME NEW w \in Worker, pc'[w] = "received", JobOfTask(w)' = j
             PROVE  w \in MayClaim(j)
  BY DEF MayClaim
<1>1. CASE \E m \in Message : Receive(w, m)
  <2>1. PICK m \in Message : Receive(w, m)
    BY <1>1
  <2>2. task'[w].msg = m
    BY <2>1 DEF Receive, NewTask, Typed, TypeOK
  <2> QED BY <2>1, <2>2 DEF JobOfTask
<1>2. CASE ~\E m \in Message : Receive(w, m)
  BY <1>2, ReceivedBefore DEF MayClaim, JobOfTask
<1> QED BY <1>1, <1>2

\* Deliveries are counted by the receives alone.
LEMMA SameDeliveries ==
  ASSUME \A m \in Message : msgs'[m].receives = msgs[m].receives, NEW j \in Job
  PROVE  Delivered(j)' = Delivered(j)
BY DEF Delivered

\* Initially nothing was delivered and nothing attempted.
LEMMA AttemptsInit == Init => AttemptsDelivered
<1> SUFFICES ASSUME Init, NEW j \in Job
             PROVE  Within(jobs[j].attempts, MayClaim(j), Delivered(j))
  BY DEF AttemptsDelivered
<1>1. MayClaim(j) = {}
  BY DEF Init, MayClaim
<1>2. Delivered(j) = {}
  BY WorkerAssumption, MaxReceiveAssumption DEF Init, QueueInit, Delivered
<1>3. jobs[j].attempts = 0
  BY DEF Init, StoreInit
<1> QED BY <1>1, <1>2, <1>3, FS_EmptySet DEF Within

\* A receive pays for the attempt that may follow it.
LEMMA ReceiveDelivers ==
  ASSUME Typed, AttemptsDelivered, NEW w \in Worker, NEW m \in Message,
         Receive(w, m) \/ ReceiveRaises(w, m)
  PROVE  AttemptsDelivered'
<1>1. UNCHANGED jobs /\ ReceiveMessage(m) /\ [Next]_vars
  BY DEF Receive, ReceiveRaises, storeVars, Next, Consume
<1>2. \A j \in Job : jobs[j].attempts \in Nat
  BY DEF Typed, TypeOK, StoreTypeOK, JobRow
<1>3. /\ msgs[m].receives \in 0..MaxReceive /\ msgs[m].receives < MaxReceive
      /\ msgs'[m].receives = msgs[m].receives + 1
      /\ \A n \in Message \ {m} : msgs'[n] = msgs[n]
  BY <1>1, MaxReceiveAssumption DEF ReceiveMessage, Typed, TypeOK, QueueTypeOK
<1> SUFFICES ASSUME NEW j \in Job
             PROVE  Within(jobs[j].attempts, MayClaim(j)', Delivered(j)')
  BY <1>1 DEF AttemptsDelivered
<1>4. CASE JobOf[m] # j
  <2>1. MayClaim(j)' \subseteq MayClaim(j)
    <3>1. ASSUME NEW v \in Worker, NEW n \in Message, Receive(v, n)
          PROVE  n = m
      BY <1>1, <3>1 DEF Receive, ReceiveMessage, Typed, TypeOK, QueueTypeOK
    <3> QED BY <1>1, <1>4, <3>1, NoNewClaimant
  <2>2. Delivered(j)' = Delivered(j)
    BY <1>3, <1>4 DEF Delivered
  <2> QED BY <1>2, <2>1, <2>2, WithinKept DEF AttemptsDelivered
<1>5. CASE JobOf[m] = j
  <2>1. MayClaim(j)' \subseteq MayClaim(j) \cup {w}
    BY DEF Receive, ReceiveRaises, workerVars, MayClaim, JobOfTask, Goto, Typed, TypeOK
  <2> DEFINE d == <<m, msgs[m].receives + 1>>
  <2>2. d \notin Delivered(j)
    BY <1>3 DEF Delivered
  <2>3. Delivered(j)' = Delivered(j) \cup {d}
    BY <1>3, <1>5, MaxReceiveAssumption DEF Delivered
  <2> HIDE DEF d
  <2> QED BY <1>2, <2>1, <2>2, <2>3, WithinGained DEF AttemptsDelivered
<1> QED BY <1>4, <1>5

\* A claim spends the delivery of its worker.
LEMMA ClaimSpends ==
  ASSUME Typed, AttemptsDelivered, NEW w \in Worker, Claim(w)
  PROVE  AttemptsDelivered'
<1>1. /\ UNCHANGED msgs /\ pc[w] = "received" /\ JobOfTask(w) \in Job
      /\ [Next]_vars /\ pc'[w] = "reporting"
  BY TaskTyped DEF Claim, Next, Consume, Goto, Typed, TypeOK
<1>2. /\ \A j \in Job : jobs[j].attempts \in Nat
      /\ jobs'[JobOfTask(w)].attempts = jobs[JobOfTask(w)].attempts + 1
      /\ \A j \in Job \ {JobOfTask(w)} : jobs'[j] = jobs[j]
  BY <1>1 DEF Claim, MarkJobProcessing, Typed, TypeOK, StoreTypeOK, JobRow
<1> SUFFICES ASSUME NEW j \in Job
             PROVE  Within(jobs'[j].attempts, MayClaim(j)', Delivered(j)')
  BY DEF AttemptsDelivered
<1>3. MayClaim(j)' \subseteq MayClaim(j) /\ w \notin MayClaim(j)'
  <2>1. ASSUME NEW v \in Worker, NEW n \in Message
        PROVE  ~Receive(v, n)
    BY <1>1 DEF Receive, Goto, Typed, TypeOK
  <2> QED BY <1>1, <2>1, NoNewClaimant DEF MayClaim
<1>4. Delivered(j)' = Delivered(j)
  BY <1>1, SameDeliveries
<1>5. CASE JobOfTask(w) = j
  <2>1. w \in MayClaim(j)
    BY <1>1, <1>5 DEF MayClaim
  <2>2. Within(jobs[j].attempts + 1, MayClaim(j) \ {w}, Delivered(j))
    BY <1>2, <2>1, WithinSpent DEF AttemptsDelivered
  <2> QED BY <1>2, <1>3, <1>4, <1>5, <2>2, WithinKept
<1>6. CASE JobOfTask(w) # j
  BY <1>2, <1>3, <1>4, <1>6, WithinKept DEF AttemptsDelivered
<1> QED BY <1>5, <1>6

\* Every step keeps the attempts of a job within its deliveries.
LEMMA AttemptsStep ==
  ASSUME Typed, AttemptsDelivered, [Next]_vars
  PROVE  AttemptsDelivered'
<1>1. CASE \E w \in Worker, m \in Message : Receive(w, m) \/ ReceiveRaises(w, m)
  BY <1>1, ReceiveDelivers
<1>2. CASE \E w \in Worker : Claim(w)
  BY <1>2, ClaimSpends
<1>3. CASE /\ ~\E w \in Worker : Claim(w)
           /\ ~\E w \in Worker, m \in Message : Receive(w, m) \/ ReceiveRaises(w, m)
  <2>1. \/ UNCHANGED vars \/ Later
        \/ \E j \in Job : Submit(j)
        \/ \E m \in Message : Dispatch(m)
    BY DEF Next, Environment, Later
  <2>2. QueueTypeOK /\ jobs \in [Job -> JobRow]
    BY DEF Typed, TypeOK, StoreTypeOK
  <2>3. \A j \in Job : jobs'[j].attempts = jobs[j].attempts
    <3>1. CASE \E j \in Job : Submit(j)
      BY <2>2, <3>1 DEF Submit, CreateJob, JobRow
    <3>2. CASE UNCHANGED vars \/ \E m \in Message : Dispatch(m)
      BY <3>2 DEF Dispatch, storeVars, vars
    <3> QED BY <1>3, <2>1, <3>1, <3>2, RowsKept
  <2>4. \A m \in Message : msgs'[m].receives = msgs[m].receives
    <3>1. ASSUME NEW m \in Message, Dispatch(m)
          PROVE  \A n \in Message : msgs'[n].receives = msgs[n].receives
      BY <2>2, <3>1 DEF Dispatch, SendMessage, QueueTypeOK
    <3>2. ASSUME NEW m \in Message, NEW r,
                 VisibilityTimeoutEnds(m) \/ MoveToDeadLetter(m) \/ DeleteMessage(m, r)
          PROVE  \A n \in Message : msgs'[n].receives = msgs[n].receives
      BY <2>2, <3>2 DEF VisibilityTimeoutEnds, MoveToDeadLetter, DeleteMessage, QueueTypeOK
    <3>3. CASE UNCHANGED vars \/ \E j \in Job : Submit(j)
      BY <3>3 DEF vars, Submit
    <3> QED BY <1>3, <2>1, <3>1, <3>2, <3>3, QueueCalls
  <2> SUFFICES ASSUME NEW j \in Job
               PROVE  Within(jobs'[j].attempts, MayClaim(j)', Delivered(j)')
    BY DEF AttemptsDelivered
  <2>5. MayClaim(j)' \subseteq MayClaim(j) /\ Delivered(j)' = Delivered(j)
    BY <1>3, <2>4, NoNewClaimant, SameDeliveries
  <2>6. jobs[j].attempts \in Nat
    BY <2>2 DEF JobRow
  <2> QED BY <2>3, <2>5, <2>6, WithinKept DEF AttemptsDelivered
<1> QED BY <1>1, <1>2, <1>3

AttemptsPaid ==
    \A j \in Job : /\ IsFiniteSet(Delivered(j))
                   /\ jobs[j].attempts <= Cardinality(Delivered(j))

\* What the invariant says of the attempts alone.
LEMMA PaidByDeliveries ==
  ASSUME Typed, AttemptsDelivered
  PROVE  AttemptsPaid
<1> SUFFICES ASSUME NEW j \in Job
             PROVE  /\ IsFiniteSet(Delivered(j))
                    /\ jobs[j].attempts <= Cardinality(Delivered(j))
  BY DEF AttemptsPaid
<1>1. /\ jobs[j].attempts \in Nat
      /\ Within(jobs[j].attempts, MayClaim(j), Delivered(j))
  BY DEF Typed, TypeOK, StoreTypeOK, JobRow, AttemptsDelivered
<1>2. Cardinality(MayClaim(j)) \in Nat /\ Cardinality(Delivered(j)) \in Nat
  BY <1>1, FS_CardinalityType DEF Within
<1> QED BY <1>1, <1>2 DEF Within

\* A job is never attempted more often than its messages were received,
\* whatever the workers, the redrive policy and the crashes do
\* (consume_one_message claims at most once for each message it received).
THEOREM AttemptsArePaid == Spec => []AttemptsPaid
<1>1. IInv /\ AttemptsDelivered /\ [Next]_vars => AttemptsDelivered'
  BY AttemptsStep DEF IInv
<1>2. IInv /\ AttemptsDelivered => AttemptsPaid
  BY PaidByDeliveries DEF IInv
<1> QED BY <1>1, <1>2, AttemptsInit, Invariance, PTL DEF Spec
=============================================================================
