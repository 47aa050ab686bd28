--------------------------- MODULE PlatformProofs ---------------------------
(***************************************************************************)
(* Proofs about module Platform, for any sets of jobs and processes, any   *)
(* batch, any redrive limit and any bound on the faults.                   *)
(*                                                                         *)
(* The proofs are by composition.  Every step of the platform is a step of *)
(* the worker pool or leaves it alone, and a step of the outbox or leaves  *)
(* it alone, so the theorems about the two hold of the platform: they are  *)
(* instantiated here (WP and DP) with the platform's variables.  What is   *)
(* the platform's own is the link between the two sides: a job is in its   *)
(* table when its event is (SameJobs), and a message is in the queue when  *)
(* the outbox has sent it (SentMessages).                                  *)
(***************************************************************************)
EXTENDS Platform, TLAPS

WP == INSTANCE WorkerProofs WITH Worker <- Process, MaxCrashes <- MaxFaults

DP == INSTANCE OutboxProofs WITH
        Event <- Job, Dispatcher <- Process, tokenSeq <- claimSeq, pc <- at

\* The job and its event were created together.
SameJobs == \A j \in Job : jobs[j].status = "absent" <=> outbox[j].status = "absent"

\* The messages of a job are numbered by the sends of its event.
SentMessages == \A m \in Message : msgs[m].state = "unsent" <=> m[2] > sent[m[1]]

Turns == turn \in [Process -> {"dispatch", "consume"}]

IInv ==
    /\ WP!IInv /\ WP!AttemptsDelivered
    /\ DP!IInv /\ DP!ClaimsOwed
    /\ SameJobs
    /\ SentMessages
    /\ Turns

-----------------------------------------------------------------------------
(* The two sides, and the theorems about them.  W and WP are two instances *)
(* of the same definitions, and so are D and DP.                           *)

\* The platform's constants are those of a worker pool and of an outbox.
LEMMA Constants ==
  /\ WP!MaxReceiveAssumption /\ WP!WorkerAssumption
  /\ DP!OutboxAssumption
  BY PlatformAssumption
  DEF WP!MaxReceiveAssumption, WP!WorkerAssumption, DP!OutboxAssumption, Message, JobOf

\* The worker pool's initial states and properties are the same in both instances.
LEMMA SameWorkerState ==
  /\ W!Init <=> WP!Init
  /\ W!TypeOK <=> WP!TypeOK
  /\ W!AtomicCompletion <=> WP!AtomicCompletion
  /\ W!DeletedOnlyCompleted <=> WP!DeletedOnlyCompleted
  BY DEF W!Init, WP!Init, W!StoreInit, WP!StoreInit, W!QueueInit, WP!QueueInit, W!NoToken,
     WP!NoToken, W!NoKey, WP!NoKey, W!NoTask, WP!NoTask, W!NewTask, WP!NewTask, W!TypeOK,
     WP!TypeOK, W!StoreTypeOK, WP!StoreTypeOK, W!QueueTypeOK, WP!QueueTypeOK, W!JobStatus,
     WP!JobStatus, W!JobRow, WP!JobRow, W!MessageState, WP!MessageState, W!PC, WP!PC, W!Task,
     WP!Task, W!Outcome, WP!Outcome, W!Heartbeat, WP!Heartbeat, W!Artifact, WP!Artifact,
     W!AtomicCompletion, WP!AtomicCompletion, W!MetadataRows, WP!MetadataRows,
     W!DeletedOnlyCompleted, WP!DeletedOnlyCompleted

\* So are the steps around its loop.
LEMMA SameWorkerActions ==
  /\ \A j : (W!Submit(j) <=> WP!Submit(j)) /\ (W!LeaseClock(j) <=> WP!LeaseClock(j))
  /\ \A m : /\ W!Dispatch(m) <=> WP!Dispatch(m)
            /\ W!VisibilityClock(m) <=> WP!VisibilityClock(m)
            /\ W!Redrive(m) <=> WP!Redrive(m)
  /\ \A p : (W!Crash(p) <=> WP!Crash(p)) /\ (W!Restart(p) <=> WP!Restart(p))
  BY DEF W!Submit, WP!Submit, W!CreateJob, WP!CreateJob, W!Dispatch, WP!Dispatch, W!SendMessage,
     WP!SendMessage, W!LeaseClock, WP!LeaseClock, W!LeaseExpires, WP!LeaseExpires,
     W!VisibilityClock, WP!VisibilityClock, W!VisibilityTimeoutEnds,
     WP!VisibilityTimeoutEnds, W!Redrive, WP!Redrive, W!MoveToDeadLetter,
     WP!MoveToDeadLetter, W!Crash, WP!Crash, W!Restart, WP!Restart, W!Goto, WP!Goto,
     W!NoTask, WP!NoTask, W!NewTask, WP!NewTask, W!NoToken, WP!NoToken, W!NoKey, WP!NoKey,
     W!storeVars, WP!storeVars, W!workerVars, WP!workerVars

\* So is the loop.
LEMMA SameConsume == \A p : W!Consume(p) <=> WP!Consume(p)
  BY DEF W!Consume, WP!Consume, W!Receive, WP!Receive, W!ReceiveRaises, WP!ReceiveRaises,
     W!ReceiveMessage, WP!ReceiveMessage, W!Claim, WP!Claim, W!ClaimRefused, WP!ClaimRefused,
     W!Claimable, WP!Claimable, W!MarkJobProcessing, WP!MarkJobProcessing, W!FreshToken,
     WP!FreshToken, W!NewHeartbeat, WP!NewHeartbeat, W!FindCompleted, WP!FindCompleted,
     W!FindInProgress, WP!FindInProgress, W!DiscardDuplicate, WP!DiscardDuplicate,
     W!DeleteMessage, WP!DeleteMessage, W!PutReport, WP!PutReport, W!PutReportRaises,
     WP!PutReportRaises, W!StoreArtifact, WP!StoreArtifact, W!Complete, WP!Complete,
     W!CompleteFenced, WP!CompleteFenced, W!CompleteRaises, WP!CompleteRaises,
     W!CompleteJobWithReport, WP!CompleteJobWithReport, W!OwnsClaim, WP!OwnsClaim,
     W!Released, WP!Released, W!EndWith, WP!EndWith, W!Leave, WP!Leave, W!StopHeartbeat,
     WP!StopHeartbeat, W!Delete, WP!Delete, W!DeleteRaises, WP!DeleteRaises, W!Fail, WP!Fail,
     W!FailJob, WP!FailJob, W!Goto, WP!Goto, W!BackToIdle, WP!BackToIdle, W!JobOfTask,
     WP!JobOfTask, W!NoTask, WP!NoTask, W!NewTask, WP!NewTask, W!NoToken, WP!NoToken,
     W!NoKey, WP!NoKey, W!storeVars, WP!storeVars, W!workerVars, WP!workerVars

\* So is the heartbeat thread.
LEMMA SameBeat == \A h : W!Beat(h) <=> WP!Beat(h)
  BY DEF W!Beat, WP!Beat, W!HeartbeatFires, WP!HeartbeatFires, W!HeartbeatRenews,
     WP!HeartbeatRenews, W!HeartbeatEnds, WP!HeartbeatEnds, W!RenewJobProcessingLease,
     WP!RenewJobProcessingLease, W!OwnsClaim, WP!OwnsClaim, W!storeVars, WP!storeVars

\* The outbox's initial states and types are the same in both instances.
LEMMA SameOutboxState == (D!Init <=> DP!Init) /\ (D!TypeOK <=> DP!TypeOK)
  BY DEF D!Init, DP!Init, D!NoToken, DP!NoToken, D!TypeOK, DP!TypeOK, D!EventRow, DP!EventRow,
     D!Status, DP!Status

\* So are its steps.
LEMMA SameOutboxActions ==
  /\ \A e : /\ D!CreateEvent(e) <=> DP!CreateEvent(e)
            /\ D!AbandonedLease(e) <=> DP!AbandonedLease(e)
            /\ D!SlowLease(e) <=> DP!SlowLease(e)
  /\ \A d : /\ D!Dispatch(d) <=> DP!Dispatch(d)
            /\ D!Crash(d) <=> DP!Crash(d)
            /\ D!Restart(d) <=> DP!Restart(d)
  BY DEF D!CreateEvent, DP!CreateEvent, D!AbandonedLease, DP!AbandonedLease, D!SlowLease,
     DP!SlowLease, D!Attended, DP!Attended, D!OwnsEvent, DP!OwnsEvent, D!LeaseExpires,
     DP!LeaseExpires, D!Fault, DP!Fault, D!Dispatch, DP!Dispatch, D!ClaimBatch,
     DP!ClaimBatch, D!Claimable, DP!Claimable, D!MayBeLocked, DP!MayBeLocked, D!Oldest,
     DP!Oldest, D!Cardinality, DP!Cardinality, D!FreshToken, DP!FreshToken, D!Publish,
     DP!Publish, D!PublishRaises, DP!PublishRaises, D!MarkPublished, DP!MarkPublished,
     D!MarkPublishedRaises, DP!MarkPublishedRaises, D!MarkFailed, DP!MarkFailed, D!MarkEvent,
     DP!MarkEvent, D!NextEvent, DP!NextEvent, D!NoToken, DP!NoToken, D!Crash, DP!Crash,
     D!Restart, DP!Restart, D!tableVars, DP!tableVars, D!localVars, DP!localVars

-----------------------------------------------------------------------------
(* Every step of the platform is a step of each side, or leaves it alone.  *)

\* The steps of the platform, by what they do to the two sides.
LEMMA Sides ==
  ASSUME [Next]_vars
  PROVE  \/ \E j \in Job : WP!Submit(j) /\ DP!CreateEvent(j)
         \/ WP!Later /\ UNCHANGED outboxSide
         \/ WP!Later /\ DP!Later /\ UNCHANGED sent
         \/ DP!Later /\ Deliver
         \/ UNCHANGED workerSide /\ UNCHANGED outboxSide
<1>1. CASE UNCHANGED vars
  BY <1>1 DEF vars
<1>2. ASSUME NEW j \in Job, CreateJob(j) \/ JobClock(j) \/ EventClock(j)
      PROVE  \/ WP!Submit(j) /\ DP!CreateEvent(j)
             \/ WP!LeaseClock(j) /\ UNCHANGED outboxSide
             \/ (DP!AbandonedLease(j) \/ DP!SlowLease(j)) /\ Deliver
  BY <1>2, SameWorkerActions, SameOutboxActions
  DEF CreateJob, JobClock, EventClock, Deliver, DP!AbandonedLease, DP!SlowLease, DP!LeaseExpires
<1>3. ASSUME NEW m \in Message, QueueClock(m)
      PROVE  (WP!VisibilityClock(m) \/ WP!Redrive(m)) /\ UNCHANGED outboxSide
  BY <1>3, SameWorkerActions DEF QueueClock
<1>4. ASSUME NEW p \in Process, Loop(p)
      PROVE  \/ DP!Dispatch(p) /\ Deliver
             \/ WP!Consume(p) /\ UNCHANGED outboxSide
             \/ UNCHANGED workerSide /\ UNCHANGED outboxSide
  BY <1>4, SameConsume, SameOutboxActions
  DEF Loop, DispatchOutbox, NothingToDispatch, ConsumeMessage, EmptyPoll
<1>5. ASSUME NEW p \in Process, Crash(p) \/ Restart(p)
      PROVE  /\ \/ WP!Crash(p) /\ DP!Crash(p)
                \/ WP!Restart(p) /\ DP!Restart(p)
             /\ UNCHANGED sent
  BY <1>5, SameWorkerActions, SameOutboxActions DEF Crash, Restart, DP!Crash, DP!Restart
<1>6. ASSUME NEW h \in heartbeats, Heartbeat(h)
      PROVE  WP!Beat(h) /\ UNCHANGED outboxSide
  BY <1>6, SameBeat DEF Heartbeat
<1> QED BY <1>1, <1>2, <1>3, <1>4, <1>5, <1>6 DEF Next, WP!Later, DP!Later

\* A side that is left alone stutters.
LEMMA SidesStutter ==
  /\ UNCHANGED workerSide => UNCHANGED WP!vars
  /\ UNCHANGED outboxSide => UNCHANGED DP!vars
  BY DEF workerSide, WP!vars, WP!storeVars, WP!workerVars,
     outboxSide, DP!vars, DP!tableVars, DP!localVars

\* The steps of a side are steps of its specification.
LEMMA SideSteps ==
  /\ \A j \in Job : WP!Submit(j) => WP!Next
  /\ \A m \in Message : WP!Dispatch(m) => WP!Next
  /\ WP!Later => WP!Next
  /\ \A e \in Job : DP!CreateEvent(e) => DP!Next
  /\ DP!Later => DP!Next
  BY DEF WP!Next, WP!Later, WP!Environment, DP!Next, DP!Later

\* The outbox's invariant is kept.
LEMMA OutboxKept ==
  ASSUME IInv, [Next]_vars
  PROVE  /\ [DP!Next]_DP!vars
         /\ DP!IInv' /\ DP!ClaimsOwed'
<1>1. [DP!Next]_DP!vars
  BY Sides, SidesStutter, SideSteps
<1>2. DP!IInv'
  BY <1>1, Constants, DP!InvStep DEF IInv
<1>3. DP!ClaimsOwed'
  BY <1>1, <1>2, Constants, DP!OwedStep DEF IInv
<1> QED BY <1>1, <1>2, <1>3

\* What the outbox puts on the queue is the next message of a job, and there is
\* one: no job is sent more often than it has messages.
LEMMA Delivers ==
  ASSUME IInv, [Next]_vars, Deliver, ~UNCHANGED sent
  PROVE  \E j \in Job : /\ <<j, sent[j] + 1>> \in Message
                        /\ sent' = [sent EXCEPT ![j] = @ + 1]
                        /\ WP!Dispatch(<<j, sent[j] + 1>>)
<1>1. PICK j \in Job : sent'[j] # sent[j] /\ W!Dispatch(<<j, sent'[j]>>)
  BY DEF Deliver
<1>2. sent \in [Job -> Nat]
  BY DEF IInv, DP!IInv, DP!TypeOK
<1>3. sent' = [sent EXCEPT ![j] = @ + 1]
  BY <1>1, <1>2, OutboxKept, Constants, DP!OneSend DEF IInv
<1>4. sent'[j] = sent[j] + 1 /\ sent'[j] \in Nat
  BY <1>2, <1>3
<1>5. sent'[j] <= 1 + faults' /\ faults' \in 0..MaxFaults
  <2>1. (DP!IInv /\ DP!ClaimsOwed => \A e \in Job : sent[e] <= 1 + faults)'
    BY Constants, DP!OwedSends, PTL
  <2>2. faults' \in 0..MaxFaults
    BY OutboxKept DEF DP!IInv, DP!TypeOK
  <2> QED BY <2>1, <2>2, OutboxKept
<1>6. <<j, sent[j] + 1>> \in Message
  BY <1>2, <1>4, <1>5, PlatformAssumption DEF Message
<1> QED BY <1>1, <1>3, <1>4, <1>6, SameWorkerActions

\* The worker pool's invariant is kept.
LEMMA WorkersKept ==
  ASSUME IInv, [Next]_vars
  PROVE  /\ [WP!Next]_WP!vars
         /\ WP!IInv' /\ WP!AttemptsDelivered'
<1>1. [WP!Next]_WP!vars
  <2>1. CASE Deliver /\ ~UNCHANGED sent
    BY <2>1, Delivers, SideSteps
  <2>2. CASE Deliver /\ UNCHANGED sent
    BY <2>2, SidesStutter DEF Deliver
  <2> QED BY <2>1, <2>2, Sides, SidesStutter, SideSteps
<1>2. WP!IInv'
  BY <1>1, Constants, WP!InvStep DEF IInv
<1>3. WP!AttemptsDelivered'
  BY <1>1, Constants, WP!AttemptsStep DEF IInv, WP!IInv
<1> QED BY <1>1, <1>2, <1>3

-----------------------------------------------------------------------------
(* The link between the two sides.                                         *)

\* A job and its event are created in one transaction, and none goes away.
LEMMA SameJobsStep ==
  ASSUME IInv, [Next]_vars
  PROVE  SameJobs'
<1>1. /\ jobs \in [Job -> WP!JobRow] /\ outbox \in [Job -> DP!EventRow]
      /\ WP!Typed /\ DP!IInv /\ SameJobs
  BY DEF IInv, WP!IInv, WP!Typed, WP!TypeOK, WP!StoreTypeOK, DP!IInv, DP!TypeOK
<1>2. ASSUME NEW j \in Job, WP!Submit(j), DP!CreateEvent(j)
      PROVE  SameJobs'
  <2>1. /\ jobs'[j].status = "pending" /\ outbox'[j].status = "pending"
        /\ \A i \in Job \ {j} : jobs'[i] = jobs[i] /\ outbox'[i] = outbox[i]
    BY <1>1, <1>2 DEF WP!Submit, WP!CreateJob, DP!CreateEvent, WP!JobRow, DP!EventRow
  <2> QED BY <1>1, <2>1 DEF SameJobs
<1>3. WP!Later => \A j \in Job : jobs'[j].status = "absent" <=> jobs[j].status = "absent"
  BY <1>1, Constants, WP!RowsKept
<1>4. DP!Later => \A j \in Job : outbox'[j].status = "absent" <=> outbox[j].status = "absent"
  BY <1>1, Constants, DP!EventsKept
<1>5. Deliver => UNCHANGED jobs
  BY Delivers DEF Deliver, W!Dispatch, W!storeVars, workerSide
<1>6. /\ UNCHANGED workerSide => UNCHANGED jobs
      /\ UNCHANGED outboxSide => UNCHANGED outbox
  BY DEF workerSide, outboxSide
<1> QED BY <1>1, <1>2, <1>3, <1>4, <1>5, <1>6, Sides DEF SameJobs

\* A message is put on the queue in the step that counts its send.
LEMMA SentMessagesStep ==
  ASSUME IInv, [Next]_vars
  PROVE  SentMessages'
<1>1. /\ msgs \in [Message -> [state: WP!MessageState, receives: 0..MaxReceive]]
      /\ sent \in [Job -> Nat]
      /\ WP!Typed /\ DP!IInv /\ SentMessages
  BY DEF IInv, WP!IInv, WP!Typed, WP!TypeOK, WP!QueueTypeOK, DP!IInv, DP!TypeOK
<1>2. \A m \in Message : m[1] \in Job /\ m[2] \in Nat /\ m = <<m[1], m[2]>>
  BY PlatformAssumption DEF Message
<1>3. CASE Deliver /\ ~UNCHANGED sent
  <2>1. PICK j \in Job : /\ <<j, sent[j] + 1>> \in Message
                         /\ sent' = [sent EXCEPT ![j] = @ + 1]
                         /\ WP!Dispatch(<<j, sent[j] + 1>>)
    BY <1>3, Delivers
  <2> DEFINE n == <<j, sent[j] + 1>>
  <2>2. /\ msgs'[n].state = "visible" /\ n \in Message
        /\ \A m \in Message \ {n} : msgs'[m] = msgs[m]
    BY <1>1, <2>1 DEF WP!Dispatch, WP!SendMessage
  <2>3. ASSUME NEW m \in Message
        PROVE  msgs'[m].state = "unsent" <=> m[2] > sent'[m[1]]
    <3>1. CASE m = n
      BY <1>1, <2>1, <2>2, <3>1
    <3>2. CASE m # n /\ m[1] = j
      <4>1. m[2] # sent[j] + 1
        BY <1>2, <3>2
      <4>2. m[2] > sent[j] <=> m[2] > sent[j] + 1
        BY <1>1, <1>2, <4>1
      <4> QED BY <1>1, <2>1, <2>2, <3>2, <4>2 DEF SentMessages
    <3>3. CASE m[1] # j
      <4>1. m # n /\ sent'[m[1]] = sent[m[1]]
        BY <1>1, <1>2, <2>1, <3>3
      <4> QED BY <1>1, <2>2, <4>1 DEF SentMessages
    <3> QED BY <3>1, <3>2, <3>3
  <2> QED BY <2>3 DEF SentMessages
<1>4. ASSUME UNCHANGED sent,
             \A m \in Message : msgs'[m].state = "unsent" <=> msgs[m].state = "unsent"
      PROVE  SentMessages'
  BY <1>1, <1>4 DEF SentMessages
<1>5. WP!Later => \A m \in Message : msgs'[m].state = "unsent" <=> msgs[m].state = "unsent"
  BY <1>1, Constants, WP!NothingSent
<1>6. CASE Deliver /\ UNCHANGED sent
  BY <1>4, <1>6 DEF Deliver, workerSide
<1>7. CASE \E j \in Job : WP!Submit(j) /\ DP!CreateEvent(j)
  BY <1>4, <1>7 DEF WP!Submit, DP!CreateEvent
<1>8. CASE WP!Later /\ UNCHANGED outboxSide
  BY <1>4, <1>5, <1>8 DEF outboxSide
<1>9. CASE UNCHANGED workerSide /\ UNCHANGED outboxSide
  BY <1>4, <1>9 DEF workerSide, outboxSide
<1>10. CASE WP!Later /\ UNCHANGED sent
  BY <1>4, <1>5, <1>10
<1> QED BY <1>3, <1>6, <1>7, <1>8, <1>9, <1>10, Sides

\* Each process is in one half of its loop.
LEMMA TurnsStep ==
  ASSUME Turns, [Next]_vars
  PROVE  Turns'
<1>1. Turns /\ (UNCHANGED turn \/ \E p \in Process, half \in {"dispatch", "consume"} : Enter(p, half))
      => Turns'
  BY DEF Turns, Enter
<1> QED
  BY <1>1 DEF Next, vars, CreateJob, JobClock, EventClock, QueueClock, Loop, DispatchOutbox,
     NothingToDispatch, ConsumeMessage, EmptyPoll, Heartbeat, Crash, Restart

\* Initially neither side has anything.
LEMMA InvInit == Init => IInv
<1> SUFFICES ASSUME Init
             PROVE  IInv
  OBVIOUS
<1>1. WP!Init /\ DP!Init
  BY SameWorkerState, SameOutboxState DEF Init
<1>2. WP!IInv /\ WP!AttemptsDelivered /\ DP!IInv /\ DP!ClaimsOwed
  BY <1>1, Constants, WP!InvInit, WP!AttemptsInit, DP!InvInit, DP!OwedInit
<1>3. SameJobs
  BY <1>1 DEF WP!Init, WP!StoreInit, DP!Init, SameJobs
<1>4. SentMessages
  BY <1>1 DEF WP!Init, WP!QueueInit, DP!Init, SentMessages, Message
<1>5. Turns
  BY DEF Init, Turns
<1> QED BY <1>2, <1>3, <1>4, <1>5 DEF IInv

\* The platform keeps the invariants of both sides, and the link between them.
THEOREM Invariance == Spec => []IInv
<1>1. IInv /\ [Next]_vars => IInv'
  BY OutboxKept, WorkersKept, SameJobsStep, SentMessagesStep, TurnsStep DEF IInv
<1> QED BY <1>1, InvInit, PTL DEF Spec

-----------------------------------------------------------------------------
(* The properties.                                                         *)

\* A job that is not completed has its event still to be published, or one of
\* its messages in the queue or the dead-letter queue: a published event was
\* sent, so its first message exists, and a message is deleted only when the
\* job is completed (create_job, dispatch_outbox, consume_one_message).
THEOREM JobsAreNotForgotten == Spec => []NoJobForgotten
<1>1. IInv => NoJobForgotten
  <2> SUFFICES ASSUME IInv, NEW j \in Job, jobs[j].status \notin {"absent", "completed"},
                      outbox[j].status \notin {"pending", "publishing", "failed"}
               PROVE  \E m \in Messages(j) : msgs[m].state \in {"visible", "inflight", "dead"}
    BY DEF NoJobForgotten
  <2>1. /\ outbox[j].status \in DP!Status /\ sent[j] \in Nat
        /\ \A m \in Message : msgs[m].state \in WP!MessageState
    BY DEF IInv, DP!IInv, DP!TypeOK, DP!EventRow, WP!IInv, WP!Typed, WP!TypeOK, WP!QueueTypeOK
  <2>2. outbox[j].status = "published"
    BY <2>1 DEF IInv, SameJobs, DP!Status
  <2>3. sent[j] > 0
    BY <2>2 DEF IInv, DP!IInv, DP!PublishedWasSent
  <2> DEFINE m == <<j, 1>>
  <2>4. m \in Messages(j) /\ m \in Message /\ JobOf[m] = j
    BY PlatformAssumption DEF Messages, Message, JobOf
  <2>5. msgs[m].state # "unsent"
    BY <2>1, <2>3, <2>4 DEF IInv, SentMessages
  <2>6. msgs[m].state # "deleted"
    BY <2>4 DEF IInv, WP!IInv, WP!DeletedOnlyCompleted
  <2> QED BY <2>1, <2>4, <2>5, <2>6 DEF WP!MessageState
<1> QED BY <1>1, Invariance, PTL

\* Work is bounded from end to end: a message more per fault at most, and no
\* attempt without a delivery (claim_outbox_events, consume_one_message).
THEOREM WorkStaysBounded == Spec => []WorkIsBounded
<1>1. IInv => TypeOK
  BY SameWorkerState, SameOutboxState
  DEF IInv, WP!IInv, WP!Typed, DP!IInv, Turns, TypeOK
<1>2. IInv => \A j \in Job : sent[j] <= 1 + faults
  BY Constants, DP!OwedSends DEF IInv
<1>3. IInv => \A j \in Job : jobs[j].attempts <= Cardinality(Deliveries(j))
  <2>1. \A j \in Job : Deliveries(j) = WP!Delivered(j)
    BY DEF Deliveries, Messages, WP!Delivered, JobOf
  <2>2. \A S : Cardinality(S) = WP!Cardinality(S)
    BY DEF Cardinality, WP!Cardinality
  <2> QED BY <2>1, <2>2, Constants, WP!PaidByDeliveries DEF IInv, WP!IInv, WP!AttemptsPaid
<1>4. IInv => WorkIsBounded
  BY <1>1, <1>2, <1>3 DEF WorkIsBounded
<1> QED BY <1>4, Invariance, PTL

\* The duplicates that the outbox may send do no harm to the completion of a
\* job: the worker pool's theorems hold of the platform.
THEOREM DuplicatesDoNoHarm == Spec => []DuplicatesAreHarmless
<1>1. IInv => DuplicatesAreHarmless
  BY SameWorkerState DEF IInv, WP!IInv, DuplicatesAreHarmless
<1> QED BY <1>1, Invariance, PTL

\* The platform implements both its components as they are specified on their
\* own: composed, neither does what it could not do alone, so every theorem about
\* one of them holds here (run_idle_worker runs one, then the other).
THEOREM ComponentsAreImplemented == Spec => W!Spec /\ D!Spec
<1>1. Init => W!Init /\ D!Init
  BY DEF Init
<1>2. IInv /\ [Next]_vars => [W!Next]_W!vars
  <2>1. WP!Next <=> W!Next
    BY SameWorkerActions, SameConsume, SameBeat
    DEF W!Next, WP!Next, W!Environment, WP!Environment
  <2>2. UNCHANGED WP!vars <=> UNCHANGED W!vars
    BY DEF W!vars, W!storeVars, W!workerVars, WP!vars, WP!storeVars, WP!workerVars
  <2> QED BY <2>1, <2>2, WorkersKept
<1>3. IInv /\ [Next]_vars => [D!Next]_D!vars
  <2>1. DP!Next <=> D!Next
    BY SameOutboxActions DEF D!Next, DP!Next
  <2>2. UNCHANGED DP!vars <=> UNCHANGED D!vars
    BY DEF D!vars, D!tableVars, D!localVars, DP!vars, DP!tableVars, DP!localVars
  <2> QED BY <2>1, <2>2, OutboxKept
<1> QED BY <1>1, <1>2, <1>3, Invariance, PTL DEF Spec, W!Spec, D!Spec

\* What a step may never do to a job or an event, and what a client may see of a
\* job, is the same on the whole platform as for each component: a completed job
\* and a published event never change, claims end by their owners alone, and
\* whatever GET /jobs shows over time is a behaviour of JobLifecycle, and whatever
\* the outbox does is one of EventDelivery.
THEOREM GuaranteesCarryOver ==
  Spec => /\ WP!CompletedIsFinal /\ WP!LiveClaimEndsByOwner /\ WP!NoClaimLeak
          /\ WP!ImplementsLifecycle
          /\ DP!PublishedIsFinal /\ DP!ClaimEndsByOwner /\ DP!ImplementsDelivery
<1>1. Init => WP!Init /\ DP!Init
  BY SameWorkerState, SameOutboxState DEF Init
<1>2. IInv /\ [Next]_vars => [WP!Next]_WP!vars /\ [DP!Next]_DP!vars
  BY WorkersKept, OutboxKept
<1>3. Spec => WP!Spec /\ DP!Spec
  BY <1>1, <1>2, Invariance, PTL DEF Spec, WP!Spec, DP!Spec
<1>4. WP!Spec => /\ WP!CompletedIsFinal /\ WP!LiveClaimEndsByOwner /\ WP!NoClaimLeak
                 /\ WP!ImplementsLifecycle
  BY Constants, WP!CompletionIsFinal, WP!LiveClaimsEndByOwner, WP!ClaimsAreLetGo,
     WP!WorkersImplementLifecycle
<1>5. DP!Spec => DP!PublishedIsFinal /\ DP!ClaimEndsByOwner /\ DP!ImplementsDelivery
  BY Constants, DP!PublishedStays, DP!ClaimsEndByOwner, DP!OutboxImplementsDelivery
<1> QED BY <1>3, <1>4, <1>5
=============================================================================
