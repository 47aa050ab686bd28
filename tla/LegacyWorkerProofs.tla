-------------------------- MODULE LegacyWorkerProofs --------------------------
(***************************************************************************)
(* Proofs about module LegacyWorker, for any sets of messages and workers, *)
(* any size of a batch, any MaxReceive and any bound on the crashes.       *)
(*                                                                         *)
(* Without tokens and leases what bounds the attempts is the queue: a      *)
(* worker that has a message in its batch and has not come to it may still *)
(* claim the job once (MayClaim), and it paid for that with a receive.  A  *)
(* claim in turn pays for one completion (Completing).                     *)
(***************************************************************************)
EXTENDS LegacyWorker, FiniteSetTheorems, TLAPS

\* The locals of a worker at each place of the loop: it has a job_id only while
\* it is at the message it came from.
Locals(w) ==
    /\ pc[w] \in {"down", "idle"} => batch[w] = {}
    /\ pc[w] \in {"down", "idle", "next"} => current[w] = {} /\ bound[w] = {}
    /\ pc[w] \in {"refused", "processing", "deleting"} =>
          \E m \in batch[w] : current[w] = {m} /\ bound[w] = {m}
    /\ pc[w] = "failing" => \E m \in batch[w] : current[w] = {m} /\ bound[w] \subseteq {m}
    /\ pc[w] = "processing" => task[w].attempt # 0

LocalShape == \A w \in Worker : Locals(w)

\* The workers that may still claim the job, and those about to complete it.
MayClaim(m) == {w \in Worker : m \in batch[w] \ current[w]}
Completing(m) == {w \in Worker : pc[w] = "processing" /\ m \in current[w]}

\* So much was spent, by so many may one more be spent each, within so much.
Within(spent, S, limit) == IsFiniteSet(S) /\ spent + Cardinality(S) <= limit

Budgets ==
    \A m \in Message : /\ Within(jobs[m].attempts, MayClaim(m), msgs[m].receives)
                       /\ Within(completions[m], Completing(m), jobs[m].attempts)

\* A job is completed, and its message deleted, only when it has a result.
ResultFirst ==
    /\ \A m \in Message :
          (jobs[m].status = "completed" \/ msgs[m].state = "deleted") => results[m] # 0
    /\ \A w \in Worker : pc[w] = "deleting" => \A m \in current[w] : results[m] # 0

\* Who was told 202 has sent a message, and nothing moves it elsewhere.
Sent ==
    \A m \in Message : /\ answer[m] = "202" => msgs[m].state # "unsent"
                       /\ msgs[m].state # "dead"

IInv == TypeOK /\ LocalShape /\ Budgets /\ ResultFirst /\ Sent

-----------------------------------------------------------------------------
(* Lemmas about budgets.                                                   *)

\* A budget stays kept when fewer may spend of it and no less is to be spent.
LEMMA WithinKept ==
    ASSUME NEW a \in Nat, NEW S, NEW n \in Nat, Within(a, S, n),
           NEW T \in SUBSET S, NEW k \in Nat, k >= n
    PROVE  Within(a, T, k)
<1>1. IsFiniteSet(T) /\ Cardinality(T) <= Cardinality(S)
  BY FS_Subset DEF Within
<1>2. Cardinality(T) \in Nat /\ Cardinality(S) \in Nat
  BY <1>1, FS_CardinalityType DEF Within
<1> QED
  BY <1>1, <1>2 DEF Within

\* Who spends what it might spend is no longer among those who may.
LEMMA WithinSpent ==
    ASSUME NEW a \in Nat, NEW S, NEW n \in Nat, Within(a, S, n),
           NEW w \in S, NEW T, T = S \ {w}
    PROVE  Within(a + 1, T, n)
<1>1. IsFiniteSet(T) /\ Cardinality(T) = Cardinality(S) - 1
  BY FS_RemoveElement DEF Within
<1>2. Cardinality(T) \in Nat /\ Cardinality(S) \in Nat
  BY <1>1, FS_CardinalityType DEF Within
<1> QED
  BY <1>1, <1>2 DEF Within

\* One more may spend when there is one more to be spent.
LEMMA WithinGained ==
    ASSUME NEW a \in Nat, NEW S, NEW n \in Nat, Within(a, S, n),
           NEW w, NEW T, T \subseteq S \cup {w}
    PROVE  Within(a, T, n + 1)
<1>1. IsFiniteSet(S \cup {w}) /\ Cardinality(S \cup {w}) <= Cardinality(S) + 1
  <2>1. IsFiniteSet(S) /\ Cardinality(S) \in Nat
    BY FS_CardinalityType DEF Within
  <2>2. /\ IsFiniteSet(S \cup {w})
        /\ Cardinality(S \cup {w}) = IF w \in S THEN Cardinality(S) ELSE Cardinality(S) + 1
    BY <2>1, FS_AddElement
  <2> QED
    BY <2>1, <2>2
<1>2. IsFiniteSet(T) /\ Cardinality(T) <= Cardinality(S \cup {w})
  BY <1>1, FS_Subset
<1>3. /\ Cardinality(T) \in Nat /\ Cardinality(S) \in Nat /\ Cardinality(S \cup {w}) \in Nat
  BY <1>1, <1>2, FS_CardinalityType DEF Within
<1> QED
  BY <1>1, <1>2, <1>3 DEF Within

\* No more is spent than there is, and less while somebody still may.
LEMMA WithinLimit ==
    ASSUME NEW a \in Nat, NEW S, NEW n \in Nat, Within(a, S, n)
    PROVE  a <= n /\ \A w \in S : a < n
<1>1. Cardinality(S) \in Nat
  BY FS_CardinalityType DEF Within
<1>2. S # {} => Cardinality(S) # 0
  BY FS_EmptySet DEF Within
<1> QED
  BY <1>1, <1>2 DEF Within

-----------------------------------------------------------------------------
(* Lemmas about the locals.                                                *)

\* The other workers' locals.
OthersStay(w) ==
    \A v \in Worker \ {w} : /\ pc'[v] = pc[v] /\ batch'[v] = batch[v] /\ task'[v] = task[v]
                            /\ current'[v] = current[v] /\ bound'[v] = bound[v]

\* The locals have their types.
LocalsTyped ==
    /\ pc \in [Worker -> {"down", "idle", "next", "refused", "processing", "deleting", "failing"}]
    /\ batch \in [Worker -> SUBSET Message]
    /\ current \in [Worker -> SUBSET Message]
    /\ bound \in [Worker -> SUBSET (Message \ Malformed)]
    /\ task \in [Worker -> [rcpt: [Message -> 0..MaxReceive], attempt: 0..MaxReceive]]

\* The queue and the tables have their types.
RowsTyped ==
    /\ QueueTypeOK
    /\ jobs \in [Message -> [status: JobStatus, attempts: 0..MaxReceive]]
    /\ results \in [Message -> 0..MaxReceive]
    /\ completions \in [Message -> 0..MaxReceive]
    /\ answer \in [Message -> {"none", "202", "500"}]

\* A step of one worker leaves the others where they are, so that only it can
\* come into or out of the sets that the budgets count.
LEMMA LocalsOfOthers ==
    ASSUME LocalShape, NEW w \in Worker, OthersStay(w)
    PROVE  /\ \A v \in Worker \ {w} : Locals(v)'
           /\ \A m \in Message :
                /\ m \in batch'[w] \ current'[w] => MayClaim(m)' = MayClaim(m) \cup {w}
                /\ m \notin batch'[w] \ current'[w] => MayClaim(m)' = MayClaim(m) \ {w}
                /\ pc'[w] = "processing" /\ m \in current'[w] =>
                      Completing(m)' = Completing(m) \cup {w}
                /\ ~(pc'[w] = "processing" /\ m \in current'[w]) =>
                      Completing(m)' = Completing(m) \ {w}
<1>1. \A v \in Worker \ {w} : Locals(v)'
  BY DEF LocalShape, Locals, OthersStay
<1> QED
  BY <1>1 DEF OthersStay, MayClaim, Completing

\* NextMessage drops the current message from the batch and forgets its job_id.
LEMMA NextMessageEffect ==
    ASSUME TypeOK, NEW w \in Worker, NextMessage(w)
    PROVE  /\ LocalsTyped' /\ OthersStay(w)
           /\ batch'[w] = batch[w] \ current[w] /\ current'[w] = {} /\ bound'[w] = {}
           /\ pc'[w] = IF batch'[w] = {} THEN "idle" ELSE "next"
<1> DEFINE rest == batch[w] \ current[w]
           l == IF rest = {} THEN "idle" ELSE "next"
           t == IF rest = {} THEN NoTask ELSE [task[w] EXCEPT !.attempt = 0]
<1>1. LocalsTyped
  BY DEF TypeOK, LocalsTyped
<1>2. /\ batch' = [batch EXCEPT ![w] = rest] /\ current' = [current EXCEPT ![w] = {}]
      /\ bound' = [bound EXCEPT ![w] = {}] /\ pc' = [pc EXCEPT ![w] = l]
      /\ task' = [task EXCEPT ![w] = t]
  BY <1>1 DEF NextMessage, Forget, Goto, LocalsTyped
<1>3. t \in [rcpt: [Message -> 0..MaxReceive], attempt: 0..MaxReceive]
  <2>1. 0 \in 0..MaxReceive
    BY MaxReceiveAssumption
  <2>2. NoTask \in [rcpt: [Message -> 0..MaxReceive], attempt: 0..MaxReceive]
    BY <2>1 DEF NoTask
  <2>3. [task[w] EXCEPT !.attempt = 0] \in [rcpt: [Message -> 0..MaxReceive], attempt: 0..MaxReceive]
    BY <1>1, <2>1 DEF LocalsTyped
  <2> QED
    BY <2>2, <2>3
<1>4. l \in {"idle", "next"} /\ rest \in SUBSET Message
  BY <1>1 DEF LocalsTyped
<1>5. batch'[w] = rest /\ pc'[w] = l
  BY <1>1, <1>2 DEF LocalsTyped
<1> HIDE DEF t, l, rest
<1>6. LocalsTyped' /\ OthersStay(w) /\ current'[w] = {} /\ bound'[w] = {}
  BY <1>1, <1>2, <1>3, <1>4 DEF LocalsTyped, OthersStay
<1> QED
  BY <1>5, <1>6 DEF l, rest

\* The budgets hold where nobody new may spend and nothing is spent.
LEMMA BudgetsStay ==
    ASSUME TypeOK, Budgets,
           \A m \in Message : /\ jobs'[m].attempts = jobs[m].attempts
                              /\ completions'[m] = completions[m]
                              /\ msgs'[m].receives = msgs[m].receives
                              /\ MayClaim(m)' \subseteq MayClaim(m)
                              /\ Completing(m)' \subseteq Completing(m)
    PROVE  Budgets'
<1> SUFFICES ASSUME NEW m \in Message
             PROVE  /\ Within(jobs'[m].attempts, MayClaim(m)', msgs'[m].receives)
                    /\ Within(completions'[m], Completing(m)', jobs'[m].attempts)
  BY DEF Budgets, Within
<1>1. jobs[m].attempts \in Nat /\ completions[m] \in Nat /\ msgs[m].receives \in Nat
  BY MaxReceiveAssumption DEF TypeOK, QueueTypeOK
<1>2. /\ Within(jobs[m].attempts, MayClaim(m), msgs[m].receives)
      /\ Within(completions[m], Completing(m), jobs[m].attempts)
  BY DEF Budgets
<1> QED
  BY <1>1, <1>2, WithinKept

-----------------------------------------------------------------------------
(* The invariant.                                                          *)

\* The invariant holds before the first job.
LEMMA InvInit == Init => IInv
<1> SUFFICES ASSUME Init PROVE IInv
  OBVIOUS
<1>1. TypeOK
  <2>1. 0 \in 0..MaxReceive /\ 0 \in 0..MaxCrashes
    BY MaxReceiveAssumption, LegacyAssumption
  <2> QED
    BY <2>1 DEF Init, TypeOK, QueueInit, QueueTypeOK, MessageState, JobStatus, NoTask
<1>2. LocalShape
  BY DEF Init, LocalShape, Locals
<1>3. Budgets
  <2>1. \A m \in Message : MayClaim(m) = {} /\ Completing(m) = {}
    BY DEF Init, MayClaim, Completing
  <2>2. Within(0, {}, 0)
    BY FS_EmptySet DEF Within
  <2>3. \A m \in Message : jobs[m].attempts = 0 /\ completions[m] = 0 /\ msgs[m].receives = 0
    BY DEF Init, QueueInit
  <2> QED
    BY <2>1, <2>2, <2>3 DEF Budgets
<1>4. ResultFirst /\ Sent
  BY DEF Init, QueueInit, ResultFirst, Sent
<1> QED
  BY <1>1, <1>2, <1>3, <1>4 DEF IInv

\* What a step of a worker has to show, beside what it leaves alone.
LEMMA WorkerStepInv ==
    ASSUME IInv, NEW w \in Worker, OthersStay(w), LocalsTyped', RowsTyped',
           crashes' \in 0..MaxCrashes, Locals(w)', Budgets', UNCHANGED answer,
           \A m \in Message :
              /\ results[m] # 0 => results'[m] # 0
              /\ jobs'[m].status = "completed" =>
                    jobs[m].status = "completed" \/ results'[m] # 0
              /\ msgs'[m].state = "deleted" =>
                    msgs[m].state = "deleted" \/ results'[m] # 0
              /\ msgs[m].state # "unsent" => msgs'[m].state # "unsent"
              /\ msgs'[m].state # "dead",
           pc'[w] = "deleting" => \A m \in current'[w] : results'[m] # 0
    PROVE  IInv'
<1>1. TypeOK'
  BY DEF LocalsTyped, RowsTyped, TypeOK
<1>2. LocalShape'
  BY LocalsOfOthers DEF IInv, LocalShape
<1>3. ResultFirst'
  <2>1. \A m \in Message :
           (jobs'[m].status = "completed" \/ msgs'[m].state = "deleted") => results'[m] # 0
    BY DEF IInv, ResultFirst
  <2>2. \A v \in Worker \ {w} : pc'[v] = "deleting" => \A m \in current'[v] : results'[m] # 0
    BY DEF IInv, TypeOK, ResultFirst, OthersStay
  <2> QED
    BY <2>1, <2>2 DEF ResultFirst
<1>4. Sent'
  BY DEF IInv, Sent
<1> QED
  BY <1>1, <1>2, <1>3, <1>4 DEF IInv

\* A worker that takes nothing into its batch and does not go to "processing"
\* brings no new spender.
LEMMA SpendersStay ==
    ASSUME IInv, NEW w \in Worker, OthersStay(w),
           batch'[w] \ current'[w] \subseteq batch[w] \ current[w], pc'[w] # "processing"
    PROVE  \A m \in Message : /\ MayClaim(m)' \subseteq MayClaim(m)
                              /\ Completing(m)' \subseteq Completing(m)
<1> SUFFICES ASSUME NEW m \in Message
             PROVE  MayClaim(m)' \subseteq MayClaim(m) /\ Completing(m)' \subseteq Completing(m)
  OBVIOUS
<1>1. Completing(m)' = Completing(m) \ {w}
  BY LocalsOfOthers DEF IInv
<1>2. CASE m \in batch'[w] \ current'[w]
  <2>1. w \in MayClaim(m) /\ MayClaim(m)' = MayClaim(m) \cup {w}
    BY <1>2, LocalsOfOthers DEF IInv, MayClaim
  <2> QED
    BY <1>1, <2>1
<1>3. CASE m \notin batch'[w] \ current'[w]
  BY <1>1, <1>3, LocalsOfOthers DEF IInv
<1> QED
  BY <1>2, <1>3

\* A step that changes no row and no message, takes nothing into the batch and
\* does not go to "processing".
LEMMA LocalStepInv ==
    ASSUME IInv, NEW w \in Worker, OthersStay(w), LocalsTyped', crashes' \in 0..MaxCrashes,
           Locals(w)', UNCHANGED <<answer, tableVars, msgs>>,
           batch'[w] \ current'[w] \subseteq batch[w] \ current[w], pc'[w] # "processing",
           pc'[w] = "deleting" => \A m \in current'[w] : results[m] # 0
    PROVE  IInv'
<1>1. RowsTyped'
  BY DEF IInv, TypeOK, RowsTyped, QueueTypeOK, tableVars
<1>2. \A m \in Message : MayClaim(m)' \subseteq MayClaim(m) /\ Completing(m)' \subseteq Completing(m)
  BY SpendersStay
<1>3. Budgets'
  BY <1>2, BudgetsStay DEF IInv, tableVars
<1> QED
  BY <1>1, <1>3, WorkerStepInv DEF IInv, Sent, tableVars

\* The steps of the API, of a stranger and of the queue's clock keep the
\* invariant: they take no message away and attempt nothing.
LEMMA ApiInv ==
    ASSUME IInv, NEW m \in Message,
           CreateJob(m) \/ SendJob(m) \/ SendRaises(m) \/ SendStray(m) \/ VisibilityClock(m)
    PROVE  IInv'
<1> USE DEF IInv, localVars, tableVars
<1>1. UNCHANGED localVars /\ UNCHANGED <<results, completions, crashes>>
  BY DEF CreateJob, SendJob, SendRaises, SendStray, VisibilityClock
<1>2. /\ jobs' \in [Message -> [status: JobStatus, attempts: 0..MaxReceive]]
      /\ \A n \in Message : /\ jobs'[n].attempts = jobs[n].attempts
                            /\ jobs'[n].status = "completed" => jobs[n].status = "completed"
  <2>1. jobs \in [Message -> [status: JobStatus, attempts: 0..MaxReceive]]
    BY DEF TypeOK
  <2>2. CASE CreateJob(m)
    <3>1. jobs' = [jobs EXCEPT ![m].status = "pending"] /\ "pending" \in JobStatus
      BY <2>2 DEF CreateJob, JobStatus
    <3> QED
      BY <2>1, <3>1
  <2>3. CASE UNCHANGED jobs
    BY <2>1, <2>3
  <2> QED
    BY <2>2, <2>3 DEF SendJob, SendRaises, SendStray, VisibilityClock
<1>3. /\ QueueTypeOK'
      /\ \A n \in Message :
            /\ msgs'[n].receives = msgs[n].receives
            /\ msgs'[n].state # msgs[n].state => msgs'[n].state = "visible"
  <2>1. msgs \in [Message -> [state: MessageState, receives: 0..MaxReceive]]
    BY DEF TypeOK, QueueTypeOK
  <2>2. CASE msgs' = [msgs EXCEPT ![m].state = "visible"]
    <3>1. "visible" \in MessageState
      BY DEF MessageState
    <3> QED
      BY <2>1, <2>2, <3>1 DEF QueueTypeOK
  <2>3. CASE UNCHANGED msgs
    BY <2>1, <2>3 DEF QueueTypeOK
  <2> QED
    BY <2>2, <2>3 DEF CreateJob, SendJob, SendRaises, SendStray, VisibilityClock, SendMessage,
                      VisibilityTimeoutEnds
<1>4. /\ answer' \in [Message -> {"none", "202", "500"}]
      /\ \A n \in Message : answer'[n] = "202" =>
            answer[n] = "202" \/ msgs'[n].state = "visible"
  <2>1. CASE SendJob(m)
    BY <2>1 DEF SendJob, SendMessage, Answer, TypeOK, QueueTypeOK
  <2>2. CASE SendRaises(m)
    BY <2>2 DEF SendRaises, Answer, TypeOK
  <2>3. CASE UNCHANGED answer
    BY <2>3 DEF TypeOK
  <2> QED
    BY <2>1, <2>2, <2>3 DEF CreateJob, SendStray, VisibilityClock
<1>5. TypeOK'
  BY <1>1, <1>2, <1>3, <1>4 DEF TypeOK
<1>6. LocalShape'
  BY <1>1 DEF LocalShape, Locals
<1>7. Budgets'
  <2>1. \A n \in Message : MayClaim(n)' = MayClaim(n) /\ Completing(n)' = Completing(n)
    BY <1>1 DEF MayClaim, Completing
  <2> QED
    BY <1>1, <1>2, <1>3, <2>1, BudgetsStay
<1>8. ResultFirst'
  BY <1>1, <1>2, <1>3 DEF ResultFirst
<1>9. Sent'
  BY <1>3, <1>4 DEF Sent
<1> QED
  BY <1>5, <1>6, <1>7, <1>8, <1>9

\* A receive keeps the invariant: every message of the batch was received once
\* more, which pays for one claim by this worker.
LEMMA ReceiveInv ==
    ASSUME IInv, NEW w \in Worker, ReceiveMessages(w)
    PROVE  IInv'
<1> USE DEF IInv
<1>1. PICK S \in SUBSET Receivable :
         /\ HandOut(S)
         /\ batch' = [batch EXCEPT ![w] = S]
         /\ task' = [task EXCEPT ![w].rcpt = [m \in Message |->
                                      IF m \in S THEN msgs[m].receives + 1 ELSE 0]]
  BY DEF ReceiveMessages
<1>2. /\ pc[w] = "idle" /\ pc' = [pc EXCEPT ![w] = "next"]
      /\ UNCHANGED <<answer, jobs, results, completions, current, bound, crashes>>
  BY DEF ReceiveMessages, Goto, tableVars
<1>3. batch[w] = {} /\ current[w] = {} /\ bound[w] = {}
  BY <1>2 DEF LocalShape, Locals
<1>4. S \subseteq Message /\ \A m \in S : msgs[m].receives + 1 \in 0..MaxReceive
  BY MaxReceiveAssumption DEF Receivable, TypeOK, QueueTypeOK
<1> DEFINE r == [m \in Message |-> IF m \in S THEN msgs[m].receives + 1 ELSE 0]
<1>5. r \in [Message -> 0..MaxReceive]
  BY <1>4, MaxReceiveAssumption
<1>6. task' = [task EXCEPT ![w].rcpt = r]
  BY <1>1
<1> HIDE DEF r
<1>7. LocalsTyped' /\ OthersStay(w)
  <2>1. LocalsTyped
    BY DEF TypeOK, LocalsTyped
  <2>2. task' \in [Worker -> [rcpt: [Message -> 0..MaxReceive], attempt: 0..MaxReceive]]
    BY <1>5, <1>6, <2>1 DEF LocalsTyped
  <2>3. batch' \in [Worker -> SUBSET Message]
    BY <1>1, <1>4, <2>1 DEF LocalsTyped
  <2>4. LocalsTyped'
    BY <1>2, <2>1, <2>2, <2>3 DEF LocalsTyped
  <2>5. OthersStay(w)
    BY <1>1, <1>2, <1>6, <2>1 DEF LocalsTyped, OthersStay
  <2> QED
    BY <2>4, <2>5
<1>8. pc'[w] = "next" /\ batch'[w] = S /\ current'[w] = {} /\ bound'[w] = {}
  BY <1>1, <1>2, <1>3 DEF TypeOK
<1>9. /\ QueueTypeOK'
      /\ \A m \in Message :
            /\ msgs'[m].receives = IF m \in S THEN msgs[m].receives + 1 ELSE msgs[m].receives
            /\ msgs'[m].state \in {msgs[m].state, "inflight"}
  <2>1. msgs \in [Message -> [state: MessageState, receives: 0..MaxReceive]]
    BY DEF TypeOK, QueueTypeOK
  <2>2. \A m \in Message :
           /\ m \in S => msgs'[m] = [state |-> "inflight", receives |-> msgs[m].receives + 1]
           /\ m \notin S => msgs'[m] = msgs[m]
    BY <1>1 DEF HandOut
  <2>3. "inflight" \in MessageState
    BY DEF MessageState
  <2>4. \A m \in Message : msgs'[m] \in [state: MessageState, receives: 0..MaxReceive]
    <3> TAKE m \in Message
    <3>1. CASE m \in S
      <4>1. msgs'[m] = [state |-> "inflight", receives |-> msgs[m].receives + 1]
        BY <2>2, <3>1
      <4> QED
        BY <1>4, <2>3, <3>1, <4>1
    <3>2. CASE m \notin S
      BY <2>1, <2>2, <3>2
    <3> QED
      BY <3>1, <3>2
  <2>5. msgs' \in [Message -> [state: MessageState, receives: 0..MaxReceive]]
    BY <1>1, <2>4 DEF HandOut
  <2> QED
    BY <2>2, <2>5 DEF QueueTypeOK
<1>10. RowsTyped'
  BY <1>2, <1>9 DEF TypeOK, RowsTyped
<1>11. Budgets'
  <2> SUFFICES ASSUME NEW m \in Message
               PROVE  /\ Within(jobs[m].attempts, MayClaim(m)', msgs'[m].receives)
                      /\ Within(completions[m], Completing(m)', jobs[m].attempts)
    BY <1>2 DEF Budgets, Within
  <2>1. jobs[m].attempts \in Nat /\ completions[m] \in Nat /\ msgs[m].receives \in Nat
    BY MaxReceiveAssumption DEF TypeOK, QueueTypeOK
  <2>2. /\ Within(jobs[m].attempts, MayClaim(m), msgs[m].receives)
        /\ Within(completions[m], Completing(m), jobs[m].attempts)
    BY DEF Budgets
  <2>3. Completing(m)' \subseteq Completing(m)
    BY <1>7, <1>8, LocalsOfOthers
  <2>4. Within(completions[m], Completing(m)', jobs[m].attempts)
    BY <2>1, <2>2, <2>3, WithinKept
  <2>5. CASE m \in S
    <3>1. MayClaim(m)' \subseteq MayClaim(m) \cup {w}
      BY <1>7, LocalsOfOthers
    <3>2. Within(jobs[m].attempts, MayClaim(m)', msgs[m].receives + 1)
      BY <2>1, <2>2, <3>1, WithinGained
    <3> QED
      BY <1>9, <2>4, <2>5, <3>2
  <2>6. CASE m \notin S
    <3>1. MayClaim(m)' \subseteq MayClaim(m)
      BY <1>7, <1>8, <2>6, LocalsOfOthers
    <3>2. Within(jobs[m].attempts, MayClaim(m)', msgs[m].receives)
      BY <2>1, <2>2, <3>1, WithinKept
    <3> QED
      BY <1>9, <2>4, <2>6, <3>2
  <2> QED
    BY <2>5, <2>6
<1>12. Locals(w)'
  BY <1>8 DEF Locals
<1>13. crashes' \in 0..MaxCrashes
  BY <1>2 DEF TypeOK
<1>14. \A m \in Message :
          /\ results[m] # 0 => results'[m] # 0
          /\ jobs'[m].status = "completed" => jobs[m].status = "completed" \/ results'[m] # 0
          /\ msgs'[m].state = "deleted" => msgs[m].state = "deleted" \/ results'[m] # 0
          /\ msgs[m].state # "unsent" => msgs'[m].state # "unsent"
          /\ msgs'[m].state # "dead"
  BY <1>2, <1>9 DEF Sent
<1> QED
  BY <1>2, <1>7, <1>8, <1>10, <1>11, <1>12, <1>13, <1>14, WorkerStepInv

\* A worker comes to a message of its batch and may claim it no more.  The claim
\* may be refused, or raise, or be made and raise; if it was made, the attempt
\* is paid for by the receive.
LEMMA MayClaimTaken ==
    ASSUME IInv, NEW w \in Worker, pc[w] = "next", NEW m \in batch[w], OthersStay(w),
           batch'[w] = batch[w], current'[w] = {m}
    PROVE  /\ m \in Message /\ w \in MayClaim(m) /\ MayClaim(m)' = MayClaim(m) \ {w}
           /\ \A n \in Message : MayClaim(n)' \subseteq MayClaim(n)
<1>1. current[w] = {} /\ batch[w] \subseteq Message
  BY DEF IInv, TypeOK, LocalShape, Locals
<1>2. m \in Message /\ w \in MayClaim(m)
  BY <1>1 DEF MayClaim
<1>3. MayClaim(m)' = MayClaim(m) \ {w}
  BY <1>2, LocalsOfOthers DEF IInv
<1>4. ASSUME NEW n \in Message PROVE MayClaim(n)' \subseteq MayClaim(n)
  <2>1. CASE n \in batch'[w] \ current'[w]
    <3>1. w \in MayClaim(n) /\ MayClaim(n)' = MayClaim(n) \cup {w}
      BY <1>1, <2>1, LocalsOfOthers DEF IInv, MayClaim
    <3> QED
      BY <3>1
  <2>2. CASE n \notin batch'[w] \ current'[w]
    BY <2>2, LocalsOfOthers DEF IInv
  <2> QED
    BY <2>1, <2>2
<1> QED
  BY <1>2, <1>3, <1>4

\* A claim keeps the budgets: it spends one of the message's receives, and pays
\* for one completion, by this worker if the claim did not raise.
LEMMA ClaimBudgets ==
    ASSUME IInv, NEW w \in Worker, pc[w] = "next", NEW m \in batch[w], OthersStay(w),
           batch'[w] = batch[w], current'[w] = {m}, MarkProcessing(m),
           UNCHANGED <<completions, msgs>>
    PROVE  /\ Budgets'
           /\ jobs' \in [Message -> [status: JobStatus, attempts: 0..MaxReceive]]
           /\ jobs[m].attempts + 1 \in 0..MaxReceive
<1> USE DEF IInv
<1>1. m \in Message /\ w \in MayClaim(m)
  BY MayClaimTaken
<1>2. \A n \in Message : /\ jobs[n].attempts \in Nat /\ completions[n] \in Nat
                         /\ msgs[n].receives \in Nat /\ msgs[n].receives <= MaxReceive
  BY MaxReceiveAssumption DEF TypeOK, QueueTypeOK
<1>3. \A n \in Message : /\ Within(jobs[n].attempts, MayClaim(n), msgs[n].receives)
                         /\ Within(completions[n], Completing(n), jobs[n].attempts)
  BY DEF Budgets
<1>4. jobs[m].attempts + 1 \in 0..MaxReceive
  <2>1. jobs[m].attempts < msgs[m].receives
    BY <1>1, <1>2, <1>3, WithinLimit
  <2> QED
    BY <1>1, <1>2, <2>1, MaxReceiveAssumption
<1>5. /\ jobs' \in [Message -> [status: JobStatus, attempts: 0..MaxReceive]]
      /\ jobs'[m].attempts = jobs[m].attempts + 1
      /\ \A n \in Message \ {m} : jobs'[n] = jobs[n]
  <2>1. "processing" \in JobStatus
    BY DEF JobStatus
  <2>2. jobs \in [Message -> [status: JobStatus, attempts: 0..MaxReceive]]
    BY DEF TypeOK
  <2>3. jobs' = [jobs EXCEPT ![m] = [status |-> "processing", attempts |-> jobs[m].attempts + 1]]
    BY <1>1, <2>2 DEF MarkProcessing
  <2> QED
    BY <1>1, <1>4, <2>1, <2>2, <2>3
<1>6. /\ Within(jobs'[m].attempts, MayClaim(m)', msgs'[m].receives)
      /\ Within(completions'[m], Completing(m)', jobs'[m].attempts)
  <2>1. MayClaim(m)' = MayClaim(m) \ {w}
    BY MayClaimTaken
  <2>2. Within(jobs[m].attempts + 1, MayClaim(m)', msgs[m].receives)
    BY <1>1, <1>2, <1>3, <2>1, WithinSpent
  <2>3. Completing(m)' \subseteq Completing(m) \cup {w}
    BY <1>1, LocalsOfOthers
  <2>4. Within(completions[m], Completing(m)', jobs[m].attempts + 1)
    BY <1>1, <1>2, <1>3, <2>3, WithinGained
  <2> QED
    BY <1>5, <2>2, <2>4
<1>7. ASSUME NEW n \in Message \ {m}
      PROVE  /\ Within(jobs'[n].attempts, MayClaim(n)', msgs'[n].receives)
             /\ Within(completions'[n], Completing(n)', jobs'[n].attempts)
  <2>1. MayClaim(n)' \subseteq MayClaim(n)
    BY MayClaimTaken
  <2>2. Completing(n)' \subseteq Completing(n)
    BY LocalsOfOthers
  <2> QED
    BY <1>2, <1>3, <1>5, <2>1, <2>2, WithinKept
<1>8. Budgets'
  BY <1>6, <1>7 DEF Budgets, Within
<1> QED
  BY <1>4, <1>5, <1>8

\* What Take does to the locals.
LEMMA TakeEffect ==
    ASSUME IInv, NEW w \in Worker, pc[w] = "next", NEW m, Take(w, m), UNCHANGED batch
    PROVE  /\ m \in batch[w] /\ m \in Message \ Malformed
           /\ current' = [current EXCEPT ![w] = {m}] /\ bound' = [bound EXCEPT ![w] = {m}]
           /\ current'[w] = {m} /\ bound'[w] = {m} /\ batch'[w] = batch[w]
           /\ batch[w] \subseteq Message /\ current[w] = {}
BY DEF IInv, TypeOK, LocalShape, Locals, Take

\* A claim keeps the invariant.
LEMMA ClaimInv ==
    ASSUME IInv, NEW w \in Worker, Claim(w)
    PROVE  IInv'
<1> USE DEF IInv
<1>1. PICK m \in batch[w] : /\ Take(w, m) /\ Claimable(m) /\ MarkProcessing(m)
                            /\ task' = [task EXCEPT ![w].attempt = jobs[m].attempts + 1]
  BY DEF Claim
<1>2. /\ pc[w] = "next" /\ pc' = [pc EXCEPT ![w] = "processing"]
      /\ UNCHANGED <<answer, results, completions, msgs, batch, crashes>>
  BY DEF Claim, Goto
<1>3. /\ m \in Message \ Malformed /\ current'[w] = {m} /\ bound'[w] = {m} /\ batch'[w] = batch[w]
      /\ current' = [current EXCEPT ![w] = {m}] /\ bound' = [bound EXCEPT ![w] = {m}]
  BY <1>1, <1>2, TakeEffect
<1>4. OthersStay(w) /\ pc'[w] = "processing"
  BY <1>1, <1>2, <1>3 DEF TypeOK, OthersStay
<1>5. /\ Budgets' /\ jobs[m].attempts + 1 \in 0..MaxReceive
      /\ jobs' \in [Message -> [status: JobStatus, attempts: 0..MaxReceive]]
  BY <1>1, <1>2, <1>3, <1>4, ClaimBudgets
<1>6. LocalsTyped' /\ task'[w].attempt = jobs[m].attempts + 1
  <2>1. LocalsTyped
    BY DEF TypeOK, LocalsTyped
  <2>2. /\ task' \in [Worker -> [rcpt: [Message -> 0..MaxReceive], attempt: 0..MaxReceive]]
        /\ task'[w].attempt = jobs[m].attempts + 1
    BY <1>1, <1>5, <2>1 DEF LocalsTyped
  <2> QED
    BY <1>2, <1>3, <2>1, <2>2 DEF LocalsTyped
<1>7. task'[w].attempt # 0
  BY <1>3, <1>6 DEF TypeOK
<1>8. Locals(w)'
  BY <1>3, <1>4, <1>7 DEF Locals
<1>9. RowsTyped'
  BY <1>2, <1>5 DEF TypeOK, RowsTyped, QueueTypeOK
<1>10. \A n \in Message : jobs'[n].status = "completed" => jobs[n].status = "completed"
  BY <1>1, <1>3 DEF TypeOK, MarkProcessing
<1>11. crashes' \in 0..MaxCrashes
  BY <1>2 DEF TypeOK
<1> QED
  BY <1>2, <1>4, <1>5, <1>6, <1>8, <1>9, <1>10, <1>11, WorkerStepInv DEF Sent

\* A claim that raises keeps the invariant, whether it was made or not.
LEMMA ClaimRaisesInv ==
    ASSUME IInv, NEW w \in Worker, ClaimRaises(w)
    PROVE  IInv'
<1> USE DEF IInv
<1>1. PICK m \in batch[w] : /\ Take(w, m)
                            /\ (Claimable(m) /\ MarkProcessing(m)) \/ UNCHANGED jobs
  BY DEF ClaimRaises
<1>2. /\ pc[w] = "next" /\ pc' = [pc EXCEPT ![w] = "failing"]
      /\ UNCHANGED <<answer, results, completions, msgs, batch, task, crashes>>
  BY DEF ClaimRaises, Goto
<1>3. /\ m \in Message \ Malformed /\ current'[w] = {m} /\ bound'[w] = {m} /\ batch'[w] = batch[w]
      /\ current' = [current EXCEPT ![w] = {m}] /\ bound' = [bound EXCEPT ![w] = {m}]
      /\ batch[w] \subseteq Message /\ current[w] = {}
  BY <1>1, <1>2, TakeEffect
<1>4. OthersStay(w) /\ LocalsTyped' /\ pc'[w] = "failing"
  BY <1>2, <1>3 DEF TypeOK, LocalsTyped, OthersStay
<1>5. Locals(w)'
  BY <1>3, <1>4 DEF Locals
<1>6. crashes' \in 0..MaxCrashes
  BY <1>2 DEF TypeOK
<1>7. CASE MarkProcessing(m)
  <2>1. /\ Budgets'
        /\ jobs' \in [Message -> [status: JobStatus, attempts: 0..MaxReceive]]
    BY <1>2, <1>3, <1>4, <1>7, ClaimBudgets
  <2>2. RowsTyped'
    BY <1>2, <2>1 DEF TypeOK, RowsTyped, QueueTypeOK
  <2>3. \A n \in Message : jobs'[n].status = "completed" => jobs[n].status = "completed"
    BY <1>3, <1>7 DEF TypeOK, MarkProcessing
  <2> QED
    BY <1>2, <1>4, <1>5, <1>6, <2>1, <2>2, <2>3, WorkerStepInv DEF Sent
<1>8. CASE UNCHANGED jobs
  <2>1. batch'[w] \ current'[w] \subseteq batch[w] \ current[w]
    BY <1>3
  <2> QED
    BY <1>2, <1>4, <1>5, <1>6, <1>8, <2>1, LocalStepInv DEF tableVars
<1> QED
  BY <1>1, <1>7, <1>8

\* The steps that change neither a row nor a message: a message that cannot be
\* parsed, a refused claim and what get_job then shows, a crash and a restart.
LEMMA WithoutRowsInv ==
    ASSUME IInv, NEW w \in Worker,
           \/ ParseRaises(w) \/ ClaimRefused(w) \/ FindCompleted(w) \/ FindNotProcessable(w)
           \/ Crash(w) \/ Restart(w)
    PROVE  IInv'
<1> USE DEF IInv
<1>1. CASE ParseRaises(w)
  <2>1. PICK m \in batch[w] \cap Malformed : current' = [current EXCEPT ![w] = {m}]
    BY <1>1 DEF ParseRaises
  <2>2. /\ pc[w] = "next" /\ pc' = [pc EXCEPT ![w] = "failing"]
        /\ UNCHANGED <<answer, tableVars, msgs, batch, bound, task, crashes>>
    BY <1>1 DEF ParseRaises, Goto
  <2>3. m \in Message /\ current[w] = {} /\ bound[w] = {}
    BY <2>2 DEF TypeOK, LocalShape, Locals
  <2>4. OthersStay(w) /\ LocalsTyped' /\ pc'[w] = "failing" /\ current'[w] = {m}
    BY <2>1, <2>2, <2>3 DEF TypeOK, LocalsTyped, OthersStay
  <2>5. Locals(w)' /\ crashes' \in 0..MaxCrashes
    BY <2>2, <2>3, <2>4 DEF Locals, TypeOK
  <2>6. batch'[w] \ current'[w] \subseteq batch[w] \ current[w]
    BY <2>2, <2>3
  <2> QED
    BY <2>2, <2>4, <2>5, <2>6, LocalStepInv
<1>2. CASE ClaimRefused(w)
  <2>1. PICK m \in batch[w] : Take(w, m) /\ ~Claimable(m)
    BY <1>2 DEF ClaimRefused
  <2>2. /\ pc[w] = "next" /\ pc' = [pc EXCEPT ![w] = "refused"]
        /\ UNCHANGED <<answer, tableVars, msgs, batch, task, crashes>>
    BY <1>2 DEF ClaimRefused, Goto
  <2>3. /\ m \in Message \ Malformed /\ current'[w] = {m} /\ bound'[w] = {m} /\ batch'[w] = batch[w]
        /\ current' = [current EXCEPT ![w] = {m}] /\ bound' = [bound EXCEPT ![w] = {m}]
        /\ current[w] = {}
    BY <2>1, <2>2, TakeEffect
  <2>4. OthersStay(w) /\ LocalsTyped' /\ pc'[w] = "refused"
    BY <2>2, <2>3 DEF TypeOK, LocalsTyped, OthersStay
  <2>5. Locals(w)' /\ crashes' \in 0..MaxCrashes
    BY <2>2, <2>3, <2>4 DEF Locals, TypeOK
  <2>6. batch'[w] \ current'[w] \subseteq batch[w] \ current[w]
    BY <2>3
  <2> QED
    BY <2>2, <2>4, <2>5, <2>6, LocalStepInv
<1>3. CASE FindCompleted(w) \/ FindNotProcessable(w)
  <2>1. /\ pc[w] = "refused" /\ pc' \in {[pc EXCEPT ![w] = "deleting"], [pc EXCEPT ![w] = "failing"]}
        /\ pc' = [pc EXCEPT ![w] = "deleting"] =>
              FindCompleted(w) \/ pc' = [pc EXCEPT ![w] = "failing"]
        /\ UNCHANGED <<answer, tableVars, msgs, batch, current, bound, task, crashes>>
    BY <1>3 DEF FindCompleted, FindNotProcessable, Goto
  <2>2. OthersStay(w) /\ LocalsTyped' /\ pc'[w] \in {"deleting", "failing"}
    BY <2>1 DEF TypeOK, LocalsTyped, OthersStay
  <2>3. Locals(w)' /\ crashes' \in 0..MaxCrashes
    BY <2>1, <2>2 DEF LocalShape, Locals, TypeOK
  <2>4. ASSUME pc'[w] = "deleting", NEW m \in current'[w] PROVE results[m] # 0
    <3>1. FindCompleted(w)
      BY <2>1, <2>4 DEF TypeOK
    <3>2. m \in Message /\ m \in current[w]
      BY <2>1, <2>4 DEF TypeOK
    <3> QED
      BY <3>1, <3>2 DEF FindCompleted, ResultFirst
  <2> QED
    BY <2>1, <2>2, <2>3, <2>4, LocalStepInv
<1>4. CASE Crash(w)
  <2>1. /\ crashes < MaxCrashes /\ crashes' = crashes + 1
        /\ pc' = [pc EXCEPT ![w] = "down"] /\ batch' = [batch EXCEPT ![w] = {}]
        /\ current' = [current EXCEPT ![w] = {}] /\ bound' = [bound EXCEPT ![w] = {}]
        /\ task' = [task EXCEPT ![w] = NoTask] /\ UNCHANGED <<answer, tableVars, msgs>>
    BY <1>4 DEF Crash, Goto
  <2>2. NoTask \in [rcpt: [Message -> 0..MaxReceive], attempt: 0..MaxReceive]
    BY MaxReceiveAssumption DEF NoTask
  <2>3. crashes' \in 0..MaxCrashes
    BY <2>1, LegacyAssumption DEF TypeOK
  <2>4. LocalsTyped' /\ OthersStay(w)
    BY <2>1, <2>2 DEF TypeOK, LocalsTyped, OthersStay
  <2>5. pc'[w] = "down" /\ batch'[w] = {} /\ current'[w] = {} /\ bound'[w] = {}
    BY <2>1 DEF TypeOK
  <2>6. Locals(w)'
    BY <2>5 DEF Locals
  <2> QED
    BY <2>1, <2>3, <2>4, <2>5, <2>6, LocalStepInv
<1>5. CASE Restart(w)
  <2>1. /\ pc[w] = "down" /\ pc' = [pc EXCEPT ![w] = "idle"]
        /\ UNCHANGED <<answer, tableVars, msgs, batch, current, bound, task, crashes>>
    BY <1>5 DEF Restart, Goto
  <2>2. LocalsTyped' /\ OthersStay(w) /\ pc'[w] = "idle"
    BY <2>1 DEF TypeOK, LocalsTyped, OthersStay
  <2>3. Locals(w)' /\ crashes' \in 0..MaxCrashes
    BY <2>1, <2>2 DEF LocalShape, Locals, TypeOK
  <2> QED
    BY <2>1, <2>2, <2>3, LocalStepInv
<1> QED
  BY <1>1, <1>2, <1>3, <1>4, <1>5

\* A completion by a worker that leaves "processing" keeps the budgets, gives
\* the job a result and takes none away.
LEMMA CompletionEffect ==
    ASSUME IInv, NEW w \in Worker, pc[w] = "processing", NEW m \in current[w],
           CompleteJob(m, task[w].attempt), OthersStay(w), pc'[w] # "processing",
           UNCHANGED <<answer, msgs, batch, current>>
    PROVE  /\ Budgets' /\ RowsTyped'
           /\ current[w] = {m} /\ results'[m] # 0
           /\ \A n \in Message :
                 /\ results[n] # 0 => results'[n] # 0
                 /\ jobs'[n].status = "completed" =>
                       jobs[n].status = "completed" \/ results'[n] # 0
<1> USE DEF IInv
<1>1. /\ m \in Message /\ current[w] = {m} /\ w \in Completing(m)
      /\ task[w].attempt \in 0..MaxReceive /\ task[w].attempt # 0
  BY DEF TypeOK, LocalShape, Locals, Completing
<1>2. \A n \in Message : /\ jobs[n].attempts \in Nat /\ completions[n] \in Nat
                         /\ msgs[n].receives \in Nat /\ jobs[n].attempts <= MaxReceive
  BY MaxReceiveAssumption DEF TypeOK, QueueTypeOK
<1>3. \A n \in Message : /\ Within(jobs[n].attempts, MayClaim(n), msgs[n].receives)
                         /\ Within(completions[n], Completing(n), jobs[n].attempts)
  BY DEF Budgets
<1>4. /\ results' \in [Message -> 0..MaxReceive] /\ results'[m] # 0
      /\ \A n \in Message : results[n] # 0 => results'[n] = results[n]
  BY <1>1 DEF CompleteJob, Inserted, TypeOK
<1>5. /\ jobs' \in [Message -> [status: JobStatus, attempts: 0..MaxReceive]]
      /\ \A n \in Message : /\ jobs'[n].attempts = jobs[n].attempts
                            /\ n # m => jobs'[n] = jobs[n]
  <2>1. jobs' = [jobs EXCEPT ![m].status = "completed"] /\ "completed" \in JobStatus
    BY DEF CompleteJob, JobStatus
  <2>2. jobs \in [Message -> [status: JobStatus, attempts: 0..MaxReceive]]
    BY DEF TypeOK
  <2> HIDE DEF IInv
  <2> QED
    BY <1>1, <2>1, <2>2
<1>6. completions[m] + 1 \in 0..MaxReceive
  <2>1. completions[m] < jobs[m].attempts
    BY <1>1, <1>2, <1>3, WithinLimit
  <2> QED
    BY <1>1, <1>2, <2>1, MaxReceiveAssumption
<1>7. /\ completions' \in [Message -> 0..MaxReceive] /\ completions'[m] = completions[m] + 1
      /\ \A n \in Message \ {m} : completions'[n] = completions[n]
  BY <1>1, <1>6 DEF CompleteJob, TypeOK
<1>8. RowsTyped'
  BY <1>4, <1>5, <1>7 DEF TypeOK, RowsTyped, QueueTypeOK
<1>9. \A n \in Message : MayClaim(n)' \subseteq MayClaim(n)
  <2> SUFFICES ASSUME NEW n \in Message PROVE MayClaim(n)' \subseteq MayClaim(n)
    OBVIOUS
  <2> QED
    BY DEF MayClaim
<1>10. /\ Within(jobs'[m].attempts, MayClaim(m)', msgs'[m].receives)
       /\ Within(completions'[m], Completing(m)', jobs'[m].attempts)
  <2>1. Completing(m)' = Completing(m) \ {w}
    BY <1>1, LocalsOfOthers
  <2>2. Within(completions[m] + 1, Completing(m)', jobs[m].attempts)
    BY <1>1, <1>2, <1>3, <2>1, WithinSpent
  <2>3. Within(jobs[m].attempts, MayClaim(m)', msgs[m].receives)
    BY <1>1, <1>2, <1>3, <1>9, WithinKept
  <2> QED
    BY <1>1, <1>5, <1>7, <2>2, <2>3
<1>11. ASSUME NEW n \in Message \ {m}
       PROVE  /\ Within(jobs'[n].attempts, MayClaim(n)', msgs'[n].receives)
              /\ Within(completions'[n], Completing(n)', jobs'[n].attempts)
  <2>1. Completing(n)' \subseteq Completing(n)
    BY LocalsOfOthers
  <2> QED
    BY <1>2, <1>3, <1>5, <1>7, <1>9, <2>1, WithinKept
<1>12. Budgets'
  BY <1>10, <1>11 DEF Budgets, Within
<1>13. \A n \in Message : jobs'[n].status = "completed" =>
                             jobs[n].status = "completed" \/ results'[n] # 0
  BY <1>4, <1>5
<1> QED
  BY <1>1, <1>4, <1>8, <1>12, <1>13

\* A completion, also one that raises, keeps the invariant.
LEMMA CompleteInv ==
    ASSUME IInv, NEW w \in Worker, Complete(w) \/ CompleteRaises(w)
    PROVE  IInv'
<1> USE DEF IInv
<1>1. /\ pc[w] = "processing" /\ UNCHANGED <<answer, msgs, batch, current, bound, task, crashes>>
      /\ pc' \in {[pc EXCEPT ![w] = "deleting"], [pc EXCEPT ![w] = "failing"]}
  BY DEF Complete, CompleteRaises, Goto
<1>2. /\ OthersStay(w) /\ LocalsTyped' /\ pc'[w] \in {"deleting", "failing"}
      /\ crashes' \in 0..MaxCrashes
  BY <1>1 DEF TypeOK, LocalsTyped, OthersStay
<1>3. Locals(w)'
  BY <1>1, <1>2 DEF LocalShape, Locals
<1>4. PICK m \in current[w] : /\ CompleteJob(m, task[w].attempt) \/ UNCHANGED tableVars
                              /\ Complete(w) => CompleteJob(m, task[w].attempt)
  BY DEF Complete, CompleteRaises
<1>5. CASE CompleteJob(m, task[w].attempt)
  <2>1. /\ Budgets' /\ RowsTyped' /\ current[w] = {m} /\ results'[m] # 0
        /\ \A n \in Message : /\ results[n] # 0 => results'[n] # 0
                              /\ jobs'[n].status = "completed" =>
                                    jobs[n].status = "completed" \/ results'[n] # 0
    BY <1>1, <1>2, <1>5, CompletionEffect
  <2> QED
    BY <1>1, <1>2, <1>3, <2>1, WorkerStepInv DEF Sent
<1>6. CASE UNCHANGED tableVars /\ ~Complete(w)
  <2>1. pc'[w] = "failing"
    BY <1>6 DEF CompleteRaises, Goto, TypeOK
  <2> QED
    BY <1>1, <1>2, <1>3, <1>6, <2>1, LocalStepInv
<1> QED
  BY <1>4, <1>5, <1>6

\* A message is deleted at most, and the others stay.
LEMMA DeletionEffect ==
    ASSUME IInv, NEW w \in Worker, pc[w] = "deleting", NEW m \in current[w],
           DeleteMessage(m, task[w].rcpt[m]) \/ UNCHANGED msgs,
           UNCHANGED <<answer, tableVars>>
    PROVE  /\ RowsTyped'
           /\ \A n \in Message :
                 /\ msgs'[n].receives = msgs[n].receives
                 /\ msgs'[n].state = "deleted" => msgs[n].state = "deleted" \/ results'[n] # 0
                 /\ msgs[n].state # "unsent" => msgs'[n].state # "unsent"
                 /\ msgs'[n].state # "dead"
<1> USE DEF IInv
<1>1. m \in Message /\ results[m] # 0
  BY DEF TypeOK, ResultFirst
<1>2. UNCHANGED <<jobs, results, completions>>
  BY DEF tableVars
<1>3. msgs \in [Message -> [state: MessageState, receives: 0..MaxReceive]]
  BY DEF TypeOK, QueueTypeOK
<1>4. CASE UNCHANGED msgs
  BY <1>2, <1>4 DEF TypeOK, RowsTyped, QueueTypeOK, Sent
<1>5. CASE msgs' = [msgs EXCEPT ![m].state = "deleted"]
  <2>1. "deleted" \in MessageState
    BY DEF MessageState
  <2>2. /\ msgs' \in [Message -> [state: MessageState, receives: 0..MaxReceive]]
        /\ \A n \in Message : /\ msgs'[n].receives = msgs[n].receives
                              /\ n # m => msgs'[n] = msgs[n]
        /\ msgs'[m].state = "deleted"
    BY <1>1, <1>3, <1>5, <2>1
  <2>3. RowsTyped'
    BY <1>2, <2>2 DEF TypeOK, RowsTyped, QueueTypeOK
  <2> QED
    BY <1>1, <1>2, <2>2, <2>3 DEF Sent
<1> QED
  BY <1>4, <1>5 DEF DeleteMessage

\* A deletion, also one that raises, keeps the invariant: the job has its result.
LEMMA DeleteInv ==
    ASSUME IInv, NEW w \in Worker, Delete(w) \/ DeleteRaises(w)
    PROVE  IInv'
<1> USE DEF IInv
<1>1. /\ pc[w] = "deleting" /\ UNCHANGED <<answer, tableVars, crashes>>
  BY DEF Delete, DeleteRaises
<1>2. PICK m \in current[w] : DeleteMessage(m, task[w].rcpt[m]) \/ UNCHANGED msgs
  BY DEF Delete, DeleteRaises
<1>3. /\ RowsTyped'
      /\ \A n \in Message :
            /\ msgs'[n].receives = msgs[n].receives
            /\ msgs'[n].state = "deleted" => msgs[n].state = "deleted" \/ results'[n] # 0
            /\ msgs[n].state # "unsent" => msgs'[n].state # "unsent"
            /\ msgs'[n].state # "dead"
  BY <1>1, <1>2, DeletionEffect
<1>4. /\ OthersStay(w) /\ LocalsTyped' /\ Locals(w)' /\ pc'[w] \in {"idle", "next", "failing"}
      /\ batch'[w] \ current'[w] = batch[w] \ current[w]
  <2>1. CASE Delete(w)
    <3>1. /\ LocalsTyped' /\ OthersStay(w)
          /\ batch'[w] = batch[w] \ current[w] /\ current'[w] = {} /\ bound'[w] = {}
          /\ pc'[w] = IF batch'[w] = {} THEN "idle" ELSE "next"
      BY <2>1, NextMessageEffect DEF Delete
    <3> QED
      BY <3>1 DEF Locals
  <2>2. CASE DeleteRaises(w)
    <3>1. /\ pc' = [pc EXCEPT ![w] = "failing"] /\ UNCHANGED <<batch, current, bound, task>>
      BY <2>2 DEF DeleteRaises, Goto
    <3>2. /\ OthersStay(w) /\ LocalsTyped' /\ pc'[w] = "failing"
      BY <3>1 DEF TypeOK, LocalsTyped, OthersStay
    <3> QED
      BY <1>1, <3>1, <3>2 DEF LocalShape, Locals
  <2> QED
    BY <2>1, <2>2
<1>5. \A n \in Message : MayClaim(n)' \subseteq MayClaim(n) /\ Completing(n)' \subseteq Completing(n)
  BY <1>4, SpendersStay
<1>6. Budgets'
  BY <1>1, <1>3, <1>5, BudgetsStay DEF tableVars
<1>7. crashes' \in 0..MaxCrashes
  BY <1>1 DEF TypeOK
<1> QED
  BY <1>1, <1>3, <1>4, <1>6, <1>7, WorkerStepInv DEF tableVars

\* What a failing worker does to the rows: it fails the job it is at, whatever
\* its status, or none.
LEMMA FailureEffect ==
    ASSUME IInv, NEW w \in Worker, Fail(w)
    PROVE  /\ bound[w] \subseteq current[w]
           /\ jobs' \in [Message -> [status: JobStatus, attempts: 0..MaxReceive]]
           /\ \A n \in Message : /\ jobs'[n].attempts = jobs[n].attempts
                                 /\ n \notin bound[w] => jobs'[n] = jobs[n]
                                 /\ n \in bound[w] => jobs'[n].status = "failed"
<1> USE DEF IInv
<1>1. bound[w] \subseteq current[w]
  BY DEF Fail, LocalShape, Locals
<1>2. jobs' = [n \in Message |-> IF n \in bound[w] THEN [jobs[n] EXCEPT !.status = "failed"]
                                 ELSE jobs[n]]
  BY DEF Fail
<1>3. "failed" \in JobStatus /\ jobs \in [Message -> [status: JobStatus, attempts: 0..MaxReceive]]
  BY DEF JobStatus, TypeOK
<1>4. \A n \in Message :
         /\ jobs'[n] \in [status: JobStatus, attempts: 0..MaxReceive]
         /\ jobs'[n].attempts = jobs[n].attempts
         /\ n \notin bound[w] => jobs'[n] = jobs[n]
         /\ n \in bound[w] => jobs'[n].status = "failed"
  <2> TAKE n \in Message
  <2>1. CASE n \in bound[w]
    <3>1. jobs'[n] = [jobs[n] EXCEPT !.status = "failed"]
      BY <1>2, <2>1
    <3> QED
      BY <1>3, <2>1, <3>1
  <2>2. CASE n \notin bound[w]
    <3>1. jobs'[n] = jobs[n]
      BY <1>2, <2>2
    <3> QED
      BY <1>3, <2>2, <3>1
  <2> QED
    BY <2>1, <2>2
<1>5. jobs' \in [Message -> [status: JobStatus, attempts: 0..MaxReceive]]
  BY <1>2, <1>4
<1> QED
  BY <1>1, <1>4, <1>5

\* A failure keeps the invariant.
LEMMA FailInv ==
    ASSUME IInv, NEW w \in Worker, Fail(w)
    PROVE  IInv'
<1> USE DEF IInv
<1>1. /\ pc[w] = "failing" /\ NextMessage(w)
      /\ UNCHANGED <<answer, results, completions, msgs, crashes>>
  BY DEF Fail
<1>2. /\ jobs' \in [Message -> [status: JobStatus, attempts: 0..MaxReceive]]
      /\ \A n \in Message : /\ jobs'[n].attempts = jobs[n].attempts
                            /\ jobs'[n].status = "completed" => jobs[n].status = "completed"
  BY FailureEffect
<1>3. /\ LocalsTyped' /\ OthersStay(w)
      /\ batch'[w] = batch[w] \ current[w] /\ current'[w] = {} /\ bound'[w] = {}
      /\ pc'[w] = IF batch'[w] = {} THEN "idle" ELSE "next"
  BY <1>1, NextMessageEffect
<1>4. Locals(w)' /\ pc'[w] \in {"idle", "next", "failing"}
  BY <1>3 DEF Locals
<1>5. \A n \in Message : MayClaim(n)' \subseteq MayClaim(n) /\ Completing(n)' \subseteq Completing(n)
  BY <1>3, <1>4, SpendersStay
<1>6. Budgets'
  BY <1>1, <1>2, <1>5, BudgetsStay
<1>7. RowsTyped' /\ crashes' \in 0..MaxCrashes
  BY <1>1, <1>2 DEF TypeOK, RowsTyped, QueueTypeOK
<1> QED
  BY <1>1, <1>2, <1>3, <1>4, <1>6, <1>7, WorkerStepInv DEF Sent

\* Every step keeps the invariant.
LEMMA InvStep == IInv /\ [Next]_vars => IInv'
<1> SUFFICES ASSUME IInv, [Next]_vars PROVE IInv'
  OBVIOUS
<1>1. ASSUME NEW m \in Message,
             CreateJob(m) \/ SendJob(m) \/ SendRaises(m) \/ SendStray(m) \/ VisibilityClock(m)
      PROVE  IInv'
  BY <1>1, ApiInv
<1>2. ASSUME NEW w \in Worker, ReceiveMessages(w) PROVE IInv'
  BY <1>2, ReceiveInv
<1>3. ASSUME NEW w \in Worker, Claim(w) \/ ClaimRaises(w) PROVE IInv'
  BY <1>3, ClaimInv, ClaimRaisesInv
<1>4. ASSUME NEW w \in Worker,
             \/ ParseRaises(w) \/ ClaimRefused(w) \/ FindCompleted(w) \/ FindNotProcessable(w)
             \/ Crash(w) \/ Restart(w)
      PROVE  IInv'
  BY <1>4, WithoutRowsInv
<1>5. ASSUME NEW w \in Worker,
             Complete(w) \/ CompleteRaises(w) \/ Delete(w) \/ DeleteRaises(w) \/ Fail(w)
      PROVE  IInv'
  BY <1>5, CompleteInv, DeleteInv, FailInv
<1>6. CASE UNCHANGED vars
  <2>1. UNCHANGED <<jobs, results, completions, msgs, answer, pc, batch, current, bound, task, crashes>>
    BY <1>6 DEF vars, tableVars, localVars
  <2>2. TypeOK'
    BY <2>1 DEF IInv, TypeOK, QueueTypeOK
  <2>3. LocalShape' /\ ResultFirst' /\ Sent'
    BY <2>1 DEF IInv, LocalShape, Locals, ResultFirst, Sent
  <2>4. Budgets'
    BY <2>1 DEF IInv, Budgets, Within, MayClaim, Completing
  <2> QED
    BY <2>2, <2>3, <2>4 DEF IInv
<1> QED
  BY <1>1, <1>2, <1>3, <1>4, <1>5, <1>6 DEF Next

-----------------------------------------------------------------------------
(* The jobs that nobody attends to.                                        *)

\* The crashes pay for the jobs that are stranded.
StrandedFew == Within(0, Stranded, crashes)

\* A worker's step strands no job if the job that it attended to, and any job
\* that it puts in processing, is one it attends to or not in processing.
LEMMA AttendedStay ==
    ASSUME IInv, StrandedFew, NEW w \in Worker, UNCHANGED crashes,
           \A v \in Worker \ {w} : pc'[v] = pc[v] /\ bound'[v] = bound[v],
           \A m \in Message : jobs'[m].status = "processing" =>
              Attends(w, m)' \/ (jobs[m].status = "processing" /\ ~Attends(w, m))
    PROVE  StrandedFew'
<1>1. ASSUME NEW m \in Message, m \in Stranded' PROVE m \in Stranded
  <2>1. jobs'[m].status = "processing" /\ \A v \in Worker : ~Attends(v, m)'
    BY <1>1 DEF Stranded
  <2>2. jobs[m].status = "processing" /\ ~Attends(w, m)
    BY <2>1
  <2>3. \A v \in Worker \ {w} : ~Attends(v, m)
    BY <2>1 DEF Attends
  <2> QED
    BY <2>2, <2>3 DEF Stranded
<1>2. Stranded' \subseteq Stranded
  BY <1>1 DEF Stranded
<1>3. crashes \in Nat /\ crashes' \in Nat /\ crashes' >= crashes
  BY LegacyAssumption DEF IInv, TypeOK
<1>4. Within(0, Stranded, crashes)
  BY DEF StrandedFew
<1>5. Within(0, Stranded', crashes')
  BY <1>2, <1>3, <1>4, WithinKept
<1> QED
  BY <1>5 DEF StrandedFew, Within

\* Every step keeps it so.
LEMMA StrandedStep == IInv /\ StrandedFew /\ [Next]_vars => StrandedFew'
<1> SUFFICES ASSUME IInv, StrandedFew, [Next]_vars PROVE StrandedFew'
  OBVIOUS
<1>0. TypeOK /\ LocalShape
  BY DEF IInv
<1>1. ASSUME UNCHANGED <<pc, bound, crashes>>,
             \A m \in Message : jobs'[m].status = "processing" => jobs[m].status = "processing"
      PROVE  StrandedFew'
  <2>1. Stranded' \subseteq Stranded
    BY <1>1 DEF Stranded, Attends
  <2>2. crashes \in Nat /\ crashes' \in Nat /\ crashes' >= crashes /\ Within(0, Stranded, crashes)
    BY <1>0, <1>1, LegacyAssumption DEF TypeOK, StrandedFew
  <2>3. Within(0, Stranded', crashes')
    BY <2>1, <2>2, WithinKept
  <2> QED
    BY <2>3 DEF StrandedFew, Within
<1>2. CASE UNCHANGED vars
  BY <1>1, <1>2 DEF vars, tableVars, localVars
<1>3. ASSUME NEW m \in Message,
             CreateJob(m) \/ SendJob(m) \/ SendRaises(m) \/ SendStray(m) \/ VisibilityClock(m)
      PROVE  StrandedFew'
  <2>1. UNCHANGED <<pc, bound, crashes>>
    BY <1>3 DEF CreateJob, SendJob, SendRaises, SendStray, VisibilityClock, localVars
  <2>2. CASE CreateJob(m)
    BY <1>0, <1>1, <2>1, <2>2 DEF CreateJob, TypeOK
  <2>3. CASE UNCHANGED jobs
    BY <1>1, <2>1, <2>3
  <2> QED
    BY <1>3, <2>2, <2>3 DEF SendJob, SendRaises, SendStray, VisibilityClock, tableVars
<1>4. ASSUME NEW w \in Worker, Claim(w) \/ ClaimRaises(w)
      PROVE  StrandedFew'
  <2>1. PICK m \in batch[w] : Take(w, m) /\ (MarkProcessing(m) \/ UNCHANGED jobs)
    BY <1>4 DEF Claim, ClaimRaises
  <2>2. /\ pc[w] = "next" /\ UNCHANGED crashes
        /\ pc' \in {[pc EXCEPT ![w] = "processing"], [pc EXCEPT ![w] = "failing"]}
    BY <1>4 DEF Claim, ClaimRaises, Goto
  <2>3. /\ \A v \in Worker \ {w} : pc'[v] = pc[v] /\ bound'[v] = bound[v]
        /\ pc'[w] \in {"processing", "failing"} /\ bound'[w] = {m}
    BY <1>0, <2>1, <2>2 DEF TypeOK, Take
  <2>4. \A n \in Message : jobs'[n].status = "processing" =>
           n = m \/ jobs[n].status = "processing"
    BY <1>0, <2>1 DEF TypeOK, MarkProcessing
  <2>5. Attends(w, m)' /\ \A n \in Message : ~Attends(w, n)
    BY <2>2, <2>3 DEF Attends
  <2> QED
    BY <2>2, <2>3, <2>4, <2>5, AttendedStay
<1>5. ASSUME NEW w \in Worker,
             \/ ReceiveMessages(w) \/ ParseRaises(w) \/ ClaimRefused(w) \/ FindCompleted(w)
             \/ FindNotProcessable(w) \/ Delete(w) \/ DeleteRaises(w) \/ Restart(w)
      PROVE  StrandedFew'
  <2>1. UNCHANGED <<jobs, crashes>> /\ pc[w] \notin {"processing", "failing"}
    BY <1>5 DEF ReceiveMessages, ParseRaises, ClaimRefused, FindCompleted, FindNotProcessable,
                Delete, DeleteRaises, Restart, tableVars
  <2>2. \A v \in Worker \ {w} : pc'[v] = pc[v] /\ bound'[v] = bound[v]
    <3>1. CASE Delete(w)
      BY <1>0, <3>1, NextMessageEffect DEF Delete, OthersStay
    <3>2. CASE ~Delete(w)
      BY <1>0, <1>5, <3>2
      DEF TypeOK, ReceiveMessages, ParseRaises, ClaimRefused, Take, FindCompleted,
          FindNotProcessable, DeleteRaises, Restart, Goto
    <3> QED
      BY <3>1, <3>2
  <2>3. \A n \in Message : ~Attends(w, n)
    BY <2>1 DEF Attends
  <2> QED
    BY <2>1, <2>2, <2>3, AttendedStay
<1>6. ASSUME NEW w \in Worker, Complete(w) \/ CompleteRaises(w)
      PROVE  StrandedFew'
  <2>1. PICK m \in current[w] : /\ CompleteJob(m, task[w].attempt) \/ UNCHANGED tableVars
                                /\ Complete(w) => CompleteJob(m, task[w].attempt)
    BY <1>6 DEF Complete, CompleteRaises
  <2>2. /\ pc[w] = "processing" /\ UNCHANGED <<bound, crashes>>
        /\ pc' \in {[pc EXCEPT ![w] = "deleting"], [pc EXCEPT ![w] = "failing"]}
        /\ ~Complete(w) => pc' = [pc EXCEPT ![w] = "failing"]
    BY <1>6 DEF Complete, CompleteRaises, Goto
  <2>3. m \in Message /\ bound[w] = {m}
    BY <1>0, <2>1, <2>2 DEF TypeOK, LocalShape, Locals
  <2>4. \A v \in Worker \ {w} : pc'[v] = pc[v] /\ bound'[v] = bound[v]
    BY <1>0, <2>2 DEF TypeOK
  <2>5. CASE CompleteJob(m, task[w].attempt)
    <3>1. \A n \in Message : jobs'[n].status = "processing" =>
             n # m /\ jobs[n].status = "processing"
      BY <1>0, <2>3, <2>5 DEF CompleteJob, TypeOK
    <3>2. \A n \in Message : n # m => ~Attends(w, n)
      BY <2>3 DEF Attends
    <3> QED
      BY <2>2, <2>4, <3>1, <3>2, AttendedStay
  <2>6. CASE UNCHANGED tableVars /\ ~Complete(w)
    <3>1. pc'[w] = "failing" /\ UNCHANGED jobs
      BY <1>0, <2>2, <2>6 DEF TypeOK, tableVars
    <3>2. \A n \in Message : Attends(w, n) => Attends(w, n)'
      BY <2>2, <3>1 DEF Attends
    <3> QED
      BY <2>2, <2>4, <3>1, <3>2, AttendedStay
  <2> QED
    BY <2>1, <2>5, <2>6
<1>7. ASSUME NEW w \in Worker, Fail(w)
      PROVE  StrandedFew'
  <2>1. /\ UNCHANGED crashes
        /\ \A v \in Worker \ {w} : pc'[v] = pc[v] /\ bound'[v] = bound[v]
    BY <1>0, <1>7, NextMessageEffect DEF Fail, OthersStay
  <2>2. \A n \in Message : jobs'[n].status = "processing" =>
           n \notin bound[w] /\ jobs[n].status = "processing"
    BY <1>7, FailureEffect
  <2>3. \A n \in Message : n \notin bound[w] => ~Attends(w, n)
    BY DEF Attends
  <2> QED
    BY <2>1, <2>2, <2>3, AttendedStay
<1>8. ASSUME NEW w \in Worker, Crash(w)
      PROVE  StrandedFew'
  <2>1. /\ UNCHANGED jobs /\ crashes' = crashes + 1 /\ crashes \in Nat
        /\ \A v \in Worker \ {w} : pc'[v] = pc[v] /\ bound'[v] = bound[v]
    BY <1>0, <1>8, LegacyAssumption DEF Crash, Goto, TypeOK, tableVars
  <2>2. PICK m : \A n \in Message : Attends(w, n) => n = m
    BY <1>0 DEF Attends, LocalShape, Locals
  <2>3. ASSUME NEW n \in Message, n \in Stranded', n # m PROVE n \in Stranded
    <3>1. jobs[n].status = "processing" /\ ~Attends(w, n)
      BY <2>1, <2>2, <2>3 DEF Stranded
    <3>2. \A v \in Worker \ {w} : ~Attends(v, n)
      BY <2>1, <2>3 DEF Stranded, Attends
    <3> QED
      BY <3>1, <3>2 DEF Stranded
  <2>4. Stranded' \subseteq Stranded \cup {m}
    BY <2>3 DEF Stranded
  <2>5. Within(0, Stranded, crashes)
    BY DEF StrandedFew
  <2>6. Within(0, Stranded', crashes + 1)
    BY <2>1, <2>4, <2>5, WithinGained
  <2> QED
    BY <2>1, <2>6 DEF StrandedFew, Within
<1> QED
  BY <1>2, <1>3, <1>4, <1>5, <1>6, <1>7, <1>8 DEF Next

-----------------------------------------------------------------------------
(* Theorems.                                                               *)

\* The inductive invariant holds in every behaviour.
THEOREM Invariance == Spec => []IInv
BY InvInit, InvStep, PTL DEF Spec

\* A job that was accepted or sent is not forgotten: it has a result or a message
\* that will still bring a worker to it (create_job sends before it answers 202;
\* run deletes a message only after a completion or on a completed job).  A job
\* is attempted no more often than its message is received.
THEOREM AcceptedJobsAreNotForgotten == Spec => []AcceptedIsNotForgotten
<1>1. IInv => AcceptedIsNotForgotten
  <2> SUFFICES ASSUME IInv PROVE AcceptedIsNotForgotten
    OBVIOUS
  <2>1. TypeOK
    BY DEF IInv
  <2>2. ASSUME NEW m \in Message, answer[m] = "202" \/ msgs[m].state # "unsent"
        PROVE  results[m] # 0 \/ msgs[m].state \in {"visible", "inflight"}
    <3>1. msgs[m].state \notin {"unsent", "dead"}
      BY <2>2 DEF IInv, Sent
    <3>2. msgs[m].state \in {"visible", "inflight", "deleted"}
      BY <2>1, <3>1 DEF TypeOK, QueueTypeOK, MessageState
    <3> QED
      BY <3>2 DEF IInv, ResultFirst
  <2> QED
    BY <2>1, <2>2 DEF AcceptedIsNotForgotten
<1> QED
  BY Invariance, <1>1, PTL

\* A job is in processing with nobody to complete or fail it only after a crash,
\* and each crash leaves at most one such job (the handler of run fails the job
\* whatever raised, and a worker claims one message of its batch at a time).
THEOREM OnlyCrashesStrand == Spec => []StrandedByCrashes
<1>1. Init => StrandedFew
  <2> SUFFICES ASSUME Init PROVE StrandedFew
    OBVIOUS
  <2>1. Stranded = {} /\ crashes = 0
    BY DEF Init, Stranded
  <2> QED
    BY <2>1, FS_EmptySet DEF StrandedFew, Within
<1>2. IInv /\ StrandedFew /\ [Next]_vars => StrandedFew'
  BY StrandedStep
<1>3. IInv /\ StrandedFew => StrandedByCrashes
  <2> SUFFICES ASSUME IInv, StrandedFew PROVE StrandedByCrashes
    OBVIOUS
  <2>1. crashes \in Nat /\ Within(0, Stranded, crashes)
    BY LegacyAssumption DEF IInv, TypeOK, StrandedFew
  <2>2. Cardinality(Stranded) \in Nat
    BY <2>1, FS_CardinalityType DEF Within
  <2> QED
    BY <2>1, <2>2 DEF Within, StrandedByCrashes
<1> QED
  BY Invariance, <1>1, <1>2, <1>3, PTL DEF Spec

\* A job fails only by a worker that is at its message: a message that cannot be
\* parsed fails nobody's job (run forgets job_id after each message).
THEOREM JobsFailByTheirWorker == Spec => FailuresAreOwn
<1>1. IInv /\ [Next]_vars
         => [\A m \in Message : jobs[m].status # "failed" /\ jobs'[m].status = "failed"
                => \E w \in Worker : pc[w] = "failing" /\ m \in current[w]]_vars
  <2> SUFFICES ASSUME IInv, Next, NEW m \in Message,
                      jobs[m].status # "failed", jobs'[m].status = "failed"
               PROVE  \E w \in Worker : pc[w] = "failing" /\ m \in current[w]
    OBVIOUS
  <2>1. ASSUME NEW n \in Message, MarkProcessing(n) PROVE FALSE
    BY <2>1 DEF MarkProcessing, IInv, TypeOK
  <2>2. ASSUME NEW n \in Message, NEW a, CompleteJob(n, a) PROVE FALSE
    BY <2>2 DEF CompleteJob, IInv, TypeOK
  <2>3. ASSUME NEW n \in Message, CreateJob(n) PROVE FALSE
    BY <2>3 DEF CreateJob, IInv, TypeOK
  <2>4. ASSUME NEW w \in Worker, \/ Claim(w) \/ ClaimRaises(w) \/ Complete(w) \/ CompleteRaises(w)
        PROVE  FALSE
    <3>1. batch[w] \subseteq Message /\ current[w] \subseteq Message
      BY DEF IInv, TypeOK
    <3>2. CASE Claim(w)
      BY <2>1, <3>1, <3>2 DEF Claim
    <3>3. CASE ClaimRaises(w)
      BY <2>1, <3>1, <3>3 DEF ClaimRaises
    <3>4. CASE Complete(w)
      BY <2>2, <3>1, <3>4 DEF Complete
    <3>5. CASE CompleteRaises(w)
      BY <2>2, <3>1, <3>5 DEF CompleteRaises, tableVars
    <3> QED
      BY <2>4, <3>2, <3>3, <3>4, <3>5
  <2>5. \/ UNCHANGED jobs
        \/ \E n \in Message : CreateJob(n)
        \/ \E w \in Worker :
              Claim(w) \/ ClaimRaises(w) \/ Complete(w) \/ CompleteRaises(w) \/ Fail(w)
    BY DEF Next, SendJob, SendRaises, SendStray, VisibilityClock, ReceiveMessages,
           ParseRaises, ClaimRefused, FindCompleted, FindNotProcessable,
           Delete, DeleteRaises, Crash, Restart, tableVars
  <2>6. PICK w \in Worker : Fail(w)
    BY <2>3, <2>4, <2>5
  <2>7. m \in bound[w] /\ bound[w] \subseteq current[w]
    BY <2>6, FailureEffect
  <2>8. pc[w] = "failing"
    BY <2>6 DEF Fail
  <2> QED
    BY <2>7, <2>8
<1> QED
  BY Invariance, <1>1, PTL DEF Spec, FailuresAreOwn
=============================================================================
