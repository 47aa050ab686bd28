-------------------------- MODULE MigrationsProofs --------------------------
(***************************************************************************)
(* Proofs about module Migrations, for any set of tasks, any number of     *)
(* files, any images and any bound on the faults.                          *)
(*                                                                         *)
(* The lock orders the transactions: a task reads the versions only when   *)
(* it has the lock, so what it has read stays all there is (OneAtATime),   *)
(* and the tables and the count of executions follow the versions          *)
(* (Recorded).                                                             *)
(***************************************************************************)
EXTENDS Migrations, WellFoundedInduction, TLAPS

\* The task with the lock is the only one in a transaction; others have
\* executed nothing.
OneAtATime ==
    /\ \A r \in Runner : r \in holder <=> pc[r] \in {"locked", "applying"}
    /\ \A q, r \in holder : q = r
    /\ \A r \in Runner : pc[r] # "applying" => writes[r] = {}

\* What a task has read is all that is recorded, and it executes nothing of it.
ReadIsCurrent ==
    \A r \in Runner : pc[r] = "applying" =>
        applied[r] = versions /\ writes[r] \cap versions = {}

\* The tables are those of the recorded files, each executed once.
Recorded ==
    /\ schema = prepared \cup versions
    /\ \A f \in File : executions[f] = IF f \in versions THEN 1 ELSE 0

IInv == TypeOK /\ OneAtATime /\ ReadIsCurrent /\ Recorded /\ SuccessMeansMigrated

-----------------------------------------------------------------------------
(* Lemmas about the operators.                                             *)

\* A set of numbers that is not empty has a least one, and Min is it: the next
\* file of apply is the first in the order of their names.
LEMMA MinIsLeast ==
    ASSUME NEW S \in SUBSET Nat, S # {}
    PROVE  Min(S) \in S /\ \A y \in S : Min(S) <= y
<1> DEFINE R == {ss \in Nat \X Nat : ss[1] < ss[2]}
<1>1. IsWellFoundedOn(R, Nat)
  BY NatLessThanWellFounded DEF OpToRel
<1> HIDE DEF R
<1>2. PICK x \in S : \A y \in S : ~(<<y, x>> \in R)
  BY <1>1, WFMin
<1>3. \A m, n \in Nat : m < n => <<m, n>> \in R
  BY DEF R
<1>4. ASSUME NEW y \in S PROVE x <= y
  <2>1. x \in Nat /\ y \in Nat
    OBVIOUS
  <2>2. <<y, x>> \notin R
    BY <1>2
  <2>3. ~(y < x)
    BY <1>3, <2>1, <2>2
  <2> QED
    BY <2>1, <2>3
<1> QED
  BY <1>4 DEF Min

\* A fault leaves the count within its bound.
LEMMA FaultTyped ==
    ASSUME TypeOK, faults < MaxFaults, faults' = faults + 1
    PROVE  faults' \in 0..MaxFaults
BY MigrationsAssumption DEF TypeOK

\* The files an image holds that are not applied are files.
LEMMA PendingFiles ==
    ASSUME TypeOK, NEW r \in Runner
    PROVE  Pending(r) \subseteq File /\ Pending(r) \subseteq Nat
BY MigrationsAssumption DEF TypeOK, Pending, File

-----------------------------------------------------------------------------
(* The invariant.                                                          *)

\* The invariant holds at the start, on a new database and on one that the
\* Postgres container has prepared.
LEMMA InvInit == Init => IInv
<1> SUFFICES ASSUME Init PROVE IInv
  OBVIOUS
<1>1. TypeOK
  BY MigrationsAssumption DEF Init, TypeOK, File
<1> QED
  BY <1>1 DEF Init, IInv, OneAtATime, ReadIsCurrent, Recorded, SuccessMeansMigrated

\* Taking the lock keeps the invariant.
LEMMA LockInv ==
    ASSUME IInv, NEW r \in Runner, Lock(r)
    PROVE  IInv'
<1> USE DEF Lock, Goto, fixedVars, dbVars, IInv
<1>1. TypeOK'
  BY DEF TypeOK
<1>2. OneAtATime'
  BY DEF TypeOK, OneAtATime
<1>3. ReadIsCurrent' /\ Recorded' /\ SuccessMeansMigrated'
  BY DEF TypeOK, ReadIsCurrent, Recorded, SuccessMeansMigrated
<1> QED
  BY <1>1, <1>2, <1>3

\* Reading the versions keeps the invariant: the task has executed nothing yet.
LEMMA ReadAppliedInv ==
    ASSUME IInv, NEW r \in Runner, ReadApplied(r)
    PROVE  IInv'
<1> USE DEF ReadApplied, Goto, fixedVars, dbVars, IInv
<1>1. TypeOK'
  BY DEF TypeOK
<1>2. OneAtATime'
  BY DEF TypeOK, OneAtATime
<1>3. ReadIsCurrent'
  BY DEF TypeOK, OneAtATime, ReadIsCurrent
<1>4. Recorded' /\ SuccessMeansMigrated'
  BY DEF TypeOK, Recorded, SuccessMeansMigrated
<1> QED
  BY <1>1, <1>2, <1>3, <1>4

\* Executing a file keeps the invariant: it is a pending one, so it is not
\* recorded.
LEMMA ApplyNextInv ==
    ASSUME IInv, NEW r \in Runner, ApplyNext(r)
    PROVE  IInv'
<1> DEFINE f == Min(Pending(r))
<1> USE DEF IInv
<1>1. f \in Pending(r)
  BY MinIsLeast, PendingFiles DEF ApplyNext
<1>2. f \in File /\ f \notin applied[r]
  BY <1>1, PendingFiles DEF Pending
<1>3. writes' = [writes EXCEPT ![r] = @ \cup {f}]
  BY DEF ApplyNext, Execute
<1>4. pc[r] = "applying" /\ UNCHANGED <<pc, image, prepared, applied, holder, faults, schema, versions, executions>>
  BY DEF ApplyNext, Execute, fixedVars, dbVars
<1> HIDE DEF f
<1>5. TypeOK'
  BY <1>2, <1>3, <1>4 DEF TypeOK
<1>6. OneAtATime'
  BY <1>3, <1>4 DEF TypeOK, OneAtATime
<1>7. ReadIsCurrent'
  BY <1>2, <1>3, <1>4 DEF TypeOK, ReadIsCurrent
<1>8. Recorded' /\ SuccessMeansMigrated'
  BY <1>4 DEF TypeOK, Recorded, SuccessMeansMigrated
<1> QED
  BY <1>5, <1>6, <1>7, <1>8

\* A commit records what the transaction executed, all of it and each file once,
\* and gives the lock back.  No other task has read versions that this makes old.
LEMMA CommittedInv ==
    ASSUME IInv, NEW r \in Runner, pc[r] = "applying", Pending(r) = {}, Committed(r),
           NEW l \in {"done", "failed"}, Goto(r, l),
           UNCHANGED <<fixedVars, applied>>, faults' \in 0..MaxFaults
    PROVE  IInv'
<1> USE DEF IInv
<1>1. /\ pc' = [pc EXCEPT ![r] = l] /\ holder' = holder \ {r}
      /\ writes' = [writes EXCEPT ![r] = {}]
      /\ UNCHANGED <<image, prepared, applied>>
  BY DEF Goto, Committed, fixedVars
<1>2. /\ schema' = schema \cup writes[r] /\ versions' = versions \cup writes[r]
      /\ executions' = [f \in File |-> executions[f] + IF f \in writes[r] THEN 1 ELSE 0]
  BY DEF Committed, Record
<1>3. applied[r] = versions /\ writes[r] \cap versions = {}
  BY DEF ReadIsCurrent
<1>4. TypeOK'
  <2>1. executions' \in [File -> Nat]
    BY <1>2 DEF TypeOK
  <2> QED
    BY <1>1, <1>2, <2>1 DEF TypeOK
<1>5. OneAtATime'
  BY <1>1 DEF TypeOK, OneAtATime
<1>6. ReadIsCurrent'
  <2>1. \A q \in Runner \ {r} : pc[q] # "applying"
    BY DEF OneAtATime
  <2> QED
    BY <1>1, <2>1 DEF TypeOK, ReadIsCurrent
<1>7. Recorded'
  <2>1. \A f \in File : executions'[f] = IF f \in versions' THEN 1 ELSE 0
    BY <1>2, <1>3 DEF Recorded
  <2> QED
    BY <1>1, <1>2, <2>1 DEF Recorded
<1>8. SuccessMeansMigrated'
  <2>1. 1..image[r] \subseteq versions'
    BY <1>2, <1>3 DEF Pending
  <2> QED
    BY <1>1, <1>2, <2>1 DEF TypeOK, SuccessMeansMigrated
<1> QED
  BY <1>4, <1>5, <1>6, <1>7, <1>8

\* A task that breaks leaves nothing of its transaction, or all of it.
LEMMA BreaksInv ==
    ASSUME IInv, NEW r \in Runner, Breaks(r)
    PROVE  IInv'
<1> USE DEF IInv
<1>1. faults' \in 0..MaxFaults
  BY FaultTyped DEF Breaks
<1>2. /\ Goto(r, "failed") /\ UNCHANGED <<fixedVars, applied>>
  BY DEF Breaks, ExitAfterError
<1>3. CASE Rollback(r)
  <2> USE <1>1, <1>2, <1>3 DEF Rollback, Goto, fixedVars, dbVars
  <2>1. TypeOK'
    BY DEF TypeOK
  <2>2. OneAtATime'
    BY DEF TypeOK, OneAtATime
  <2>3. ReadIsCurrent' /\ Recorded' /\ SuccessMeansMigrated'
    BY DEF TypeOK, ReadIsCurrent, Recorded, SuccessMeansMigrated
  <2> QED
    BY <2>1, <2>2, <2>3
<1>4. CASE pc[r] = "applying" /\ Pending(r) = {} /\ Committed(r)
  BY <1>1, <1>2, <1>4, CommittedInv
<1> QED
  BY <1>3, <1>4 DEF Breaks

\* Starting a failed task again keeps the invariant.
LEMMA RunAgainInv ==
    ASSUME IInv, NEW r \in Runner, RunAgain(r)
    PROVE  IInv'
<1> USE DEF RunAgain, Goto, fixedVars, dbVars, IInv
<1>1. TypeOK' /\ OneAtATime'
  BY DEF TypeOK, OneAtATime
<1>2. ReadIsCurrent' /\ Recorded' /\ SuccessMeansMigrated'
  BY DEF TypeOK, ReadIsCurrent, Recorded, SuccessMeansMigrated
<1> QED
  BY <1>1, <1>2

\* Every step of run_migrations keeps the invariant.
LEMMA InvStep == IInv /\ [Next]_vars => IInv'
<1> SUFFICES ASSUME IInv, [Next]_vars PROVE IInv'
  OBVIOUS
<1>1. CASE UNCHANGED vars
  BY <1>1 DEF vars, fixedVars, dbVars, IInv, TypeOK, OneAtATime, ReadIsCurrent, Recorded,
              SuccessMeansMigrated
<1>2. ASSUME NEW r \in Runner, Run(r) \/ Breaks(r) PROVE IInv'
  <2>1. CASE Lock(r)
    BY <2>1, LockInv
  <2>2. CASE ReadApplied(r)
    BY <2>2, ReadAppliedInv
  <2>3. CASE ApplyNext(r)
    BY <2>3, ApplyNextInv
  <2>4. CASE Commit(r)
    <3>1. faults' \in 0..MaxFaults
      BY <2>4 DEF Commit, IInv, TypeOK
    <3> QED
      BY <2>4, <3>1, CommittedInv DEF Commit
  <2>5. CASE RunAgain(r)
    BY <2>5, RunAgainInv
  <2>6. CASE Breaks(r)
    BY <2>6, BreaksInv
  <2> QED
    BY <1>2, <2>1, <2>2, <2>3, <2>4, <2>5, <2>6 DEF Run
<1> QED
  BY <1>1, <1>2 DEF Next

-----------------------------------------------------------------------------
(* The theorems.                                                           *)

\* The inductive invariant holds whatever tasks run, break and are run again.
THEOREM Invariance == Spec => []IInv
BY InvInit, InvStep, PTL DEF Spec

\* NoTaskConflicts: however many tasks of however different images run, the next
\* file of a task is not recorded and those before it are applied.
THEOREM TasksDoNotConflict == Spec => []NoTaskConflicts
<1>1. IInv => NoTaskConflicts
  <2> SUFFICES ASSUME IInv, NEW r \in Runner, pc[r] = "applying", Pending(r) # {}
               PROVE  ~Conflicts(r, Min(Pending(r)))
    BY DEF NoTaskConflicts
  <2> DEFINE f == Min(Pending(r))
  <2>1. f \in Pending(r) /\ \A g \in Pending(r) : f <= g
    BY MinIsLeast, PendingFiles DEF IInv
  <2>2. f \in 1..image[r] /\ f \notin applied[r] /\ image[r] \in Nat
    BY <2>1, MigrationsAssumption DEF Pending, IInv, TypeOK, File
  <2>3. applied[r] = versions /\ versions \subseteq schema
    BY DEF IInv, ReadIsCurrent, Recorded
  <2> HIDE DEF f
  <2>4. ASSUME NEW g \in 1..(f - 1) PROVE g \in schema \cup writes[r]
    <3>1. g \in 1..image[r] /\ ~(f <= g)
      BY <2>2
    <3>2. g \notin Pending(r)
      BY <2>1, <3>1
    <3> QED
      BY <2>3, <3>1, <3>2 DEF Pending
  <2>5. ~Conflicts(r, f)
    BY <2>2, <2>3, <2>4 DEF Conflicts
  <2> QED
    BY <2>5 DEF f
<1> QED
  BY <1>1, Invariance, PTL

\* VersionsTellTheSchema: what is recorded was executed once and is there, and
\* nothing else is, wherever a task broke.
THEOREM VersionsAreTrue == Spec => []VersionsTellTheSchema
<1>1. IInv => VersionsTellTheSchema
  BY DEF IInv, Recorded, VersionsTellTheSchema
<1> QED
  BY <1>1, Invariance, PTL

\* SuccessMeansMigrated: a task that exits with 0 leaves every file of its image
\* recorded, for good.
THEOREM SuccessIsMigrated == Spec => []SuccessMeansMigrated
<1>1. IInv => SuccessMeansMigrated
  BY DEF IInv
<1> QED
  BY <1>1, Invariance, PTL
=============================================================================
