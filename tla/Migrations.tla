----------------------------- MODULE Migrations -----------------------------
(***************************************************************************)
(* The one-off migration task, application/migrations.py: any number of    *)
(* tasks, started by one release or by several, whose images may hold a    *)
(* shorter or a longer list of files.  Files are numbered in the order of  *)
(* their names, and an image holds the first so many of them.              *)
(*                                                                         *)
(* A task does everything in one transaction under an advisory lock that   *)
(* ends with the transaction.  Reads are READ COMMITTED.  The files use IF *)
(* NOT EXISTS, so a database whose tables were made by the entry point of  *)
(* the local Postgres container, without versions, is migrated as well.    *)
(***************************************************************************)
EXTENDS Naturals, FiniteSetsExt

CONSTANTS
    Runner,       \* the migration tasks
    FileCount,    \* the number of files that exist in the end
    MaxFaults     \* bound on the faults

ASSUME MigrationsAssumption == FileCount \in Nat \ {0} /\ MaxFaults \in Nat

File == 1..FileCount

VARIABLES
    pc,           \* where each task is in run_migrations
    image,        \* how many files its image holds
    prepared,     \* the files that were applied when the database was made
    applied,      \* the versions it has read
    writes,       \* the files it has executed and recorded in its transaction
    holder,       \* who has the advisory lock: a set with at most one element
    schema,       \* the files whose tables and columns the database has
    versions,     \* the rows of schema_migrations
    executions,   \* how often each file was executed and committed
    faults        \* how many faults there have been

dbVars == <<schema, versions, executions>>
fixedVars == <<image, prepared>>
vars == <<pc, fixedVars, applied, writes, holder, dbVars, faults>>

TypeOK ==
    /\ pc \in [Runner -> {"started", "locked", "applying", "done", "failed"}]
    /\ image \in [Runner -> File] /\ prepared \subseteq File
    /\ applied \in [Runner -> SUBSET File]
    /\ writes \in [Runner -> SUBSET File]
    /\ holder \subseteq Runner
    /\ schema \subseteq File /\ versions \subseteq File
    /\ executions \in [File -> Nat]
    /\ faults \in 0..MaxFaults

\* The database is new, or was prepared by the Postgres container.
Init ==
    /\ pc = [r \in Runner |-> "started"]
    /\ image \in [Runner -> File]
    /\ applied = [r \in Runner |-> {}]
    /\ writes = [r \in Runner |-> {}]
    /\ holder = {}
    /\ prepared \in {1..n : n \in 0..FileCount}
    /\ schema = prepared
    /\ versions = {}
    /\ executions = [f \in File |-> 0]
    /\ faults = 0

Goto(r, l) == pc' = [pc EXCEPT ![r] = l]

-----------------------------------------------------------------------------
(* Faulty variants, each a mistake this code could plausibly make.  None is *)
(* used by the specification; each shows that some property would notice.  *)

\* pg_try_advisory_xact_lock, whose answer is not looked at.
LockUnchecked(r) ==
    /\ pc[r] = "started"
    /\ holder' = holder \cup {r}
    /\ Goto(r, "locked")
    /\ UNCHANGED <<fixedVars, applied, writes, dbVars, faults>>

\* The image's list of files has one too many.
PendingOffByOne(r) == (1..(image[r] + 1)) \ (applied[r] \cup writes[r])

\* The versions are not recorded.
RecordNothing(r) ==
    /\ schema' = schema \cup writes[r]
    /\ executions' = [f \in File |-> executions[f] + IF f \in writes[r] THEN 1 ELSE 0]
    /\ UNCHANGED versions

\* Each file commits by itself, the versions at the end.
ExecuteAutocommit(r, f) ==
    /\ writes' = [writes EXCEPT ![r] = @ \cup {f}]
    /\ schema' = schema \cup {f}
    /\ UNCHANGED <<versions, executions>>

\* A session lock outlives the transaction that failed.
RollbackLocked(r) == writes' = [writes EXCEPT ![r] = {}] /\ UNCHANGED <<holder, dbVars>>

\* The task logs an error and exits with 0.
ExitAfterErrorZero == "done"

-----------------------------------------------------------------------------
(* run_migrations.                                                         *)

\* pg_advisory_xact_lock.
Lock(r) ==
    /\ pc[r] = "started" /\ holder = {}
    /\ holder' = {r}
    /\ Goto(r, "locked")
    /\ UNCHANGED <<fixedVars, applied, writes, dbVars, faults>>

\* CREATE TABLE IF NOT EXISTS schema_migrations, SELECT version.
ReadApplied(r) ==
    /\ pc[r] = "locked"
    /\ applied' = [applied EXCEPT ![r] = versions]
    /\ Goto(r, "applying")
    /\ UNCHANGED <<fixedVars, writes, holder, dbVars, faults>>

\* The files of the image that are not applied yet.
Pending(r) == (1..image[r]) \ (applied[r] \cup writes[r])

\* The file needs what earlier files made, and its version must be new.  If not,
\* the statement raises and the task fails; NoTaskConflicts says this cannot be.
Conflicts(r, f) == f \in versions \/ ~(1..(f - 1) \subseteq schema \cup writes[r])

\* Another transaction has inserted the version, and must end first.
Blocked(r, f) == \E q \in Runner \ {r} : f \in writes[q]

Execute(r, f) == writes' = [writes EXCEPT ![r] = @ \cup {f}] /\ UNCHANGED dbVars

\* The next file in the order of their names, then INSERT of its version.
ApplyNext(r) ==
    /\ pc[r] = "applying" /\ Pending(r) # {}
    /\ LET f == Min(Pending(r)) IN
         /\ ~Conflicts(r, f) /\ ~Blocked(r, f)
         /\ Execute(r, f)
    /\ UNCHANGED <<pc, fixedVars, applied, holder, faults>>

Rollback(r) ==
    /\ writes' = [writes EXCEPT ![r] = {}]
    /\ holder' = holder \ {r}
    /\ UNCHANGED dbVars

Record(r) ==
    /\ schema' = schema \cup writes[r]
    /\ versions' = versions \cup writes[r]
    /\ executions' = [f \in File |-> executions[f] + IF f \in writes[r] THEN 1 ELSE 0]

Committed(r) ==
    /\ Record(r)
    /\ writes' = [writes EXCEPT ![r] = {}]
    /\ holder' = holder \ {r}

Commit(r) ==
    /\ pc[r] = "applying" /\ Pending(r) = {}
    /\ Committed(r)
    /\ Goto(r, "done")
    /\ UNCHANGED <<fixedVars, applied, faults>>

\* The exit status of a task that saw an error is not 0.
ExitAfterError == "failed"

\* A call raises, or the task is stopped; a commit may have been carried out.
Breaks(r) ==
    /\ pc[r] \in {"started", "locked", "applying"}
    /\ faults < MaxFaults /\ faults' = faults + 1
    /\ \/ Rollback(r)
       \/ pc[r] = "applying" /\ Pending(r) = {} /\ Committed(r)
    /\ Goto(r, ExitAfterError)
    /\ UNCHANGED <<fixedVars, applied>>

\* A failed task stops the release; it is run again.
RunAgain(r) ==
    /\ pc[r] = "failed"
    /\ Goto(r, "started")
    /\ UNCHANGED <<fixedVars, applied, writes, holder, dbVars, faults>>

Run(r) ==
    \/ Lock(r) \/ ReadApplied(r) \/ ApplyNext(r) \/ Commit(r)
    \/ RunAgain(r)

Next == \E r \in Runner : Run(r) \/ Breaks(r)

Spec == Init /\ [][Next]_vars

\* A task that was started goes on, PostgreSQL grants the lock to a waiting
\* task in the end, and a failed task is run again.
FairSpec == Spec /\ \A r \in Runner : WF_vars(Run(r)) /\ SF_vars(Lock(r))

-----------------------------------------------------------------------------
(* Properties.                                                             *)

\* No task fails but for a fault: whatever tasks run beside it, with an older or
\* a newer image, no version is inserted twice and no file meets a database that
\* earlier files have not prepared (pg_advisory_xact_lock before the SELECT).
NoTaskConflicts ==
    \A r \in Runner : pc[r] = "applying" /\ Pending(r) # {} =>
        ~Conflicts(r, Min(Pending(r)))

\* The versions tell the truth: what the tasks changed is recorded and what is
\* recorded was changed, by one execution, however many tasks run; a task that
\* breaks leaves no half of it.  And the variables keep their types.
VersionsTellTheSchema ==
    /\ TypeOK
    /\ schema = prepared \cup versions
    /\ \A f \in File : executions[f] <= 1

\* A task that exits with 0, which releases the services, found or made every
\* file of its image applied.
SuccessMeansMigrated == \A r \in Runner : pc[r] = "done" => 1..image[r] \subseteq versions

\* Every task succeeds in the end: none waits for ever behind one that broke.
EveryTaskSucceeds == \A r \in Runner : <>(pc[r] = "done")
=============================================================================
