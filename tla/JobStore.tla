------------------------------ MODULE JobStore ------------------------------
(***************************************************************************)
(* The PostgreSQL tables behind a job and the transactions of              *)
(* application/shared/repository.py that touch them.  Every operator below *)
(* is one transaction (Database.transaction commits or rolls back as a     *)
(* whole), so it is one step of whoever runs it.                           *)
(*                                                                         *)
(* Time is abstracted: "processing_started_at < NOW() - lease" is the flag *)
(* `expired' of the row, which LeaseExpires may raise at any moment and a  *)
(* claim or a renewal lowers.  Module LeaseTiming puts the seconds back.   *)
(* The columns job_type, payload, last_error and the timestamps are left   *)
(* out: no transaction reads them in a condition.                          *)
(***************************************************************************)
EXTENDS Naturals, Sequences

CONSTANT Job    \* the job ids that may ever be created

VARIABLES
    jobs,            \* the jobs table
    jobResults,      \* job_results: the report key of the result row, or NoKey
    objectMetadata,  \* object_metadata: pairs <<job, object_key>>
    auditEvents,     \* audit_events of each job, in insertion order
    tokenSeq         \* how many processing tokens uuid4() has produced

storeVars == <<jobs, jobResults, objectMetadata, auditEvents, tokenSeq>>

NoToken == 0         \* processing_token IS NULL
NoKey == 0           \* no job_results row

JobStatus == {"absent", "pending", "processing", "completed", "failed"}

JobRow == [status: JobStatus, attempts: Nat, token: Nat, expired: BOOLEAN]

StoreTypeOK ==
    /\ jobs \in [Job -> JobRow]
    /\ jobResults \in [Job -> Nat]
    /\ objectMetadata \subseteq Job \X Nat
    /\ auditEvents \in [Job -> Seq({"created", "completed"})]
    /\ tokenSeq \in Nat

StoreInit ==
    /\ jobs = [j \in Job |-> [status |-> "absent", attempts |-> 0,
                              token |-> NoToken, expired |-> FALSE]]
    /\ jobResults = [j \in Job |-> NoKey]
    /\ objectMetadata = {}
    /\ auditEvents = [j \in Job |-> <<>>]
    /\ tokenSeq = 0

-----------------------------------------------------------------------------
(* Faulty variants, each a mistake this code could plausibly make.  None is *)
(* used by a specification; each shows that some property would notice it. *)

\* The lease condition is missing from the WHERE clause.
ClaimableIgnoringLease(j) == jobs[j].status \in {"pending", "failed", "processing"}

\* Every claim gets the same token.
ConstantToken == 1

\* attempts is not incremented.
MarkWithoutCounting(j) ==
    /\ \/ jobs[j].status \in {"pending", "failed"}
       \/ jobs[j].status = "processing" /\ jobs[j].expired
    /\ jobs' = [jobs EXCEPT ![j] = [status |-> "processing", attempts |-> @.attempts,
                                    token |-> tokenSeq + 1, expired |-> FALSE]]
    /\ tokenSeq' = tokenSeq + 1
    /\ UNCHANGED <<jobResults, objectMetadata, auditEvents>>

\* The completion is not fenced by the token.
CompleteUnfenced(j, t, key) ==
    /\ jobs' = [jobs EXCEPT ![j] = [@ EXCEPT !.status = "completed", !.token = NoToken,
                                             !.expired = FALSE]]
    /\ jobResults' = [jobResults EXCEPT ![j] = key]
    /\ objectMetadata' = objectMetadata \cup {<<j, key>>}
    /\ auditEvents' = [auditEvents EXCEPT ![j] = Append(@, "completed")]
    /\ UNCHANGED tokenSeq

\* The failure is not fenced by status and token.
FailUnfenced(j, t) ==
    /\ jobs' = [jobs EXCEPT ![j] = [@ EXCEPT !.status = "failed", !.token = NoToken,
                                             !.expired = FALSE]]
    /\ UNCHANGED <<jobResults, objectMetadata, auditEvents, tokenSeq>>

-----------------------------------------------------------------------------
(* The transactions.                                                       *)

CreateJob(j) ==
    /\ jobs[j].status = "absent"
    /\ jobs' = [jobs EXCEPT ![j].status = "pending"]
    /\ auditEvents' = [auditEvents EXCEPT ![j] = Append(@, "created")]
    /\ UNCHANGED <<jobResults, objectMetadata, tokenSeq>>

\* The WHERE clause of mark_job_processing.
Claimable(j) ==
    \/ jobs[j].status \in {"pending", "failed"}
    \/ jobs[j].status = "processing" /\ jobs[j].expired

\* uuid4(): the token of the next claim, different from every earlier one.
FreshToken == tokenSeq + 1

MarkJobProcessing(j) ==
    /\ Claimable(j)
    /\ jobs' = [jobs EXCEPT ![j] = [status |-> "processing",
                                    attempts |-> @.attempts + 1,
                                    token |-> FreshToken,
                                    expired |-> FALSE]]
    /\ tokenSeq' = FreshToken
    /\ UNCHANGED <<jobResults, objectMetadata, auditEvents>>

\* The fence shared by every later statement of the claim's owner:
\* status = 'processing' AND processing_token = %s.
OwnsClaim(j, t) == jobs[j].status = "processing" /\ jobs[j].token = t

RenewJobProcessingLease(j, t) ==
    /\ OwnsClaim(j, t)
    /\ jobs' = [jobs EXCEPT ![j].expired = FALSE]
    /\ UNCHANGED <<jobResults, objectMetadata, auditEvents, tokenSeq>>

\* processing_token = NULL, processing_started_at = NULL.
Released(row, s) == [row EXCEPT !.status = s, !.token = NoToken, !.expired = FALSE]

CompleteJobWithReport(j, t, key) ==
    /\ OwnsClaim(j, t)
    /\ jobs' = [jobs EXCEPT ![j] = Released(@, "completed")]
    /\ jobResults' = [jobResults EXCEPT ![j] = key]
    /\ objectMetadata' = objectMetadata \cup {<<j, key>>}
    /\ auditEvents' = [auditEvents EXCEPT ![j] = Append(@, "completed")]
    /\ UNCHANGED tokenSeq

\* An UPDATE that matches no row is not an error: fail_job returns False.
FailJob(j, t) ==
    /\ jobs' = IF OwnsClaim(j, t)
               THEN [jobs EXCEPT ![j] = Released(@, "failed")]
               ELSE jobs
    /\ UNCHANGED <<jobResults, objectMetadata, auditEvents, tokenSeq>>

\* The clock: the lease of the current claim is over.
LeaseExpires(j) ==
    /\ jobs[j].status = "processing" /\ ~jobs[j].expired
    /\ jobs' = [jobs EXCEPT ![j].expired = TRUE]
    /\ UNCHANGED <<jobResults, objectMetadata, auditEvents, tokenSeq>>
=============================================================================
