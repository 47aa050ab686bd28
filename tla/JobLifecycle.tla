---------------------------- MODULE JobLifecycle ----------------------------
(***************************************************************************)
(* What the platform promises to a client that polls GET /jobs/{job_id}    *)
(* (Repository.get_job): a job is submitted once; it is then attempted,    *)
(* one numbered attempt after another, each of which may store one report; *)
(* it is completed once, by its last attempt, with the report that attempt *)
(* stored; and nothing it shows changes after that.  There are no workers, *)
(* messages, leases or tokens here: module Worker implements this one.     *)
(***************************************************************************)
EXTENDS Naturals

CONSTANT Job

VARIABLES
    view,     \* what get_job shows: status, attempts, and whose report
    stored    \* the reports in the artifact store: pairs <<job, attempt>>

lifecycleVars == <<view, stored>>

Init ==
    /\ view = [j \in Job |-> [status |-> "absent", attempts |-> 0, report |-> 0]]
    /\ stored = {}

Submit(j) ==
    /\ view[j].status = "absent"
    /\ view' = [view EXCEPT ![j].status = "pending"]
    /\ UNCHANGED stored

\* A first attempt, a retry, or the takeover of an attempt thought dead.
Begin(j) ==
    /\ view[j].status \in {"pending", "failed", "processing"}
    /\ view' = [view EXCEPT ![j].status = "processing", ![j].attempts = @ + 1]
    /\ UNCHANGED stored

\* Any attempt made so far may still store its report, once.
Store(j, a) ==
    /\ a \in 1..view[j].attempts /\ <<j, a>> \notin stored
    /\ stored' = stored \cup {<<j, a>>}
    /\ UNCHANGED view

Fail(j) ==
    /\ view[j].status = "processing"
    /\ view' = [view EXCEPT ![j].status = "failed"]
    /\ UNCHANGED stored

Finish(j) ==
    /\ view[j].status = "processing" /\ <<j, view[j].attempts>> \in stored
    /\ view' = [view EXCEPT ![j].status = "completed", ![j].report = view[j].attempts]
    /\ UNCHANGED stored

Next ==
    \E j \in Job :
        \/ Submit(j) \/ Begin(j) \/ Fail(j) \/ Finish(j)
        \/ \E a \in 1..view[j].attempts : Store(j, a)

Spec == Init /\ [][Next]_lifecycleVars
=============================================================================
