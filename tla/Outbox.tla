------------------------------- MODULE Outbox -------------------------------
(***************************************************************************)
(* The transactional outbox: the job_outbox table of                       *)
(* application/shared/repository.py and the loop of dispatch_outbox in     *)
(* application/worker/main.py, which every worker process runs before each *)
(* poll of the queue.                                                      *)
(*                                                                         *)
(* A dispatcher claims a batch of events in one transaction, under one     *)
(* token, and then sends and marks them one by one; the lease of the whole *)
(* batch runs from the claim.  As in JobStore, "locked_at < NOW() - lease" *)
(* is the flag `expired'.                                                  *)
(*                                                                         *)
(* Everything that makes an event be claimed once more than needed is a    *)
(* fault: a call that raises, a crash, a lease that ends while its         *)
(* dispatcher is alive.  MaxFaults bounds their number, and with it        *)
(* attempts, tokens and sends.                                             *)
(***************************************************************************)
EXTENDS Naturals, Sequences, FiniteSets

CONSTANTS
    Event,        \* the outbox events that may ever be created
    Dispatcher,   \* the worker processes
    Limit,        \* the size of a batch (10 in the code)
    MaxFaults     \* bound on the faults

ASSUME OutboxAssumption == Limit \in Nat \ {0} /\ MaxFaults \in Nat

VARIABLES
    outbox,       \* the job_outbox table
    order,        \* the events in the order of created_at
    tokenSeq,     \* how many claim tokens uuid4() has produced
    sent,         \* how often each event's message was put on the queue
    pc,           \* where each dispatcher is in dispatch_outbox
    batch,        \* the events of its batch it has not finished
    current,      \* the event it is at: a set with at most one element
    claim,        \* the claim_token of its batch
    faults        \* how many faults there have been

tableVars == <<outbox, order, tokenSeq>>
localVars == <<pc, batch, current, claim>>
vars == <<tableVars, sent, localVars, faults>>

NoToken == 0

Status == {"absent", "pending", "publishing", "published", "failed"}

EventRow == [status: Status, attempts: Nat, token: Nat, expired: BOOLEAN]

TypeOK ==
    /\ outbox \in [Event -> EventRow]
    /\ order \in Seq(Event)
    /\ tokenSeq \in Nat
    /\ sent \in [Event -> Nat]
    /\ pc \in [Dispatcher -> {"down", "idle", "sending", "marking", "failing"}]
    /\ batch \in [Dispatcher -> SUBSET Event]
    /\ current \in [Dispatcher -> SUBSET Event]
    /\ claim \in [Dispatcher -> Nat]
    /\ faults \in 0..MaxFaults

Init ==
    /\ outbox = [e \in Event |-> [status |-> "absent", attempts |-> 0,
                                  token |-> NoToken, expired |-> FALSE]]
    /\ order = <<>>
    /\ tokenSeq = 0
    /\ sent = [e \in Event |-> 0]
    /\ pc = [d \in Dispatcher |-> "idle"]
    /\ batch = [d \in Dispatcher |-> {}]
    /\ current = [d \in Dispatcher |-> {}]
    /\ claim = [d \in Dispatcher |-> NoToken]
    /\ faults = 0

Fault == faults < MaxFaults /\ faults' = faults + 1

-----------------------------------------------------------------------------
(* Faulty variants, each a mistake this code could plausibly make.  None is *)
(* used by the specification; each shows that some property would notice.  *)

\* Every batch gets the same token.
ConstantToken == 1

\* The lease condition is missing from the WHERE clause.
ClaimableIgnoringLease ==
    {e \in Event : outbox[e].status \in {"pending", "failed", "publishing"}}

\* A failed event is not claimed again.
ClaimableOnce == {e \in Event : \/ outbox[e].status = "pending"
                                \/ outbox[e].status = "publishing" /\ outbox[e].expired}

\* The mark is not fenced by status and token.
MarkUnfenced(e, t, s) ==
    outbox' = [outbox EXCEPT ![e] = [@ EXCEPT !.status = s, !.token = NoToken,
                                             !.expired = FALSE]]

\* The worker was given the NoopJobPublisher of the API.
PublishNoop(d) ==
    /\ pc[d] = "sending"
    /\ \E e \in batch[d] : current' = [current EXCEPT ![d] = {e}]
    /\ pc' = [pc EXCEPT ![d] = "marking"]
    /\ UNCHANGED <<tableVars, sent, batch, claim, faults>>

\* An event that failed stays in the batch and is tried again in place.
NextEventRetries(d) ==
    LET rest == IF pc[d] = "failing" THEN batch[d] ELSE batch[d] \ current[d] IN
    /\ batch' = [batch EXCEPT ![d] = rest]
    /\ current' = [current EXCEPT ![d] = {}]
    /\ pc' = [pc EXCEPT ![d] = IF rest = {} THEN "idle" ELSE "sending"]
    /\ claim' = [claim EXCEPT ![d] = IF rest = {} THEN NoToken ELSE @]

-----------------------------------------------------------------------------
(* The table.                                                              *)

\* create_job inserts the event with the job, in one transaction.
CreateEvent(e) ==
    /\ outbox[e].status = "absent"
    /\ outbox' = [outbox EXCEPT ![e].status = "pending"]
    /\ order' = Append(order, e)
    /\ UNCHANGED <<tokenSeq, sent, localVars, faults>>

\* The WHERE clause of claim_outbox_events.
Claimable == {e \in Event : \/ outbox[e].status \in {"pending", "failed"}
                            \/ outbox[e].status = "publishing" /\ outbox[e].expired}

\* ORDER BY created_at LIMIT n.
Oldest(S, n) ==
    {order[i] : i \in {k \in DOMAIN order :
        order[k] \in S /\ Cardinality({l \in 1..(k - 1) : order[l] \in S}) < n}}

\* The fence of both marks: status = 'publishing' AND claim_token = %s.
OwnsEvent(e, t) == outbox[e].status = "publishing" /\ outbox[e].token = t

MarkEvent(e, t, s) ==
    outbox' = IF OwnsEvent(e, t)
              THEN [outbox EXCEPT ![e] = [@ EXCEPT !.status = s, !.token = NoToken,
                                                   !.expired = FALSE]]
              ELSE outbox

-----------------------------------------------------------------------------
(* dispatch_outbox.                                                        *)

\* uuid4(): the token of the next batch, different from every earlier one.
FreshToken == tokenSeq + 1

\* FOR UPDATE SKIP LOCKED: a row may be locked by a dispatcher that is marking
\* it.  (A concurrent claim is the same as the two claims one after the other.)
MayBeLocked(d) ==
    {e \in Event : \E c \in Dispatcher \ {d} : pc[c] \in {"marking", "failing"} /\ e \in current[c]}

ClaimBatch(d) ==
    /\ pc[d] = "idle"
    /\ \E skipped \in SUBSET (Claimable \cap MayBeLocked(d)) :
         LET claimed == Oldest(Claimable \ skipped, Limit) IN
         /\ claimed # {}
         /\ outbox' = [e \in Event |->
                          IF e \in claimed
                          THEN [status |-> "publishing", attempts |-> outbox[e].attempts + 1,
                                token |-> FreshToken, expired |-> FALSE]
                          ELSE outbox[e]]
         /\ batch' = [batch EXCEPT ![d] = claimed]
    /\ tokenSeq' = FreshToken
    /\ claim' = [claim EXCEPT ![d] = FreshToken]
    /\ pc' = [pc EXCEPT ![d] = "sending"]
    /\ UNCHANGED <<order, sent, current, faults>>

\* publisher.publish, for the events in any order (RETURNING has none).
Publish(d) ==
    /\ pc[d] = "sending"
    /\ \E e \in batch[d] :
         /\ sent' = [sent EXCEPT ![e] = @ + 1]
         /\ current' = [current EXCEPT ![d] = {e}]
    /\ pc' = [pc EXCEPT ![d] = "marking"]
    /\ UNCHANGED <<tableVars, batch, claim, faults>>

\* publish raises, before or after the queue took the message.
PublishRaises(d) ==
    /\ pc[d] = "sending" /\ Fault
    /\ \E e \in batch[d] :
         /\ sent' = [sent EXCEPT ![e] = @ + 1] \/ UNCHANGED sent
         /\ current' = [current EXCEPT ![d] = {e}]
    /\ pc' = [pc EXCEPT ![d] = "failing"]
    /\ UNCHANGED <<tableVars, batch, claim>>

\* On to the next event of the batch, or out of the loop.
NextEvent(d) ==
    LET rest == batch[d] \ current[d] IN
    /\ batch' = [batch EXCEPT ![d] = rest]
    /\ current' = [current EXCEPT ![d] = {}]
    /\ pc' = [pc EXCEPT ![d] = IF rest = {} THEN "idle" ELSE "sending"]
    /\ claim' = [claim EXCEPT ![d] = IF rest = {} THEN NoToken ELSE @]

\* mark_outbox_published; a mark that finds the claim gone returns False, which
\* is not an error.
MarkPublished(d) ==
    /\ pc[d] = "marking"
    /\ \E e \in current[d] : MarkEvent(e, claim[d], "published")
    /\ NextEvent(d)
    /\ UNCHANGED <<order, tokenSeq, sent, faults>>

\* The mark raises, before or after it committed; the handler of publish's
\* exceptions is also this one's.
MarkPublishedRaises(d) ==
    /\ pc[d] = "marking" /\ Fault
    /\ \E e \in current[d] : MarkEvent(e, claim[d], "published") \/ UNCHANGED outbox
    /\ pc' = [pc EXCEPT ![d] = "failing"]
    /\ UNCHANGED <<order, tokenSeq, sent, batch, current, claim>>

\* mark_outbox_failed; its own exceptions end the process, which is Crash.
MarkFailed(d) ==
    /\ pc[d] = "failing"
    /\ \E e \in current[d] : MarkEvent(e, claim[d], "failed")
    /\ NextEvent(d)
    /\ UNCHANGED <<order, tokenSeq, sent, faults>>

-----------------------------------------------------------------------------
(* The clock and the process.                                              *)

\* Some dispatcher is still busy with the event under its row's claim.
Attended(e) == \E d \in Dispatcher : e \in batch[d] /\ OwnsEvent(e, claim[d])

LeaseExpires(e) ==
    /\ outbox[e].status = "publishing" /\ ~outbox[e].expired
    /\ outbox' = [outbox EXCEPT ![e].expired = TRUE]
    /\ UNCHANGED <<order, tokenSeq, sent, localVars>>

\* The lease of an event that nobody is busy with any more.
AbandonedLease(e) == ~Attended(e) /\ LeaseExpires(e) /\ UNCHANGED faults

\* A batch that takes longer than the lease.
SlowLease(e) == Attended(e) /\ LeaseExpires(e) /\ Fault

Crash(d) ==
    /\ pc[d] # "down" /\ Fault
    /\ pc' = [pc EXCEPT ![d] = "down"]
    /\ batch' = [batch EXCEPT ![d] = {}]
    /\ current' = [current EXCEPT ![d] = {}]
    /\ claim' = [claim EXCEPT ![d] = NoToken]
    /\ UNCHANGED <<tableVars, sent>>

Restart(d) ==
    /\ pc[d] = "down"
    /\ pc' = [pc EXCEPT ![d] = "idle"]
    /\ UNCHANGED <<tableVars, sent, batch, current, claim, faults>>

Dispatch(d) ==
    \/ ClaimBatch(d) \/ Publish(d) \/ PublishRaises(d)
    \/ MarkPublished(d) \/ MarkPublishedRaises(d) \/ MarkFailed(d)

Next ==
    \/ \E e \in Event : CreateEvent(e) \/ AbandonedLease(e) \/ SlowLease(e)
    \/ \E d \in Dispatcher : Dispatch(d) \/ Crash(d) \/ Restart(d)

Spec == Init /\ [][Next]_vars

\* The worker loop keeps turning, a stopped task is restarted, time passes.
Fairness ==
    /\ \A d \in Dispatcher : WF_vars(Dispatch(d)) /\ WF_vars(Restart(d))
    /\ \A e \in Event : WF_vars(AbandonedLease(e))

FairSpec == Spec /\ Fairness

-----------------------------------------------------------------------------
(* Properties.                                                             *)

\* No event is lost: one that is marked published has been put on the queue,
\* whoever marked it, late or twice (dispatch_outbox marks after publish).
PublishedWasSent ==
    \A e \in Event : outbox[e].status = "published" => sent[e] > 0

\* No two dispatchers are at the same event under a claim that is still good.
\* And the variables keep their types.
OneOwner ==
    /\ TypeOK
    /\ \A e \in Event : \A c, d \in Dispatcher :
          /\ e \in batch[c] /\ OwnsEvent(e, claim[c])
          /\ e \in batch[d] /\ OwnsEvent(e, claim[d])
          => c = d

\* A published event never changes again: no late failure and no expired lease
\* makes it be claimed, and so sent, once more.
PublishedIsFinal ==
    [][\A e \in Event : outbox[e].status = "published" => outbox'[e] = outbox[e]]_vars

\* While its lease runs, the claim of an event is ended by nobody but the
\* dispatcher that holds it: a late mark of an earlier claim has no effect and
\* no other dispatcher takes the event (claim_outbox_events and both marks).
ClaimEndsByOwner ==
    [][\A e \in Event :
          /\ outbox[e].status = "publishing" /\ ~outbox[e].expired
          /\ outbox'[e].token # outbox[e].token
          => \E d \in Dispatcher : /\ e \in current[d] /\ claim[d] = outbox[e].token
                                   /\ pc'[d] # pc[d]]_vars

\* Every created event is eventually published, after finitely many faults:
\* failures, crashes at any point and slow batches only delay it.
EventuallyPublished ==
    \A e \in Event : outbox[e].status = "pending" ~> outbox[e].status = "published"

\* The outbox implements the promise an event is written under: it is owed while
\* its row is pending, publishing or failed, and the message is put on the queue
\* once and once more per fault at most, whatever two dispatchers do at a time
\* (create_job, claim_outbox_events, dispatch_outbox).
Delivery == INSTANCE EventDelivery WITH
    promise <- [e \in Event |-> CASE outbox[e].status = "absent"    -> "none"
                                 [] outbox[e].status = "published" -> "kept"
                                 [] OTHER                          -> "owed"],
    sends <- sent, mishaps <- faults

ImplementsDelivery == Delivery!Spec
=============================================================================
