---------------------------- MODULE OutboxProofs ----------------------------
(***************************************************************************)
(* Proofs about module Outbox, for any sets of events and dispatchers, any *)
(* size of a batch and any bound on the faults.                            *)
(*                                                                         *)
(* That an event is sent no more often than it was claimed needs to know   *)
(* which dispatchers may still send it: those with the event in a batch    *)
(* they have not come to (MaySend).  What was sent and what may still be   *)
(* sent together are within the attempts (Budget).                         *)
(***************************************************************************)
EXTENDS Outbox, FiniteSetTheorems, SequenceTheorems, TLAPS

\* The locals of a dispatcher at each place of the loop.
LocalShape ==
    \A d \in Dispatcher :
        /\ pc[d] \in {"down", "idle"} =>
              batch[d] = {} /\ current[d] = {} /\ claim[d] = NoToken
        /\ pc[d] = "sending" => current[d] = {}
        /\ pc[d] \in {"marking", "failing"} => \E e \in batch[d] : current[d] = {e}

\* An event that is being published has a token, and only such an event; tokens
\* were drawn before they are used, and no two dispatchers have the same.
TokenState ==
    /\ \A e \in Event : /\ outbox[e].status = "publishing" <=> outbox[e].token # NoToken
                        /\ outbox[e].token <= tokenSeq
    /\ \A d \in Dispatcher : claim[d] <= tokenSeq
    /\ \A c, d \in Dispatcher : claim[c] = claim[d] /\ claim[c] # NoToken => c = d

\* A dispatcher about to mark an event has sent it.
SentBeforeMark ==
    \A d \in Dispatcher : pc[d] = "marking" => \A e \in current[d] : sent[e] > 0

\* The dispatchers that have claimed the event and not come to it.
MaySend(e) == {d \in Dispatcher : e \in batch[d] \ current[d]}

Budget ==
    \A e \in Event : /\ IsFiniteSet(MaySend(e))
                     /\ sent[e] + Cardinality(MaySend(e)) <= outbox[e].attempts

IInv ==
    /\ TypeOK
    /\ LocalShape
    /\ TokenState
    /\ SentBeforeMark
    /\ PublishedWasSent
    /\ Budget

-----------------------------------------------------------------------------
(* What the transactions and the loop do.                                  *)

\* A batch is taken from the events the WHERE clause selects.
LEMMA OldestFrom == \A S, n : Oldest(S, n) \subseteq S
  BY DEF Oldest

\* A mark changes the row of its event, and that only under its claim.
LEMMA MarkEffect ==
  ASSUME TypeOK, NEW e \in Event, NEW t \in Nat, NEW s \in Status, MarkEvent(e, t, s)
  PROVE  /\ outbox' \in [Event -> EventRow]
         /\ \A f \in Event : /\ outbox'[f].attempts = outbox[f].attempts
                             /\ \/ outbox'[f] = outbox[f]
                                \/ /\ f = e /\ OwnsEvent(e, t)
                                   /\ outbox'[f].status = s /\ outbox'[f].token = NoToken
<1>1. outbox \in [Event -> EventRow] /\ NoToken \in Nat
  BY DEF TypeOK, NoToken
<1>2. CASE OwnsEvent(e, t)
  BY <1>1, <1>2 DEF MarkEvent, EventRow
<1>3. CASE ~OwnsEvent(e, t)
  BY <1>1, <1>3 DEF MarkEvent
<1> QED BY <1>2, <1>3

\* The number of faults stays in its bound.
LEMMA FaultTyped ==
  ASSUME TypeOK, Fault \/ UNCHANGED faults
  PROVE  faults' \in 0..MaxFaults
  BY OutboxAssumption DEF TypeOK, Fault

\* The other dispatchers' locals.
Others(d) ==
    \A c \in Dispatcher \ {d} : /\ pc'[c] = pc[c] /\ batch'[c] = batch[c]
                                /\ current'[c] = current[c] /\ claim'[c] = claim[c]

\* The locals keep their types.
LocalsTyped ==
    /\ pc \in [Dispatcher -> {"down", "idle", "sending", "marking", "failing"}]
    /\ batch \in [Dispatcher -> SUBSET Event]
    /\ current \in [Dispatcher -> SUBSET Event]
    /\ claim \in [Dispatcher -> Nat]

\* A dispatcher goes on to the next event, or out of the loop.
LEMMA NextEventEffect ==
  ASSUME TypeOK, NEW d \in Dispatcher, NextEvent(d)
  PROVE  /\ LocalsTyped' /\ Others(d)
         /\ pc'[d] = (IF batch'[d] = {} THEN "idle" ELSE "sending")
         /\ batch'[d] = batch[d] \ current[d] /\ current'[d] = {}
         /\ claim'[d] = (IF batch'[d] = {} THEN NoToken ELSE claim[d])
  BY DEF TypeOK, LocalsTyped, NextEvent, Others, NoToken

\* A step that takes no event into a batch leaves the budgets alone, whatever
\* it marks, if it sends nothing.
LEMMA BudgetKept ==
  ASSUME TypeOK, TypeOK', Budget, UNCHANGED sent,
         \A e \in Event : /\ MaySend(e)' \subseteq MaySend(e)
                          /\ outbox'[e].attempts = outbox[e].attempts
  PROVE  Budget'
<1> SUFFICES ASSUME NEW e \in Event
             PROVE  /\ IsFiniteSet(MaySend(e)')
                    /\ sent[e] + Cardinality(MaySend(e)') <= outbox[e].attempts
  BY DEF Budget
<1>1. /\ IsFiniteSet(MaySend(e)')
      /\ Cardinality(MaySend(e)') <= Cardinality(MaySend(e))
  BY FS_Subset DEF Budget
<1>2. /\ Cardinality(MaySend(e)') \in Nat /\ Cardinality(MaySend(e)) \in Nat
      /\ sent[e] \in Nat /\ outbox[e].attempts \in Nat
  BY <1>1, FS_CardinalityType DEF Budget, TypeOK, EventRow
<1> QED BY <1>1, <1>2 DEF Budget

\* Sending an event, once, spends what its dispatcher might still send.
LEMMA BudgetSpent ==
  ASSUME TypeOK, TypeOK', Budget, NEW d \in Dispatcher, NEW e \in Event, d \in MaySend(e),
         MaySend(e)' = MaySend(e) \ {d},
         \A f \in Event \ {e} : MaySend(f)' = MaySend(f) /\ sent'[f] = sent[f],
         sent'[e] \in {sent[e], sent[e] + 1}, UNCHANGED outbox
  PROVE  Budget'
<1>1. ASSUME NEW f \in Event
      PROVE  /\ IsFiniteSet(MaySend(f)')
             /\ sent'[f] + Cardinality(MaySend(f)') <= outbox[f].attempts
  <2>1. CASE f # e
    BY <2>1 DEF Budget
  <2>2. CASE f = e
    <3>1. /\ IsFiniteSet(MaySend(e)')
          /\ Cardinality(MaySend(e)') = Cardinality(MaySend(e)) - 1
      BY FS_RemoveElement DEF Budget
    <3>2. Cardinality(MaySend(e)) \in Nat /\ sent[e] \in Nat /\ outbox[e].attempts \in Nat
      BY FS_CardinalityType DEF Budget, TypeOK, EventRow
    <3>3. sent[e] + Cardinality(MaySend(e)) <= outbox[e].attempts
      BY DEF Budget
    <3>4. sent'[e] + Cardinality(MaySend(e)') <= outbox[e].attempts
      BY <3>1, <3>2, <3>3
    <3>5. MaySend(f)' = MaySend(e)'
      BY <2>2 DEF MaySend
    <3> QED BY <2>2, <3>1, <3>4, <3>5
  <2> QED BY <2>1, <2>2
<1> QED BY <1>1 DEF Budget

\* Claiming a batch gives its dispatcher one send of each event, and counts it.
LEMMA BudgetGained ==
  ASSUME TypeOK, TypeOK', Budget, UNCHANGED sent, NEW d \in Dispatcher, NEW claimed \in SUBSET Event,
         \A e \in claimed : /\ d \notin MaySend(e) /\ MaySend(e)' = MaySend(e) \cup {d}
                            /\ outbox'[e].attempts = outbox[e].attempts + 1,
         \A e \in Event \ claimed : MaySend(e)' = MaySend(e) /\ outbox'[e] = outbox[e]
  PROVE  Budget'
<1>1. ASSUME NEW e \in Event
      PROVE  /\ IsFiniteSet(MaySend(e)')
             /\ sent'[e] + Cardinality(MaySend(e)') <= outbox'[e].attempts
  <2>1. CASE e \notin claimed
    BY <2>1 DEF Budget
  <2>2. CASE e \in claimed
    <3>1. /\ IsFiniteSet(MaySend(e)')
          /\ Cardinality(MaySend(e)') = Cardinality(MaySend(e)) + 1
      BY <2>2, FS_AddElement DEF Budget
    <3>2. Cardinality(MaySend(e)) \in Nat /\ sent[e] \in Nat /\ outbox[e].attempts \in Nat
      BY FS_CardinalityType DEF Budget, TypeOK, EventRow
    <3> QED BY <2>2, <3>1, <3>2 DEF Budget
  <2> QED BY <2>1, <2>2
<1> QED BY <1>1 DEF Budget

-----------------------------------------------------------------------------
(* The invariant.                                                          *)

\* The invariant holds initially.
LEMMA InvInit == Init => IInv
<1> SUFFICES ASSUME Init PROVE IInv
  OBVIOUS
<1>1. TypeOK
  <2>1. <<>> \in Seq(Event)
    OBVIOUS
  <2> QED BY <2>1, OutboxAssumption DEF Init, TypeOK, EventRow, Status, NoToken
<1>2. LocalShape /\ TokenState /\ SentBeforeMark /\ PublishedWasSent
  BY DEF Init, LocalShape, TokenState, SentBeforeMark, PublishedWasSent, NoToken
<1>3. \A e \in Event : MaySend(e) = {}
  BY DEF Init, MaySend
<1>4. Budget
  <2>1. \A e \in Event : sent[e] = 0 /\ outbox[e].attempts = 0
    BY DEF Init
  <2>2. \A e \in Event : IsFiniteSet(MaySend(e)) /\ Cardinality(MaySend(e)) = 0
    BY <1>3, FS_EmptySet
  <2> QED BY <2>1, <2>2 DEF Budget
<1> QED BY <1>1, <1>2, <1>4 DEF IInv

\* A claim was drawn before, also the one that is none.
LEMMA ClaimBound ==
  ASSUME TypeOK, TokenState
  PROVE  NoToken <= tokenSeq /\ \A d \in Dispatcher : claim[d] <= tokenSeq
  BY DEF TypeOK, TokenState, NoToken

\* Steps that leave the dispatchers alone and change one row, or none: an event
\* is created, or a lease ends.
LEMMA BackgroundInv ==
  ASSUME IInv, UNCHANGED <<tokenSeq, sent, localVars>>, order' \in Seq(Event), faults' \in 0..MaxFaults,
         NEW e \in Event, NEW row \in EventRow, outbox' = [outbox EXCEPT ![e] = row],
         row.attempts = outbox[e].attempts, row.token = outbox[e].token,
         row.status # outbox[e].status => outbox[e].status = "absent" /\ row.status = "pending"
  PROVE  IInv'
<1> USE DEF IInv
<1>1. TypeOK'
  BY DEF TypeOK, localVars
<1>2. \A f \in Event : /\ outbox'[f].attempts = outbox[f].attempts
                       /\ outbox'[f].token = outbox[f].token
                       /\ \/ outbox'[f].status = outbox[f].status
                          \/ outbox[f].status = "absent" /\ outbox'[f].status = "pending"
  BY DEF TypeOK
<1>3. LocalShape' /\ SentBeforeMark'
  BY DEF LocalShape, SentBeforeMark, localVars
<1>4. TokenState'
  BY <1>2 DEF TokenState, localVars
<1>5. PublishedWasSent'
  BY <1>2 DEF PublishedWasSent
<1>6. \A f \in Event : MaySend(f)' = MaySend(f)
  BY DEF MaySend, localVars
<1>7. Budget'
  BY <1>1, <1>2, <1>6, BudgetKept
<1> QED BY <1>1, <1>3, <1>4, <1>5, <1>7

\* claim_outbox_events.
LEMMA ClaimInv ==
  ASSUME IInv, NEW d \in Dispatcher, ClaimBatch(d)
  PROVE  IInv'
<1> USE DEF IInv
<1>1. PICK claimed \in SUBSET Claimable :
         /\ claimed # {}
         /\ outbox' = [e \in Event |->
                          IF e \in claimed
                          THEN [status |-> "publishing", attempts |-> outbox[e].attempts + 1,
                                token |-> FreshToken, expired |-> FALSE]
                          ELSE outbox[e]]
         /\ batch' = [batch EXCEPT ![d] = claimed]
  <2>1. PICK skipped \in SUBSET (Claimable \cap MayBeLocked(d)) :
           LET claimed == Oldest(Claimable \ skipped, Limit) IN
           /\ claimed # {}
           /\ outbox' = [e \in Event |->
                            IF e \in claimed
                            THEN [status |-> "publishing", attempts |-> outbox[e].attempts + 1,
                                  token |-> FreshToken, expired |-> FALSE]
                            ELSE outbox[e]]
           /\ batch' = [batch EXCEPT ![d] = claimed]
    BY DEF ClaimBatch
  <2>2. Oldest(Claimable \ skipped, Limit) \in SUBSET Claimable
    BY OldestFrom
  <2> QED BY <2>1, <2>2
<1>2. /\ pc[d] = "idle" /\ tokenSeq' = FreshToken /\ FreshToken = tokenSeq + 1 /\ tokenSeq \in Nat
      /\ claim' = [claim EXCEPT ![d] = FreshToken] /\ pc' = [pc EXCEPT ![d] = "sending"]
      /\ UNCHANGED <<order, sent, current, faults>>
  BY DEF ClaimBatch, FreshToken, TypeOK
<1>3. claimed \subseteq Event /\ batch[d] = {} /\ current[d] = {}
  BY <1>2 DEF Claimable, LocalShape
<1>4. TypeOK'
  <2>1. outbox' \in [Event -> EventRow]
    BY <1>1, <1>2 DEF TypeOK, EventRow, Status
  <2> QED BY <1>1, <1>2, <1>3, <2>1 DEF TypeOK
<1>5. /\ Others(d)
      /\ pc'[d] = "sending" /\ batch'[d] = claimed /\ current'[d] = {} /\ claim'[d] = FreshToken
  BY <1>1, <1>2, <1>3 DEF Others, TypeOK
<1>6. LocalShape'
  BY <1>5 DEF LocalShape, Others
<1>7. \A e \in Event :
         /\ e \in claimed => /\ outbox'[e].status = "publishing" /\ outbox'[e].token = FreshToken
                              /\ outbox'[e].attempts = outbox[e].attempts + 1
         /\ e \notin claimed => outbox'[e] = outbox[e]
  BY <1>1
<1>8. TokenState'
  <2>1. /\ FreshToken \in Nat /\ FreshToken # NoToken
        /\ \A e \in Event : outbox[e].token \in Nat /\ outbox[e].token <= tokenSeq
        /\ \A c \in Dispatcher : claim[c] \in Nat /\ claim[c] <= tokenSeq
    BY <1>2 DEF TokenState, TypeOK, EventRow, NoToken
  <2>2. \A e \in Event : /\ outbox'[e].status = "publishing" <=> outbox'[e].token # NoToken
                         /\ outbox'[e].token <= tokenSeq'
    BY <1>2, <1>7, <2>1 DEF TokenState
  <2>3. \A c \in Dispatcher : claim'[c] <= tokenSeq' /\ (c # d => claim'[c] # FreshToken)
    BY <1>2, <1>5, <2>1 DEF Others
  <2>4. \A b, c \in Dispatcher : claim'[b] = claim'[c] /\ claim'[b] # NoToken => b = c
    BY <1>5, <2>3 DEF TokenState, Others
  <2> QED BY <2>2, <2>3, <2>4 DEF TokenState
<1>9. SentBeforeMark'
  BY <1>2, <1>5 DEF SentBeforeMark, Others
<1>10. PublishedWasSent'
  BY <1>2, <1>7 DEF PublishedWasSent
<1>11. Budget'
  <2>1. \A e \in claimed : d \notin MaySend(e) /\ MaySend(e)' = MaySend(e) \cup {d}
    BY <1>3, <1>5 DEF MaySend, Others
  <2>2. \A e \in Event \ claimed : MaySend(e)' = MaySend(e)
    BY <1>3, <1>5 DEF MaySend, Others
  <2> QED BY <1>2, <1>3, <1>4, <1>7, <2>1, <2>2, BudgetGained
<1> QED BY <1>4, <1>6, <1>8, <1>9, <1>10, <1>11

\* A dispatcher sends an event, or fails to: Publish and PublishRaises.
LEMMA PublishInv ==
  ASSUME IInv, NEW d \in Dispatcher, Publish(d) \/ PublishRaises(d)
  PROVE  IInv'
<1> USE DEF IInv
<1>1. PICK e \in batch[d] : /\ current' = [current EXCEPT ![d] = {e}]
                            /\ \/ sent' = [sent EXCEPT ![e] = @ + 1]
                               \/ UNCHANGED sent /\ pc' = [pc EXCEPT ![d] = "failing"]
  BY DEF Publish, PublishRaises
<1>2. /\ pc[d] = "sending" /\ UNCHANGED <<tableVars, batch, claim>>
      /\ \E l \in {"marking", "failing"} : pc' = [pc EXCEPT ![d] = l]
      /\ faults' \in 0..MaxFaults
  BY FaultTyped DEF Publish, PublishRaises
<1>3. e \in Event
  BY DEF TypeOK
<1>4. /\ TypeOK' /\ current[d] = {}
      /\ UNCHANGED <<outbox, tokenSeq>>
      /\ \A f \in Event : sent'[f] >= sent[f]
  <2>1. sent' \in [Event -> Nat] /\ \A f \in Event : sent'[f] >= sent[f]
    <3>1. sent \in [Event -> Nat]
      BY DEF TypeOK
    <3>2. CASE sent' = [sent EXCEPT ![e] = @ + 1]
      BY <1>3, <3>1, <3>2
    <3>3. CASE UNCHANGED sent
      BY <3>1, <3>3
    <3> QED BY <1>1, <3>2, <3>3
  <2>2. LocalsTyped' /\ current[d] = {}
    BY <1>1, <1>2, <1>3 DEF TypeOK, LocalsTyped, LocalShape
  <2> QED BY <1>2, <2>1, <2>2 DEF TypeOK, LocalsTyped, tableVars
<1>5. /\ Others(d) /\ pc'[d] \in {"marking", "failing"} /\ batch'[d] = batch[d]
      /\ current'[d] = {e} /\ claim'[d] = claim[d]
      /\ pc'[d] = "marking" => sent'[e] > 0
  BY <1>1, <1>2, <1>3 DEF Others, TypeOK
<1>6. LocalShape'
  BY <1>5 DEF LocalShape, Others
<1>7. TokenState'
  BY <1>2, <1>4 DEF TokenState
<1>8. SentBeforeMark'
  <2>1. \A c \in Dispatcher : \A f \in current[c] : f \in Event /\ sent[f] \in Nat /\ sent'[f] \in Nat
    BY <1>4 DEF TypeOK
  <2> QED BY <1>4, <1>5, <2>1 DEF SentBeforeMark, Others
<1>9. PublishedWasSent'
  BY <1>4 DEF PublishedWasSent, TypeOK
<1>10. Budget'
  <2>1. d \in MaySend(e) /\ MaySend(e)' = MaySend(e) \ {d}
    BY <1>4, <1>5 DEF MaySend, Others
  <2>2. \A f \in Event \ {e} : MaySend(f)' = MaySend(f) /\ sent'[f] = sent[f]
    BY <1>1, <1>4, <1>5 DEF MaySend, Others, TypeOK
  <2>3. sent'[e] \in {sent[e], sent[e] + 1}
    BY <1>1, <1>3 DEF TypeOK
  <2> QED BY <1>3, <1>4, <2>1, <2>2, <2>3, BudgetSpent
<1> QED BY <1>4, <1>6, <1>7, <1>8, <1>9, <1>10

\* A dispatcher marks its event, or the mark finds the claim gone or raises.
LEMMA MarkInv ==
  ASSUME IInv, NEW d \in Dispatcher, MarkPublished(d) \/ MarkPublishedRaises(d) \/ MarkFailed(d)
  PROVE  IInv'
<1> USE DEF IInv
<1>1. /\ pc[d] \in {"marking", "failing"} /\ UNCHANGED <<order, tokenSeq, sent>>
      /\ faults' \in 0..MaxFaults
  BY FaultTyped DEF MarkPublished, MarkPublishedRaises, MarkFailed
<1>2. PICK e \in current[d], s \in {"published", "failed"} :
         /\ MarkEvent(e, claim[d], s) \/ UNCHANGED outbox
         /\ s = "published" => pc[d] = "marking"
  BY DEF MarkPublished, MarkPublishedRaises, MarkFailed
<1>3. e \in Event /\ claim[d] \in Nat /\ s \in Status
  BY DEF TypeOK, Status
<1>4. /\ outbox' \in [Event -> EventRow]
      /\ \A f \in Event : /\ outbox'[f].attempts = outbox[f].attempts
                           /\ \/ outbox'[f] = outbox[f]
                              \/ /\ f = e /\ OwnsEvent(e, claim[d])
                                 /\ outbox'[f].status = s /\ outbox'[f].token = NoToken
  BY <1>2, <1>3, MarkEffect DEF TypeOK
<1>5. /\ LocalsTyped' /\ Others(d) /\ pc'[d] \in {"idle", "sending", "failing"}
      /\ pc'[d] = "idle" => batch'[d] = {} /\ current'[d] = {} /\ claim'[d] = NoToken
      /\ pc'[d] = "sending" => current'[d] = {}
      /\ pc'[d] = "failing" => batch'[d] = batch[d] /\ current'[d] = current[d]
      /\ claim'[d] \in {NoToken, claim[d]}
      /\ batch'[d] \ current'[d] = batch[d] \ current[d]
  <2>1. CASE MarkPublishedRaises(d)
    BY <2>1 DEF MarkPublishedRaises, LocalsTyped, Others, TypeOK
  <2>2. CASE NextEvent(d)
    BY <2>2, NextEventEffect
  <2> QED BY <2>1, <2>2 DEF MarkPublished, MarkFailed
<1>6. TypeOK'
  BY <1>1, <1>4, <1>5 DEF TypeOK, LocalsTyped
<1>7. LocalShape'
  BY <1>1, <1>5 DEF LocalShape, Others
<1>8. TokenState'
  <2>1. \A f \in Event : /\ outbox'[f].status = "publishing" <=> outbox'[f].token # NoToken
                         /\ outbox'[f].token <= tokenSeq'
    BY <1>1, <1>2, <1>4 DEF TokenState, TypeOK, NoToken
  <2>2. \A c \in Dispatcher : claim'[c] \in {NoToken, claim[c]}
    BY <1>5 DEF Others
  <2>3. \A c \in Dispatcher : claim'[c] <= tokenSeq'
    BY <1>1, <2>2, ClaimBound
  <2> QED BY <2>1, <2>2, <2>3 DEF TokenState
<1>9. SentBeforeMark'
  BY <1>1, <1>5 DEF SentBeforeMark, Others
<1>10. PublishedWasSent'
  BY <1>1, <1>2, <1>4 DEF PublishedWasSent, SentBeforeMark
<1>11. Budget'
  <2>1. \A f \in Event : MaySend(f)' = MaySend(f)
    BY <1>5 DEF MaySend, Others
  <2> QED BY <1>1, <1>4, <1>6, <2>1, BudgetKept
<1> QED BY <1>6, <1>7, <1>8, <1>9, <1>10, <1>11

\* Crashes and restarts: what the process had not sent it never will.
LEMMA ProcessInv ==
  ASSUME IInv, NEW d \in Dispatcher, Crash(d) \/ Restart(d)
  PROVE  IInv'
<1> USE DEF IInv
<1>1. UNCHANGED <<outbox, order, tokenSeq, sent>> /\ faults' \in 0..MaxFaults
  BY FaultTyped DEF Crash, Restart, tableVars
<1>2. /\ LocalsTyped' /\ Others(d) /\ pc'[d] \in {"idle", "down"}
      /\ batch'[d] = {} /\ current'[d] = {} /\ claim'[d] = NoToken
  <2>1. CASE Crash(d)
    BY <2>1 DEF Crash, LocalsTyped, Others, TypeOK, NoToken
  <2>2. CASE Restart(d)
    BY <2>2 DEF Restart, LocalsTyped, Others, TypeOK, LocalShape
  <2> QED BY <2>1, <2>2
<1>3. TypeOK'
  BY <1>1, <1>2 DEF TypeOK, LocalsTyped
<1>4. LocalShape' /\ SentBeforeMark'
  BY <1>1, <1>2 DEF LocalShape, SentBeforeMark, Others
<1>5. TokenState'
  <2>1. \A c \in Dispatcher : claim'[c] = NoToken \/ (c # d /\ claim'[c] = claim[c])
    BY <1>2 DEF Others
  <2>2. \A c \in Dispatcher : claim'[c] <= tokenSeq
    BY <2>1, ClaimBound
  <2> QED BY <1>1, <2>1, <2>2 DEF TokenState
<1>6. PublishedWasSent'
  BY <1>1 DEF PublishedWasSent
<1>7. Budget'
  <2>1. \A e \in Event : MaySend(e)' \subseteq MaySend(e)
    BY <1>2 DEF MaySend, Others
  <2> QED BY <1>1, <1>3, <2>1, BudgetKept
<1> QED BY <1>3, <1>4, <1>5, <1>6, <1>7

\* The invariant is inductive.
LEMMA InvStep ==
  ASSUME IInv, [Next]_vars
  PROVE  IInv'
<1> USE DEF IInv
<1>1. CASE UNCHANGED vars
  <2>1. \A e \in Event : MaySend(e)' = MaySend(e)
    BY <1>1 DEF MaySend, vars, localVars
  <2>2. TypeOK' /\ LocalShape' /\ TokenState' /\ SentBeforeMark' /\ PublishedWasSent'
    BY <1>1 DEF vars, tableVars, localVars, TypeOK, LocalShape, TokenState, SentBeforeMark,
       PublishedWasSent
  <2>3. Budget'
    BY <1>1, <2>1, <2>2, BudgetKept DEF vars, tableVars
  <2> QED BY <2>2, <2>3
<1>2. ASSUME NEW e \in Event, CreateEvent(e) \/ AbandonedLease(e) \/ SlowLease(e)
      PROVE  IInv'
  <2>1. outbox[e] \in EventRow /\ Append(order, e) \in Seq(Event)
    BY AppendProperties DEF TypeOK
  <2>2. CASE CreateEvent(e)
    <3> DEFINE row == [outbox[e] EXCEPT !.status = "pending"]
    <3>1. row \in EventRow /\ row.attempts = outbox[e].attempts /\ row.token = outbox[e].token
          /\ row.status = "pending"
      BY <2>1 DEF EventRow, Status
    <3>2. /\ outbox[e].status = "absent" /\ outbox' = [outbox EXCEPT ![e] = row]
          /\ UNCHANGED <<tokenSeq, sent, localVars>> /\ order' \in Seq(Event)
          /\ faults' \in 0..MaxFaults
      BY <2>1, <2>2, FaultTyped DEF CreateEvent, TypeOK
    <3> HIDE DEF row
    <3> QED BY <3>1, <3>2, BackgroundInv
  <2>3. CASE AbandonedLease(e) \/ SlowLease(e)
    <3> DEFINE row == [outbox[e] EXCEPT !.expired = TRUE]
    <3>1. row \in EventRow /\ row.attempts = outbox[e].attempts /\ row.token = outbox[e].token
          /\ row.status = outbox[e].status
      BY <2>1 DEF EventRow
    <3>2. /\ outbox' = [outbox EXCEPT ![e] = row]
          /\ UNCHANGED <<tokenSeq, sent, localVars>> /\ order' \in Seq(Event)
          /\ faults' \in 0..MaxFaults
      BY <2>3, FaultTyped DEF AbandonedLease, SlowLease, LeaseExpires, TypeOK
    <3> HIDE DEF row
    <3> QED BY <3>1, <3>2, BackgroundInv
  <2> QED BY <1>2, <2>2, <2>3
<1> QED
  BY <1>1, <1>2, ClaimInv, PublishInv, MarkInv, ProcessInv DEF Next, Dispatch

\* The inductive invariant holds of every reachable state of the outbox.
THEOREM Invariance == Spec => []IInv
  BY InvInit, InvStep, PTL DEF Spec

-----------------------------------------------------------------------------
(* The properties.                                                         *)

\* An event that is marked published has been put on the queue.
THEOREM PublishedEventsWereSent == Spec => []PublishedWasSent
  BY Invariance, PTL DEF IInv

\* What was sent is within the attempts.
LEMMA SendsWithin ==
  ASSUME IInv
  PROVE  \A e \in Event : sent[e] <= outbox[e].attempts
<1> SUFFICES ASSUME NEW e \in Event
             PROVE  sent[e] <= outbox[e].attempts
  OBVIOUS
<1>1. /\ Cardinality(MaySend(e)) \in Nat /\ sent[e] \in Nat /\ outbox[e].attempts \in Nat
      /\ sent[e] + Cardinality(MaySend(e)) <= outbox[e].attempts
  BY FS_CardinalityType DEF IInv, Budget, TypeOK, EventRow
<1> QED BY <1>1

\* An event is sent at most once for each time it was claimed.
THEOREM SendsAreClaimed == Spec => [](\A e \in Event : sent[e] <= outbox[e].attempts)
  BY SendsWithin, Invariance, PTL

\* No two dispatchers are at the same event under a claim that is still good;
\* and the variables keep their types.
THEOREM EventsHaveOneOwner == Spec => []OneOwner
<1>1. IInv => OneOwner
  BY DEF IInv, OneOwner, TokenState, OwnsEvent
<1> QED BY <1>1, Invariance, PTL

\* The row of an event is as it was.
RowStays(e) == outbox'[e] = outbox[e]

\* The steps that change a row: who takes them, and from which status.
LEMMA RowSteps ==
  ASSUME IInv, [Next]_vars, NEW e \in Event, ~RowStays(e)
  PROVE  \/ outbox[e].status = "absent" /\ outbox'[e].token = outbox[e].token
         \/ outbox[e].status = "publishing" /\ outbox'[e].token = outbox[e].token
         \/ e \in Claimable
         \/ \E d \in Dispatcher : /\ e \in current[d] /\ OwnsEvent(e, claim[d])
                                 /\ pc'[d] # pc[d]
<1> USE DEF IInv, RowStays
<1>1. TypeOK /\ outbox \in [Event -> EventRow]
  BY DEF TypeOK
<1>2. ~UNCHANGED outbox
  OBVIOUS
<1>3. ASSUME NEW f \in Event, CreateEvent(f)
      PROVE  outbox[e].status = "absent" /\ outbox'[e].token = outbox[e].token
  BY <1>1, <1>3 DEF CreateEvent, EventRow
<1>4. ASSUME NEW f \in Event, AbandonedLease(f) \/ SlowLease(f)
      PROVE  outbox[e].status = "publishing" /\ outbox'[e].token = outbox[e].token
  BY <1>1, <1>4 DEF AbandonedLease, SlowLease, LeaseExpires, EventRow
<1>5. ASSUME NEW d \in Dispatcher, ClaimBatch(d)
      PROVE  e \in Claimable
  BY <1>5, OldestFrom DEF ClaimBatch
<1>6. ASSUME NEW d \in Dispatcher, MarkPublished(d) \/ MarkPublishedRaises(d) \/ MarkFailed(d)
      PROVE  e \in current[d] /\ OwnsEvent(e, claim[d]) /\ pc'[d] # pc[d]
  <2>1. \E f \in current[d], s \in Status : MarkEvent(f, claim[d], s)
    BY <1>2, <1>6 DEF MarkPublished, MarkPublishedRaises, MarkFailed, Status
  <2>2. e \in current[d] /\ OwnsEvent(e, claim[d])
    BY <1>1, <2>1, MarkEffect DEF TypeOK
  <2>3. pc'[d] # pc[d]
    BY <1>1, <1>6 DEF MarkPublished, MarkPublishedRaises, MarkFailed, NextEvent, TypeOK
  <2> QED BY <2>2, <2>3
<1>7. ASSUME NEW d \in Dispatcher, Publish(d) \/ PublishRaises(d) \/ Crash(d) \/ Restart(d)
      PROVE  FALSE
  BY <1>2, <1>7 DEF Publish, PublishRaises, Crash, Restart, tableVars
<1>8. ~UNCHANGED vars
  BY <1>2 DEF vars, tableVars
<1> QED
  BY <1>3, <1>4, <1>5, <1>6, <1>7, <1>8 DEF Next, Dispatch

\* A published event never changes again.
THEOREM PublishedStays == Spec => PublishedIsFinal
<1>1. IInv /\ [Next]_vars
      => [\A e \in Event : outbox[e].status = "published" => outbox'[e] = outbox[e]]_vars
  BY RowSteps DEF RowStays, Claimable, OwnsEvent
<1> QED BY <1>1, Invariance, PTL DEF Spec, PublishedIsFinal

\* While its lease runs, the claim of an event is ended only by the dispatcher
\* that holds it, in the step that marks the event.
THEOREM ClaimsEndByOwner == Spec => ClaimEndsByOwner
<1>1. ASSUME IInv, [Next]_vars, NEW e \in Event,
             outbox[e].status = "publishing", ~outbox[e].expired,
             outbox'[e].token # outbox[e].token
      PROVE  \E d \in Dispatcher : /\ e \in current[d] /\ claim[d] = outbox[e].token
                                   /\ pc'[d] # pc[d]
  <2>1. ~RowStays(e) /\ e \notin Claimable
    BY <1>1 DEF RowStays, Claimable
  <2> QED BY <1>1, <2>1, RowSteps DEF OwnsEvent
<1>2. IInv /\ [Next]_vars
      => [\A e \in Event :
            /\ outbox[e].status = "publishing" /\ ~outbox[e].expired
            /\ outbox'[e].token # outbox[e].token
            => \E d \in Dispatcher : /\ e \in current[d] /\ claim[d] = outbox[e].token
                                     /\ pc'[d] # pc[d]]_vars
  BY <1>1
<1> QED BY <1>2, Invariance, PTL DEF Spec, ClaimEndsByOwner

-----------------------------------------------------------------------------
(* Claims and faults.                                                      *)

\* Each claim of an event after the first is owed to a fault, and one may be
\* claimed again only when that fault has been.
OwedFor(e) ==
    LET row == outbox[e] IN
    /\ row.attempts <= 1 + faults
    /\ row.status \in {"absent", "pending"} => row.attempts = 0
    /\ row.status = "failed" => row.attempts <= faults
    /\ row.status = "publishing" /\ (row.expired \/ ~Attended(e)) => row.attempts <= faults
    /\ \A d \in Dispatcher :
          pc[d] = "failing" /\ e \in current[d] /\ OwnsEvent(e, claim[d]) => row.attempts <= faults

ClaimsOwed == \A e \in Event : OwedFor(e)

\* A fault pays for the next claim of every event.
LEMMA FaultPays ==
  ASSUME TypeOK, ClaimsOwed, Fault,
         \A e \in Event : /\ outbox'[e].attempts = outbox[e].attempts
                          /\ outbox'[e].status \in {"absent", "pending"} =>
                                outbox[e].status = outbox'[e].status
  PROVE  ClaimsOwed'
<1>1. faults' = faults + 1 /\ faults \in Nat
  BY OutboxAssumption DEF TypeOK, Fault
<1>2. \A e \in Event : /\ outbox[e].attempts \in Nat /\ outbox[e].attempts <= 1 + faults
                       /\ outbox[e].status \in {"absent", "pending"} => outbox[e].attempts = 0
  BY DEF TypeOK, EventRow, ClaimsOwed, OwedFor
<1>3. \A e \in Event : OwedFor(e)'
  BY <1>1, <1>2 DEF OwedFor
<1> QED BY <1>3 DEF ClaimsOwed

\* What an event is owed stays while its row does and its dispatcher is busy.
LEMMA RowOwed ==
  ASSUME TypeOK, NEW e \in Event, OwedFor(e), RowStays(e), UNCHANGED faults,
         Attended(e) /\ outbox[e].status = "publishing" => Attended(e)',
         \A d \in Dispatcher : pc'[d] = "failing" /\ e \in current'[d] =>
             pc[d] = "failing" /\ e \in current[d] /\ claim'[d] = claim[d]
  PROVE  OwedFor(e)'
  BY DEF OwedFor, RowStays, OwnsEvent

\* claim_outbox_events claims events that are new or owed a claim.
LEMMA ClaimOwed ==
  ASSUME IInv, IInv', ClaimsOwed, NEW d \in Dispatcher, ClaimBatch(d)
  PROVE  ClaimsOwed'
<1>1. PICK claimed \in SUBSET Claimable :
         /\ outbox' = [e \in Event |->
                          IF e \in claimed
                          THEN [status |-> "publishing", attempts |-> outbox[e].attempts + 1,
                                token |-> FreshToken, expired |-> FALSE]
                          ELSE outbox[e]]
         /\ batch' = [batch EXCEPT ![d] = claimed]
  <2>1. PICK skipped \in SUBSET (Claimable \cap MayBeLocked(d)) :
           LET claimed == Oldest(Claimable \ skipped, Limit) IN
           /\ claimed # {}
           /\ outbox' = [e \in Event |->
                            IF e \in claimed
                            THEN [status |-> "publishing", attempts |-> outbox[e].attempts + 1,
                                  token |-> FreshToken, expired |-> FALSE]
                            ELSE outbox[e]]
           /\ batch' = [batch EXCEPT ![d] = claimed]
    BY DEF ClaimBatch
  <2>2. Oldest(Claimable \ skipped, Limit) \in SUBSET Claimable
    BY OldestFrom
  <2> QED BY <2>1, <2>2
<1>2. /\ pc[d] = "idle" /\ batch[d] = {} /\ UNCHANGED <<current, faults>>
      /\ claim' = [claim EXCEPT ![d] = FreshToken] /\ pc' = [pc EXCEPT ![d] = "sending"]
  BY DEF ClaimBatch, IInv, LocalShape
<1>3. TypeOK /\ faults \in Nat /\ FreshToken = tokenSeq + 1 /\ tokenSeq \in Nat
  BY OutboxAssumption DEF IInv, TypeOK, FreshToken
<1>4. /\ pc'[d] = "sending" /\ batch'[d] = claimed /\ claim'[d] = FreshToken
      /\ \A c \in Dispatcher \ {d} : /\ pc'[c] = pc[c] /\ batch'[c] = batch[c]
                                     /\ claim'[c] = claim[c] /\ claim[c] <= tokenSeq
                                     /\ claim[c] \in Nat
  BY <1>1, <1>2, <1>3, ClaimBound DEF IInv, TypeOK
<1>5. ASSUME NEW e \in claimed
      PROVE  OwedFor(e)'
  <2>1. /\ e \in Event /\ outbox[e].attempts \in Nat /\ outbox[e].attempts <= faults
        /\ outbox'[e].attempts = outbox[e].attempts + 1
        /\ outbox'[e].status = "publishing" /\ outbox'[e].token = FreshToken /\ ~outbox'[e].expired
    <3>1. e \in Event /\ e \in Claimable
      BY DEF Claimable
    <3>2. outbox'[e] = [status |-> "publishing", attempts |-> outbox[e].attempts + 1,
                        token |-> FreshToken, expired |-> FALSE]
      BY <1>1, <3>1
    <3>3. outbox[e].attempts \in Nat
      BY <1>3, <3>1 DEF TypeOK, EventRow
    <3>4. outbox[e].attempts <= faults
      BY <1>3, <3>1, <3>3 DEF Claimable, ClaimsOwed, OwedFor
    <3> QED BY <3>1, <3>2, <3>3, <3>4
  <2>2. Attended(e)'
    BY <1>4, <2>1 DEF Attended, OwnsEvent
  <2>3. \A c \in Dispatcher : pc'[c] = "failing" => claim'[c] # outbox'[e].token
    BY <1>3, <1>4, <2>1
  <2> QED BY <1>2, <1>3, <2>1, <2>2, <2>3 DEF OwedFor, OwnsEvent
<1>6. ASSUME NEW e \in Event \ claimed
      PROVE  OwedFor(e)'
  <2>1. RowStays(e)
    BY <1>1 DEF RowStays
  <2>2. Attended(e) => Attended(e)'
    BY <1>2, <1>4, <2>1 DEF Attended, OwnsEvent, RowStays
  <2>3. \A c \in Dispatcher : pc'[c] = "failing" /\ e \in current'[c] =>
            pc[c] = "failing" /\ e \in current[c] /\ claim'[c] = claim[c]
    BY <1>2, <1>4
  <2> QED BY <1>2, <1>3, <2>1, <2>2, <2>3, RowOwed DEF ClaimsOwed
<1>7. claimed \subseteq Event
  BY DEF Claimable
<1> QED BY <1>5, <1>6, <1>7 DEF ClaimsOwed

\* A mark that does not raise: an event is marked failed after a fault, and one
\* whose mark finds the claim gone is somebody else's.
LEMMA MarkOwed ==
  ASSUME IInv, IInv', ClaimsOwed, NEW d \in Dispatcher, MarkPublished(d) \/ MarkFailed(d)
  PROVE  ClaimsOwed'
<1>1. /\ pc[d] \in {"marking", "failing"} /\ NextEvent(d) /\ UNCHANGED faults
      /\ TypeOK /\ faults \in Nat
  BY OutboxAssumption DEF MarkPublished, MarkFailed, IInv, TypeOK
<1>2. PICK e \in current[d], s \in {"published", "failed"} :
         /\ MarkEvent(e, claim[d], s)
         /\ s = "failed" => pc[d] = "failing"
  BY DEF MarkPublished, MarkFailed
<1>3. e \in Event /\ claim[d] \in Nat /\ s \in Status /\ current[d] = {e}
  BY <1>1 DEF IInv, TypeOK, Status, LocalShape
<1>4. \A f \in Event : /\ outbox'[f].attempts = outbox[f].attempts
                       /\ \/ RowStays(f)
                          \/ f = e /\ OwnsEvent(e, claim[d]) /\ outbox'[f].status = s
  BY <1>1, <1>2, <1>3, MarkEffect DEF RowStays
<1>5. /\ Others(d) /\ batch'[d] = batch[d] \ {e} /\ pc'[d] \in {"idle", "sending"}
      /\ batch'[d] # {} => claim'[d] = claim[d]
  BY <1>1, <1>3, NextEventEffect
<1>6. ASSUME NEW f \in Event, ~RowStays(f)
      PROVE  OwedFor(f)'
  <2>1. /\ f = e /\ OwnsEvent(e, claim[d]) /\ outbox'[f].status = s
        /\ outbox'[f].attempts = outbox[f].attempts
    BY <1>4, <1>6
  <2>2. /\ outbox[f].attempts <= 1 + faults
        /\ s = "failed" => outbox[f].attempts <= faults
    BY <1>2, <1>3, <2>1 DEF ClaimsOwed, OwedFor
  <2> QED BY <1>1, <2>1, <2>2 DEF OwedFor, OwnsEvent
<1>7. ASSUME NEW f \in Event, RowStays(f)
      PROVE  OwedFor(f)'
  <2>1. ASSUME Attended(f), outbox[f].status = "publishing"
        PROVE  Attended(f)'
    <3>1. PICK c \in Dispatcher : f \in batch[c] /\ OwnsEvent(f, claim[c])
      BY <2>1 DEF Attended
    <3>2. CASE c # d
      BY <1>5, <1>7, <3>1, <3>2 DEF Attended, OwnsEvent, Others, RowStays
    <3>3. CASE c = d
      <4>1. f # e
        <5>1. CASE f = e
          <6>1. outbox' = [outbox EXCEPT ![e] = [@ EXCEPT !.status = s, !.token = NoToken,
                                                           !.expired = FALSE]]
            BY <1>2, <3>1, <3>3, <5>1 DEF MarkEvent
          <6>2. outbox'[e].status = s
            BY <1>1, <1>3, <6>1 DEF TypeOK, EventRow
          <6> QED BY <1>7, <2>1, <5>1, <6>2 DEF RowStays
        <5> QED BY <5>1
      <4>2. f \in batch'[d] /\ claim'[d] = claim[d]
        BY <1>5, <3>1, <3>3, <4>1
      <4> QED BY <1>7, <3>1, <3>3, <4>2 DEF Attended, OwnsEvent, RowStays
    <3> QED BY <3>2, <3>3
  <2>2. \A c \in Dispatcher : pc'[c] = "failing" /\ f \in current'[c] =>
            pc[c] = "failing" /\ f \in current[c] /\ claim'[c] = claim[c]
    BY <1>5 DEF Others
  <2> QED BY <1>1, <1>7, <2>1, <2>2, RowOwed DEF ClaimsOwed
<1> QED BY <1>6, <1>7 DEF ClaimsOwed

\* An event is created, or the lease of an event nobody is busy with ends.
LEMMA BackgroundOwed ==
  ASSUME IInv, ClaimsOwed, NEW e \in Event, CreateEvent(e) \/ AbandonedLease(e)
  PROVE  ClaimsOwed'
<1>1. /\ UNCHANGED <<pc, batch, current, claim, faults>>
      /\ TypeOK /\ faults \in Nat /\ outbox[e] \in EventRow
  BY OutboxAssumption DEF IInv, TypeOK, CreateEvent, AbandonedLease, LeaseExpires, localVars
<1>2. /\ outbox'[e].attempts = outbox[e].attempts
      /\ \A f \in Event \ {e} : RowStays(f)
      /\ \/ outbox'[e].status = "pending" /\ outbox[e].attempts = 0
         \/ outbox'[e].status = "publishing" /\ outbox[e].attempts <= faults
  BY <1>1 DEF CreateEvent, AbandonedLease, LeaseExpires, ClaimsOwed, OwedFor, TypeOK, EventRow,
     RowStays
<1>3. OwedFor(e)'
  BY <1>1, <1>2 DEF OwedFor, EventRow
<1>4. ASSUME NEW f \in Event \ {e}
      PROVE  OwedFor(f)'
  <2>1. Attended(f) => Attended(f)'
    BY <1>1, <1>2 DEF Attended, OwnsEvent, RowStays
  <2> QED BY <1>1, <1>2, <2>1, RowOwed DEF ClaimsOwed
<1> QED BY <1>3, <1>4 DEF ClaimsOwed

\* Every step leaves each claim owed to a fault.
LEMMA OwedStep ==
  ASSUME IInv, IInv', ClaimsOwed, [Next]_vars
  PROVE  ClaimsOwed'
<1>1. TypeOK
  BY DEF IInv
<1>2. ASSUME NEW d \in Dispatcher, PublishRaises(d) \/ MarkPublishedRaises(d) \/ Crash(d)
      PROVE  ClaimsOwed'
  <2>1. Fault
    BY <1>2 DEF PublishRaises, MarkPublishedRaises, Crash
  <2>2. UNCHANGED outbox \/ \E e \in current[d] : MarkEvent(e, claim[d], "published")
    BY <1>2 DEF PublishRaises, MarkPublishedRaises, Crash, tableVars
  <2>3. \A f \in Event : /\ outbox'[f].attempts = outbox[f].attempts
                         /\ outbox'[f] = outbox[f] \/ outbox'[f].status = "published"
    BY <1>1, <2>2, MarkEffect DEF TypeOK, Status
  <2> QED BY <1>1, <2>1, <2>3, FaultPays
<1>3. ASSUME NEW e \in Event, SlowLease(e)
      PROVE  ClaimsOwed'
  <2>1. /\ Fault
        /\ \A f \in Event : /\ outbox'[f].attempts = outbox[f].attempts
                            /\ outbox'[f].status = outbox[f].status
    BY <1>1, <1>3 DEF SlowLease, LeaseExpires, TypeOK
  <2> QED BY <1>1, <2>1, FaultPays
<1>4. ASSUME UNCHANGED <<outbox, faults>>,
             \A d \in Dispatcher : /\ batch'[d] = batch[d] /\ claim'[d] = claim[d]
                                   /\ pc'[d] = "failing" => pc[d] = "failing" /\ current'[d] = current[d]
      PROVE  ClaimsOwed'
  <2>1. \A e \in Event : Attended(e) => Attended(e)'
    BY <1>4 DEF Attended, OwnsEvent
  <2> QED BY <1>1, <1>4, <2>1, RowOwed DEF ClaimsOwed, RowStays
<1>5. ASSUME NEW d \in Dispatcher, Publish(d) \/ Restart(d)
      PROVE  ClaimsOwed'
  <2>1. /\ UNCHANGED <<outbox, faults, batch, claim>>
        /\ \A c \in Dispatcher : pc'[c] = "failing" => pc[c] = "failing" /\ current'[c] = current[c]
    BY <1>1, <1>5 DEF Publish, Restart, tableVars, TypeOK
  <2> QED BY <1>4, <2>1
<1>6. CASE UNCHANGED vars
  BY <1>4, <1>6 DEF vars, tableVars, localVars
<1> QED
  BY <1>2, <1>3, <1>5, <1>6, BackgroundOwed, ClaimOwed, MarkOwed DEF Next, Dispatch

\* Before the first claim nothing is owed.
LEMMA OwedInit == Init => ClaimsOwed
  BY OutboxAssumption DEF Init, ClaimsOwed, OwedFor

\* Sends are within the claims, and claims within the faults.
LEMMA OwedSends ==
  ASSUME IInv, ClaimsOwed
  PROVE  \A e \in Event : sent[e] <= 1 + faults
<1>1. \A e \in Event : sent[e] \in Nat /\ outbox[e].attempts \in Nat /\ sent[e] <= outbox[e].attempts
  BY SendsWithin DEF IInv, TypeOK, EventRow
<1>2. \A e \in Event : outbox[e].attempts <= 1 + faults
  BY DEF ClaimsOwed, OwedFor
<1>3. faults \in Nat
  BY OutboxAssumption DEF IInv, TypeOK
<1> QED BY <1>1, <1>2, <1>3

\* An event is sent once, and once more for each fault at most, whichever
\* dispatchers claim it again (claim_outbox_events, dispatch_outbox).
THEOREM SendsAreOwed == Spec => [](\A e \in Event : sent[e] <= 1 + faults)
<1>1. IInv /\ ClaimsOwed => \A e \in Event : sent[e] <= 1 + faults
  BY OwedSends
<1>2. IInv /\ ClaimsOwed /\ [Next]_vars => IInv' /\ ClaimsOwed'
  BY InvStep, OwedStep
<1> QED BY InvInit, OwedInit, <1>1, <1>2, PTL DEF Spec

-----------------------------------------------------------------------------
(* What the other side sees of the outbox: new events and sends.           *)

\* The steps of the dispatchers and the clock: all but the API's.
Later ==
    \/ \E e \in Event : AbandonedLease(e) \/ SlowLease(e)
    \/ \E d \in Dispatcher : Dispatch(d) \/ Crash(d) \/ Restart(d)

\* The row of an event appears in no step but the API's transaction, and never
\* goes away.
LEMMA EventsKept ==
  ASSUME IInv, Later, NEW e \in Event
  PROVE  outbox'[e].status = "absent" <=> outbox[e].status = "absent"
<1>1. TypeOK /\ outbox \in [Event -> EventRow]
  BY DEF IInv, TypeOK
<1>2. ASSUME NEW f \in Event, AbandonedLease(f) \/ SlowLease(f)
      PROVE  outbox'[e].status = outbox[e].status
  BY <1>1, <1>2 DEF AbandonedLease, SlowLease, LeaseExpires, EventRow
<1>3. ASSUME NEW d \in Dispatcher, ClaimBatch(d)
      PROVE  outbox'[e].status = "absent" <=> outbox[e].status = "absent"
  <2>1. PICK skipped \in SUBSET (Claimable \cap MayBeLocked(d)) :
           LET claimed == Oldest(Claimable \ skipped, Limit) IN
           outbox' = [f \in Event |->
                        IF f \in claimed
                        THEN [status |-> "publishing", attempts |-> outbox[f].attempts + 1,
                              token |-> FreshToken, expired |-> FALSE]
                        ELSE outbox[f]]
    BY <1>3 DEF ClaimBatch
  <2>2. \/ outbox'[e] = outbox[e]
        \/ /\ e \in Oldest(Claimable \ skipped, Limit)
           /\ outbox'[e] = [status |-> "publishing", attempts |-> outbox[e].attempts + 1,
                            token |-> FreshToken, expired |-> FALSE]
    BY <2>1
  <2>3. \/ outbox'[e] = outbox[e]
        \/ e \in Claimable /\ outbox'[e].status = "publishing"
    BY <2>2, OldestFrom
  <2> QED BY <2>3 DEF Claimable
<1>4. ASSUME NEW d \in Dispatcher, MarkPublished(d) \/ MarkPublishedRaises(d) \/ MarkFailed(d)
      PROVE  outbox'[e].status = "absent" <=> outbox[e].status = "absent"
  <2>1. UNCHANGED outbox \/ \E f \in current[d], s \in {"published", "failed"} : MarkEvent(f, claim[d], s)
    BY <1>4 DEF MarkPublished, MarkPublishedRaises, MarkFailed
  <2>2. \/ outbox'[e] = outbox[e]
        \/ OwnsEvent(e, claim[d]) /\ outbox'[e].status \in {"published", "failed"}
    BY <1>1, <2>1, MarkEffect DEF TypeOK, Status
  <2> QED BY <2>2 DEF OwnsEvent
<1>5. ASSUME NEW d \in Dispatcher, Publish(d) \/ PublishRaises(d) \/ Crash(d) \/ Restart(d)
      PROVE  UNCHANGED outbox
  BY <1>5 DEF Publish, PublishRaises, Crash, Restart, tableVars
<1> QED
  BY <1>2, <1>3, <1>4, <1>5 DEF Later, Dispatch

\* A step puts at most one message on the queue.
LEMMA OneSend ==
  ASSUME IInv, [Next]_vars
  PROVE  \/ UNCHANGED sent
         \/ \E e \in Event : sent' = [sent EXCEPT ![e] = @ + 1]
<1>1. TypeOK /\ \A d \in Dispatcher : batch[d] \subseteq Event
  BY DEF IInv, TypeOK
<1>2. ASSUME NEW d \in Dispatcher, Publish(d) \/ PublishRaises(d), ~UNCHANGED sent
      PROVE  \E e \in Event : sent' = [sent EXCEPT ![e] = @ + 1]
  BY <1>1, <1>2 DEF Publish, PublishRaises
<1>3. ASSUME NEW d \in Dispatcher, ClaimBatch(d) \/ MarkPublished(d) \/ MarkPublishedRaises(d)
                                   \/ MarkFailed(d) \/ Crash(d) \/ Restart(d)
      PROVE  UNCHANGED sent
  BY <1>3 DEF ClaimBatch, MarkPublished, MarkPublishedRaises, MarkFailed, Crash, Restart
<1>4. ASSUME NEW e \in Event, CreateEvent(e) \/ AbandonedLease(e) \/ SlowLease(e)
      PROVE  UNCHANGED sent
  BY <1>4 DEF CreateEvent, AbandonedLease, SlowLease, LeaseExpires
<1> QED BY <1>2, <1>3, <1>4 DEF Next, Dispatch, vars

-----------------------------------------------------------------------------
(* The refinement of EventDelivery.                                        *)

\* The mapped variable, as Outbox's Delivery defines it.
PromiseOf(e) == CASE outbox[e].status = "absent"    -> "none"
                  [] outbox[e].status = "published" -> "kept"
                  [] OTHER                          -> "owed"

Promise == [e \in Event |-> PromiseOf(e)]

\* The actions of the abstract specification, read on the mapped variables.
LEMMA MappedActions ==
  /\ \A e : /\ Promise[e] = "none"
            /\ Promise' = [Promise EXCEPT ![e] = "owed"]
            /\ UNCHANGED <<sent, faults>>
            => Delivery!Accept(e)
  /\ \A e : /\ Promise[e] # "none" /\ sent[e] < 1 + faults
            /\ sent' = [sent EXCEPT ![e] = @ + 1]
            /\ faults' \in {faults, faults + 1}
            /\ Promise' = Promise
            => Delivery!Send(e)
  /\ \A e : /\ Promise[e] = "owed" /\ sent[e] > 0
            /\ Promise' = [Promise EXCEPT ![e] = "kept"]
            /\ faults' \in {faults, faults + 1}
            /\ UNCHANGED sent
            => Delivery!Keep(e)
  /\ faults' = faults + 1 /\ Promise' = Promise /\ UNCHANGED sent => Delivery!Mishap
  /\ Promise' = Promise /\ UNCHANGED <<sent, faults>> => UNCHANGED Delivery!deliveryVars
  BY DEF Promise, PromiseOf, Delivery!Accept, Delivery!Send, Delivery!Keep, Delivery!Mishap,
     Delivery!PerhapsMishap, Delivery!deliveryVars

\* A step that keeps what each status means keeps the promises.
LEMMA PromisesKept ==
  ASSUME \A e \in Event : PromiseOf(e)' = PromiseOf(e)
  PROVE  Promise' = Promise
  BY DEF Promise

\* A mark keeps the promise of its event, or changes none.
LEMMA MarkRefines ==
  ASSUME IInv, NEW d \in Dispatcher, NEW e \in Event, NEW s \in {"published", "failed"},
         MarkEvent(e, claim[d], s)
  PROVE  \/ Promise' = Promise
         \/ /\ s = "published" /\ Promise[e] = "owed"
            /\ Promise' = [Promise EXCEPT ![e] = "kept"]
<1>1. TypeOK /\ claim[d] \in Nat
  BY DEF IInv, TypeOK
<1>2. \A f \in Event : \/ outbox'[f] = outbox[f]
                       \/ f = e /\ OwnsEvent(e, claim[d]) /\ outbox'[f].status = s
  BY <1>1, MarkEffect DEF Status
<1>3. \A f \in Event \ {e} : PromiseOf(f)' = PromiseOf(f)
  BY <1>2 DEF PromiseOf
<1>4. CASE outbox'[e] = outbox[e]
  BY <1>3, <1>4, PromisesKept DEF PromiseOf
<1>5. CASE OwnsEvent(e, claim[d]) /\ outbox'[e].status = s
  <2>1. PromiseOf(e) = "owed" /\ PromiseOf(e)' = IF s = "published" THEN "kept" ELSE "owed"
    BY <1>5 DEF OwnsEvent, PromiseOf
  <2> QED BY <1>3, <2>1, PromisesKept DEF Promise
<1> QED BY <1>2, <1>4, <1>5

\* What is about to be sent is owed or was kept, and may be sent once more.
LEMMA MaySendMore ==
  ASSUME IInv, ClaimsOwed, NEW d \in Dispatcher, NEW e \in batch[d], pc[d] = "sending"
  PROVE  e \in Event /\ outbox[e].status # "absent" /\ sent[e] < 1 + faults
<1>1. /\ e \in Event /\ d \in MaySend(e)
      /\ sent[e] \in Nat /\ outbox[e].attempts \in Nat /\ faults \in Nat
  BY OutboxAssumption DEF IInv, TypeOK, EventRow, LocalShape, MaySend
<1>2. /\ IsFiniteSet(MaySend(e))
      /\ sent[e] + Cardinality(MaySend(e)) <= outbox[e].attempts
  BY <1>1 DEF IInv, Budget
<1>3. Cardinality(MaySend(e)) \in Nat /\ Cardinality(MaySend(e)) # 0
  BY <1>1, <1>2, FS_CardinalityType, FS_EmptySet
<1>4. /\ outbox[e].attempts <= 1 + faults
      /\ outbox[e].status = "absent" => outbox[e].attempts = 0
  BY <1>1 DEF ClaimsOwed, OwedFor
<1> QED BY <1>1, <1>2, <1>3, <1>4

\* Every step of the outbox is a step of EventDelivery, or none.
LEMMA DeliveryStep ==
  ASSUME IInv, ClaimsOwed, [Next]_vars
  PROVE  [Delivery!Next]_Delivery!deliveryVars
<1>1. /\ TypeOK /\ outbox \in [Event -> EventRow] /\ sent \in [Event -> Nat]
      /\ \A d \in Dispatcher : batch[d] \subseteq Event /\ current[d] \subseteq Event
  BY DEF IInv, TypeOK
<1>2. ASSUME NEW e \in Event, CreateEvent(e)
      PROVE  Delivery!Accept(e)
  <2>1. /\ PromiseOf(e) = "none" /\ PromiseOf(e)' = "owed"
        /\ \A f \in Event \ {e} : PromiseOf(f)' = PromiseOf(f)
    BY <1>1, <1>2 DEF CreateEvent, PromiseOf, EventRow
  <2>2. Promise[e] = "none" /\ Promise' = [Promise EXCEPT ![e] = "owed"]
    BY <2>1 DEF Promise
  <2> QED BY <1>2, <2>2, MappedActions DEF CreateEvent
<1>3. ASSUME NEW e \in Event, LeaseExpires(e)
      PROVE  Promise' = Promise /\ UNCHANGED sent
  <2>1. \A f \in Event : outbox'[f].status = outbox[f].status
    BY <1>1, <1>3 DEF LeaseExpires, EventRow
  <2> QED BY <1>3, <2>1, PromisesKept DEF LeaseExpires, PromiseOf
<1>4. ASSUME NEW d \in Dispatcher, ClaimBatch(d)
      PROVE  Promise' = Promise /\ UNCHANGED <<sent, faults>>
  <2>1. ASSUME NEW e \in Event
        PROVE  \/ outbox'[e] = outbox[e]
               \/ e \in Claimable /\ outbox'[e].status = "publishing"
    <3>1. PICK skipped \in SUBSET (Claimable \cap MayBeLocked(d)) :
             LET claimed == Oldest(Claimable \ skipped, Limit) IN
             outbox' = [f \in Event |->
                          IF f \in claimed
                          THEN [status |-> "publishing", attempts |-> outbox[f].attempts + 1,
                                token |-> FreshToken, expired |-> FALSE]
                          ELSE outbox[f]]
      BY <1>4 DEF ClaimBatch
    <3>2. \/ outbox'[e] = outbox[e]
          \/ /\ e \in Oldest(Claimable \ skipped, Limit)
             /\ outbox'[e] = [status |-> "publishing", attempts |-> outbox[e].attempts + 1,
                              token |-> FreshToken, expired |-> FALSE]
      BY <3>1
    <3> QED BY <3>2, OldestFrom
  <2>2. \A e \in Event : PromiseOf(e)' = PromiseOf(e)
    BY <2>1 DEF Claimable, PromiseOf
  <2> QED BY <1>4, <2>2, PromisesKept DEF ClaimBatch
<1>5. ASSUME NEW d \in Dispatcher, Publish(d) \/ PublishRaises(d)
      PROVE  Delivery!Mishap \/ \E e \in Event : Delivery!Send(e)
  <2>1. Promise' = Promise
    BY <1>5 DEF Publish, PublishRaises, tableVars, Promise, PromiseOf
  <2>2. PICK e \in batch[d] :
           /\ pc[d] = "sending"
           /\ \/ sent' = [sent EXCEPT ![e] = @ + 1] /\ faults' \in {faults, faults + 1}
              \/ UNCHANGED sent /\ faults' = faults + 1
    BY <1>5 DEF Publish, PublishRaises, Fault
  <2>3. Promise[e] # "none" /\ sent[e] < 1 + faults /\ e \in Event
    BY <2>2, MaySendMore DEF Promise, PromiseOf
  <2> QED BY <2>1, <2>2, <2>3, MappedActions
<1>6. ASSUME NEW d \in Dispatcher, MarkPublished(d) \/ MarkPublishedRaises(d) \/ MarkFailed(d)
      PROVE  \/ Promise' = Promise /\ UNCHANGED sent /\ faults' \in {faults, faults + 1}
             \/ \E e \in Event : Delivery!Keep(e)
  <2>1. UNCHANGED sent /\ faults' \in {faults, faults + 1}
    BY <1>6 DEF MarkPublished, MarkPublishedRaises, MarkFailed, Fault
  <2>2. CASE UNCHANGED outbox
    BY <2>1, <2>2, PromisesKept DEF PromiseOf
  <2>3. ASSUME NEW e \in current[d], NEW s \in {"published", "failed"},
               MarkEvent(e, claim[d], s), s = "published" => pc[d] = "marking"
        PROVE  \/ Promise' = Promise
               \/ \E f \in Event : Delivery!Keep(f)
    <3>1. s = "published" => sent[e] > 0
      BY <2>3 DEF IInv, SentBeforeMark
    <3> QED BY <1>1, <2>1, <2>3, <3>1, MarkRefines, MappedActions
  <2> QED BY <1>6, <2>1, <2>2, <2>3 DEF MarkPublished, MarkPublishedRaises, MarkFailed
<1>7. ASSUME NEW d \in Dispatcher, Crash(d) \/ Restart(d)
      PROVE  Promise' = Promise /\ UNCHANGED sent /\ faults' \in {faults, faults + 1}
  BY <1>7, PromisesKept DEF Crash, Restart, Fault, tableVars, PromiseOf
<1>8. CASE UNCHANGED vars
  BY <1>8, MappedActions, PromisesKept DEF vars, tableVars, PromiseOf
<1>9. ASSUME Promise' = Promise, UNCHANGED sent, faults' \in {faults, faults + 1}
      PROVE  Delivery!Mishap \/ UNCHANGED Delivery!deliveryVars
  BY <1>9, MappedActions
<1>10. \A e \in Event : AbandonedLease(e) \/ SlowLease(e)
                       => LeaseExpires(e) /\ faults' \in {faults, faults + 1}
  BY DEF AbandonedLease, SlowLease, Fault
<1> QED
  BY <1>2, <1>3, <1>4, <1>5, <1>6, <1>7, <1>8, <1>9, <1>10 DEF Next, Dispatch, Delivery!Next

\* The outbox implements the promise an event is written under, for any number of
\* dispatchers and faults.
THEOREM OutboxImplementsDelivery == Spec => ImplementsDelivery
<1>1. Init => Delivery!Init
  BY DEF Init, Delivery!Init
<1>2. IInv /\ ClaimsOwed /\ [Next]_vars => IInv' /\ ClaimsOwed'
  BY InvStep, OwedStep
<1>3. IInv /\ ClaimsOwed /\ [Next]_vars => [Delivery!Next]_Delivery!deliveryVars
  BY DeliveryStep
<1> QED
  BY InvInit, OwedInit, <1>1, <1>2, <1>3, PTL DEF Spec, ImplementsDelivery, Delivery!Spec
=============================================================================
