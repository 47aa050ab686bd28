---------------------------- MODULE StartupProofs ----------------------------
(***************************************************************************)
(* Proofs about module Startup, for any parts of a connection string and   *)
(* any of the three kinds of process.                                      *)
(*                                                                         *)
(* What a process has checked, opened and built is told by how far it is   *)
(* in the steps of its role (Progress).  The checks come before everything *)
(* that a builder may refuse later, so what a cloud process checked still  *)
(* holds when its builders look again.                                     *)
(***************************************************************************)
EXTENDS Startup, TLAPS

\* Where the pool is opened.
OpenAt == IF role = "api" THEN 5 ELSE 4

\* What has been done before the process came to where it is.
Progress ==
    /\ at > 2 => ValidRuntime
    /\ wired.database = IF at > 3 THEN DatabaseConninfo ELSE "none"
    /\ wired.publisher \in {"none", PublisherOfRole}
    /\ role = "worker" /\ at > 5 => wired.store = settings.backend
    /\ role = "worker" /\ at > 6 => wired.publisher = PublisherOfRole
    /\ role = "worker" /\ at > 7 /\ IsCloud => wired.consumer = "sqs"

\* The pool is open from its step until the process ends by itself.
PoolState ==
    /\ at <= OpenAt => pool = "none"
    /\ outcome \notin {"none", "killed"} => pool # "open"
    /\ IsCloud /\ outcome = "rejected" => pool = "none"

IInv == TypeOK /\ Progress /\ PoolState

-----------------------------------------------------------------------------
(* The steps of each role.                                                 *)

\* Which step comes where in each role, and how many there are.
LEMMA StepsOfRole ==
    ASSUME TypeOK
    PROVE  /\ role \in {"api", "worker", "migration"}
           /\ Len(Steps[role]) = IF role = "api" THEN 6 ELSE IF role = "worker" THEN 8 ELSE 5
           /\ Step = "settings" <=> at = 1
           /\ Step = "validate" <=> at = 2
           /\ Step = "connect" <=> at = 3
           /\ Step = "open" <=> at = OpenAt
           /\ Step = "store" <=> role = "worker" /\ at = 5
           /\ Step = "publisher" <=> (role = "api" /\ at = 4) \/ (role = "worker" /\ at = 6)
           /\ Step = "consumer" <=> role = "worker" /\ at = 7
           /\ Step = "serve" <=> at = Len(Steps[role])
<1>1. role \in {"api", "worker", "migration"}
  BY StartupAssumption DEF TypeOK
<1>2. CASE role = "api"
  <2>1. Steps[role] = <<"settings", "validate", "connect", "publisher", "open", "serve">>
    BY <1>2 DEF Steps
  <2>2. at \in 1..6 /\ Len(Steps[role]) = 6
    BY <2>1 DEF TypeOK
  <2> QED
    BY <1>2, <2>1, <2>2 DEF Step, OpenAt
<1>3. CASE role = "worker"
  <2>1. Steps[role] = <<"settings", "validate", "connect", "open", "store", "publisher",
                        "consumer", "serve">>
    BY <1>3 DEF Steps
  <2>2. at \in 1..8 /\ Len(Steps[role]) = 8
    BY <2>1 DEF TypeOK
  <2> QED
    BY <1>3, <2>1, <2>2 DEF Step, OpenAt
<1>4. CASE role = "migration"
  <2>1. Steps[role] = <<"settings", "validate", "connect", "open", "serve">>
    BY <1>4 DEF Steps
  <2>2. at \in 1..5 /\ Len(Steps[role]) = 5
    BY <2>1 DEF TypeOK
  <2> QED
    BY <1>4, <2>1, <2>2 DEF Step, OpenAt
<1> QED
  BY <1>1, <1>2, <1>3, <1>4

-----------------------------------------------------------------------------
(* The invariant.                                                          *)

\* What never changes, and the operators that look only at that.
Fixed == UNCHANGED <<role, settings>>

\* What a process finds in its environment stays, and so do the answers of its
\* checks.
LEMMA ChecksStay ==
    ASSUME Fixed
    PROVE  /\ ValidRuntime' = ValidRuntime /\ DatabaseConninfo' = DatabaseConninfo
           /\ PublisherOfRole' = PublisherOfRole /\ IsCloud' = IsCloud /\ OpenAt' = OpenAt
BY DEF Fixed, ValidRuntime, ValidDatabase, ValidQueue, ValidArtifactStore, DatabaseConninfo,
       UsesUrl, PublisherOfRole, IsCloud, OpenAt

\* The invariant holds when a process starts, whatever its environment holds.
LEMMA InvInit == Init => IInv
<1> SUFFICES ASSUME Init PROVE IInv
  OBVIOUS
<1>1. role \in {"api", "worker", "migration"}
  BY StartupAssumption DEF Init
<1>2. 1 \in 1..Len(Steps[role])
  <2>1. CASE role = "api"
    <3>1. Len(Steps[role]) = 6
      BY <2>1 DEF Steps
    <3> QED
      BY <3>1
  <2>2. CASE role = "worker"
    <3>1. Len(Steps[role]) = 8
      BY <2>2 DEF Steps
    <3> QED
      BY <3>1
  <2>3. CASE role = "migration"
    <3>1. Len(Steps[role]) = 5
      BY <2>3 DEF Steps
    <3> QED
      BY <3>1
  <2> QED
    BY <1>1, <2>1, <2>2, <2>3
<1>3. TypeOK
  BY <1>2 DEF Init, TypeOK, Nothing
<1>4. Progress /\ PoolState
  BY DEF Init, Progress, PoolState, Nothing, OpenAt
<1> QED
  BY <1>3, <1>4 DEF IInv

\* A process that ends closes its pool and keeps what it has built; if it was
\* refused in the cloud, it had not opened one.
LEMMA EndInv ==
    ASSUME IInv, Fixed, NEW how \in {"rejected", "raised", "stopped"}, End(how),
           UNCHANGED <<wired, signalled>>, IsCloud /\ how = "rejected" => pool = "none"
    PROVE  IInv'
<1>1. TypeOK'
  BY DEF IInv, TypeOK, End, Fixed
<1>2. Progress'
  BY ChecksStay DEF IInv, Progress, End, Fixed
<1>3. PoolState'
  BY ChecksStay DEF IInv, TypeOK, PoolState, End
<1> QED
  BY <1>1, <1>2, <1>3 DEF IInv

\* A process that goes on is at its next step, which exists.
LEMMA AdvanceTyped ==
    ASSUME IInv, Fixed, Advance, Step # "serve"
    PROVE  at' = at + 1 /\ at' \in 1..Len(Steps[role]') /\ at \in Nat /\ UNCHANGED <<outcome, signalled>>
<1>1. at \in 1..Len(Steps[role]) /\ at # Len(Steps[role]) /\ Len(Steps[role]) \in Nat
  BY StepsOfRole DEF IInv, TypeOK
<1> QED
  BY <1>1 DEF Advance, Fixed

\* Reading and checking the settings keeps the invariant.
LEMMA CheckInv ==
    ASSUME IInv, GetSettings \/ Validate
    PROVE  IInv'
<1>1. Fixed /\ Step \in {"settings", "validate"} /\ at \in {1, 2}
  BY StepsOfRole DEF IInv, GetSettings, Validate, Doing, Fixed
<1>2. pool = "none"
  BY <1>1 DEF IInv, PoolState, OpenAt
<1>3. CASE Reject
  BY <1>1, <1>2, <1>3, EndInv DEF Reject
<1>4. CASE Proceed /\ (Step = "validate" => ValidRuntime)
  <2>1. /\ at' = at + 1 /\ at' \in 1..Len(Steps[role]')
        /\ UNCHANGED <<outcome, signalled, pool, wired>>
    BY <1>1, <1>4, AdvanceTyped DEF Proceed
  <2>2. TypeOK'
    BY <1>1, <2>1 DEF IInv, TypeOK, Fixed
  <2>3. Progress'
    BY <1>1, <1>4, <2>1, ChecksStay, StepsOfRole DEF IInv, Progress, Fixed
  <2>4. PoolState'
    BY <1>1, <1>2, <2>1, ChecksStay DEF IInv, PoolState, OpenAt
  <2> QED
    BY <2>2, <2>3, <2>4 DEF IInv
<1> QED
  BY <1>1, <1>3, <1>4 DEF GetSettings, Validate, Doing

\* Building the database object keeps the invariant: it is the one that was
\* checked, and the pool is not open.
LEMMA ConnectInv ==
    ASSUME IInv, Connect
    PROVE  IInv'
<1>1. Fixed /\ Step = "connect" /\ at = 3 /\ outcome = "none"
  BY StepsOfRole DEF IInv, Connect, Doing, Fixed
<1>2. pool = "none"
  BY <1>1 DEF IInv, PoolState, OpenAt
<1>3. CASE Reject
  BY <1>1, <1>2, <1>3, EndInv DEF Reject
<1>4. CASE /\ wired' = [wired EXCEPT !.database = DatabaseConninfo]
           /\ Advance /\ UNCHANGED pool
  <2>1. at' = at + 1 /\ at' \in 1..Len(Steps[role]') /\ UNCHANGED <<outcome, signalled, pool>>
    BY <1>1, <1>4, AdvanceTyped
  <2>2. DatabaseConninfo \in {"default", "given", "parts"}
    BY DEF IInv, TypeOK, Settings, DatabaseConninfo, UsesUrl
  <2>3. TypeOK'
    BY <1>1, <1>4, <2>1, <2>2 DEF IInv, TypeOK, Fixed
  <2>4. Progress'
    BY <1>1, <1>4, <2>1, ChecksStay DEF IInv, TypeOK, Progress, Fixed
  <2>5. PoolState'
    BY <1>1, <1>2, <2>1, ChecksStay DEF IInv, PoolState
  <2> QED
    BY <2>3, <2>4, <2>5 DEF IInv
<1> QED
  BY <1>3, <1>4 DEF Connect

\* Opening the pool keeps the invariant.
LEMMA OpenInv ==
    ASSUME IInv, Open
    PROVE  IInv'
<1>1. Fixed /\ Step = "open" /\ at = OpenAt /\ outcome = "none"
  BY StepsOfRole DEF IInv, Open, Doing, Fixed
<1>2. /\ at' = at + 1 /\ at' \in 1..Len(Steps[role]')
      /\ UNCHANGED <<outcome, signalled, wired>> /\ pool' = "open"
  BY <1>1, AdvanceTyped DEF Open
<1>3. TypeOK'
  BY <1>1, <1>2 DEF IInv, TypeOK, Fixed
<1>4. Progress'
  BY <1>1, <1>2, ChecksStay DEF IInv, Progress, Fixed, OpenAt
<1>5. PoolState'
  BY <1>1, <1>2, ChecksStay DEF IInv, PoolState, OpenAt
<1> QED
  BY <1>3, <1>4, <1>5 DEF IInv

\* Building the artifact store keeps the invariant; in the cloud the checks have
\* covered what it may be refused for.
LEMMA StoreInv ==
    ASSUME IInv, BuildStore
    PROVE  IInv'
<1>1. Fixed /\ Step = "store" /\ role = "worker" /\ at = 5 /\ outcome = "none"
  BY StepsOfRole DEF IInv, BuildStore, Doing, Fixed
<1>2. IsCloud => ValidArtifactStore
  BY <1>1 DEF IInv, Progress, ValidRuntime
<1>3. CASE ~ValidArtifactStore /\ Reject
  BY <1>1, <1>2, <1>3, EndInv DEF Reject
<1>4. CASE wired' = [wired EXCEPT !.store = settings.backend] /\ Advance /\ UNCHANGED pool
  <2>1. at' = 6 /\ at' \in 1..Len(Steps[role]') /\ UNCHANGED <<outcome, signalled, pool>>
    BY <1>1, <1>4, AdvanceTyped
  <2>2. settings.backend \in {"local", "s3"}
    BY DEF IInv, TypeOK, Settings
  <2>3. TypeOK'
    BY <1>1, <1>4, <2>1, <2>2 DEF IInv, TypeOK, Fixed
  <2>4. /\ wired'.database = wired.database /\ wired'.publisher = wired.publisher
        /\ wired'.store = settings.backend
    BY <1>4 DEF IInv, TypeOK
  <2>5. Progress'
    BY <1>1, <2>1, <2>4, ChecksStay DEF IInv, Progress, Fixed
  <2>6. PoolState'
    BY <1>1, <2>1, ChecksStay DEF IInv, PoolState, OpenAt
  <2> QED
    BY <2>3, <2>5, <2>6 DEF IInv
<1> QED
  BY <1>3, <1>4 DEF BuildStore

\* Building the publisher keeps the invariant; only a worker's can be refused,
\* and in the cloud its checks have covered that.
LEMMA PublisherInv ==
    ASSUME IInv, BuildPublisher
    PROVE  IInv'
<1>1. /\ Fixed /\ outcome = "none" /\ Step = "publisher"
      /\ (role = "api" /\ at = 4) \/ (role = "worker" /\ at = 6)
  BY StepsOfRole DEF IInv, BuildPublisher, Doing, Fixed
<1>2. PublisherOfRole = "sqs" => ValidQueue
  <2>1. PublisherOfRole = "sqs" => IsCloud /\ role = "worker"
    BY DEF PublisherOfRole
  <2>2. IsCloud /\ role = "worker" => ValidQueue
    BY <1>1 DEF IInv, Progress, ValidRuntime
  <2> QED
    BY <2>1, <2>2
<1>3. CASE wired' = [wired EXCEPT !.publisher = PublisherOfRole] /\ Advance /\ UNCHANGED pool
  <2>1. at' = at + 1 /\ at' \in 1..Len(Steps[role]') /\ UNCHANGED <<outcome, signalled, pool>>
    BY <1>1, <1>3, AdvanceTyped
  <2>2. PublisherOfRole \in {"local", "noop", "sqs"}
    BY DEF PublisherOfRole
  <2>3. TypeOK'
    BY <1>1, <1>3, <2>1, <2>2 DEF IInv, TypeOK, Fixed
  <2>4. /\ wired'.database = wired.database /\ wired'.store = wired.store
        /\ wired'.publisher = PublisherOfRole
    BY <1>3 DEF IInv, TypeOK
  <2>5. Progress'
    BY <1>1, <2>1, <2>4, ChecksStay DEF IInv, Progress, Fixed
  <2>6. PoolState'
    BY <1>1, <2>1, ChecksStay DEF IInv, PoolState, OpenAt
  <2> QED
    BY <2>3, <2>5, <2>6 DEF IInv
<1> QED
  BY <1>2, <1>3 DEF BuildPublisher

\* Building the consumer keeps the invariant: a cloud worker has a queue.
LEMMA ConsumerInv ==
    ASSUME IInv, BuildConsumer
    PROVE  IInv'
<1>1. Fixed /\ Step = "consumer" /\ role = "worker" /\ at = 7 /\ outcome = "none"
  BY StepsOfRole DEF IInv, BuildConsumer, Doing, Fixed
<1>2. IsCloud => ValidQueue
  BY <1>1 DEF IInv, Progress, ValidRuntime
<1>3. CASE /\ Advance /\ UNCHANGED pool
           /\ \/ ~IsCloud /\ UNCHANGED wired
              \/ IsCloud /\ wired' = [wired EXCEPT !.consumer = "sqs"]
  <2>1. at' = 8 /\ at' \in 1..Len(Steps[role]') /\ UNCHANGED <<outcome, signalled, pool>>
    BY <1>1, <1>3, AdvanceTyped
  <2>2. TypeOK'
    BY <1>1, <1>3, <2>1 DEF IInv, TypeOK, Fixed
  <2>3. /\ wired'.database = wired.database /\ wired'.publisher = wired.publisher
        /\ wired'.store = wired.store
        /\ IsCloud => wired'.consumer = "sqs"
    BY <1>3 DEF IInv, TypeOK
  <2>4. Progress'
    BY <1>1, <2>1, <2>3, ChecksStay DEF IInv, Progress, Fixed
  <2>5. PoolState'
    BY <1>1, <2>1, ChecksStay DEF IInv, PoolState, OpenAt
  <2> QED
    BY <2>2, <2>4, <2>5 DEF IInv
<1> QED
  BY <1>2, <1>3 DEF BuildConsumer, Proceed

\* Serving until the flag is set, or until something raises, keeps the invariant.
LEMMA ServeInv ==
    ASSUME IInv, Stop \/ ServeRaises
    PROVE  IInv'
BY EndInv DEF Stop, ServeRaises, Doing, Fixed

\* A signal keeps the invariant: it sets the flag, or ends the process at once.
LEMMA SignalInv ==
    ASSUME IInv, Signal \/ Kill
    PROVE  IInv'
<1>1. Fixed /\ UNCHANGED <<at, pool, wired>>
  BY DEF Signal, Kill, Fixed
<1>2. TypeOK'
  BY <1>1 DEF IInv, TypeOK, Fixed, Signal, Kill
<1>3. Progress'
  BY <1>1, ChecksStay DEF IInv, Progress, Fixed
<1>4. PoolState'
  BY <1>1, ChecksStay DEF IInv, PoolState, Signal, Kill
<1> QED
  BY <1>2, <1>3, <1>4 DEF IInv

\* Every step of a process keeps the invariant.
LEMMA InvStep == IInv /\ [Next]_vars => IInv'
<1> SUFFICES ASSUME IInv, [Next]_vars PROVE IInv'
  OBVIOUS
<1>1. CASE UNCHANGED vars
  <2>1. Fixed /\ UNCHANGED <<at, outcome, pool, wired, signalled>>
    BY <1>1 DEF vars, Fixed
  <2> QED
    BY <2>1, ChecksStay DEF IInv, TypeOK, Progress, PoolState, Fixed
<1>2. CASE Next
  BY <1>2, CheckInv, ConnectInv, OpenInv, StoreInv, PublisherInv, ConsumerInv, ServeInv, SignalInv
     DEF Next, Proceeds
<1> QED
  BY <1>1, <1>2

-----------------------------------------------------------------------------
(* The theorems.                                                           *)

\* The inductive invariant holds in every process.
THEOREM Invariance == Spec => []IInv
BY InvInit, InvStep, PTL DEF Spec

\* WiredForItsMode: no cloud process reaches for the development database, a
\* cloud worker that serves has its queue and its bucket, and only workers send.
THEOREM CloudIsWiredToCloud == Spec => []WiredForItsMode
<1>1. IInv => WiredForItsMode
  <2> SUFFICES ASSUME IInv PROVE WiredForItsMode
    OBVIOUS
  <2>1. IsCloud => wired.database # "default"
    BY DEF IInv, Progress, DatabaseConninfo, UsesUrl
  <2>2. ASSUME IsCloud, role = "worker", Step = "serve"
        PROVE  wired.publisher = "sqs" /\ wired.consumer = "sqs" /\ wired.store = "s3"
    <3>1. at = 8
      BY <2>2, StepsOfRole DEF IInv
    <3> QED
      BY <2>2, <3>1 DEF IInv, Progress, ValidRuntime, ValidArtifactStore, PublisherOfRole
  <2>3. wired.publisher = "sqs" => role = "worker"
    BY DEF IInv, Progress, PublisherOfRole
  <2> QED
    BY <2>1, <2>2, <2>3 DEF WiredForItsMode
<1> QED
  BY <1>1, Invariance, PTL

\* PoolClosed: a process that ends by itself leaves no pool open, and a cloud
\* process that is refused never opened one.
THEOREM PoolIsClosed == Spec => []PoolClosed
<1>1. IInv => PoolClosed
  BY DEF IInv, PoolState, PoolClosed
<1> QED
  BY <1>1, Invariance, PTL
=============================================================================
