------------------------- MODULE LeaseTimingProofs -------------------------
(***************************************************************************)
(* Proofs about module LeaseTiming, for every latency, every configuration *)
(* and any number of workers, receives and faults.                         *)
(*                                                                         *)
(* A worker's lease is never older than a heartbeat and two latencies, and *)
(* its message was last hidden no longer ago than a heartbeat and three;   *)
(* Init makes both intervals longer.  PunctualState and MessageState say   *)
(* how old they are at each place a worker can be in.                      *)
(***************************************************************************)
EXTENDS LeaseTiming, TLAPS

ValidConf ==
    ValidIntervals(conf.heartbeat + 2 * Latency, conf.visibility - Latency, conf.lease)

\* How long ago, at most, the lease of a worker at work was renewed.
LeaseAge(w) ==
    CASE worker[w].at = "working" -> Latency + worker[w].clock
      [] worker[w].at = "firing"  -> Latency + conf.heartbeat + worker[w].clock
      [] OTHER                    -> worker[w].clock

\* How long ago, at most, the message of a worker was hidden.
HiddenFor(w) ==
    CASE worker[w].at = "received" -> worker[w].clock
      [] worker[w].at = "working"  -> Latency + worker[w].clock
      [] worker[w].at = "firing"   -> Latency + conf.heartbeat + worker[w].clock
      [] OTHER                     -> 2 * Latency + conf.heartbeat + worker[w].clock

\* No worker misses its deadline, and one at work has the job and the lease, which
\* is as old as the renewal.
PunctualState ==
    \A w \in Worker :
        /\ worker[w].at # "idle" => worker[w].clock <= Deadline(w)
        /\ Busy(w) => /\ job.status = "processing"
                      /\ job.age <= LeaseAge(w)
                      /\ worker[w].at = "renewed" => worker[w].clock <= job.age
                      /\ \A v \in Worker : Busy(v) => v = w

\* Before the first fault, a worker that is not idle is the only one, and the
\* message is its own.
MessageState ==
    faults = 0 => \A w \in Worker : worker[w].at # "idle" =>
        /\ \A v \in Worker : worker[v].at # "idle" => v = w
        /\ worker[w].receipt = message.receives
        /\ message.state = "queued"
        /\ conf.visibility <= message.hidden + HiddenFor(w)

TInv == TypeOK /\ ValidConf /\ PunctualState /\ MessageState

-----------------------------------------------------------------------------

\* The configuration is three positive numbers.
LEMMA ConfTyped ==
  ASSUME TypeOK
  PROVE  /\ conf.heartbeat \in Nat /\ conf.visibility \in Nat /\ conf.lease \in Nat
         /\ Latency \in Nat /\ MaxReceive \in Nat /\ MaxFaults \in Nat
  BY TimingAssumption DEF TypeOK, Intervals

\* Every initial state satisfies the invariant.
LEMMA InitInv == Init => TInv
<1> SUFFICES ASSUME Init PROVE TInv
  OBVIOUS
<1>1. TypeOK
  BY TimingAssumption DEF Init, TypeOK, At
<1>2. ValidConf
  BY DEF Init, ValidConf
<1>3. PunctualState /\ MessageState
  BY DEF Init, PunctualState, MessageState, Busy
<1> QED BY <1>1, <1>2, <1>3 DEF TInv

\* Every step keeps the types.
LEMMA TypeStep ==
  ASSUME TypeOK, [Next]_vars
  PROVE  TypeOK'
<1>0. conf.visibility \in Nat /\ MaxReceive \in Nat /\ MaxFaults \in Nat
  BY ConfTyped
<1> USE <1>0 DEF TypeOK, At
<1>1. CASE UNCHANGED vars
  BY <1>1 DEF vars
<1>2. CASE Tick
  BY <1>2 DEF Tick
<1>3. CASE Redrive
  BY <1>3 DEF Redrive
<1>4. ASSUME NEW w \in Worker, Receive(w)
      PROVE  TypeOK'
  <2>1. message.receives + 1 \in 0..MaxReceive
    BY <1>4 DEF Receive
  <2>2. message' \in [state : {"queued", "deleted", "dead"}, receives : 0..MaxReceive, hidden : Nat]
    BY <1>4, <2>1 DEF Receive
  <2>3. worker' \in [Worker -> [at : At, clock : Nat, receipt : 0..MaxReceive]]
    BY <1>4, <2>1 DEF Receive
  <2> QED BY <1>4, <2>2, <2>3 DEF Receive
<1>5. ASSUME NEW w \in Worker,
             Claim(w) \/ Fire(w) \/ RenewLease(w) \/ ChangeVisibility(w)
             \/ ChangeVisibilityRaises(w)
      PROVE  TypeOK'
  BY <1>5 DEF Claim, Fire, RenewLease, ChangeVisibility, ChangeVisibilityRaises, MoveTo, Fault
<1>6. ASSUME NEW w \in Worker, Refuse(w) \/ Complete(w) \/ Fail(w) \/ Crash(w)
      PROVE  TypeOK'
  BY <1>6 DEF Refuse, Complete, Fail, Crash, ToIdle, Fault
<1> QED BY <1>1, <1>2, <1>3, <1>4, <1>5, <1>6 DEF Next

\* A worker at work has a lease that is not stale.
LEMMA Fresh ==
  ASSUME TInv, NEW w \in Worker, Busy(w)
  PROVE  /\ job.status = "processing" /\ ~Stale /\ ~Claimable
         /\ job.age <= conf.heartbeat + 2 * Latency
<1>1. worker[w].clock \in Nat /\ job.age \in Nat
  BY DEF TInv, TypeOK
<1>2. job.status = "processing" /\ job.age <= LeaseAge(w) /\ worker[w].clock <= Deadline(w)
  BY DEF TInv, PunctualState, Busy
<1>3. job.age <= conf.heartbeat + 2 * Latency
  BY <1>1, <1>2, ConfTyped DEF TInv, LeaseAge, Deadline, Busy
<1>4. ~Stale
  BY <1>1, <1>3, ConfTyped DEF TInv, ValidConf, ValidIntervals, Stale
<1> QED BY <1>2, <1>3, <1>4 DEF Claimable

\* Before the first fault, the message of a worker is in flight.
LEMMA Hidden ==
  ASSUME TInv, NEW w \in Worker, worker[w].at # "idle", faults = 0
  PROVE  message.hidden > 0
<1>1. worker[w].clock \in Nat /\ message.hidden \in Nat /\ worker[w].at \in At
  BY DEF TInv, TypeOK
<1>2. worker[w].clock <= Deadline(w) /\ conf.visibility <= message.hidden + HiddenFor(w)
  BY DEF TInv, PunctualState, MessageState
<1>3. HiddenFor(w) \in Nat /\ HiddenFor(w) <= conf.heartbeat + 3 * Latency
  BY <1>1, <1>2, ConfTyped DEF TInv, HiddenFor, Deadline, At
<1> QED BY <1>1, <1>2, <1>3, ConfTyped DEF TInv, ValidConf, ValidIntervals

-----------------------------------------------------------------------------
(* The steps.                                                              *)

\* What the other workers are like after a step of worker w.
Others(w) == \A v \in Worker : v # w => worker'[v] = worker[v]

\* Time passes only while every worker is within its deadline.
LEMMA TickInv ==
  ASSUME TInv, TypeOK', Tick
  PROVE  PunctualState' /\ MessageState'
<1>1. /\ \A w \in Worker : worker[w].clock \in Nat /\ worker[w].at \in At
      /\ job.age \in Nat /\ message.hidden \in Nat
  BY DEF TInv, TypeOK
<1>2. \A w \in Worker :
         /\ worker'[w].at = worker[w].at /\ worker'[w].receipt = worker[w].receipt
         /\ worker[w].at # "idle" => worker'[w].clock = worker[w].clock + 1
                                     /\ worker[w].clock < Deadline(w)
  BY DEF Tick, TInv, TypeOK
<1>3. /\ job'.status = job.status /\ job'.age <= job.age + 1 /\ job'.age \in Nat
      /\ conf' = conf /\ faults' = faults
  <2>1. job'.status = job.status /\ conf' = conf /\ faults' = faults
    BY DEF Tick, TInv, TypeOK
  <2>2. job'.age = job.age \/ job'.age = job.age + 1
    BY DEF Tick, TInv, TypeOK
  <2> QED BY <1>1, <2>1, <2>2
<1>4. /\ message'.state = message.state /\ message'.receives = message.receives
      /\ message.hidden > 0 => message'.hidden = message.hidden - 1
  BY DEF Tick, TInv, TypeOK
<1>5. \A w \in Worker : Busy(w)' <=> Busy(w)
  BY <1>2 DEF Busy
<1>6. ASSUME NEW w \in Worker, worker[w].at # "idle"
      PROVE  worker'[w].clock <= Deadline(w)'
  BY <1>1, <1>2, <1>3, <1>6, ConfTyped DEF Deadline, TInv
<1>7. ASSUME NEW w \in Worker, Busy(w)
      PROVE  job'.age <= LeaseAge(w)'
  <2>1. job.age <= LeaseAge(w) /\ worker[w].at # "idle"
    BY <1>7 DEF TInv, PunctualState, Busy
  <2> QED BY <1>1, <1>2, <1>3, <2>1, ConfTyped DEF LeaseAge, TInv
<1>11. ASSUME NEW w \in Worker, worker[w].at = "renewed"
       PROVE  worker'[w].clock <= job'.age
  <2>1. worker[w].clock <= job.age /\ job.status = "processing" /\ job.age <= conf.lease
    BY <1>1, <1>11, Fresh, ConfTyped DEF TInv, PunctualState, Busy, Stale
  <2>2. job'.age = job.age + 1
    BY <2>1 DEF Tick, TInv, TypeOK
  <2> QED BY <1>1, <1>2, <1>11, <2>1, <2>2
<1>8. PunctualState'
  BY <1>2, <1>3, <1>5, <1>6, <1>7, <1>11 DEF PunctualState, TInv
<1>9. ASSUME NEW w \in Worker, worker[w].at # "idle", faults = 0
      PROVE  conf'.visibility <= message'.hidden + HiddenFor(w)'
  <2>1. message.hidden > 0
    BY <1>9, Hidden
  <2>2. conf.visibility <= message.hidden + HiddenFor(w)
    BY <1>9 DEF TInv, MessageState
  <2> QED BY <1>1, <1>2, <1>3, <1>4, <1>9, <2>1, <2>2, ConfTyped DEF HiddenFor, TInv
<1>10. MessageState'
  BY <1>2, <1>3, <1>4, <1>9 DEF MessageState, TInv
<1> QED BY <1>8, <1>10

\* A worker that becomes idle, whatever it did to the job and the message.
LEMMA IdleInv ==
  ASSUME TInv, TypeOK', NEW w \in Worker, ToIdle(w), conf' = conf,
         job' = job \/ Busy(w),
         faults' = 0 => faults = 0 /\ (message' = message \/ \A v \in Worker : v # w => worker[v].at = "idle")
  PROVE  PunctualState' /\ MessageState'
<1>1. Others(w) /\ worker'[w].at = "idle"
  BY DEF ToIdle, Others, TInv, TypeOK
<1>2. \A v \in Worker : /\ Busy(v)' => v # w /\ Busy(v)
                        /\ worker'[v].at # "idle" => v # w /\ worker[v].at # "idle"
  BY <1>1 DEF Others, Busy
<1>3. \A v \in Worker : v # w => /\ Deadline(v)' = Deadline(v) /\ LeaseAge(v)' = LeaseAge(v)
                                 /\ HiddenFor(v)' = HiddenFor(v)
  BY <1>1 DEF Others, Deadline, LeaseAge, HiddenFor
<1>4. ASSUME NEW v \in Worker, Busy(v), v # w
      PROVE  job' = job
  <2>1. \A u \in Worker : Busy(u) => u = v
    BY <1>4 DEF TInv, PunctualState
  <2> QED BY <1>4, <2>1
<1>5. ASSUME NEW v \in Worker, worker'[v].at # "idle"
      PROVE  /\ worker'[v].clock <= Deadline(v)'
             /\ Busy(v)' => /\ job'.status = "processing" /\ job'.age <= LeaseAge(v)'
                            /\ worker'[v].at = "renewed" => worker'[v].clock <= job'.age
                            /\ \A u \in Worker : Busy(u)' => u = v
  <2>1. v # w /\ worker[v].at # "idle" /\ worker'[v] = worker[v]
    BY <1>1, <1>2, <1>5 DEF Others
  <2>2. worker'[v].clock <= Deadline(v)'
    BY <1>3, <2>1 DEF TInv, PunctualState
  <2>3. ASSUME Busy(v)'
        PROVE  /\ job'.status = "processing" /\ job'.age <= LeaseAge(v)'
               /\ worker'[v].at = "renewed" => worker'[v].clock <= job'.age
               /\ \A u \in Worker : Busy(u)' => u = v
    <3>1. Busy(v)
      BY <1>2, <2>3 DEF Busy
    <3>2. job' = job
      BY <1>4, <2>1, <3>1
    <3>3. /\ job.status = "processing" /\ job.age <= LeaseAge(v)
          /\ worker[v].at = "renewed" => worker[v].clock <= job.age
          /\ \A u \in Worker : Busy(u) => u = v
      BY <3>1 DEF TInv, PunctualState
    <3>4. LeaseAge(v)' = LeaseAge(v)
      BY <1>3, <2>1
    <3>5. \A u \in Worker : Busy(u)' => u = v
      BY <1>2, <3>3 DEF Busy
    <3> QED BY <2>1, <3>2, <3>3, <3>4, <3>5
  <2> QED BY <2>2, <2>3
<1>6. PunctualState'
  <2>1. \A v \in Worker : Busy(v)' => worker'[v].at # "idle"
    BY DEF Busy
  <2> QED BY <1>5, <2>1 DEF PunctualState
<1>7. ASSUME faults' = 0, NEW v \in Worker, worker'[v].at # "idle"
      PROVE  /\ \A u \in Worker : worker'[u].at # "idle" => u = v
             /\ worker'[v].receipt = message'.receives
             /\ message'.state = "queued"
             /\ conf'.visibility <= message'.hidden + HiddenFor(v)'
  <2>1. v # w /\ worker[v].at # "idle" /\ worker'[v] = worker[v] /\ message' = message
    BY <1>1, <1>2, <1>7 DEF Others
  <2>2. faults = 0
    BY <1>7
  <2>3. /\ \A u \in Worker : worker[u].at # "idle" => u = v
        /\ worker[v].receipt = message.receives
        /\ message.state = "queued"
        /\ conf.visibility <= message.hidden + HiddenFor(v)
    BY <2>1, <2>2 DEF TInv, MessageState
  <2>4. HiddenFor(v)' = HiddenFor(v)
    BY <1>3, <2>1
  <2>5. \A u \in Worker : worker'[u].at # "idle" => u = v
    BY <1>2, <2>3 DEF Busy
  <2> QED BY <2>1, <2>3, <2>4, <2>5
<1>8. MessageState'
  BY <1>7 DEF MessageState
<1> QED BY <1>6, <1>8

\* A worker that goes on, to a place that suits its clock, the job and the message.
LEMMA MoveInv ==
  ASSUME TInv, TypeOK', NEW w \in Worker, Others(w), conf' = conf, faults' = 0 => faults = 0,
         worker'[w].at # "idle", worker'[w].clock <= Deadline(w)',
         \A v \in Worker : v # w /\ Busy(v) => job' = job,
         Busy(w)' => /\ job'.status = "processing" /\ job'.age <= LeaseAge(w)'
                     /\ worker'[w].at = "renewed" => worker'[w].clock <= job'.age
                     /\ \A v \in Worker : Busy(v) => v = w,
         faults' = 0 => /\ \A v \in Worker : worker[v].at # "idle" => v = w
                        /\ worker'[w].receipt = message'.receives
                        /\ message'.state = "queued"
                        /\ conf.visibility <= message'.hidden + HiddenFor(w)'
  PROVE  PunctualState' /\ MessageState'
<1>1. \A v \in Worker : v # w => /\ Deadline(v)' = Deadline(v) /\ LeaseAge(v)' = LeaseAge(v)
                                 /\ HiddenFor(v)' = HiddenFor(v)
  BY DEF Others, Deadline, LeaseAge, HiddenFor
<1>2. \A v \in Worker : v # w => (Busy(v)' <=> Busy(v)) /\ worker'[v] = worker[v]
  BY DEF Others, Busy
<1>3. ASSUME NEW v \in Worker, worker'[v].at # "idle"
      PROVE  worker'[v].clock <= Deadline(v)'
  <2>1. CASE v = w
    BY <2>1
  <2>2. CASE v # w
    BY <1>1, <1>2, <1>3, <2>2 DEF TInv, PunctualState
  <2> QED BY <2>1, <2>2
<1>4. ASSUME NEW v \in Worker, Busy(v)'
      PROVE  /\ job'.status = "processing" /\ job'.age <= LeaseAge(v)'
             /\ worker'[v].at = "renewed" => worker'[v].clock <= job'.age
  <2>1. CASE v = w
    <3>1. Busy(w)'
      BY <1>4, <2>1
    <3>2. /\ job'.status = "processing" /\ job'.age <= LeaseAge(w)'
          /\ worker'[w].at = "renewed" => worker'[w].clock <= job'.age
      BY <3>1
    <3> QED BY <2>1, <3>2
  <2>2. CASE v # w
    <3>1. Busy(v) /\ job' = job
      BY <1>2, <1>4, <2>2 DEF Busy
    <3>2. /\ job.status = "processing" /\ job.age <= LeaseAge(v)
          /\ worker[v].at = "renewed" => worker[v].clock <= job.age
      BY <3>1 DEF TInv, PunctualState
    <3> QED BY <1>1, <1>2, <2>2, <3>1, <3>2
  <2> QED BY <2>1, <2>2
<1>5. ASSUME NEW u \in Worker, NEW v \in Worker, Busy(u)', Busy(v)'
      PROVE  u = v
  <2>1. CASE u # w /\ v # w
    <3>1. Busy(u) /\ Busy(v)
      BY <1>2, <1>5, <2>1 DEF Busy
    <3> QED BY <3>1 DEF TInv, PunctualState
  <2>2. CASE u = w \/ v = w
    <3>1. Busy(w)'
      BY <1>5, <2>2
    <3>2. \A z \in Worker : Busy(z) => z = w
      BY <3>1
    <3>3. \A z \in {u, v} : z # w => Busy(z)
      BY <1>2, <1>5
    <3> QED BY <3>2, <3>3
  <2> QED BY <2>1, <2>2
<1>6. PunctualState'
  BY <1>3, <1>4, <1>5 DEF PunctualState
<1>7. MessageState'
  <2> SUFFICES ASSUME faults' = 0, NEW v \in Worker, worker'[v].at # "idle"
               PROVE  /\ \A u \in Worker : worker'[u].at # "idle" => u = v
                      /\ worker'[v].receipt = message'.receives
                      /\ message'.state = "queued"
                      /\ conf'.visibility <= message'.hidden + HiddenFor(v)'
    BY DEF MessageState
  <2>1. v = w /\ \A u \in Worker : worker'[u].at # "idle" => u = w
    BY <1>2
  <2> QED BY <2>1
<1> QED BY <1>6, <1>7

\* Every step keeps the invariant.
LEMMA StepInv ==
  ASSUME TInv, [Next]_vars
  PROVE  TInv'
<1>1. TypeOK'
  BY TypeStep DEF TInv
<1>2. conf' = conf
  BY DEF Next, vars, Tick, Redrive, Receive, Claim, Refuse, Fire, RenewLease, ChangeVisibility,
         ChangeVisibilityRaises, Complete, Fail, Crash
<1>3. ValidConf'
  BY <1>2 DEF TInv, ValidConf
<1>4. \A w \in Worker : /\ worker[w].clock \in Nat /\ worker[w].at \in At
                        /\ worker[w].receipt \in Nat
  BY TimingAssumption DEF TInv, TypeOK
<1>5. faults \in Nat /\ message.receives \in Nat /\ message.hidden \in Nat /\ job.age \in Nat
  BY TimingAssumption DEF TInv, TypeOK
<1>6. CASE UNCHANGED vars
  BY <1>6 DEF vars, TInv, TypeOK, ValidConf, PunctualState, MessageState, Busy, LeaseAge,
              HiddenFor, Deadline
<1>7. CASE Tick
  BY <1>1, <1>3, <1>7, TickInv DEF TInv
<1>8. CASE Redrive
  <2>1. UNCHANGED <<conf, job, worker, faults>> /\ message.hidden = 0
    BY <1>8 DEF Redrive, Visible
  <2>2. PunctualState'
    BY <2>1 DEF TInv, PunctualState, Busy, LeaseAge, Deadline
  <2>3. faults = 0 => \A w \in Worker : worker[w].at = "idle"
    BY <2>1, Hidden
  <2>4. MessageState'
    BY <2>1, <2>3 DEF MessageState
  <2> QED BY <1>1, <1>3, <2>2, <2>4 DEF TInv
<1>9. ASSUME NEW w \in Worker, Receive(w)
      PROVE  TInv'
  <2>1. /\ Others(w) /\ UNCHANGED <<job, faults>> /\ message.hidden = 0
        /\ worker'[w] = [at |-> "received", clock |-> 0, receipt |-> message.receives + 1]
        /\ message'.receives = message.receives + 1 /\ message'.hidden = conf.visibility
        /\ message'.state = "queued"
    BY <1>9 DEF Receive, Visible, Others, TInv, TypeOK
  <2>2. faults = 0 => \A v \in Worker : worker[v].at = "idle"
    BY <2>1, Hidden
  <2>3. worker'[w].clock <= Deadline(w)' /\ HiddenFor(w)' = 0 /\ ~Busy(w)'
    BY <2>1, ConfTyped DEF Deadline, HiddenFor, Busy, TInv
  <2> QED BY <1>1, <1>2, <1>3, <2>1, <2>2, <2>3, ConfTyped, MoveInv DEF TInv
<1>10. ASSUME NEW w \in Worker, Claim(w)
       PROVE  TInv'
  <2>1. /\ Others(w) /\ UNCHANGED <<message, faults>> /\ worker[w].at = "received" /\ Claimable
        /\ worker'[w].at = "working" /\ worker'[w].clock = 0
        /\ worker'[w].receipt = worker[w].receipt
        /\ job' = [status |-> "processing", age |-> 0]
    BY <1>10 DEF Claim, MoveTo, Others, TInv, TypeOK
  <2>2. \A v \in Worker : ~Busy(v)
    BY <2>1, Fresh
  <2>3. /\ worker'[w].clock <= Deadline(w)' /\ LeaseAge(w)' = Latency
        /\ worker[w].clock <= Latency /\ HiddenFor(w) = worker[w].clock /\ HiddenFor(w)' = Latency
    BY <1>2, <2>1, ConfTyped DEF Deadline, LeaseAge, HiddenFor, TInv, PunctualState
  <2>4. job'.status = "processing" /\ job'.age <= LeaseAge(w)'
    BY <2>1, <2>3, ConfTyped DEF TInv
  <2>5. faults = 0 => /\ \A v \in Worker : worker[v].at # "idle" => v = w
                      /\ worker'[w].receipt = message'.receives
                      /\ message'.state = "queued"
                      /\ conf.visibility <= message'.hidden + HiddenFor(w)'
    BY <1>4, <1>5, <2>1, <2>3, ConfTyped DEF TInv, MessageState
  <2> QED BY <1>1, <1>2, <1>3, <2>1, <2>2, <2>3, <2>4, <2>5, MoveInv DEF TInv
<1>11. ASSUME NEW w \in Worker, Fire(w) \/ RenewLease(w) \/ ChangeVisibility(w)
                                \/ ChangeVisibilityRaises(w)
       PROVE  TInv'
  <2>1. /\ Others(w) /\ Busy(w) /\ faults \in Nat /\ faults' \in {faults, faults + 1}
        /\ worker'[w].at # "idle" /\ worker'[w].receipt = worker[w].receipt
        /\ job'.status = job.status
    BY <1>5, <1>11 DEF Fire, RenewLease, ChangeVisibility, ChangeVisibilityRaises, MoveTo, Others,
                       Busy, Fault, TInv, TypeOK
  <2>2. /\ \A v \in Worker : Busy(v) => v = w
        /\ job.status = "processing" /\ job.age <= LeaseAge(w) /\ worker[w].clock <= Deadline(w)
    BY <2>1 DEF TInv, PunctualState, Busy
  <2>3. /\ worker'[w].clock <= Deadline(w)' /\ job'.age <= LeaseAge(w)'
        /\ worker'[w].at = "renewed" => worker'[w].clock <= job'.age
    <3>1. CASE Fire(w)
      BY <1>2, <1>4, <1>5, <2>2, <3>1, ConfTyped
      DEF Fire, MoveTo, Deadline, LeaseAge, TInv, TypeOK
    <3>2. CASE RenewLease(w)
      BY <1>2, <1>4, <1>5, <2>2, <3>2, ConfTyped
      DEF RenewLease, MoveTo, Deadline, LeaseAge, TInv, TypeOK
    <3>3. CASE ChangeVisibility(w) \/ ChangeVisibilityRaises(w)
      BY <1>2, <1>4, <1>5, <2>2, <3>3, ConfTyped
      DEF ChangeVisibility, ChangeVisibilityRaises, MoveTo, Deadline, LeaseAge, TInv, TypeOK
    <3> QED BY <1>11, <3>1, <3>2, <3>3
  <2>4. ASSUME faults' = 0
        PROVE  /\ \A v \in Worker : worker[v].at # "idle" => v = w
               /\ worker'[w].receipt = message'.receives
               /\ message'.state = "queued"
               /\ conf.visibility <= message'.hidden + HiddenFor(w)'
    <3>1. faults = 0 /\ ~ChangeVisibilityRaises(w)
      BY <1>5, <2>1, <2>4 DEF ChangeVisibilityRaises, Fault
    <3>2. /\ \A v \in Worker : worker[v].at # "idle" => v = w
          /\ worker[w].receipt = message.receives
          /\ message.state = "queued"
          /\ conf.visibility <= message.hidden + HiddenFor(w)
          /\ message.hidden > 0
      BY <2>1, <3>1, Hidden DEF TInv, MessageState, Busy
    <3>3. CASE Fire(w)
      BY <1>2, <1>4, <1>5, <2>1, <3>2, <3>3, ConfTyped
      DEF Fire, MoveTo, HiddenFor, TInv, TypeOK
    <3>4. CASE RenewLease(w)
      BY <1>2, <1>4, <1>5, <2>1, <3>2, <3>4, ConfTyped
      DEF RenewLease, MoveTo, HiddenFor, TInv, TypeOK
    <3>5. CASE ChangeVisibility(w)
      BY <1>2, <1>4, <1>5, <2>1, <3>2, <3>5, ConfTyped
      DEF ChangeVisibility, MoveTo, HiddenFor, TInv, TypeOK
    <3> QED BY <1>11, <3>1, <3>3, <3>4, <3>5
  <2> QED BY <1>1, <1>2, <1>3, <1>5, <2>1, <2>2, <2>3, <2>4, MoveInv DEF TInv
<1>12. ASSUME NEW w \in Worker, Refuse(w) \/ Complete(w) \/ Fail(w) \/ Crash(w)
       PROVE  TInv'
  <2>1. ToIdle(w) /\ worker[w].at # "idle" /\ (job' = job \/ Busy(w))
    BY <1>12 DEF Refuse, Complete, Fail, Crash, Busy
  <2>2. faults' = 0 => faults = 0
    BY <1>5, <1>12 DEF Refuse, Complete, Fail, Crash, Fault
  <2>3. faults = 0 => \A v \in Worker : v # w => worker[v].at = "idle"
    BY <2>1 DEF TInv, MessageState
  <2> QED BY <1>1, <1>2, <1>3, <2>1, <2>2, <2>3, IdleInv DEF TInv
<1> QED BY <1>6, <1>7, <1>8, <1>9, <1>10, <1>11, <1>12 DEF Next

-----------------------------------------------------------------------------
(* After a crash.                                                          *)

\* Before the first fault the job is claimed in its first delivery, or not yet.
FirstDelivery ==
    faults = 0 =>
        /\ job.status # "failed"
        /\ job.status = "pending" =>
              /\ message.state = "queued"
              /\ \/ message.receives = 0 /\ \A w \in Worker : worker[w].at = "idle"
                 \/ message.receives = 1 /\ \E w \in Worker : worker[w].at = "received"
        /\ job.status = "processing" => message.receives = 1 /\ \E w \in Worker : Busy(w)

\* Its worker crashed.
Abandoned == job.status = "processing" /\ \A w \in Worker : ~Busy(w)

\* The time until the message is visible for its last receive, at least.
UntilLastReceive == message.hidden + (MaxReceive - 1 - message.receives) * conf.visibility

\* The message is still to be received when the lease is over, or it has just
\* been, for the last time, and the lease is over.
ReceivedInTime ==
    /\ message.state = "queued"
    /\ \/ message.receives < MaxReceive /\ (Stale \/ conf.lease < job.age + UntilLastReceive)
       \/ /\ message.receives = MaxReceive /\ Stale
          /\ \E w \in Worker : /\ worker[w].at = "received"
                               /\ conf.visibility <= message.hidden + worker[w].clock

Recoverable == LastReceiveAfterLease /\ faults <= 1 /\ Abandoned => ReceivedInTime

RInv == TInv /\ FirstDelivery /\ Recoverable

\* One delivery more takes one visibility timeout more.
LEMMA OneDelivery ==
  ASSUME NEW n \in Nat, NEW v \in Nat
  PROVE  n * v \in Nat /\ (n + 1) * v = n * v + v
  OBVIOUS

\* A worker that has received the message comes to it before it is visible again.
LEMMA ReceivedHidden ==
  ASSUME TInv, NEW w \in Worker, worker[w].at = "received",
         conf.visibility <= message.hidden + worker[w].clock
  PROVE  message.hidden > 0 /\ message.hidden \in Nat /\ worker[w].clock \in Nat
<1>1. worker[w].clock \in Nat /\ message.hidden \in Nat
  BY DEF TInv, TypeOK
<1>2. worker[w].clock <= Latency
  BY DEF TInv, PunctualState, Deadline
<1> QED BY <1>1, <1>2, ConfTyped DEF TInv, ValidConf, ValidIntervals

\* Without a fault, a worker that is not idle while the job is processed is the
\* one that has claimed it.
LEMMA OnlyClaimant ==
  ASSUME TInv, FirstDelivery, faults = 0, NEW w \in Worker, worker[w].at # "idle"
  PROVE  /\ job.status = "processing" => Busy(w) /\ message.receives = 1
         /\ job.status = "pending" => worker[w].at = "received" /\ message.receives = 1
         /\ job.status # "failed"
  BY DEF TInv, MessageState, FirstDelivery, Busy

\* The first delivery is the only one until the first fault.
LEMMA FirstDeliveryStep ==
  ASSUME TInv, FirstDelivery, [Next]_vars
  PROVE  FirstDelivery'
<1> SUFFICES ASSUME faults' = 0 PROVE FirstDelivery'
  BY DEF FirstDelivery
<1>1. faults = 0
  BY DEF Next, vars, Tick, Redrive, Receive, Claim, Refuse, Fire, RenewLease, ChangeVisibility,
         ChangeVisibilityRaises, Complete, Fail, Crash, Fault, TInv, TypeOK
<1>2. worker \in [Worker -> [at: At, clock: Nat, receipt: 0..MaxReceive]]
  BY DEF TInv, TypeOK
<1>3. CASE UNCHANGED vars
  BY <1>3 DEF vars, FirstDelivery, Busy
<1>4. CASE Tick
  <2>1. /\ \A w \in Worker : worker'[w].at = worker[w].at
        /\ job'.status = job.status
        /\ message'.state = message.state /\ message'.receives = message.receives
    BY <1>2, <1>4 DEF Tick, TInv, TypeOK
  <2> QED BY <1>1, <2>1 DEF FirstDelivery, Busy
<1>5. CASE Redrive
  <2>1. UNCHANGED <<job, worker>> /\ message.hidden = 0 /\ message.receives = MaxReceive
        /\ message'.receives = message.receives
    BY <1>5 DEF Redrive, Visible, TInv, TypeOK
  <2>2. \A w \in Worker : worker[w].at = "idle"
    BY <1>1, <2>1, Hidden
  <2>3. job.status \notin {"pending", "processing", "failed"}
    BY <1>1, <2>1, <2>2, TimingAssumption DEF FirstDelivery, Busy
  <2> QED BY <2>1, <2>3 DEF FirstDelivery
<1>6. ASSUME NEW w \in Worker, Receive(w)
      PROVE  FirstDelivery'
  <2>1. /\ UNCHANGED job /\ message.hidden = 0 /\ worker'[w].at = "received"
        /\ message'.receives = message.receives + 1 /\ message'.state = message.state
    BY <1>2, <1>6 DEF Receive, Visible, TInv, TypeOK
  <2>2. \A v \in Worker : worker[v].at = "idle"
    BY <1>1, <2>1, Hidden
  <2>3. job.status \notin {"processing", "failed"}
    BY <1>1, <2>2 DEF FirstDelivery, Busy
  <2>4. job.status = "pending" => message.state = "queued" /\ message.receives = 0
    BY <1>1, <2>2 DEF FirstDelivery
  <2> QED BY <2>1, <2>3, <2>4 DEF FirstDelivery
<1>7. ASSUME NEW w \in Worker, Claim(w)
      PROVE  FirstDelivery'
  <2>1. /\ worker[w].at = "received" /\ Claimable /\ UNCHANGED message
        /\ worker'[w].at = "working" /\ job' = [status |-> "processing", age |-> 0]
    BY <1>2, <1>7 DEF Claim, MoveTo
  <2>2. job.status = "pending" /\ message.receives = 1
    BY <1>1, <2>1, OnlyClaimant DEF Claimable, Busy
  <2> QED BY <2>1, <2>2 DEF FirstDelivery, Busy
<1>8. ASSUME NEW w \in Worker, Refuse(w) \/ Complete(w)
      PROVE  FirstDelivery'
  <2>1. CASE Refuse(w)
    <3>1. /\ worker[w].at = "received" /\ ~Claimable /\ UNCHANGED job
      BY <2>1 DEF Refuse
    <3>2. job.status \notin {"pending", "processing", "failed"}
      BY <1>1, <3>1, OnlyClaimant DEF Claimable, Busy
    <3> QED BY <3>1, <3>2 DEF FirstDelivery
  <2>2. CASE Complete(w)
    BY <2>2 DEF Complete, FirstDelivery
  <2> QED BY <1>8, <2>1, <2>2
<1>9. ASSUME NEW w \in Worker, Fire(w) \/ RenewLease(w) \/ ChangeVisibility(w)
      PROVE  FirstDelivery'
  <2>1. /\ Busy(w) /\ job'.status = job.status /\ message'.receives = message.receives
        /\ worker'[w].at \in {"working", "firing", "renewed"}
    BY <1>2, <1>9 DEF Fire, RenewLease, ChangeVisibility, MoveTo, Busy, TInv, TypeOK
  <2>2. job.status = "processing" /\ message.receives = 1
    BY <1>1, <2>1, Fresh, OnlyClaimant DEF Busy
  <2> QED BY <2>1, <2>2 DEF FirstDelivery, Busy
<1>10. ASSUME NEW w \in Worker, ChangeVisibilityRaises(w) \/ Fail(w) \/ Crash(w)
       PROVE  FALSE
  BY <1>1, <1>10 DEF ChangeVisibilityRaises, Fail, Crash, Fault
<1> QED BY <1>3, <1>4, <1>5, <1>6, <1>7, <1>8, <1>9, <1>10 DEF Next

\* When the worker of the first delivery crashes, the lease has at most as long
\* to go as the message until its last receive.
LEMMA CrashInTime ==
  ASSUME TInv, FirstDelivery, LastReceiveAfterLease, NEW w \in Worker, Busy(w), Crash(w),
         faults' <= 1
  PROVE  ReceivedInTime'
<1>0. /\ conf.heartbeat \in Nat /\ conf.visibility \in Nat /\ conf.lease \in Nat
      /\ Latency \in Nat /\ MaxReceive \in Nat /\ MaxFaults \in Nat
  BY ConfTyped DEF TInv
<1>1. faults = 0
  BY DEF Crash, Fault, TInv, TypeOK
<1>2. /\ worker[w].at # "idle" /\ job.status = "processing" /\ message.receives = 1
  BY <1>1, Fresh, OnlyClaimant DEF Busy
<1>3. /\ message.state = "queued" /\ conf.visibility <= message.hidden + HiddenFor(w)
      /\ worker[w].clock <= Deadline(w)
  BY <1>1, <1>2 DEF TInv, MessageState, PunctualState
<1>4. /\ worker[w].clock \in Nat /\ message.hidden \in Nat /\ worker[w].at \in At
      /\ job.age \in Nat
  BY DEF TInv, TypeOK
<1>5. HiddenFor(w) \in Nat /\ HiddenFor(w) <= job.age + conf.heartbeat + 2 * Latency
  <2>1. worker[w].at = "renewed" => worker[w].clock <= job.age
    BY DEF TInv, PunctualState
  <2>2. CASE worker[w].at = "working" \/ worker[w].at = "firing"
    BY <1>3, <1>4, <2>2, <1>0 DEF HiddenFor, Deadline
  <2>3. CASE worker[w].at = "renewed"
    BY <1>3, <1>4, <2>1, <2>3, <1>0 DEF HiddenFor, Deadline
  <2> QED BY <2>2, <2>3 DEF Busy
<1>6. MaxReceive - 2 \in Nat
  <2>1. MaxReceive # 1
    <3>1. MaxReceive = 1 => (MaxReceive - 1) * conf.visibility = 0
      BY <1>0
    <3> QED BY <3>1, <1>0 DEF LastReceiveAfterLease
  <2> QED BY <2>1, TimingAssumption
<1>7. (MaxReceive - 1) * conf.visibility = (MaxReceive - 2) * conf.visibility + conf.visibility
      /\ (MaxReceive - 2) * conf.visibility \in Nat
  <2>1. /\ (MaxReceive - 2) * conf.visibility \in Nat
        /\ ((MaxReceive - 2) + 1) * conf.visibility
              = (MaxReceive - 2) * conf.visibility + conf.visibility
    BY <1>6, OneDelivery, <1>0
  <2>2. (MaxReceive - 2) + 1 = MaxReceive - 1
    BY <1>6, <1>0
  <2> QED BY <2>1, <2>2
<1>8. conf.lease < job.age + (message.hidden + (MaxReceive - 2) * conf.visibility)
  BY <1>3, <1>4, <1>5, <1>7, <1>0 DEF LastReceiveAfterLease
<1>9. UNCHANGED <<conf, job, message>>
  BY DEF Crash
<1>10. MaxReceive - 1 - message.receives = MaxReceive - 2 /\ message.receives < MaxReceive
  BY <1>2, <1>6, <1>0
<1> QED BY <1>3, <1>8, <1>9, <1>10 DEF ReceivedInTime, UntilLastReceive

\* An abandoned job stays so until a worker claims it, and each delivery that
\* comes before the end of the lease leaves another.
LEMMA WaitInTime ==
  ASSUME TInv, Abandoned, faults = 1, faults' <= 1, ReceivedInTime, Abandoned', Next
  PROVE  ReceivedInTime'
<1>0. /\ conf.heartbeat \in Nat /\ conf.visibility \in Nat /\ conf.lease \in Nat
      /\ Latency \in Nat /\ MaxReceive \in Nat /\ MaxFaults \in Nat
  BY ConfTyped DEF TInv
<1>1. /\ worker \in [Worker -> [at: At, clock: Nat, receipt: 0..MaxReceive]]
      /\ message \in [state: {"queued", "deleted", "dead"}, receives: 0..MaxReceive, hidden: Nat]
      /\ job \in [status: {"pending", "processing", "completed", "failed"}, age: Nat]
  BY DEF TInv, TypeOK
<1>2. /\ message.hidden \in Nat /\ job.age \in Nat /\ message.receives \in Nat
      /\ message.receives <= MaxReceive
      /\ (MaxReceive - 1 - message.receives) * conf.visibility \in Int
  BY <1>1, <1>0
<1>3. \A w \in Worker : ~Busy(w)
  BY DEF Abandoned
<1>4. CASE Tick
  <2>1. /\ \A w \in Worker : /\ worker'[w].at = worker[w].at
                             /\ worker[w].at # "idle" => worker'[w].clock = worker[w].clock + 1
        /\ message' = [message EXCEPT !.hidden = IF @ = 0 THEN 0 ELSE @ - 1]
        /\ UNCHANGED conf
    BY <1>1, <1>4 DEF Tick
  <2>2. /\ message'.state = message.state /\ message'.receives = message.receives
        /\ message'.hidden = IF message.hidden = 0 THEN 0 ELSE message.hidden - 1
    BY <1>1, <2>1
  <2>3. job'.age = IF job.age <= conf.lease THEN job.age + 1 ELSE job.age
    BY <1>1, <1>4 DEF Tick, Abandoned
  <2>4. Stale => Stale'
    BY <1>2, <2>1, <2>3, <1>0 DEF Stale
  <2>5. CASE message.receives < MaxReceive
    <3>1. conf.lease < job.age + UntilLastReceive => Stale' \/ conf.lease' < (job.age + UntilLastReceive)'
      BY <1>2, <2>1, <2>2, <2>3, <1>0 DEF UntilLastReceive, Stale
    <3> QED BY <1>2, <2>2, <2>4, <2>5, <3>1 DEF ReceivedInTime
  <2>6. CASE message.receives = MaxReceive
    <3>1. PICK w \in Worker : /\ worker[w].at = "received"
                              /\ conf.visibility <= message.hidden + worker[w].clock
      BY <1>2, <2>6, <1>0 DEF ReceivedInTime
    <3>2. message.hidden > 0 /\ worker[w].clock \in Nat
      BY <3>1, ReceivedHidden
    <3>3. worker'[w].at = "received" /\ conf'.visibility <= message'.hidden + worker'[w].clock
      BY <1>2, <2>1, <2>2, <3>1, <3>2, <1>0
    <3>4. Stale /\ message.state = "queued"
      BY <1>2, <2>6, <1>0 DEF ReceivedInTime
    <3> QED BY <2>2, <2>4, <2>6, <3>3, <3>4 DEF ReceivedInTime
  <2> QED BY <1>2, <2>5, <2>6, <1>0
<1>5. CASE Redrive
  <2>1. message.hidden = 0 /\ message.receives = MaxReceive
    BY <1>5 DEF Redrive, Visible
  <2>2. PICK w \in Worker : /\ worker[w].at = "received"
                            /\ conf.visibility <= message.hidden + worker[w].clock
    BY <1>2, <2>1, <1>0 DEF ReceivedInTime
  <2> QED BY <2>1, <2>2, ReceivedHidden
<1>6. ASSUME NEW w \in Worker, Receive(w)
      PROVE  ReceivedInTime'
  <2>1. /\ UNCHANGED <<conf, job>> /\ message.hidden = 0 /\ message.receives < MaxReceive
        /\ message'.receives = message.receives + 1 /\ message'.hidden = conf.visibility
        /\ message'.state = message.state
        /\ worker'[w].at = "received" /\ worker'[w].clock = 0
    BY <1>1, <1>6 DEF Receive, Visible
  <2>2. Stale \/ conf.lease < job.age + (MaxReceive - 1 - message.receives) * conf.visibility
    BY <1>2, <2>1, <1>0 DEF ReceivedInTime, UntilLastReceive
  <2>3. CASE message'.receives = MaxReceive
    <3>1. (MaxReceive - 1 - message.receives) * conf.visibility = 0
      BY <1>2, <2>1, <2>3, <1>0
    <3>2. Stale
      BY <1>2, <2>2, <3>1, <1>0 DEF Stale
    <3> QED BY <2>1, <2>3, <3>2, <1>0 DEF ReceivedInTime, Stale
  <2>4. CASE message'.receives < MaxReceive
    <3> DEFINE n == MaxReceive - 1 - message'.receives
    <3>1. n \in Nat /\ MaxReceive - 1 - message.receives = n + 1
      BY <1>2, <2>1, <2>4, <1>0
    <3>2. (n + 1) * conf.visibility = n * conf.visibility + conf.visibility
          /\ n * conf.visibility \in Nat
      BY <3>1, OneDelivery, <1>0
    <3>3. UntilLastReceive' = conf.visibility + n * conf.visibility
      BY <2>1 DEF UntilLastReceive
    <3>4. Stale' \/ conf.lease' < job'.age + UntilLastReceive'
      <4> HIDE DEF n
      <4> QED BY <1>2, <2>1, <2>2, <3>1, <3>2, <3>3, <1>0 DEF Stale
    <3> QED BY <2>1, <2>4, <3>4 DEF ReceivedInTime
  <2> QED BY <1>2, <2>1, <2>3, <2>4, <1>0
<1>7. ASSUME NEW w \in Worker, Claim(w)
      PROVE  FALSE
  <2>1. worker'[w].at = "working"
    BY <1>1, <1>7 DEF Claim, MoveTo
  <2> QED BY <2>1 DEF Abandoned, Busy
<1>8. ASSUME NEW w \in Worker, Refuse(w)
      PROVE  ReceivedInTime'
  <2>1. /\ UNCHANGED <<conf, job, message>> /\ ~Stale
        /\ job.status = "processing"
    BY <1>8 DEF Refuse, Claimable, Abandoned
  <2> QED BY <2>1 DEF ReceivedInTime, UntilLastReceive, Stale
<1>9. ASSUME NEW w \in Worker,
             \/ Fire(w) \/ RenewLease(w) \/ ChangeVisibility(w) \/ ChangeVisibilityRaises(w)
             \/ Complete(w) \/ Fail(w) \/ Crash(w)
      PROVE  FALSE
  BY <1>3, <1>9 DEF Fire, RenewLease, ChangeVisibility, ChangeVisibilityRaises, Complete, Fail,
                    Crash, Fault, Busy
<1> QED BY <1>4, <1>5, <1>6, <1>7, <1>8, <1>9 DEF Next

\* A worker at work is still at work after a step, or has completed or failed
\* the job, or crashed.
LEMMA LeavesWork ==
  ASSUME TInv, NEW w \in Worker, Busy(w), Next, Abandoned'
  PROVE  Crash(w)
<1>1. worker \in [Worker -> [at: At, clock: Nat, receipt: 0..MaxReceive]]
  BY DEF TInv, TypeOK
<1>2. ~Busy(w)' /\ job'.status = "processing"
  BY DEF Abandoned
<1>3. CASE Tick
  BY <1>1, <1>2, <1>3 DEF Tick, Busy
<1>4. CASE Redrive
  BY <1>2, <1>4 DEF Redrive, Busy
<1>5. ASSUME NEW v \in Worker, Receive(v) \/ Claim(v) \/ Refuse(v)
      PROVE  FALSE
  BY <1>1, <1>2, <1>5 DEF Receive, Claim, Refuse, MoveTo, ToIdle, Busy
<1>6. ASSUME NEW v \in Worker,
             Fire(v) \/ RenewLease(v) \/ ChangeVisibility(v) \/ ChangeVisibilityRaises(v)
      PROVE  FALSE
  BY <1>1, <1>2, <1>6 DEF Fire, RenewLease, ChangeVisibility, ChangeVisibilityRaises, MoveTo, Busy
<1>7. ASSUME NEW v \in Worker, Complete(v) \/ Fail(v)
      PROVE  FALSE
  BY <1>2, <1>7 DEF Complete, Fail
<1>8. ASSUME NEW v \in Worker, v # w, Crash(v)
      PROVE  FALSE
  BY <1>1, <1>2, <1>8 DEF Crash, ToIdle, Busy
<1> QED BY <1>3, <1>4, <1>5, <1>6, <1>7, <1>8 DEF Next

\* Only a claim makes a job be processed.
LEMMA StaysAbandoned ==
  ASSUME TInv, \A w \in Worker : ~Busy(w), Next, Abandoned'
  PROVE  job.status = "processing"
<1>1. /\ worker \in [Worker -> [at: At, clock: Nat, receipt: 0..MaxReceive]]
      /\ job \in [status: {"pending", "processing", "completed", "failed"}, age: Nat]
  BY DEF TInv, TypeOK
<1>2. job'.status = "processing"
  BY DEF Abandoned
<1>3. CASE Tick
  BY <1>1, <1>2, <1>3 DEF Tick
<1>4. CASE Redrive
  BY <1>2, <1>4 DEF Redrive
<1>5. ASSUME NEW w \in Worker, Claim(w)
      PROVE  FALSE
  BY <1>1, <1>5 DEF Claim, MoveTo, Abandoned, Busy
<1>6. ASSUME NEW w \in Worker, Receive(w) \/ Refuse(w) \/ Crash(w)
      PROVE  job.status = "processing"
  BY <1>2, <1>6 DEF Receive, Refuse, Crash
<1>7. ASSUME NEW w \in Worker,
             \/ Fire(w) \/ RenewLease(w) \/ ChangeVisibility(w) \/ ChangeVisibilityRaises(w)
             \/ Complete(w) \/ Fail(w)
      PROVE  FALSE
  BY <1>7 DEF Fire, RenewLease, ChangeVisibility, ChangeVisibilityRaises, Complete, Fail, Busy
<1> QED BY <1>3, <1>4, <1>5, <1>6, <1>7 DEF Next

\* Every step keeps the invariant.
LEMMA RecoveryStep ==
  ASSUME RInv, [Next]_vars
  PROVE  RInv'
<1>1. TInv' /\ FirstDelivery'
  BY StepInv, FirstDeliveryStep DEF RInv
<1>2. Recoverable'
  <2> SUFFICES ASSUME LastReceiveAfterLease', faults' <= 1, Abandoned' PROVE ReceivedInTime'
    BY DEF Recoverable
  <2>1. conf' = conf
    BY DEF Next, vars, Tick, Redrive, Receive, Claim, Refuse, Fire, RenewLease, ChangeVisibility,
           ChangeVisibilityRaises, Complete, Fail, Crash
  <2>2. LastReceiveAfterLease
    BY <2>1 DEF LastReceiveAfterLease
  <2>3. CASE UNCHANGED vars
    <3>1. Abandoned /\ faults <= 1
      BY <2>3 DEF vars, Abandoned, Busy
    <3> QED BY <2>2, <2>3, <3>1 DEF vars, RInv, Recoverable, ReceivedInTime, UntilLastReceive, Stale
  <2>4. CASE Next /\ \E w \in Worker : Busy(w)
    BY <2>2, <2>4, LeavesWork, CrashInTime DEF RInv
  <2>5. CASE Next /\ \A w \in Worker : ~Busy(w)
    <3>1. job.status = "processing"
      BY <2>5, StaysAbandoned DEF RInv
    <3>2. faults \in Nat /\ faults <= faults'
      BY <2>5 DEF Next, Tick, Redrive, Receive, Claim, Refuse, Fire, RenewLease, ChangeVisibility,
                  ChangeVisibilityRaises, Complete, Fail, Crash, Fault, RInv, TInv, TypeOK
    <3>3. Abandoned /\ faults = 1 /\ faults <= 1
      <4>1. faults # 0
        BY <2>5, <3>1 DEF RInv, FirstDelivery
      <4>2. faults' \in Nat
        BY <1>1 DEF TInv, TypeOK
      <4> QED BY <2>5, <3>1, <3>2, <4>1, <4>2 DEF Abandoned
    <3> QED BY <2>2, <2>5, <3>3, WaitInTime DEF RInv, Recoverable
  <2> QED BY <2>3, <2>4, <2>5
<1> QED BY <1>1, <1>2 DEF RInv

-----------------------------------------------------------------------------
(* The theorems.                                                           *)

\* The invariant holds of every reachable state.
THEOREM Invariance == Spec => []TInv
  BY InitInv, StepInv, PTL DEF Spec

\* A punctual worker keeps its claim under every configuration the validator
\* accepts, whatever else fails: its lease is never stale, and it is alone.
THEOREM LeaseIsKept == Spec => []LeaseKept
<1>1. TInv => LeaseKept
  BY Fresh DEF LeaseKept, TInv, PunctualState, Busy
<1> QED BY <1>1, Invariance, PTL

\* Until the first fault the message of a worker at work stays in flight.
THEOREM VisibilityIsKept == Spec => []VisibilityKept
<1>1. TInv => VisibilityKept
  BY Hidden DEF VisibilityKept, TInv, MessageState, Busy
<1> QED BY <1>1, Invariance, PTL

\* One crash does not strand a job when the intervals leave the last receive of
\* its message after the end of its lease: some worker finds it claimable
\* (claim_job) before the message is moved to the dead-letter queue.
THEOREM CrashesAreRecovered == Spec => []CrashRecovered
<1>1. Init => RInv
  <2> SUFFICES ASSUME Init PROVE RInv
    OBVIOUS
  <2>1. FirstDelivery /\ ~Abandoned
    BY DEF Init, FirstDelivery, Abandoned
  <2> QED BY <2>1, InitInv DEF RInv, Recoverable
<1>2. RInv => CrashRecovered
  BY DEF RInv, Recoverable, ReceivedInTime, Abandoned, CrashRecovered, Stranded
<1> QED BY <1>1, <1>2, RecoveryStep, PTL DEF Spec
=============================================================================
