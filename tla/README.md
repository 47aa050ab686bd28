# A TLA+ model of the cloud reliability platform

The platform accepts jobs over HTTP, stores them in PostgreSQL, hands them to
workers through a transactional outbox and an SQS queue, and shows a client the
report each job produced. These modules model the part of it where things can go
wrong in an order nobody wrote a test for: leases, fencing tokens, redelivery,
crashes, heartbeats, retries.

Paths below are relative to the repository root (`src/` here).

## 1. Inventory

| Component | Code | State | Operations | What is hard | What makes it correct |
|---|---|---|---|---|---|
| Job tables | `application/shared/repository.py`, `migrations/*.sql` | `jobs`, `job_results`, `object_metadata`, `audit_events` | `create_job`, `mark_job_processing`, `renew_job_processing_lease`, `complete_job_with_report`, `fail_job`, `get_job` | expired leases, late completions and failures of an attempt that lost its claim | one completion, all of it from one attempt; nothing changes a completed job; only the owner ends a live claim |
| Job queue | `application/shared/adapters.py`, `infrastructure/modules/sqs` | messages, receive counts, visibility | send, receive, delete, change visibility, redrive | duplicates, lost answers, stale receipts, the dead-letter queue | no message of an unfinished job is deleted; none circulates for ever |
| Worker: consumption | `application/worker/main.py` `consume_one_message`, `claim_job`, `complete_claimed_job` | the locals of one message | receive, claim, report, complete, delete, fail | a call that raises before or after it took effect; a crash anywhere | no claim is left behind by a worker that polls again |
| Worker: heartbeat | `application/worker/main.py` `VisibilityHeartbeat` | a thread per claimed message | renew the lease, extend visibility | the thread outlives its join, or dies on a database error | it renews only the claim of a worker still on the job |
| Transactional outbox | `repository.py` `claim_outbox_events`, `mark_outbox_*`; `main.py` `dispatch_outbox` | `job_outbox`, the batch of each dispatcher | claim a batch, publish, mark | crash or lost answer between publish and mark; a batch that outlives its lease | no event lost, duplicates bounded by attempts, one owner per event |
| Runtime intervals | `application/shared/config.py`, `infrastructure/environments/development/{compute,queue}.tf` | heartbeat 30 s, visibility 60 s, lease 120 s, 3 receives | validation at start | off-by-one at equal intervals; retries that are spent before the lease ends | a punctual worker never loses its claim; a crash is recovered |
| Artifact store | `adapters.py` `put_csv_report` | objects under fresh keys | put | object stored, row not written | one object per attempt; the row's key leads to a stored report |
| Main loop | `main.py` `run_idle_worker` | which half it is in | dispatch, then one poll; SIGTERM | starvation of one half by the other; a crash in either half | both halves keep turning; no job falls between outbox and queue |
| Job and customer API | `application/api`, `database.py`, the middlewares of `logging.py` and `metrics.py` | the pool, the context of each request, gauges and counters | create job, get job, create and list customers, ready | duplicate email under concurrency; errors before and after a commit; contexts of concurrent requests; the pool at its limit | rows come whole, answers are true, connections come back |
| Migrations | `application/migrations.py` | `schema_migrations` | apply pending files under an advisory lock | several tasks at once, with images of different age; a task that breaks | each file is applied once, all or nothing; exit 0 means migrated |
| Configuration and start | `config.py`, the `create_*` functions of `adapters.py`, `create_app`, `run_idle_worker`, `run_migrations` | settings, what was built from them, the shutdown flag | validate, build, open, serve, close | a missing setting found late, or replaced by a default that is wrong in the cloud; a signal during the start | a cloud process is wired to the cloud or does not start; the pool is closed |
| Legacy stage | `services/platform_app` | same tables, no tokens | send after commit, process, fail | crash between commit and send; duplicate delivery; a failure written over a completion | no message goes without a result; only a crash leaves a job in processing with nobody at it |
| Release and Terraform workflows | `.github/workflows`, `scripts` | image tags, plan files, task revisions | build, push, plan, apply | partial push; plan applied to a state that moved | not modelled |
| Logging, metrics, tracing; infrastructure | `application/shared/{logging,metrics,telemetry}.py`, `infrastructure` | output, cloud resources | | | the two middlewares are in `Requests`, the rest is not modelled |

How they interact. The API writes a job and its outbox event in one transaction.
Every worker process runs one loop: dispatch a batch of outbox events to the
queue, then receive at most one message and process it; while it processes, a
heartbeat thread renews the job's lease in the database and the message's
visibility in the queue. Workers share nothing but the database, the queue and
the bucket. Nothing is atomic across two of these three.

## 2. Modules

| Module | Models | Used by |
|---|---|---|
| `JobStore` | the job tables; one operator per transaction | `Worker` |
| `JobQueue` | the SQS queue with its redrive policy, as the adapters use it | `Worker` |
| `Worker` | `consume_one_message` and `VisibilityHeartbeat` for any number of workers, with the environment that feeds them | `WorkerProofs`, `MCWorker` |
| `JobLifecycle` | abstract: what `GET /jobs/{job_id}` may show over time | `Worker` (refinement) |
| `Outbox` | `job_outbox` and `dispatch_outbox` for any number of dispatchers | `MCOutbox` |
| `EventDelivery` | abstract: what the outbox promises to the transaction that writes an event | `Outbox` (refinement) |
| `LeaseTiming` | one job and one message with clocks: heartbeat, visibility, lease, latency, receive count | `MCLeaseTiming` |
| `LegacyWorker` | the job path of `services/platform_app`, the first stage, for any number of workers and batches | `MCLegacyWorker` |
| `Platform` | composition: the API's transaction, `Outbox` and `Worker` over one database and one queue, one loop per process | `MCPlatform` |
| `Requests` | concurrent HTTP requests through middlewares, pool and transaction | `MCRequests` |
| `Migrations` | concurrent migration tasks | `MCMigrations` |
| `Startup` | an API, worker or migration process from its settings to its end | `MCStartup` |
| `WorkerProofs`, `OutboxProofs`, `LeaseTimingProofs`, `LegacyWorkerProofs`, `RequestsProofs`, `MigrationsProofs`, `StartupProofs` | theorems about the module in the name | the first two by `PlatformProofs` |
| `PlatformProofs` | theorems about `Platform`, by composition | |
| `MC*` | constants for TLC | |

### Correspondence to the code

`Worker`: a step is one transaction, one queue call or one call to the artifact
store, because these are the points at which another process can come in.
`pc[w]` is the place in `consume_one_message`: `idle` (about to poll), `received`
(has a message, about to run `mark_job_processing`), `refused` (got no row, about
to read the job), `discarding` (about to delete a duplicate), `reporting` (about
to put the report), `reported` (about to complete), `leaving` (the `with` block
ends), `deleting`, `failing` (about to call `fail_job`), `down`. `task[w]` holds
its locals: message, receipt, token, attempt, report key, outcome of the `with`
block. `heartbeats` is a set of threads and not a field of the worker because a
thread may outlive the worker's interest in it (`__exit__` joins with a timeout).
Every call that may raise has two outcomes, with and without its effect.

`JobStore` has no clock: the flag `expired` stands for
`processing_started_at < NOW() - lease` and may be raised at any moment while a
job is in processing, however punctual its worker. Every safety property
therefore holds for arbitrarily slow workers and arbitrarily short leases.
`LeaseTiming` is the module where time is counted.

`JobQueue` is external: standard SQS, no ordering, redelivery after the
visibility timeout, a receipt handle per receive; a delete with an old handle may
or may not remove the message. A second message of the same job is an element of
`Message` with the same `JobOf`.

`Outbox`: `batch[d]` are the rows returned by `claim_outbox_events` that
dispatcher `d` has not finished, `current[d]` the one it is at. `RETURNING` has
no order, so a batch is a set. `FOR UPDATE SKIP LOCKED` is the free choice to
leave out a claimable row that another dispatcher is marking.

`EventDelivery` knows neither rows nor dispatchers: an event is owed to the queue
from `create_job` on, it is kept once, after it was sent, and it is sent once and
once more per mishap at most. `Outbox!Delivery` maps a published row to a kept
promise, an absent row to none and every other status to one that is owed; claims,
leases and failed marks are stutters or mishaps.

`LeaseTiming`: `Tick` cannot pass the moment by which a worker must act: within
`Latency` of a receive it claims, at the heartbeat interval its thread fires,
within `Latency` of that the lease is renewed, and within another `Latency` the
visibility is extended. `Latency` is thus the longest from the moment one call takes
effect to the moment the next one does, waits not counted: the answer of the one and
the request of the other. Each of the two calls of a heartbeat (`main.py:77` and
`:90`) has its own. `Init` picks any configuration that `validate_runtime_intervals`
accepts with time to spare for the calls: `heartbeat + 2 * Latency < lease` and
`heartbeat + 3 * Latency < visibility`.

`LegacyWorker`: `pc[w]` is the place in the loop of `run`: `idle` (about to
receive a batch), `next` (about to take a message and run `mark_job_processing`),
`refused`, `processing` (about to run `complete_job`), `deleting`, `failing`,
`down`. `batch[w]` is what is left of the batch and `current[w]` the message at
hand. A job and its message are one value, since `send_job` is called once and
the body is the job id. The queue is the one of `JobQueue`, but `queue.py:21`
creates it without a redrive policy: the limit on receives only bounds the
exploration, and nothing moves to a dead-letter queue. The repository's
`README.md:706` calls this tree legacy; it is modelled because
`docs/operations/local-development.md` still describes and runs it, and because
the difference shows what the tokens of `Worker` are for.

A message whose body is no UUID belongs to no job: such messages are the set
`Malformed`. `bound[w]` is the local `job_id` of the loop, which the `finally` of
one message must forget before the next. `answer[m]` is what `POST /jobs` told
the client.

`Platform` instantiates `Worker` and `Outbox` with one set of processes and adds
only `turn`, the half of the loop that a process is in. `DispatchOutbox` is a step
of `Outbox`; if it sends, `Deliver` puts the message `<<job, n>>` on the queue, `n`
counting the sends of that event. `ConsumeMessage` is a step of `Worker`. The two
counters of faults are one: a crash takes both halves down. `CreateJob` conjoins
the two modules' views of one transaction.

`Requests`: `pc[r]` is `waiting` (for a connection), `executing`, `committing`,
`leaving` (back through the middlewares). A transaction's rows are in `writes[r]`
until the commit moves them to `db`; a row names the request that wrote it, which
stands for its `uuid4()`. `Locked` is PostgreSQL's: an insert of a key that an
open transaction has inserted waits for that transaction's end. A fault is a
connection that cannot be had, a statement that raises, or a commit that raises
before or after it took effect. `/health` and `/metrics` have no state.

`Migrations`: files are numbered in the order of their names and an image holds
the first so many of them, so old and new releases run side by side. `prepared`
is what the entry point of the Postgres container made before any task ran
(`docker-compose.yml`), without versions. `RunAgain` is the release procedure:
`docs/operations/development-deployment-input-contract.md` makes the exit of the
migration task a gate for the services.

`Startup`: `Steps` lists for each role the statements that build something or may
raise, in the order of the code; `at` is the position. A setting is present or
missing; `url` also tells the default from a given value, which is what
`model_fields_set` is read for. `Reject` is a `ValueError` that ends the process,
through the `finally` if the pool is open. Settings that no later statement can
refuse (names, log level, tracing) are left out.

Each module that has runs also holds a few *faulty variants*, plausible mistakes
in one operator (a missing lease condition, an unfenced update, a swapped order).
No specification uses them; each was substituted for the operator it varies and
found to violate the property listed beside it in `PROJECT.json`; where a property
joins several facts there are variants against more than one of them. In the
modules without a `TypeOK` run of its own, type correctness is the first conjunct
of one of the invariants (it bounds attempts by receives and connections by the
pool, for instance).

## 3. Runs

| Run | Instance | Shows |
|---|---|---|
| `redelivery` | 1 job, 1 message, 2 workers, 3 receives, 1 crash | fencing, atomic completion, final completion, no claim left behind, refinement of `JobLifecycle` |
| `settling` | 1 job, 1 message, 2 workers, 2 receives, 1 crash, fairness | no message circulates for ever |
| `outbox` | 3 events, 2 dispatchers, batches of 2, 2 faults, fairness | claims exclusive, published is final and was sent, refinement of `EventDelivery` (sends bounded by faults); every event is published in the end |
| `timing` | all valid intervals up to 4, 10 and 10 units, latency 1, 3 receives, 2 faults | a punctual worker keeps lease and message; the condition under which one crash is recovered |
| `timing_deployed` | heartbeat 1, visibility 2, lease 4 units of 30 s, 3 receives, 1 fault | a violation: see section 6 |
| `legacy` | 1 job and 1 message that is no job's, 2 workers, batches of 2, 3 receives, 1 crash | what the first stage does guarantee: no message goes without a result, a client that was told 202 is not forgotten, only a crash leaves a job in processing with nobody to complete or fail it, and a failure does not reach the other message of a batch |
| `legacy_once` | 1 job, 1 worker, 3 receives, no crash | a violation: see section 6 |
| `platform` | 1 job, 2 processes, 1 receive per message, 1 fault | no job is lost between outbox and queue; duplicates and attempts are bounded end to end; with two messages in two workers a job is still completed whole, and the second message goes only after that |
| `platform_liveness` | 1 job, 1 process, 1 receive per message, 1 fault, fairness | the loop gives both halves their fairness; an accepted job settles (completed, or its messages in the dead-letter queue), also when the only process crashes or a call fails; the lease waited for is the outbox's |
| `requests` | 3 requests, pool of 2, 1 address, 1 header, 1 fault, fairness | whole transactions, true answers, separate contexts, balanced pool and metrics; every request is answered |
| `migrations` | 3 tasks, images of 1 to 3 files, 2 faults, fairness | no task fails but for a fault; each file once; versions and schema agree; exit 0 means migrated; every task succeeds in the end |
| `startup` | every combination of settings, 3 roles, a signal anywhere | a cloud process is wired to the cloud or refused before it opens a pool; pools are closed; signals are not lost |

Bounds and why they are enough. A token conflict needs two attempts of one job
and a third to show that nothing returns to an old one: three receives give three
attempts. Two workers are needed for every interleaving hazard listed in
`PROJECT.json`; workers are interchangeable, so a third only adds a bystander
(the proofs cover any number). One crash can be placed at any step, and each
raised exception is a second way for a worker to give up, without a bound. Jobs
share no row, so the second job would only multiply the states. (A second message
of one job is in `platform`.) In `outbox`,
three events and batches of two give a full batch with a rest, `ORDER BY` and
`LIMIT` something to choose, and two batches in flight at once. In `timing`, the
intervals are large enough for every order of heartbeat, visibility end and lease
end, and for configurations on both sides of `LastReceiveAfterLease`. In `legacy`,
the third receive is needed to have two workers in processing at one job: one
attempt, a refused delivery that fails it, and the next attempt; the message that
is no job's makes batches of two without a second job. That one crash strands no
more than one job of a larger batch is beyond this instance, and proved
(`OnlyCrashesStrand`).
In `platform`, one receive per message and one fault already give a second message
of the job, after a crash of the dispatcher or a failed mark, and a dead letter,
after a crash of the consumer; two processes are every interleaving of dispatcher
and consumer. A message is not redelivered there: with two receives each run
outgrows its time, so redelivery is in `redelivery` and `settling`, and in the
theorems about `Platform`. In `requests`, two requests meet at the address while the third takes
the last connection or finds none; one of them, which creates a job, may carry an
`x-correlation-id` (`OneHeader` in `MCRequests`). In `migrations`, three files give an image between the oldest and the newest. In
`startup` nothing is bounded. `platform_liveness` has one process: alone it cannot
rely on another to finish what its crash left behind.

Runs that check liveness use no symmetry. Two of them explore one order of
indistinguishable newcomers instead: events are created as `e1`, `e2`, `e3`
(`CreatedInOrder`) and requests arrive as `r1`, `r2`, `r3` (`ArrivedInOrder`). No
fairness makes anybody create an event or send a request, so these constraints
cut off no step that has to happen.

`MaxCrashes` and `MaxFaults` are the only bounds that are not the program's own;
in `Outbox` the latter counts crashes, calls that raise and leases that end under
a live dispatcher, which are what makes attempts and sends grow.

Deadlock is not checked: messages, events and faults are finite in each instance,
so the system rightly comes to rest when they are used up.

Fairness. `Worker!Fairness` is weak fairness of each worker's next step and of
restarts (the loop of `run_idle_worker` has no exit but a signal, a long poll
returns a visible message, ECS replaces a stopped task), and of the end of
visibility timeouts and the redrive policy (SQS). Nothing is assumed of leases,
heartbeats, the API or the outbox. `Outbox!Fairness` is weak fairness of each
dispatcher's loop and of restarts, and of the end of a lease that no dispatcher
attends to (time passes). `Platform!Fairness` does not assume these two:
`NeitherHalfStarves` derives them from weak fairness of the one loop, of restarts,
of time and of the queue, and from strong fairness of a poll that returns a
message (a long poll may be empty, but not for ever while messages are visible).
`Requests` assumes that the server runs its requests (thread pool of the server),
`Migrations` that a task goes on, that PostgreSQL grants the advisory lock to a
waiting task in the end (strong fairness: other tasks may take it in between; the
lock queue is first come, first served) and that a failed task is run again,
`Startup` that a process takes its next statement and that an iteration of the
loop ends. The number of faults is finite, without which no
retrying program makes progress.

## 4. Proofs

Every safety property and every action property that a passing run checks is
also a theorem: it holds for all values of the constants, any number of workers,
dispatchers, tasks, requests, messages and faults, and not only in the instance
of the run. Each module `XProofs` has an inductive invariant (`IInv`, `TInv` in
`LeaseTimingProofs`), the lemmas that its initial states satisfy it and every
action preserves it, the theorem `Invariance` that puts them together, and a
theorem for each property. The only assumptions are the `ASSUME`s of the models
(`WorkerAssumption`, `MaxReceiveAssumption`, `OutboxAssumption` and so on), which
TLC evaluates in the runs.

| Module | Theorem | Property |
|---|---|---|
| `WorkerProofs` | `TypeCorrect` | `TypeOK` |
| | `CompletionIsAtomic` | `AtomicCompletion` |
| | `ClaimsAreFenced` | `FencedClaims` |
| | `RenewalsHaveOwners` | `RenewalNeedsOwner` |
| | `DeletesAreSafe` | `DeletedOnlyCompleted` |
| | `ReportsAreUnique` | `OneReportPerAttempt` |
| | `CompletionIsFinal` | `CompletedIsFinal` |
| | `LiveClaimsEndByOwner` | `LiveClaimEndsByOwner` |
| | `ClaimsAreLetGo` | `NoClaimLeak` |
| | `WorkersImplementLifecycle` | `ImplementsLifecycle` (refinement of `JobLifecycle`) |
| | `AttemptsArePaid` | attempts are at most the deliveries of the job's messages |
| `OutboxProofs` | `PublishedEventsWereSent` | `PublishedWasSent` |
| | `SendsAreClaimed` | sends are at most the claims of the event |
| | `EventsHaveOneOwner` | `OneOwner` |
| | `PublishedStays` | `PublishedIsFinal` |
| | `ClaimsEndByOwner` | `ClaimEndsByOwner` |
| | `SendsAreOwed` | at most one send, and one more per fault |
| | `OutboxImplementsDelivery` | `ImplementsDelivery` (refinement of `EventDelivery`) |
| `LeaseTimingProofs` | `LeaseIsKept`, `VisibilityIsKept` | `LeaseKept`, `VisibilityKept` |
| | `CrashesAreRecovered` | `CrashRecovered` |
| `LegacyWorkerProofs` | `AcceptedJobsAreNotForgotten` | `AcceptedIsNotForgotten` |
| | `OnlyCrashesStrand`, `JobsFailByTheirWorker` | `StrandedByCrashes`, `FailuresAreOwn` |
| `RequestsProofs` | `RequestsAreAtomic` | `WholeOrNothing` |
| | `ClientsAreToldTheTruth` | `AnswersAreTrue` |
| | `EventsNameTheirRequests` | `EventNamesItsRequest` |
| | `AccountsBalance` | `Balanced` |
| `MigrationsProofs` | `TasksDoNotConflict` | `NoTaskConflicts` |
| | `VersionsAreTrue` | `VersionsTellTheSchema` |
| | `SuccessIsMigrated` | `SuccessMeansMigrated` |
| `StartupProofs` | `CloudIsWiredToCloud`, `PoolIsClosed` | `WiredForItsMode`, `PoolClosed` |
| `PlatformProofs` | `JobsAreNotForgotten` | `NoJobForgotten` |
| | `WorkStaysBounded` | `WorkIsBounded` |
| | `DuplicatesDoNoHarm` | `DuplicatesAreHarmless` |
| | `ComponentsAreImplemented` | `Spec => W!Spec /\ D!Spec` |
| | `GuaranteesCarryOver` | the action properties and both refinements, of the platform |

The arguments, and why the invariants are what they are:

**Worker.** `IInv` adds to the properties what makes them inductive:
`TaskShape` (what a program counter says about the locals: a worker has a token
exactly between its claim and its return), `TokenState` (a row has a token
exactly while it is in processing, and no token in use is ahead of `tokenSeq`,
so the next one is new), `ClaimState` (a claimant's attempt is at most the row's,
and equal exactly when the tokens are), `NothingShared` (no two claimants share a
token or an attempt of a job), `DeleteKnowledge` (a worker about to delete knows
the job to be completed, which no later step undoes) and `ReportState` (a stored
report belongs to an attempt that was made; the one being written is new). A claim
draws a token nobody has, so `NothingShared` survives it; every other write of a
row is fenced by that token, so at most one worker can make it, the one of the
last attempt; its report is the one `ReportState` describes, which gives
`AtomicCompletion`; and once a row is completed its token is null, no fence lets
anybody in, and `Claimable` is false, which gives `DeletedOnlyCompleted` and
`CompletedIsFinal`.

*Single steps.* `Effect` lists what a step can do to the tables and the bucket:
nothing, store a report, move a lease, create a job, claim, or finish. Each action
property and the refinement is then a case for each effect and not for each of the
two dozen actions. In the refinement, a claim maps to `JobLifecycle`'s attempt, the
two ways to finish to its completion and its failure, `StoreArtifact` to the
storing of a report, and everything else stutters; that the report a client is
shown is the one of the last attempt comes from `AtomicCompletion` and
`ReportState`.

*Attempts.* `attempts <= deliveries` alone is not inductive: a worker that has
received a message and not come to the claim is about to add an attempt. The
invariant counts these workers (`MayClaim`) with the attempts: a receive adds one
to both sides, a claim moves one from the workers to the attempts, everything else
only takes workers away.

**Outbox.** The same counting: what was sent and the dispatchers that may still
send (`MaySend`) are together within the attempts (`Budget`). That nothing marked
published is unsent needs `SentBeforeMark`; the exclusive claims need that tokens
do not come back (`TokenState`). `ClaimsOwed` says for each status of a row whether
its next claim is paid for: an event that failed, or is being published by nobody,
or has an expired lease, has had fewer claims than there were faults plus one.
Every fault pays for one more claim of *every* event, since one crash abandons a
whole batch.

*Refinement.* `DeliveryStep` maps each action of `Outbox` to one of `EventDelivery`
or to a stutter: `CreateEvent` to `Accept`, `Publish` to `Send`, a mark that finds
its claim to `Keep`, a fault to `Mishap` (a call that raises after it took effect is
both, hence `PerhapsMishap`), the rest to nothing. The guard of `Send` is where the
invariants are needed: `Budget` leaves a dispatcher that is about to send one send
within the attempts, and `ClaimsOwed` keeps the attempts within the faults plus one
(`MaySendMore`). The guard of `Keep` is `SentBeforeMark`.

**LeaseTiming.** `TInv` bounds, at each place a worker can be in, the age of its
lease (`LeaseAge`) and the time since its message was hidden (`HiddenFor`). The
first stays within one heartbeat and two latencies, the second within one heartbeat
and three, and `Init` makes the lease and the visibility timeout longer than that.
Between a renewal and the extension after it the lease is as old as the renewal, so
the message has been hidden at most one heartbeat and two latencies longer than the
lease has run, wherever the crash falls; this is what `LastReceiveAfterLease` allows
for. For `CrashRecovered` the invariant follows
the message of the crashed worker through its remaining deliveries
(`ReceivedInTime`): the time until it becomes visible for the last time, at least
`UntilLastReceive`, is longer than what is left of the lease, so the last receive
finds the lease stale. Each delivery in between takes one timeout off
`UntilLastReceive` and adds it to the wait.

**LegacyWorker.** There are no tokens, so the queue bounds the attempts: a worker
with a message in its batch paid for its claim by a receive, and a claim pays for
one completion (`Budgets`). A job has a result before it is completed or its
message deleted (`ResultFirst`), and no place of the loop has a `job_id` that is not
of the message at hand (`Locals`). The crashes in turn pay for the jobs that nobody
attends to (`StrandedFew`): a claim makes its worker attend to the job, a worker
stops attending only by completing or failing it, and one that crashes has one
`job_id` at most.

**Requests.** Every row names the request that wrote it, so the tables split into
the rows of each request (`OwnRows`), which are none or all of its rows (`Tables`).
The unique key works through `OneCustomer`: a transaction that has inserted an
address is the only one to have done so, also among those not yet committed.
`Accounts` equates the pool, the gauge and the counters with the sizes of sets of
requests; they are finite although the requests need not be.

**Migrations.** Whoever has the advisory lock is the only one in a transaction
(`OneAtATime`), so the versions it read are still all there are
(`ReadIsCurrent`), and the tables follow the versions (`Recorded`).

**Startup.** The position in `Steps` tells what was checked, opened and built
(`Progress`), and the checks come before everything that may refuse later.

**Platform.** The proof is by composition. Every step of the platform is a step of
the worker pool or leaves it alone, and a step of the outbox or leaves it alone
(`Sides`), so the invariants of both, instantiated with the platform's variables
(`WP`, `DP`), are kept without being proved again; their assumptions about the
constants follow from `PlatformAssumption` (`Constants`). What is new is the link:
a job is in its table when its event is (`SameJobs`), and the messages that exist
are those the outbox has counted (`SentMessages`). That `Deliver` always has a
message left to send is `SendsAreOwed`. `NoJobForgotten` follows: a published event
was sent, so its first message is in the queue, and it is only deleted when the job
is completed. `Platform` uses the instances `W` and `D` of the
models, the theorems `WP` and `DP` of the same models; the lemmas `Same...` identify
them. By `ComponentsAreImplemented`, what is proved of a component alone holds
in the composition; `GuaranteesCarryOver` states the action properties and the two
refinements there.

Only model-checked: the liveness properties (`SentSettles`, `EventuallyPublished`,
`NeitherHalfStarves`, `AcceptedJobSettles`, `EveryRequestAnswered`,
`EveryTaskSucceeds`, `SignalledEnds`), since the prover reaches neither liveness under
fairness nor `ENABLED`. The two violations of section 6 are counterexamples and have
nothing to prove.

## 5. Not modelled

- Contents of jobs, reports and log lines; error texts; timestamps other than
  those a condition reads.
- `process_job`, which the worker loop does not call.
- The loop of local mode, without a queue (it only dispatches to a list); its
  start and its end are in `Startup`.
- Isolation inside a transaction of `Worker` and `Outbox`: each is one `UPDATE` of
  one row, or inserts behind such an `UPDATE`, so row locks serialise them. The
  transactions of several statements that can meet (customers, migrations) are
  modelled statement by statement, in `Requests` and `Migrations`.
- The retry after `TypeError` in `ApplicationService.create_job`
  (`service.py:17`), which serves repositories of the tests that take no
  correlation id.
- The `x-request-id` that a client may supply (`logging.py:65`): it goes to the log and
  the response, and to the event if there is no `x-correlation-id`. A request without
  that header has an id of its own in `Requests`.
- An empty string in a `DB_*` setting: `database_conninfo` tests `is None`, so it
  counts as present and libpq's default takes its place.
- The metrics server, the tracing setup, the log formatter and the worker's
  counters: best effort output, which the code keeps from stopping anything.
- Customers, list and readiness of the legacy API: the same as in `Requests`.
- The release and Terraform workflows: scripts without concurrency of their own,
  whose guarantees (immutable tags, one run per ref, refusal of a stale plan) are
  those of ECR, GitHub and Terraform.
- The components marked `not_modelled` in `PROJECT.json`, with their reasons.

## 6. Findings

`timing_deployed`: `infrastructure/README.md:854` says that another worker can
reclaim a job after `JOB_PROCESSING_LEASE_SECONDS` if its worker crashes. With
the deployed values (visibility 60 s, lease 120 s, three receives) the message of
a job whose worker crashed in its first delivery comes back after 60 and after
120 seconds; the lease condition is strict (`repository.py:210`), both deliveries
are refused, and the message moves to the dead-letter queue. The job stays in
`processing`, and no message is left that would bring a worker to it. The trace
has its last refusal exactly at the limit, where real latencies decide; the
margin is on the wrong side by 30 seconds when the crash falls between the
renewal of the lease and `ChangeMessageVisibility`, and by 60 seconds when it
falls in the second delivery. `CrashRecovered` in run `timing` gives the
condition that rules this out for a single crash:
`lease + heartbeat + 2 * latency < (maxReceiveCount - 1) * visibility`, beside
`heartbeat + 3 * latency < visibility`, without which the message comes back under a
punctual worker. Four receives would meet both with up to 9 seconds of `Latency` (of
the second condition; the first would bear 14).

`legacy_once`: `docs/operations/local-development.md:131` says that a completed
job that is redelivered is treated as a duplicate and ignored. In the first stage
an exception after the completion (of `delete_message`, `worker/main.py:66`, or of
`complete_job` when only its answer is lost) leads to `fail_job`
(`worker/main.py:69`), which has no condition on the status
(`db/repository.py:161-172`). The completed job becomes failed, its redelivery is
claimable, and it is completed a second time. What saves the client is
`ON CONFLICT (job_id) DO NOTHING` (`db/repository.py:137`), which keeps the first
result. The current worker fences the update with its token, and `CompletedIsFinal`
holds there, by proof.

## 7. Plan

Done in this order: job tables, queue, worker, lifecycle, worker proofs, outbox,
timing, legacy worker; then the composition (`Platform`), the API (`Requests`),
`Migrations`, `Startup`, and the legacy API; then the proofs, of all safety and
action properties and of the two refinements (`JobLifecycle`, `EventDelivery`).
To come:

1. `Requests` and `Platform` have two views of `create_job`, by statements and as
   one step; a refinement between the two.
