------------------------------ MODULE Startup ------------------------------
(***************************************************************************)
(* How a process of the platform comes up from its settings and goes down  *)
(* again: an API task, a worker or a migration task, local or in the cloud. *)
(*                                                                         *)
(* Settings() is validated once; the role's own checks follow, then the    *)
(* pool, the publisher, the consumer and the artifact store are built one  *)
(* by one, each of which may find a setting missing, in the order of the   *)
(* role's code.  SIGTERM may come at any point of it.                       *)
(*                                                                         *)
(* A setting is present or not: an empty string counts as missing where    *)
(* the code tests truth (DATABASE_URL, SQS_QUEUE_URL, AWS_REGION, the      *)
(* bucket) and as present where it tests `is None` (the four DB parts).    *)
(***************************************************************************)
EXTENDS Naturals, Sequences

CONSTANTS
    DbPart,   \* the parts a connection string is put together from
    Roles     \* the kinds of process under study

ASSUME StartupAssumption == Roles \subseteq {"api", "worker", "migration"}

VARIABLES
    role,       \* what the process is
    settings,   \* what it finds in its environment
    at,         \* how far it is in the steps of its role
    outcome,    \* "none" until it ends, then how it ended
    pool,       \* its connection pool
    wired,      \* what it was connected to: database, publisher, consumer, store
    signalled   \* the shutdown flag

vars == <<role, settings, at, outcome, pool, wired, signalled>>

\* accepted: Settings() passes its own validators, LeaseTiming!ValidIntervals
\* among them.  url: DATABASE_URL unset (so the default), given, or empty.
Settings ==
    [accepted: BOOLEAN, mode: {"local", "cloud"}, url: {"default", "given", "empty"},
     parts: SUBSET DbPart, region: BOOLEAN, queue: BOOLEAN,
     backend: {"local", "s3"}, bucket: BOOLEAN]

Nothing == [database |-> "none", publisher |-> "none", consumer |-> "none", store |-> "none"]

\* The statements of create_app with its lifespan, run_idle_worker and
\* run_migrations that may raise or build something.
Steps ==
    [api       |-> <<"settings", "validate", "connect", "publisher", "open", "serve">>,
     worker    |-> <<"settings", "validate", "connect", "open", "store", "publisher",
                     "consumer", "serve">>,
     migration |-> <<"settings", "validate", "connect", "open", "serve">>]

Step == Steps[role][at]

TypeOK ==
    /\ role \in Roles /\ settings \in Settings
    /\ at \in 1..Len(Steps[role])
    /\ outcome \in {"none", "rejected", "raised", "killed", "stopped"}
    /\ pool \in {"none", "open", "closed"}
    /\ wired \in [database: {"none", "default", "given", "parts"},
                  publisher: {"none", "local", "noop", "sqs"},
                  consumer: {"none", "sqs"}, store: {"none", "local", "s3"}]
    /\ signalled \in BOOLEAN

Init ==
    /\ role \in Roles /\ settings \in Settings
    /\ at = 1 /\ outcome = "none" /\ pool = "none"
    /\ wired = Nothing /\ signalled = FALSE

IsCloud == settings.mode = "cloud"

-----------------------------------------------------------------------------
(* Faulty variants, each a mistake this code could plausibly make.  None is *)
(* used by the specification; each shows that some property would notice.  *)

\* The default url is a url like any other.
UsesAnyUrl == settings.url # "empty"

\* The builders raise outside the try whose finally closes the pool.
EndOutsideTry(how) == outcome' = how /\ UNCHANGED <<pool, at>>

\* Whoever is in the cloud publishes to the queue.
PublisherOfMode == IF IsCloud THEN "sqs" ELSE "local"

\* The flag is cleared as the loop starts.
AdvanceAndReset == at' = at + 1 /\ signalled' = FALSE /\ UNCHANGED outcome

\* The url is returned whatever it holds.
UrlOrEmpty == settings.url

-----------------------------------------------------------------------------
(* The checks of Settings.                                                 *)

\* In the cloud the default url does not count: it must have been set.
UsesUrl == settings.url # "empty" /\ (~IsCloud \/ settings.url = "given")

\* database_conninfo returns, and what it returns.
ValidDatabase == UsesUrl \/ settings.parts = DbPart
DatabaseConninfo == IF UsesUrl THEN settings.url ELSE "parts"

ValidQueue == settings.region /\ settings.queue

ValidArtifactStore == settings.region /\ settings.backend = "s3" /\ settings.bucket

\* Faulty: the worker leaves the artifact settings to the builder, which has a default.
ValidWithoutStore ==
    CASE role = "api"       -> IsCloud => ValidDatabase
      [] role = "worker"    -> IsCloud => ValidDatabase /\ ValidQueue
      [] role = "migration" -> ValidDatabase

\* validate_api_runtime, validate_worker_runtime, and validate_database itself.
ValidRuntime ==
    CASE role = "api"       -> IsCloud => ValidDatabase
      [] role = "worker"    -> IsCloud => ValidDatabase /\ ValidQueue /\ ValidArtifactStore
      [] role = "migration" -> ValidDatabase

-----------------------------------------------------------------------------
(* The steps.                                                              *)

Advance == at' = at + 1 /\ UNCHANGED <<signalled, outcome>>

\* The process ends; with an open pool, through the finally that closes it.
End(how) ==
    /\ outcome' = how
    /\ pool' = IF pool = "open" THEN "closed" ELSE pool
    /\ UNCHANGED at

Doing(step) == outcome = "none" /\ Step = step /\ UNCHANGED <<role, settings>>

\* A ValueError (or a ValidationError) that nothing catches.
Reject == End("rejected") /\ UNCHANGED <<wired, signalled>>

Proceed == Advance /\ UNCHANGED <<pool, wired>>

GetSettings ==
    /\ Doing("settings")
    /\ \/ settings.accepted /\ Proceed
       \/ ~settings.accepted /\ Reject

Validate ==
    /\ Doing("validate")
    /\ \/ ValidRuntime /\ Proceed
       \/ ~ValidRuntime /\ Reject

\* Database(settings.database_conninfo()): in local mode the first to look.
Connect ==
    /\ Doing("connect")
    /\ \/ /\ ValidDatabase
          /\ wired' = [wired EXCEPT !.database = DatabaseConninfo]
          /\ Advance /\ UNCHANGED pool
       \/ ~ValidDatabase /\ Reject

\* Database.open does not wait for a connection.
Open ==
    /\ Doing("open")
    /\ pool' = "open"
    /\ Advance /\ UNCHANGED wired

\* create_artifact_store.
BuildStore ==
    /\ Doing("store")
    /\ \/ /\ settings.backend = "s3" => ValidArtifactStore
          /\ wired' = [wired EXCEPT !.store = settings.backend]
          /\ Advance /\ UNCHANGED pool
       \/ settings.backend = "s3" /\ ~ValidArtifactStore /\ Reject

\* create_job_publisher: only the worker asks for direct_cloud_publish.
PublisherOfRole ==
    IF ~IsCloud THEN "local" ELSE IF role = "worker" THEN "sqs" ELSE "noop"

BuildPublisher ==
    /\ Doing("publisher")
    /\ \/ /\ PublisherOfRole = "sqs" => ValidQueue
          /\ wired' = [wired EXCEPT !.publisher = PublisherOfRole]
          /\ Advance /\ UNCHANGED pool
       \/ PublisherOfRole = "sqs" /\ ~ValidQueue /\ Reject

\* A local worker has no consumer: it sleeps instead of polling.
BuildConsumer ==
    /\ Doing("consumer")
    /\ \/ ~IsCloud /\ Proceed
       \/ /\ IsCloud /\ ValidQueue
          /\ wired' = [wired EXCEPT !.consumer = "sqs"]
          /\ Advance /\ UNCHANGED pool
       \/ IsCloud /\ ~ValidQueue /\ Reject

\* The while of the worker, the server of the API: until the flag is set.  A
\* migration task is at its end after its one transaction.
Stop ==
    /\ Doing("serve")
    /\ signalled \/ role = "migration"
    /\ End("stopped") /\ UNCHANGED <<wired, signalled>>

\* An iteration or the migration transaction raises; a request's exception does
\* not leave the API.
ServeRaises ==
    /\ Doing("serve")
    /\ role # "api"
    /\ End("raised") /\ UNCHANGED <<wired, signalled>>

\* The worker installs its handlers before its checks; the API's server runs
\* the shutdown half of the lifespan once it serves; the migration has none.
Handled ==
    \/ role = "worker" /\ at > 1
    \/ role = "api" /\ Step = "serve"

\* _request_shutdown: the flag is all that changes.
Signal ==
    /\ outcome = "none" /\ Handled /\ ~signalled
    /\ signalled' = TRUE
    /\ UNCHANGED <<role, settings, at, outcome, pool, wired>>

\* Without a handler the process is gone, and its connections with it.
Kill ==
    /\ outcome = "none" /\ ~Handled
    /\ outcome' = "killed"
    /\ UNCHANGED <<role, settings, at, pool, wired, signalled>>

Proceeds ==
    \/ GetSettings \/ Validate \/ Connect \/ Open
    \/ BuildStore \/ BuildPublisher \/ BuildConsumer \/ Stop

Next == Proceeds \/ ServeRaises \/ Signal \/ Kill

\* A process takes its next statement; an iteration of the loop comes to an end.
Spec == Init /\ [][Next]_vars /\ WF_vars(Proceeds)

-----------------------------------------------------------------------------
(* Properties.                                                             *)

\* A cloud process is wired to the cloud or does not serve, whatever its
\* environment lacks: it never reaches for the database of the development
\* compose file, the default of DATABASE_URL (database_conninfo); a worker that
\* serves sends to and receives from the queue and stores its reports in S3,
\* although create_artifact_store falls back to the task's own disk; and only
\* workers send, for an API task that published next to the outbox would have
\* every job sent twice (create_job_publisher).
WiredForItsMode ==
    /\ IsCloud => wired.database # "default"
    /\ IsCloud /\ role = "worker" /\ Step = "serve"
          => wired.publisher = "sqs" /\ wired.consumer = "sqs" /\ wired.store = "s3"
    /\ wired.publisher = "sqs" => role = "worker"

\* However a process ends by itself, it has closed the pool it opened, also when
\* a local worker asks for S3 and the store is refused after the open; a cloud
\* process that is refused never opened one: the checks of its role cover every
\* check that a builder makes later.  And the variables keep their types.
PoolClosed ==
    /\ TypeOK
    /\ outcome \notin {"none", "killed"} => pool # "open"
    /\ IsCloud /\ outcome = "rejected" => pool = "none"

\* A shutdown signal is never lost, also when it comes while the worker is still
\* starting: the process ends.
SignalledEnds == signalled ~> outcome # "none"
=============================================================================
