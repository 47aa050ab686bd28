------------------------------ MODULE Requests ------------------------------
(***************************************************************************)
(* The HTTP API of application/api: requests that run at the same time,    *)
(* each through the metrics and context middlewares, an endpoint, and one  *)
(* transaction on a connection of the pool (Database).                     *)
(*                                                                         *)
(* A transaction is a list of statements; their rows are the request's     *)
(* own (`writes') until the commit puts them into `db'.  A row names the   *)
(* request that wrote it, which stands for the uuid4() of the endpoint.    *)
(* The tables are the set of their rows, and of the workers' updates the   *)
(* API sees nothing that changes an answer's status.                       *)
(*                                                                         *)
(* Faults are errors of the database: a connection that cannot be had, a   *)
(* statement or a commit that raises, the commit before or after it took   *)
(* effect.  /health and /metrics touch none of this state.                 *)
(***************************************************************************)
EXTENDS Naturals, Sequences, FiniteSets

CONSTANTS
    Request,      \* the requests that may ever arrive
    Email,        \* the e-mail addresses of customers
    Correlation,  \* the x-correlation-id headers clients send
    None,         \* no header, no value
    PoolSize,     \* max_size of the connection pool (10 in the code)
    MaxFaults     \* bound on the errors of the database

ASSUME RequestsAssumption ==
    /\ PoolSize \in Nat \ {0} /\ MaxFaults \in Nat
    /\ None \notin Request \cup Email \cup Correlation

VARIABLES
    pc,           \* where each request is
    req,          \* what it asks for
    correlation,  \* correlation_id_var in the request's context
    carried,      \* the correlation id its endpoint read
    executed,     \* how many statements of its transaction it has executed
    writes,       \* the rows of its open transaction
    db,           \* the committed rows
    answer,       \* the status code the client gets, 0 before
    pool,         \* how many connections are free
    inFlight,     \* app_http_requests_in_flight
    counted,      \* app_http_requests_total by status class
    errors,       \* app_errors_total
    faults        \* how many faults there have been

requestVars == <<pc, req, correlation, carried, executed, answer>>
dbVars == <<writes, db, pool>>
metricVars == <<inFlight, counted, errors>>
vars == <<requestVars, dbVars, metricVars, faults>>

Kind == {"customer", "job", "get", "list", "ready"}

\* What a request of each kind is about: an address, or the job of a request.
Subject(k) == CASE k = "customer" -> Email
                [] k = "get" -> Request
                [] OTHER -> {None}

\* `after' says that the subject's job was already accepted at arrival.
Req == [kind: Kind, subject: Email \cup Request \cup {None},
        header: Correlation \cup {None}, after: BOOLEAN]

\* HTTP_REQUESTS counts by class: the hundreds of the status code.
Class(a) == a \div 100

Row == ({"customer"} \X Email \X Request) \cup ({"audit", "job"} \X Request)
       \cup ({"event"} \X (Request \cup Correlation \cup {None}) \X Request)

TypeOK ==
    /\ pc \in [Request -> {"new", "waiting", "executing", "committing", "leaving", "done"}]
    /\ req \in [Request -> Req]
    /\ correlation \in [Request -> Request \cup Correlation \cup {None}]
    /\ carried \in [Request -> Request \cup Correlation \cup {None}]
    /\ executed \in [Request -> 0..3]
    /\ writes \in [Request -> SUBSET Row]
    /\ db \subseteq Row
    /\ answer \in [Request -> {0, 200, 201, 202, 404, 409, 500, 503}]
    /\ pool \in 0..PoolSize
    /\ inFlight \in Nat
    /\ counted \in [{2, 4, 5} -> Nat]
    /\ errors \in Nat
    /\ faults \in 0..MaxFaults

Init ==
    /\ pc = [r \in Request |-> "new"]
    /\ req = [r \in Request |->
                 [kind |-> "list", subject |-> None, header |-> None, after |-> FALSE]]
    /\ correlation = [r \in Request |-> None]
    /\ carried = [r \in Request |-> None]
    /\ executed = [r \in Request |-> 0]
    /\ writes = [r \in Request |-> {}]
    /\ db = {}
    /\ answer = [r \in Request |-> 0]
    /\ pool = PoolSize
    /\ inFlight = 0
    /\ counted = [c \in {2, 4, 5} |-> 0]
    /\ errors = 0
    /\ faults = 0

Fault == faults < MaxFaults /\ faults' = faults + 1

Goto(r, l) == pc' = [pc EXCEPT ![r] = l]

-----------------------------------------------------------------------------
(* Faulty variants, each a mistake this code could plausibly make.  None is *)
(* used by the specification; each shows that some property would notice.  *)

\* The correlation id is a module variable instead of a ContextVar.
SetGlobal(r, c) == [q \in Request |-> c]

\* The UNIQUE constraint on the address is missing.
NeverTaken(r) == FALSE

\* A connection is not given back when its transaction is rolled back.
RollbackLeaking(r) ==
    /\ writes' = [writes EXCEPT ![r] = {}]
    /\ UNCHANGED <<db, pool>>

\* The endpoint gives the connection back, and so does the context manager.
RollbackTwice(r) ==
    /\ writes' = [writes EXCEPT ![r] = {}]
    /\ pool' = pool + 2
    /\ UNCHANGED db

\* A transaction that raised is left open, with its rows and locks.
RollbackForgotten(r) == pool' = pool + 1 /\ UNCHANGED <<db, writes>>

\* Each statement commits by itself.
ExecuteAutocommit(r, rows) == db' = db \cup rows /\ UNCHANGED writes

\* The commit's error is swallowed, and the request answered as a success.
RaisesAtCommitSwallowed(r) ==
    /\ pc[r] = "committing" /\ req[r].kind = "job" /\ Fault
    /\ writes' = [writes EXCEPT ![r] = {}]
    /\ pool' = pool + 1
    /\ answer' = [answer EXCEPT ![r] = 202]
    /\ Goto(r, "leaving")
    /\ UNCHANGED <<req, correlation, carried, executed, db, metricVars>>

\* The middleware counts a request that raised, but leaves it in flight.
CountNoDecrement(r) ==
    /\ inFlight' = IF answer[r] = 500 THEN inFlight ELSE inFlight - 1
    /\ counted' = [counted EXCEPT ![Class(answer[r])] = @ + 1]
    /\ errors' = IF answer[r] = 500 THEN errors + 1 ELSE errors

-----------------------------------------------------------------------------
(* The middlewares, around the endpoint.                                   *)

\* x-correlation-id, or the request's own id.
CorrelationId(r, header) == IF header = None THEN r ELSE header

\* correlation_id_var.set: in the context of this request.
SetContext(r, c) == [correlation EXCEPT ![r] = c]

Arrive(r) ==
    /\ pc[r] = "new"
    /\ \E k \in Kind : \E s \in Subject(k), h \in Correlation \cup {None} :
          /\ req' = [req EXCEPT ![r] =
                        [kind |-> k, subject |-> s, header |-> h,
                         after |-> k = "get" /\ pc[s] = "done" /\ answer[s] = 202]]
          /\ correlation' = SetContext(r, CorrelationId(r, h))
    /\ inFlight' = inFlight + 1
    /\ Goto(r, "waiting")
    /\ UNCHANGED <<carried, executed, answer, dbVars, counted, errors, faults>>

\* The finally of PrometheusMiddleware; an exception is counted as 500.
Count(r) ==
    /\ inFlight' = inFlight - 1
    /\ counted' = [counted EXCEPT ![Class(answer[r])] = @ + 1]
    /\ errors' = IF answer[r] = 500 THEN errors + 1 ELSE errors

Leave(r) ==
    /\ pc[r] = "leaving"
    /\ correlation' = SetContext(r, None)
    /\ Count(r)
    /\ Goto(r, "done")
    /\ UNCHANGED <<req, carried, executed, answer, dbVars, faults>>

-----------------------------------------------------------------------------
(* The endpoint and its transaction.                                       *)

Answer(r, a) == answer' = [answer EXCEPT ![r] = a] /\ Goto(r, "leaving")

\* create_customer, create_job and ready turn an error of the database into
\* 503; get_job and list_customers let it through.
ErrorAnswer(r) == IF req[r].kind \in {"customer", "job", "ready"} THEN 503 ELSE 500

Success(r) == CASE req[r].kind = "customer" -> 201
                [] req[r].kind = "job" -> 202
                [] OTHER -> 200

\* The rows that each statement of the transaction inserts.
Statements(r) ==
    CASE req[r].kind = "customer" -> <<{<<"customer", req[r].subject, r>>}, {<<"audit", r>>}>>
      [] req[r].kind = "job" -> <<{<<"job", r>>}, {<<"event", carried[r], r>>}, {<<"audit", r>>}>>
      [] OTHER -> <<{}>>

\* The pool has a connection; create_job has read correlation_id_var.
GetConnection(r) ==
    /\ pc[r] = "waiting" /\ pool > 0
    /\ pool' = pool - 1
    /\ carried' = [carried EXCEPT ![r] = correlation[r]]
    /\ Goto(r, "executing")
    /\ UNCHANGED <<req, correlation, executed, writes, db, answer, metricVars, faults>>

\* PoolTimeout: every connection is in use, or the database cannot be reached.
PoolTimeout(r) ==
    /\ pc[r] = "waiting"
    /\ (pool = 0 /\ UNCHANGED faults) \/ Fault
    /\ Answer(r, ErrorAnswer(r))
    /\ UNCHANGED <<req, correlation, carried, executed, dbVars, metricVars>>

CustomerRows(S, e) == {row \in S : row[1] = "customer" /\ row[2] = e}

\* The unique index on customers.email has the address.
Taken(r) == CustomerRows(db, req[r].subject) # {}

\* Another transaction is about to put it there, and must end first.
Locked(r) == \E q \in Request \ {r} : CustomerRows(writes[q], req[r].subject) # {}

\* The INSERT INTO customers is this request's next statement.
AtInsert(r) == pc[r] = "executing" /\ req[r].kind = "customer" /\ executed[r] = 0

JobMissing(r) == req[r].kind = "get" /\ <<"job", req[r].subject>> \notin db

Write(r, rows) == writes' = [writes EXCEPT ![r] = @ \cup rows] /\ UNCHANGED db

Execute(r) ==
    /\ pc[r] = "executing"
    /\ AtInsert(r) => ~Taken(r) /\ ~Locked(r)
    /\ ~JobMissing(r)
    /\ Write(r, Statements(r)[executed[r] + 1])
    /\ executed' = [executed EXCEPT ![r] = @ + 1]
    /\ Goto(r, IF executed[r] + 1 = Len(Statements(r)) THEN "committing" ELSE "executing")
    /\ UNCHANGED <<req, correlation, carried, pool, answer, metricVars, faults>>

\* Both context managers of Database.transaction end with an exception.
Rollback(r) ==
    /\ writes' = [writes EXCEPT ![r] = {}]
    /\ pool' = pool + 1
    /\ UNCHANGED db

\* UniqueViolation, which becomes DuplicateCustomerError and 409.
Duplicate(r) ==
    /\ AtInsert(r) /\ Taken(r)
    /\ Rollback(r)
    /\ Answer(r, 409)
    /\ UNCHANGED <<req, correlation, carried, executed, metricVars, faults>>

\* NotFoundError, which becomes 404.
NotFound(r) ==
    /\ pc[r] = "executing" /\ JobMissing(r)
    /\ Rollback(r)
    /\ Answer(r, 404)
    /\ UNCHANGED <<req, correlation, carried, executed, metricVars, faults>>

Committed(r) ==
    /\ db' = db \cup writes[r]
    /\ writes' = [writes EXCEPT ![r] = {}]
    /\ pool' = pool + 1

Commit(r) ==
    /\ pc[r] = "committing"
    /\ Committed(r)
    /\ Answer(r, Success(r))
    /\ UNCHANGED <<req, correlation, carried, executed, metricVars, faults>>

\* A statement raises.
Raises(r) ==
    /\ pc[r] = "executing" /\ Fault
    /\ Rollback(r)
    /\ Answer(r, ErrorAnswer(r))
    /\ UNCHANGED <<req, correlation, carried, executed, metricVars>>

\* The commit raises, and may have been carried out.
RaisesAtCommit(r) ==
    /\ pc[r] = "committing" /\ Fault
    /\ Committed(r) \/ Rollback(r)
    /\ Answer(r, ErrorAnswer(r))
    /\ UNCHANGED <<req, correlation, carried, executed, metricVars>>

Handle(r) ==
    \/ GetConnection(r) \/ PoolTimeout(r)
    \/ Execute(r) \/ Duplicate(r) \/ NotFound(r) \/ Commit(r)
    \/ Raises(r) \/ RaisesAtCommit(r)
    \/ Leave(r)

Next == \E r \in Request : Arrive(r) \/ Handle(r)

Spec == Init /\ [][Next]_vars

\* The server runs its requests; nobody has to send one.
FairSpec == Spec /\ \A r \in Request : WF_vars(Handle(r))

-----------------------------------------------------------------------------
(* Properties.                                                             *)

RowsOf(r) == UNION {Statements(r)[i] : i \in DOMAIN Statements(r)}

\* A request leaves all its rows or none: no customer and no job without its
\* audit row, no job without its event, wherever the database failed.
WholeOrNothing ==
    \A r \in Request : RowsOf(r) \cap db \in {{}, RowsOf(r)}

\* An answer is true of the database: accepted rows are committed; a customer
\* who was created is the only one with the address, whatever requests raced for
\* it; a conflict is with somebody's committed customer, and nothing was written;
\* and who was told 202 and then asks for the job is never told 404.
AnswersAreTrue ==
    \A r \in Request :
        /\ answer[r] \in {201, 202} => RowsOf(r) \subseteq db
        /\ answer[r] = 201 => Cardinality(CustomerRows(db, req[r].subject)) = 1
        /\ answer[r] = 409 => /\ CustomerRows(db, req[r].subject) # {}
                              /\ RowsOf(r) \cap db = {}
        /\ req[r].after => answer[r] # 404

\* The event that follows a job through the queue carries the correlation id of
\* the request that created the job, whatever requests run beside it
\* (RequestContextMiddleware, ApplicationService.create_job).
EventNamesItsRequest ==
    \A row \in db : row[1] = "event" => row[2] = CorrelationId(row[3], req[row[3]].header)

\* What a request takes is given back once, on every way out: a connection is
\* free or in use by one transaction, the gauge is the number of requests in the
\* house and the counters are those that left, also when an exception went
\* through the middleware.  And the variables keep their types.
Balanced ==
    /\ TypeOK
    /\ pool + Cardinality({r \in Request : pc[r] \in {"executing", "committing"}}) = PoolSize
    /\ inFlight = Cardinality({r \in Request : pc[r] \notin {"new", "done"}})
    /\ \A c \in {2, 4, 5} :
          counted[c] = Cardinality({r \in Request : pc[r] = "done" /\ Class(answer[r]) = c})
    /\ errors = Cardinality({r \in Request : pc[r] = "done" /\ answer[r] = 500})

\* Every request is answered: none waits for ever for a connection, or for the
\* transaction of another request with the same address.
EveryRequestAnswered == \A r \in Request : pc[r] = "waiting" ~> pc[r] = "done"
=============================================================================
