--------------------------- MODULE RequestsProofs ---------------------------
(***************************************************************************)
(* Proofs about module Requests, for any sets of requests, addresses and   *)
(* correlation ids, any size of the pool and any bound on the faults.      *)
(*                                                                         *)
(* A row names the request that wrote it, so the committed rows fall into  *)
(* those of each request (OwnRows), which are none or all that its         *)
(* statements insert (Tables).  What the pool and the metrics count are    *)
(* finite sets of requests, whether or not there are finitely many         *)
(* requests in all (Accounts).                                             *)
(***************************************************************************)
EXTENDS Requests, FiniteSetTheorems, TLAPS

\* The request a row names.
Owner(row) == IF row[1] \in {"audit", "job"} THEN row[2] ELSE row[3]

\* The committed rows of a request.
OwnRows(r) == {row \in db : Owner(row) = r}

\* The rows of the statements that a request has executed.
Executed(r) == UNION {Statements(r)[i] : i \in 1..executed[r]}

\* What a request has done at each place of its way, and nothing else.
Place(r) ==
    /\ req[r].kind = "customer" => req[r].subject \in Email
    /\ req[r].kind = "get" => req[r].subject \in Request
    /\ pc[r] \in {"new", "waiting"} => executed[r] = 0
    /\ pc[r] = "executing" => executed[r] < Len(Statements(r))
    /\ pc[r] = "committing" => executed[r] = Len(Statements(r))
    /\ writes[r] = IF pc[r] \in {"executing", "committing"} THEN Executed(r) ELSE {}
    /\ answer[r] # 0 <=> pc[r] \in {"leaving", "done"}

Shape == \A r \in Request : Place(r)

\* The request's id is in its context until the endpoint has read it.
Context ==
    \A r \in Request :
        LET id == CorrelationId(r, req[r].header) IN
        /\ pc[r] = "waiting" => correlation[r] = id
        /\ pc[r] \in {"executing", "committing"} => carried[r] = id

\* The committed rows of a request are none or all of its rows, and which of
\* the two its answer may tell.
Tables ==
    \A r \in Request :
        /\ OwnRows(r) \in {{}, RowsOf(r)}
        /\ pc[r] \notin {"leaving", "done"} => OwnRows(r) = {}
        /\ answer[r] \in {201, 202} => OwnRows(r) = RowsOf(r)
        /\ answer[r] = 409 => OwnRows(r) = {}

\* No address has two customers, and a transaction that inserted one is the
\* only one to have done so.
OneCustomer ==
    /\ \A x, y \in db : x[1] = "customer" /\ y[1] = "customer" /\ x[2] = y[2] => x = y
    /\ \A r \in Request : \A x \in writes[r] : x[1] = "customer" =>
          /\ CustomerRows(db, x[2]) = {}
          /\ \A q \in Request \ {r} : CustomerRows(writes[q], x[2]) = {}

\* What an answer says of the request and of the tables.
Told ==
    \A r \in Request :
        /\ answer[r] = 201 => req[r].kind = "customer"
        /\ answer[r] = 202 => req[r].kind = "job"
        /\ answer[r] = 409 => /\ req[r].kind = "customer"
                              /\ CustomerRows(db, req[r].subject) # {}
        /\ req[r].after => req[r].kind = "get" /\ ~JobMissing(r) /\ answer[r] # 404

\* The requests with a connection, those that are counted as in flight, those
\* that left with an answer of a class and those that left with an error.
Busy == {r \in Request : pc[r] \in {"executing", "committing"}}
InHouse == {r \in Request : pc[r] \notin {"new", "done"}}
Left(c) == {r \in Request : pc[r] = "done" /\ Class(answer[r]) = c}
Failed == {r \in Request : pc[r] = "done" /\ answer[r] = 500}

Accounts ==
    /\ IsFiniteSet(Busy) /\ pool + Cardinality(Busy) = PoolSize
    /\ IsFiniteSet(InHouse) /\ inFlight = Cardinality(InHouse)
    /\ \A c \in {2, 4, 5} : IsFiniteSet(Left(c)) /\ counted[c] = Cardinality(Left(c))
    /\ IsFiniteSet(Failed) /\ errors = Cardinality(Failed)

IInv == /\ TypeOK /\ Shape /\ Context /\ Tables /\ OneCustomer /\ Told
        /\ EventNamesItsRequest /\ Accounts

-----------------------------------------------------------------------------
(* Lemmas about the operators.                                             *)

\* What a statement inserts: a row of its request, a customer only by the first
\* statement of create_customer, an event with the id that create_job has read.
Inserts(r, i, row) ==
    /\ row \in Row /\ Owner(row) = r
    /\ row[1] = "customer" => /\ req[r].kind = "customer" /\ i = 1
                              /\ row[2] = req[r].subject /\ row = <<"customer", row[2], r>>
    /\ row[1] = "event" => row[2] = carried[r] /\ row[3] = r

\* A transaction has one to three statements, and each inserts such rows.
LEMMA StatementRows ==
    ASSUME TypeOK, Shape, NEW r \in Request
    PROVE  /\ Len(Statements(r)) \in 1..3 /\ DOMAIN Statements(r) = 1..Len(Statements(r))
           /\ \A i \in 1..Len(Statements(r)) : \A row \in Statements(r)[i] : Inserts(r, i, row)
<1>1. /\ carried[r] \in Request \cup Correlation \cup {None}
      /\ req[r].kind = "customer" => req[r].subject \in Email
  BY DEF TypeOK, Shape, Place
<1>2. CASE req[r].kind = "customer"
  <2>1. Statements(r) = <<{<<"customer", req[r].subject, r>>}, {<<"audit", r>>}>>
    BY <1>2 DEF Statements
  <2>2. Inserts(r, 1, <<"customer", req[r].subject, r>>) /\ Inserts(r, 2, <<"audit", r>>)
    BY <1>1, <1>2 DEF Inserts, Row, Owner
  <2> QED
    BY <2>1, <2>2
<1>3. CASE req[r].kind = "job"
  <2>1. Statements(r) = <<{<<"job", r>>}, {<<"event", carried[r], r>>}, {<<"audit", r>>}>>
    BY <1>3 DEF Statements
  <2>2. /\ Inserts(r, 1, <<"job", r>>) /\ Inserts(r, 2, <<"event", carried[r], r>>)
        /\ Inserts(r, 3, <<"audit", r>>)
    BY <1>1 DEF Inserts, Row, Owner
  <2> QED
    BY <2>1, <2>2
<1>4. CASE req[r].kind \notin {"customer", "job"}
  <2>1. Statements(r) = <<{}>>
    BY <1>4 DEF Statements
  <2> QED
    BY <2>1
<1> QED
  BY <1>2, <1>3, <1>4

\* The rows of a request name it; those of a customer and of a job are there.
LEMMA RowsOfRequest ==
    ASSUME TypeOK, Shape, NEW r \in Request
    PROVE  /\ \A row \in RowsOf(r) : \E i \in 1..3 : Inserts(r, i, row)
           /\ req[r].kind = "customer" => <<"customer", req[r].subject, r>> \in RowsOf(r)
           /\ req[r].kind = "job" => <<"job", r>> \in RowsOf(r)
<1>1. \A row \in RowsOf(r) : \E i \in 1..3 : Inserts(r, i, row)
  BY StatementRows DEF RowsOf
<1>2. 1 \in DOMAIN Statements(r)
  BY StatementRows
<1>3. Statements(r)[1] \subseteq RowsOf(r)
  BY <1>2 DEF RowsOf
<1>4. req[r].kind = "customer" => <<"customer", req[r].subject, r>> \in Statements(r)[1]
  BY DEF Statements
<1>5. req[r].kind = "job" => <<"job", r>> \in Statements(r)[1]
  BY DEF Statements
<1> QED
  BY <1>1, <1>3, <1>4, <1>5

\* What has been executed is nothing before the first statement, one statement's
\* rows more after each, and all of the request's rows after the last.
LEMMA ExecutedRows ==
    ASSUME TypeOK, Shape, NEW r \in Request
    PROVE  /\ executed[r] = 0 => Executed(r) = {}
           /\ executed[r] = Len(Statements(r)) => Executed(r) = RowsOf(r)
           /\ executed[r] <= Len(Statements(r)) =>
                \A row \in Executed(r) : \E i \in 1..executed[r] : Inserts(r, i, row)
<1>1. executed[r] \in 0..3
  BY DEF TypeOK
<1>2. executed[r] = 0 => Executed(r) = {}
  BY <1>1 DEF Executed
<1>3. executed[r] = Len(Statements(r)) => Executed(r) = RowsOf(r)
  BY StatementRows DEF Executed, RowsOf
<1>4. ASSUME executed[r] <= Len(Statements(r)), NEW row \in Executed(r)
      PROVE  \E i \in 1..executed[r] : Inserts(r, i, row)
  <2>1. PICK i \in 1..executed[r] : row \in Statements(r)[i]
    BY DEF Executed
  <2>2. i \in 1..Len(Statements(r))
    BY <1>1, <1>4, StatementRows
  <2> QED
    BY <2>1, <2>2, StatementRows
<1> QED
  BY <1>2, <1>3, <1>4

\* The statements of a request stay while it asks for the same.
LEMMA RowsStay ==
    ASSUME NEW r \in Request, req'[r] = req[r], carried'[r] = carried[r]
    PROVE  Statements(r)' = Statements(r) /\ RowsOf(r)' = RowsOf(r)
<1>1. Statements(r)' = Statements(r)
  BY DEF Statements
<1> QED
  BY <1>1 DEF RowsOf

\* The answers that are given, and the classes the metrics have for them.
LEMMA Classes ==
    \A a \in {200, 201, 202, 404, 409, 500, 503} : Class(a) \in {2, 4, 5}
BY DEF Class

\* A fault leaves the count within its bound.
LEMMA FaultTyped ==
    ASSUME TypeOK, Fault
    PROVE  faults' \in 0..MaxFaults
BY RequestsAssumption DEF TypeOK, Fault

-----------------------------------------------------------------------------
(* The accounts.                                                           *)

\* A finite set with an element more is finite and counts one more.
LEMMA OneMore ==
    ASSUME NEW S, IsFiniteSet(S), NEW x, x \notin S, NEW T, T = S \cup {x}
    PROVE  IsFiniteSet(T) /\ Cardinality(T) = Cardinality(S) + 1
BY FS_AddElement

\* The accounts hold when nothing that counts changed.
LEMMA AccountsStay ==
    ASSUME Accounts, UNCHANGED <<pool, metricVars>>,
           Busy' = Busy, InHouse' = InHouse, Failed' = Failed,
           \A c \in {2, 4, 5} : Left(c)' = Left(c)
    PROVE  Accounts'
BY DEF Accounts, metricVars

\* A request that arrives is counted in flight.
LEMMA AccountsArrive ==
    ASSUME TypeOK, Accounts, NEW r \in Request, Arrive(r)
    PROVE  Accounts' /\ inFlight' \in Nat
<1>1. /\ pc[r] = "new" /\ pc' = [pc EXCEPT ![r] = "waiting"]
      /\ inFlight' = inFlight + 1 /\ UNCHANGED <<answer, pool, counted, errors>>
  BY DEF Arrive, Goto, dbVars
<1>2. Busy' = Busy /\ Failed' = Failed /\ \A c \in {2, 4, 5} : Left(c)' = Left(c)
  BY <1>1 DEF TypeOK, Busy, Failed, Left
<1>3. InHouse' = InHouse \cup {r} /\ r \notin InHouse
  BY <1>1 DEF TypeOK, InHouse
<1>4. IsFiniteSet(InHouse') /\ Cardinality(InHouse') = Cardinality(InHouse) + 1
  BY <1>3, OneMore DEF Accounts
<1>5. inFlight' \in Nat
  BY <1>1 DEF TypeOK
<1> QED
  BY <1>1, <1>2, <1>4, <1>5 DEF Accounts

\* A request that gets a connection is busy with it.
LEMMA AccountsConnect ==
    ASSUME TypeOK, Accounts, NEW r \in Request, GetConnection(r)
    PROVE  Accounts' /\ pool' \in 0..PoolSize
<1>1. /\ pc[r] = "waiting" /\ pc' = [pc EXCEPT ![r] = "executing"]
      /\ pool > 0 /\ pool' = pool - 1 /\ UNCHANGED <<answer, metricVars>>
  BY DEF GetConnection, Goto
<1>2. InHouse' = InHouse /\ Failed' = Failed /\ \A c \in {2, 4, 5} : Left(c)' = Left(c)
  BY <1>1 DEF TypeOK, InHouse, Failed, Left
<1>3. Busy' = Busy \cup {r} /\ r \notin Busy
  BY <1>1 DEF TypeOK, Busy
<1>4. IsFiniteSet(Busy') /\ Cardinality(Busy') = Cardinality(Busy) + 1
  BY <1>3, OneMore DEF Accounts
<1>5. pool \in 0..PoolSize /\ pool' \in 0..PoolSize
  BY <1>1, RequestsAssumption DEF TypeOK
<1>6. Cardinality(Busy) \in Nat /\ PoolSize \in Nat
  BY FS_CardinalityType, RequestsAssumption DEF Accounts
<1>7. pool' + Cardinality(Busy') = PoolSize
  BY <1>1, <1>4, <1>5, <1>6 DEF Accounts
<1> QED
  BY <1>1, <1>2, <1>4, <1>5, <1>7 DEF Accounts, metricVars

\* A transaction that ends gives its connection back.
LEMMA AccountsGiveBack ==
    ASSUME TypeOK, Accounts, NEW r \in Request, pc[r] \in {"executing", "committing"},
           NEW a, Answer(r, a), pool' = pool + 1, UNCHANGED metricVars
    PROVE  Accounts' /\ pool' \in 0..PoolSize
<1>1. pc' = [pc EXCEPT ![r] = "leaving"] /\ answer' = [answer EXCEPT ![r] = a]
  BY DEF Answer, Goto
<1>2. InHouse' = InHouse /\ Failed' = Failed /\ \A c \in {2, 4, 5} : Left(c)' = Left(c)
  BY <1>1 DEF TypeOK, InHouse, Failed, Left
<1>3. Busy' = Busy \ {r} /\ r \in Busy
  BY <1>1 DEF TypeOK, Busy
<1>4. IsFiniteSet(Busy') /\ Cardinality(Busy') = Cardinality(Busy) - 1
  BY <1>3, FS_RemoveElement DEF Accounts
<1>5. Cardinality(Busy) \in Nat /\ Cardinality(Busy') \in Nat /\ PoolSize \in Nat /\ pool \in Nat
  BY <1>4, FS_CardinalityType, RequestsAssumption DEF Accounts, TypeOK
<1>6. pool' + Cardinality(Busy') = PoolSize /\ pool' \in 0..PoolSize
  BY <1>4, <1>5 DEF Accounts
<1> QED
  BY <1>2, <1>4, <1>6 DEF Accounts, metricVars

\* A request that leaves is counted by its answer, and no longer in flight.
LEMMA AccountsLeave ==
    ASSUME TypeOK, Shape, Accounts, NEW r \in Request, Leave(r)
    PROVE  /\ Accounts' /\ inFlight' \in Nat /\ errors' \in Nat
           /\ counted' \in [{2, 4, 5} -> Nat]
<1> DEFINE k == Class(answer[r])
<1>1. /\ pc[r] = "leaving" /\ pc' = [pc EXCEPT ![r] = "done"] /\ UNCHANGED <<answer, pool>>
      /\ inFlight' = inFlight - 1 /\ counted' = [counted EXCEPT ![k] = @ + 1]
      /\ errors' = IF answer[r] = 500 THEN errors + 1 ELSE errors
  BY DEF Leave, Goto, Count, dbVars
<1>2. k \in {2, 4, 5}
  BY <1>1, Classes DEF TypeOK, Shape, Place
<1>3. Busy' = Busy
  BY <1>1 DEF TypeOK, Busy
<1>4. InHouse' = InHouse \ {r} /\ r \in InHouse
  BY <1>1 DEF TypeOK, InHouse
<1>5. IsFiniteSet(InHouse') /\ Cardinality(InHouse') = Cardinality(InHouse) - 1
  BY <1>4, FS_RemoveElement DEF Accounts
<1>6. inFlight' = Cardinality(InHouse') /\ inFlight' \in Nat
  BY <1>1, <1>5, FS_CardinalityType DEF Accounts
<1>7. ASSUME NEW c \in {2, 4, 5}
      PROVE  IsFiniteSet(Left(c)') /\ counted'[c] = Cardinality(Left(c)') /\ counted'[c] \in Nat
  <2>1. Left(c)' = Left(c) \cup (IF c = k THEN {r} ELSE {}) /\ r \notin Left(c)
    BY <1>1 DEF TypeOK, Left
  <2>2. IsFiniteSet(Left(c)) /\ counted[c] = Cardinality(Left(c)) /\ counted[c] \in Nat
    BY DEF Accounts, TypeOK
  <2>3. counted'[c] = IF c = k THEN counted[c] + 1 ELSE counted[c]
    BY <1>1, <1>2 DEF TypeOK
  <2>4. CASE c = k
    <3>1. Left(c)' = Left(c) \cup {r}
      BY <2>1, <2>4
    <3>2. IsFiniteSet(Left(c)') /\ Cardinality(Left(c)') = Cardinality(Left(c)) + 1
      BY <2>1, <2>2, <3>1, OneMore
    <3> QED
      BY <2>2, <2>3, <2>4, <3>2
  <2>5. CASE c # k
    BY <2>1, <2>2, <2>3, <2>5
  <2> QED
    BY <2>4, <2>5
<1>8. IsFiniteSet(Failed') /\ errors' = Cardinality(Failed') /\ errors' \in Nat
  <2>1. CASE answer[r] = 500
    <3>1. Failed' = Failed \cup {r} /\ r \notin Failed
      BY <1>1, <2>1 DEF TypeOK, Failed
    <3>2. IsFiniteSet(Failed') /\ Cardinality(Failed') = Cardinality(Failed) + 1
      BY <3>1, OneMore DEF Accounts
    <3> QED
      BY <1>1, <2>1, <3>2 DEF Accounts, TypeOK
  <2>2. CASE answer[r] # 500
    <3>1. Failed' = Failed
      BY <1>1, <2>2 DEF TypeOK, Failed
    <3> QED
      BY <1>1, <2>2, <3>1 DEF Accounts, TypeOK
  <2> QED
    BY <2>1, <2>2
<1>9. counted' \in [{2, 4, 5} -> Nat]
  BY <1>1, <1>2, <1>7 DEF TypeOK
<1> QED
  BY <1>1, <1>3, <1>5, <1>6, <1>7, <1>8, <1>9 DEF Accounts

-----------------------------------------------------------------------------
(* What a step of one request leaves to the others.                        *)

\* The others are where they were.
LEMMA PlaceStays ==
    ASSUME Shape, NEW q \in Request,
           pc'[q] = pc[q], req'[q] = req[q], carried'[q] = carried[q],
           executed'[q] = executed[q], writes'[q] = writes[q], answer'[q] = answer[q]
    PROVE  Place(q)'
<1>1. Statements(q)' = Statements(q)
  BY RowsStay
<1>2. Executed(q)' = Executed(q)
  BY <1>1 DEF Executed
<1> QED
  BY <1>1, <1>2 DEF Shape, Place

\* The tables agree with the answers after a step that does not commit.
LEMMA TablesStay ==
    ASSUME Tables, NEW r \in Request, db' = db,
           \A q \in Request \ {r} : /\ req'[q] = req[q] /\ carried'[q] = carried[q]
                                    /\ pc'[q] = pc[q] /\ answer'[q] = answer[q],
           \/ pc[r] \notin {"leaving", "done"} /\ answer'[r] \notin {201, 202}
           \/ /\ req'[r] = req[r] /\ carried'[r] = carried[r] /\ answer'[r] = answer[r]
              /\ pc'[r] = "done" /\ pc[r] = "leaving"
    PROVE  Tables'
<1>1. \A q : OwnRows(q)' = OwnRows(q)
  BY DEF OwnRows
<1>2. \A q \in Request \ {r} : RowsOf(q)' = RowsOf(q)
  BY RowsStay
<1>3. CASE pc[r] \notin {"leaving", "done"} /\ answer'[r] \notin {201, 202}
  <2>1. OwnRows(r) = {}
    BY <1>3 DEF Tables
  <2> QED
    BY <1>1, <1>2, <1>3, <2>1 DEF Tables
<1>4. CASE /\ req'[r] = req[r] /\ carried'[r] = carried[r] /\ answer'[r] = answer[r]
           /\ pc'[r] = "done" /\ pc[r] = "leaving"
  <2>1. RowsOf(r)' = RowsOf(r)
    BY <1>4, RowsStay
  <2> QED
    BY <1>1, <1>2, <1>4, <2>1 DEF Tables
<1> QED
  BY <1>3, <1>4

\* The events name their requests after a step that does not commit.
LEMMA EventsStay ==
    ASSUME TypeOK, Tables, EventNamesItsRequest, NEW r \in Request, db' = db,
           \A q \in Request \ {r} : req'[q] = req[q],
           pc[r] \in {"leaving", "done"} => req'[r] = req[r]
    PROVE  EventNamesItsRequest'
<1> SUFFICES ASSUME NEW row \in db, row[1] = "event"
             PROVE  row[2] = CorrelationId(row[3], req'[row[3]].header)
  BY DEF EventNamesItsRequest, CorrelationId
<1>1. row[3] \in Request /\ row \in OwnRows(row[3])
  BY DEF TypeOK, Row, OwnRows, Owner
<1>2. req'[row[3]] = req[row[3]]
  BY <1>1 DEF Tables
<1> QED
  BY <1>2 DEF EventNamesItsRequest, CorrelationId

-----------------------------------------------------------------------------
(* The invariant.                                                          *)

\* The invariant holds before the first request.
LEMMA InvInit == Init => IInv
<1> SUFFICES ASSUME Init PROVE IInv
  OBVIOUS
<1>1. TypeOK
  BY RequestsAssumption DEF Init, TypeOK, Req, Kind
<1>2. Shape
  <2>1. \A r \in Request : Executed(r) = {}
    BY DEF Init, Executed
  <2> QED
    BY <2>1 DEF Init, Shape, Place
<1>3. Context /\ Tables /\ OneCustomer /\ Told /\ EventNamesItsRequest
  BY DEF Init, Context, Tables, OwnRows, OneCustomer, Told, EventNamesItsRequest
<1>4. Accounts
  <2>1. Busy = {} /\ InHouse = {} /\ Failed = {} /\ \A c \in {2, 4, 5} : Left(c) = {}
    BY DEF Init, Busy, InHouse, Failed, Left
  <2>2. IsFiniteSet({}) /\ Cardinality({}) = 0
    BY FS_EmptySet
  <2>3. pool = PoolSize /\ pool + 0 = PoolSize
    BY RequestsAssumption DEF Init
  <2> QED
    BY <2>1, <2>2, <2>3 DEF Init, Accounts
<1> QED
  BY <1>1, <1>2, <1>3, <1>4 DEF IInv

\* A request that arrives keeps the invariant: it has no rows yet, and if it asks
\* for a job that was accepted, that job's row is there.
LEMMA ArriveInv ==
    ASSUME IInv, NEW r \in Request, Arrive(r)
    PROVE  IInv'
<1> USE DEF IInv
<1>1. PICK k \in Kind : \E s \in Subject(k), h \in Correlation \cup {None} :
         /\ req' = [req EXCEPT ![r] =
                        [kind |-> k, subject |-> s, header |-> h,
                         after |-> k = "get" /\ pc[s] = "done" /\ answer[s] = 202]]
         /\ correlation' = SetContext(r, CorrelationId(r, h))
  BY DEF Arrive
<1>2. PICK s \in Subject(k), h \in Correlation \cup {None} :
         /\ req' = [req EXCEPT ![r] =
                        [kind |-> k, subject |-> s, header |-> h,
                         after |-> k = "get" /\ pc[s] = "done" /\ answer[s] = 202]]
         /\ correlation' = [correlation EXCEPT ![r] = CorrelationId(r, h)]
  BY <1>1 DEF SetContext
<1>3. /\ pc[r] = "new" /\ pc' = [pc EXCEPT ![r] = "waiting"]
      /\ UNCHANGED <<carried, executed, answer, writes, db, pool, counted, errors, faults>>
  BY DEF Arrive, Goto, dbVars
<1>4. /\ k = "customer" => s \in Email
      /\ k = "get" => s \in Request
      /\ s \in Email \cup Request \cup {None}
  BY DEF Subject
<1> DEFINE after == k = "get" /\ pc[s] = "done" /\ answer[s] = 202
<1>5. after \in BOOLEAN
  OBVIOUS
<1>6. req' = [req EXCEPT ![r] = [kind |-> k, subject |-> s, header |-> h, after |-> after]]
  BY <1>2
<1>7. after => k = "get" /\ s \in Request /\ <<"job", s>> \in db
  <2> SUFFICES ASSUME after PROVE s \in Request /\ <<"job", s>> \in db
    OBVIOUS
  <2>1. s \in Request /\ answer[s] = 202
    BY <1>4
  <2>2. OwnRows(s) = RowsOf(s)
    BY <2>1 DEF Tables
  <2>3. req[s].kind = "job"
    BY <2>1 DEF Told
  <2>4. <<"job", s>> \in RowsOf(s)
    BY <2>1, <2>3, RowsOfRequest
  <2> QED
    BY <2>1, <2>2, <2>4 DEF OwnRows
<1> HIDE DEF after
<1>8. [kind |-> k, subject |-> s, header |-> h, after |-> after] \in Req
  BY <1>4, <1>5 DEF Req
<1>9. /\ req'[r].kind = k /\ req'[r].subject = s /\ req'[r].header = h /\ req'[r].after = after
      /\ \A q \in Request \ {r} : req'[q] = req[q]
      /\ req' \in [Request -> Req]
  BY <1>6, <1>8 DEF TypeOK
<1>10. TypeOK'
  <2>1. inFlight' \in Nat
    BY AccountsArrive
  <2>2. CorrelationId(r, h) \in Request \cup Correlation \cup {None}
    BY DEF CorrelationId
  <2> QED
    BY <1>2, <1>3, <1>9, <2>1, <2>2 DEF TypeOK
<1>11. Shape'
  <2>1. \A q \in Request \ {r} : Place(q)'
    BY <1>3, <1>9, PlaceStays DEF TypeOK
  <2>2. Place(r)'
    <3>1. executed[r] = 0 /\ writes[r] = {} /\ answer[r] = 0 /\ pc'[r] = "waiting"
      BY <1>3 DEF TypeOK, Shape, Place
    <3> QED
      BY <1>3, <1>4, <1>9, <3>1 DEF Place
  <2> QED
    BY <2>1, <2>2 DEF Shape
<1>12. Context'
  BY <1>2, <1>3, <1>9 DEF TypeOK, Context, CorrelationId
<1>13. Tables'
  <2>1. answer[r] = 0
    BY <1>3 DEF Shape, Place
  <2> QED
    BY <1>3, <1>9, <2>1, TablesStay DEF TypeOK
<1>14. OneCustomer'
  BY <1>3 DEF OneCustomer, CustomerRows
<1>15. Told'
  <2>1. answer[r] = 0
    BY <1>3 DEF Shape, Place
  <2> QED
    BY <1>3, <1>7, <1>9, <2>1 DEF Told, CustomerRows, JobMissing
<1>16. EventNamesItsRequest'
  BY <1>3, <1>9, EventsStay
<1>17. Accounts'
  BY AccountsArrive
<1> QED
  BY <1>10, <1>11, <1>12, <1>13, <1>14, <1>15, <1>16, <1>17

\* Getting a connection keeps the invariant: the endpoint has read the request's
\* own correlation id and has executed nothing.
LEMMA ConnectInv ==
    ASSUME IInv, NEW r \in Request, GetConnection(r)
    PROVE  IInv'
<1> USE DEF IInv
<1>1. /\ pc[r] = "waiting" /\ pc' = [pc EXCEPT ![r] = "executing"]
      /\ carried' = [carried EXCEPT ![r] = correlation[r]]
      /\ UNCHANGED <<req, correlation, executed, writes, db, answer, metricVars, faults>>
  BY DEF GetConnection, Goto
<1>2. TypeOK'
  BY <1>1, AccountsConnect DEF TypeOK, metricVars
<1>3. Shape'
  <2>1. \A q \in Request \ {r} : Place(q)'
    BY <1>1, PlaceStays DEF TypeOK
  <2>2. Place(r)'
    <3>1. executed[r] = 0 /\ writes[r] = {} /\ answer[r] = 0 /\ pc'[r] = "executing"
      BY <1>1 DEF TypeOK, Shape, Place
    <3>2. Executed(r)' = {}
      BY <1>1, <3>1 DEF Executed
    <3>3. 0 < Len(Statements(r)')
      BY DEF Statements
    <3>4. /\ req'[r].kind = "customer" => req'[r].subject \in Email
          /\ req'[r].kind = "get" => req'[r].subject \in Request
      BY <1>1 DEF Shape, Place
    <3> QED
      BY <1>1, <3>1, <3>2, <3>3, <3>4 DEF Place
  <2> QED
    BY <2>1, <2>2 DEF Shape
<1>4. Context'
  BY <1>1 DEF TypeOK, Context
<1>5. Tables'
  <2>1. answer[r] = 0
    BY <1>1 DEF Shape, Place
  <2> QED
    BY <1>1, <2>1, TablesStay DEF TypeOK
<1>6. OneCustomer' /\ Told'
  BY <1>1 DEF OneCustomer, Told, CustomerRows, JobMissing
<1>7. EventNamesItsRequest'
  BY <1>1, EventsStay
<1>8. Accounts'
  BY AccountsConnect
<1> QED
  BY <1>2, <1>3, <1>4, <1>5, <1>6, <1>7, <1>8

\* A request that gets no connection has no rows and is told an error.
LEMMA PoolTimeoutInv ==
    ASSUME IInv, NEW r \in Request, PoolTimeout(r)
    PROVE  IInv'
<1> USE DEF IInv
<1> DEFINE a == ErrorAnswer(r)
<1>1. /\ pc[r] = "waiting" /\ pc' = [pc EXCEPT ![r] = "leaving"]
      /\ answer' = [answer EXCEPT ![r] = a]
      /\ UNCHANGED <<req, correlation, carried, executed, writes, db, pool, inFlight, counted, errors>>
  BY DEF PoolTimeout, Answer, Goto, dbVars, metricVars
<1>2. a \in {500, 503}
  BY DEF ErrorAnswer
<1> HIDE DEF a
<1>3. TypeOK'
  <2>1. faults' \in 0..MaxFaults
    BY FaultTyped DEF PoolTimeout, TypeOK
  <2> QED
    BY <1>1, <1>2, <2>1 DEF TypeOK
<1>4. Shape'
  <2>1. \A q \in Request \ {r} : Place(q)'
    BY <1>1, PlaceStays DEF TypeOK
  <2>2. Place(r)'
    BY <1>1, <1>2 DEF TypeOK, Shape, Place
  <2> QED
    BY <2>1, <2>2 DEF Shape
<1>5. Context'
  BY <1>1 DEF TypeOK, Context
<1>6. Tables'
  BY <1>1, <1>2, TablesStay DEF TypeOK
<1>7. OneCustomer'
  BY <1>1 DEF OneCustomer, CustomerRows
<1>8. Told'
  BY <1>1, <1>2 DEF TypeOK, Told, CustomerRows, JobMissing
<1>9. EventNamesItsRequest'
  BY <1>1, EventsStay
<1>10. Accounts'
  <2>1. Busy' = Busy /\ InHouse' = InHouse /\ Failed' = Failed
    BY <1>1 DEF TypeOK, Busy, InHouse, Failed
  <2>2. \A c \in {2, 4, 5} : Left(c)' = Left(c)
    BY <1>1 DEF TypeOK, Left
  <2> QED
    BY <1>1, <2>1, <2>2, AccountsStay DEF metricVars
<1> QED
  BY <1>3, <1>4, <1>5, <1>6, <1>7, <1>8, <1>9, <1>10

\* A statement keeps the invariant.  That no address gets two customers is the
\* unique index: the INSERT waits for another transaction that has inserted the
\* address, and raises if it is there.
LEMMA ExecuteInv ==
    ASSUME IInv, NEW r \in Request, Execute(r)
    PROVE  IInv'
<1> USE DEF IInv
<1> DEFINE k == executed[r] + 1
           S == Statements(r)[k]
           n == Len(Statements(r))
           l == IF k = n THEN "committing" ELSE "executing"
<1>1. /\ pc[r] = "executing" /\ pc' = [pc EXCEPT ![r] = l]
      /\ writes' = [writes EXCEPT ![r] = @ \cup S]
      /\ executed' = [executed EXCEPT ![r] = k]
      /\ UNCHANGED <<req, correlation, carried, db, pool, answer, inFlight, counted, errors, faults>>
  BY DEF Execute, Write, Goto, metricVars
<1>2. k \in 1..n /\ n \in 1..3 /\ executed[r] \in Nat
  BY <1>1, StatementRows DEF TypeOK, Shape, Place
<1>3. \A row \in S : Inserts(r, k, row)
  BY <1>2, StatementRows
<1>4. Executed(r)' = Executed(r) \cup S
  <2>1. Statements(r)' = Statements(r)
    BY <1>1, RowsStay
  <2>2. executed'[r] = k /\ 1..k = 1..executed[r] \cup {k}
    BY <1>1, <1>2 DEF TypeOK
  <2> QED
    BY <2>1, <2>2 DEF Executed
<1>5. /\ AtInsert(r) => ~Taken(r) /\ ~Locked(r)
      /\ pc[r] = "executing" /\ req[r].kind = "customer" /\ k = 1 => AtInsert(r)
  BY <1>2 DEF Execute, AtInsert
<1> HIDE DEF S, k
<1>6. TypeOK'
  <2>1. S \subseteq Row
    BY <1>3 DEF Inserts
  <2>2. writes' \in [Request -> SUBSET Row]
    <3>1. writes[r] \cup S \in SUBSET Row /\ writes \in [Request -> SUBSET Row]
      BY <2>1 DEF TypeOK
    <3> QED
      BY <1>1, <3>1
  <2>3. l \in {"committing", "executing"}
    OBVIOUS
  <2> HIDE DEF l, n
  <2>4. k \in 0..3
    BY <1>2
  <2>5. executed' \in [Request -> 0..3] /\ DOMAIN pc' = Request
    BY <1>1, <2>4 DEF TypeOK
  <2> QED
    BY <1>1, <2>2, <2>3, <2>5 DEF TypeOK
<1>7. Shape'
  <2>1. \A q \in Request \ {r} : Place(q)'
    BY <1>1, PlaceStays DEF TypeOK
  <2>2. Place(r)'
    <3>1. pc'[r] = l /\ executed'[r] = k /\ writes'[r] = Executed(r)' /\ answer'[r] = 0
      BY <1>1, <1>4 DEF TypeOK, Shape, Place
    <3>2. Len(Statements(r)') = n
      BY <1>1, RowsStay
    <3>3. /\ req'[r].kind = "customer" => req'[r].subject \in Email
          /\ req'[r].kind = "get" => req'[r].subject \in Request
      BY <1>1 DEF Shape, Place
    <3> QED
      BY <1>2, <3>1, <3>2, <3>3 DEF Place
  <2> QED
    BY <2>1, <2>2 DEF Shape
<1>8. Context'
  BY <1>1 DEF TypeOK, Context
<1>9. Tables'
  <2>1. answer[r] = 0
    BY <1>1 DEF Shape, Place
  <2> QED
    BY <1>1, <2>1, TablesStay DEF TypeOK
<1>10. OneCustomer'
  <2> DEFINE Free(e) == CustomerRows(db, e) = {} /\
                        \A q \in Request \ {r} : CustomerRows(writes[q], e) = {}
  <2>1. ASSUME NEW x \in S, x[1] = "customer" PROVE Free(x[2])
    <3>1. x[2] = req[r].subject /\ AtInsert(r)
      BY <1>1, <1>3, <1>5, <2>1 DEF Inserts
    <3> QED
      BY <1>5, <3>1 DEF Taken, Locked
  <2>2. writes'[r] = writes[r] \cup S /\ \A q \in Request \ {r} : writes'[q] = writes[q]
    BY <1>1 DEF TypeOK
  <2>3. ASSUME NEW x \in writes'[r], x[1] = "customer" PROVE Free(x[2])
    BY <2>1, <2>2, <2>3 DEF OneCustomer
  <2>4. ASSUME NEW q \in Request \ {r}, NEW x \in writes[q], x[1] = "customer"
        PROVE  CustomerRows(writes'[r], x[2]) = {}
    <3> SUFFICES ASSUME NEW y \in writes'[r], y[1] = "customer", y[2] = x[2] PROVE FALSE
      BY DEF CustomerRows
    <3>1. CustomerRows(writes[q], y[2]) = {}
      BY <2>3
    <3> QED
      BY <2>4, <3>1 DEF CustomerRows
  <2>5. \A q \in Request \ {r} : \A x \in writes[q] : x[1] = "customer" =>
          /\ CustomerRows(db, x[2]) = {}
          /\ \A p \in Request \ {q} : CustomerRows(writes'[p], x[2]) = {}
    BY <2>2, <2>4 DEF OneCustomer
  <2>6. \A q \in Request : \A x \in writes'[q] : x[1] = "customer" =>
          /\ CustomerRows(db, x[2]) = {}
          /\ \A p \in Request \ {q} : CustomerRows(writes'[p], x[2]) = {}
    BY <2>2, <2>3, <2>5
  <2> QED
    BY <1>1, <2>6 DEF OneCustomer, CustomerRows
<1>11. Told'
  BY <1>1 DEF Told, CustomerRows, JobMissing
<1>12. EventNamesItsRequest'
  BY <1>1, EventsStay
<1>13. Accounts'
  <2>1. Busy' = Busy /\ InHouse' = InHouse /\ Failed' = Failed
    BY <1>1 DEF TypeOK, Busy, InHouse, Failed
  <2>2. \A c \in {2, 4, 5} : Left(c)' = Left(c)
    BY <1>1 DEF TypeOK, Left
  <2> QED
    BY <1>1, <2>1, <2>2, AccountsStay DEF metricVars
<1> QED
  BY <1>6, <1>7, <1>8, <1>9, <1>10, <1>11, <1>12, <1>13

\* A transaction that is rolled back leaves none of its rows, whatever ended it.
LEMMA RollbackInv ==
    ASSUME IInv, NEW r \in Request, pc[r] \in {"executing", "committing"},
           Rollback(r), NEW a \in {404, 409, 500, 503}, Answer(r, a),
           a = 409 => req[r].kind = "customer" /\ Taken(r),
           a = 404 => JobMissing(r),
           UNCHANGED <<req, correlation, carried, executed, metricVars>>,
           faults' \in 0..MaxFaults
    PROVE  IInv'
<1> USE DEF IInv
<1>1. /\ pc' = [pc EXCEPT ![r] = "leaving"] /\ answer' = [answer EXCEPT ![r] = a]
      /\ writes' = [writes EXCEPT ![r] = {}] /\ pool' = pool + 1
      /\ UNCHANGED <<req, correlation, carried, executed, db, inFlight, counted, errors>>
  BY DEF Answer, Goto, Rollback, metricVars
<1>2. Accounts' /\ pool' \in 0..PoolSize
  BY <1>1, AccountsGiveBack
<1>3. TypeOK'
  BY <1>1, <1>2 DEF TypeOK
<1>4. Shape'
  <2>1. \A q \in Request \ {r} : Place(q)'
    BY <1>1, PlaceStays DEF TypeOK
  <2>2. Place(r)'
    BY <1>1 DEF TypeOK, Shape, Place
  <2> QED
    BY <2>1, <2>2 DEF Shape
<1>5. Context'
  BY <1>1 DEF TypeOK, Context
<1>6. Tables'
  BY <1>1, TablesStay DEF TypeOK
<1>7. OneCustomer'
  BY <1>1 DEF TypeOK, OneCustomer, CustomerRows
<1>8. Told'
  BY <1>1 DEF TypeOK, Told, CustomerRows, Taken, JobMissing
<1>9. EventNamesItsRequest'
  BY <1>1, EventsStay
<1> QED
  BY <1>2, <1>3, <1>4, <1>5, <1>6, <1>7, <1>8, <1>9

\* A commit puts all the rows of the request into the tables, also one whose
\* answer is an error.
LEMMA CommittedInv ==
    ASSUME IInv, NEW r \in Request, pc[r] = "committing", Committed(r),
           NEW a \in {Success(r), ErrorAnswer(r)}, Answer(r, a),
           UNCHANGED <<req, correlation, carried, executed, metricVars>>,
           faults' \in 0..MaxFaults
    PROVE  IInv'
<1> USE DEF IInv
<1>1. /\ pc' = [pc EXCEPT ![r] = "leaving"] /\ answer' = [answer EXCEPT ![r] = a]
      /\ writes' = [writes EXCEPT ![r] = {}] /\ pool' = pool + 1
      /\ db' = db \cup writes[r]
      /\ UNCHANGED <<req, correlation, carried, executed, inFlight, counted, errors>>
  BY DEF Answer, Goto, Committed, metricVars
<1>2. Accounts' /\ pool' \in 0..PoolSize
  BY <1>1, AccountsGiveBack
<1>3. /\ a \in {200, 201, 202, 500, 503}
      /\ a = 201 => req[r].kind = "customer"
      /\ a = 202 => req[r].kind = "job"
  BY DEF Success, ErrorAnswer
<1>4. writes[r] = RowsOf(r)
  BY ExecutedRows DEF Shape, Place
<1>5. \A row \in writes[r] : \E i \in 1..3 : Inserts(r, i, row)
  BY <1>4, RowsOfRequest
<1>6. TypeOK'
  BY <1>1, <1>2, <1>3 DEF TypeOK
<1>7. Shape'
  <2>1. \A q \in Request \ {r} : Place(q)'
    BY <1>1, PlaceStays DEF TypeOK
  <2>2. Place(r)'
    BY <1>1, <1>3 DEF TypeOK, Shape, Place
  <2> QED
    BY <2>1, <2>2 DEF Shape
<1>8. Context'
  BY <1>1 DEF TypeOK, Context
<1>9. Tables'
  <2>1. \A q \in Request : RowsOf(q)' = RowsOf(q)
    BY <1>1, RowsStay
  <2>2. \A row \in writes[r] : Owner(row) = r
    BY <1>5 DEF Inserts
  <2>3. \A q \in Request \ {r} : OwnRows(q)' = OwnRows(q)
    BY <1>1, <2>2 DEF OwnRows
  <2>4. OwnRows(r)' = RowsOf(r)
    <3>1. OwnRows(r) = {}
      BY DEF Tables
    <3> QED
      BY <1>1, <1>4, <2>2, <3>1 DEF OwnRows
  <2>5. \A q \in Request \ {r} : pc'[q] = pc[q] /\ answer'[q] = answer[q]
    BY <1>1 DEF TypeOK
  <2>6. pc'[r] = "leaving" /\ answer'[r] = a
    BY <1>1 DEF TypeOK
  <2> QED
    BY <1>3, <2>1, <2>3, <2>4, <2>5, <2>6 DEF Tables
<1>10. OneCustomer'
  <2>1. \A x, y \in writes[r] : x[1] = "customer" /\ y[1] = "customer" => x = y
    BY <1>5 DEF Inserts
  <2>2. \A x \in writes[r], y \in db : x[1] = "customer" /\ y[1] = "customer" => x[2] # y[2]
    BY DEF OneCustomer, CustomerRows
  <2>3. \A x, y \in db' : x[1] = "customer" /\ y[1] = "customer" /\ x[2] = y[2] => x = y
    BY <1>1, <2>1, <2>2 DEF OneCustomer
  <2>4. writes'[r] = {} /\ \A q \in Request \ {r} : writes'[q] = writes[q]
    BY <1>1 DEF TypeOK
  <2>5. ASSUME NEW q \in Request, NEW x \in writes'[q], x[1] = "customer"
        PROVE  /\ CustomerRows(db', x[2]) = {}
               /\ \A p \in Request \ {q} : CustomerRows(writes'[p], x[2]) = {}
    <3>1. q # r /\ x \in writes[q]
      BY <2>4, <2>5
    <3>2. CustomerRows(db, x[2]) = {} /\ CustomerRows(writes[r], x[2]) = {}
      BY <2>5, <3>1 DEF OneCustomer
    <3>3. CustomerRows(db', x[2]) = {}
      BY <1>1, <3>2 DEF CustomerRows
    <3>4. \A p \in Request \ {q} : CustomerRows(writes'[p], x[2]) = {}
      BY <2>4, <2>5, <3>1 DEF OneCustomer, CustomerRows
    <3> QED
      BY <3>3, <3>4
  <2> QED
    BY <2>3, <2>5 DEF OneCustomer, CustomerRows
<1>11. Told'
  BY <1>1, <1>3 DEF TypeOK, Told, CustomerRows, JobMissing
<1>12. EventNamesItsRequest'
  <2>1. \A row \in writes[r] : row[1] = "event" =>
           row[2] = CorrelationId(row[3], req[row[3]].header)
    BY <1>5 DEF Inserts, Context
  <2> QED
    BY <1>1, <2>1 DEF EventNamesItsRequest, CorrelationId
<1> QED
  BY <1>2, <1>6, <1>7, <1>8, <1>9, <1>10, <1>11, <1>12

\* Leaving keeps the invariant: the answer and the tables stay.
LEMMA LeaveInv ==
    ASSUME IInv, NEW r \in Request, Leave(r)
    PROVE  IInv'
<1> USE DEF IInv
<1>1. /\ pc[r] = "leaving" /\ pc' = [pc EXCEPT ![r] = "done"]
      /\ correlation' = [correlation EXCEPT ![r] = None]
      /\ UNCHANGED <<req, carried, executed, answer, writes, db, pool, faults>>
  BY DEF Leave, Goto, SetContext, dbVars
<1>2. TypeOK'
  BY <1>1, AccountsLeave DEF TypeOK
<1>3. Shape'
  <2>1. \A q \in Request \ {r} : Place(q)'
    BY <1>1, PlaceStays DEF TypeOK
  <2>2. Place(r)'
    BY <1>1 DEF TypeOK, Shape, Place
  <2> QED
    BY <2>1, <2>2 DEF Shape
<1>4. Context'
  BY <1>1 DEF TypeOK, Context
<1>5. Tables'
  BY <1>1, TablesStay DEF TypeOK
<1>6. OneCustomer' /\ Told'
  BY <1>1 DEF OneCustomer, Told, CustomerRows, JobMissing
<1>7. EventNamesItsRequest'
  BY <1>1, EventsStay
<1>8. Accounts'
  BY AccountsLeave
<1> QED
  BY <1>2, <1>3, <1>4, <1>5, <1>6, <1>7, <1>8

\* Every step of the API keeps the invariant.
LEMMA InvStep == IInv /\ [Next]_vars => IInv'
<1> SUFFICES ASSUME IInv, [Next]_vars PROVE IInv'
  OBVIOUS
<1>1. CASE UNCHANGED vars
  <2> USE <1>1 DEF vars, requestVars, dbVars, metricVars, IInv
  <2>1. TypeOK'
    BY DEF TypeOK
  <2>2. Shape'
    BY PlaceStays DEF Shape
  <2>3. Context' /\ OneCustomer' /\ Told' /\ EventNamesItsRequest'
    BY DEF Context, OneCustomer, CustomerRows, Told, JobMissing, EventNamesItsRequest, CorrelationId
  <2>4. Tables'
    <3>1. \A r \in Request : OwnRows(r)' = OwnRows(r) /\ RowsOf(r)' = RowsOf(r)
      BY RowsStay DEF OwnRows
    <3> QED
      BY <3>1 DEF Tables
  <2>5. Accounts'
    BY AccountsStay DEF Busy, InHouse, Left, Failed
  <2> QED
    BY <2>1, <2>2, <2>3, <2>4, <2>5
<1>2. ASSUME NEW r \in Request, Arrive(r) \/ Handle(r) PROVE IInv'
  <2> USE <1>2
  <2>1. UNCHANGED faults \/ Fault => faults' \in 0..MaxFaults
    BY FaultTyped DEF IInv, TypeOK
  <2>2. ErrorAnswer(r) \in {500, 503}
    BY DEF ErrorAnswer
  <2>3. CASE Arrive(r)
    BY <2>3, ArriveInv
  <2>4. CASE GetConnection(r)
    BY <2>4, ConnectInv
  <2>5. CASE PoolTimeout(r)
    BY <2>5, PoolTimeoutInv
  <2>6. CASE Execute(r)
    BY <2>6, ExecuteInv
  <2>7. CASE Duplicate(r)
    BY <2>1, <2>7, RollbackInv DEF Duplicate, AtInsert
  <2>8. CASE NotFound(r)
    BY <2>1, <2>8, RollbackInv DEF NotFound
  <2>9. CASE Commit(r)
    BY <2>1, <2>9, CommittedInv DEF Commit
  <2>10. CASE Raises(r)
    BY <2>1, <2>2, <2>10, RollbackInv DEF Raises
  <2>11. CASE RaisesAtCommit(r)
    <3>1. CASE Rollback(r)
      BY <2>1, <2>2, <2>11, <3>1, RollbackInv DEF RaisesAtCommit
    <3>2. CASE Committed(r)
      BY <2>1, <2>11, <3>2, CommittedInv DEF RaisesAtCommit
    <3> QED
      BY <2>11, <3>1, <3>2 DEF RaisesAtCommit
  <2>12. CASE Leave(r)
    BY <2>12, LeaveInv
  <2> QED
    BY <2>3, <2>4, <2>5, <2>6, <2>7, <2>8, <2>9, <2>10, <2>11, <2>12 DEF Handle
<1> QED
  BY <1>1, <1>2 DEF Next

-----------------------------------------------------------------------------
(* The theorems.                                                           *)

\* The inductive invariant holds whatever requests run beside each other and
\* wherever the database fails.
THEOREM Invariance == Spec => []IInv
BY InvInit, InvStep, PTL DEF Spec

\* WholeOrNothing: a request leaves all its rows or none.
THEOREM RequestsAreAtomic == Spec => []WholeOrNothing
<1>1. IInv => WholeOrNothing
  <2> SUFFICES ASSUME IInv, NEW r \in Request
               PROVE  RowsOf(r) \cap db \in {{}, RowsOf(r)}
    BY DEF WholeOrNothing
  <2>1. \A row \in RowsOf(r) : Owner(row) = r
    BY RowsOfRequest DEF IInv, Inserts
  <2>2. RowsOf(r) \cap db = RowsOf(r) \cap OwnRows(r)
    BY <2>1 DEF OwnRows
  <2>3. OwnRows(r) \in {{}, RowsOf(r)}
    BY DEF IInv, Tables
  <2> QED
    BY <2>2, <2>3
<1> QED
  BY <1>1, Invariance, PTL

\* AnswersAreTrue: what the client was told of its rows is so, also when requests
\* raced for the address of a customer.
THEOREM ClientsAreToldTheTruth == Spec => []AnswersAreTrue
<1>1. IInv => AnswersAreTrue
  <2> SUFFICES ASSUME IInv, NEW r \in Request
               PROVE  /\ answer[r] \in {201, 202} => RowsOf(r) \subseteq db
                      /\ answer[r] = 201 => Cardinality(CustomerRows(db, req[r].subject)) = 1
                      /\ answer[r] = 409 => /\ CustomerRows(db, req[r].subject) # {}
                                            /\ RowsOf(r) \cap db = {}
                      /\ req[r].after => answer[r] # 404
    BY DEF AnswersAreTrue
  <2> USE DEF IInv
  <2>1. answer[r] \in {201, 202} => RowsOf(r) \subseteq db
    BY DEF Tables, OwnRows
  <2>2. ASSUME answer[r] = 201
        PROVE  Cardinality(CustomerRows(db, req[r].subject)) = 1
    <3> DEFINE x == <<"customer", req[r].subject, r>>
    <3>1. x \in db
      <4>1. req[r].kind = "customer"
        BY <2>2 DEF Told
      <4>2. x \in RowsOf(r)
        BY <4>1, RowsOfRequest
      <4> QED
        BY <2>1, <2>2, <4>2
    <3>2. CustomerRows(db, req[r].subject) = {x}
      BY <3>1 DEF OneCustomer, CustomerRows
    <3> QED
      BY <3>2, FS_Singleton
  <2>3. ASSUME answer[r] = 409
        PROVE  CustomerRows(db, req[r].subject) # {} /\ RowsOf(r) \cap db = {}
    <3>1. OwnRows(r) = {} /\ CustomerRows(db, req[r].subject) # {}
      BY <2>3 DEF Tables, Told
    <3>2. \A row \in RowsOf(r) : Owner(row) = r
      BY RowsOfRequest DEF Inserts
    <3> QED
      BY <3>1, <3>2 DEF OwnRows
  <2>4. req[r].after => answer[r] # 404
    BY DEF Told
  <2> QED
    BY <2>1, <2>2, <2>3, <2>4
<1> QED
  BY <1>1, Invariance, PTL

\* EventNamesItsRequest: no request writes another's correlation id into its event.
THEOREM EventsNameTheirRequests == Spec => []EventNamesItsRequest
<1>1. IInv => EventNamesItsRequest
  BY DEF IInv
<1> QED
  BY <1>1, Invariance, PTL

\* Balanced: connections and counters add up, whatever raised.
THEOREM AccountsBalance == Spec => []Balanced
<1>1. IInv => Balanced
  BY DEF IInv, Balanced, Accounts, Busy, InHouse, Left, Failed
<1> QED
  BY <1>1, Invariance, PTL
=============================================================================
