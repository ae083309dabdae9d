------------------------------- MODULE WebServer -------------------------------
(***************************************************************************)
(* src/src/webserver.cpp and main.cpp: the startup of the server and the   *)
(* request handlers, as Crow's threads run them.                           *)
(*                                                                         *)
(* A handler calls at most one method of Database, which succeeds or fails *)
(* (module Database says when), then records metrics one after the other   *)
(* (each as one step: module MetricsRegistry shows that none is lost), and *)
(* answers.  Logging and the contents of answers are left out.             *)
(***************************************************************************)
EXTENDS Integers, FiniteSets, Sequences, SequencesExt

CONSTANTS
    Threads,        \* Crow's worker threads
    Requests,       \* the requests that clients send
    NoRequest,
    MaxRequests     \* bound: requests in a behaviour

(***************************************************************************)
(* Requests: a route and the class of its body (or of the file it names).  *)
(*   "good"       parses; for login, the credentials are known             *)
(*   "wrong"      parses, credentials unknown                              *)
(*   "malformed"  does not parse, or a field is missing                    *)
(*   "illformed"  does not parse because it is not UTF-8; the message of   *)
(*                the exception then quotes the bytes                      *)
(***************************************************************************)
FileRoutes == {"index", "static"}

DbOp == [test_db |-> "test_connection", get_devices |-> "get_devices",
         get_types |-> "get_service_types", get_history |-> "get_service_history",
         post_history |-> "add_service_record", get_records |-> "get_service_records"]

ApiRoutes == DOMAIN DbOp \cup {"login", "logout", "post_devices"}
Routes == ApiRoutes \cup FileRoutes \cup {"metrics"}

Bodies(route) ==
    CASE route = "login" -> {"good", "wrong", "malformed", "illformed"}
      [] route = "post_history" -> {"good", "malformed", "illformed"}
      [] route \in FileRoutes -> {"good", "missing"}
      [] OTHER -> {"good"}

AllRequests == UNION {{[route |-> r, body |-> b] : b \in Bodies(r)} : r \in Routes}

ASSUME RequestsAssumption == Requests \subseteq AllRequests /\ NoRequest \notin AllRequests
ASSUME BoundAssumption == MaxRequests \in Nat
ASSUME ThreadsAssumption == IsFiniteSet(Threads)

Statuses == {200, 400, 401, 403, 404, 500}

Unparsed(q) == q.body \in {"malformed", "illformed"}

\* The handler calls the database.
CallsDb(q) == q.route \in DOMAIN DbOp /\ ~Unparsed(q)

(***************************************************************************)
(* What a handler records, in the order of its calls, and what it answers. *)
(* "ok" is what the method of Database returned.                           *)
(***************************************************************************)
Metric(family, of, label) == <<family, of, label>>
Http(q, status) == Metric("http_requests_total", q.route, status)
Db(op, success) == Metric("db_operations_total", op, success)
Auth(success) == Metric("auth_attempts_total", "login", success)

TestDbRecords(q, ok) == <<Http(q, 200), Db("test_connection", ok)>>
\* Mutant: the catch block of /api/login forgets http_requests_total.
MutantLoginUncounted(q) ==
    CASE q.body = "good" -> <<Auth(TRUE), Http(q, 200)>>
      [] q.body = "wrong" -> <<Auth(FALSE), Http(q, 401)>>
      [] OTHER -> <<Auth(FALSE)>>
LoginRecords(q) ==
    CASE q.body = "good" -> <<Auth(TRUE), Http(q, 200)>>
      [] q.body = "wrong" -> <<Auth(FALSE), Http(q, 401)>>
      [] OTHER -> <<Auth(FALSE), Http(q, 400)>>
LogoutRecords(q) == <<Http(q, 200), Db("logout", TRUE)>>
PostDevicesRecords(q) ==
    <<Metric("device_operations_total", "create_blocked", FALSE), Http(q, 403)>>
\* Mutant: the result of addServiceRecord is ignored.
MutantPostHistoryUnchecked(q, ok) ==
    LET success == ~Unparsed(q)
    IN  <<Metric("service_operations_total", "create", success),
          Db("add_service_record", success),
          Http(q, IF success THEN 200 ELSE 400)>>
PostHistoryRecords(q, ok) ==
    LET success == ~Unparsed(q) /\ ok
    IN  <<Metric("service_operations_total", "create", success),
          Db("add_service_record", success),
          Http(q, IF success THEN 200 ELSE 400)>>
\* The four lists count as a success whatever the database did.
ListRecords(q) == <<Http(q, 200), Db(DbOp[q.route], TRUE)>>

Records(q, ok) ==
    CASE q.route = "test_db" -> TestDbRecords(q, ok)
      [] q.route = "login" -> LoginRecords(q)
      [] q.route = "logout" -> LogoutRecords(q)
      [] q.route = "post_devices" -> PostDevicesRecords(q)
      [] q.route = "post_history" -> PostHistoryRecords(q, ok)
      [] q.route \in {"get_devices", "get_types", "get_history", "get_records"} ->
            ListRecords(q)
      [] OTHER -> <<>>

\* The answer to a body that is not UTF-8 quotes it, and dump() throws; Crow
\* turns that into 500.  A record that is not added is answered with 200.
Status(q) ==
    CASE q.body = "malformed" -> 400
      [] q.body = "illformed" -> 500
      [] q.body = "wrong" -> 401
      [] q.body = "missing" -> 404
      [] q.route = "post_devices" -> 403
      [] OTHER -> 200

AllMetrics == UNION {ToSet(Records(q, ok)) : q \in AllRequests, ok \in BOOLEAN}

VARIABLES
    \* startup
    config,         \* "missing", "malformed", "portless" or "good"
    dbReachable,    \* PostgreSQL accepts the connection
    stage,          \* where main() is
    db,             \* the Database: "null", "unconnected" or "connected"
    routes,         \* setupRoutes() has run
    port,           \* 8080 or the configured one
    \* the threads
    pc, request,
    left,           \* metrics its handler has yet to record
    \* the metrics
    value,
    \* what happened
    sent,           \* requests so far
    answers,        \* number of answers, by route and status
    dbDone          \* number of database calls, by operation and outcome

startup == <<config, dbReachable, stage, db, routes, port>>
vars == <<config, dbReachable, stage, db, routes, port, pc, request, left,
          value, sent, answers, dbDone>>

Init ==
    /\ config \in {"missing", "malformed", "portless", "good"}
    /\ dbReachable \in BOOLEAN
    /\ stage = "config"
    /\ db = "null"
    /\ routes = FALSE
    /\ port = "default"
    /\ pc = [t \in Threads |-> "idle"]
    /\ request = [t \in Threads |-> NoRequest]
    /\ left = [t \in Threads |-> <<>>]
    /\ value = [m \in AllMetrics |-> 0]
    /\ sent = 0
    /\ answers = [a \in Routes \X Statuses |-> 0]
    /\ dbDone = [o \in {DbOp[r] : r \in DOMAIN DbOp} \X BOOLEAN |-> 0]

(***************************************************************************)
(* Startup.  Whatever goes wrong in the constructor, main() goes on to     *)
(* run(), which serves the routes that were set up: all or none.           *)
(***************************************************************************)

ReadConfig ==
    /\ stage = "config"
    /\ stage' = IF config \in {"missing", "malformed"} THEN "run" ELSE "connect"
    /\ UNCHANGED <<config, dbReachable, db, routes, port>>
    /\ UNCHANGED <<pc, request, left, value, sent, answers, dbDone>>

\* Mutant: no early return when the connection fails.
MutantConnectGoesOn ==
    /\ stage = "connect"
    /\ db' = IF dbReachable THEN "connected" ELSE "unconnected"
    /\ stage' = "routes"
    /\ UNCHANGED <<config, dbReachable, routes, port>>
    /\ UNCHANGED <<pc, request, left, value, sent, answers, dbDone>>

Connect ==
    /\ stage = "connect"
    /\ db' = IF dbReachable THEN "connected" ELSE "unconnected"
    /\ stage' = IF dbReachable THEN "routes" ELSE "run"
    /\ UNCHANGED <<config, dbReachable, routes, port>>
    /\ UNCHANGED <<pc, request, left, value, sent, answers, dbDone>>

\* The port is read before the routes are set up.
SetupRoutes ==
    /\ stage = "routes"
    /\ \/ config = "portless" /\ UNCHANGED <<port, routes>>
       \/ config = "good" /\ port' = "configured" /\ routes' = TRUE
    /\ stage' = "run"
    /\ UNCHANGED <<config, dbReachable, db>>
    /\ UNCHANGED <<pc, request, left, value, sent, answers, dbDone>>

Run ==
    /\ stage = "run"
    /\ stage' = "serving"
    /\ UNCHANGED <<config, dbReachable, db, routes, port>>
    /\ UNCHANGED <<pc, request, left, value, sent, answers, dbDone>>

(***************************************************************************)
(* The handlers.                                                           *)
(***************************************************************************)
Receive(t, q) ==
    /\ stage = "serving"
    /\ pc[t] = "idle"
    /\ sent < MaxRequests
    /\ sent' = sent + 1
    /\ request' = [request EXCEPT ![t] = q]
    /\ \/ /\ routes /\ CallsDb(q)
          /\ pc' = [pc EXCEPT ![t] = "db"]
          /\ UNCHANGED left
       \/ /\ routes /\ ~CallsDb(q)
          /\ pc' = [pc EXCEPT ![t] = "record"]
          /\ left' = [left EXCEPT ![t] = Records(q, FALSE)]
       \/ /\ ~routes                    \* Crow knows no route
          /\ pc' = [pc EXCEPT ![t] = "unrouted"]
          /\ UNCHANGED left
    /\ UNCHANGED <<value, answers, dbDone>> /\ UNCHANGED startup

\* The method of Database returns; it may fail at any time.
DbReturn(t, ok) ==
    /\ pc[t] = "db"
    /\ pc' = [pc EXCEPT ![t] = "record"]
    /\ left' = [left EXCEPT ![t] = Records(request[t], ok)]
    /\ dbDone' = [dbDone EXCEPT ![<<DbOp[request[t].route], ok>>] = @ + 1]
    /\ UNCHANGED <<request, value, sent, answers>> /\ UNCHANGED startup

RecordMetric(t) ==
    /\ pc[t] = "record"
    /\ left[t] # <<>>
    /\ value' = [value EXCEPT ![Head(left[t])] = @ + 1]
    /\ left' = [left EXCEPT ![t] = Tail(@)]
    /\ UNCHANGED <<pc, request, sent, answers, dbDone>> /\ UNCHANGED startup

Finish(t, status) ==
    /\ answers' = [answers EXCEPT ![<<request[t].route, status>>] = @ + 1]
    /\ pc' = [pc EXCEPT ![t] = "idle"]
    /\ request' = [request EXCEPT ![t] = NoRequest]
    /\ UNCHANGED <<left, value, sent, dbDone>> /\ UNCHANGED startup

\* Mutant: an exception in dump() leaves the response open.
MutantAnswerOpen(t) ==
    /\ pc[t] = "record"
    /\ left[t] = <<>>
    /\ IF Status(request[t]) = 500 THEN UNCHANGED vars ELSE Finish(t, Status(request[t]))

Answer(t) ==
    /\ pc[t] = "record"
    /\ left[t] = <<>>
    /\ Finish(t, Status(request[t]))

AnswerUnrouted(t) ==
    /\ pc[t] = "unrouted"
    /\ Finish(t, 404)

Startup == ReadConfig \/ Connect \/ SetupRoutes \/ Run

Handle(t) ==
    \/ \E ok \in BOOLEAN : DbReturn(t, ok)
    \/ RecordMetric(t)
    \/ Answer(t)
    \/ AnswerUnrouted(t)

Next ==
    \/ Startup
    \/ \E t \in Threads : (\E q \in Requests : Receive(t, q)) \/ Handle(t)

Spec == Init /\ [][Next]_vars

\* main() and the handlers keep running; Database's methods return.
Fairness == WF_vars(Startup) /\ \A t \in Threads : WF_vars(Handle(t))

(***************************************************************************)
(* Properties.                                                             *)
(***************************************************************************)

Quiet == \A t \in Threads : pc[t] = "idle"

\* The series of http_requests_total and the answers of a route, over all statuses.
Counter(m) == IF m \in AllMetrics THEN value[m] ELSE 0
OverStatuses(n(_)) == n(200) + n(400) + n(401) + n(403) + n(404) + n(500)
HttpCounted(route) == OverStatuses(LAMBDA s : Counter(Metric("http_requests_total", route, s)))
Answered(route) == OverStatuses(LAMBDA s : answers[<<route, s>>])

\* No handler dereferences a null Database (db-> in webserver.cpp): while a
\* method runs, startup got as far as a connection and the configured port.
HandlersHaveDb ==
    \A t \in Threads : pc[t] = "db" => db = "connected" /\ port = "configured"

\* Once all requests are answered, http_requests_total has counted each one to
\* an API route exactly once, on the error paths too; a server without routes
\* counts nothing.
ApiRequestsCountedOnce ==
    Quiet => \A r \in ApiRoutes :
        HttpCounted(r) = IF routes THEN Answered(r) ELSE 0

\* Once all requests are answered, the auth metric and the answers agree on how
\* many logins failed; db_operations_total{operation="add_service_record",
\* success="true"} is the number of insertions that the database confirmed, and
\* each is visible in service_operations_total as well.
OutcomesCounted ==
    Quiet =>
        /\ routes => value[Auth(FALSE)]
              = answers[<<"login", 400>>] + answers[<<"login", 401>>] + answers[<<"login", 500>>]
        /\ value[Db("add_service_record", TRUE)] = dbDone[<<"add_service_record", TRUE>>]
        /\ value[Metric("service_operations_total", "create", TRUE)]
             = dbDone[<<"add_service_record", TRUE>>]

\* The status label of http_requests_total is the status that was sent.
StatusLabelTrue ==
    Quiet /\ routes => \A m \in AllMetrics :
        m[1] = "http_requests_total" => value[m] = answers[<<m[2], m[3]>>]

\* Every request is answered, whatever the configuration and the database do.
EveryRequestAnswered == \A t \in Threads : pc[t] # "idle" ~> pc[t] = "idle"

=============================================================================
