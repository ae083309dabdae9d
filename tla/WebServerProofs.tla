---------------------------- MODULE WebServerProofs ----------------------------
(***************************************************************************)
(* Proofs about module WebServer: whatever the configuration, the database *)
(* and the requests, for any finite number of Crow's threads, no handler   *)
(* meets a missing Database, every API request is counted exactly once,    *)
(* and the counted outcomes are those of the answers and of the database.  *)
(*                                                                         *)
(* The three properties speak of the moments when no request is being      *)
(* served.  In between, a handler is ahead of the answer (it counts first, *)
(* and answers afterwards) and behind the database (it counts an insertion *)
(* after the method has returned), so the inductive invariant says by how  *)
(* much: by the number of threads that are between the two.                *)
(***************************************************************************)
EXTENDS WebServer, SequenceTheorems, FiniteSetTheorems, TLAPS

HttpFamily == "http_requests_total"

\* A login that is answered with an error, and an insertion that Database confirmed.
FailedLogin(q) == q.route = "login" /\ q.body # "good"
Confirmed(q, ok) == q.route = "post_history" /\ ~Unparsed(q) /\ ok

\* The two series that count insertions.
Inserted == {Db("add_service_record", TRUE), Metric("service_operations_total", "create", TRUE)}

\* The operations that db_operations_total counts besides insertions.
OtherOps == {"test_connection", "logout", "get_devices", "get_service_types",
             "get_service_history", "get_service_records"}

\* A handler records at most one series of each family.
Separate(s) == \A i, k \in DOMAIN s : s[i][1] = s[k][1] => i = k

\* A metric that the handler of q may record: the request under its own route, a
\* failed login only when the login failed.
Suits(q, m) ==
    /\ m[1] = HttpFamily => \E status \in Statuses : m = Http(q, status)
    /\ m = Auth(FALSE) => FailedLogin(q)

\* s is all that the handler of q has to record after Database returned ok.
Complete(q, ok, s) ==
    /\ s \in Seq(AllMetrics) /\ Separate(s)
    /\ \A m \in ToSet(s) : Suits(q, m)
    /\ q.route \in ApiRoutes => \E m \in ToSet(s) : m[1] = HttpFamily
    /\ FailedLogin(q) => Auth(FALSE) \in ToSet(s)
    /\ \A m \in Inserted : m \in ToSet(s) <=> Confirmed(q, ok)

(***************************************************************************)
(* The inductive invariant.                                                *)
(***************************************************************************)
Types ==
    /\ routes \in BOOLEAN /\ sent \in Nat
    /\ pc \in [Threads -> {"idle", "db", "record", "unrouted"}]
    /\ request \in [Threads -> AllRequests \cup {NoRequest}]
    /\ left \in [Threads -> Seq(AllMetrics)]
    /\ value \in [AllMetrics -> Nat]
    /\ answers \in [Routes \X Statuses -> Nat]
    /\ dbDone \in [{DbOp[r] : r \in DOMAIN DbOp} \X BOOLEAN -> Nat]

\* Routes exist only behind a connection and the configured port; nothing is served
\* before run(), and nothing is counted without routes.
StartupInv ==
    /\ stage \in {"config", "connect", "routes", "run", "serving"}
    /\ stage = "routes" => db = "connected"
    /\ routes => db = "connected" /\ port = "configured" /\ stage \in {"run", "serving"}
    /\ stage # "serving" => /\ \A t \in Threads : pc[t] = "idle"
                            /\ \A a \in Routes \X Statuses : answers[a] = 0
    /\ ~routes => \A m \in AllMetrics : value[m] = 0

\* A thread serves a request of its own, and what it has yet to record suits it.
ThreadInv(t) ==
    /\ pc[t] # "idle" => request[t] \in AllRequests
    /\ pc[t] \in {"db", "record"} => routes
    /\ pc[t] = "unrouted" => ~routes
    /\ pc[t] = "db" => CallsDb(request[t])
    /\ pc[t] # "record" => left[t] = <<>>
    /\ Separate(left[t])
    /\ pc[t] = "record" => \A m \in ToSet(left[t]) : Suits(request[t], m)

\* The threads that have counted a request of route r, or a failed login, and not
\* answered it; those that have yet to count a confirmed insertion in series m.
HttpDone(r) ==
    {t \in Threads : /\ pc[t] = "record" /\ request[t].route = r
                     /\ \A m \in ToSet(left[t]) : m[1] # HttpFamily}
LoginDone ==
    {t \in Threads : /\ pc[t] = "record" /\ FailedLogin(request[t])
                     /\ Auth(FALSE) \notin ToSet(left[t])}
InsertDue(m) == {t \in Threads : m \in ToSet(left[t])}

FailedLogins == answers[<<"login", 400>>] + answers[<<"login", 401>>] + answers[<<"login", 500>>]
Insertions == dbDone[<<"add_service_record", TRUE>>]

CountInv ==
    /\ routes => \A r \in ApiRoutes : HttpCounted(r) = Answered(r) + Cardinality(HttpDone(r))
    /\ routes => value[Auth(FALSE)] = FailedLogins + Cardinality(LoginDone)
    /\ \A m \in Inserted : value[m] + Cardinality(InsertDue(m)) = Insertions

Inv == Types /\ StartupInv /\ (\A t \in Threads : ThreadInv(t)) /\ CountInv

(***************************************************************************)
(* What the handlers record.                                               *)
(***************************************************************************)

\* Which bodies go with which routes.
LEMMA RequestFacts ==
  ASSUME NEW q \in AllRequests
  PROVE  /\ q.route \in Routes
         /\ q.body \in {"good", "wrong", "malformed", "illformed", "missing"}
         /\ q.body = "wrong" => q.route = "login"
         /\ q.body = "missing" => q.route \in FileRoutes
         /\ Unparsed(q) => q.route \in {"login", "post_history"}
<1>1. \E r \in Routes : \E b \in Bodies(r) : q = [route |-> r, body |-> b]
  BY DEF AllRequests
<1>2. PICK r \in Routes : \E b \in Bodies(r) : q = [route |-> r, body |-> b]
  BY <1>1
<1>3. PICK b \in Bodies(r) : q = [route |-> r, body |-> b]
  BY <1>2
<1>4. b \in CASE r = "login" -> {"good", "wrong", "malformed", "illformed"}
      [] r = "post_history" -> {"good", "malformed", "illformed"}
      [] r \in FileRoutes -> {"good", "missing"}
      [] OTHER -> {"good"}
  BY DEF Bodies
<1> QED BY <1>3, <1>4 DEF Unparsed, FileRoutes

\* Two metrics as a sequence, and three.
LEMMA PairFacts ==
  ASSUME NEW a, NEW b
  PROVE  /\ DOMAIN <<a, b>> = {1, 2} /\ <<a, b>>[1] = a /\ <<a, b>>[2] = b
         /\ ToSet(<<a, b>>) = {a, b}
         /\ \A S : a \in S /\ b \in S => <<a, b>> \in Seq(S)
         /\ a[1] # b[1] => Separate(<<a, b>>)
<1>1. DOMAIN <<a, b>> = {1, 2} /\ <<a, b>>[1] = a /\ <<a, b>>[2] = b
  OBVIOUS
<1>2. ToSet(<<a, b>>) = {a, b}
  BY <1>1 DEF ToSet
<1>3. ASSUME NEW S, a \in S, b \in S PROVE <<a, b>> \in Seq(S)
  BY <1>3
<1>4. a[1] # b[1] => Separate(<<a, b>>)
  BY <1>1 DEF Separate
<1> QED BY <1>1, <1>2, <1>3, <1>4

\* See PairFacts.
LEMMA TripleFacts ==
  ASSUME NEW a, NEW b, NEW c
  PROVE  /\ ToSet(<<a, b, c>>) = {a, b, c}
         /\ \A S : a \in S /\ b \in S /\ c \in S => <<a, b, c>> \in Seq(S)
         /\ a[1] # b[1] /\ b[1] # c[1] /\ a[1] # c[1] => Separate(<<a, b, c>>)
<1>1. DOMAIN <<a, b, c>> = {1, 2, 3} /\ <<a, b, c>>[1] = a /\ <<a, b, c>>[2] = b /\ <<a, b, c>>[3] = c
  OBVIOUS
<1>2. ToSet(<<a, b, c>>) = {a, b, c}
  BY <1>1 DEF ToSet
<1>3. ASSUME NEW S, a \in S, b \in S, c \in S PROVE <<a, b, c>> \in Seq(S)
  BY <1>3
<1>4. a[1] # b[1] /\ b[1] # c[1] /\ a[1] # c[1] => Separate(<<a, b, c>>)
  BY <1>1 DEF Separate
<1> QED BY <1>1, <1>2, <1>3, <1>4

\* A handler that records two metrics, one of them the request, and inserts nothing.
LEMMA PairComplete ==
  ASSUME NEW q, NEW ok, NEW a, NEW b, {a, b} \subseteq AllMetrics, a[1] # b[1],
         Suits(q, a), Suits(q, b), HttpFamily \in {a[1], b[1]},
         FailedLogin(q) => Auth(FALSE) = a, a \notin Inserted, b \notin Inserted, ~Confirmed(q, ok)
  PROVE  Complete(q, ok, <<a, b>>)
<1> DEFINE s == <<a, b>>
<1>1. ToSet(s) = {a, b} /\ s \in Seq(AllMetrics) /\ Separate(s)
  BY PairFacts
<1> HIDE DEF s
<1> SUFFICES Complete(q, ok, s)
  BY DEF s
<1> QED BY <1>1 DEF Complete

\* Every handler records exactly what the counting needs of it, on its error paths too.
LEMMA RecordsComplete ==
  ASSUME NEW q \in AllRequests, NEW ok \in BOOLEAN
  PROVE  Complete(q, ok, Records(q, ok))
<1> DEFINE s == Records(q, ok)
<1>1. ToSet(s) \subseteq AllMetrics
  BY DEF AllMetrics
<1>2. /\ q.route \in Routes
      /\ Unparsed(q) => q.route \in {"login", "post_history"}
      /\ q.body \in {"good", "wrong", "malformed", "illformed", "missing"}
  BY RequestFacts
<1> SUFFICES Complete(q, ok, s)
  OBVIOUS
<1>4. ASSUME NEW op \in OtherOps, NEW f, q.route \notin {"login", "post_history"}, s = <<Http(q, 200), Db(op, f)>>
      PROVE  Complete(q, ok, s)
  <2> DEFINE a == Http(q, 200)
             b == Db(op, f)
  <2>1. {a, b} \subseteq AllMetrics
    BY <1>1, <1>4, PairFacts
  <2>2. a[1] = HttpFamily /\ b[1] # HttpFamily /\ Suits(q, a) /\ Suits(q, b)
    BY DEF Http, Db, Auth, Metric, Suits, HttpFamily, Statuses
  <2>3. a \notin Inserted /\ b \notin Inserted
    BY <1>4 DEF Http, Db, Metric, Inserted, OtherOps
  <2>4. ~FailedLogin(q) /\ ~Confirmed(q, ok)
    BY <1>4 DEF FailedLogin, Confirmed
  <2> HIDE DEF a, b, s
  <2> QED BY <1>4, <2>1, <2>2, <2>3, <2>4, PairComplete DEF a, b
<1>5. CASE q.route = "login"
  <2> DEFINE a == Auth(q.body = "good")
             b == Http(q, IF q.body = "good" THEN 200 ELSE IF q.body = "wrong" THEN 401 ELSE 400)
  <2>0. s = <<a, b>>
    BY <1>5 DEF Records, LoginRecords, Auth, Http, Metric
  <2>1. {a, b} \subseteq AllMetrics
    <3> HIDE DEF a, b, s
    <3> QED BY <1>1, <2>0, PairFacts
  <2>2. b[1] = HttpFamily /\ a[1] # HttpFamily /\ Suits(q, a) /\ Suits(q, b)
    <3>1. b[1] = HttpFamily /\ a[1] = "auth_attempts_total"
      BY DEF Http, Auth, Metric, HttpFamily
    <3>4. \E status \in Statuses : b = Http(q, status)
      BY DEF Statuses
    <3>2. b # Auth(FALSE)
      BY DEF Http, Auth, Metric
    <3>3. a = Auth(FALSE) => q.body # "good"
      BY DEF Auth, Metric
    <3> HIDE DEF a, b
    <3> QED BY <1>5, <3>1, <3>2, <3>3, <3>4 DEF Suits, HttpFamily, FailedLogin
  <2>3. a \notin Inserted /\ b \notin Inserted
    BY DEF Http, Db, Auth, Metric, Inserted
  <2>4. (FailedLogin(q) => Auth(FALSE) = a) /\ ~Confirmed(q, ok)
    BY <1>5 DEF FailedLogin, Confirmed, Auth, Metric
  <2> HIDE DEF a, b, s
  <2> QED BY <2>0, <2>1, <2>2, <2>3, <2>4, PairComplete
<1>6. CASE q.route = "post_devices"
  <2> DEFINE a == Metric("device_operations_total", "create_blocked", FALSE)
             b == Http(q, 403)
  <2>0. s = <<a, b>>
    BY <1>6 DEF Records, PostDevicesRecords
  <2>1. {a, b} \subseteq AllMetrics
    <3> HIDE DEF a, b, s
    <3> QED BY <1>1, <2>0, PairFacts
  <2>2. b[1] = HttpFamily /\ a[1] # HttpFamily /\ Suits(q, a) /\ Suits(q, b)
    BY DEF Http, Db, Auth, Metric, Suits, HttpFamily, Statuses
  <2>3. a \notin Inserted /\ b \notin Inserted
    BY DEF Http, Db, Metric, Inserted
  <2>4. ~FailedLogin(q) /\ ~Confirmed(q, ok)
    BY <1>6 DEF FailedLogin, Confirmed
  <2> HIDE DEF a, b, s
  <2> QED BY <2>0, <2>1, <2>2, <2>3, <2>4, PairComplete
<1>7. CASE q.route = "post_history"
  <2> DEFINE success == ~Unparsed(q) /\ ok
             a == Metric("service_operations_total", "create", success)
             b == Db("add_service_record", success)
             c == Http(q, IF success THEN 200 ELSE 400)
  <2>0. s = <<a, b, c>>
    BY <1>7 DEF Records, PostHistoryRecords
  <2>1. /\ ToSet(s) = {a, b, c} /\ (a \in AllMetrics /\ b \in AllMetrics /\ c \in AllMetrics => s \in Seq(AllMetrics))
        /\ (a[1] # b[1] /\ b[1] # c[1] /\ a[1] # c[1] => Separate(s))
    BY <2>0, TripleFacts
  <2>2. c[1] = HttpFamily /\ a[1] = "service_operations_total" /\ b[1] = "db_operations_total"
    BY DEF Http, Db, Metric, HttpFamily
  <2>3. s \in Seq(AllMetrics) /\ Separate(s)
    BY <1>1, <2>1, <2>2 DEF HttpFamily
  <2>4. Suits(q, a) /\ Suits(q, b) /\ Suits(q, c)
    BY DEF Http, Db, Auth, Metric, Suits, HttpFamily, Statuses
  <2>5. \A m \in Inserted : m \in {a, b, c} <=> success
    <3>1. a # Db("add_service_record", TRUE) /\ b # Metric("service_operations_total", "create", TRUE)
          /\ c \notin Inserted
      BY DEF Http, Db, Metric, Inserted
    <3>2. a = Metric("service_operations_total", "create", TRUE) <=> success
      BY DEF Metric
    <3>3. b = Db("add_service_record", TRUE) <=> success
      BY DEF Db, Metric
    <3> HIDE DEF a, b, c, success
    <3> QED BY <3>1, <3>2, <3>3 DEF Inserted
  <2>6. (Confirmed(q, ok) <=> success) /\ ~FailedLogin(q)
    BY <1>7 DEF Confirmed, FailedLogin
  <2> HIDE DEF a, b, c, s, success
  <2> QED BY <2>1, <2>2, <2>3, <2>4, <2>5, <2>6 DEF Complete
<1>8. CASE q.route \notin ApiRoutes
  <2>1. s = <<>>
    BY <1>8 DEF Records, ApiRoutes, DbOp
  <2>2. ToSet(s) = {} /\ Separate(s) /\ s \in Seq(AllMetrics)
    BY <2>1, EmptySeq DEF ToSet, Separate
  <2>3. ~FailedLogin(q) /\ ~Confirmed(q, ok)
    BY <1>8 DEF ApiRoutes, DbOp, FailedLogin, Confirmed
  <2> HIDE DEF s
  <2> QED BY <1>8, <2>2, <2>3 DEF Complete
<1>9. CASE q.route \in {"test_db", "logout", "get_devices", "get_types", "get_history", "get_records"}
  <2>1. CASE q.route = "test_db"
    <3>1. s = <<Http(q, 200), Db("test_connection", ok)>>
      BY <2>1 DEF Records, TestDbRecords
    <3>2. q.route \notin {"login", "post_history"}
      BY <2>1
    <3>3. "test_connection" \in OtherOps
      BY DEF OtherOps
    <3> HIDE DEF s
    <3> QED BY <1>4, <3>1, <3>2, <3>3, Zenon
  <2>2. CASE q.route = "logout"
    <3>1. s = <<Http(q, 200), Db("logout", TRUE)>>
      BY <2>2 DEF Records, LogoutRecords
    <3>2. q.route \notin {"login", "post_history"} /\ "logout" \in OtherOps
      BY <2>2 DEF OtherOps
    <3> HIDE DEF s
    <3> QED BY <1>4, <3>1, <3>2, Zenon
  <2>3. CASE q.route \in {"get_devices", "get_types", "get_history", "get_records"}
    <3>1. q.route \notin {"login", "post_history"} /\ DbOp[q.route] \in OtherOps
      BY <2>3 DEF DbOp, OtherOps
    <3>2. s = <<Http(q, 200), Db(DbOp[q.route], TRUE)>>
      BY <2>3 DEF Records, ListRecords
    <3> HIDE DEF s
    <3> QED BY <1>4, <3>1, <3>2, Zenon
  <2> QED BY <1>9, <2>1, <2>2, <2>3
<1> QED BY <1>2, <1>5, <1>6, <1>7, <1>8, <1>9 DEF Routes, ApiRoutes, DbOp

\* Recording the first metric of a list removes it, and its family, from the list.
LEMMA HeadRecorded ==
  ASSUME NEW s \in Seq(AllMetrics), s # <<>>, Separate(s)
  PROVE  /\ Head(s) \in AllMetrics /\ Head(s) \in ToSet(s)
         /\ Tail(s) \in Seq(AllMetrics) /\ Separate(Tail(s))
         /\ ToSet(Tail(s)) = ToSet(s) \ {Head(s)}
         /\ \A m \in ToSet(Tail(s)) : m[1] # Head(s)[1]
<1> DEFINE r == Tail(s)
<1>1. /\ Head(s) \in AllMetrics /\ r \in Seq(AllMetrics) /\ Len(r) = Len(s) - 1
      /\ \A i \in 1 .. Len(r) : r[i] = s[i + 1]
  BY HeadTailProperties
<1>2. /\ Len(s) \in Nat \ {0} /\ DOMAIN s = 1 .. Len(s) /\ DOMAIN r = 1 .. Len(r)
      /\ Head(s) = s[1]
  BY <1>1, EmptySeq, LenProperties
<1> HIDE DEF r
<1>3. Separate(r)
  <2> SUFFICES ASSUME NEW i \in DOMAIN r, NEW k \in DOMAIN r, r[i][1] = r[k][1] PROVE i = k
    BY DEF Separate
  <2>1. i + 1 \in DOMAIN s /\ k + 1 \in DOMAIN s /\ r[i] = s[i + 1] /\ r[k] = s[k + 1]
    BY <1>1, <1>2
  <2>2. i + 1 = k + 1
    BY <2>1 DEF Separate
  <2> QED BY <1>2, <2>2
<1>4. ASSUME NEW m \in ToSet(r) PROVE m \in ToSet(s) /\ m[1] # Head(s)[1]
  <2>1. PICK i \in DOMAIN r : m = r[i]
    BY DEF ToSet
  <2>2. i + 1 \in DOMAIN s /\ 1 \in DOMAIN s /\ i + 1 # 1 /\ m = s[i + 1]
    BY <1>1, <1>2, <2>1
  <2>3. m[1] # s[1][1]
    BY <2>2 DEF Separate
  <2> QED BY <1>2, <2>2, <2>3 DEF ToSet
<1>5. ASSUME NEW m \in ToSet(s), m # Head(s) PROVE m \in ToSet(r)
  <2>1. PICK i \in DOMAIN s : m = s[i]
    BY DEF ToSet
  <2>2. i - 1 \in 1 .. Len(r) /\ (i - 1) + 1 = i
    BY <1>1, <1>2, <1>5, <2>1
  <2>3. r[i - 1] = m
    BY <1>1, <2>1, <2>2
  <2> QED BY <1>2, <2>2, <2>3 DEF ToSet
<1>6. Head(s) \in ToSet(s)
  BY <1>2 DEF ToSet
<1>7. ToSet(r) = ToSet(s) \ {Head(s)}
  BY <1>4, <1>5
<1> QED BY <1>1, <1>3, <1>4, <1>6, <1>7 DEF r

(***************************************************************************)
(* How a step changes the counts.                                          *)
(***************************************************************************)

\* Counting one more in a series of http_requests_total, or in another.
LEMMA HttpCountedStep ==
  ASSUME Types, NEW h \in AllMetrics, value' = [value EXCEPT ![h] = @ + 1], NEW r
  PROVE  /\ HttpCounted(r) \in Nat
         /\ (\E s \in Statuses : h = <<HttpFamily, r, s>>) => HttpCounted(r)' = HttpCounted(r) + 1
         /\ (\A s \in Statuses : h # <<HttpFamily, r, s>>) => HttpCounted(r)' = HttpCounted(r)
<1> DEFINE c(s) == Counter(<<HttpFamily, r, s>>)
<1>1. ASSUME NEW s
      PROVE  /\ c(s) \in Nat
             /\ h = <<HttpFamily, r, s>> => c(s)' = c(s) + 1
             /\ h # <<HttpFamily, r, s>> => c(s)' = c(s)
  <2> DEFINE m == <<HttpFamily, r, s>>
  <2> HIDE DEF m
  <2>1. Counter(m) \in Nat /\ (h = m => Counter(m)' = Counter(m) + 1) /\ (h # m => Counter(m)' = Counter(m))
    BY DEF Counter, Types
  <2> QED BY <2>1 DEF m
<1>2. HttpCounted(r) = c(200) + c(400) + c(401) + c(403) + c(404) + c(500)
  BY DEF HttpCounted, OverStatuses, Metric, HttpFamily
<1>3. HttpCounted(r)' = c(200)' + c(400)' + c(401)' + c(403)' + c(404)' + c(500)'
  BY DEF HttpCounted, OverStatuses, Metric, HttpFamily
<1>4. \A s1, s2 : s1 # s2 => <<HttpFamily, r, s1>> # <<HttpFamily, r, s2>>
  OBVIOUS
<1> HIDE DEF c
<1>5. ASSUME \A s \in Statuses : h # <<HttpFamily, r, s>>
      PROVE  HttpCounted(r)' = HttpCounted(r)
  BY <1>1, <1>2, <1>3, <1>5 DEF Statuses
<1>6. ASSUME NEW s \in Statuses, h = <<HttpFamily, r, s>>
      PROVE  HttpCounted(r)' = HttpCounted(r) + 1
  <2>1. \A s2 : s2 # s => h # <<HttpFamily, r, s2>>
    BY <1>4, <1>6
  <2>2. s = 200 \/ s = 400 \/ s = 401 \/ s = 403 \/ s = 404 \/ s = 500
    BY DEF Statuses
  <2>3. ASSUME NEW s2 \in Statuses
        PROVE  c(s2) \in Nat /\ c(s2)' = IF s2 = s THEN c(s2) + 1 ELSE c(s2)
    BY <1>1, <1>6, <2>1
  <2>4. {200, 400, 401, 403, 404, 500} = Statuses
    BY DEF Statuses
  <2> QED BY <1>2, <1>3, <2>2, <2>3, <2>4
<1>7. HttpCounted(r) \in Nat
  BY <1>1, <1>2
<1> QED BY <1>5, <1>6, <1>7

\* One more answer of a route.
LEMMA AnsweredStep ==
  ASSUME Types, NEW route \in Routes, NEW status \in Statuses, NEW r \in Routes,
         answers' = [answers EXCEPT ![<<route, status>>] = @ + 1]
  PROVE  /\ Answered(r) \in Nat /\ FailedLogins \in Nat
         /\ Answered(r)' = IF r = route THEN Answered(r) + 1 ELSE Answered(r)
         /\ FailedLogins' = IF route = "login" /\ status \in {400, 401, 500}
                            THEN FailedLogins + 1 ELSE FailedLogins
<1>1. ASSUME NEW q \in Routes, NEW s \in Statuses
      PROVE  /\ answers[<<q, s>>] \in Nat
             /\ answers'[<<q, s>>] = IF q = route /\ s = status THEN answers[<<q, s>>] + 1 ELSE answers[<<q, s>>]
  BY DEF Types
<1>2. Answered(r) = answers[<<r, 200>>] + answers[<<r, 400>>] + answers[<<r, 401>>]
        + answers[<<r, 403>>] + answers[<<r, 404>>] + answers[<<r, 500>>]
  BY DEF Answered, OverStatuses
<1>3. Answered(r)' = answers'[<<r, 200>>] + answers'[<<r, 400>>] + answers'[<<r, 401>>]
        + answers'[<<r, 403>>] + answers'[<<r, 404>>] + answers'[<<r, 500>>]
  BY DEF Answered, OverStatuses
<1>4. {200, 400, 401, 403, 404, 500} = Statuses
  BY DEF Statuses
<1>5. Answered(r)' = (IF r = route THEN Answered(r) + 1 ELSE Answered(r)) /\ Answered(r) \in Nat
  BY <1>1, <1>2, <1>3, <1>4
<1>6. "login" \in Routes
  BY DEF Routes, ApiRoutes
<1>7. /\ FailedLogins \in Nat
      /\ FailedLogins' = IF route = "login" /\ status \in {400, 401, 500}
                         THEN FailedLogins + 1 ELSE FailedLogins
  BY <1>1, <1>4, <1>6 DEF FailedLogins
<1> QED BY <1>5, <1>7

\* The numbers of answers are natural numbers.
LEMMA AnswersCounted ==
  ASSUME Types
  PROVE  FailedLogins \in Nat /\ \A r \in ApiRoutes : Answered(r) \in Nat
<1>1. /\ {200, 400, 401, 403, 404, 500} = Statuses /\ "login" \in ApiRoutes
      /\ ApiRoutes \subseteq Routes
  BY DEF Routes, ApiRoutes, Statuses
<1>2. \A r \in Routes, s \in Statuses : answers[<<r, s>>] \in Nat
  BY DEF Types
<1>3. FailedLogins \in Nat
  BY <1>1, <1>2 DEF FailedLogins
<1>4. ASSUME NEW r \in ApiRoutes PROVE Answered(r) \in Nat
  BY <1>1, <1>2 DEF Answered, OverStatuses
<1> QED BY <1>3, <1>4

\* A thread joins or leaves a set of threads.
LEMMA CountThreads ==
  ASSUME NEW S \in SUBSET Threads, NEW t
  PROVE  /\ Cardinality(S) \in Nat
         /\ t \notin S => Cardinality(S \cup {t}) = Cardinality(S) + 1
         /\ t \in S => Cardinality(S \ {t}) = Cardinality(S) - 1
<1>1. IsFiniteSet(S)
  BY ThreadsAssumption, FS_Subset
<1> QED BY <1>1, FS_CardinalityType, FS_AddElement, FS_RemoveElement

\* The series that the counting speaks of exist.
LEMMA CountedExist == Auth(FALSE) \in AllMetrics /\ Inserted \subseteq AllMetrics
<1>1. ASSUME NEW q \in AllRequests, NEW ok \in BOOLEAN PROVE ToSet(Records(q, ok)) \subseteq AllMetrics
  BY DEF AllMetrics
<1> DEFINE l == [route |-> "login", body |-> "wrong"]
           p == [route |-> "post_history", body |-> "good"]
<1>2. l \in AllRequests /\ p \in AllRequests
  <2>1. "login" \in Routes /\ "post_history" \in Routes
    BY DEF Routes, ApiRoutes, DbOp
  <2>2. "wrong" \in Bodies("login") /\ "good" \in Bodies("post_history")
    <3>1. Bodies("login") = {"good", "wrong", "malformed", "illformed"}
      BY DEF Bodies, FileRoutes
    <3>2. Bodies("post_history") = {"good", "malformed", "illformed"}
      BY DEF Bodies, FileRoutes
    <3> QED BY <3>1, <3>2
  <2> QED BY <2>1, <2>2 DEF AllRequests
<1>3. Complete(l, TRUE, Records(l, TRUE)) /\ Complete(p, TRUE, Records(p, TRUE))
  BY <1>2, RecordsComplete
<1>4. FailedLogin(l) /\ Confirmed(p, TRUE)
  BY DEF FailedLogin, Confirmed, Unparsed
<1>5. Auth(FALSE) \in ToSet(Records(l, TRUE)) /\ Inserted \subseteq ToSet(Records(p, TRUE))
  BY <1>3, <1>4 DEF Complete
<1> QED BY <1>1, <1>2, <1>5

(***************************************************************************)
(* The invariant is inductive: one lemma for each action.                  *)
(***************************************************************************)

\* Before main() starts nothing is routed, served or counted.
LEMMA InitInv == Init => Inv
<1> SUFFICES ASSUME Init PROVE Inv
  OBVIOUS
<1>1. Types
  BY EmptySeq DEF Init, Types
<1>2. StartupInv
  BY DEF Init, StartupInv
<1>3. \A t \in Threads : left[t] = <<>> /\ pc[t] = "idle"
  BY DEF Init
<1>4. Separate(<<>>) /\ ToSet(<<>>) = {}
  BY DEF Separate, ToSet
<1>5. \A t \in Threads : ThreadInv(t)
  BY <1>3, <1>4 DEF ThreadInv
<1>6. CountInv
  <2>1. ~routes
    BY DEF Init
  <2>2. \A m \in Inserted : InsertDue(m) = {} /\ value[m] = 0
    BY <1>3, <1>4, CountedExist DEF Init, InsertDue
  <2>3. Insertions = 0
    <3>1. <<"add_service_record", TRUE>> \in {DbOp[r] : r \in DOMAIN DbOp} \X BOOLEAN
      BY DEF DbOp
    <3> QED BY <3>1 DEF Init, Insertions
  <2>4. Cardinality({}) = 0
    BY FS_EmptySet
  <2>5. ASSUME NEW m \in Inserted PROVE value[m] + Cardinality(InsertDue(m)) = Insertions
    <3>1. value[m] = 0 /\ Cardinality(InsertDue(m)) = 0
      BY <2>2, <2>4
    <3> QED BY <2>3, <3>1
  <2> QED BY <2>1, <2>5 DEF CountInv
<1> QED BY <1>1, <1>2, <1>5, <1>6 DEF Inv

\* What the invariant says is about the startup, the threads and the counts; a startup
\* step touches only the first.
LEMMA StartupStep == ASSUME Inv, Startup PROVE Inv'
<1>1. Types /\ StartupInv /\ (\A t \in Threads : ThreadInv(t)) /\ CountInv
  BY DEF Inv
<1>2. UNCHANGED <<pc, request, left, value, sent, answers, dbDone>>
  BY DEF Startup, ReadConfig, Connect, SetupRoutes, Run
<1>3. /\ StartupInv' /\ routes' \in BOOLEAN /\ (routes => routes')
      /\ routes' # routes => stage # "serving" /\ ~routes
  <2>1. routes \in BOOLEAN
    BY <1>1 DEF Types
  <2>2. CASE ReadConfig
    BY <1>1, <1>2, <2>1, <2>2 DEF ReadConfig, StartupInv
  <2>3. CASE Connect
    BY <1>1, <1>2, <2>1, <2>3 DEF Connect, StartupInv
  <2>4. CASE SetupRoutes
    <3>1. /\ stage = "routes" /\ stage' = "run" /\ db' = db
          /\ \/ port' = port /\ routes' = routes
             \/ port' = "configured" /\ routes' = TRUE
      BY <2>4 DEF SetupRoutes
    <3>2. ~routes /\ db = "connected" /\ (\A t \in Threads : pc[t] = "idle")
          /\ (\A a \in Routes \X Statuses : answers[a] = 0)
          /\ (\A m \in AllMetrics : value[m] = 0)
      BY <1>1, <3>1 DEF StartupInv
    <3>3. routes' \in BOOLEAN /\ (routes' => port' = "configured")
      <4>1. CASE port' = port /\ routes' = routes
        BY <2>1, <3>2, <4>1, Zenon
      <4>2. CASE port' = "configured" /\ routes' = TRUE
        BY <4>2
      <4> QED BY <3>1, <4>1, <4>2
    <3>4. StartupInv'
      BY <1>2, <3>1, <3>2, <3>3 DEF StartupInv
    <3> QED BY <3>1, <3>2, <3>3, <3>4
  <2>5. CASE Run
    BY <1>1, <1>2, <2>1, <2>5 DEF Run, StartupInv
  <2> QED BY <2>2, <2>3, <2>4, <2>5 DEF Startup
<1>4. Types'
  BY <1>1, <1>2, <1>3 DEF Types
<1>5. \A t \in Threads : ThreadInv(t)'
  BY <1>1, <1>2, <1>3 DEF ThreadInv, StartupInv
<1>6. CountInv'
  <2>1. \A r : HttpDone(r)' = HttpDone(r) /\ HttpCounted(r)' = HttpCounted(r) /\ Answered(r)' = Answered(r)
    BY <1>2 DEF HttpDone, HttpCounted, Answered, OverStatuses, Counter
  <2>2. LoginDone' = LoginDone /\ FailedLogins' = FailedLogins /\ Insertions' = Insertions
        /\ \A m : InsertDue(m)' = InsertDue(m)
    BY <1>2 DEF LoginDone, FailedLogins, Insertions, InsertDue
  <2>3. CASE routes' = routes
    BY <1>1, <1>2, <2>1, <2>2, <2>3 DEF CountInv
  <2>4. CASE routes' # routes
    <3>1. ~routes /\ stage # "serving"
      BY <1>3, <2>4
    <3>2. /\ \A t \in Threads : pc[t] = "idle"
          /\ \A a \in Routes \X Statuses : answers[a] = 0
          /\ \A m \in AllMetrics : value[m] = 0
      BY <1>1, <3>1 DEF StartupInv
    <3>3. ASSUME NEW r \in ApiRoutes
          PROVE  HttpCounted(r) = 0 /\ Answered(r) = 0 /\ HttpDone(r) = {}
      <4>1. \A m : Counter(m) = 0
        BY <3>2 DEF Counter
      <4>2. HttpCounted(r) = 0
        BY <4>1 DEF HttpCounted, OverStatuses
      <4>3. r \in Routes
        BY DEF Routes
      <4>4. Answered(r) = 0
        BY <3>2, <4>3 DEF Answered, OverStatuses, Statuses
      <4> QED BY <3>2, <4>2, <4>4 DEF HttpDone
    <3>4. value[Auth(FALSE)] = 0 /\ FailedLogins = 0 /\ LoginDone = {}
      <4>1. "login" \in Routes
        BY DEF Routes, ApiRoutes
      <4>2. FailedLogins = 0
        BY <3>2, <4>1 DEF FailedLogins, Statuses
      <4>3. LoginDone = {}
        BY <3>2 DEF LoginDone
      <4> QED BY <3>2, <4>2, <4>3, CountedExist
    <3>5. Cardinality({}) = 0
      BY FS_EmptySet
    <3> QED BY <1>1, <1>2, <2>1, <2>2, <3>3, <3>4, <3>5 DEF CountInv
  <2> QED BY <2>3, <2>4
<1> QED BY <1>3, <1>4, <1>5, <1>6 DEF Inv

\* A thread that is about to record has all of its metrics before it, so it is in none of
\* the sets of threads that have counted.
LEMMA RecordingStarts ==
  ASSUME Inv, NEW t \in Threads, pc[t] \in {"idle", "db"}, routes, stage = "serving",
         NEW q \in AllRequests, NEW ok \in BOOLEAN,
         pc' = [pc EXCEPT ![t] = "record"], left' = [left EXCEPT ![t] = Records(q, ok)],
         request' \in [Threads -> AllRequests \cup {NoRequest}],
         request'[t] = q, \A u \in Threads : u # t => request'[u] = request[u],
         UNCHANGED <<value, answers>>, UNCHANGED startup, sent' \in Nat,
         dbDone' \in [{DbOp[r] : r \in DOMAIN DbOp} \X BOOLEAN -> Nat],
         Insertions' = IF Confirmed(q, ok) THEN Insertions + 1 ELSE Insertions
  PROVE  Inv'
<1>1. Types /\ StartupInv /\ (\A u \in Threads : ThreadInv(u)) /\ CountInv
  BY DEF Inv
<1>2. Complete(q, ok, Records(q, ok))
  BY RecordsComplete
<1>3. /\ left'[t] = Records(q, ok) /\ pc'[t] = "record"
      /\ \A u \in Threads : u # t => left'[u] = left[u] /\ pc'[u] = pc[u]
  BY <1>1 DEF Types
<1>4. Types'
  BY <1>1, <1>2 DEF Types, Complete, startup
<1>5. StartupInv'
  BY <1>1, <1>3 DEF StartupInv, startup
<1>6. \A u \in Threads : ThreadInv(u)'
  <2>1. ThreadInv(t)'
    BY <1>2, <1>3 DEF ThreadInv, Complete, startup
  <2>2. ASSUME NEW u \in Threads, u # t PROVE ThreadInv(u)'
    <3>1. ThreadInv(u) /\ left'[u] = left[u] /\ pc'[u] = pc[u] /\ request'[u] = request[u] /\ routes' = routes
      BY <1>1, <1>3, <2>2 DEF startup
    <3> QED BY <3>1 DEF ThreadInv
  <2> QED BY <2>1, <2>2
<1>7. left[t] = <<>> /\ ToSet(left[t]) = {} /\ pc[t] # "record"
  BY <1>1 DEF ThreadInv, ToSet
<1>8. ASSUME NEW r \in ApiRoutes PROVE HttpDone(r)' = HttpDone(r)
  <2>1. t \notin HttpDone(r) /\ t \notin HttpDone(r)'
    BY <1>2, <1>3, <1>7 DEF HttpDone, Complete
  <2>2. \A u \in Threads : u # t => (u \in HttpDone(r)' <=> u \in HttpDone(r))
    BY <1>3 DEF HttpDone
  <2> QED BY <2>1, <2>2 DEF HttpDone
<1>9. LoginDone' = LoginDone
  <2>1. t \notin LoginDone /\ t \notin LoginDone'
    BY <1>2, <1>3, <1>7 DEF LoginDone, Complete
  <2>2. \A u \in Threads : u # t => (u \in LoginDone' <=> u \in LoginDone)
    BY <1>3 DEF LoginDone
  <2> QED BY <2>1, <2>2 DEF LoginDone
<1>10. ASSUME NEW m \in Inserted
       PROVE  Cardinality(InsertDue(m)') = IF Confirmed(q, ok) THEN Cardinality(InsertDue(m)) + 1
                                           ELSE Cardinality(InsertDue(m))
  <2>1. t \notin InsertDue(m) /\ (t \in InsertDue(m)' <=> Confirmed(q, ok))
    BY <1>2, <1>3, <1>7 DEF InsertDue, Complete
  <2>2. \A u \in Threads : u # t => (u \in InsertDue(m)' <=> u \in InsertDue(m))
    BY <1>3 DEF InsertDue
  <2>3. InsertDue(m) \in SUBSET Threads /\ InsertDue(m)' \in SUBSET Threads
    BY DEF InsertDue
  <2>4. CASE Confirmed(q, ok)
    <3>1. InsertDue(m)' = InsertDue(m) \cup {t}
      BY <2>1, <2>2, <2>3, <2>4
    <3> QED BY <2>1, <2>3, <2>4, <3>1, CountThreads
  <2>5. CASE ~Confirmed(q, ok)
    <3>1. \A u \in Threads : u \in InsertDue(m)' <=> u \in InsertDue(m)
      BY <2>1, <2>2, <2>5
    <3>2. InsertDue(m)' = InsertDue(m)
      BY <2>3, <3>1, Zenon
    <3> QED BY <2>5, <3>2
  <2> QED BY <2>4, <2>5
<1>11. CountInv'
  <2>1. \A r : HttpCounted(r)' = HttpCounted(r) /\ Answered(r)' = Answered(r)
    BY DEF HttpCounted, Answered, OverStatuses, Counter
  <2>2. FailedLogins' = FailedLogins /\ routes' = routes
    BY DEF FailedLogins, startup
  <2>3. ASSUME NEW m \in Inserted PROVE value'[m] + Cardinality(InsertDue(m)') = Insertions'
    <3>1. value[m] \in Nat /\ Cardinality(InsertDue(m)) \in Nat
      BY <1>1, CountThreads, CountedExist DEF Types, InsertDue
    <3> QED BY <1>1, <1>10, <3>1 DEF CountInv
  <2> QED BY <1>1, <1>8, <1>9, <2>1, <2>2, <2>3 DEF CountInv
<1> QED BY <1>4, <1>5, <1>6, <1>11 DEF Inv

\* Operations of Database and what a request confirms.
LEMMA DbOpFacts ==
  ASSUME NEW q \in AllRequests, CallsDb(q)
  PROVE  /\ DbOp[q.route] \in {DbOp[r] : r \in DOMAIN DbOp}
         /\ DbOp[q.route] = "add_service_record" <=> q.route = "post_history"
BY DEF CallsDb, DbOp

\* The thread leaves what it has to record alone and stays away from "record".
LEMMA Waiting ==
  ASSUME Inv, NEW t \in Threads, pc[t] = "idle", stage = "serving", NEW q \in AllRequests,
         NEW w \in {"db", "unrouted"}, w = "db" => routes /\ CallsDb(q), w = "unrouted" => ~routes,
         pc' = [pc EXCEPT ![t] = w], request' = [request EXCEPT ![t] = q],
         UNCHANGED <<left, value, answers, dbDone>>, UNCHANGED startup, sent' \in Nat
  PROVE  Inv'
<1>1. Types /\ StartupInv /\ (\A u \in Threads : ThreadInv(u)) /\ CountInv
  BY DEF Inv
<1>2. /\ pc'[t] = w /\ request'[t] = q
      /\ \A u \in Threads : u # t => request'[u] = request[u] /\ pc'[u] = pc[u]
  BY <1>1 DEF Types
<1>3. Types'
  BY <1>1 DEF Types, startup
<1>4. StartupInv'
  BY <1>1, <1>2 DEF StartupInv, startup
<1>5. \A u \in Threads : ThreadInv(u)'
  BY <1>1, <1>2 DEF ThreadInv, startup
<1>6. ASSUME NEW r PROVE HttpDone(r)' = HttpDone(r)
  <2>1. \A u \in Threads : u \in HttpDone(r)' <=> u \in HttpDone(r)
    BY <1>2 DEF HttpDone
  <2> QED BY <2>1 DEF HttpDone
<1>7. LoginDone' = LoginDone
  <2>1. \A u \in Threads : u \in LoginDone' <=> u \in LoginDone
    BY <1>2 DEF LoginDone
  <2> QED BY <2>1 DEF LoginDone
<1>8. \A r : HttpCounted(r)' = HttpCounted(r) /\ Answered(r)' = Answered(r)
  BY DEF HttpCounted, Answered, OverStatuses, Counter
<1>9. FailedLogins' = FailedLogins /\ Insertions' = Insertions /\ routes' = routes
      /\ \A m : InsertDue(m)' = InsertDue(m)
  BY DEF FailedLogins, Insertions, InsertDue, startup
<1>10. CountInv'
  BY <1>1, <1>6, <1>7, <1>8, <1>9 DEF CountInv
<1> QED BY <1>3, <1>4, <1>5, <1>10 DEF Inv

\* A request arrives: at Database, at the metrics, or at no route.
LEMMA ReceiveStep ==
  ASSUME Inv, NEW t \in Threads, NEW q \in Requests, Receive(t, q)
  PROVE  Inv'
<1>1. q \in AllRequests
  BY RequestsAssumption
<1>2. Types
  BY DEF Inv
<1>3. /\ stage = "serving" /\ pc[t] = "idle" /\ sent' \in Nat
      /\ request' = [request EXCEPT ![t] = q]
      /\ UNCHANGED <<value, answers, dbDone>> /\ UNCHANGED startup
  BY <1>2 DEF Receive, Types
<1>4. CASE routes /\ CallsDb(q) /\ pc' = [pc EXCEPT ![t] = "db"] /\ UNCHANGED left
  BY <1>1, <1>3, <1>4, Waiting
<1>5. CASE ~routes /\ pc' = [pc EXCEPT ![t] = "unrouted"] /\ UNCHANGED left
  BY <1>1, <1>3, <1>5, Waiting
<1>6. CASE /\ routes /\ ~CallsDb(q)
           /\ pc' = [pc EXCEPT ![t] = "record"]
           /\ left' = [left EXCEPT ![t] = Records(q, FALSE)]
  <2>1. ~Confirmed(q, FALSE) /\ Insertions' = Insertions
    BY <1>3 DEF Confirmed, Insertions
  <2>2. /\ request' \in [Threads -> AllRequests \cup {NoRequest}] /\ request'[t] = q
        /\ \A u \in Threads : u # t => request'[u] = request[u]
    BY <1>1, <1>2, <1>3 DEF Types
  <2>3. dbDone' \in [{DbOp[r] : r \in DOMAIN DbOp} \X BOOLEAN -> Nat]
    BY <1>2, <1>3 DEF Types
  <2>4. Insertions' = IF Confirmed(q, FALSE) THEN Insertions + 1 ELSE Insertions
    BY <2>1
  <2>5. pc[t] \in {"idle", "db"} /\ UNCHANGED <<value, answers>> /\ FALSE \in BOOLEAN
    BY <1>3
  <2> QED BY <1>1, <1>3, <1>6, <2>2, <2>3, <2>4, <2>5, RecordingStarts
<1> QED BY <1>4, <1>5, <1>6 DEF Receive

\* The method of Database returns, and a confirmed insertion is due in both series.
LEMMA DbReturnStep ==
  ASSUME Inv, NEW t \in Threads, NEW ok \in BOOLEAN, DbReturn(t, ok)
  PROVE  Inv'
<1> DEFINE q == request[t]
           o == DbOp[q.route]
<1>1. Types /\ StartupInv /\ ThreadInv(t)
  BY DEF Inv
<1>2. /\ pc[t] = "db" /\ pc' = [pc EXCEPT ![t] = "record"]
      /\ left' = [left EXCEPT ![t] = Records(q, ok)]
      /\ dbDone' = [dbDone EXCEPT ![<<o, ok>>] = @ + 1]
      /\ UNCHANGED <<request, value, sent, answers>> /\ UNCHANGED startup
  BY DEF DbReturn
<1>3. q \in AllRequests /\ CallsDb(q) /\ routes /\ stage = "serving"
  BY <1>1, <1>2 DEF ThreadInv, StartupInv
<1>4. o \in {DbOp[r] : r \in DOMAIN DbOp} /\ (o = "add_service_record" <=> q.route = "post_history")
  BY <1>3, DbOpFacts
<1>5. ~Unparsed(q)
  BY <1>3 DEF CallsDb
<1>6. dbDone \in [{DbOp[r] : r \in DOMAIN DbOp} \X BOOLEAN -> Nat]
  BY <1>1 DEF Types
<1>7. "add_service_record" \in {DbOp[r] : r \in DOMAIN DbOp}
  BY DEF DbOp
<1> DEFINE Ops == {DbOp[r] : r \in DOMAIN DbOp}
<1> HIDE DEF o, q, Ops
<1>8. dbDone' \in [Ops \X BOOLEAN -> Nat]
  BY <1>2, <1>4, <1>6 DEF Ops
<1>9. Insertions' = IF Confirmed(q, ok) THEN Insertions + 1 ELSE Insertions
  <2>1. <<"add_service_record", TRUE>> \in Ops \X BOOLEAN
    BY <1>7 DEF Ops
  <2>2. <<o, ok>> = <<"add_service_record", TRUE>> <=> Confirmed(q, ok)
    BY <1>4, <1>5 DEF Confirmed
  <2>3. ASSUME NEW a \in Ops \X BOOLEAN, NEW b
        PROVE  [dbDone EXCEPT ![b] = @ + 1][a] = IF b = a THEN dbDone[a] + 1 ELSE dbDone[a]
    BY <1>6 DEF Ops
  <2> QED BY <1>2, <2>1, <2>2, <2>3 DEF Insertions
<1>10. /\ request' \in [Threads -> AllRequests \cup {NoRequest}] /\ request'[t] = q
       /\ \A u \in Threads : u # t => request'[u] = request[u]
  BY <1>1, <1>2 DEF Types, q
<1>11. sent' \in Nat /\ pc[t] \in {"idle", "db"} /\ UNCHANGED <<value, answers>>
  BY <1>1, <1>2 DEF Types
<1> QED BY <1>2, <1>3, <1>8, <1>9, <1>10, <1>11, RecordingStarts DEF Ops

\* One thread moves, as far as a set of threads is concerned.
LEMMA OneThreadMoves ==
  ASSUME NEW S \in SUBSET Threads, NEW S2 \in SUBSET Threads, NEW t \in Threads,
         \A u \in Threads : u # t => (u \in S2 <=> u \in S)
  PROVE  /\ Cardinality(S) \in Nat
         /\ (t \in S2 /\ t \notin S) => Cardinality(S2) = Cardinality(S) + 1
         /\ (t \in S /\ t \notin S2) => Cardinality(S2) = Cardinality(S) - 1
         /\ (t \in S2 <=> t \in S) => Cardinality(S2) = Cardinality(S)
<1>1. ASSUME t \in S2, t \notin S PROVE Cardinality(S2) = Cardinality(S) + 1
  <2>1. S2 = S \cup {t}
    BY <1>1
  <2> QED BY <1>1, <2>1, CountThreads
<1>2. ASSUME t \in S, t \notin S2 PROVE Cardinality(S2) = Cardinality(S) - 1
  <2>1. S2 = S \ {t}
    BY <1>2
  <2> QED BY <1>2, <2>1, CountThreads
<1>3. ASSUME t \in S2 <=> t \in S PROVE Cardinality(S2) = Cardinality(S)
  <2>1. \A u \in Threads : u \in S2 <=> u \in S
    BY <1>3
  <2>2. S2 = S
    BY <2>1, Zenon
  <2> QED BY <2>2
<1> QED BY <1>1, <1>2, <1>3, CountThreads

\* A metric is recorded: it was due until now and is done from now on.
LEMMA RecordMetricStep ==
  ASSUME Inv, NEW t \in Threads, RecordMetric(t)
  PROVE  Inv'
<1> DEFINE h == Head(left[t])
           q == request[t]
           s == left[t]
<1>1. Types /\ StartupInv /\ (\A u \in Threads : ThreadInv(u)) /\ CountInv
  BY DEF Inv
<1>2. /\ pc[t] = "record" /\ s # <<>> /\ value' = [value EXCEPT ![h] = @ + 1]
      /\ left' = [left EXCEPT ![t] = Tail(s)]
      /\ UNCHANGED <<pc, request, sent, answers, dbDone>> /\ UNCHANGED startup
  BY DEF RecordMetric
<1>3. /\ s \in Seq(AllMetrics) /\ Separate(s) /\ routes
      /\ (\A m \in ToSet(s) : Suits(q, m)) /\ q \in AllRequests
  BY <1>1, <1>2 DEF ThreadInv, Types
<1> HIDE DEF h, q, s
<1>4. /\ h \in AllMetrics /\ h \in ToSet(s)
      /\ Tail(s) \in Seq(AllMetrics) /\ Separate(Tail(s))
      /\ ToSet(Tail(s)) = ToSet(s) \ {h}
      /\ \A m \in ToSet(Tail(s)) : m[1] # h[1]
  BY <1>2, <1>3, HeadRecorded DEF h, s
<1>5. /\ left'[t] = Tail(s) /\ left[t] = s /\ request[t] = q
      /\ \A u \in Threads : u # t => left'[u] = left[u]
  BY <1>1, <1>2 DEF Types, s, q
<1>6. Types'
  BY <1>1, <1>2, <1>4 DEF Types, startup
<1>7. StartupInv'
  BY <1>1, <1>2, <1>3 DEF StartupInv, startup
<1>8. \A u \in Threads : ThreadInv(u)'
  <2>1. ThreadInv(t)'
    BY <1>1, <1>2, <1>3, <1>4, <1>5 DEF ThreadInv, startup
  <2>2. ASSUME NEW u \in Threads, u # t PROVE ThreadInv(u)'
    <3>1. ThreadInv(u) /\ left'[u] = left[u] /\ pc' = pc /\ request' = request /\ routes' = routes
      BY <1>1, <1>2, <1>5, <2>2 DEF startup
    <3> QED BY <3>1 DEF ThreadInv
  <2> QED BY <2>1, <2>2
<1>9. routes' = routes /\ FailedLogins' = FailedLogins /\ Insertions' = Insertions
      /\ \A r : Answered(r)' = Answered(r)
  BY <1>2 DEF startup, FailedLogins, Insertions, Answered, OverStatuses
<1>10. Suits(q, h)
  BY <1>3, <1>4
<1>11. ASSUME NEW r \in ApiRoutes
       PROVE  HttpCounted(r)' = Answered(r)' + Cardinality(HttpDone(r)')
  <2>1. /\ HttpDone(r) \in SUBSET Threads /\ HttpDone(r)' \in SUBSET Threads
        /\ \A u \in Threads : u # t => (u \in HttpDone(r)' <=> u \in HttpDone(r))
    BY <1>2, <1>5 DEF HttpDone
  <2>2. /\ t \in HttpDone(r) <=> q.route = r /\ \A m \in ToSet(s) : m[1] # HttpFamily
        /\ t \in HttpDone(r)' <=> q.route = r /\ \A m \in ToSet(Tail(s)) : m[1] # HttpFamily
    BY <1>2, <1>5 DEF HttpDone
  <2>3. HttpCounted(r) = Answered(r) + Cardinality(HttpDone(r))
    BY <1>1, <1>3 DEF CountInv
  <2>4. Answered(r) \in Nat
    BY <1>1, AnswersCounted
  <2>5. /\ (t \in HttpDone(r)' /\ t \notin HttpDone(r)) => Cardinality(HttpDone(r)') = Cardinality(HttpDone(r)) + 1
        /\ (t \in HttpDone(r)' <=> t \in HttpDone(r)) => Cardinality(HttpDone(r)') = Cardinality(HttpDone(r))
        /\ Cardinality(HttpDone(r)) \in Nat
    BY <2>1, OneThreadMoves
  <2>6. /\ (\E st \in Statuses : h = <<HttpFamily, r, st>>) => HttpCounted(r)' = HttpCounted(r) + 1
        /\ (\A st \in Statuses : h # <<HttpFamily, r, st>>) => HttpCounted(r)' = HttpCounted(r)
    BY <1>1, <1>2, <1>4, HttpCountedStep
  <2>7. CASE h[1] = HttpFamily
    <3>1. PICK st \in Statuses : h = <<HttpFamily, q.route, st>>
      BY <1>10, <2>7 DEF Suits, Http, Metric, HttpFamily
    <3>2. \A m \in ToSet(Tail(s)) : m[1] # HttpFamily
      BY <1>4, <2>7
    <3>3. CASE q.route = r
      <4>1. t \in HttpDone(r)' /\ t \notin HttpDone(r)
        BY <1>4, <2>2, <2>7, <3>2, <3>3
      <4>2. HttpCounted(r)' = HttpCounted(r) + 1
        BY <2>6, <3>1, <3>3
      <4> QED BY <1>9, <2>3, <2>4, <2>5, <4>1, <4>2
    <3>4. CASE q.route # r
      <4>1. t \notin HttpDone(r)' /\ t \notin HttpDone(r)
        BY <2>2, <3>4
      <4>2. \A s2 \in Statuses : h # <<HttpFamily, r, s2>>
        BY <3>1, <3>4
      <4> QED BY <1>9, <2>3, <2>4, <2>5, <2>6, <4>1, <4>2
    <3> QED BY <3>3, <3>4
  <2>8. CASE h[1] # HttpFamily
    <3>1. t \in HttpDone(r)' <=> t \in HttpDone(r)
      BY <1>4, <2>2, <2>8
    <3>2. \A s2 \in Statuses : h # <<HttpFamily, r, s2>>
      BY <2>8
    <3> QED BY <1>9, <2>3, <2>4, <2>5, <2>6, <3>1, <3>2
  <2> QED BY <2>7, <2>8
<1>12. value'[Auth(FALSE)] = FailedLogins' + Cardinality(LoginDone')
  <2> DEFINE a == Auth(FALSE)
  <2>1. /\ LoginDone \in SUBSET Threads /\ LoginDone' \in SUBSET Threads
        /\ \A u \in Threads : u # t => (u \in LoginDone' <=> u \in LoginDone)
    BY <1>2, <1>5 DEF LoginDone
  <2>2. /\ t \in LoginDone <=> FailedLogin(q) /\ a \notin ToSet(s)
        /\ t \in LoginDone' <=> FailedLogin(q) /\ a \notin ToSet(Tail(s))
    BY <1>2, <1>5 DEF LoginDone
  <2>3. value[a] = FailedLogins + Cardinality(LoginDone)
    BY <1>1, <1>3 DEF CountInv
  <2>4. a \in AllMetrics /\ (h = a => FailedLogin(q))
    BY <1>10, CountedExist DEF Suits
  <2>5. value[a] \in Nat /\ value'[a] = IF h = a THEN value[a] + 1 ELSE value[a]
    <3> HIDE DEF a
    <3> QED BY <1>1, <1>2, <2>4 DEF Types
  <2>6. FailedLogins \in Nat
    BY <1>1, AnswersCounted
  <2>7. /\ (t \in LoginDone' /\ t \notin LoginDone) => Cardinality(LoginDone') = Cardinality(LoginDone) + 1
        /\ (t \in LoginDone' <=> t \in LoginDone) => Cardinality(LoginDone') = Cardinality(LoginDone)
        /\ Cardinality(LoginDone) \in Nat
    BY <2>1, OneThreadMoves
  <2> HIDE DEF a
  <2>8. CASE h = a
    <3>1. t \in LoginDone' /\ t \notin LoginDone
      BY <1>4, <2>2, <2>4, <2>8
    <3> QED BY <1>9, <2>3, <2>5, <2>6, <2>7, <2>8, <3>1 DEF a
  <2>9. CASE h # a
    <3>1. t \in LoginDone' <=> t \in LoginDone
      BY <1>4, <2>2, <2>9
    <3> QED BY <1>9, <2>3, <2>5, <2>6, <2>7, <2>9, <3>1 DEF a
  <2> QED BY <2>8, <2>9
<1>13. ASSUME NEW m \in Inserted
       PROVE  value'[m] + Cardinality(InsertDue(m)') = Insertions'
  <2>1. /\ InsertDue(m) \in SUBSET Threads /\ InsertDue(m)' \in SUBSET Threads
        /\ \A u \in Threads : u # t => (u \in InsertDue(m)' <=> u \in InsertDue(m))
    BY <1>5 DEF InsertDue
  <2>2. /\ t \in InsertDue(m) <=> m \in ToSet(s)
        /\ t \in InsertDue(m)' <=> m \in ToSet(Tail(s))
    BY <1>5 DEF InsertDue
  <2>3. value[m] + Cardinality(InsertDue(m)) = Insertions /\ m \in AllMetrics
    BY <1>1, CountedExist DEF CountInv
  <2>4. value[m] \in Nat /\ value'[m] = IF h = m THEN value[m] + 1 ELSE value[m]
    BY <1>1, <1>2, <2>3 DEF Types
  <2>5. /\ (t \in InsertDue(m) /\ t \notin InsertDue(m)') => Cardinality(InsertDue(m)') = Cardinality(InsertDue(m)) - 1
        /\ (t \in InsertDue(m)' <=> t \in InsertDue(m)) => Cardinality(InsertDue(m)') = Cardinality(InsertDue(m))
        /\ Cardinality(InsertDue(m)) \in Nat
    BY <2>1, OneThreadMoves
  <2>6. CASE h = m
    <3>1. t \in InsertDue(m) /\ t \notin InsertDue(m)'
      BY <1>4, <2>2, <2>6
    <3> QED BY <1>9, <2>3, <2>4, <2>5, <2>6, <3>1
  <2>7. CASE h # m
    <3>1. t \in InsertDue(m)' <=> t \in InsertDue(m)
      BY <1>4, <2>2, <2>7
    <3> QED BY <1>9, <2>3, <2>4, <2>5, <2>7, <3>1
  <2> QED BY <2>6, <2>7
<1>14. CountInv'
  BY <1>11, <1>12, <1>13 DEF CountInv
<1> QED BY <1>6, <1>7, <1>8, <1>14 DEF Inv

\* The status of an answer tells a failed login.
LEMMA StatusFacts ==
  ASSUME NEW q \in AllRequests
  PROVE  /\ Status(q) \in Statuses
         /\ FailedLogin(q) <=> q.route = "login" /\ Status(q) \in {400, 401, 500}
<1>1. /\ q.body \in {"good", "wrong", "malformed", "illformed", "missing"}
      /\ q.body = "wrong" => q.route = "login"
      /\ q.body = "missing" => q.route \in FileRoutes
      /\ q.body \in {"malformed", "illformed"} => q.route \in {"login", "post_history"}
  BY RequestFacts DEF Unparsed
<1>2. CASE q.body = "good"
  BY <1>2 DEF Status, Statuses, FailedLogin
<1>3. CASE q.body = "wrong"
  BY <1>1, <1>3 DEF Status, Statuses, FailedLogin
<1>4. CASE q.body = "malformed"
  BY <1>1, <1>4 DEF Status, Statuses, FailedLogin
<1>5. CASE q.body = "illformed"
  BY <1>1, <1>5 DEF Status, Statuses, FailedLogin
<1>6. CASE q.body = "missing"
  BY <1>1, <1>6 DEF Status, Statuses, FailedLogin, FileRoutes
<1> QED BY <1>1, <1>2, <1>3, <1>4, <1>5, <1>6

\* The end of a request: everything but the counts.
LEMMA FinishStep ==
  ASSUME Inv, NEW t \in Threads, pc[t] # "idle", left[t] = <<>>, NEW status \in Statuses, Finish(t, status)
  PROVE  /\ Types' /\ StartupInv' /\ (\A u \in Threads : ThreadInv(u)') /\ routes' = routes
         /\ \A m \in Inserted : value'[m] + Cardinality(InsertDue(m)') = Insertions'
         /\ request[t].route \in Routes
         /\ answers' = [answers EXCEPT ![<<request[t].route, status>>] = @ + 1]
         /\ value' = value /\ left' = left
         /\ pc'[t] = "idle" /\ \A u \in Threads : u # t => pc'[u] = pc[u] /\ request'[u] = request[u]
<1>1. Types /\ StartupInv /\ (\A u \in Threads : ThreadInv(u)) /\ CountInv
  BY DEF Inv
<1>2. /\ answers' = [answers EXCEPT ![<<request[t].route, status>>] = @ + 1]
      /\ pc' = [pc EXCEPT ![t] = "idle"] /\ request' = [request EXCEPT ![t] = NoRequest]
      /\ UNCHANGED <<left, value, sent, dbDone>> /\ UNCHANGED startup
  BY DEF Finish
<1>3. request[t].route \in Routes /\ stage = "serving"
  BY <1>1, RequestFacts DEF ThreadInv, StartupInv
<1>4. answers' \in [Routes \X Statuses -> Nat]
  BY <1>1, <1>2, <1>3 DEF Types
<1>5. Types'
  BY <1>1, <1>2, <1>4 DEF Types, startup
<1>6. StartupInv'
  BY <1>1, <1>2, <1>3 DEF StartupInv, startup
<1>7. pc'[t] = "idle" /\ \A u \in Threads : u # t => pc'[u] = pc[u] /\ request'[u] = request[u]
  BY <1>1, <1>2 DEF Types
<1>8. \A u \in Threads : ThreadInv(u)'
  BY <1>1, <1>2, <1>7 DEF ThreadInv, startup
<1>9. \A m \in Inserted : value'[m] + Cardinality(InsertDue(m)') = Insertions'
  <2>1. Insertions' = Insertions /\ \A m : InsertDue(m)' = InsertDue(m)
    BY <1>2 DEF Insertions, InsertDue
  <2> QED BY <1>1, <1>2, <2>1 DEF CountInv
<1>10. routes' = routes /\ value' = value /\ left' = left
  BY <1>2 DEF startup
<1> QED BY <1>2, <1>3, <1>5, <1>6, <1>7, <1>8, <1>9, <1>10

\* Without routes Crow answers 404, and nothing is counted.
LEMMA AnswerUnroutedStep ==
  ASSUME Inv, NEW t \in Threads, AnswerUnrouted(t)
  PROVE  Inv'
<1>1. pc[t] = "unrouted" /\ Finish(t, 404) /\ 404 \in Statuses /\ pc[t] # "idle"
  BY DEF AnswerUnrouted, Statuses
<1>2. ~routes /\ left[t] = <<>>
  BY <1>1 DEF Inv, ThreadInv
<1>3. /\ Types' /\ StartupInv' /\ (\A u \in Threads : ThreadInv(u)') /\ routes' = routes
      /\ \A m \in Inserted : value'[m] + Cardinality(InsertDue(m)') = Insertions'
  <2> DEFINE status == 404
  <2>1. status \in Statuses /\ Finish(t, status)
    BY <1>1
  <2> HIDE DEF status
  <2> QED BY <1>1, <1>2, <2>1, FinishStep
<1> QED BY <1>2, <1>3 DEF Inv, CountInv

\* The answer is sent: what the handler had counted ahead of it is now matched.
LEMMA AnswerStep ==
  ASSUME Inv, NEW t \in Threads, Answer(t)
  PROVE  Inv'
<1> DEFINE q == request[t]
           status == Status(q)
<1>1. Types /\ (\A u \in Threads : ThreadInv(u)) /\ CountInv
  BY DEF Inv
<1>2. pc[t] = "record" /\ left[t] = <<>> /\ Finish(t, status) /\ pc[t] # "idle"
  BY DEF Answer
<1>3. q \in AllRequests /\ routes
  BY <1>1, <1>2 DEF ThreadInv
<1>4. status \in Statuses /\ (FailedLogin(q) <=> q.route = "login" /\ status \in {400, 401, 500})
  BY <1>3, StatusFacts
<1> HIDE DEF q, status
<1>5. /\ Types' /\ StartupInv' /\ (\A u \in Threads : ThreadInv(u)') /\ routes' = routes
      /\ \A m \in Inserted : value'[m] + Cardinality(InsertDue(m)') = Insertions'
      /\ q.route \in Routes
      /\ answers' = [answers EXCEPT ![<<q.route, status>>] = @ + 1]
      /\ value' = value /\ left' = left
      /\ pc'[t] = "idle" /\ \A u \in Threads : u # t => pc'[u] = pc[u] /\ request'[u] = request[u]
  BY <1>2, <1>4, FinishStep DEF q
<1>6. ToSet(left[t]) = {}
  BY <1>2 DEF ToSet
<1>7. ASSUME NEW r \in Routes
      PROVE  /\ Answered(r) \in Nat /\ FailedLogins \in Nat
             /\ Answered(r)' = IF r = q.route THEN Answered(r) + 1 ELSE Answered(r)
             /\ FailedLogins' = IF q.route = "login" /\ status \in {400, 401, 500}
                                THEN FailedLogins + 1 ELSE FailedLogins
  <2>1. PICK route \in Routes : route = q.route
    BY <1>5
  <2>2. PICK s \in Statuses : s = status
    BY <1>4
  <2>3. Types /\ answers' = [answers EXCEPT ![<<route, s>>] = @ + 1]
    BY <1>1, <1>5, <2>1, <2>2
  <2>4. /\ Answered(r) \in Nat /\ FailedLogins \in Nat
        /\ Answered(r)' = IF r = route THEN Answered(r) + 1 ELSE Answered(r)
        /\ FailedLogins' = IF route = "login" /\ s \in {400, 401, 500}
                           THEN FailedLogins + 1 ELSE FailedLogins
    BY <2>3, AnsweredStep
  <2> QED BY <2>1, <2>2, <2>4
<1>8. ASSUME NEW r \in ApiRoutes
      PROVE  HttpCounted(r)' = Answered(r)' + Cardinality(HttpDone(r)')
  <2>1. /\ HttpDone(r) \in SUBSET Threads /\ HttpDone(r)' \in SUBSET Threads
        /\ \A u \in Threads : u # t => (u \in HttpDone(r)' <=> u \in HttpDone(r))
    BY <1>5 DEF HttpDone
  <2>2. t \notin HttpDone(r)' /\ (t \in HttpDone(r) <=> q.route = r)
    BY <1>2, <1>5, <1>6 DEF HttpDone, q
  <2>3. HttpCounted(r)' = HttpCounted(r) /\ HttpCounted(r) = Answered(r) + Cardinality(HttpDone(r))
    BY <1>1, <1>3, <1>5 DEF CountInv, HttpCounted, OverStatuses, Counter
  <2>4. /\ (t \in HttpDone(r) /\ t \notin HttpDone(r)') => Cardinality(HttpDone(r)') = Cardinality(HttpDone(r)) - 1
        /\ (t \in HttpDone(r)' <=> t \in HttpDone(r)) => Cardinality(HttpDone(r)') = Cardinality(HttpDone(r))
        /\ Cardinality(HttpDone(r)) \in Nat
    BY <2>1, OneThreadMoves
  <2>5. r \in Routes
    BY DEF Routes
  <2> QED BY <1>7, <2>2, <2>3, <2>4, <2>5
<1>9. value'[Auth(FALSE)] = FailedLogins' + Cardinality(LoginDone')
  <2>1. /\ LoginDone \in SUBSET Threads /\ LoginDone' \in SUBSET Threads
        /\ \A u \in Threads : u # t => (u \in LoginDone' <=> u \in LoginDone)
    BY <1>5 DEF LoginDone
  <2>2. t \notin LoginDone' /\ (t \in LoginDone <=> FailedLogin(q))
    BY <1>2, <1>5, <1>6 DEF LoginDone, q
  <2>3. value[Auth(FALSE)] = FailedLogins + Cardinality(LoginDone)
    BY <1>1, <1>3 DEF CountInv
  <2>4. /\ (t \in LoginDone /\ t \notin LoginDone') => Cardinality(LoginDone') = Cardinality(LoginDone) - 1
        /\ (t \in LoginDone' <=> t \in LoginDone) => Cardinality(LoginDone') = Cardinality(LoginDone)
        /\ Cardinality(LoginDone) \in Nat
    BY <2>1, OneThreadMoves
  <2>5. FailedLogins \in Nat /\ FailedLogins' = IF FailedLogin(q) THEN FailedLogins + 1 ELSE FailedLogins
    BY <1>4, <1>5, <1>7
  <2> QED BY <1>5, <2>2, <2>3, <2>4, <2>5
<1>10. CountInv'
  BY <1>5, <1>8, <1>9 DEF CountInv
<1> QED BY <1>5, <1>10 DEF Inv

\* Every step of the server keeps the invariant.
LEMMA NextInv == Inv /\ [Next]_vars => Inv'
<1> SUFFICES ASSUME Inv, [Next]_vars PROVE Inv'
  OBVIOUS
<1>1. CASE Startup
  BY <1>1, StartupStep
<1>2. ASSUME NEW t \in Threads, NEW q \in Requests, Receive(t, q) PROVE Inv'
  BY <1>2, ReceiveStep
<1>3. ASSUME NEW t \in Threads, NEW ok \in BOOLEAN, DbReturn(t, ok) PROVE Inv'
  BY <1>3, DbReturnStep
<1>4. ASSUME NEW t \in Threads, RecordMetric(t) PROVE Inv'
  BY <1>4, RecordMetricStep
<1>5. ASSUME NEW t \in Threads, Answer(t) PROVE Inv'
  BY <1>5, AnswerStep
<1>6. ASSUME NEW t \in Threads, AnswerUnrouted(t) PROVE Inv'
  BY <1>6, AnswerUnroutedStep
<1>7. CASE UNCHANGED vars
  <2>1. Types' /\ StartupInv' /\ \A t \in Threads : ThreadInv(t)'
    BY <1>7 DEF vars, Inv, Types, StartupInv, ThreadInv
  <2>2. \A r : /\ HttpDone(r)' = HttpDone(r) /\ HttpCounted(r)' = HttpCounted(r)
               /\ Answered(r)' = Answered(r)
    BY <1>7 DEF vars, HttpDone, HttpCounted, Answered, OverStatuses, Counter
  <2>3. /\ LoginDone' = LoginDone /\ FailedLogins' = FailedLogins /\ Insertions' = Insertions
        /\ \A m : InsertDue(m)' = InsertDue(m)
    BY <1>7 DEF vars, LoginDone, FailedLogins, Insertions, InsertDue
  <2>4. routes' = routes /\ value' = value
    BY <1>7 DEF vars
  <2> QED BY <2>1, <2>2, <2>3, <2>4 DEF Inv, CountInv
<1> QED BY <1>1, <1>2, <1>3, <1>4, <1>5, <1>6, <1>7 DEF Next, Handle

\* The inductive invariant holds in every reachable state.
THEOREM InvHolds == Spec => []Inv
BY InitInv, NextInv, PTL DEF Spec

\* For any number of threads and requests: a handler that dereferences db (db-> in
\* webserver.cpp) finds a connected Database and the configured port, however startup
\* went.
THEOREM NoNullDatabase == Spec => []HandlersHaveDb
<1>1. Inv => HandlersHaveDb
  BY DEF Inv, ThreadInv, StartupInv, HandlersHaveDb
<1> QED BY <1>1, InvHolds, PTL

\* When no request is being served, nothing is counted ahead and nothing is due.
LEMMA QuietCounts ==
  ASSUME Inv, Quiet
  PROVE  /\ \A r : Cardinality(HttpDone(r)) = 0
         /\ Cardinality(LoginDone) = 0
         /\ \A m : Cardinality(InsertDue(m)) = 0
<1>1. \A t \in Threads : pc[t] # "record" /\ ToSet(left[t]) = {}
  BY DEF Quiet, Inv, ThreadInv, ToSet
<1>2. (\A r : HttpDone(r) = {}) /\ LoginDone = {} /\ \A m : InsertDue(m) = {}
  BY <1>1 DEF HttpDone, LoginDone, InsertDue
<1>3. Cardinality({}) = 0
  BY FS_EmptySet
<1> QED BY <1>2, <1>3

\* For any number of threads and requests: once all requests are answered, each one to
\* an API route has been counted in http_requests_total exactly once, whichever path
\* its handler took, and a server without routes has counted none.
THEOREM CountedOnce == Spec => []ApiRequestsCountedOnce
<1>1. ASSUME Inv PROVE ApiRequestsCountedOnce
  <2> SUFFICES ASSUME Quiet, NEW r \in ApiRoutes
               PROVE  HttpCounted(r) = IF routes THEN Answered(r) ELSE 0
    BY DEF ApiRequestsCountedOnce
  <2>1. CASE routes
    <3>1. HttpCounted(r) = Answered(r) + 0
      BY <1>1, <2>1, QuietCounts DEF Inv, CountInv
    <3>2. Answered(r) \in Nat
      BY <1>1, AnswersCounted DEF Inv
    <3> QED BY <2>1, <3>1, <3>2
  <2>2. CASE ~routes
    <3>1. \A m : Counter(m) = 0
      BY <1>1, <2>2 DEF Counter, Inv, StartupInv
    <3> QED BY <2>2, <3>1 DEF HttpCounted, OverStatuses
  <2> QED BY <2>1, <2>2
<1> QED BY <1>1, InvHolds, PTL

\* For any number of threads and requests: once all requests are answered, as many
\* failed logins are counted as were answered with an error, and as many insertions, in
\* both of their series, as Database confirmed.
THEOREM OutcomesAgree == Spec => []OutcomesCounted
<1>1. ASSUME Inv, Quiet
      PROVE  /\ routes => value[Auth(FALSE)] = FailedLogins
             /\ \A m \in Inserted : value[m] = Insertions
  <2>1. FailedLogins \in Nat
    BY <1>1, AnswersCounted DEF Inv
  <2>2. ASSUME routes PROVE value[Auth(FALSE)] = FailedLogins
    <3>1. value[Auth(FALSE)] = FailedLogins + 0
      BY <1>1, <2>2, QuietCounts DEF Inv, CountInv
    <3> QED BY <2>1, <3>1
  <2>3. ASSUME NEW m \in Inserted PROVE value[m] = Insertions
    <3>1. value[m] \in Nat /\ value[m] + 0 = Insertions
      BY <1>1, QuietCounts, CountedExist DEF Inv, Types, CountInv
    <3> QED BY <3>1
  <2> QED BY <2>2, <2>3
<1>2. Inv => OutcomesCounted
  BY <1>1 DEF OutcomesCounted, FailedLogins, Insertions, Inserted
<1> QED BY <1>2, InvHolds, PTL

=============================================================================
