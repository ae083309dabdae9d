--------------------------- MODULE MetricsRegistry ---------------------------
(***************************************************************************)
(* src/src/metrics.h: the process-wide registry of Prometheus metrics, as  *)
(* the request threads of the web server use it.                           *)
(*                                                                         *)
(* Every metric (Counter or Histogram) has a mutex of its own; the         *)
(* registry has one more, which protects the maps of metrics.  A record    *)
(* operation takes the registry mutex to find or create a metric, drops    *)
(* it, and then takes the metric's mutex to update it; an operation with   *)
(* two metrics does that twice.  format() holds the registry mutex for the *)
(* whole scrape and takes the mutex of one metric after the other.         *)
(*                                                                         *)
(* A metric is a pair <<name, labels>>.  Each record operation starts with *)
(* a counter of a family of its own, so the counter stands for the         *)
(* operation and its arguments.  The value_ of a counter, and the count_   *)
(* of the histogram, is represented by the set of record calls it has      *)
(* counted: every update adds 1, and a call updates a metric at most once. *)
(***************************************************************************)
EXTENDS Integers, FiniteSets

CONSTANTS
    Threads,        \* request threads of the server
    HttpLabels,     \* label sets of http_requests_total that handlers record
    PreLabels,      \* ... and those that initialize() registers
    Users,          \* the "username" label of auth_attempts_total
    OtherLabels,    \* labels of the three families with one counter per call
    NoLabels,       \* the empty Labels()
    NoThread,       \* a mutex that is free
    NoMetric,       \* no metric
    MaxCalls,       \* bound: record calls per thread
    MaxScrapes      \* bound: scrapes per thread

ASSUME ThreadsAssumption == IsFiniteSet(Threads) /\ NoThread \notin Threads
ASSUME BoundsAssumption == MaxCalls \in Nat /\ MaxScrapes \in Nat
ASSUME LabelsAssumption == PreLabels \subseteq HttpLabels

(***************************************************************************)
(* The metrics.                                                            *)
(***************************************************************************)
HttpRequests == {"http_requests_total"} \X HttpLabels
AuthAttempts == {"auth_attempts_total"} \X (Users \X BOOLEAN)
OtherOps ==
    {"db_operations_total", "device_operations_total", "service_operations_total"}
        \X OtherLabels

AuthFailures == <<"auth_failures_total", NoLabels>>
Duration == <<"http_request_duration_seconds", NoLabels>>

\* One element for every record call a handler can make.
RecordCalls == HttpRequests \cup AuthAttempts \cup OtherOps

Metrics == RecordCalls \cup {AuthFailures, Duration}

\* auth_attempts_total{success="false"}
FailedAttempts == {"auth_attempts_total"} \X (Users \X {FALSE})

PreRegistered ==
    ({"http_requests_total"} \X PreLabels) \cup {AuthFailures, Duration}

\* The second metric of a record operation, if it has one.
Second(m) ==
    IF m \in HttpRequests THEN Duration
    ELSE IF m \in FailedAttempts THEN AuthFailures
    ELSE NoMetric

ASSUME MetricsAssumption == NoMetric \notin Metrics

CallIds == Threads \X (1 .. MaxCalls)

VARIABLES
    stage,          \* startup: "new", "initialized" (initialized_), "serving"
    registered,     \* the keys of counters_ and histograms_
    counted,        \* the value of each metric
    mutex,          \* holder of the registry's mutex_
    lock,           \* holder of each metric's mutex_
    pc,             \* where each thread is
    target,         \* the metric its reference points to
    loaded,         \* what it has read of that metric's value
    calls,          \* record calls each thread has started
    scrapes,        \* scrapes each thread has started
    todo,           \* metrics format() has yet to emit
    seen,           \* what the current scrape has emitted
    last            \* what the last finished scrape emitted

regVars == <<stage, registered>>
scrapeVars == <<scrapes, todo, seen, last>>
vars == <<stage, registered, counted, mutex, lock, pc, target,
          loaded, calls, scrapes, todo, seen, last>>

Nothing == [m \in Metrics |-> {}]

Init ==
    /\ stage = "new"
    /\ registered = {}
    /\ counted = Nothing
    /\ mutex = NoThread
    /\ lock = [m \in Metrics |-> NoThread]
    /\ pc = [t \in Threads |-> "idle"]
    /\ target = [t \in Threads |-> NoMetric]
    /\ loaded = [t \in Threads |-> {}]
    /\ calls = [t \in Threads |-> 0]
    /\ scrapes = [t \in Threads |-> 0]
    /\ todo = {}
    /\ seen = Nothing
    /\ last = [shown |-> {}, value |-> Nothing]

(***************************************************************************)
(* Startup, on the main thread alone.  The constructor of WebServer calls  *)
(* initialize() unless it has returned early; run() calls it again before  *)
(* it starts the threads.  emplace() keeps a metric that exists.           *)
(***************************************************************************)
Initialize ==
    registered' = IF stage = "new" THEN registered \cup PreRegistered ELSE registered

Construct ==
    /\ stage = "new"
    /\ Initialize
    /\ stage' = "initialized"
    /\ UNCHANGED <<counted, mutex, lock, pc, target, loaded, calls>>
    /\ UNCHANGED scrapeVars

Run ==
    /\ stage # "serving"
    /\ Initialize
    /\ stage' = "serving"
    /\ UNCHANGED <<counted, mutex, lock, pc, target, loaded, calls>>
    /\ UNCHANGED scrapeVars

(***************************************************************************)
(* The record operations.                                                  *)
(***************************************************************************)
\* A handler calls recordHttpRequest, recordDbOperation, recordAuthAttempt,
\* recordDeviceOperation or recordServiceOperation.
Record(t, m) ==
    /\ stage = "serving"
    /\ pc[t] = "idle"
    /\ calls[t] < MaxCalls
    /\ pc' = [pc EXCEPT ![t] = "get"]
    /\ target' = [target EXCEPT ![t] = m]
    /\ calls' = [calls EXCEPT ![t] = @ + 1]
    /\ UNCHANGED <<counted, mutex, lock, loaded>>
    /\ UNCHANGED regVars /\ UNCHANGED scrapeVars

\* Mutant: the lock_guard on the registry mutex is missing.
MutantGetMetricUnlocked(t) ==
    /\ pc[t] = "get"
    /\ counted' = IF target[t] \in registered THEN counted
                  ELSE [counted EXCEPT ![target[t]] = {}]
    /\ registered' = registered \cup {target[t]}
    /\ pc' = [pc EXCEPT ![t] = "update"]
    /\ UNCHANGED <<stage, mutex, lock, target, loaded, calls>>
    /\ UNCHANGED scrapeVars

\* getCounter / getHistogram: find or create under the registry mutex, and
\* return a reference.  A new metric starts at 0; one that exists is kept.
GetMetric(t) ==
    /\ pc[t] = "get"
    /\ mutex = NoThread
    /\ counted' = IF target[t] \in registered THEN counted
                  ELSE [counted EXCEPT ![target[t]] = {}]
    /\ registered' = registered \cup {target[t]}
    /\ pc' = [pc EXCEPT ![t] = "update"]
    /\ UNCHANGED <<stage, mutex, lock, target, loaded, calls>>
    /\ UNCHANGED scrapeVars

\* Counter::increment / Histogram::observe: lock the metric and read it ...
Load(t) ==
    /\ pc[t] = "update"
    /\ lock[target[t]] = NoThread
    /\ lock' = [lock EXCEPT ![target[t]] = t]
    /\ loaded' = [loaded EXCEPT ![t] = counted[target[t]]]
    /\ pc' = [pc EXCEPT ![t] = "store"]
    /\ UNCHANGED <<counted, mutex, target, calls>>
    /\ UNCHANGED regVars /\ UNCHANGED scrapeVars

\* Mutant: the operation returns without its second metric.
MutantStoreReturns(t) ==
    /\ pc[t] = "store"
    /\ counted' = [counted EXCEPT ![target[t]] = loaded[t] \cup {<<t, calls[t]>>}]
    /\ lock' = [lock EXCEPT ![target[t]] = NoThread]
    /\ loaded' = [loaded EXCEPT ![t] = {}]
    /\ target' = [target EXCEPT ![t] = NoMetric]
    /\ pc' = [pc EXCEPT ![t] = "idle"]
    /\ UNCHANGED <<mutex, calls>>
    /\ UNCHANGED regVars /\ UNCHANGED scrapeVars

\* ... write it back and unlock.  The operation goes on to its second metric
\* or returns.
Store(t) ==
    /\ pc[t] = "store"
    /\ counted' = [counted EXCEPT ![target[t]] = loaded[t] \cup {<<t, calls[t]>>}]
    /\ lock' = [lock EXCEPT ![target[t]] = NoThread]
    /\ loaded' = [loaded EXCEPT ![t] = {}]
    /\ target' = [target EXCEPT ![t] = Second(target[t])]
    /\ pc' = [pc EXCEPT ![t] = IF Second(target[t]) = NoMetric THEN "idle" ELSE "get"]
    /\ UNCHANGED <<mutex, calls>>
    /\ UNCHANGED regVars /\ UNCHANGED scrapeVars

(***************************************************************************)
(* format(), called by the /metrics handler.                               *)
(***************************************************************************)
BeginFormat(t) ==
    /\ stage = "serving"
    /\ pc[t] = "idle"
    /\ scrapes[t] < MaxScrapes
    /\ mutex = NoThread
    /\ mutex' = t
    /\ pc' = [pc EXCEPT ![t] = "format"]
    /\ scrapes' = [scrapes EXCEPT ![t] = @ + 1]
    /\ todo' = registered
    /\ seen' = Nothing
    /\ UNCHANGED <<counted, lock, target, loaded, calls, last>>
    /\ UNCHANGED regVars

\* The loops of format(): all counters before the histogram, the counters one
\* family after the other, the families in the order of an unordered_map.
Started == {m \in todo : \E n \in registered \ todo : n[1] = m[1]}

UpNext ==
    IF Started # {} THEN Started
    ELSE IF todo \ {Duration} # {} THEN todo \ {Duration}
    ELSE todo

\* Mutant: a scrape emits what is new since the last one.
MutantFormatDelta(t, m) ==
    /\ pc[t] = "format"
    /\ m \in UpNext
    /\ lock[m] = NoThread
    /\ seen' = [seen EXCEPT ![m] = counted[m] \ last.value[m]]
    /\ todo' = todo \ {m}
    /\ UNCHANGED <<counted, mutex, lock, pc, target, loaded, calls, scrapes, last>>
    /\ UNCHANGED regVars

\* Mutant: the loop does not advance.
MutantFormatStuck(t, m) ==
    /\ pc[t] = "format"
    /\ m \in UpNext
    /\ lock[m] = NoThread
    /\ seen' = [seen EXCEPT ![m] = counted[m]]
    /\ UNCHANGED <<counted, mutex, lock, pc, target, loaded, calls, scrapes, todo, last>>
    /\ UNCHANGED regVars

FormatOne(t, m) ==
    /\ pc[t] = "format"
    /\ m \in UpNext
    /\ lock[m] = NoThread
    /\ seen' = [seen EXCEPT ![m] = counted[m]]
    /\ todo' = todo \ {m}
    /\ UNCHANGED <<counted, mutex, lock, pc, target, loaded, calls, scrapes, last>>
    /\ UNCHANGED regVars

EndFormat(t) ==
    /\ pc[t] = "format"
    /\ todo = {}
    /\ last' = [shown |-> registered, value |-> seen]
    /\ mutex' = NoThread
    /\ pc' = [pc EXCEPT ![t] = "idle"]
    /\ seen' = Nothing
    /\ UNCHANGED <<counted, lock, target, loaded, calls, scrapes, todo>>
    /\ UNCHANGED regVars

ThreadNext(t) ==
    \/ \E m \in RecordCalls : Record(t, m)
    \/ GetMetric(t)
    \/ Load(t)
    \/ Store(t)
    \/ BeginFormat(t)
    \/ \E m \in Metrics : FormatOne(t, m)
    \/ EndFormat(t)

Next ==
    \/ Construct
    \/ Run
    \/ \E t \in Threads : ThreadNext(t)

Spec == Init /\ [][Next]_vars

\* The steps a thread takes on its own once a handler has called into the
\* registry; that a handler calls at all is not assumed.
Continue(t) ==
    \/ GetMetric(t)
    \/ Load(t)
    \/ Store(t)
    \/ \E m \in Metrics : FormatOne(t, m)
    \/ EndFormat(t)

Fairness == \A t \in Threads : WF_vars(Continue(t))

(***************************************************************************)
(* Properties.                                                             *)
(***************************************************************************)
Pcs == {"idle", "get", "update", "store", "format"}
Values == [Metrics -> SUBSET CallIds]

\* Every variable has its type; a held mutex is held by a thread.
TypeOK ==
    /\ stage \in {"new", "initialized", "serving"}
    /\ registered \in SUBSET Metrics
    /\ counted \in Values
    /\ mutex \in Threads \cup {NoThread}
    /\ lock \in [Metrics -> Threads \cup {NoThread}]
    /\ pc \in [Threads -> Pcs]
    /\ target \in [Threads -> Metrics \cup {NoMetric}]
    /\ loaded \in [Threads -> SUBSET CallIds]
    /\ calls \in [Threads -> 0 .. MaxCalls]
    /\ scrapes \in [Threads -> 0 .. MaxScrapes]
    /\ todo \in SUBSET Metrics
    /\ seen \in Values
    /\ last \in [shown : SUBSET Metrics, value : Values]

CountedIn(value, ms) == UNION {value[m] : m \in ms}

\* The calls of a thread that have returned.
Returned(t) ==
    {<<t, i>> : i \in 1 .. IF pc[t] \in {"idle", "format"} THEN calls[t] ELSE calls[t] - 1}

\* No update is lost and none is applied to half of an operation: every record
\* call that has returned is counted by the counter it started with, and, if
\* that counter is http_requests_total or a failed auth attempt, also by the
\* histogram or by auth_failures_total (recordHttpRequest and recordAuthAttempt
\* update two metrics under three different mutexes).
ReturnedCallsCounted ==
    \A t \in Threads : \A id \in Returned(t) :
        \E m \in RecordCalls :
            /\ id \in counted[m]
            /\ Second(m) # NoMetric => id \in counted[Second(m)]

\* The two metrics of one operation in one scrape: calls in the second are in
\* the first, and each thread is ahead by at most one call.
ScrapedPair(first, second) ==
    LET a == CountedIn(last.value, first)
        b == last.value[second]
    IN  /\ b \subseteq a
        /\ \A x, y \in a \ b : x[1] = y[1] => x = y

\* A scrape never reports an observed duration without its request, nor an
\* authentication failure without its failed attempt, whatever the order of
\* the families in format(); and the totals differ by at most one per thread,
\* because a thread cannot pass getCounter/getHistogram during a scrape.
ScrapeConsistent ==
    /\ ScrapedPair(HttpRequests, Duration)
    /\ ScrapedPair(FailedAttempts, AuthFailures)

\* Prometheus may treat every series as a counter: from one finished scrape to
\* the next no series disappears and no value decreases.
ScrapesMonotone ==
    [][/\ last.shown \subseteq last'.shown
       /\ \A m \in Metrics : last.value[m] \subseteq last'.value[m]]_last

\* No deadlock or lost wake-up between the registry mutex and the mutexes of
\* the metrics: every record call and every scrape returns.
EveryCallReturns ==
    \A t \in Threads : pc[t] # "idle" ~> pc[t] = "idle"

(***************************************************************************)
(* The inductive invariant behind ReturnedCallsCounted, ScrapeConsistent   *)
(* and ScrapesMonotone.                                                    *)
(***************************************************************************)
Active == {"get", "update", "store"}
Seconds == {Duration, AuthFailures}

\* Mutual exclusion: a mutex is held by the one thread inside its section,
\* and what that thread has read of a metric is still its value.
LockInv ==
    /\ \A t \in Threads : pc[t] = "format" <=> mutex = t
    /\ \A m \in Metrics : lock[m] # NoThread =>
          pc[lock[m]] = "store" /\ target[lock[m]] = m
    /\ \A t \in Threads : pc[t] = "store" =>
          lock[target[t]] = t /\ loaded[t] = counted[target[t]]

\* References point to registered metrics, and only those have counted.
RegisteredInv ==
    /\ \A t \in Threads : pc[t] \in Active => target[t] \in Metrics /\ calls[t] >= 1
    /\ \A t \in Threads : pc[t] \in {"update", "store"} => target[t] \in registered
    /\ \A m \in Metrics : counted[m] # {} => m \in registered

\* Where the identity of a call may be, given how far the call has come.
CallInv ==
    /\ \A m \in Metrics : \A id \in counted[m] : id[2] <= calls[id[1]]
    /\ \A t \in Threads : pc[t] \in Active =>
          /\ <<t, calls[t]>> \notin counted[target[t]]
          /\ target[t] \in RecordCalls =>
                \A m \in Metrics : <<t, calls[t]>> \notin counted[m]
          /\ target[t] \in Seconds =>
                \E m \in RecordCalls :
                    Second(m) = target[t] /\ <<t, calls[t]>> \in counted[m]
    /\ \A t \in Threads : \A id \in Returned(t) :
          \E m \in RecordCalls : id \in counted[m]

\* The two metrics of an operation differ only by calls between the two.
PairInv ==
    /\ \A m \in RecordCalls : \A id \in counted[m] :
          \/ Second(m) = NoMetric
          \/ id \in counted[Second(m)]
          \/ /\ id[2] = calls[id[1]]
             /\ pc[id[1]] \in Active
             /\ target[id[1]] = Second(m)
    /\ \A s \in Seconds : \A id \in counted[s] :
          \E m \in RecordCalls : Second(m) = s /\ id \in counted[m]

\* During a scrape: what happened to a metric after it was emitted was done
\* by a thread that now waits for the registry mutex or has returned.
EmittedInv ==
    \A m \in registered \ todo : mutex # NoThread =>
        /\ last.value[m] \subseteq seen[m]
        /\ m \in RecordCalls /\ Second(m) # NoMetric =>
              \A id \in counted[m] \ seen[m] :
                  /\ id[2] = calls[id[1]]
                  /\ pc[id[1]] = "get"
                  /\ target[id[1]] = Second(m)
        /\ m \in Seconds =>
              \A id \in counted[m] \ seen[m] :
                  \/ id[2] = calls[id[1]] /\ pc[id[1]] = "idle"
                  \/ /\ id[2] = calls[id[1]] - 1
                     /\ pc[id[1]] = "get"
                     /\ target[id[1]] \in RecordCalls

\* Scrapes, current and last, never run ahead of the metrics.
ScrapeInv ==
    /\ todo \subseteq registered
    /\ last.shown \subseteq registered
    /\ \A m \in Metrics : seen[m] \subseteq counted[m] /\ last.value[m] \subseteq counted[m]
    /\ EmittedInv

\* The conjunction is inductive: every action of the registry preserves it.
Inv ==
    /\ TypeOK
    /\ LockInv
    /\ RegisteredInv
    /\ CallInv
    /\ PairInv
    /\ ScrapeInv
    /\ ScrapeConsistent

=============================================================================
