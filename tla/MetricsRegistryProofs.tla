------------------------ MODULE MetricsRegistryProofs ------------------------
(***************************************************************************)
(* Proofs about MetricsRegistry, for every set of threads, every set of    *)
(* labels and every number of calls and scrapes.                           *)
(***************************************************************************)
EXTENDS MetricsRegistry, TLAPS

(***************************************************************************)
(* The families of metrics: a record call starts with a counter that no    *)
(* other operation has as its second metric.                               *)
(***************************************************************************)
LEMMA MetricFacts ==
    /\ Metrics = RecordCalls \cup Seconds
    /\ RecordCalls \cap Seconds = {}
    /\ Duration # AuthFailures
    /\ NoMetric \notin Metrics
    /\ \A m \in RecordCalls : Second(m) \in Seconds \cup {NoMetric}
    /\ \A s \in Seconds : Second(s) = NoMetric
    /\ \A m \in RecordCalls : Second(m) = Duration <=> m \in HttpRequests
    /\ \A m \in RecordCalls : Second(m) = AuthFailures <=> m \in FailedAttempts
    /\ HttpRequests \subseteq RecordCalls
    /\ FailedAttempts \subseteq RecordCalls
    /\ PreRegistered \subseteq Metrics
<1>1. /\ \A m \in HttpRequests : m[1] = "http_requests_total"
      /\ \A m \in AuthAttempts \cup FailedAttempts : m[1] = "auth_attempts_total"
      /\ \A m \in OtherOps : m[1] \in {"db_operations_total",
            "device_operations_total", "service_operations_total"}
      /\ Duration[1] = "http_request_duration_seconds"
      /\ AuthFailures[1] = "auth_failures_total"
  BY DEF HttpRequests, FailedAttempts, AuthAttempts, OtherOps, Duration, AuthFailures
<1>a. FailedAttempts \subseteq AuthAttempts
  BY DEF FailedAttempts, AuthAttempts
<1>2. {"http_requests_total"} \X PreLabels \subseteq HttpRequests
  BY LabelsAssumption DEF HttpRequests
<1>3. Metrics = RecordCalls \cup Seconds /\ NoMetric \notin Metrics
  BY MetricsAssumption DEF Metrics, Seconds
<1>4. PreRegistered \subseteq Metrics
  BY <1>2 DEF PreRegistered, Metrics, RecordCalls
<1> QED
  BY <1>1, <1>a, <1>3, <1>4 DEF Second, RecordCalls, Seconds

\* Membership in the union of the values of several metrics.
LEMMA CountedInFact ==
    ASSUME NEW v, NEW ms
    PROVE  \A x : x \in CountedIn(v, ms) <=> \E m \in ms : x \in v[m]
  BY DEF CountedIn

\* The invariant holds before the first observation and scrape.
LEMMA InitInv == Init => Inv
<1> SUFFICES ASSUME Init PROVE Inv
  OBVIOUS
<1> USE ThreadsAssumption, BoundsAssumption, MetricFacts DEF Init
<1>1. TypeOK
  BY DEF TypeOK, Nothing, Values, Pcs
<1>2. LockInv
  BY DEF LockInv
<1>3. RegisteredInv
  BY DEF RegisteredInv, Active, Nothing
<1>4. CallInv
  BY DEF CallInv, Active, Nothing, Returned
<1>5. PairInv
  BY DEF PairInv, Nothing
<1>6. ScrapeInv
  BY DEF ScrapeInv, EmittedInv, Nothing
<1>7. ScrapeConsistent
  <2> DEFINE first(ms) == CountedIn(last.value, ms)
  <2>1. \A m \in Metrics : last.value[m] = {}
    BY DEF Nothing
  <2>2. first(HttpRequests) = {} /\ first(FailedAttempts) = {}
    BY <2>1, CountedInFact
  <2>3. last.value[Duration] = {} /\ last.value[AuthFailures] = {}
    BY <2>1 DEF Seconds
  <2> QED
    BY <2>2, <2>3 DEF ScrapeConsistent, ScrapedPair
<1> QED
  BY <1>1, <1>2, <1>3, <1>4, <1>5, <1>6, <1>7 DEF Inv

(***************************************************************************)
(* Type correctness.                                                       *)
(***************************************************************************)
LEMMA NextTypeOK == ASSUME TypeOK, RegisteredInv, [Next]_vars PROVE TypeOK'
<1> USE ThreadsAssumption, BoundsAssumption, MetricFacts
<1> USE DEF TypeOK, Values, regVars, scrapeVars, Pcs
<1>1. CASE Construct
  BY <1>1 DEF Construct, Initialize
<1>2. CASE Run
  BY <1>2 DEF Run, Initialize
<1>3. ASSUME NEW t \in Threads, NEW m \in RecordCalls, Record(t, m) PROVE TypeOK'
  BY <1>3 DEF Record
<1>4. ASSUME NEW t \in Threads, GetMetric(t) PROVE TypeOK'
  BY <1>4 DEF GetMetric, RegisteredInv, Active
<1>5. ASSUME NEW t \in Threads, Load(t) PROVE TypeOK'
  BY <1>5 DEF Load, RegisteredInv, Active
<1>6. ASSUME NEW t \in Threads, Store(t) PROVE TypeOK'
  BY <1>6 DEF Store, RegisteredInv, Active, CallIds
<1>7. ASSUME NEW t \in Threads, BeginFormat(t) PROVE TypeOK'
  BY <1>7 DEF BeginFormat, Nothing
<1>8. ASSUME NEW t \in Threads, NEW m \in Metrics, FormatOne(t, m) PROVE TypeOK'
  BY <1>8 DEF FormatOne
<1>9. ASSUME NEW t \in Threads, EndFormat(t) PROVE TypeOK'
  BY <1>9 DEF EndFormat, Nothing
<1>10. CASE UNCHANGED vars
  BY <1>10 DEF vars
<1> QED
  BY <1>1, <1>2, <1>3, <1>4, <1>5, <1>6, <1>7, <1>8, <1>9, <1>10
  DEF Next, ThreadNext

\* Mutual exclusion.
LEMMA NextLockInv == ASSUME TypeOK, RegisteredInv, LockInv, [Next]_vars PROVE LockInv'
<1> USE ThreadsAssumption, BoundsAssumption, MetricFacts
<1> USE DEF LockInv, RegisteredInv, Active, TypeOK, Values, Pcs, regVars, scrapeVars
<1>1. CASE Construct
  BY <1>1 DEF Construct, Initialize
<1>2. CASE Run
  BY <1>2 DEF Run, Initialize
<1>3. ASSUME NEW t \in Threads, NEW m \in RecordCalls, Record(t, m) PROVE LockInv'
  BY <1>3 DEF Record
<1>4. ASSUME NEW t \in Threads, GetMetric(t) PROVE LockInv'
  BY <1>4 DEF GetMetric
<1>5. ASSUME NEW t \in Threads, Load(t) PROVE LockInv'
  BY <1>5 DEF Load
<1>6. ASSUME NEW t \in Threads, Store(t) PROVE LockInv'
  BY <1>6 DEF Store
<1>7. ASSUME NEW t \in Threads, BeginFormat(t) PROVE LockInv'
  BY <1>7 DEF BeginFormat
<1>8. ASSUME NEW t \in Threads, NEW m \in Metrics, FormatOne(t, m) PROVE LockInv'
  BY <1>8 DEF FormatOne
<1>9. ASSUME NEW t \in Threads, EndFormat(t) PROVE LockInv'
  BY <1>9 DEF EndFormat
<1>10. CASE UNCHANGED vars
  BY <1>10 DEF vars
<1> QED
  BY <1>1, <1>2, <1>3, <1>4, <1>5, <1>6, <1>7, <1>8, <1>9, <1>10
  DEF Next, ThreadNext

\* References and registered metrics.
LEMMA NextRegisteredInv ==
    ASSUME TypeOK, RegisteredInv, LockInv, [Next]_vars
    PROVE  RegisteredInv'
<1> USE ThreadsAssumption, BoundsAssumption, MetricFacts
<1> USE DEF LockInv, RegisteredInv, Active, TypeOK, Values, Pcs, regVars, scrapeVars
<1>1. CASE Construct
  BY <1>1 DEF Construct, Initialize
<1>2. CASE Run
  BY <1>2 DEF Run, Initialize
<1>3. ASSUME NEW t \in Threads, NEW m \in RecordCalls, Record(t, m) PROVE RegisteredInv'
  BY <1>3 DEF Record
<1>4. ASSUME NEW t \in Threads, GetMetric(t) PROVE RegisteredInv'
  BY <1>4 DEF GetMetric
<1>5. ASSUME NEW t \in Threads, Load(t) PROVE RegisteredInv'
  BY <1>5 DEF Load
<1>6. ASSUME NEW t \in Threads, Store(t) PROVE RegisteredInv'
  BY <1>6 DEF Store
<1>7. ASSUME NEW t \in Threads, BeginFormat(t) PROVE RegisteredInv'
  BY <1>7 DEF BeginFormat
<1>8. ASSUME NEW t \in Threads, NEW m \in Metrics, FormatOne(t, m) PROVE RegisteredInv'
  BY <1>8 DEF FormatOne
<1>9. ASSUME NEW t \in Threads, EndFormat(t) PROVE RegisteredInv'
  BY <1>9 DEF EndFormat
<1>10. CASE UNCHANGED vars
  BY <1>10 DEF vars
<1> QED
  BY <1>1, <1>2, <1>3, <1>4, <1>5, <1>6, <1>7, <1>8, <1>9, <1>10
  DEF Next, ThreadNext

\* Where the identity of a call may be.
LEMMA NextCallInv ==
    ASSUME TypeOK, RegisteredInv, LockInv, CallInv, [Next]_vars
    PROVE  CallInv'
<1> USE ThreadsAssumption, BoundsAssumption, MetricFacts
<1> USE DEF LockInv, RegisteredInv, CallInv, Returned, Active, TypeOK, Values, Pcs,
            regVars, scrapeVars, CallIds
<1>1. CASE Construct
  BY <1>1 DEF Construct, Initialize
<1>2. CASE Run
  BY <1>2 DEF Run, Initialize
<1>3. ASSUME NEW t \in Threads, NEW m \in RecordCalls, Record(t, m) PROVE CallInv'
  BY <1>3 DEF Record
<1>4. ASSUME NEW t \in Threads, GetMetric(t) PROVE CallInv'
  BY <1>4 DEF GetMetric
<1>5. ASSUME NEW t \in Threads, Load(t) PROVE CallInv'
  BY <1>5 DEF Load
<1>6. ASSUME NEW t \in Threads, Store(t) PROVE CallInv'
  BY <1>6 DEF Store
<1>7. ASSUME NEW t \in Threads, BeginFormat(t) PROVE CallInv'
  BY <1>7 DEF BeginFormat
<1>8. ASSUME NEW t \in Threads, NEW m \in Metrics, FormatOne(t, m) PROVE CallInv'
  BY <1>8 DEF FormatOne
<1>9. ASSUME NEW t \in Threads, EndFormat(t) PROVE CallInv'
  BY <1>9 DEF EndFormat
<1>10. CASE UNCHANGED vars
  BY <1>10 DEF vars
<1> QED
  BY <1>1, <1>2, <1>3, <1>4, <1>5, <1>6, <1>7, <1>8, <1>9, <1>10
  DEF Next, ThreadNext

\* The two metrics of an operation.
LEMMA NextPairInv ==
    ASSUME TypeOK, RegisteredInv, LockInv, CallInv, PairInv, [Next]_vars
    PROVE  PairInv'
<1> USE ThreadsAssumption, BoundsAssumption, MetricFacts
<1> USE DEF LockInv, RegisteredInv, CallInv, PairInv, Active, TypeOK, Values, Pcs,
            regVars, scrapeVars, CallIds
<1>1. CASE Construct
  BY <1>1 DEF Construct, Initialize
<1>2. CASE Run
  BY <1>2 DEF Run, Initialize
<1>3. ASSUME NEW t \in Threads, NEW m \in RecordCalls, Record(t, m) PROVE PairInv'
  BY <1>3 DEF Record
<1>4. ASSUME NEW t \in Threads, GetMetric(t) PROVE PairInv'
  BY <1>4 DEF GetMetric
<1>5. ASSUME NEW t \in Threads, Load(t) PROVE PairInv'
  BY <1>5 DEF Load
<1>6. ASSUME NEW t \in Threads, Store(t) PROVE PairInv'
  BY <1>6 DEF Store
<1>7. ASSUME NEW t \in Threads, BeginFormat(t) PROVE PairInv'
  BY <1>7 DEF BeginFormat
<1>8. ASSUME NEW t \in Threads, NEW m \in Metrics, FormatOne(t, m) PROVE PairInv'
  BY <1>8 DEF FormatOne
<1>9. ASSUME NEW t \in Threads, EndFormat(t) PROVE PairInv'
  BY <1>9 DEF EndFormat
<1>10. CASE UNCHANGED vars
  BY <1>10 DEF vars
<1> QED
  BY <1>1, <1>2, <1>3, <1>4, <1>5, <1>6, <1>7, <1>8, <1>9, <1>10
  DEF Next, ThreadNext

\* The current and the last scrape.
LEMMA NextScrapeInv ==
    ASSUME TypeOK, RegisteredInv, LockInv, CallInv, PairInv, ScrapeInv, [Next]_vars
    PROVE  ScrapeInv'
<1> USE ThreadsAssumption, BoundsAssumption, MetricFacts
<1> USE DEF LockInv, RegisteredInv, CallInv, PairInv, ScrapeInv, EmittedInv, Active,
            Nothing, TypeOK, Values, Pcs, regVars, scrapeVars, CallIds
<1>1. CASE Construct
  BY <1>1 DEF Construct, Initialize
<1>2. CASE Run
  BY <1>2 DEF Run, Initialize
<1>3. ASSUME NEW t \in Threads, NEW m \in RecordCalls, Record(t, m) PROVE ScrapeInv'
  BY <1>3 DEF Record
<1>4. ASSUME NEW t \in Threads, GetMetric(t) PROVE ScrapeInv'
  BY <1>4 DEF GetMetric
<1>5. ASSUME NEW t \in Threads, Load(t) PROVE ScrapeInv'
  BY <1>5 DEF Load
<1>6. ASSUME NEW t \in Threads, Store(t) PROVE ScrapeInv'
  BY <1>6 DEF Store
<1>7. ASSUME NEW t \in Threads, BeginFormat(t) PROVE ScrapeInv'
  BY <1>7 DEF BeginFormat
<1>8. ASSUME NEW t \in Threads, NEW m \in Metrics, FormatOne(t, m) PROVE ScrapeInv'
  BY <1>8 DEF FormatOne
<1>9. ASSUME NEW t \in Threads, EndFormat(t) PROVE ScrapeInv'
  BY <1>9 DEF EndFormat
<1>10. CASE UNCHANGED vars
  BY <1>10 DEF vars
<1> QED
  BY <1>1, <1>2, <1>3, <1>4, <1>5, <1>6, <1>7, <1>8, <1>9, <1>10
  DEF Next, ThreadNext

\* A scrape that has emitted everything is consistent.
LEMMA CompleteScrape ==
    ASSUME TypeOK, RegisteredInv, CallInv, PairInv, ScrapeInv, todo = {}, mutex # NoThread,
           NEW first, NEW second \in Seconds,
           first \subseteq RecordCalls,
           \A m \in RecordCalls : Second(m) = second <=> m \in first
    PROVE  /\ seen[second] \subseteq CountedIn(seen, first)
           /\ \A x, y \in CountedIn(seen, first) \ seen[second] : x[1] = y[1] => x = y
<1> USE MetricFacts
<1>1. ASSUME NEW id \in seen[second] PROVE id \in CountedIn(seen, first)
  <2>1. PICK m \in first : id \in counted[m]
    BY DEF ScrapeInv, PairInv, TypeOK, Values
  <2>2. m \in registered
    BY <2>1 DEF RegisteredInv
  <2>3. id \in CallIds /\ id \in counted[second]
    BY DEF TypeOK, Values, ScrapeInv
  <2>4. id \in seen[m]
    BY <2>1, <2>2, <2>3 DEF ScrapeInv, EmittedInv, CallInv, CallIds, Active
  <2> QED
    BY <2>1, <2>4, CountedInFact
<1>2. ASSUME NEW x \in CountedIn(seen, first) \ seen[second] 
      PROVE  /\ x \in CallIds
             /\ \/ x[2] = calls[x[1]] /\ pc[x[1]] \in Active /\ target[x[1]] = second
                \/ x[2] = calls[x[1]] /\ pc[x[1]] = "idle"
                \/ x[2] = calls[x[1]] - 1 /\ pc[x[1]] = "get" /\ target[x[1]] \in RecordCalls
  <2>1. PICK m \in first : x \in seen[m]
    BY CountedInFact
  <2>2. x \in counted[m] /\ x \in CallIds
    BY <2>1 DEF ScrapeInv, TypeOK, Values
  <2>3. CASE x \in counted[second]
    <3>1. second \in registered
      BY <2>3 DEF RegisteredInv
    <3> QED
      BY <2>2, <2>3, <3>1 DEF ScrapeInv, EmittedInv
  <2>4. CASE x \notin counted[second]
    BY <2>2, <2>4 DEF PairInv, Seconds
  <2> QED
    BY <2>3, <2>4
<1>3. ASSUME NEW x \in CountedIn(seen, first) \ seen[second],
             NEW y \in CountedIn(seen, first) \ seen[second],
             x[1] = y[1]
      PROVE  x = y
  <2>1. x[2] = y[2]
    BY <1>2, <1>3 DEF Active
  <2> QED
    BY <1>2, <1>3, <2>1 DEF CallIds
<1> QED
  BY <1>1, <1>3

\* What the last scrape reported.
LEMMA NextScrapeConsistent ==
    ASSUME TypeOK, RegisteredInv, LockInv, CallInv, PairInv, ScrapeInv,
           ScrapeConsistent, [Next]_vars
    PROVE  ScrapeConsistent'
<1> USE ThreadsAssumption, BoundsAssumption, MetricFacts
<1> USE DEF ScrapeConsistent, ScrapedPair, CountedIn, regVars, scrapeVars
<1>1. CASE Construct
  BY <1>1 DEF Construct, Initialize
<1>2. CASE Run
  BY <1>2 DEF Run, Initialize
<1>3. ASSUME NEW t \in Threads, NEW m \in RecordCalls, Record(t, m) PROVE ScrapeConsistent'
  BY <1>3 DEF Record
<1>4. ASSUME NEW t \in Threads, GetMetric(t) PROVE ScrapeConsistent'
  BY <1>4 DEF GetMetric
<1>5. ASSUME NEW t \in Threads, Load(t) PROVE ScrapeConsistent'
  BY <1>5 DEF Load
<1>6. ASSUME NEW t \in Threads, Store(t) PROVE ScrapeConsistent'
  BY <1>6 DEF Store
<1>7. ASSUME NEW t \in Threads, BeginFormat(t) PROVE ScrapeConsistent'
  BY <1>7 DEF BeginFormat
<1>8. ASSUME NEW t \in Threads, NEW m \in Metrics, FormatOne(t, m) PROVE ScrapeConsistent'
  BY <1>8 DEF FormatOne
<1>9. ASSUME NEW t \in Threads, EndFormat(t) PROVE ScrapeConsistent'
  <2>1. todo = {} /\ mutex # NoThread /\ last' = [shown |-> registered, value |-> seen]
    BY <1>9 DEF EndFormat, LockInv
  <2>2. Duration \in Seconds /\ AuthFailures \in Seconds
    BY DEF Seconds
  <2>3. /\ seen[Duration] \subseteq CountedIn(seen, HttpRequests)
        /\ \A x, y \in CountedIn(seen, HttpRequests) \ seen[Duration] : x[1] = y[1] => x = y
    BY <2>1, <2>2, CompleteScrape
  <2>4. /\ seen[AuthFailures] \subseteq CountedIn(seen, FailedAttempts)
        /\ \A x, y \in CountedIn(seen, FailedAttempts) \ seen[AuthFailures] : x[1] = y[1] => x = y
    BY <2>1, <2>2, CompleteScrape
  <2> QED
    BY <2>1, <2>3, <2>4
<1>10. CASE UNCHANGED vars
  BY <1>10 DEF vars
<1> QED
  BY <1>1, <1>2, <1>3, <1>4, <1>5, <1>6, <1>7, <1>8, <1>9, <1>10
  DEF Next, ThreadNext

(***************************************************************************)
(* Inv is inductive.                                                       *)
(***************************************************************************)
LEMMA NextInv == Inv /\ [Next]_vars => Inv'
  BY NextTypeOK, NextLockInv, NextRegisteredInv, NextCallInv, NextPairInv,
     NextScrapeInv, NextScrapeConsistent
  DEF Inv

\* Every reachable state of the registry satisfies the inductive invariant,
\* and so has its type and respects mutual exclusion (metrics.h:98-101,
\* 210-215, 375-471).
THEOREM Invariance == Spec => []Inv
<1>1. Init => Inv
  BY InitInv
<1>2. Inv /\ [Next]_vars => Inv'
  BY NextInv
<1> QED
  BY <1>1, <1>2, PTL DEF Spec

\* Type correctness of every variable of the registry.
THEOREM TypeCorrect == Spec => []TypeOK
<1>1. Inv => TypeOK
  BY DEF Inv
<1> QED
  BY <1>1, Invariance, PTL

\* Every record call that has returned is counted by each of its metrics, for
\* any number of threads and labels.
THEOREM NoUpdateLost == Spec => []ReturnedCallsCounted
<1>1. Inv => ReturnedCallsCounted
  <2> SUFFICES ASSUME Inv, NEW t \in Threads, NEW id \in Returned(t)
               PROVE  \E m \in RecordCalls :
                          /\ id \in counted[m]
                          /\ Second(m) # NoMetric => id \in counted[Second(m)]
    BY DEF ReturnedCallsCounted
  <2>1. PICK m \in RecordCalls : id \in counted[m]
    BY DEF Inv, CallInv
  <2>2. id[1] = t /\ (id[2] = calls[t] => pc[t] \notin Active)
    BY BoundsAssumption DEF Inv, TypeOK, Returned, Active
  <2>3. Second(m) # NoMetric => id \in counted[Second(m)]
    BY <2>1, <2>2 DEF Inv, PairInv
  <2> QED
    BY <2>1, <2>3
<1> QED
  BY <1>1, Invariance, PTL

\* Every finished scrape is consistent across the two metrics that
\* recordHttpRequest and recordAuthAttempt update one after the other, for any
\* number of threads: the totals differ by at most one call per thread.
THEOREM ScrapesConsistent == Spec => []ScrapeConsistent
<1>1. Inv => ScrapeConsistent
  BY DEF Inv
<1> QED
  BY <1>1, Invariance, PTL

\* From one finished scrape to the next no series disappears or decreases.
THEOREM CountersMonotone == Spec => ScrapesMonotone
<1> DEFINE Up == /\ last.shown \subseteq last'.shown
                 /\ \A m \in Metrics : last.value[m] \subseteq last'.value[m]
<1>1. Inv /\ [Next]_vars => [Up]_last
  <2> SUFFICES ASSUME Inv, [Next]_vars, last' # last PROVE Up
    OBVIOUS
  <2>1. PICK t \in Threads : EndFormat(t)
    BY DEF Next, ThreadNext, Construct, Run, Record, GetMetric, Load, Store, BeginFormat,
           FormatOne, scrapeVars, vars
  <2>2. todo = {} /\ mutex # NoThread /\ last' = [shown |-> registered, value |-> seen]
    BY <2>1, ThreadsAssumption DEF EndFormat, Inv, LockInv
  <2>3. \A m \in Metrics : last.value[m] \subseteq seen[m]
    BY <2>2 DEF Inv, ScrapeInv, EmittedInv, RegisteredInv
  <2> QED
    BY <2>2, <2>3 DEF Inv, ScrapeInv
<1> QED
  BY <1>1, Invariance, PTL DEF Spec, ScrapesMonotone

=============================================================================
