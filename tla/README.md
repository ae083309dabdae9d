# TLA+ models of the computer service system

The repository is a small web application for a service department: a C++ server
(Crow) over PostgreSQL (libpqxx) that keeps devices, service types and the
service history, exports Prometheus metrics, logs to a file and to Loki, and
serves one HTML page. It brings two libraries along in source, nlohmann/json and
libpqxx. This directory models the program's own code and the core of the two
libraries, checks the models with TLC on small instances, and proves the most
important results with TLAPS for every value of the constants.

## Inventory

| Component | State | Operations | Interaction |
|---|---|---|---|
| `WebServer` (`src/webserver.cpp`, `main.cpp`) | `db`, `port`, the routes that were set up | constructor, `setupRoutes`, `run`, one handler per route | Crow's threads run the handlers concurrently; a handler calls one method of `Database`, then the metrics, then answers |
| `Database` (`src/database.cpp`) | one `pqxx::connection` | `testConnection`, four reads, nine writes | called by all threads on one object, no lock |
| `MetricsRegistry` (`src/metrics.h`) | the maps of counters and histograms, their values, one mutex for the maps and one per metric | `initialize`, five record operations, `format` | handlers record, `/metrics` scrapes |
| `Logger` (`src/logger.h`) | level, outputs, the log file, the Loki settings, one mutex; the buffer of `std::localtime` | `init`, `initWithLoki`, `write`, the push to Loki, setters | called by all handlers |
| Web UI (`www/index.html`) | current tab, what the tables show, the status line, requests and timeouts under way | tabs, load functions, forms | HTTP, one request after another per function, functions interleaved |
| libpqxx sessions (`libpqxx-7.7.5/src`) | `m_trans` of the connection; status, focus, pending error of a transaction; a stream; the queue of a pipeline; positions of cursors | constructors, `exec`, `commit`, `abort`, destructors, streams, `pipeline`, cursors | commands on the one session of the server |
| libpqxx conversions | - | glyph scanners, COPY lines, arrays, composites, numbers, dates, ranges | between C++ values and the server's texts |
| nlohmann/json (`include/nlohmann/json.hpp`) | stacks of the parser and its consumers; the output buffer of the serializer; containers and iterators | parse, dump, four binary formats, pointers, patches, containers | reads the configuration and every request body, writes every answer |
| PostgreSQL (external; `create_db.sql`, `docker/init.sql`) | committed tables, the session's transaction, `SERIAL` sequences | `BEGIN`, statements, `COMMIT`, `ROLLBACK`, `COPY`, cursors | may end the session at any time |
| Configuration, compose files, CI, tests | - | - | - |

What is hard here: the connection is shared by threads without a lock, and
libpqxx's guard against that is not atomic; the outcome of `COMMIT` may be
unknown; the session is opened once and never again; errors in destructors can
only be kept for later; an operation on the metrics updates two of them under
three critical sections while a scrape walks over all of them; the logger pushes
to Loki synchronously and asks for the time outside its mutex; the page's
functions interleave at every `await` and answers come in any order; success and
status are computed in more than one place; the libraries parse without
recursion, with stacks that must stay in step, and choose among many widths and
prefixes. `PROJECT.json` lists these hazards at their lines, with the properties
that cover them.

What makes each component correct: methods of `Database` are atomic and tell the
truth about their outcome, and leave the connection usable; the registry loses no
update, shows consistent and monotone scrapes and does not deadlock; the server
answers, never dereferences a missing `Database`, and its metrics agree with what
happened; the log is complete, ordered and undelayed; the page reports what
happened, shows it and comes to rest; libpqxx keeps what it reported, undoes the
rest and knows where it is; conversions read back what they write and refuse what
is not in their grammar.

## Modules

| Module | What it is |
|---|---|
| `MetricsRegistry` | The registry and the threads that use it |
| `MetricsRegistryProofs` | Its inductive invariant and the theorems that follow |
| `ServiceDb` | The schema and the effect of statements, as operators |
| `AtomicStore` | What `Database` promises: every call takes effect at one instant or not at all |
| `Database` | The methods of `Database` step by step over libpqxx and the server |
| `DatabaseProofs` | Cleanup and foreign keys for any number of threads; atomicity, durability and what a failure means for one |
| `WebServer` | Startup and handlers |
| `WebServerProofs` | Handlers have a database, requests and outcomes are counted, for any number of threads |
| `Logger` | The logger, its callers, the clock and Loki |
| `LoggerProofs` | The time of a line, and console and file in step, for any number of threads |
| `WebUI` | The page's script, the user, the network and what the server answers |
| `WebUIProofs` | The page's reports are true, for any number of requests; a patient user sees them |
| `PqxxSession` | Transactions of all classes, a subtransaction, a stream and a connection that may be lost |
| `PqxxSessionProofs` | Commits are kept, aborts undone and the connection freed, for any number of objects and writes |
| `PqxxPipeline` | `pipeline` |
| `PqxxCursor` | `sql_cursor`, `stateless_cursor`, `icursorstream`, `icursor_iterator` |
| `PqxxQueriesProofs` | The inductive invariants of the cursors and of the pipeline, for any number of rows, iterators and queries |
| `Iteration` | Induction over a set of numbers, and loops as functions of the number of rounds: lemmas for `PqxxQueriesProofs` |
| `PqxxEncodings`, `PqxxText`, `PqxxNumbers` | Conversions of libpqxx, as operators |
| `JsonLexer`, `JsonParser`, `JsonSerializer` | Text of json.hpp |
| `JsonPatch`, `JsonContainers` | Pointers, patches, containers and iterators of json.hpp |
| `JsonBytes`, `JsonCbor`, `JsonMsgPack`, `JsonBson`, `JsonUbjson` | Binary formats of json.hpp |
| `JsonInputs`, `JsonTexts`, `JsonDocuments`, `JsonBinaries`, `PqxxValues` | Inputs, reference definitions and properties for the operators above |
| `MCMetricsRegistry`, `MCDatabase`, `MCWebServer`, `MCLogger`, `MCWebUI`, `MCPqxx`, `MCConversions` | Instances for TLC |

`Database` instantiates `AtomicStore` with `db <- committed`; both use
`ServiceDb`. `WebServer` uses the promises of the other two: a call to the
database returns with one of two outcomes, and a record operation is one step
(`ReturnedCallsCounted` is what justifies that). `WebUI` uses what `WebServer`
answers: lists with 200 whether or not the database failed, a refusal of
`POST /api/devices`, success or not of an insertion.

### MetricsRegistry

A metric is a pair of name and labels. The value of a counter, and `count_` of
the histogram, is the set of the record calls it has counted, which says more
than a number: a lost update, a double one and one that went to the wrong metric
all differ. Every operation starts with a counter of its own family, so that
counter stands for the call.

`Record` is the call, `GetMetric` is `getCounter`/`getHistogram` (one step: its
critical section touches only what the registry mutex protects, but it waits
while a scrape holds that mutex), `Load` and `Store` are the read and the write
inside `increment`/`observe`, two steps so that a missing mutex would show.
`BeginFormat`, `FormatOne`, `EndFormat` are a scrape: all counters before the
histogram, family after family, the families in any order because
`unordered_map` promises none. `Construct` and `Run` are the two calls of
`initialize()`; the first does not happen when the constructor returns early.

Abstracted: labels are model values; buckets, sums and text are left out. `OtherLabels`
are the labels of the three families with one counter per call; the run leaves them
empty, since the HTTP family has both kinds of metric, and the proofs hold for any set.

### ServiceDb, AtomicStore, Database

A row of `Devices` or `Service_Types` is its name, one of `Service_History` its
two foreign keys; `BadRow` is any value that a column refuses. A statement is the
one statement of a method. A thread goes through

    idle -> check -> set -> begin -> exec -> commit -> unregister -> return -> idle
                                       |                    |            ^
                                       +--> unregister -----+- rollback -+

`check` and `set` are the two halves of `connection::register_transaction`;
`begin`, `exec`, `commit`, `rollback` send a command; `unregister` is
`transaction_base::close`, which clears `m_trans`, whoever is registered, before
it rolls back. `status` is what `PQstatus` says, which follows the loss of the
session (`linkUp`) only when a command fails. `COMMIT` in a failed transaction is
a rollback and outside a transaction nothing, and neither is an error for
libpqxx. `testConnection` does not commit. A read keeps its rows even if its
commit throws.

Two threads inside `PQexec` at once is undefined behaviour. Its mildest outcome
is that commands are executed whole, one after the other; the runs that show a
violation assume only that (`MayGarble = FALSE`), so that no counterexample needs
more. The runs and theorems that show something hold also with `Garble`: the
command is or is not executed, and its thread sees an error or takes the other's
answer for its own. Memory errors and a `PQexec` that hangs are left out.

`acked` is a history variable: the records whose insertion a method has reported,
less those whose deletion somebody has asked for. `garbled` records that `Garble`
has happened.

### WebServer

`ReadConfig`, `Connect`, `SetupRoutes` and `Run` are the constructor up to each of
its exits, and `run()`. A request is a route and the class of its body. A handler
makes its database call (`DbReturn`, either outcome), records the list of metrics
that its code records, in order (`RecordMetric`), and answers (`Answer`). A body
that is not UTF-8 makes the message of the exception unprintable for `dump()`,
which throws again out of the handler: Crow answers 500. If no routes were set
up, every request gets 404 (`AnswerUnrouted`).

### Logger

A call is `CheckLevel` (before the mutex), `Lock`, `Localtime`, two `ReadField`,
`WriteConsole`, `WriteFile` (which releases the mutex), then, for the functions
that push and if Loki is enabled, `Localtime` and `ReadField` again without the
mutex, `Push` and `PushEnds`; if `curl_easy_init` fails there is no push. `std::localtime` writes the buffer `tm` that all
threads share; `put_time` reads it field by field, here two fields of which a tick
of the clock changes both. The setters take the mutex and change what `write`
reads with and without it. `raced` records who wrote to the buffer while a thread
was reading it.

### WebUI

An asynchronous function is a record: the function, the request it awaits and
the answer, if there is one. Several may be under way, of the same function too.
The content of a view is the number of history records in the answer that was
painted last. `patient` distinguishes a user who clicks only when nothing is under
way from one who does not wait.

### PqxxSession, PqxxPipeline, PqxxCursor

In `PqxxSession` one thread uses a connection: transaction objects of each class
(`Open`), a subtransaction, statements (`Exec` checks for pending errors, another
focus and the status, `ExecParams` only for the focus, as the code does),
`Commit`, `Abort` and the destructor, a `stream_to` or `stream_from` with its
destructor, and the connection lost before or after a command took effect, or
unnoticed (`Lose`). `Ask` is one attempt of a robusttransaction to learn what
became of its commit: the server tells, cannot be reached, or `query_status` throws
something else, which leaves `commit()`. Its constructor may fail between `BEGIN` and
the question for its id (`Unmade`).

`Careful` restricts the client to what the documentation asks: one transaction in use
at a time, none after an exception or once closed, and nothing on a parent while its
subtransaction lives; `abort()` is allowed at any time but the last. All runs assume it.
Four ghost fields of a transaction object are for the properties only: `upset` (a call
threw), `doubted` (the connection was lost while it committed), `unsure` (`commit()`
threw something that does not tell the outcome, and marked it as aborted) and `left`
(it was closed, or never made, without a rollback being sent).

`PqxxPipeline` has insertion, retention, issuing, retrieval, `complete`, `flush`,
`cancel` and the replay of a batch that failed to parse, over a server that
executes a batch as one text. `PqxxCursor` has all moves and fetches over a server
cursor that is scrollable or not; `MaxStep` bounds a stride, and the strides or rows
that one call asks for. The loops of the two modules (`Obtained`, `Replay`, `InSequence`,
`ServiceIterators`) are recursive functions of the number of rounds, with as many rounds as
the code can need; a round after the loop's exit changes nothing. `MCPqxx` composes the three as alternatives, each on a
connection of its own.

### Conversions

`json.hpp` and the text conversions of libpqxx are pure functions of their input;
they are operators over bytes, and `MCConversions` enumerates inputs: every
sequence up to a bound over an alphabet that holds each class of byte or token, and
values at the limits of the formats. The properties compare with definitions
written from the grammars of JSON and UTF-8 (`RefParse`, `IsNumber`, ...), or read
back what was written. Integers have `IntegerBits` bits, the output buffer of
the serializer `BufferSize` bytes (64 and 512 in the code), so that overflow and a
full buffer happen. What throws in the code is `Throw(id)` or a value that stands
for the exception.

The integers of libpqxx are those of its own reader and writer (`strconv.cxx:325-475`), which are
compiled where the standard library has no `<charconv>` for integers; with
`PQXX_HAVE_CHARCONV_INT`, as in `build-test`, `std::from_chars` and `std::to_chars` take their
place. On whole texts the two agree; the digits that the reader could meet behind the end of
a view (`strconv.cxx:438`) are a memory matter.

Each module also holds the `Mutant...` operators: the code with one plausible
mistake, next to the definition they replace. `PROJECT.json` says which property
finds which.

## Runs

| Run | Configuration | Shows |
|---|---|---|
| `metrics_registry` | 2 threads, 2 calls and 1 scrape each | `ReturnedCallsCounted`, `ScrapeConsistent`, `ScrapesMonotone`, `EveryCallReturns` |
| `database_one_thread` | 1 thread, 3 calls, a statement for every method and kind of argument, the link may fail | atomicity (`Atomic`), durability, honest failures, `JoinComplete` |
| `database_shared` | 2 threads, 3 calls, the statements behind the routes, link failures, mixed-up commands (about 550,000 states) | cleanup (`QuietMeansClean`), every call returns |
| `database_shared_durability` | 2 threads, 2 calls, no link failure, no mix-up | violation, see below |
| `webserver` | 2 threads, 2 requests of any kind, every configuration | `HandlersHaveDb`, `ApiRequestsCountedOnce`, `OutcomesCounted`, `EveryRequestAnswered` |
| `webserver_status_label` | 1 request | violation, see below |
| `logger` | 2 threads, 1 call each, 1 tick, 1 setter, levels DEBUG and ERROR | `OnlyPushesRace`, `OutputsAgree`, `SlowLokiDelaysNoWriter`, `EveryLogCallReturns` |
| `web_ui` | 3 clicks of a patient user or 2 of a hasty one, 1 fault | `ReportsTrue`, `HistoryFreshIfPatient`, `ComesToRest` |
| `web_ui_history` | 3 clicks, no fault | violation, see below |
| `conversions` | about 503,000 inputs: texts of up to 10 tokens, numbers of 6 characters, strings of 4 bytes, rows of 4, pairs of some 130 documents, ... | the 11 properties of `JsonTexts`, `JsonDocuments`, `JsonBinaries` and `PqxxValues` |
| `pqxx_session` | 2 transactions of 3 classes, a subtransaction, 2 writes; 4 queries; 3 rows, 2 iterators, steps of 1 or 2 (about 2,120,000 states) | `CommitKeepsAll`, `AbortLeavesNothing`, `ConnectionReusable`; `ResultsOfTheirQueries`, `EffectsOnce`; `PositionsTrue`, `RetrievesRange`, `IteratorsSeeTheirRows` |
| `pqxx_robust` | 1 robusttransaction | violation, see below |

Bounds. In the registry, two threads suffice for every race between two updates,
an update and a scrape, and two scrapes; two calls per thread let a thread be a
whole call ahead, which is the case that `ScrapeConsistent` is about (its bound of
one call per thread would be met trivially with one call). For `Database`, three
calls are one that prepares, one that fails or is lost, and one that meets what
is left; two threads race. For the handlers, the properties relate totals, and
two concurrent requests give every pair of routes and interleaving of their
metrics. In the logger, one call per thread contains a line and a push, which is
every pair that can race; one tick changes every field. On the page, three clicks
are a load, an insertion and a load, in any order; a fault can hit any request. For
libpqxx, two transactions are one that leaves something behind and one that would
meet it; four queries are a batch with one before and one behind the query that
fails; three rows let a cursor stop before, on and behind each end. For the
conversions, ten tokens are containers nested three deep with a comma, or an object
with a scalar and a container; every state of the automata has its bytes in the alphabets. The theorems have no
bounds, except that the numbers of calls, scrapes, rows, queries and steps are arbitrary
constants.

Deadlock is checked where processes run for ever: a behaviour that has used up its
bounds stutters (`Done`). In the runs of `MCConversions` an input of full length has no successor, and in
those of `MCPqxx` a client may stop anywhere; there it is not checked.

Fairness. A thread that runs keeps running: weak fairness of each thread's steps
inside a call (`Continue`, `Step`, `Handle`, `Writing`), not of calls being made. A mutex
is held only over steps that do not wait for the same mutex, so weak fairness is
enough for the lock to be obtained in the bounded instances of the registry; for the
logger `Lock` is strongly fair, which says that a thread is not passed over for
ever. `SlowLokiDelaysNoWriter` assumes nothing of Loki; only
`EveryLogCallReturns` assumes that a push ends, which curl's timeout of 5 s
guarantees. For `Database` the fairness says that `PQexec` returns, for `WebServer`
that main() and the handlers run and that calls to `Database` return, which is
`EveryCallReturns` of `Database`. For the page it says that the browser reports an
answer or an error for every request and runs due timeouts.

### What the violations show

- `AckedRecordsDurable` (two threads): both pass `check_unique_register`; one
  inserts, the other's statement fails and aborts the transaction they share; the
  `COMMIT` of the first is a rollback on the server, which libpqxx takes for a
  success. `addServiceRecord` returns true and the page says the record was added.
  A mutex in `Database` around each method would give the one-thread case, for
  which everything is proved.
- `StatusLabelTrue`: a refused insertion is counted as 400 and answered with 200.
  (A body that is not UTF-8 is counted as 400 and answered with 500.)
- `HistoryFresh`: a list of the history that was requested before the insertion
  arrives after the reload and is painted over it.
- `CommitCertain`: a robusttransaction that cannot learn the fate of its commit
  returns as if it had succeeded, where its comment says it tries again.

### Observations

Met while reading the code, outside the runs or named by a condition of a property. Without
the conditions `unsure`, `left` and `Marred`, TLC refutes the properties of libpqxx's sessions:

- `webserver.cpp:292, 354, 376, 471`: lists count as successful database operations
  whatever happened; pages, files and `/metrics` are not counted at all; a request
  during another's transaction gets `usage_error`, so that `/api/test-db` may answer
  "disconnected" while the server is up.
- `metrics.h`: a labelled histogram would print a stray brace (the program labels
  none); label values are not escaped, and a user name from a request body is one.
- `logger.h:142-153`: the payload for Loki replaces quotes and line ends by a
  backslash, and labels are not escaped.
- json.hpp, callbacks: a member whose key was kept stays as a discarded placeholder also
  if its value is refused as a scalar or at `start_array`; only the end of an object inside
  the same container removes one, the first it finds, whoever left it. A refused value
  leaves its entry on `key_keep_stack`; as every key pushes one of its own, the stale ones
  are never read. `CallbackFilters` states what holds of all this. The comment at `:7161`
  says "remove discarded value", which `end_array` does in an array only: in an object the
  placeholder of a refused array stays, and `dump()` writes it as `<discarded>`.
- json.hpp, pointers: `contains()` throws 404 or 410, as `at()` does, for an empty token or
  an index beyond `size_type` that meets an array, and `PointersAgree` says that these are
  the only ones. Its documentation (`:14378-14381`) says 106 for an index that begins with
  0 and 109 for one that is no number; it answers false to both.
- json.hpp: the range constructor does not check the range of a binary value;
  `insert(pos, first, last)` with iterators of a value that is no array inserts
  nothing; `value(ptr, default)` still throws for a malformed index.
- libpqxx, robusttransaction, outcome (`unsure` in `AbortLeavesNothing`): if the question
  for the fate of a commit fails with anything but a broken connection, or `COMMIT` with
  `statement_completion_unknown` on an open one, `commit()` marks as aborted a transaction
  that the server may have committed (`robusttransaction.cxx:75-90, 161-167, 186`), where its
  documentation promises an `in_doubt_error`.
- libpqxx, pending errors (`left` in `DestroyedMeansIdle`): a stream fails in its destructor,
  `abort()` meets the pending error and sends no `ROLLBACK` (`transaction_base.cxx:168-190,
  438`), and nobody does later: the connection stays inside a failed transaction. The
  destructor alone would have rolled back, and `transaction.hxx:64` says that the two come to the
  same. A `SELECT txid_current()` that fails after `BEGIN` leaves the block open too
  (`robusttransaction.cxx:99-100`).
- libpqxx, subtransactions (`Marred` in `CommitKeepsAll`): aborted with a pending error, one
  leaves the block of the upper transaction failed, whose `commit()` then reports success for
  what the server rolls back; `subtransaction.hxx:55` says that it is "still fine".
- libpqxx, transactions: a subtransaction is not registered as the focus of its parent and a
  robusttransaction not with its connection; `exec_params` checks neither the
  status nor pending errors; the commit of a failed transaction is no error.
- libpqxx, pipeline: `flush()` keeps `m_error`; after an error `m_num_waiting` no
  longer counts; `cancel()` leaves results on the wire; results name the oldest
  query of their batch.
- libpqxx, cursors: `stateless_cursor::retrieve(size(), end_pos)` backwards returns the row
  at `end_pos` too, where `cursor.hxx:216-226` excludes it; `RetrievesRange` says so. The test
  of that case (`test_stateless_cursor.cxx:60`) asks for an `end_pos` where there is no row.
  An iterator made after the stream was read there is empty (excluded by `late`).
- libpqxx, texts: the scanner of JOHAB reads its second byte at `start`, that of
  MULE_INTERNAL tests one byte twice, so that longer glyphs are never accepted;
  arrays and composites are escaped byte by byte, which is right only where
  ASCII bytes stand for themselves (`AsciiSafe`); a composite of one field is
  written with a comma that its parser refuses; `size_buffer` of arrays does not
  count separators.

## Proofs

All proofs are checked by tlapm to the last leaf. Assumptions on the constants
are in the modules that declare them and only say that bounds are numbers, the
null values are not elements of the sets, and statements have a kind and a table.

`MetricsRegistryProofs`: `Invariance` is `Spec => []Inv`; `TypeCorrect`,
`NoUpdateLost`, `ScrapesConsistent` and `CountersMonotone` follow. `ScrapeConsistent`
is far from inductive: the argument is that a thread which updates the second
metric of an operation after the scrape began got its reference before, because
it cannot pass `getCounter` during the scrape. `Inv` says so in parts:

- `LockInv`: mutual exclusion, and a value that was read is still current;
- `RegisteredInv`: references point to registered metrics;
- `CallInv`: which metrics may have counted a call, by how far it has come;
- `PairInv`: first and second metric differ by calls between the two;
- `ScrapeInv`: what a scrape has emitted is behind the metric at most by calls that
  now wait for the registry mutex or have returned (`EmittedInv`).

One lemma per part, one step per action.

`DatabaseProofs`:

- `CleanWhenQuiet`: for any set of threads. `CleanInv` says that a registered
  transaction has a thread that will unregister it, and an open one on the server
  a thread that will end it, unless commands were mixed up.
- `OneThreadDurable` and `OneThreadAtomic`: for a set of at most one thread. `SoloInv`
  says that the transaction on the server starts from the committed contents and
  holds the effect of the thread's statement (`SoloTxn`), that the outcome is
  decided by the commit or by the statement of a read (`SoloOutcome`), and that
  keys come from the sequences (`Keyed`), which makes inserted keys fresh.
  `StepSimulation` maps each step to a step of `AtomicStore` or to none: a write
  takes effect at `COMMIT`, a read at its statement, an exception before is a
  failure, and a lost answer to `COMMIT` is the `Doubt` of the abstract store.
- `JoinDropsNothing`: for any set of threads, mixed up or not. `JoinComplete` speaks of the
  committed contents only; `IntegrityInv` adds the contents of the open transaction, which
  a commit publishes: whatever transaction a statement ends up in, the server accepted it
  against the contents that it changes.
- `OneThreadFailureMeansOutage`: for one thread. `OutageInv` adds to `CleanInv` and `SoloInv`
  that a read which is going to return false has met a lost connection: no earlier call
  has left a registered or an open transaction that could make it fail.

`LoggerProofs`, for any number of threads, calls and ticks:

- `PushesAloneRace`. `OnlyPushesRace` speaks of lines that are written already; `RaceInv`
  adds what holds on the way there: a thread in the critical section of `write()` owns
  `logMutex` (`MutexInv`), so no other writer can call `std::localtime` there, and while
  nobody else has, the buffer holds the thread's time and the fields read so far are those
  of that time (`BufferInv`).
- `OutputsInStep`. `OutputInv`, on top of `RaceInv`, says that the number of a thread's call
  is above those of its lines, in the file also while it is between console and file
  (`OrderInv`), and that before any setter the file is the console without the line of a
  thread at `file` (`Untouched`); `MutexInv` makes that thread the only one.

`WebServerProofs`, for any finite set of worker threads (`ThreadsAssumption`: the counters
are compared with a number of threads): `NoNullDatabase`, `CountedOnce`, `OutcomesAgree`.
The counters and the answers agree only when no handler is under way. `CountInv` says by
how much they differ before: `http_requests_total` of a route is ahead by the threads that
have recorded the request and not yet answered it (`HttpDone`), the counter of failed logins
likewise (`LoginDone`), and the counters of insertions are behind by the threads that have
yet to record one (`InsertDue`). `StartupInv` says that there are routes only behind a
connection and the configured port, `ThreadInv` that what a thread has yet to record suits
its request and holds no counter twice.

`WebUIProofs`: `OnlyTrueReports`, for any number of requests under way; `PatientSeesReports`,
for a user who waits (the property's own condition). `Backed` says that the
server has a record for every insertion that was reported or whose confirmation is still
on its way; `Fresh`, for a user who waits, that a submission is alone under way and that
the history shown, or else the load that is on its way, has all that was reported. `Apart`
and `Room` say that requests under way have different ids and that there is always a free
one, so the model refuses no click for want of an id.

`PqxxSessionProofs`, for any number of transaction objects, writes and attempts, and any
classes of transaction in use:

- `BaseHolds` and `NoDanglingPointers` for every client. `Base` is the types, the state of a
  lost session (`Sound`) and the bookkeeping of objects, registration, focus and stream.
- `CommitsAreKept`, `AbortsAreUndone` and `ConnectionFreed` under the hypothesis `Careful`, the
  rules of the documentation that `Heeds` states. The hypothesis is needed:
  `commit()` after a call that threw commits a failed block, which the server rolls back
  without an error, and `exec_params` runs on a transaction that is closed. `abort()` with a
  pending error, constructors that throw half-way and exceptions of the question for the
  outcome are all part of the steps; what the code does wrong there is named by `Marred`,
  `unsure` and `left` in the properties, and described under Observations.
  `CarefulInv` has six parts. `SoloInv`: one
  transaction at a time, and nothing on the parent of a subtransaction. `ServerInv`: the server
  has a block only if an open object has, or one was left. `LeftInv`: a
  pending error is that of a block that has failed, and one that was left behind stays failed,
  so that no other can be begun on the connection. `CopyInv`: a COPY from the client belongs to the
  stream that is the focus, so no other command ends it. `KeepInv`: as long as an object has
  neither thrown nor a pending error, the server has all that it reported, in its work, in
  the savepoint (which a rollback of the subtransaction returns to) or in the database; so
  the block that `commit()` finds is good, and COMMIT is not a rollback in disguise.
  `DropInv`: nothing of an open transaction is durable, and nothing of an aborted one is durable
  or still held by the server; with a commit in doubt this depends on the server's verdict.
- The argument goes in layers: what each command does to the server (`Server...`), what
  `connection::exec` makes of it with a COPY to end or a connection to lose (`Execute...`),
  what a use, a birth, a closing and a loss keep (`CarefulUse`, `BirthCareful`, `EndClose`,
  `SubClose`, `CarefulLoss`), and one lemma per action (`...Step`).

`PqxxQueriesProofs`, for any number of rows, strides, iterators, steps and queries:

- `PositionsAreTrue`, `RangesAreRetrieved` and `IteratorsServed` from `CursorInvariant`.
  `PositionsTrue` alone is not inductive: `adjust()` works out a displacement from the rows
  that it got and from `m_at_end`, so `Located` adds that the end which the cursor believes
  to be at is the one where it is, that a known position knows its ends, and that a known
  end position comes with a known position; this excludes the internal error of `adjust()`.
  `Streaming` says that an `icursorstream` stands where the rows it returned end. `Held`
  says that an iterator which the stream has passed, and which did not come late, holds the
  block at its position, and that its position is a multiple of the stride (`Aligned`): two
  positions then are equal or a stride apart, so `service_iterators`, which fills the
  iterators at the next position and reads on, skips none of them and overlaps no two
  blocks. `Retrieval` says what the last `retrieve` returned. One lemma says what a server
  cursor does forwards and one backwards, `FetchTrue` and `MoveTrue` what `adjust()` makes
  of it, `RetrievedTrue` and the lemmas on `ServiceIterators` what the users of a fetch do,
  and there is one lemma per action.
- `RetrievesItsResult` and `TakesEffectOnce` from `PipelineInvariant`. `PipeInv` has seven
  parts. `Ranged`: the issued range consists of valid iterators, in order. `Counted`:
  `m_num_waiting` counts what is not issued, until there is an error (afterwards the code
  lets it go wrong, and needs it no more). `Stopped`: after an error nothing is pending, and
  the error is at or before what could be issued next, so that `retrieve` refuses what was
  never executed. `Fresh`: no query took effect twice, and none that may still be issued
  did. `Answered`: a result of success belongs to its query, and no pending query has one
  yet, which excludes the internal error of `obtain_result`. `Coming`: the results on the
  wire are those of the pending queries one after the other (`Chain`), behind the dummy if
  there is one; if the dummy failed, then no query of the batch took effect and executing
  them again will meet a failure (`Botched`). The last matters: the replay leaves
  `m_issuedrange.second` behind unless it ends in the handler of an exception, and would
  leave the range inverted if it succeeded. `Told`: what was returned. The `logic_error` of
  `obtain_result`, for a result of a query that was cancelled, keeps the invariant. The
  argument follows the calls of the code: `obtain_result`, a round and then all rounds of
  receiving, the dummy and the replay, `issue`, and the client's calls on top.

Loops. The library's induction theorems take an operator as a parameter, which the provers
cannot instantiate. `Iteration` restates what is needed in first-order form: every nonempty
set of numbers has a least element (`LeastElement`, from the well-foundedness of `<`), hence
induction for a set (`SetInduction`), and hence a function that is defined by its rounds
exists if every round stays within a set (`LoopExists`). That is enough for loops over a
range of ids or of positions.

TLC has checked both inductive invariants before they were proved: `CursorInv` on
`CursorSpec` and `PipeInv` on `PipeSpec`, each alone, with the bounds of the run `pqxx_session`
(11,571 and 194,080 states).

Only model-checked: liveness and `ENABLED`, which are out of the prover's reach; and all the
conversions (`JsonTexts`, `JsonDocuments`, `JsonBinaries`, `PqxxValues`). Their operators
are recursive over nested inputs and declared RECURSIVE, which takes the SMT backend away
from every module that reaches them; and their reference definitions are recursive too, so a
proof would need an induction over pairs of parses rather than over a count of rounds.

## Not modelled

- The histogram's buckets and the text of the metrics; memory growth of `values_`
  and of the label sets.
- json.hpp: Grisu2 (a floating-point number is a decimal fraction here); `dump()` of binary,
  discarded and non-finite values; the errors 104 and 105 of malformed patches; the
  n-dimensional arrays of BJData; conversions to and from C++ types, error
  messages and diagnostics.
- libpqxx: large objects and blobs, notifications, `transactor`, results and rows as
  C++ objects, parameters, prepared statements' bookkeeping, the setup of
  connections, floats; years above 32767, which the model refuses and `std::chrono::year`
  cuts to 16 bits; loss of the connection in the pipeline and the cursors;
  `icursorstream::set_stride` once the stream is in use.
- Crow (its directory is empty in the repository) and PostgreSQL beyond how the program
  and libpqxx use them; static configuration, deployment files, tests.
- Two threads inside libpqxx other than through `Database`; memory errors.

## Plan

All invariants of the state machines are proved. Next would be the conversions, with the
scanners first (`ScansTokens`, `NumbersReadBack`): their loops run over the positions of a text
and can be restated as functions of the number of rounds, as those of the pipeline were, and then
be proved with `Iteration`.
