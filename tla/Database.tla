------------------------------- MODULE Database -------------------------------
(***************************************************************************)
(* src/src/database.cpp over libpqxx: the request threads of the server    *)
(* call the methods of the one Database object, which share its one        *)
(* pqxx::connection.  Nothing locks it.                                    *)
(*                                                                         *)
(* Every method builds a pqxx::work (register it on the connection, send   *)
(* BEGIN), executes one statement, commits (send COMMIT, unregister) and   *)
(* leaves through its destructor (unregister, send ROLLBACK) otherwise.    *)
(* testConnection never commits.  An exception becomes false or no rows.   *)
(*                                                                         *)
(* The steps are the accesses to the connection's m_trans and the commands *)
(* sent to the server.  Two threads inside PQexec at once is undefined     *)
(* behaviour of libpq.  Its mildest outcome is that the commands are       *)
(* executed whole, one after the other; with MayGarble a command may also  *)
(* be refused, lose its answer or get that of the other thread (Garble).   *)
(***************************************************************************)
EXTENDS ServiceDb, FiniteSets

CONSTANTS
    Workers,        \* request threads
    Statements,     \* the calls that the threads make
    NoCall,         \* no call
    NoWorker,       \* the null m_trans
    MaxCalls,       \* bound: calls in a behaviour
    LinkMayFail,    \* whether the connection to the server may be lost
    MayGarble       \* whether overlapping commands may get mixed up

ASSUME MaxCallsAssumption == MaxCalls \in Nat /\ 1 .. MaxCalls + 1 \subseteq Keys
ASSUME WorkersAssumption == IsFiniteSet(Workers) /\ NoWorker \notin Workers
ASSUME StatementsAssumption ==
    /\ NoCall \notin Statements
    /\ \A s \in Statements :
          /\ s.kind \in {"insert", "update", "delete", "select", "join", "ping"}
          /\ s.table \in TableNames
ASSUME FaultsAssumption == LinkMayFail \in BOOLEAN /\ MayGarble \in BOOLEAN

VARIABLES
    \* the server
    committed,      \* the committed contents
    working,        \* the contents as the open transaction sees them
    session,        \* the session's transaction: "none", "open" or "failed"
    serial,         \* the last key each SERIAL sequence gave out
    linkUp,         \* the session is alive
    \* the connection object
    status,         \* PQstatus: "ok" until a command fails to get through
    m_trans,        \* the registered transaction, by its thread
    \* the threads
    pc,             \* the next step of each thread
    call,           \* its statement
    txn,            \* m_status of its transaction, "none" before BEGIN succeeds
    result,         \* what the method returns, once decided
    rows,           \* the rows it returns
    key,            \* the key of the row it inserted
    calls,          \* number of calls so far
    acked,          \* records whose insertion was reported as successful
    garbled         \* two commands have been mixed up

server == <<committed, working, session, serial, linkUp>>
outcome == <<result, rows, key>>
vars == <<committed, working, session, serial, linkUp, status, m_trans, pc, call,
          txn, result, rows, key, calls, acked, garbled>>

Init ==
    /\ committed \in {EmptyDb} \cup {SeedDb(n) : n \in Names}
    /\ working = EmptyDb
    /\ session = "none"
    /\ serial = [t \in TableNames |-> IF committed[t] = NoRows THEN 0 ELSE 1]
    /\ linkUp = TRUE
    /\ status = "ok"
    /\ m_trans = NoWorker
    /\ pc = [w \in Workers |-> "idle"]
    /\ call = [w \in Workers |-> NoCall]
    /\ txn = [w \in Workers |-> "none"]
    /\ result = [w \in Workers |-> "none"]
    /\ rows = [w \in Workers |-> NoRows]
    /\ key = [w \in Workers |-> 0]
    /\ calls = 0
    /\ acked = {}
    /\ garbled = FALSE

Goto(w, step) == pc' = [pc EXCEPT ![w] = step]
Decide(w, r) == result' = [result EXCEPT ![w] = r]

\* An exception ends a method with false, unless its rows are already read.
Throw(w) == Decide(w, IF result[w] = "none" THEN "false" ELSE result[w])

\* A handler calls a method.
Call(w, s) ==
    /\ pc[w] = "idle"
    /\ calls < MaxCalls
    /\ calls' = calls + 1
    /\ call' = [call EXCEPT ![w] = s]
    /\ rows' = [rows EXCEPT ![w] = NoRows]
    /\ key' = [key EXCEPT ![w] = 0]
    /\ Decide(w, "none")
    /\ acked' = IF s.kind = "delete" /\ s.table = "history" THEN acked \ {s.id} ELSE acked
    /\ Goto(w, "check")
    /\ UNCHANGED <<status, m_trans, txn, garbled>> /\ UNCHANGED server

\* connection::register_transaction: the check ...
CheckUnique(w) ==
    /\ pc[w] = "check"
    /\ \/ /\ m_trans = NoWorker
          /\ Goto(w, "set")
          /\ UNCHANGED result
       \/ /\ m_trans # NoWorker     \* usage_error, nothing to unregister
          /\ Throw(w)
          /\ Goto(w, "return")
    /\ UNCHANGED <<status, m_trans, call, txn, rows, key, calls, acked, garbled>>
    /\ UNCHANGED server

\* ... and the assignment.
Register(w) ==
    /\ pc[w] = "set"
    /\ m_trans' = w
    /\ Goto(w, "begin")
    /\ UNCHANGED <<status, call, txn, calls, acked, garbled>>
    /\ UNCHANGED server /\ UNCHANGED outcome

\* What BEGIN does on the server.  It is ignored in an open transaction and
\* refused in a failed one.
ServerBegins ==
    /\ session # "failed"
    /\ session' = "open"
    /\ working' = IF session = "none" THEN committed ELSE working
    /\ UNCHANGED committed

\* Mutant: BEGIN is tried again until the connection is back.
MutantBeginRetries(w) ==
    /\ pc[w] = "begin"
    /\ \/ /\ linkUp /\ ServerBegins
          /\ txn' = [txn EXCEPT ![w] = "active"]
          /\ Goto(w, "exec")
          /\ UNCHANGED result
       \/ /\ linkUp /\ session = "failed"
          /\ Throw(w)
          /\ Goto(w, "unregister")
          /\ UNCHANGED <<committed, session, working, txn>>
       \/ /\ ~linkUp
          /\ UNCHANGED <<committed, session, working, txn, pc, result>>
    /\ UNCHANGED <<serial, linkUp, status, m_trans, call, rows, key, calls, acked, garbled>>

\* If BEGIN fails, the base class destructor unregisters.
Begin(w) ==
    /\ pc[w] = "begin"
    /\ \/ /\ linkUp
          /\ ServerBegins
          /\ txn' = [txn EXCEPT ![w] = "active"]
          /\ Goto(w, "exec")
          /\ UNCHANGED <<status, result>>
       \/ /\ ~linkUp \/ session = "failed"
          /\ status' = IF linkUp THEN status ELSE "bad"
          /\ Throw(w)
          /\ Goto(w, "unregister")
          /\ UNCHANGED <<committed, session, working, txn>>
    /\ UNCHANGED <<serial, linkUp, m_trans, call, rows, key, calls, acked, garbled>>

\* The contents a statement runs on; outside a transaction it commits at once.
View == IF session = "none" THEN committed ELSE working

\* An INSERT takes a key even if a foreign key then makes it fail.
NextSerial(s) ==
    serial' = IF s.kind = "insert" /\ s.row # BadRow
              THEN [serial EXCEPT ![s.table] = @ + 1] ELSE serial

NewKey(s) == IF s.kind = "insert" THEN serial[s.table] + 1 ELSE 0

ServerExecutes(s) ==
    LET new == Effect(View, s, NewKey(s))
    IN  /\ session # "failed"
        /\ Accepts(View, s)
        /\ IF session = "none" THEN committed' = new /\ UNCHANGED working
                               ELSE working' = new /\ UNCHANGED committed
        /\ NextSerial(s)
        /\ UNCHANGED session

\* testConnection is done after its statement; the others commit.
AfterExec(s) == IF s.kind = "ping" THEN "unregister" ELSE "commit"

ExecuteOk(w) ==
    LET s == call[w]
    IN  /\ pc[w] = "exec"
        /\ linkUp
        /\ ServerExecutes(s)
        /\ key' = [key EXCEPT ![w] = NewKey(s)]
        /\ rows' = [rows EXCEPT ![w] = Fetched(View, s)]
        /\ IF IsRead(s) THEN Decide(w, "true") ELSE UNCHANGED result
        /\ Goto(w, AfterExec(s))
        /\ UNCHANGED <<linkUp, status, m_trans, call, txn, calls, acked, garbled>>

ExecuteError(w) ==
    /\ pc[w] = "exec"
    /\ \/ /\ linkUp /\ session # "failed"
          /\ ~Accepts(View, call[w])
          /\ NextSerial(call[w])
       \/ /\ ~linkUp \/ session = "failed"
          /\ UNCHANGED serial
    /\ session' = IF session = "open" THEN "failed" ELSE session
    /\ status' = IF linkUp THEN status ELSE "bad"
    /\ Throw(w)
    /\ Goto(w, "unregister")
    /\ UNCHANGED <<committed, working, linkUp, m_trans, call, txn, rows, key, calls,
                   acked, garbled>>

\* What COMMIT does on the server.  In a failed transaction it rolls back, and
\* outside a transaction it does nothing; neither is an error.
ServerCommits ==
    /\ committed' = IF session = "open" THEN working ELSE committed
    /\ working' = EmptyDb
    /\ session' = "none"

\* Mutant: the method returns true without a commit.
MutantCommitSkipped(w) ==
    /\ pc[w] = "commit"
    /\ status = "ok" /\ linkUp
    /\ Decide(w, "true")
    /\ Goto(w, "unregister")
    /\ UNCHANGED <<status, m_trans, call, txn, rows, key, calls, acked, garbled>>
    /\ UNCHANGED server

CommitOk(w) ==
    /\ pc[w] = "commit"
    /\ status = "ok" /\ linkUp
    /\ ServerCommits
    /\ txn' = [txn EXCEPT ![w] = "committed"]
    /\ Decide(w, "true")
    /\ Goto(w, "unregister")
    /\ UNCHANGED <<serial, linkUp, status, m_trans, call, rows, key, calls, acked, garbled>>

\* commit() finds the connection broken before it sends COMMIT, or while it
\* waits for the answer.
CommitError(w) ==
    /\ pc[w] = "commit"
    /\ \/ /\ status = "bad"
          /\ UNCHANGED <<txn, status>>
       \/ /\ status = "ok" /\ ~linkUp
          /\ txn' = [txn EXCEPT ![w] = "in_doubt"]
          /\ status' = "bad"
    /\ Throw(w)
    /\ Goto(w, "unregister")
    /\ UNCHANGED <<m_trans, call, rows, key, calls, acked, garbled>> /\ UNCHANGED server

\* The server commits, but the connection is lost before it can say so.
CommitAnswerLost(w) ==
    /\ LinkMayFail
    /\ pc[w] = "commit"
    /\ status = "ok" /\ linkUp
    /\ ServerCommits
    /\ linkUp' = FALSE
    /\ status' = "bad"
    /\ txn' = [txn EXCEPT ![w] = "in_doubt"]
    /\ Throw(w)
    /\ Goto(w, "unregister")
    /\ UNCHANGED <<serial, m_trans, call, rows, key, calls, acked, garbled>>

\* Mutant: only a committed transaction is unregistered.
MutantUnregisterCommitted(w) ==
    /\ pc[w] = "unregister"
    /\ m_trans' = IF txn[w] = "committed" THEN NoWorker ELSE m_trans
    /\ Goto(w, IF txn[w] = "active" THEN "rollback" ELSE "return")
    /\ UNCHANGED <<status, call, txn, calls, acked, garbled>>
    /\ UNCHANGED server /\ UNCHANGED outcome

\* transaction_base::close: unregister first, whoever is registered; then a
\* transaction that is still active is rolled back.
Unregister(w) ==
    /\ pc[w] = "unregister"
    /\ m_trans' = NoWorker
    /\ Goto(w, IF txn[w] = "active" THEN "rollback" ELSE "return")
    /\ UNCHANGED <<status, call, txn, calls, acked, garbled>>
    /\ UNCHANGED server /\ UNCHANGED outcome

ServerRollsBack ==
    /\ session' = "none"
    /\ working' = EmptyDb
    /\ UNCHANGED committed

\* Mutant: close() does not abort an active transaction.
MutantRollbackOmitted(w) ==
    /\ pc[w] = "rollback"
    /\ Goto(w, "return")
    /\ UNCHANGED <<status, m_trans, call, txn, calls, acked, garbled>>
    /\ UNCHANGED server /\ UNCHANGED outcome

\* ROLLBACK; a failure to send it is only logged.
Rollback(w) ==
    /\ pc[w] = "rollback"
    /\ ServerRollsBack
    /\ status' = IF linkUp THEN status ELSE "bad"
    /\ Goto(w, "return")
    /\ UNCHANGED <<serial, linkUp, m_trans, call, txn, calls, acked, garbled>>
    /\ UNCHANGED outcome

\* Mutant: the catch block of addServiceRecord returns true.
MutantReturnTrue(w) ==
    /\ pc[w] = "return"
    /\ acked' = IF call[w].kind = "insert" /\ call[w].table = "history"
                THEN acked \cup {key[w]} ELSE acked
    /\ call' = [call EXCEPT ![w] = NoCall]
    /\ txn' = [txn EXCEPT ![w] = "none"]
    /\ Goto(w, "idle")
    /\ UNCHANGED <<status, m_trans, calls, garbled>>
    /\ UNCHANGED server /\ UNCHANGED outcome

\* The method returns to its handler.
Return(w) ==
    /\ pc[w] = "return"
    /\ acked' = IF /\ call[w].kind = "insert" /\ call[w].table = "history"
                   /\ result[w] = "true"
                THEN acked \cup {key[w]} ELSE acked
    /\ call' = [call EXCEPT ![w] = NoCall]
    /\ txn' = [txn EXCEPT ![w] = "none"]
    /\ Goto(w, "idle")
    /\ UNCHANGED <<status, m_trans, calls, garbled>>
    /\ UNCHANGED server /\ UNCHANGED outcome

\* Two threads are inside PQexec.  The command of one may or may not reach the
\* server, and the thread may see an error (PQexec returns no result, or the
\* result of the other command, which lacks the columns) or take the other
\* command's answer for its own (whose rows are left out).  A COMMIT that fails
\* on an open connection leaves the transaction "aborted": no ROLLBACK is sent.
InCommand(w) == pc[w] \in {"begin", "exec", "commit", "rollback"}

Garble(w) ==
    /\ MayGarble /\ linkUp
    /\ InCommand(w) /\ \E v \in Workers \ {w} : InCommand(v)
    /\ garbled' = TRUE
    /\ \/ UNCHANGED <<committed, working, session, serial>>
       \/ pc[w] = "begin" /\ ServerBegins /\ UNCHANGED serial
       \/ pc[w] = "exec" /\ ServerExecutes(call[w])
       \/ pc[w] = "commit" /\ ServerCommits /\ UNCHANGED serial
       \/ pc[w] = "rollback" /\ ServerRollsBack /\ UNCHANGED serial
    /\ \/ /\ Throw(w)
          /\ Goto(w, IF pc[w] = "rollback" THEN "return" ELSE "unregister")
          /\ txn' = IF pc[w] = "commit" THEN [txn EXCEPT ![w] = "aborted"] ELSE txn
       \/ /\ IF pc[w] = "commit" \/ (pc[w] = "exec" /\ IsRead(call[w]))
             THEN Decide(w, "true") ELSE UNCHANGED result
          /\ Goto(w, CASE pc[w] = "begin" -> "exec"
                       [] pc[w] = "exec" -> AfterExec(call[w])
                       [] pc[w] = "commit" -> "unregister"
                       [] pc[w] = "rollback" -> "return")
          /\ txn' = CASE pc[w] = "begin" -> [txn EXCEPT ![w] = "active"]
                      [] pc[w] = "commit" -> [txn EXCEPT ![w] = "committed"]
                      [] OTHER -> txn
    /\ UNCHANGED <<linkUp, status, m_trans, call, rows, key, calls, acked>>

\* The server or the network ends the session; its transaction is lost.
LoseLink ==
    /\ LinkMayFail /\ linkUp
    /\ linkUp' = FALSE
    /\ ServerRollsBack
    /\ UNCHANGED <<serial, status, m_trans, pc, call, txn, calls, acked, garbled>>
    /\ UNCHANGED outcome

\* The steps of a method once it is called.
Step(w) ==
    \/ CheckUnique(w)
    \/ Register(w)
    \/ Begin(w)
    \/ ExecuteOk(w)
    \/ ExecuteError(w)
    \/ CommitOk(w)
    \/ CommitError(w)
    \/ CommitAnswerLost(w)
    \/ Unregister(w)
    \/ Rollback(w)
    \/ Return(w)
    \/ Garble(w)

Next ==
    \/ \E w \in Workers : (\E s \in Statements : Call(w, s)) \/ Step(w)
    \/ LoseLink

Spec == Init /\ [][Next]_vars

\* A running thread keeps running: no step of a method waits for another.
Fairness == \A w \in Workers : WF_vars(Step(w))

(***************************************************************************)
(* Properties.                                                             *)
(***************************************************************************)
Steps == {"idle", "check", "set", "begin", "exec", "commit", "unregister",
          "rollback", "return"}

\* Every variable but the contents of the tables has its type, and a thread
\* inside a method has a statement.
TypeOK ==
    /\ session \in {"none", "open", "failed"}
    /\ serial \in [TableNames -> Nat]
    /\ linkUp \in BOOLEAN
    /\ status \in {"ok", "bad"}
    /\ m_trans \in Workers \cup {NoWorker}
    /\ pc \in [Workers -> Steps]
    /\ call \in [Workers -> Statements \cup {NoCall}]
    /\ txn \in [Workers -> {"none", "active", "committed", "aborted", "in_doubt"}]
    /\ result \in [Workers -> {"none", "true", "false"}]
    /\ rows = [w \in Workers |-> rows[w]]
    /\ key \in [Workers -> Nat]
    /\ calls \in 0 .. MaxCalls
    /\ acked \subseteq Nat
    /\ garbled \in BOOLEAN
    /\ \A w \in Workers : pc[w] = "idle" <=> call[w] = NoCall

\* A service record that addServiceRecord reported as inserted (returned true)
\* is in the committed table, until somebody asks for its deletion.
AckedRecordsDurable == acked \subseteq DOMAIN committed["history"]

\* testConnection and the reads fail only if the connection is lost: while
\* the server answers, "disconnected" and an empty list are never made up.
FailureMeansOutage ==
    \A w \in Workers :
        pc[w] = "return" /\ IsRead(call[w]) /\ result[w] = "false" => ~linkUp

\* However the calls overlap and whichever step of them fails, the connection
\* is fit for the next call once all have returned: no transaction is left
\* registered, even if commands were mixed up, and none is left open on the
\* server, unless they were.
QuietMeansClean ==
    (\A w \in Workers : pc[w] = "idle") =>
        m_trans = NoWorker /\ (session = "none" \/ garbled)

\* The detailed page (getDetailedServiceHistory) and the plain list
\* (getAllServiceRecords) agree: the inner join drops no committed record.
JoinComplete == DOMAIN Joined(committed) = DOMAIN committed["history"]

\* Every method returns, whatever the other threads and the server do, as long
\* as no PQexec hangs.
EveryCallReturns == \A w \in Workers : pc[w] # "idle" ~> pc[w] = "idle"

\* With one thread on the connection every method is atomic (AtomicStore).
Store == INSTANCE AtomicStore WITH db <- committed
Atomic == Store!Spec

(***************************************************************************)
(* The inductive invariant behind QuietMeansClean.                         *)
(***************************************************************************)
\* A registered transaction has a thread that will unregister it, and an open
\* or failed transaction on the server has a thread that will end it, unless
\* commands were mixed up.
CleanInv ==
    /\ TypeOK
    /\ \A w \in Workers : m_trans = w => pc[w] \in {"begin", "exec", "commit", "unregister"}
    /\ session # "none" =>
          /\ linkUp
          /\ \/ garbled
             \/ \E w \in Workers :
                   /\ txn[w] = "active"
                   /\ pc[w] \in {"exec", "commit", "unregister", "rollback"}

(***************************************************************************)
(* The inductive invariant behind Atomic and AckedRecordsDurable, for one  *)
(* thread.                                                                 *)
(***************************************************************************)
\* Keys come from the sequences.
Keyed(d) ==
    /\ d = [t \in TableNames |-> d[t]]
    /\ \A t \in TableNames : DOMAIN d[t] \subseteq 1 .. serial[t]

\* The transaction on the server is the thread's own: it starts from the
\* committed contents and holds the effect of the thread's one statement.
SoloTxn(w) ==
    /\ pc[w] \in {"idle", "check", "set", "begin", "return"} => session = "none"
    /\ pc[w] \in {"exec", "commit"} => txn[w] = "active"
    /\ pc[w] = "exec" /\ linkUp => session = "open" /\ working = committed
    /\ pc[w] = "commit" /\ linkUp =>
          /\ session = "open"
          /\ Accepts(committed, call[w])
          /\ working = Effect(committed, call[w], key[w])
          /\ call[w].kind = "insert" =>
                /\ key[w] \in Keys \cap (1 .. serial[call[w].table])
                /\ key[w] \notin DOMAIN committed[call[w].table]
    /\ pc[w] = "unregister" /\ txn[w] # "active" => session = "none"

\* The outcome is decided by the commit, or by the statement of a read.
SoloOutcome(w) ==
    /\ pc[w] \in {"check", "set", "begin", "exec"} => result[w] = "none"
    /\ pc[w] = "commit" => result[w] = IF IsRead(call[w]) THEN "true" ELSE "none"
    /\ pc[w] \in {"unregister", "rollback", "return"} => result[w] # "none"
    /\ result[w] = "none" => rows[w] = NoRows
    /\ \A t \in TableNames :
          pc[w] \in {"check", "set", "begin", "exec"} => serial[t] <= calls
    /\ pc[w] # "idle" /\ call[w].kind = "delete" /\ call[w].table = "history" =>
          call[w].id \notin acked
    /\ pc[w] # "idle" /\ call[w].kind = "insert" /\ result[w] = "true" =>
          key[w] \in DOMAIN committed[call[w].table]

\* The conjunction is inductive when one thread uses the connection.
SoloInv ==
    /\ TypeOK
    /\ Keyed(committed)
    /\ \A t \in TableNames : serial[t] <= calls + 1
    /\ status = "bad" => ~linkUp
    /\ ~linkUp => session = "none"
    /\ AckedRecordsDurable
    /\ \A w \in Workers : SoloTxn(w) /\ SoloOutcome(w)

=============================================================================
