------------------------------ MODULE PqxxSession ------------------------------
(***************************************************************************)
(* libpqxx: one thread uses a connection, the transaction objects on it, a *)
(* subtransaction and a stream.  Only one transaction may be registered    *)
(* with the connection and one focus (a command or a stream) with a        *)
(* transaction; errors of destructors are kept as pending errors; the      *)
(* connection may be lost at any time.                                     *)
(***************************************************************************)
EXTENDS Naturals, FiniteSets

CONSTANTS
    MaxTops,        \* bound: transaction objects
    Sub,            \* a subtransaction object
    None,
    MaxWork,        \* bound: what statements and rows write
    Kinds,          \* the classes of transaction in use
    MaxAttempts,    \* bound: attempts of a robusttransaction in doubt (500 in the code)
    Careful         \* the client heeds the documentation: see Heeds

VARIABLES
    db,         \* the server and libpq's connection to it
    trans,      \* connection::m_trans
    tx,         \* the transaction objects
    stream,     \* a stream_from or stream_to object
    asking      \* a robusttransaction in doubt, and its attempts

vars == <<db, trans, tx, stream, asking>>

Tops == 1 .. MaxTops
Work == 1 .. MaxWork
Tx == Tops \cup {Sub}
AllKinds == {"transaction", "robusttransaction", "nontransaction"}

ASSUME ConstantsAssumption ==
    /\ MaxTops \in Nat /\ MaxWork \in Nat
    /\ Sub \notin Nat /\ None \notin Nat \cup {Sub}
    /\ \A ws \in SUBSET Work : ws # None
    /\ Kinds \subseteq AllKinds
    /\ MaxAttempts \in Nat \ {0} /\ Careful \in BOOLEAN

(***************************************************************************)
(* The server (external).  open is libpq's status of the connection, up    *)
(* whether there is one; state, work and saved belong to the server's      *)
(* transaction and its savepoint; fate is what became of a transaction     *)
(* whose connection was lost while it committed.                           *)
(***************************************************************************)
NoStream == [kind |-> "none", on |-> None, finished |-> TRUE, rows |-> {}]
FreshDb == [open |-> TRUE, up |-> TRUE, state |-> "idle", work |-> {}, saved |-> None,
            copy |-> "none", copied |-> {}, durable |-> {}, fate |-> "none"]

Outcome(d, r) == [db |-> d, r |-> r]
Idle(d) == [d EXCEPT !.state = "idle", !.work = {}, !.saved = None]
Failed(d) == IF d.state = "idle" THEN d ELSE [d EXCEPT !.state = "failed"]
Written(d, ws) == IF d.state = "idle" THEN [d EXCEPT !.durable = @ \cup ws]
                  ELSE [d EXCEPT !.work = @ \cup ws]
Lost(d) == [Idle(d) EXCEPT !.open = FALSE, !.up = FALSE, !.copy = "none", !.copied = {}]

\* A statement that succeeds with a change of the server, or fails.
Statement(d, good) ==
    IF d.state = "failed" THEN {Outcome(d, "sql_error")}
    ELSE {Outcome(good, "ok"), Outcome(Failed(d), "sql_error")}

\* The commit of a transaction that has failed is a rollback, and no error.
ServerCommit(d) ==
    LET done == Idle([d EXCEPT !.durable = @ \cup d.work])
    IN  IF d.state = "block"
        THEN {Outcome(done, "ok"), Outcome(done, "unknown"), Outcome(Idle(d), "sql_error"),
              Outcome(Idle(d), "unknown")}
        ELSE {Outcome(Idle(d), "ok")}

Server(d, op, ws) ==
    CASE op = "begin" ->
            {IF d.state = "failed" THEN Outcome(d, "sql_error")
             ELSE Outcome([d EXCEPT !.state = "block"], "ok")}
      [] op = "query" -> Statement(d, d)
      [] op = "write" -> Statement(d, Written(d, ws))
      [] op = "constraints" -> Statement(d, d)
      [] op = "commit" -> ServerCommit(d)
      [] op = "rollback" -> {Outcome(Idle(d), "ok")}
      [] op = "savepoint" ->
            {IF d.state = "block" THEN Outcome([d EXCEPT !.saved = d.work], "ok")
             ELSE Outcome(Failed(d), "sql_error")}
      [] op = "release" ->
            {IF d.state = "block" /\ d.saved # None THEN Outcome([d EXCEPT !.saved = None], "ok")
             ELSE Outcome(Failed(d), "sql_error")}
      [] op = "rollback_to" ->
            {IF d.state # "idle" /\ d.saved # None
             THEN Outcome([d EXCEPT !.state = "block", !.work = d.saved], "ok")
             ELSE Outcome(Failed(d), "sql_error")}
      [] op = "copy_in" -> Statement(d, [d EXCEPT !.copy = "in"])
      [] OTHER -> Statement(d, [d EXCEPT !.copy = "out"])        \* copy_out

\* PQexec ends a COPY that is going on: one from the client fails.
EndCopying(d) ==
    LET c == [d EXCEPT !.copy = "none", !.copied = {}]
    IN  IF d.copy = "in" THEN Failed(c) ELSE c

\* The connection may be lost before or after the server did what it was asked; if that
\* was a commit, the server may still be at it.
Losses(d, op, ws) ==
    {Outcome(Lost(d), "broken")} \cup {Outcome(Lost(o.db), "broken") : o \in Server(d, op, ws)}
CommitLosses(d) ==
    {Outcome([Lost(d) EXCEPT !.fate = "aborted"], "broken"),
     Outcome([Lost([d EXCEPT !.durable = @ \cup d.work]) EXCEPT !.fate = "committed"], "broken"),
     Outcome([Lost(d) EXCEPT !.fate = "running", !.work = d.work], "broken")}

\* connection::exec, make_result and get_notifs, which notices a lost connection too.
Execute(d, op, ws) ==
    LET e == EndCopying(d)
    IN  CASE ~d.up -> {Outcome([d EXCEPT !.open = FALSE], "broken")}
          [] d.up /\ op = "commit" /\ e.state = "block" -> Server(e, op, ws) \cup CommitLosses(e)
          [] OTHER -> Server(e, op, ws) \cup Losses(e, op, ws)

(***************************************************************************)
(* Transaction objects.  acked are the writes that calls reported done,    *)
(* wrote all that were tried; upset says that a call threw, doubted that   *)
(* the connection was lost while it committed, unsure that commit() threw  *)
(* something which does not tell the outcome, and left that the object was *)
(* closed and the server was never told to roll back.                      *)
(***************************************************************************)
NoTx == [kind |-> "transaction", alive |-> FALSE, status |-> "none", registered |-> FALSE,
         pending |-> FALSE, focus |-> FALSE, parent |-> None, acked |-> {}, wrote |-> {},
         upset |-> FALSE, doubted |-> FALSE, unsure |-> FALSE, left |-> FALSE]
Begun(kind, parent) ==
    [NoTx EXCEPT !.kind = kind, !.alive = TRUE, !.status = "active", !.parent = parent,
                 !.registered = kind \in {"transaction", "nontransaction"}]

Init ==
    /\ db = FreshDb /\ trans = None /\ tx = [x \in Tx |-> NoTx]
    /\ stream = NoStream /\ asking = [by |-> None, attempts |-> 0]

\* Writes are different, and numbered in their order.
Unused(w) ==
    LET tried == UNION {tx[x].wrote : x \in Tx}
    IN  w \notin tried /\ \A v \in 1 .. w - 1 : v \in tried
Waits(x) == tx[Sub].alive /\ tx[Sub].parent = x
StreamOn(x) == stream.on = x

\* The rules of the documentation: after an exception a transaction is given up, one
\* that is closed is left alone, nothing is done on one that has a subtransaction, and
\* only one is in use at a time.
Heeds(x) == Careful => tx[x].status = "active" /\ ~tx[x].upset /\ ~Waits(x)
HeedsOthers ==
    Careful => \A x \in Tops : tx[x].alive /\ tx[x].status = "active" => tx[x].registered

Call(x) == asking.by = None /\ tx[x].alive
Throws(x) == tx' = [tx EXCEPT ![x].upset = TRUE]

\* check_pending_error: the error is reported once.
ReportsPending(x) ==
    /\ tx[x].pending
    /\ tx' = [tx EXCEPT ![x].pending = FALSE, ![x].upset = TRUE]
    /\ UNCHANGED <<db, trans, stream, asking>>

(***************************************************************************)
(* Construction.                                                           *)
(***************************************************************************)
\* basic_transaction and nontransaction: registered first; if BEGIN throws, the base
\* destructor takes that back.
OpenRegistered(x, kind) ==
    \/ /\ trans # None                      \* check_unique_register
       /\ UNCHANGED <<db, trans, tx>>
    \/ /\ trans = None /\ kind = "nontransaction"
       /\ trans' = x /\ tx' = [tx EXCEPT ![x] = Begun(kind, None)]
       /\ UNCHANGED db
    \/ /\ trans = None /\ kind = "transaction"
       /\ \E o \in Execute(db, "begin", {}) :
             /\ db' = o.db
             /\ IF o.r = "ok" THEN trans' = x /\ tx' = [tx EXCEPT ![x] = Begun(kind, None)]
                ELSE UNCHANGED <<trans, tx>>

\* basic_robusttransaction: not registered; asks for its own id.  If that throws, there is
\* no object to roll back what BEGIN has begun.
Unmade == [NoTx EXCEPT !.kind = "robusttransaction", !.status = "aborted", !.left = TRUE]
OpenRobust(x) ==
    \E o \in Execute(db, "begin", {}) :
        /\ \/ o.r # "ok" /\ db' = o.db /\ UNCHANGED tx
           \/ /\ o.r = "ok"
              /\ \E p \in Execute(o.db, "query", {}) :
                    /\ db' = p.db
                    /\ tx' = [tx EXCEPT ![x] = IF p.r = "ok" THEN Begun("robusttransaction", None)
                                              ELSE Unmade]
        /\ UNCHANGED trans

Open(x, kind) ==
    /\ asking.by = None /\ ~tx[x].alive /\ HeedsOthers
    /\ Careful /\ kind = "robusttransaction" => trans = None
    /\ tx[x].status = "none"                \* bound: an object is made once, in order
    /\ \A y \in 1 .. x - 1 : tx[y].status # "none"
    /\ IF kind = "robusttransaction" THEN OpenRobust(x) ELSE OpenRegistered(x, kind)
    /\ UNCHANGED <<stream, asking>>

\* subtransaction: a focus of its parent by type, but not registered with it.
OpenSub(p) ==
    /\ Call(p) /\ Heeds(p) /\ ~tx[Sub].alive /\ tx[p].kind # "nontransaction"
    /\ tx[Sub].status = "none"
    /\ Careful => ~StreamOn(p)
    /\ \E o \in Execute(db, "savepoint", {}) :
          /\ db' = o.db
          /\ tx' = IF o.r = "ok" THEN [tx EXCEPT ![Sub] = Begun("subtransaction", p)]
                   ELSE [tx EXCEPT ![p].upset = TRUE]
    /\ UNCHANGED <<trans, stream, asking>>

(***************************************************************************)
(* Statements.                                                             *)
(***************************************************************************)
\* What is left of exec and exec_params after their checks.
Runs(x, w) ==
    \E o \in Execute(db, "write", {w}) :
        /\ db' = o.db
        /\ tx' = [tx EXCEPT ![x].wrote = @ \cup {w},
                            ![x].acked = IF o.r = "ok" THEN @ \cup {w} ELSE @,
                            ![x].upset = @ \/ o.r # "ok"]
        /\ UNCHANGED <<trans, stream, asking>>

\* exec: a pending error, another focus and a closed transaction are errors.
Exec(x, w) ==
    /\ Call(x) /\ Heeds(x) /\ Unused(w)
    /\ \/ ReportsPending(x)
       \/ /\ ~tx[x].pending /\ (tx[x].focus \/ tx[x].status # "active")
          /\ Throws(x)
          /\ UNCHANGED <<db, trans, stream, asking>>
       \/ ~tx[x].pending /\ ~tx[x].focus /\ tx[x].status = "active" /\ Runs(x, w)

\* exec_params, exec_prepared: only another focus is an error.
ExecParams(x, w) ==
    /\ Call(x) /\ Heeds(x) /\ Unused(w)
    /\ IF tx[x].focus THEN Throws(x) /\ UNCHANGED <<db, trans, stream, asking>> ELSE Runs(x, w)

(***************************************************************************)
(* commit.                                                                 *)
(***************************************************************************)
\* close after commit() or abort(): a pending error becomes a notice.
Closed(t, status) == [t EXCEPT !.status = status, !.registered = FALSE, !.pending = FALSE]
Unregistered(x) == IF tx[x].registered THEN None ELSE trans

\* do_commit has returned, or has thrown and left the transaction registered.
Committed(x) ==
    /\ trans' = Unregistered(x)
    /\ tx' = [y \in Tx |->
                 IF y = x THEN Closed(tx[x], "committed")
                 ELSE IF y = tx[x].parent
                 THEN [tx[y] EXCEPT !.acked = @ \cup tx[x].acked, !.wrote = @ \cup tx[x].wrote]
                 ELSE tx[y]]
CommitThrows(x, status, unsure) ==
    /\ tx' = [tx EXCEPT ![x].status = status, ![x].upset = TRUE, ![x].unsure = unsure]
    /\ UNCHANGED trans

\* basic_transaction::do_commit.
CommitBasic(x) ==
    \E o \in Execute(db, "commit", {}) :
        /\ db' = o.db
        /\ CASE o.r = "ok" -> Committed(x)
             [] o.r = "unknown" \/ ~o.db.open -> CommitThrows(x, "in_doubt", FALSE)
             [] OTHER -> CommitThrows(x, "aborted", FALSE)
        /\ UNCHANGED asking
CommitSub(x) ==
    \E o \in Execute(db, "release", {}) :
        /\ db' = o.db
        /\ IF o.r = "ok" THEN Committed(x) ELSE CommitThrows(x, "aborted", FALSE)
        /\ UNCHANGED asking
\* basic_robusttransaction::do_commit: the constraints first, to keep the time short in
\* which a lost connection leaves a doubt.  On an open connection any error of the COMMIT
\* is taken for a failed one, one that leaves its outcome unknown too.
CommitRobust(x) ==
    \E c \in Execute(db, "constraints", {}) :
        IF c.r # "ok"
        THEN /\ \E a \in Execute(c.db, "rollback", {}) : db' = a.db
             /\ CommitThrows(x, "aborted", FALSE) /\ UNCHANGED asking
        ELSE \E o \in Execute(c.db, "commit", {}) :
                \/ o.r = "ok" /\ db' = o.db /\ Committed(x) /\ UNCHANGED asking
                \/ /\ o.r # "ok" /\ ~o.db.open
                   /\ db' = o.db /\ asking' = [by |-> x, attempts |-> 0]
                   /\ tx' = [tx EXCEPT ![x].doubted = TRUE] /\ UNCHANGED trans
                \/ /\ o.r # "ok" /\ o.db.open
                   /\ \E a \in Execute(o.db, "rollback", {}) : db' = a.db
                   /\ CommitThrows(x, "aborted", o.r = "unknown") /\ UNCHANGED asking

\* The outcome of one query_status: nothing if the server cannot be reached, an exception
\* of another kind if the query fails, or gives no row or no status that is known.
Answers == {"unknown", "error", db.fate}
\* Mutant: the case of a committed one falls through to the next.
MutantVerdict(answer) ==
    CASE answer = "unknown" -> "committed"
      [] answer \in {"committed", "aborted"} -> "aborted"
      [] answer = "error" -> "throws"
      [] OTHER -> "ask again"
\* Where the loop of do_commit goes: an unknown status returns, as a committed one does;
\* an aborted one rolls back, which throws as the connection is lost.  Only a broken
\* connection is caught: any other exception leaves commit(), which then takes the
\* transaction for aborted.
Verdict(answer) ==
    CASE answer \in {"unknown", "committed"} -> "committed"
      [] answer = "aborted" -> "aborted"
      [] answer = "error" -> "throws"
      [] OTHER -> "ask again"               \* running
Ask ==
    /\ asking.by # None
    /\ \E answer \in Answers :
          LET x == asking.by
              again == asking.attempts + 1 < MaxAttempts
          IN  CASE Verdict(answer) = "committed" ->
                      Committed(x) /\ asking' = [by |-> None, attempts |-> 0]
                [] Verdict(answer) \in {"aborted", "throws"} ->
                      /\ CommitThrows(x, "aborted", Verdict(answer) = "throws")
                      /\ asking' = [by |-> None, attempts |-> 0]
                [] Verdict(answer) = "ask again" /\ again ->
                      asking' = [asking EXCEPT !.attempts = @ + 1] /\ UNCHANGED <<trans, tx>>
                [] OTHER ->
                      CommitThrows(x, "in_doubt", FALSE) /\ asking' = [by |-> None, attempts |-> 0]
    /\ UNCHANGED <<db, stream>>

DoCommit(x) ==
    CASE tx[x].kind = "transaction" -> CommitBasic(x)
      [] tx[x].kind = "subtransaction" -> CommitSub(x)
      [] tx[x].kind = "robusttransaction" -> CommitRobust(x)
      [] OTHER -> Committed(x) /\ UNCHANGED <<db, asking>>      \* nontransaction

\* transaction_base::commit may go on to do_commit.
MayCommit(x) == ~tx[x].focus /\ db.open
Commit(x) ==
    /\ Call(x) /\ Heeds(x)
    /\ \/ ReportsPending(x)
       \/ /\ ~tx[x].pending /\ tx[x].status = "active" /\ MayCommit(x)
          /\ DoCommit(x)
          /\ UNCHANGED stream
       \/ /\ ~tx[x].pending
          /\ tx[x].status \in {"aborted", "in_doubt"} \/ (tx[x].status = "active" /\ ~MayCommit(x))
          /\ Throws(x)
          /\ UNCHANGED <<db, trans, stream, asking>>

(***************************************************************************)
(* abort and destruction.                                                  *)
(***************************************************************************)
\* do_abort: what the server makes of it is not looked at.
Rollbacks(x) ==
    CASE tx[x].kind = "nontransaction" -> {db}
      [] tx[x].kind = "subtransaction" -> {o.db : o \in Execute(db, "rollback_to", {})}
      [] OTHER -> {o.db : o \in Execute(db, "rollback", {})}

\* abort(): direct_exec throws a pending error before it sends the command, and abort()
\* only gives notice of that; the destructor does not try again.
Unsent(x) == tx[x].pending /\ tx[x].kind # "nontransaction"
Abort(x) ==
    /\ Call(x) /\ tx[x].status = "active" /\ (Careful => ~Waits(x))
    /\ IF tx[x].pending THEN UNCHANGED db ELSE db' \in Rollbacks(x)
    /\ trans' = Unregistered(x)
    /\ tx' = [tx EXCEPT ![x] = [Closed(tx[x], "aborted") EXCEPT !.left = tx[x].left \/ Unsent(x)]]
    /\ UNCHANGED <<stream, asking>>

\* Mutant: a transaction that was not closed is only unregistered.
MutantRollsBack(x) == FALSE
RollsBack(x) == tx[x].status = "active"
\* The destructor: close() forgets a pending error and aborts what is still active.
Destroy(x) ==
    /\ Call(x) /\ ~Waits(x) /\ ~StreamOn(x)
    /\ IF RollsBack(x) THEN db' \in Rollbacks(x) ELSE UNCHANGED db
    /\ trans' = Unregistered(x)
    /\ tx' = [tx EXCEPT ![x] = [Closed(@, IF tx[x].status = "active" THEN "aborted" ELSE tx[x].status)
                                EXCEPT !.alive = FALSE]]
    /\ UNCHANGED <<stream, asking>>

(***************************************************************************)
(* Streams.                                                                *)
(***************************************************************************)
\* stream_to, stream_from: the COPY is a command of its own, then the stream is the focus.
OpenStream(x, kind) ==
    /\ Call(x) /\ Heeds(x) /\ stream.on = None
    /\ tx[x].status = "active" /\ ~tx[x].pending /\ ~tx[x].focus
    /\ \E o \in Execute(db, IF kind = "to" THEN "copy_in" ELSE "copy_out", {}) :
          /\ db' = o.db
          /\ IF o.r = "ok"
             THEN /\ stream' = [NoStream EXCEPT !.kind = kind, !.on = x, !.finished = FALSE]
                  /\ tx' = [tx EXCEPT ![x].focus = TRUE]
             ELSE Throws(x) /\ UNCHANGED stream
    /\ UNCHANGED <<trans, asking>>

StreamCall(kind) == asking.by = None /\ stream.kind = kind

\* write_copy_line: the row is sent, or put in a buffer for a connection that is gone.
WriteRow(w) ==
    /\ StreamCall("to") /\ ~stream.finished /\ Unused(w)
    /\ Careful => ~tx[stream.on].upset
    /\ \/ /\ db.copy = "in" \/ ~db.up
          /\ db' = IF db.up THEN [db EXCEPT !.copied = @ \cup {w}] ELSE db
          /\ stream' = [stream EXCEPT !.rows = @ \cup {w}]
          /\ tx' = [tx EXCEPT ![stream.on].wrote = @ \cup {w}]
       \/ /\ db.copy # "in" \/ ~db.up
          /\ db' = IF db.up THEN db ELSE [db EXCEPT !.open = FALSE]
          /\ tx' = [tx EXCEPT ![stream.on].wrote = @ \cup {w}, ![stream.on].upset = TRUE]
          /\ UNCHANGED stream
    /\ UNCHANGED <<trans, asking>>

\* end_copy_write.
EndCopyWrite ==
    LET done == [Written(db, db.copied) EXCEPT !.copy = "none", !.copied = {}]
        off == [db EXCEPT !.copy = "none", !.copied = {}]
    IN  CASE ~db.up -> {Outcome([db EXCEPT !.open = FALSE], "broken")}
          [] db.up /\ db.copy # "in" -> {Outcome(db, "failure")}
          [] OTHER -> {Outcome(done, "ok"), Outcome(Failed(off), "sql_error"), Outcome(Lost(db), "broken")}

\* stream_to::complete.
CompleteTo ==
    /\ StreamCall("to") /\ ~stream.finished
    /\ \E o \in EndCopyWrite :
          /\ db' = o.db
          /\ tx' = [tx EXCEPT ![stream.on].focus = FALSE,
                              ![stream.on].acked = IF o.r = "ok" THEN @ \cup stream.rows ELSE @,
                              ![stream.on].upset = @ \/ o.r # "ok"]
    /\ stream' = [stream EXCEPT !.finished = TRUE]
    /\ UNCHANGED <<trans, asking>>

\* Mutant: the destructor drops the error.
MutantAfterDestructor(t, r) == t
\* reg_pending_error: the first one is kept.
AfterDestructor(t, r) == [t EXCEPT !.pending = @ \/ r # "ok"]
\* The destructor of a stream_to completes it, and cannot throw: the client takes its rows
\* for written.
DestroyTo ==
    /\ StreamCall("to")
    /\ IF stream.finished THEN UNCHANGED <<db, tx>>
       ELSE \E o \in EndCopyWrite :
               /\ db' = o.db
               /\ tx' = [tx EXCEPT ![stream.on] = AfterDestructor(
                            [tx[stream.on] EXCEPT !.focus = FALSE, !.acked = @ \cup stream.rows], o.r)]
    /\ stream' = NoStream
    /\ UNCHANGED <<trans, asking>>

\* get_raw_line: a line, the end or an error; the last two close the stream.
EndOfCopy == [db EXCEPT !.copy = "none"]
ReadEnds ==
    CASE ~db.up -> {Outcome([db EXCEPT !.open = FALSE], "failure")}
      [] db.up /\ db.copy # "out" -> {Outcome(db, "failure")}
      [] OTHER -> {Outcome(EndOfCopy, "ok"), Outcome(Failed(EndOfCopy), "sql_error"),
                   Outcome(Lost(db), "broken")}
ReadRow ==
    /\ StreamCall("from") /\ ~stream.finished
    /\ \E o \in ReadEnds :
          /\ db' = o.db
          /\ tx' = [tx EXCEPT ![stream.on].focus = FALSE, ![stream.on].upset = @ \/ o.r # "ok"]
    /\ stream' = [stream EXCEPT !.finished = TRUE]
    /\ UNCHANGED <<trans, asking>>

\* stream_from::complete reads to the end; only a broken connection is thrown.
CompleteFrom ==
    /\ StreamCall("from") /\ ~stream.finished
    /\ \E o \in ReadEnds :
          /\ db' = o.db
          /\ tx' = [tx EXCEPT ![stream.on].focus = FALSE,
                              ![stream.on].pending = @ \/ o.r \notin {"ok", "broken"},
                              ![stream.on].upset = @ \/ o.r = "broken"]
    /\ stream' = [stream EXCEPT !.finished = TRUE]
    /\ UNCHANGED <<trans, asking>>

\* The destructor of a stream_from leaves the rest of the COPY to the next command.
DestroyFrom ==
    /\ StreamCall("from")
    /\ tx' = [tx EXCEPT ![stream.on].focus = FALSE]
    /\ stream' = NoStream
    /\ UNCHANGED <<db, trans, asking>>

(***************************************************************************)
(* The network and the server.                                             *)
(***************************************************************************)
\* The connection is lost, which nobody notices yet.
Lose ==
    /\ db.up
    /\ db' = [Lost(db) EXCEPT !.open = TRUE]
    /\ UNCHANGED <<trans, tx, stream, asking>>

\* The server finishes a commit whose client is gone.
Settle ==
    /\ db.fate = "running"
    /\ \/ db' = [Idle([db EXCEPT !.durable = @ \cup db.work]) EXCEPT !.fate = "committed"]
       \/ db' = [Idle(db) EXCEPT !.fate = "aborted"]
    /\ UNCHANGED <<trans, tx, stream, asking>>

Next ==
    \/ \E x \in Tops, kind \in Kinds : Open(x, kind)
    \/ \E x \in Tops : OpenSub(x)
    \/ \E x \in Tx, w \in Work : Exec(x, w) \/ ExecParams(x, w)
    \/ \E x \in Tx : Commit(x) \/ Abort(x) \/ Destroy(x)
    \/ \E x \in Tx, kind \in {"to", "from"} : OpenStream(x, kind)
    \/ \E w \in Work : WriteRow(w)
    \/ CompleteTo \/ DestroyTo \/ ReadRow \/ CompleteFrom \/ DestroyFrom
    \/ Ask \/ Lose \/ Settle

Spec == Init /\ [][Next]_vars

(***************************************************************************)
(* Properties.                                                             *)
(***************************************************************************)

Durable(x) == tx[x].acked \subseteq db.durable
\* Its subtransaction was aborted and the server not told.
Marred(x) == tx[Sub].left /\ tx[Sub].parent = x

\* When commit() has returned, all that calls on the transaction, its subtransaction and
\* its streams reported as done is in the database: also if a stream failed in its
\* destructor, a connection was lost unnoticed or a subtransaction failed
\* (transaction_base.cxx:97, commit; stream_to.cxx:40, the destructor's pending error).
\* The exception is a subtransaction that was aborted with a pending error: the server is
\* not told (transaction_base.cxx:438, direct_exec), and the COMMIT of its failed block is a
\* rollback that commit() takes for success.  CommitCertain is about robusttransactions.
CommitKeepsAll ==
    \A x \in Tops :
        tx[x].status = "committed" /\ tx[x].kind # "robusttransaction" /\ ~Marred(x) => Durable(x)

\* "What robusttransaction tries to achieve is to give you certainty": when its commit()
\* has returned, the transaction is in the database (robusttransaction.cxx:125, do_commit).
CommitCertain == \A x \in Tops : tx[x].status = "committed" => Durable(x)

\* Nothing of a transaction that was aborted, by a call, by its destructor or by a commit()
\* that threw, is in the database (transaction_base.cxx:166, abort; robusttransaction.cxx:191,
\* which takes the answer of the server).  The exception is a commit() that threw without
\* the outcome and without in_doubt_error: its COMMIT was answered by an error on an open
\* connection, or its question by another error than a broken connection
\* (robusttransaction.cxx:161, :186).
AbortLeavesNothing ==
    \A x \in Tops :
        tx[x].status = "aborted" /\ tx[x].kind # "nontransaction" /\ ~tx[x].unsure
        => tx[x].wrote \cap db.durable = {}

\* When all transaction objects are gone the connection can be used again: no transaction is
\* registered with it, and none is open on the server (transaction_base.cxx:341, close).
\* But if one was aborted with a pending error (transaction_base.cxx:438, direct_exec), or
\* failed in its constructor after BEGIN (robusttransaction.cxx:100), no ROLLBACK was sent:
\* then the server has its failed block for as long as the connection lives.
DestroyedMeansIdle ==
    (\A x \in Tx : ~tx[x].alive) =>
        /\ trans = None
        /\ db.up => db.state = IF \E x \in Tops : tx[x].left THEN "failed" ELSE "idle"

\* Registered objects exist: the connection does not point to a transaction that is gone or
\* closed, nor a transaction to a stream that is (transaction_base.cxx:518, register_me).
PointersLive ==
    /\ trans # None => tx[trans].alive /\ tx[trans].registered
    /\ \A x \in Tx : tx[x].focus => StreamOn(x) /\ ~stream.finished

\* Both: nothing that is gone keeps the connection busy.
ConnectionReusable == DestroyedMeansIdle /\ PointersLive

=============================================================================
