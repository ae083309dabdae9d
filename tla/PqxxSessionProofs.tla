--------------------------- MODULE PqxxSessionProofs ---------------------------
(***************************************************************************)
(* Proofs about PqxxSession, for any number of transaction objects, writes *)
(* and attempts.  Base holds whatever the client does; CarefulInv if it    *)
(* heeds the documentation (Careful).  Every step is first reduced to what *)
(* it does to the object it is about and to the server (the lemmas about   *)
(* Execute), and then to one of a few kinds: a use of an object, a birth,  *)
(* a closing, or a move of the server alone.                               *)
(***************************************************************************)
EXTENDS PqxxSession, TLAPS

(***************************************************************************)
(* Types, and the inductive invariants.                                    *)
(***************************************************************************)
\* What the model's records hold.
States == {"idle", "block", "failed"}
Fates == {"none", "aborted", "committed", "running"}
Statuses == {"none", "active", "committed", "aborted", "in_doubt"}
DbType == [open : BOOLEAN, up : BOOLEAN, state : States, work : SUBSET Work,
           saved : (SUBSET Work) \cup {None}, copy : {"none", "in", "out"},
           copied : SUBSET Work, durable : SUBSET Work, fate : Fates]
TxType == [kind : AllKinds \cup {"subtransaction"}, alive : BOOLEAN, status : Statuses,
           registered : BOOLEAN, pending : BOOLEAN, focus : BOOLEAN,
           parent : Tops \cup {None}, acked : SUBSET Work, wrote : SUBSET Work,
           upset : BOOLEAN, doubted : BOOLEAN, unsure : BOOLEAN, left : BOOLEAN]
StreamType == [kind : {"none", "to", "from"}, on : Tx \cup {None}, finished : BOOLEAN,
               rows : SUBSET Work]

\* With the connection the session ends; only a commit may still be going on.
Sound(d) ==
    /\ d \in DbType
    /\ ~d.up => /\ d.state = "idle" /\ d.copy = "none" /\ d.copied = {} /\ d.saved = None
                /\ d.work = {} \/ d.fate = "running"
    /\ d.fate # "none" => ~d.up

\* The state has its types, and the session is sound.
TypeInv ==
    /\ Sound(db)
    /\ trans \in Tops \cup {None}
    /\ tx \in [Tx -> TxType]
    /\ stream \in StreamType
    /\ asking \in [by : Tops \cup {None}, attempts : Nat]

\* An object that has not been closed; one that the server has a block for; one with an
\* error that its user has seen or that is pending.
Active(x) == tx[x].status = "active"
Blocks(x) == Active(x) /\ tx[x].kind # "nontransaction"
Spoiled(x) == tx[x].pending \/ tx[x].upset

\* A subtransaction has a parent that was made; only a robusttransaction is ever in doubt,
\* and then the connection is gone for good.
KindInv ==
    /\ \A x \in Tops : tx[x].kind \in AllKinds /\ tx[x].parent = None
    /\ tx[Sub].status # "none" => /\ tx[Sub].kind = "subtransaction" /\ tx[Sub].parent \in Tops
                                  /\ tx[tx[Sub].parent].status # "none"
    /\ \A x \in Tx : tx[x].doubted => tx[x].kind = "robusttransaction" /\ ~db.up

\* What is not closed exists; m_trans and m_registered agree.
LifeInv ==
    /\ \A x \in Tx : Active(x) => tx[x].alive
    /\ \A x \in Tx : tx[x].status = "none" => tx[x] = NoTx
    /\ \A x \in Tx : tx[x].registered => trans = x
    /\ trans # None => tx[trans].alive /\ tx[trans].registered

\* A focus is a stream that is not finished, on an object that exists.
StreamInv ==
    /\ stream.kind = "none" <=> stream.on = None
    /\ stream.on = None => stream.finished
    /\ stream.on # None => tx[stream.on].alive
    /\ \A x \in Tx : tx[x].focus <=> stream.on = x /\ ~stream.finished
    /\ \A x \in Tx : tx[x].status = "committed" => ~tx[x].focus

\* do_commit asks for a robusttransaction that is still open.
AskInv ==
    asking.by # None =>
        /\ Active(asking.by) /\ tx[asking.by].doubted /\ ~tx[asking.by].focus
        /\ tx[asking.by].kind = "robusttransaction"

\* What holds of every client.
Base == TypeInv /\ KindInv /\ LifeInv /\ StreamInv /\ AskInv

\* For a client that heeds the documentation: one transaction is in use at a time, a
\* subtransaction has an open parent without a stream, and nothing else goes on while a
\* commit in doubt asks.
SoloInv ==
    /\ \A x, y \in Tops : Active(x) /\ Active(y) => x = y
    /\ tx[Sub].alive => /\ Blocks(tx[Sub].parent) /\ stream.on # tx[Sub].parent /\ asking.by = None
                        /\ ~tx[tx[Sub].parent].pending
    /\ \A x \in Tx : tx[x].doubted /\ Active(x) => asking.by = x

\* The server has a block exactly when an object has one or has left one behind.
ServerInv ==
    /\ db.up /\ db.state # "idle" => \E x \in Tops : Blocks(x) \/ tx[x].left
    /\ \A x \in Tops : Blocks(x) /\ db.up => db.state # "idle"
    /\ db.fate # "none" => \A x \in Tx : Blocks(x) => tx[x].doubted
    /\ db.up /\ Active(Sub) => db.saved # None

\* A pending error is that of a block that has failed.  One that is left behind stays failed:
\* no other is begun on the connection.
LeftInv ==
    /\ \A x \in Tx : Blocks(x) /\ tx[x].pending /\ db.up => db.state = "failed"
    /\ \A x \in Tops : tx[x].left => /\ db.up => db.state = "failed"
                                     /\ \A y \in Tx : ~Blocks(y)

\* A COPY goes on for the stream that is the focus, and has its rows.
CopyInv ==
    /\ db.copy = "in" => stream.kind = "to" /\ ~stream.finished /\ stream.rows \subseteq db.copied
    /\ db.copy # "none" /\ ~stream.finished =>
          /\ Active(stream.on) \/ tx[stream.on].kind = "nontransaction"
          /\ tx[stream.on].kind = "nontransaction" => db.state = "idle"
          /\ db.state # "failed"
    /\ \A x \in Tx : Blocks(x) /\ tx[x].focus /\ db.up =>
          db.copy = IF stream.kind = "to" THEN "in" ELSE "out"

\* The transaction x has failed through its subtransaction.
SubFailed(x) == tx[Sub].parent = x /\ (IF Active(Sub) THEN Spoiled(Sub) ELSE tx[Sub].left)

\* While no error was seen, the server has what calls reported done: in its transaction, in
\* the savepoint for a parent, in the database for a nontransaction. A block fails unseen
\* only by the subtransaction, which may have been closed without a rollback.
KeepInv ==
    /\ \A x \in Tops : Blocks(x) /\ db.up /\ ~Spoiled(x) =>
          /\ db.state = "failed" => SubFailed(x)
          /\ db.state = "block" => tx[x].acked \subseteq db.work
          /\ Active(Sub) /\ tx[Sub].parent = x => tx[x].acked \subseteq db.saved
    /\ Active(Sub) /\ db.up /\ ~Spoiled(Sub) /\ db.state = "block" => tx[Sub].acked \subseteq db.work
    /\ \A x \in Tops : tx[x].kind = "nontransaction" /\ Active(x) /\ ~Spoiled(x) => Durable(x)
    /\ CommitKeepsAll

\* What the server may still make durable.
Held(d) == d.work \cup d.copied \cup (IF d.saved = None THEN {} ELSE d.saved)
Tried == UNION {tx[x].wrote : x \in Tx}
\* All that the server holds was tried; nothing of an open transaction is durable, nothing
\* of an aborted one is durable, or may still become so unless it is in a block that is left
\* behind, nor of one in doubt unless the server committed it.
DropInv ==
    /\ db.durable \cup Held(db) \subseteq Tried
    /\ \A x \in Tx : Blocks(x) /\ ~tx[x].doubted => tx[x].wrote \cap db.durable = {}
    /\ \A x \in Tops : tx[x].status = "aborted" /\ tx[x].kind # "nontransaction" /\ ~tx[x].unsure =>
          /\ tx[x].wrote \cap db.durable = {}
          /\ (tx[x].left /\ db.up) \/ tx[x].wrote \cap Held(db) = {}
    /\ \A x \in Tops : tx[x].doubted =>
          (db.fate \in {"aborted", "running"} => tx[x].wrote \cap db.durable = {})

\* The inductive invariant of a careful client, on top of Base.
CarefulInv == SoloInv /\ ServerInv /\ LeftInv /\ CopyInv /\ KeepInv /\ DropInv

(***************************************************************************)
(* The server and connection::exec.                                        *)
(***************************************************************************)
\* The commands that libpqxx sends.
Ops == {"begin", "query", "write", "constraints", "commit", "rollback", "savepoint",
        "release", "rollback_to", "copy_in", "copy_out"}
\* The state in which a command finds the server, after PQexec has ended a COPY.
Finds(d) == IF d.copy = "in" /\ d.state # "idle" THEN "failed" ELSE d.state
Fails(s) == IF s = "idle" THEN "idle" ELSE "failed"

\* EndCopying: the COPY is over, and one from the client fails the block.
LEMMA CopyEnds ==
  ASSUME NEW d \in DbType
  PROVE  LET c == EndCopying(d)
         IN  /\ c \in DbType /\ c.copy = "none" /\ c.copied = {} /\ c.state = Finds(d)
             /\ c.open = d.open /\ c.up = d.up /\ c.work = d.work /\ c.saved = d.saved
             /\ c.durable = d.durable /\ c.fate = d.fate
  BY DEF EndCopying, Failed, DbType, States, Finds

\* Lost: the session's state is gone, what is durable stays.
LEMMA LostFields ==
  ASSUME NEW d \in DbType
  PROVE  /\ Lost(d) \in DbType /\ Lost(d).copy = "none" /\ Lost(d).copied = {}
         /\ Lost(d).open = FALSE /\ Lost(d).up = FALSE /\ Lost(d).state = "idle"
         /\ Lost(d).work = {} /\ Lost(d).saved = None
         /\ Lost(d).durable = d.durable /\ Lost(d).fate = d.fate
  BY DEF Lost, Idle, DbType, States

\* Idle: no block is open any more.
LEMMA IdleFields ==
  ASSUME NEW d \in DbType
  PROVE  /\ Idle(d) \in DbType /\ Idle(d).copy = d.copy /\ Idle(d).copied = d.copied
         /\ Idle(d).open = d.open /\ Idle(d).up = d.up /\ Idle(d).state = "idle"
         /\ Idle(d).work = {} /\ Idle(d).saved = None
         /\ Idle(d).durable = d.durable /\ Idle(d).fate = d.fate
  BY DEF Idle, DbType, States

\* Failed: an open block has failed.
LEMMA FailedFields ==
  ASSUME NEW d \in DbType
  PROVE  /\ Failed(d) \in DbType /\ Failed(d).copy = d.copy /\ Failed(d).copied = d.copied
         /\ Failed(d).open = d.open /\ Failed(d).up = d.up /\ Failed(d).state = Fails(d.state)
         /\ Failed(d).work = d.work /\ Failed(d).saved = d.saved
         /\ Failed(d).durable = d.durable /\ Failed(d).fate = d.fate
  BY DEF Failed, DbType, States, Fails

\* Written: in the block, or at once without one.
LEMMA WrittenFields ==
  ASSUME NEW d \in DbType, NEW ws \in SUBSET Work
  PROVE  LET e == Written(d, ws)
         IN  /\ e \in DbType /\ e.copy = d.copy /\ e.copied = d.copied
             /\ e.open = d.open /\ e.up = d.up /\ e.state = d.state
             /\ e.saved = d.saved /\ e.fate = d.fate
             /\ e.durable = IF d.state = "idle" THEN d.durable \cup ws ELSE d.durable
             /\ e.work = IF d.state = "idle" THEN d.work ELSE d.work \cup ws
  BY DEF Written, DbType, States

\* What the server leaves alone, whatever it is asked.
Untouched(d, e) ==
    /\ e \in DbType /\ e.open = d.open /\ e.up = d.up /\ e.fate = d.fate /\ e.copied = d.copied

\* A statement did what it should, or failed.
LEMMA Statements ==
  ASSUME NEW d \in DbType, NEW good \in DbType, NEW o \in Statement(d, good)
  PROVE  \/ o.r = "ok" /\ o.db = good /\ d.state # "failed"
         \/ o.r = "sql_error" /\ o.db = Failed(d)
  BY DEF Statement, Outcome, Failed, DbType

\* BEGIN is refused in a failed block only.
LEMMA ServerBegin ==
  ASSUME NEW d \in DbType, NEW ws \in SUBSET Work, NEW o \in Server(d, "begin", ws)
  PROVE  /\ Untouched(d, o.db) /\ o.db.copy = d.copy /\ o.db.durable = d.durable
         /\ o.db.work = d.work /\ o.db.saved = d.saved
         /\ \/ o.r = "ok" /\ d.state # "failed" /\ o.db.state = "block"
            \/ o.r = "sql_error" /\ d.state = "failed" /\ o.db.state = "failed"
  BY DEF Server, Outcome, DbType, States, Untouched

\* A write takes effect or fails the block.
LEMMA ServerWrite ==
  ASSUME NEW d \in DbType, NEW ws \in SUBSET Work, NEW o \in Server(d, "write", ws)
  PROVE  /\ Untouched(d, o.db) /\ o.db.copy = d.copy /\ o.db.saved = d.saved
         /\ \/ /\ o.r = "ok" /\ d.state # "failed" /\ o.db.state = d.state
               /\ o.db.durable = IF d.state = "idle" THEN d.durable \cup ws ELSE d.durable
               /\ o.db.work = IF d.state = "idle" THEN d.work ELSE d.work \cup ws
            \/ /\ o.r = "sql_error" /\ o.db.state = Fails(d.state)
               /\ o.db.durable = d.durable /\ o.db.work = d.work
<1> DEFINE e == Written(d, ws)
<1>1. o \in Statement(d, e)
  BY DEF Server
<1>2. /\ Untouched(d, e) /\ e.copy = d.copy /\ e.state = d.state /\ e.saved = d.saved
      /\ e.durable = IF d.state = "idle" THEN d.durable \cup ws ELSE d.durable
      /\ e.work = IF d.state = "idle" THEN d.work ELSE d.work \cup ws
  BY WrittenFields DEF Untouched
<1> HIDE DEF e
<1>3. e \in DbType
  BY <1>2 DEF Untouched
<1>4. \/ o.r = "ok" /\ o.db = e /\ d.state # "failed"
      \/ o.r = "sql_error" /\ o.db = Failed(d)
  BY <1>1, <1>3, Statements
<1> QED BY <1>2, <1>4, FailedFields DEF Untouched

\* A query and SET CONSTRAINTS change no data.
LEMMA ServerConstraints ==
  ASSUME NEW d \in DbType, NEW ws \in SUBSET Work, NEW op \in {"query", "constraints"},
         NEW o \in Server(d, op, ws)
  PROVE  /\ Untouched(d, o.db) /\ o.db.copy = d.copy /\ o.db.durable = d.durable
         /\ o.db.work = d.work /\ o.db.saved = d.saved
         /\ \/ o.r = "ok" /\ d.state # "failed" /\ o.db.state = d.state
            \/ o.r = "sql_error" /\ o.db.state = Fails(d.state)
<1>1. o \in Statement(d, d)
  BY DEF Server
<1> QED BY <1>1, Statements, FailedFields DEF Untouched

\* COMMIT ends the block; the commit of a failed one reports no error.
LEMMA ServerCommits ==
  ASSUME NEW d \in DbType, NEW ws \in SUBSET Work, NEW o \in Server(d, "commit", ws)
  PROVE  /\ Untouched(d, o.db) /\ o.db.copy = d.copy /\ o.db.work = {} /\ o.db.saved = None
         /\ o.db.state = "idle"
         /\ \/ o.r \in {"ok", "unknown"} /\ d.state = "block" /\ o.db.durable = d.durable \cup d.work
            \/ o.r \in {"sql_error", "unknown"} /\ d.state = "block" /\ o.db.durable = d.durable
            \/ o.r = "ok" /\ d.state # "block" /\ o.db.durable = d.durable
<1>1. o \in ServerCommit(d)
  BY DEF Server
<1> DEFINE e == [d EXCEPT !.durable = @ \cup d.work]
<1>2. /\ e \in DbType /\ e.copy = d.copy /\ e.copied = d.copied /\ e.open = d.open /\ e.up = d.up
      /\ e.fate = d.fate /\ e.durable = d.durable \cup d.work
  BY DEF DbType
<1>3. \/ /\ d.state = "block"
         /\ \/ o = Outcome(Idle(e), "ok") \/ o = Outcome(Idle(e), "unknown")
            \/ o = Outcome(Idle(d), "sql_error") \/ o = Outcome(Idle(d), "unknown")
      \/ d.state # "block" /\ o = Outcome(Idle(d), "ok")
  BY <1>1 DEF ServerCommit
<1> HIDE DEF e
<1> QED BY <1>2, <1>3, IdleFields DEF Outcome, Untouched

\* ROLLBACK ends the block.
LEMMA ServerRollback ==
  ASSUME NEW d \in DbType, NEW ws \in SUBSET Work, NEW o \in Server(d, "rollback", ws)
  PROVE  o = Outcome(Idle(d), "ok")
  BY DEF Server

\* SAVEPOINT keeps what was written, in a block that has not failed.
LEMMA ServerSavepoint ==
  ASSUME NEW d \in DbType, NEW ws \in SUBSET Work, NEW o \in Server(d, "savepoint", ws)
  PROVE  /\ Untouched(d, o.db) /\ o.db.copy = d.copy /\ o.db.durable = d.durable
         /\ o.db.work = d.work
         /\ \/ o.r = "ok" /\ d.state = "block" /\ o.db.state = "block" /\ o.db.saved = d.work
            \/ o.r = "sql_error" /\ d.state # "block" /\ o.db.state = d.state /\ o.db.saved = d.saved
<1>1. CASE d.state = "block"
  BY <1>1 DEF Server, Outcome, DbType, Untouched
<1>2. CASE d.state # "block"
  <2>1. o = Outcome(Failed(d), "sql_error")
    BY <1>2 DEF Server
  <2> QED BY <1>2, <2>1, FailedFields DEF Outcome, Untouched, Fails, DbType, States
<1> QED BY <1>1, <1>2

\* RELEASE keeps the work.
LEMMA ServerRelease ==
  ASSUME NEW d \in DbType, NEW ws \in SUBSET Work, NEW o \in Server(d, "release", ws)
  PROVE  /\ Untouched(d, o.db) /\ o.db.copy = d.copy /\ o.db.durable = d.durable
         /\ o.db.work = d.work
         /\ \/ o.r = "ok" /\ d.state = "block" /\ d.saved # None /\ o.db.state = "block" /\ o.db.saved = None
            \/ /\ o.r = "sql_error" /\ (d.state # "block" \/ d.saved = None)
               /\ o.db.state = Fails(d.state) /\ o.db.saved = d.saved
<1>1. CASE d.state = "block" /\ d.saved # None
  BY <1>1 DEF Server, Outcome, DbType, Untouched
<1>2. CASE ~(d.state = "block" /\ d.saved # None)
  <2>1. o = Outcome(Failed(d), "sql_error")
    BY <1>2 DEF Server
  <2> QED BY <1>2, <2>1, FailedFields DEF Outcome, Untouched
<1> QED BY <1>1, <1>2

\* ROLLBACK TO takes the work of the savepoint.
LEMMA ServerRollbackTo ==
  ASSUME NEW d \in DbType, NEW ws \in SUBSET Work, NEW o \in Server(d, "rollback_to", ws)
  PROVE  /\ Untouched(d, o.db) /\ o.db.copy = d.copy /\ o.db.durable = d.durable
         /\ o.db.saved = d.saved
         /\ \/ /\ o.r = "ok" /\ d.state # "idle" /\ d.saved # None
               /\ o.db.state = "block" /\ o.db.work = d.saved
            \/ /\ o.r = "sql_error" /\ (d.state = "idle" \/ d.saved = None)
               /\ o.db.state = Fails(d.state) /\ o.db.work = d.work
<1>1. CASE d.state # "idle" /\ d.saved # None
  <2>1. o = Outcome([d EXCEPT !.state = "block", !.work = d.saved], "ok")
    BY <1>1 DEF Server
  <2> QED BY <1>1, <2>1 DEF Outcome, DbType, Untouched, States
<1>2. CASE ~(d.state # "idle" /\ d.saved # None)
  <2>1. o = Outcome(Failed(d), "sql_error")
    BY <1>2 DEF Server
  <2> QED BY <1>2, <2>1, FailedFields DEF Outcome, Untouched
<1> QED BY <1>1, <1>2

\* The commands that start a COPY.
CopyOps == {"copy_in", "copy_out"}
\* COPY starts or fails the block.
LEMMA ServerCopy ==
  ASSUME NEW d \in DbType, NEW op \in CopyOps, NEW ws \in SUBSET Work, NEW o \in Server(d, op, ws)
  PROVE  /\ Untouched(d, o.db) /\ o.db.durable = d.durable
         /\ o.db.work = d.work /\ o.db.saved = d.saved
         /\ \/ /\ o.r = "ok" /\ d.state # "failed" /\ o.db.state = d.state
               /\ o.db.copy = IF op = "copy_in" THEN "in" ELSE "out"
            \/ o.r = "sql_error" /\ o.db.state = Fails(d.state) /\ o.db.copy = d.copy
<1> DEFINE e == [d EXCEPT !.copy = IF op = "copy_in" THEN "in" ELSE "out"]
<1>1. o \in Statement(d, e)
  BY DEF Server, CopyOps
<1>2. /\ Untouched(d, e) /\ e.durable = d.durable /\ e.work = d.work /\ e.saved = d.saved
      /\ e.state = d.state /\ e.copy = IF op = "copy_in" THEN "in" ELSE "out"
  BY DEF Untouched, DbType
<1> HIDE DEF e
<1> QED BY <1>1, <1>2, Statements, FailedFields DEF Untouched

\* Every command: what none of them touches.
LEMMA ServerAny ==
  ASSUME NEW d \in DbType, NEW op \in Ops, NEW ws \in SUBSET Work, NEW o \in Server(d, op, ws)
  PROVE  /\ Untouched(d, o.db) /\ o.r \in {"ok", "sql_error", "unknown"}
         /\ d.durable \subseteq o.db.durable
         /\ op \notin CopyOps => o.db.copy = d.copy
         /\ op \notin {"write", "commit"} => o.db.durable = d.durable
         /\ op # "commit" => o.r # "unknown"
<1>1. CASE op = "begin"
  <2>1. o \in Server(d, "begin", ws)
    BY <1>1
  <2> QED BY <1>1, <2>1, ServerBegin
<1>2. CASE op = "query" BY <1>2, ServerConstraints
<1>3. CASE op = "write"
  <2>1. /\ Untouched(d, o.db) /\ o.db.copy = d.copy /\ o.r \in {"ok", "sql_error"}
        /\ o.db.durable = d.durable \/ o.db.durable = d.durable \cup ws
    BY <1>3, ServerWrite
  <2> QED BY <1>3, <2>1
<1>4. CASE op = "constraints" BY <1>4, ServerConstraints
<1>5. CASE op = "commit" BY <1>5, ServerCommits
<1>6. CASE op = "rollback" BY <1>6, ServerRollback, IdleFields DEF Outcome, Untouched
<1>7. CASE op = "savepoint" BY <1>7, ServerSavepoint
<1>8. CASE op = "release" BY <1>8, ServerRelease
<1>9. CASE op = "rollback_to" BY <1>9, ServerRollbackTo
<1>10. CASE op \in CopyOps BY <1>10, ServerCopy DEF CopyOps
<1> QED BY <1>1, <1>2, <1>3, <1>4, <1>5, <1>6, <1>7, <1>8, <1>9, <1>10 DEF Ops, CopyOps

\* The connection was lost at a command, before or after the server did it.
LEMMA LossFields ==
  ASSUME NEW c \in DbType, NEW op \in Ops, NEW ws \in SUBSET Work, NEW o \in Losses(c, op, ws)
  PROVE  /\ o.r = "broken" /\ o.db \in DbType /\ ~o.db.up /\ ~o.db.open /\ o.db.state = "idle"
         /\ o.db.copy = "none" /\ o.db.copied = {} /\ o.db.saved = None /\ o.db.work = {}
         /\ o.db.fate = c.fate
         /\ \/ o.db.durable = c.durable
            \/ \E p \in Server(c, op, ws) : o.db.durable = p.db.durable
<1>1. CASE o = Outcome(Lost(c), "broken")
  BY <1>1, LostFields DEF Outcome
<1>2. CASE \E p \in Server(c, op, ws) : o = Outcome(Lost(p.db), "broken")
  <2> PICK p \in Server(c, op, ws) : o = Outcome(Lost(p.db), "broken")
    BY <1>2
  <2>1. p.db \in DbType /\ p.db.fate = c.fate
    BY ServerAny DEF Untouched
  <2> QED BY <2>1, LostFields DEF Outcome
<1> QED BY <1>1, <1>2 DEF Losses

\* The connection is lost in a commit: the server has committed, has aborted or is at it.
LEMMA CommitLossFields ==
  ASSUME NEW c \in DbType, NEW o \in CommitLosses(c)
  PROVE  /\ o.r = "broken" /\ o.db \in DbType /\ ~o.db.up /\ ~o.db.open /\ o.db.state = "idle"
         /\ o.db.copy = "none" /\ o.db.copied = {} /\ o.db.saved = None
         /\ \/ o.db.fate = "aborted" /\ o.db.work = {} /\ o.db.durable = c.durable
            \/ o.db.fate = "committed" /\ o.db.work = {} /\ o.db.durable = c.durable \cup c.work
            \/ o.db.fate = "running" /\ o.db.work = c.work /\ o.db.durable = c.durable
<1> DEFINE l == Lost(c)
           g == [c EXCEPT !.durable = @ \cup c.work]
           m == Lost(g)
<1>1. g \in DbType /\ g.durable = c.durable \cup c.work
  BY DEF DbType
<1> HIDE DEF g
<1>2. /\ l \in DbType /\ ~l.up /\ ~l.open /\ l.state = "idle" /\ l.copy = "none"
      /\ l.copied = {} /\ l.saved = None /\ l.work = {} /\ l.durable = c.durable
  BY LostFields
<1>3. /\ m \in DbType /\ ~m.up /\ ~m.open /\ m.state = "idle" /\ m.copy = "none"
      /\ m.copied = {} /\ m.saved = None /\ m.work = {} /\ m.durable = c.durable \cup c.work
  BY <1>1, LostFields
<1>4. \/ o = Outcome([l EXCEPT !.fate = "aborted"], "broken")
      \/ o = Outcome([m EXCEPT !.fate = "committed"], "broken")
      \/ o = Outcome([l EXCEPT !.fate = "running", !.work = c.work], "broken")
  BY DEF CommitLosses, g
<1> HIDE DEF l, m
<1>5. CASE o = Outcome([l EXCEPT !.fate = "aborted"], "broken")
  BY <1>2, <1>5 DEF Outcome, DbType, Fates
<1>6. CASE o = Outcome([m EXCEPT !.fate = "committed"], "broken")
  BY <1>3, <1>6 DEF Outcome, DbType, Fates
<1>7. CASE o = Outcome([l EXCEPT !.fate = "running", !.work = c.work], "broken")
  BY <1>2, <1>7 DEF Outcome, DbType, Fates
<1> QED BY <1>4, <1>5, <1>6, <1>7

\* A command on a connection that is known or unknown to be lost, ...
LEMMA ExecuteDown ==
  ASSUME NEW d \in DbType, ~d.up, NEW op, NEW ws, NEW o \in Execute(d, op, ws)
  PROVE  o.r = "broken" /\ o.db = [d EXCEPT !.open = FALSE]
<1>1. o \in {Outcome([d EXCEPT !.open = FALSE], "broken")}
  BY DEF Execute
<1> QED BY <1>1 DEF Outcome

\* ... one that reaches the server and is answered, ...
LEMMA ExecuteUp ==
  ASSUME NEW d \in DbType, NEW op \in Ops, NEW ws \in SUBSET Work, NEW o \in Execute(d, op, ws),
         o.r # "broken" \/ o.db.up
  PROVE  /\ d.up /\ o \in Server(EndCopying(d), op, ws)
         /\ o.r \in {"ok", "sql_error", "unknown"} /\ o.db \in DbType
         /\ o.db.up /\ o.db.open = d.open /\ o.db.fate = d.fate /\ o.db.copied = {}
         /\ op \notin CopyOps => o.db.copy = "none"
         /\ d.durable \subseteq o.db.durable
         /\ op \notin {"write", "commit"} => o.db.durable = d.durable
         /\ op # "commit" => o.r # "unknown"
<1> DEFINE c == EndCopying(d)
<1>1. /\ c \in DbType /\ c.copy = "none" /\ c.copied = {} /\ c.open = d.open /\ c.up = d.up
      /\ c.durable = d.durable /\ c.fate = d.fate
  BY CopyEnds
<1>2. d.up
  <2>1. SUFFICES ASSUME ~d.up PROVE FALSE
    OBVIOUS
  <2>2. o.r = "broken" /\ ~o.db.up
    <3>1. o.r = "broken" /\ o.db = [d EXCEPT !.open = FALSE]
      BY <2>1, ExecuteDown
    <3> QED BY <2>1, <3>1 DEF DbType
  <2> QED BY <2>2
<1>3. o \in Server(c, op, ws) \cup CommitLosses(c) \cup Losses(c, op, ws)
  BY <1>2 DEF Execute
<1> HIDE DEF c
<1>4. o \in Server(c, op, ws)
  BY <1>1, <1>3, LossFields, CommitLossFields
<1>5. /\ Untouched(c, o.db) /\ o.r \in {"ok", "sql_error", "unknown"}
      /\ c.durable \subseteq o.db.durable
      /\ op \notin CopyOps => o.db.copy = c.copy
      /\ op \notin {"write", "commit"} => o.db.durable = c.durable
      /\ op # "commit" => o.r # "unknown"
  BY <1>1, <1>4, ServerAny
<1>6. o \in Server(EndCopying(d), op, ws)
  BY <1>4 DEF c
<1> QED BY <1>1, <1>2, <1>5, <1>6 DEF Untouched

\* ... and one at which the connection is lost.
LEMMA ExecuteLoses ==
  ASSUME NEW d \in DbType, d.up, NEW op \in Ops, NEW ws \in SUBSET Work,
         NEW o \in Execute(d, op, ws), o.r = "broken" \/ ~o.db.up
  PROVE  /\ o.r = "broken" /\ o.db \in DbType /\ ~o.db.up /\ ~o.db.open /\ o.db.state = "idle"
         /\ o.db.copy = "none" /\ o.db.copied = {} /\ o.db.saved = None
         /\ d.durable \subseteq o.db.durable
         /\ op \notin {"write", "commit"} => o.db.durable = d.durable
         /\ op # "commit" => o.db.work = {} /\ o.db.fate = d.fate
<1> DEFINE c == EndCopying(d)
<1>1. /\ c \in DbType /\ c.copy = "none" /\ c.copied = {} /\ c.open = d.open /\ c.up = d.up
      /\ c.durable = d.durable /\ c.fate = d.fate
  BY CopyEnds
<1>2. \/ o \in Server(c, op, ws) \/ o \in Losses(c, op, ws)
      \/ op = "commit" /\ o \in CommitLosses(c)
  BY DEF Execute
<1> HIDE DEF c
<1>3. CASE o \in Server(c, op, ws)
  BY <1>1, <1>3, ServerAny DEF Untouched
<1>4. CASE o \in Losses(c, op, ws)
  BY <1>1, <1>4, LossFields, ServerAny DEF Untouched
<1>5. CASE op = "commit" /\ o \in CommitLosses(c)
  BY <1>1, <1>5, CommitLossFields
<1> QED BY <1>2, <1>3, <1>4, <1>5

\* connection::exec with any command: the result says "broken" exactly if the connection is
\* lost, and only writes and commits add to the database.
LEMMA ExecuteAny ==
  ASSUME NEW d \in DbType, NEW op \in Ops, NEW ws \in SUBSET Work, NEW o \in Execute(d, op, ws)
  PROVE  /\ o.db \in DbType /\ o.r \in {"ok", "sql_error", "unknown", "broken"}
         /\ o.r = "broken" <=> ~o.db.up
         /\ ~o.db.up => ~o.db.open
         /\ o.db.up => d.up /\ o.db.fate = d.fate /\ o.db.copied = {}
         /\ ~d.up => /\ o.db.state = d.state /\ o.db.work = d.work /\ o.db.saved = d.saved
                     /\ o.db.copy = d.copy /\ o.db.copied = d.copied
                     /\ o.db.durable = d.durable /\ o.db.fate = d.fate
         /\ d.up /\ ~o.db.up => /\ o.db.state = "idle" /\ o.db.copy = "none"
                                /\ o.db.saved = None /\ o.db.copied = {}
         /\ d.up /\ op \notin CopyOps => o.db.copy = "none"
         /\ d.durable \subseteq o.db.durable
         /\ op \notin {"write", "commit"} => o.db.durable = d.durable
         /\ op # "commit" => o.r # "unknown" /\ o.db.fate = d.fate
         /\ d.up /\ ~o.db.up /\ op # "commit" => o.db.work = {}
<1>1. CASE ~d.up
  <2>1. o.r = "broken" /\ o.db = [d EXCEPT !.open = FALSE]
    BY <1>1, ExecuteDown
  <2> QED BY <1>1, <2>1 DEF DbType
<1>2. CASE d.up /\ (o.r # "broken" \/ o.db.up)
  BY <1>2, ExecuteUp
<1>3. CASE d.up /\ ~(o.r # "broken" \/ o.db.up)
  BY <1>3, ExecuteLoses
<1> QED BY <1>1, <1>2, <1>3

\* exec of BEGIN.
LEMMA ExecuteBegin ==
  ASSUME NEW d \in DbType, NEW o \in Execute(d, "begin", {}), o.db.up
  PROVE  /\ o.db.work = d.work /\ o.db.saved = d.saved
         /\ \/ o.r = "ok" /\ Finds(d) # "failed" /\ o.db.state = "block"
            \/ o.r = "sql_error" /\ Finds(d) = "failed" /\ o.db.state = "failed"
<1>1. o \in Server(EndCopying(d), "begin", {})
  BY ExecuteUp DEF Ops
<1> QED BY <1>1, ServerBegin, CopyEnds

\* exec of a write: it is durable at once only without a block.
LEMMA ExecuteWrite ==
  ASSUME NEW d \in DbType, NEW ws \in SUBSET Work, NEW o \in Execute(d, "write", ws)
  PROVE  /\ o.db.durable # d.durable => Finds(d) = "idle" /\ o.db.durable = d.durable \cup ws
         /\ o.db.up =>
            /\ o.db.saved = d.saved
            /\ \/ /\ o.r = "ok" /\ Finds(d) # "failed" /\ o.db.state = Finds(d)
                  /\ o.db.durable = IF Finds(d) = "idle" THEN d.durable \cup ws ELSE d.durable
                  /\ o.db.work = IF Finds(d) = "idle" THEN d.work ELSE d.work \cup ws
               \/ /\ o.r = "sql_error" /\ o.db.state = Fails(d.state)
                  /\ o.db.durable = d.durable /\ o.db.work = d.work
<1> DEFINE c == EndCopying(d)
<1>1. c \in DbType /\ c.state = Finds(d) /\ c.work = d.work /\ c.saved = d.saved /\ c.durable = d.durable
  BY CopyEnds
<1>2. Fails(c.state) = Fails(d.state)
  BY <1>1 DEF Fails, Finds
<1>3. ASSUME o.db.up PROVE o \in Server(c, "write", ws)
  BY <1>3, ExecuteUp DEF Ops
<1>4. \/ o \in Server(c, "write", ws) \/ o \in Losses(c, "write", ws)
      \/ ~d.up /\ o.db.durable = d.durable
  <2>1. CASE d.up
    BY <2>1 DEF Execute
  <2>2. CASE ~d.up
    BY <2>2, ExecuteAny DEF Ops
  <2> QED BY <2>1, <2>2
<1> HIDE DEF c
<1>5. \A p \in Server(c, "write", ws) :
         p.db.durable # d.durable => Finds(d) = "idle" /\ p.db.durable = d.durable \cup ws
  <2> TAKE p \in Server(c, "write", ws)
  <2>1. p.db.durable = c.durable \/ (c.state = "idle" /\ p.db.durable = c.durable \cup ws)
    BY <1>1, ServerWrite
  <2> QED BY <1>1, <2>1
<1>6. o.db.durable # d.durable => Finds(d) = "idle" /\ o.db.durable = d.durable \cup ws
  <2>1. CASE o \in Losses(c, "write", ws)
    BY <1>1, <1>5, <2>1, LossFields DEF Ops
  <2> QED BY <1>4, <1>5, <2>1
<1>7. ASSUME o.db.up
      PROVE  /\ o.db.saved = c.saved
             /\ \/ /\ o.r = "ok" /\ c.state # "failed" /\ o.db.state = c.state
                   /\ o.db.durable = IF c.state = "idle" THEN c.durable \cup ws ELSE c.durable
                   /\ o.db.work = IF c.state = "idle" THEN c.work ELSE c.work \cup ws
                \/ /\ o.r = "sql_error" /\ o.db.state = Fails(c.state)
                   /\ o.db.durable = c.durable /\ o.db.work = c.work
  BY <1>1, <1>3, <1>7, ServerWrite
<1> QED BY <1>1, <1>2, <1>6, <1>7

\* exec of a query or of SET CONSTRAINTS.
LEMMA ExecuteConstraints ==
  ASSUME NEW d \in DbType, NEW op \in {"query", "constraints"}, NEW o \in Execute(d, op, {}), o.db.up
  PROVE  /\ o.db.work = d.work /\ o.db.saved = d.saved
         /\ \/ o.r = "ok" /\ Finds(d) # "failed" /\ o.db.state = Finds(d)
            \/ o.r = "sql_error" /\ o.db.state = Fails(d.state)
<1> DEFINE c == EndCopying(d)
<1>1. c \in DbType /\ c.state = Finds(d) /\ c.work = d.work /\ c.saved = d.saved
  BY CopyEnds
<1>2. Fails(c.state) = Fails(d.state)
  BY <1>1 DEF Fails, Finds
<1>3. o \in Server(c, op, {})
  BY ExecuteUp DEF Ops
<1> HIDE DEF c
<1> QED BY <1>1, <1>2, <1>3, ServerConstraints

\* exec of COMMIT.
LEMMA ExecuteCommit ==
  ASSUME NEW d \in DbType, d.up, NEW o \in Execute(d, "commit", {})
  PROVE  /\ o.db.state = "idle" /\ o.db.saved = None /\ o.db.copied = {}
         /\ \/ /\ o.db.up /\ o.db.work = {}
               /\ \/ /\ o.r \in {"ok", "unknown"} /\ Finds(d) = "block"
                     /\ o.db.durable = d.durable \cup d.work
                  \/ /\ o.r \in {"sql_error", "unknown"} /\ Finds(d) = "block"
                     /\ o.db.durable = d.durable
                  \/ o.r = "ok" /\ Finds(d) # "block" /\ o.db.durable = d.durable
            \/ /\ o.r = "broken" /\ Finds(d) = "block"
               /\ \/ o.db.fate = "aborted" /\ o.db.work = {} /\ o.db.durable = d.durable
                  \/ o.db.fate = "committed" /\ o.db.work = {} /\ o.db.durable = d.durable \cup d.work
                  \/ o.db.fate = "running" /\ o.db.work = d.work /\ o.db.durable = d.durable
            \/ /\ o.r = "broken" /\ Finds(d) # "block" /\ o.db.work = {}
               /\ o.db.fate = d.fate /\ o.db.durable = d.durable
<1> DEFINE c == EndCopying(d)
<1>1. /\ c \in DbType /\ c.state = Finds(d) /\ c.work = d.work /\ c.saved = d.saved
      /\ c.durable = d.durable /\ c.fate = d.fate /\ c.copied = {} /\ c.up = d.up
  BY CopyEnds
<1>2. \/ o \in Server(c, "commit", {})
      \/ c.state = "block" /\ o \in CommitLosses(c)
      \/ c.state # "block" /\ o \in Losses(c, "commit", {})
  BY DEF Execute
<1> HIDE DEF c
<1>3. CASE o \in Server(c, "commit", {})
  <2>1. /\ Untouched(c, o.db) /\ o.db.work = {} /\ o.db.saved = None /\ o.db.state = "idle"
        /\ \/ /\ o.r \in {"ok", "unknown"} /\ c.state = "block"
              /\ o.db.durable = c.durable \cup c.work
           \/ o.r \in {"sql_error", "unknown"} /\ c.state = "block" /\ o.db.durable = c.durable
           \/ o.r = "ok" /\ c.state # "block" /\ o.db.durable = c.durable
    BY <1>1, <1>3, ServerCommits
  <2>2. o.db.up /\ o.db.copied = {}
    BY <1>1, <2>1 DEF Untouched
  <2> QED BY <1>1, <2>1, <2>2
<1>4. CASE c.state = "block" /\ o \in CommitLosses(c)
  BY <1>1, <1>4, CommitLossFields
<1>5. CASE c.state # "block" /\ o \in Losses(c, "commit", {})
  <2>1. \A p \in Server(c, "commit", {}) : p.db.durable = c.durable
    BY <1>1, <1>5, ServerCommits
  <2> QED BY <1>1, <1>5, <2>1, LossFields DEF Ops
<1> QED BY <1>2, <1>3, <1>4, <1>5

\* exec of ROLLBACK.
LEMMA ExecuteRollback ==
  ASSUME NEW d \in DbType, d.up, NEW o \in Execute(d, "rollback", {})
  PROVE  o.db.state = "idle" /\ o.db.work = {} /\ o.db.saved = None /\ o.db.copied = {}
<1>1. CASE o.db.up
  <2>1. o \in Server(EndCopying(d), "rollback", {}) /\ o.db.copied = {}
    BY <1>1, ExecuteUp DEF Ops
  <2>2. EndCopying(d) \in DbType
    BY CopyEnds
  <2>3. o.db = Idle(EndCopying(d))
    BY <2>1, <2>2, ServerRollback DEF Outcome
  <2> QED BY <2>1, <2>2, <2>3, IdleFields
<1>2. CASE ~o.db.up
  BY <1>2, ExecuteAny DEF Ops
<1> QED BY <1>1, <1>2

\* exec of SAVEPOINT.
LEMMA ExecuteSavepoint ==
  ASSUME NEW d \in DbType, NEW o \in Execute(d, "savepoint", {}), o.db.up
  PROVE  /\ o.db.work = d.work
         /\ \/ o.r = "ok" /\ Finds(d) = "block" /\ o.db.state = "block" /\ o.db.saved = d.work
            \/ o.r = "sql_error" /\ Finds(d) # "block" /\ o.db.state = Finds(d) /\ o.db.saved = d.saved
<1>1. o \in Server(EndCopying(d), "savepoint", {})
  BY ExecuteUp DEF Ops
<1> QED BY <1>1, ServerSavepoint, CopyEnds

\* exec of RELEASE SAVEPOINT.
LEMMA ExecuteRelease ==
  ASSUME NEW d \in DbType, NEW o \in Execute(d, "release", {}), o.db.up
  PROVE  /\ o.db.work = d.work
         /\ \/ o.r = "ok" /\ Finds(d) = "block" /\ o.db.state = "block" /\ o.db.saved = None
            \/ /\ o.r = "sql_error" /\ (Finds(d) # "block" \/ d.saved = None)
               /\ o.db.state = Fails(d.state) /\ o.db.saved = d.saved
<1> DEFINE c == EndCopying(d)
<1>1. c \in DbType /\ c.state = Finds(d) /\ c.work = d.work /\ c.saved = d.saved
  BY CopyEnds
<1>2. Fails(c.state) = Fails(d.state)
  BY <1>1 DEF Fails, Finds
<1>3. o \in Server(c, "release", {})
  BY ExecuteUp DEF Ops
<1> HIDE DEF c
<1> QED BY <1>1, <1>2, <1>3, ServerRelease

\* exec of ROLLBACK TO SAVEPOINT.
LEMMA ExecuteRollbackTo ==
  ASSUME NEW d \in DbType, NEW o \in Execute(d, "rollback_to", {}), o.db.up
  PROVE  /\ o.db.saved = d.saved
         /\ \/ /\ o.r = "ok" /\ d.state # "idle" /\ d.saved # None
               /\ o.db.state = "block" /\ o.db.work = d.saved
            \/ /\ o.r = "sql_error" /\ (d.state = "idle" \/ d.saved = None)
               /\ o.db.state = Fails(d.state) /\ o.db.work = d.work
<1> DEFINE c == EndCopying(d)
<1>1. c \in DbType /\ c.state = Finds(d) /\ c.work = d.work /\ c.saved = d.saved
  BY CopyEnds
<1>2. Fails(c.state) = Fails(d.state) /\ (c.state = "idle" <=> d.state = "idle")
  BY <1>1 DEF Fails, Finds
<1>3. o \in Server(c, "rollback_to", {})
  BY ExecuteUp DEF Ops
<1> HIDE DEF c
<1> QED BY <1>1, <1>2, <1>3, ServerRollbackTo

\* exec of COPY.
LEMMA ExecuteCopy ==
  ASSUME NEW d \in DbType, NEW op \in CopyOps, NEW o \in Execute(d, op, {}), o.db.up
  PROVE  /\ o.db.work = d.work /\ o.db.saved = d.saved
         /\ \/ /\ o.r = "ok" /\ Finds(d) # "failed" /\ o.db.state = Finds(d)
               /\ o.db.copy = IF op = "copy_in" THEN "in" ELSE "out"
            \/ o.r = "sql_error" /\ o.db.state = Fails(d.state) /\ o.db.copy = "none"
<1> DEFINE c == EndCopying(d)
<1>1. /\ c \in DbType /\ c.state = Finds(d) /\ c.work = d.work /\ c.saved = d.saved
      /\ c.copy = "none"
  BY CopyEnds
<1>2. Fails(c.state) = Fails(d.state)
  BY <1>1 DEF Fails, Finds
<1>3. o \in Server(c, op, {})
  BY ExecuteUp DEF Ops, CopyOps
<1> HIDE DEF c
<1> QED BY <1>1, <1>2, <1>3, ServerCopy

\* end_copy_write: the rows are written, or the COPY fails, or there was none.
LEMMA WriteEnds ==
  ASSUME db \in DbType, NEW o \in EndCopyWrite
  PROVE  /\ o.db \in DbType /\ o.db.fate = db.fate
         /\ \/ /\ ~db.up /\ o.r = "broken" /\ ~o.db.up /\ o.db.state = db.state
               /\ o.db.work = db.work /\ o.db.saved = db.saved /\ o.db.copy = db.copy
               /\ o.db.copied = db.copied /\ o.db.durable = db.durable
            \/ db.up /\ db.copy # "in" /\ o.r = "failure" /\ o.db = db
            \/ /\ db.up /\ db.copy = "in" /\ o.db.copy = "none" /\ o.db.copied = {}
               /\ \/ /\ o.r = "ok" /\ o.db.up /\ o.db.state = db.state /\ o.db.saved = db.saved
                     /\ o.db.durable = IF db.state = "idle" THEN db.durable \cup db.copied ELSE db.durable
                     /\ o.db.work = IF db.state = "idle" THEN db.work ELSE db.work \cup db.copied
                  \/ /\ o.r = "sql_error" /\ o.db.up /\ o.db.state = Fails(db.state)
                     /\ o.db.saved = db.saved /\ o.db.durable = db.durable /\ o.db.work = db.work
                  \/ /\ o.r = "broken" /\ ~o.db.up /\ o.db.state = "idle" /\ o.db.saved = None
                     /\ o.db.work = {} /\ o.db.durable = db.durable
<1>1. CASE ~db.up
  <2>1. o \in {Outcome([db EXCEPT !.open = FALSE], "broken")}
    BY <1>1 DEF EndCopyWrite
  <2>2. o.db = [db EXCEPT !.open = FALSE] /\ o.r = "broken"
    BY <2>1 DEF Outcome
  <2> QED BY <1>1, <2>2 DEF DbType
<1>2. CASE db.up /\ db.copy # "in"
  <2>1. o \in {Outcome(db, "failure")}
    BY <1>2 DEF EndCopyWrite
  <2> QED BY <1>2, <2>1 DEF Outcome
<1>3. CASE db.up /\ db.copy = "in"
  <2> DEFINE w == Written(db, db.copied)
             done == [w EXCEPT !.copy = "none", !.copied = {}]
             off == [db EXCEPT !.copy = "none", !.copied = {}]
  <2>0. db.copied \in SUBSET Work
    BY DEF DbType
  <2>1. o \in {Outcome(done, "ok"), Outcome(Failed(off), "sql_error"), Outcome(Lost(db), "broken")}
    BY <1>3 DEF EndCopyWrite
  <2>2. /\ w \in DbType /\ w.up = db.up /\ w.state = db.state /\ w.saved = db.saved /\ w.fate = db.fate
        /\ w.durable = IF db.state = "idle" THEN db.durable \cup db.copied ELSE db.durable
        /\ w.work = IF db.state = "idle" THEN db.work ELSE db.work \cup db.copied
    BY <2>0, WrittenFields
  <2> HIDE DEF w
  <2>3. /\ done \in DbType /\ done.up = w.up /\ done.state = w.state /\ done.saved = w.saved
        /\ done.fate = w.fate /\ done.durable = w.durable /\ done.work = w.work
        /\ done.copy = "none" /\ done.copied = {}
    BY <2>2 DEF DbType
  <2>4. /\ off \in DbType /\ off.up = db.up /\ off.state = db.state /\ off.saved = db.saved
        /\ off.fate = db.fate /\ off.durable = db.durable /\ off.work = db.work
        /\ off.copy = "none" /\ off.copied = {}
    BY DEF DbType
  <2> HIDE DEF done, off
  <2>5. CASE o = Outcome(done, "ok")
    BY <1>3, <2>2, <2>3, <2>5 DEF Outcome
  <2>6. CASE o = Outcome(Failed(off), "sql_error")
    BY <1>3, <2>4, <2>6, FailedFields DEF Outcome
  <2>7. CASE o = Outcome(Lost(db), "broken")
    BY <1>3, <2>7, LostFields DEF Outcome
  <2> QED BY <2>1, <2>5, <2>6, <2>7
<1> QED BY <1>1, <1>2, <1>3

\* get_copy_line at the end of a COPY.
LEMMA ReadEnding ==
  ASSUME db \in DbType, NEW o \in ReadEnds
  PROVE  /\ o.db \in DbType /\ o.db.fate = db.fate /\ o.db.durable = db.durable
         /\ \/ /\ ~db.up /\ o.r = "failure" /\ ~o.db.up /\ o.db.state = db.state
               /\ o.db.work = db.work /\ o.db.saved = db.saved /\ o.db.copy = db.copy
               /\ o.db.copied = db.copied
            \/ db.up /\ db.copy # "out" /\ o.r = "failure" /\ o.db = db
            \/ /\ db.up /\ db.copy = "out" /\ o.db.copy = "none"
               /\ \/ /\ o.r \in {"ok", "sql_error"} /\ o.db.up /\ o.db.work = db.work
                     /\ o.db.saved = db.saved /\ o.db.copied = db.copied
                     /\ o.db.state = IF o.r = "ok" THEN db.state ELSE Fails(db.state)
                  \/ /\ o.r = "broken" /\ ~o.db.up /\ o.db.state = "idle" /\ o.db.saved = None
                     /\ o.db.work = {} /\ o.db.copied = {}
<1>1. CASE ~db.up
  <2>1. o \in {Outcome([db EXCEPT !.open = FALSE], "failure")}
    BY <1>1 DEF ReadEnds
  <2>2. o.db = [db EXCEPT !.open = FALSE] /\ o.r = "failure"
    BY <2>1 DEF Outcome
  <2> QED BY <1>1, <2>2 DEF DbType
<1>2. CASE db.up /\ db.copy # "out"
  <2>1. o \in {Outcome(db, "failure")}
    BY <1>2 DEF ReadEnds
  <2> QED BY <1>2, <2>1 DEF Outcome
<1>3. CASE db.up /\ db.copy = "out"
  <2>1. o \in {Outcome(EndOfCopy, "ok"), Outcome(Failed(EndOfCopy), "sql_error"),
               Outcome(Lost(db), "broken")}
    BY <1>3 DEF ReadEnds
  <2>2. /\ EndOfCopy \in DbType /\ EndOfCopy.up = db.up /\ EndOfCopy.state = db.state
        /\ EndOfCopy.saved = db.saved /\ EndOfCopy.fate = db.fate /\ EndOfCopy.work = db.work
        /\ EndOfCopy.durable = db.durable /\ EndOfCopy.copied = db.copied
        /\ EndOfCopy.copy = "none"
    BY DEF EndOfCopy, DbType
  <2>3. CASE o = Outcome(EndOfCopy, "ok")
    BY <1>3, <2>2, <2>3 DEF Outcome
  <2>4. CASE o = Outcome(Failed(EndOfCopy), "sql_error")
    BY <1>3, <2>2, <2>4, FailedFields DEF Outcome
  <2>5. CASE o = Outcome(Lost(db), "broken")
    BY <1>3, <2>5, LostFields DEF Outcome
  <2> QED BY <2>1, <2>3, <2>4, <2>5
<1> QED BY <1>1, <1>2, <1>3

(***************************************************************************)
(* The kinds of step.                                                      *)
(***************************************************************************)
\* The names of objects are different.
LEMMA Names == /\ None \notin Tx /\ Sub \notin Tops /\ None \notin Tops /\ Sub # None
               /\ Sub \in Tx /\ Tops \subseteq Tx
  BY ConstantsAssumption DEF Tx, Tops

\* exec leaves a sound session.
LEMMA ExecuteSound ==
  ASSUME NEW d, Sound(d), NEW op \in Ops, NEW ws \in SUBSET Work, op = "commit" => ws = {},
         NEW o \in Execute(d, op, ws)
  PROVE  Sound(o.db) /\ (~d.up => ~o.db.up)
<1>1. d \in DbType
  BY DEF Sound
<1>2. CASE op # "commit" \/ ~d.up \/ o.db.up
  BY <1>1, <1>2, ExecuteAny DEF Sound, CopyOps
<1>3. CASE op = "commit" /\ d.up /\ ~o.db.up
  <2>1. o.db.work = {} \/ o.db.fate = "running"
    BY <1>1, <1>3, ExecuteCommit
  <2> QED BY <1>1, <1>3, <2>1, ExecuteAny DEF Sound, CopyOps
<1> QED BY <1>2, <1>3

\* end_copy_write leaves a sound session.
LEMMA WriteEndsSound ==
  ASSUME Sound(db), NEW o \in EndCopyWrite
  PROVE  Sound(o.db) /\ (~db.up => ~o.db.up)
  BY WriteEnds DEF Sound

\* So does the end of a stream_from.
LEMMA ReadEndingSound ==
  ASSUME Sound(db), NEW o \in ReadEnds
  PROVE  Sound(o.db) /\ (~db.up => ~o.db.up)
  BY ReadEnding DEF Sound

\* One object has changed.
Becomes(x, v) == v \in TxType /\ tx' = [tx EXCEPT ![x] = v]

\* The values of the objects after such a step.
LEMMA OneChanged ==
  ASSUME TypeInv, NEW x \in Tx, NEW v, Becomes(x, v)
  PROVE  tx' \in [Tx -> TxType] /\ tx'[x] = v /\ \A y \in Tx \ {x} : tx'[y] = tx[y]
  BY DEF TypeInv, Becomes

\* A connection that is lost stays lost.
DbMoves == Sound(db') /\ (~db.up => ~db'.up)

\* What stays when an object is used and not closed.
Used(t, v) ==
    /\ v.kind = t.kind /\ v.parent = t.parent /\ v.status = t.status
    /\ v.alive <=> t.alive
    /\ v.registered <=> t.registered
    /\ v.doubted <=> t.doubted
    /\ v.unsure <=> t.unsure
    /\ v.left <=> t.left

\* Base is kept when an object is used and its stream is opened, finished or destroyed.
LEMMA UseStep ==
  ASSUME Base, NEW x \in Tx, NEW v, Becomes(x, v), Used(tx[x], v), tx[x].alive, DbMoves,
         UNCHANGED <<trans, asking>>, asking.by = None,
         stream' \in StreamType,
         \/ /\ stream'.on = stream.on /\ stream'.kind = stream.kind
            /\ stream'.finished <=> stream.finished
            /\ v.focus <=> tx[x].focus
         \/ /\ stream.on = None /\ stream'.on = x /\ stream'.kind # "none" /\ ~stream'.finished
            /\ v.focus /\ v.status = "active"
         \/ /\ stream.on = x /\ stream'.on = x /\ stream'.kind = stream.kind
            /\ stream'.finished /\ ~v.focus
         \/ stream.on = x /\ stream' = NoStream /\ ~v.focus
  PROVE  Base'
<1> USE Names DEF Base
<1>0. tx' \in [Tx -> TxType] /\ tx'[x] = v /\ \A y \in Tx \ {x} : tx'[y] = tx[y]
  BY OneChanged
<1>1. TypeInv'
  BY <1>0 DEF TypeInv, DbMoves
<1>2. KindInv'
  BY <1>0 DEF KindInv, Used, DbMoves
<1>3. LifeInv'
  <2>1. tx[x].status # "none"
    BY DEF LifeInv, NoTx
  <2> QED BY <1>0, <2>1 DEF LifeInv, Used, Active, TypeInv
<1>4. StreamInv'
  <2>0. stream.on \in Tx \cup {None}
    BY DEF TypeInv, StreamType
  <2> USE <2>0 DEF StreamInv, Used
  <2>1. CASE /\ stream'.on = stream.on /\ stream'.kind = stream.kind
             /\ stream'.finished <=> stream.finished
             /\ v.focus <=> tx[x].focus
    BY <1>0, <2>1
  <2>2. CASE /\ stream.on = None /\ stream'.on = x /\ stream'.kind # "none" /\ ~stream'.finished
             /\ v.focus /\ v.status = "active"
    BY <1>0, <2>2
  <2>3. CASE /\ stream.on = x /\ stream'.on = x /\ stream'.kind = stream.kind
             /\ stream'.finished /\ ~v.focus
    BY <1>0, <2>3
  <2>4. CASE stream.on = x /\ stream' = NoStream /\ ~v.focus
    BY <1>0, <2>4 DEF NoStream
  <2> QED BY <2>1, <2>2, <2>3, <2>4
<1>5. AskInv'
  BY DEF AskInv
<1> QED BY <1>1, <1>2, <1>3, <1>4, <1>5

\* Base is kept when only the server and its connection move.
LEMMA DbStep ==
  ASSUME Base, DbMoves, UNCHANGED <<trans, tx, stream, asking>>
  PROVE  Base'
<1> USE DEF Base
<1>1. TypeInv'
  BY DEF TypeInv, DbMoves
<1>2. KindInv'
  BY DEF KindInv, DbMoves
<1>3. LifeInv' /\ StreamInv' /\ AskInv'
  BY DEF LifeInv, StreamInv, AskInv, Active
<1> QED BY <1>1, <1>2, <1>3

\* Begun: a new object, registered if it is a work or a nontransaction.
LEMMA BegunFields ==
  ASSUME NEW kind \in AllKinds \cup {"subtransaction"}, NEW p \in Tops \cup {None}
  PROVE  LET v == Begun(kind, p)
         IN  /\ v \in TxType /\ v.kind = kind /\ v.parent = p /\ v.status = "active"
             /\ v.alive /\ ~v.focus /\ ~v.doubted /\ v.acked = {} /\ v.wrote = {}
             /\ ~v.pending /\ ~v.unsure /\ ~v.left
             /\ v.registered <=> kind \in {"transaction", "nontransaction"}
<1>1. CASE kind \in {"transaction", "nontransaction"}
  BY <1>1 DEF Begun, NoTx, TxType, AllKinds, Statuses
<1>2. CASE kind \in {"robusttransaction", "subtransaction"}
  <2>1. (kind \in {"transaction", "nontransaction"}) = FALSE
    BY <1>2
  <2>2. Begun(kind, p) = [NoTx EXCEPT !.kind = kind, !.alive = TRUE, !.status = "active",
                                      !.parent = p, !.registered = FALSE]
    BY <2>1, Zenon DEF Begun
  <2> QED BY <1>2, <2>2 DEF NoTx, TxType, AllKinds, Statuses
<1> QED BY <1>1, <1>2 DEF AllKinds

\* An object is made.
Born(x, kind, p) ==
    /\ tx[x].status = "none" /\ tx' = [tx EXCEPT ![x] = Begun(kind, p)]
    /\ \/ x \in Tops /\ p = None /\ kind \in AllKinds
       \/ x = Sub /\ p \in Tops /\ tx[p].status # "none" /\ kind = "subtransaction"
    /\ \/ kind \in {"transaction", "nontransaction"} /\ trans = None /\ trans' = x
       \/ kind \notin {"transaction", "nontransaction"} /\ trans' = trans
    /\ UNCHANGED <<stream, asking>>

\* Base is kept by a constructor.
LEMMA BirthStep ==
  ASSUME Base, NEW x \in Tx, NEW kind, NEW p, Born(x, kind, p), DbMoves
  PROVE  Base'
<1> USE Names DEF Base, Born
<1> DEFINE v == Begun(kind, p)
<1>1. /\ v \in TxType /\ v.kind = kind /\ v.parent = p /\ v.alive /\ v.status = "active"
      /\ v.registered <=> kind \in {"transaction", "nontransaction"}
      /\ ~v.focus /\ ~v.doubted
  BY BegunFields
<1>2. Becomes(x, v)
  BY <1>1 DEF Becomes
<1>3. ~tx[x].focus /\ ~tx[x].alive /\ ~tx[x].registered /\ ~tx[x].doubted
  BY DEF LifeInv, NoTx
<1> HIDE DEF v
<1>4. tx' \in [Tx -> TxType] /\ tx'[x] = v /\ \A y \in Tx \ {x} : tx'[y] = tx[y]
  BY <1>2, OneChanged
<1>5. TypeInv'
  BY <1>4 DEF TypeInv, DbMoves, AllKinds
<1>6. KindInv'
  BY <1>1, <1>4 DEF KindInv, DbMoves
<1>7. LifeInv'
  BY <1>1, <1>3, <1>4 DEF LifeInv, Active, TypeInv
<1>8. StreamInv'
  BY <1>1, <1>3, <1>4 DEF StreamInv
<1>9. AskInv'
  BY <1>1, <1>3, <1>4 DEF AskInv, Active, TypeInv
<1> QED BY <1>5, <1>6, <1>7, <1>8, <1>9

\* An object is closed; a parent may take over what its subtransaction did.
LEMMA CloseStep ==
  ASSUME Base, NEW x \in Tx, DbMoves, tx' \in [Tx -> TxType],
         tx[x].status # "none", tx'[x].status \in {"committed", "aborted", "in_doubt"},
         tx'[x].kind = tx[x].kind, tx'[x].parent = tx[x].parent,
         tx'[x].doubted <=> tx[x].doubted, tx'[x].focus <=> tx[x].focus,
         tx'[x].status = "committed" => ~tx[x].focus,
         \/ tx'[x].alive /\ (tx'[x].registered <=> tx[x].registered) /\ trans' = trans
            /\ tx[x].alive
         \/ ~tx'[x].registered /\ trans' = Unregistered(x) /\ tx[x].alive
            /\ (stream.on = x => tx'[x].alive),
         \A y \in Tx \ {x} : Used(tx[y], tx'[y]) /\ (tx'[y].focus <=> tx[y].focus),
         \A y \in Tx \ {x} : tx'[y] = tx[y] \/ tx[y].status # "none",
         stream' = stream,
         asking' \in [by : {None}, attempts : Nat], asking.by \in {None, x}
  PROVE  Base'
<1> USE Names DEF Base
<1>1. TypeInv'
  BY DEF TypeInv, DbMoves, Unregistered
<1>2. KindInv'
  BY DEF KindInv, Used, DbMoves
<1>3. LifeInv'
  <2>1. \A y \in Tx : (Active(y) => tx[y].alive)'
    BY DEF LifeInv, Active, Used
  <2>2. \A y \in Tx : (tx[y].status = "none" => tx[y] = NoTx)'
    BY DEF LifeInv, Used
  <2>3. \A y \in Tx : tx'[y].registered => trans' = y
    BY DEF LifeInv, Used, Unregistered, TypeInv
  <2>4. trans' # None => tx'[trans'].alive /\ tx'[trans'].registered
    BY DEF LifeInv, Used, Unregistered, TypeInv
  <2> QED BY <2>1, <2>2, <2>3, <2>4 DEF LifeInv
<1>4. StreamInv'
  <2>1. stream.on \in Tx \cup {None}
    BY DEF TypeInv, StreamType
  <2> QED BY <2>1 DEF StreamInv, Used
<1>5. AskInv'
  BY DEF AskInv
<1> QED BY <1>1, <1>2, <1>3, <1>4, <1>5

\* Base is kept when the connection is lost while a robusttransaction commits.
LEMMA DoubtStep ==
  ASSUME Base, NEW x \in Tops, Active(x), tx[x].kind = "robusttransaction", ~tx[x].focus,
         Sound(db'), ~db'.up, tx' = [tx EXCEPT ![x].doubted = TRUE],
         asking' = [by |-> x, attempts |-> 0], UNCHANGED <<trans, stream>>
  PROVE  Base'
<1> USE Names DEF Base
<1> DEFINE v == [tx[x] EXCEPT !.doubted = TRUE]
<1>1. /\ v \in TxType /\ v.kind = tx[x].kind /\ v.parent = tx[x].parent /\ v.status = tx[x].status
      /\ v.alive <=> tx[x].alive
      /\ v.registered <=> tx[x].registered
      /\ v.focus <=> tx[x].focus
      /\ v.doubted
  BY DEF TypeInv, TxType
<1>2. Becomes(x, v)
  BY <1>1 DEF Becomes
<1> HIDE DEF v
<1>3. tx' \in [Tx -> TxType] /\ tx'[x] = v /\ \A y \in Tx \ {x} : tx'[y] = tx[y]
  BY <1>2, OneChanged
<1>4. TypeInv'
  BY <1>3 DEF TypeInv
<1>5. KindInv'
  BY <1>1, <1>3 DEF KindInv
<1>6. LifeInv'
  BY <1>1, <1>3 DEF LifeInv, Active, TypeInv
<1>7. StreamInv'
  <2>1. stream.on \in Tx \cup {None}
    BY DEF TypeInv, StreamType
  <2> QED BY <1>1, <1>3, <2>1 DEF StreamInv
<1>8. AskInv'
  BY <1>1, <1>3 DEF AskInv, Active
<1> QED BY <1>4, <1>5, <1>6, <1>7, <1>8

SpoiledObject(v) == v.pending \/ v.upset

\* What a call on the object x may do: v is the object after it, F what it tried to write.
Proper(x, v, F) ==
    /\ db'.up => /\ db.up /\ (db'.state = "idle" <=> db.state = "idle")
                 /\ db'.saved = db.saved /\ db.work \subseteq db'.work
    /\ db'.fate = db.fate /\ db.durable \subseteq db'.durable
    /\ db'.up /\ db'.state # db.state =>
          db'.state = "failed" /\ Active(x) /\ SpoiledObject(v)
    /\ Spoiled(x) => SpoiledObject(v)
    /\ Waits(x) \/ tx[x].status = "committed" => v.acked = tx[x].acked
    /\ ~SpoiledObject(v) /\ Active(x) /\ db'.up /\ db'.state = "block"
          => v.acked \subseteq tx[x].acked \cup db'.work
    /\ ~SpoiledObject(v) /\ tx[x].kind = "nontransaction"
          => v.acked \subseteq tx[x].acked \cup db'.durable
    /\ v.wrote = tx[x].wrote \cup F /\ F \cap Tried = {}
    /\ db'.durable \cup Held(db') \subseteq db.durable \cup Held(db) \cup F
    /\ tx[x].status = "aborted" /\ tx[x].kind # "nontransaction"
          => db'.durable \cup Held(db') \subseteq db.durable \cup Held(db)
    /\ db'.durable # db.durable => db.up /\ db.state = "idle"
    /\ v.pending /\ ~tx[x].pending => ~Waits(x) /\ (Blocks(x) /\ db'.up => db'.state = "failed")

\* CarefulInv is kept by a call that is Proper.
LEMMA CarefulUse ==
  ASSUME Base, CarefulInv, NEW x \in Tx, NEW v, NEW F, Becomes(x, v), Used(tx[x], v),
         tx[x].alive, DbMoves, Proper(x, v, F), CopyInv', asking' = asking,
         stream'.on = stream.on \/ stream'.on = None \/ (stream'.on = x /\ ~Waits(x))
  PROVE  CarefulInv'
<1> USE Names DEF Base, CarefulInv
<1>0. tx' \in [Tx -> TxType] /\ tx'[x] = v /\ \A y \in Tx \ {x} : tx'[y] = tx[y]
  BY OneChanged
<1>1. /\ \A y \in Tx : /\ tx'[y].status = tx[y].status /\ tx'[y].kind = tx[y].kind
                       /\ tx'[y].parent = tx[y].parent
                       /\ tx'[y].alive <=> tx[y].alive
                       /\ tx'[y].doubted <=> tx[y].doubted
                       /\ tx'[y].unsure <=> tx[y].unsure
                       /\ tx'[y].left <=> tx[y].left
      /\ \A y \in Tx : Spoiled(y) => Spoiled(y)'
  BY <1>0 DEF Used, Proper, Spoiled, SpoiledObject
<1>2. /\ \A y \in Tx : Active(y)' <=> Active(y)
      /\ \A y \in Tx : Blocks(y)' <=> Blocks(y)
  BY <1>1 DEF Active, Blocks
<1>3. tx[Sub].alive => /\ tx[Sub].parent \in Tops /\ Blocks(tx[Sub].parent)
                       /\ stream.on # tx[Sub].parent /\ ~tx[tx[Sub].parent].pending
  BY DEF KindInv, LifeInv, SoloInv, NoTx
<1>4. SoloInv'
  <2>1. tx'[Sub].alive => ~tx'[tx'[Sub].parent].pending
    BY <1>0, <1>1, <1>3 DEF Proper, Waits, Tx
  <2> QED BY <1>1, <1>2, <1>3, <2>1 DEF SoloInv, Waits
<1>5. ServerInv'
  <2>1. (db.up /\ db.state # "idle" => \E y \in Tops : Blocks(y) \/ tx[y].left)'
    BY <1>1, <1>2 DEF ServerInv, Proper, Tx
  <2>2. (\A y \in Tops : Blocks(y) /\ db.up => db.state # "idle")'
    BY <1>2 DEF ServerInv, Proper
  <2>3. (db.fate # "none" => \A y \in Tx : Blocks(y) => tx[y].doubted)'
    BY <1>1, <1>2 DEF ServerInv, Proper
  <2>4. (db.up /\ Active(Sub) => db.saved # None)'
    BY <1>2 DEF ServerInv, Proper
  <2> QED BY <2>1, <2>2, <2>3, <2>4 DEF ServerInv
<1>8. LeftInv'
  <2>1. db.up /\ db.state = "failed" /\ db'.up => db'.state = "failed"
    BY DEF Proper
  <2>2. db'.up => db.up
    BY DEF Proper
  <2>3. ASSUME NEW y \in Tx, Blocks(y)', tx'[y].pending, db'.up
        PROVE  db'.state = "failed"
    <3>1. CASE tx[y].pending
      BY <1>2, <2>1, <2>2, <2>3, <3>1 DEF LeftInv
    <3>2. CASE ~tx[y].pending
      BY <1>0, <1>2, <2>3, <3>2 DEF Proper
    <3> QED BY <3>1, <3>2
  <2>4. ASSUME NEW y \in Tops, tx'[y].left
        PROVE  (db'.up => db'.state = "failed") /\ \A z \in Tx : ~Blocks(z)'
    <3>1. tx[y].left
      BY <1>1, <2>4 DEF Tx
    <3> QED BY <1>2, <2>1, <2>2, <3>1 DEF LeftInv
  <2> QED BY <2>3, <2>4 DEF LeftInv
<1>6. KeepInv'
  <2>1. ASSUME NEW y \in Tops, Blocks(y)', db'.up, ~Spoiled(y)'
        PROVE  /\ db'.state = "failed" => SubFailed(y)'
               /\ db'.state = "block" => tx'[y].acked \subseteq db'.work
               /\ (Active(Sub) /\ tx[Sub].parent = y)' => tx'[y].acked \subseteq db'.saved
    <3>1. Blocks(y) /\ ~Spoiled(y) /\ db.up
      BY <1>1, <1>2, <2>1 DEF Proper
    <3>2. /\ db.state = "failed" => SubFailed(y)
          /\ db.state = "block" => tx[y].acked \subseteq db.work
          /\ Active(Sub) /\ tx[Sub].parent = y => tx[y].acked \subseteq db.saved
      BY <3>1 DEF KeepInv
    <3>3. ASSUME db'.state = "failed"
          PROVE  SubFailed(y)'
      <4>1. CASE db.state = "failed"
        BY <1>1, <1>2, <3>2, <4>1 DEF SubFailed
      <4>2. CASE db.state # "failed"
        <5>1. Active(x) /\ Spoiled(x)'
          BY <1>0, <2>1, <3>3, <4>2 DEF Proper, Spoiled, SpoiledObject
        <5>2. x = Sub
          BY <2>1, <3>1, <5>1 DEF SoloInv, Blocks, Tx
        <5>3. tx[Sub].parent = y
          BY <1>3, <3>1, <5>1, <5>2 DEF SoloInv, Blocks, LifeInv
        <5> QED BY <1>1, <1>2, <5>1, <5>2, <5>3 DEF SubFailed
      <4> QED BY <4>1, <4>2
    <3>4. ASSUME db'.state = "block" PROVE tx'[y].acked \subseteq db'.work
      <4>1. db.state = "block" /\ db.work \subseteq db'.work
        BY <2>1, <3>4 DEF Proper
      <4>2. CASE y = x
        <5>1. ~SpoiledObject(v) /\ Active(x)
          BY <1>0, <2>1, <3>1, <4>2 DEF Spoiled, SpoiledObject, Blocks
        <5> QED BY <1>0, <2>1, <3>2, <3>4, <4>1, <4>2, <5>1 DEF Proper
      <4> QED BY <1>0, <3>2, <4>1, <4>2
    <3>5. ASSUME (Active(Sub) /\ tx[Sub].parent = y)' PROVE tx'[y].acked \subseteq db'.saved
      <4>1. Active(Sub) /\ tx[Sub].parent = y /\ tx[Sub].alive
        BY <1>1, <1>2, <3>5 DEF LifeInv
      <4>2. tx'[y].acked = tx[y].acked
        BY <1>0, <4>1 DEF Proper, Waits
      <4> QED BY <2>1, <3>2, <4>1, <4>2 DEF Proper
    <3> QED BY <3>3, <3>4, <3>5
  <2>2. ASSUME Active(Sub)', db'.up, ~Spoiled(Sub)', db'.state = "block"
        PROVE  tx'[Sub].acked \subseteq db'.work
    <3>1. Active(Sub) /\ ~Spoiled(Sub) /\ db.up /\ db.state = "block" /\ db.work \subseteq db'.work
      BY <1>1, <1>2, <2>2 DEF Proper
    <3>2. tx[Sub].acked \subseteq db.work
      BY <3>1 DEF KeepInv
    <3>3. CASE x = Sub
      <4>1. ~SpoiledObject(v) /\ Active(x)
        BY <1>0, <2>2, <3>1, <3>3 DEF Spoiled, SpoiledObject
      <4> QED BY <1>0, <2>2, <3>1, <3>2, <3>3, <4>1 DEF Proper
    <3> QED BY <1>0, <3>1, <3>2, <3>3
  <2>3. ASSUME NEW y \in Tops, tx'[y].kind = "nontransaction", Active(y)', ~Spoiled(y)'
        PROVE  Durable(y)'
    <3>1. tx[y].acked \subseteq db.durable /\ db.durable \subseteq db'.durable
      BY <1>1, <1>2, <2>3 DEF KeepInv, Proper, Durable
    <3>2. CASE y = x
      <4>1. ~SpoiledObject(v) /\ tx[x].kind = "nontransaction"
        BY <1>0, <1>1, <2>3, <3>2 DEF Spoiled, SpoiledObject
      <4> QED BY <1>0, <3>1, <3>2, <4>1 DEF Proper, Durable
    <3> QED BY <1>0, <3>1, <3>2 DEF Durable
  <2>4. CommitKeepsAll'
    BY <1>0, <1>1 DEF KeepInv, CommitKeepsAll, Proper, Durable, Marred
  <2> QED BY <2>1, <2>2, <2>3, <2>4 DEF KeepInv
<1>7. DropInv'
  <2>0. /\ \A y \in Tx : tx[y].wrote \subseteq Tried /\ F \cap tx[y].wrote = {}
        /\ F \cap (db.durable \cup Held(db)) = {}
    BY DEF Tried, DropInv, Proper
  <2>1. (db.durable \cup Held(db) \subseteq Tried)'
    <3>1. Tried \cup F \subseteq Tried'
      BY <1>0 DEF Tried, Proper
    <3> QED BY <3>1 DEF DropInv, Proper
  <2>2. ASSUME NEW y \in Tx, Blocks(y)', ~tx'[y].doubted
        PROVE  tx'[y].wrote \cap db'.durable = {}
    <3>1. Blocks(y) /\ ~tx[y].doubted
      BY <1>1, <1>2, <2>2
    <3>2. db'.durable = db.durable
      BY <1>3, <3>1 DEF ServerInv, Proper, Blocks, LifeInv, Tx
    <3>3. tx[y].wrote \cap db.durable = {}
      BY <3>1 DEF DropInv
    <3> QED BY <1>0, <2>0, <3>2, <3>3 DEF Proper
  <2>3. ASSUME NEW y \in Tops, tx'[y].status = "aborted", tx'[y].kind # "nontransaction",
               ~tx'[y].unsure
        PROVE  /\ tx'[y].wrote \cap db'.durable = {}
               /\ (tx'[y].left /\ db'.up) \/ tx'[y].wrote \cap Held(db') = {}
    <3>1. tx[y].status = "aborted" /\ tx[y].kind # "nontransaction" /\ ~tx[y].unsure
      BY <1>1, <2>3 DEF Tx
    <3>2. tx[y].wrote \cap db.durable = {} /\ ((tx[y].left /\ db.up) \/ tx[y].wrote \cap Held(db) = {})
      BY <3>1 DEF DropInv
    <3>3. CASE tx[y].left /\ db.up
      <4>1. db'.durable = db.durable /\ tx'[y].left
        BY <1>1, <3>3 DEF Proper, LeftInv, Tx
      <4>2. ~db'.up => Held(db') = {}
        BY <3>3 DEF Proper, DbMoves, Sound, TypeInv, Held
      <4>3. tx'[y].wrote \cap db'.durable = {}
        BY <1>0, <2>0, <3>2, <4>1 DEF Proper
      <4> QED BY <4>1, <4>2, <4>3
    <3>4. CASE tx[y].wrote \cap Held(db) = {}
      <4>1. tx[y].wrote \cap (db.durable \cup Held(db)) = {}
        BY <3>2, <3>4
      <4>2. CASE y = x
        BY <1>0, <2>0, <3>1, <4>1, <4>2 DEF Proper
      <4>3. CASE y # x
        BY <1>0, <2>0, <4>1, <4>3 DEF Proper
      <4> QED BY <4>2, <4>3
    <3> QED BY <3>2, <3>3, <3>4
  <2>4. ASSUME NEW y \in Tops, tx'[y].doubted, db'.fate \in {"aborted", "running"}
        PROVE  tx'[y].wrote \cap db'.durable = {}
    <3>1. tx[y].doubted /\ ~db.up /\ db'.durable = db.durable
      BY <1>1, <2>4 DEF KindInv, Proper
    <3>2. tx[y].wrote \cap db.durable = {}
      BY <2>4, <3>1 DEF DropInv, Proper
    <3> QED BY <1>0, <1>1, <2>0, <3>1, <3>2 DEF Proper
  <2> QED BY <2>1, <2>2, <2>3, <2>4 DEF DropInv
<1> QED BY <1>4, <1>5, <1>6, <1>7, <1>8

(***************************************************************************)
(* Statements and streams.                                                 *)
(***************************************************************************)
\* What every step keeps: Base for any client, the rest for a careful one.
StepOK == Base' /\ (Careful /\ CarefulInv => CarefulInv')

\* A command of an object that has no focus does not meet a COPY of another one.
LEMMA NoCopyHere ==
  ASSUME Base, CarefulInv, NEW x \in Tx, Active(x), ~tx[x].focus, ~Waits(x)
  PROVE  Finds(db) = db.state /\ \A y \in Tx : Active(y) => ~tx[y].focus
<1> USE Names DEF Base, CarefulInv
<1>1. ASSUME NEW y \in Tx, Active(y), tx[y].focus PROVE FALSE
  <2>1. y # x /\ stream.on = y
    BY <1>1 DEF StreamInv
  <2>2. \A z \in Tx : Active(z) /\ z \notin Tops => z = Sub /\ tx[Sub].alive /\ tx[Sub].parent \in Tops
                      /\ Active(tx[Sub].parent) /\ y # tx[Sub].parent
    BY <2>1 DEF Tx, LifeInv, SoloInv, Blocks, KindInv, Active
  <2>3. CASE x \in Tops /\ y \in Tops
    BY <1>1, <2>1, <2>3 DEF SoloInv
  <2>4. CASE x \in Tops /\ y \notin Tops
    BY <1>1, <2>2, <2>4 DEF SoloInv, Waits
  <2>5. CASE x \notin Tops
    <3>1. x = Sub /\ y \in Tops
      BY <1>1, <2>1, <2>2, <2>5
    <3> QED BY <1>1, <2>2, <2>5, <3>1 DEF SoloInv
  <2> QED BY <2>3, <2>4, <2>5
<1>2. ASSUME db.copy = "in", db.state # "idle" PROVE FALSE
  <2>1. stream.on \in Tx /\ tx[stream.on].focus /\ Active(stream.on)
    BY <1>2 DEF CopyInv, StreamInv, TypeInv, StreamType
  <2> QED BY <1>1, <2>1
<1> QED BY <1>1, <1>2 DEF Finds

\* CopyInv is kept if no COPY starts and the stream stays.
LEMMA CopyKept ==
  ASSUME Base, CopyInv, NEW x \in Tx, NEW v, Becomes(x, v), Used(tx[x], v),
         db'.copy = "in" => /\ db.copy = "in" /\ stream'.rows \subseteq db'.copied
                            /\ stream'.kind = stream.kind /\ ~stream'.finished,
         db'.copy # "none" /\ ~stream'.finished =>
                            /\ db.copy # "none" /\ ~stream.finished /\ stream'.on = stream.on
                            /\ db'.state = db.state,
         \/ \A y \in Tx : Blocks(y) => ~tx'[y].focus
         \/ /\ v.focus => tx[x].focus
            /\ db'.up => db.up /\ db'.copy = db.copy /\ stream'.kind = stream.kind
  PROVE  CopyInv'
<1> USE Names DEF Base
<1>1. tx' \in [Tx -> TxType] /\ tx'[x] = v /\ \A y \in Tx \ {x} : tx'[y] = tx[y]
  BY OneChanged
<1>2. ASSUME db'.copy # "none", ~stream'.finished
      PROVE  /\ Active(stream.on)' \/ tx'[stream'.on].kind = "nontransaction"
             /\ tx'[stream'.on].kind = "nontransaction" => db'.state = "idle"
             /\ db'.state # "failed"
  <2>1. stream.on \in Tx
    BY <1>2 DEF StreamInv, TypeInv, StreamType
  <2>2. tx'[stream.on].kind = tx[stream.on].kind /\ tx'[stream.on].status = tx[stream.on].status
    BY <1>1, <2>1 DEF Used
  <2> QED BY <1>2, <2>2 DEF CopyInv, Active
<1>3. ASSUME NEW y \in Tx, Blocks(y)', tx'[y].focus, db'.up
      PROVE  db'.copy = IF stream'.kind = "to" THEN "in" ELSE "out"
  <2>1. Blocks(y)
    BY <1>1, <1>3 DEF Used, Blocks, Active
  <2>2. v.focus => tx[x].focus
    BY <1>1, <1>3, <2>1
  <2>3. tx[y].focus /\ db.up /\ db'.copy = db.copy /\ stream'.kind = stream.kind
    BY <1>1, <1>3, <2>1, <2>2
  <2> QED BY <2>1, <2>3 DEF CopyInv
<1> QED BY <1>2, <1>3 DEF CopyInv

\* A call that throws without having sent a command, or reports a pending error.
LEMMA QuietUse ==
  ASSUME Base, NEW x \in Tx, NEW v, Becomes(x, v), Used(tx[x], v), tx[x].alive, asking.by = None,
         v.focus <=> tx[x].focus, v.acked = tx[x].acked, v.wrote = tx[x].wrote, v.upset,
         v.pending => tx[x].pending,
         UNCHANGED <<db, trans, stream, asking>>
  PROVE  StepOK
<1>1. DbMoves
  BY DEF DbMoves, Base, TypeInv
<1>2. Base'
  BY <1>1, UseStep DEF Base, TypeInv
<1>3. ASSUME CarefulInv PROVE CarefulInv'
  <2>1. CopyInv'
    BY <1>3, CopyKept DEF CarefulInv, CopyInv
  <2>2. Proper(x, v, {})
    BY DEF Proper, SpoiledObject
  <2> QED BY <1>1, <1>3, <2>1, <2>2, CarefulUse
<1> QED BY <1>2, <1>3 DEF StepOK

\* A call that throws at its checks.
LEMMA ThrowsStep ==
  ASSUME Base, NEW x \in Tx, Call(x), Throws(x), UNCHANGED <<db, trans, stream, asking>>
  PROVE  StepOK
<1> DEFINE v == [tx[x] EXCEPT !.upset = TRUE]
<1>1. /\ v \in TxType /\ Used(tx[x], v) /\ v.upset /\ v.acked = tx[x].acked /\ v.wrote = tx[x].wrote
      /\ v.focus <=> tx[x].focus
      /\ v.pending => tx[x].pending
  BY DEF Base, TypeInv, TxType, Used
<1>2. Becomes(x, v)
  BY <1>1 DEF Becomes, Throws
<1> HIDE DEF v
<1> QED BY <1>1, <1>2, QuietUse DEF Call

\* check_pending_error throws the pending error.
LEMMA ReportsPendingStep ==
  ASSUME Base, NEW x \in Tx, Call(x), ReportsPending(x)
  PROVE  StepOK
<1> DEFINE v == [tx[x] EXCEPT !.pending = FALSE, !.upset = TRUE]
<1>1. /\ v \in TxType /\ Used(tx[x], v) /\ v.upset /\ v.acked = tx[x].acked /\ v.wrote = tx[x].wrote
      /\ v.focus <=> tx[x].focus
      /\ v.pending => tx[x].pending
  BY DEF Base, TypeInv, TxType, Used
<1>2. Becomes(x, v)
  BY <1>1 DEF Becomes, ReportsPending, Base, TypeInv
<1> HIDE DEF v
<1> QED BY <1>1, <1>2, QuietUse DEF Call, ReportsPending

\* What is written next was not tried before.
LEMMA FreshWrite ==
  ASSUME NEW w, Unused(w)
  PROVE  {w} \cap Tried = {}
  BY DEF Unused, Tried

\* exec and exec_params after their checks.
LEMMA RunsStep ==
  ASSUME Base, NEW x \in Tx, NEW w \in Work, Call(x), Heeds(x), Unused(w), ~tx[x].focus, Runs(x, w)
  PROVE  StepOK
<1> USE Names DEF Call
<1> PICK o \in Execute(db, "write", {w}) :
        /\ db' = o.db
        /\ tx' = [tx EXCEPT ![x].wrote = @ \cup {w},
                            ![x].acked = IF o.r = "ok" THEN @ \cup {w} ELSE @,
                            ![x].upset = @ \/ o.r # "ok"]
        /\ UNCHANGED <<trans, stream, asking>>
  BY DEF Runs
<1> DEFINE t == tx[x]
           v == [t EXCEPT !.wrote = @ \cup {w}, !.acked = IF o.r = "ok" THEN @ \cup {w} ELSE @,
                          !.upset = @ \/ o.r # "ok"]
<1>0. db \in DbType /\ t \in TxType /\ Sound(db)
  BY DEF Base, TypeInv, Sound
<1>1. /\ v \in TxType /\ Used(t, v)
      /\ v.focus <=> t.focus
      /\ v.pending <=> t.pending
      /\ v.upset <=> t.upset \/ o.r # "ok"
      /\ v.acked = IF o.r = "ok" THEN t.acked \cup {w} ELSE t.acked
      /\ v.wrote = t.wrote \cup {w}
  BY <1>0 DEF TxType, Used
<1>2. Becomes(x, v)
  BY <1>1 DEF Becomes, Base, TypeInv
<1> HIDE DEF v
<1>3. DbMoves
  BY <1>0, ExecuteSound DEF DbMoves, Ops
<1>4. Base'
  BY <1>1, <1>2, <1>3, UseStep DEF Base, TypeInv
<1>5. ASSUME Careful, CarefulInv PROVE CarefulInv'
  <2>1. Active(x) /\ ~Waits(x) /\ Finds(db) = db.state /\ \A y \in Tx : Active(y) => ~tx[y].focus
    BY <1>5, NoCopyHere DEF Heeds, Active
  <2>2. db'.copy = "none"
    BY <1>0, ExecuteAny DEF Ops, CopyOps, Sound
  <2>3. CopyInv'
    <3>1. \A y \in Tx : Active(y)' => ~tx'[y].focus
      BY <1>1, <1>2, <2>1, OneChanged DEF Base, Used, Active
    <3> QED BY <2>2, <3>1 DEF CopyInv, Blocks
  <2>4. /\ o.db.durable # db.durable => db.state = "idle" /\ o.db.durable = db.durable \cup {w}
        /\ o.db.up =>
           /\ o.db.saved = db.saved
           /\ \/ /\ o.r = "ok" /\ db.state # "failed" /\ o.db.state = db.state
                 /\ o.db.durable = IF db.state = "idle" THEN db.durable \cup {w} ELSE db.durable
                 /\ o.db.work = IF db.state = "idle" THEN db.work ELSE db.work \cup {w}
              \/ /\ o.r = "sql_error" /\ o.db.state = Fails(db.state)
                 /\ o.db.durable = db.durable /\ o.db.work = db.work
    <3>1. /\ o.db.durable # db.durable => Finds(db) = "idle" /\ o.db.durable = db.durable \cup {w}
          /\ o.db.up =>
             /\ o.db.saved = db.saved
             /\ \/ /\ o.r = "ok" /\ Finds(db) # "failed" /\ o.db.state = Finds(db)
                   /\ o.db.durable = IF Finds(db) = "idle" THEN db.durable \cup {w} ELSE db.durable
                   /\ o.db.work = IF Finds(db) = "idle" THEN db.work ELSE db.work \cup {w}
                \/ /\ o.r = "sql_error" /\ o.db.state = Fails(db.state)
                   /\ o.db.durable = db.durable /\ o.db.work = db.work
      <4>1. {w} \in SUBSET Work
        OBVIOUS
      <4> QED BY <1>0, <4>1, ExecuteWrite, Zenon
    <3> QED BY <2>1, <3>1
  <2>5. /\ o.db \in DbType /\ (o.r = "broken" <=> ~o.db.up) /\ (o.db.up => db.up /\ o.db.copied = {})
        /\ db.durable \subseteq o.db.durable /\ o.db.fate = db.fate
        /\ ~db.up => /\ o.db.work = db.work /\ o.db.saved = db.saved
                     /\ o.db.copied = db.copied /\ o.db.durable = db.durable
        /\ db.up /\ ~o.db.up => o.db.saved = None /\ o.db.copied = {} /\ o.db.work = {}
    BY <1>0, ExecuteAny DEF Ops
  <2>6. Proper(x, v, {w})
    <3>1. /\ db'.up => /\ db.up /\ (db'.state = "idle" <=> db.state = "idle")
                       /\ db'.saved = db.saved /\ db.work \subseteq db'.work
          /\ db'.fate = db.fate /\ db.durable \subseteq db'.durable
      BY <2>4, <2>5 DEF Fails
    <3>2. /\ db'.up /\ db'.state # db.state =>
                db'.state = "failed" /\ Active(x) /\ SpoiledObject(v)
          /\ Spoiled(x) => SpoiledObject(v)
      BY <1>1, <2>1, <2>4 DEF Fails, SpoiledObject, Spoiled, DbType, States
    <3>3. /\ Waits(x) \/ tx[x].status = "committed" => v.acked = tx[x].acked
          /\ ~SpoiledObject(v) /\ Active(x) /\ db'.up /\ db'.state = "block"
                => v.acked \subseteq tx[x].acked \cup db'.work
      BY <1>1, <2>1, <2>4 DEF SpoiledObject, Active
    <3>4. ~SpoiledObject(v) /\ tx[x].kind = "nontransaction"
                => v.acked \subseteq tx[x].acked \cup db'.durable
      <4>1. SUFFICES ASSUME ~SpoiledObject(v), tx[x].kind = "nontransaction"
                     PROVE  v.acked \subseteq tx[x].acked \cup db'.durable
        OBVIOUS
      <4>2. o.r = "ok" /\ db'.up
        BY <1>1, <2>5, <4>1 DEF SpoiledObject
      <4>3. x \in Tops
        BY <4>1 DEF Base, KindInv, LifeInv, NoTx, Tx
      <4>4. db.state = "idle"
        <5>1. db.state # "failed"
          BY <2>4, <4>2
        <5> QED BY <1>5, <2>1, <2>5, <4>1, <4>2, <4>3, <5>1 DEF CarefulInv, ServerInv, LeftInv, SoloInv, Blocks
      <4> QED BY <1>1, <2>4, <4>2, <4>4
    <3>5. v.wrote = tx[x].wrote \cup {w} /\ {w} \cap Tried = {}
      BY <1>1, FreshWrite
    <3>6. db'.durable \cup Held(db') \subseteq db.durable \cup Held(db) \cup {w}
      <4>1. CASE db'.up
        BY <2>4, <2>5, <4>1 DEF Held
      <4>2. CASE ~db'.up
        BY <2>4, <2>5, <4>2 DEF Held
      <4> QED BY <4>1, <4>2
    <3>7. db'.durable # db.durable => db.up /\ db.state = "idle"
      BY <2>4, <2>5
    <3> QED BY <1>1, <2>1, <3>1, <3>2, <3>3, <3>4, <3>5, <3>6, <3>7 DEF Proper, Active
  <2> QED BY <1>1, <1>2, <1>3, <1>5, <2>3, <2>6, CarefulUse
<1> QED BY <1>4, <1>5 DEF StepOK

\* While a nontransaction is in use there is no block but a failed one.
LEMMA NonTransactionIdle ==
  ASSUME Base, CarefulInv, NEW x \in Tx, Active(x), tx[x].kind = "nontransaction", db.up
  PROVE  db.state \in {"idle", "failed"}
<1>1. x \in Tops
  BY DEF Base, KindInv, Active, Tx
<1> QED BY <1>1 DEF CarefulInv, ServerInv, LeftInv, SoloInv, Blocks

\* While an object has a block the server has one.
LEMMA BlocksBusy ==
  ASSUME Base, CarefulInv, NEW x \in Tx, Blocks(x), db.up
  PROVE  db.state # "idle"
<1>1. x \in Tops \/ (tx[Sub].parent \in Tops /\ Blocks(tx[Sub].parent))
  BY DEF Base, KindInv, LifeInv, CarefulInv, SoloInv, Blocks, Active, Tx
<1> QED BY <1>1 DEF CarefulInv, ServerInv

\* A call that writes nothing: a command that fails is seen by the object.
LEMMA ProperReading ==
  ASSUME Base, NEW x \in Tx, NEW v, v.acked = tx[x].acked, v.wrote = tx[x].wrote,
         Spoiled(x) => SpoiledObject(v),
         db'.up => /\ db.up /\ db'.saved = db.saved /\ db'.work = db.work
                   /\ \/ db'.state = db.state
                      \/ db'.state = Fails(db.state) /\ Active(x) /\ SpoiledObject(v),
         db'.fate = db.fate, db'.durable = db.durable, Held(db') \subseteq Held(db),
         v.pending /\ ~tx[x].pending => ~Waits(x) /\ (Blocks(x) /\ db'.up => db'.state = "failed")
  PROVE  Proper(x, v, {})
  BY DEF Proper, Fails

\* The constructors of stream_to and stream_from.
LEMMA OpenStreamStep ==
  ASSUME Base, NEW x \in Tx, NEW kind \in {"to", "from"}, OpenStream(x, kind)
  PROVE  StepOK
<1> USE Names
<1> DEFINE op == IF kind = "to" THEN "copy_in" ELSE "copy_out"
<1>a. op \in Ops /\ op \in CopyOps /\ op \notin {"write", "commit"} /\ (op = "copy_in" <=> kind = "to")
  BY DEF Ops, CopyOps
<1>b. /\ asking.by = None /\ tx[x].alive /\ Heeds(x) /\ stream.on = None
      /\ tx[x].status = "active" /\ ~tx[x].pending /\ ~tx[x].focus
      /\ UNCHANGED <<trans, asking>>
  BY DEF OpenStream, Call
<1> PICK o \in Execute(db, op, {}) :
          /\ db' = o.db
          /\ IF o.r = "ok"
             THEN /\ stream' = [NoStream EXCEPT !.kind = kind, !.on = x, !.finished = FALSE]
                  /\ tx' = [tx EXCEPT ![x].focus = TRUE]
             ELSE Throws(x) /\ UNCHANGED stream
  BY DEF OpenStream
<1> HIDE DEF op
<1>0. db \in DbType /\ tx[x] \in TxType /\ Sound(db) /\ tx \in [Tx -> TxType]
  BY DEF Base, TypeInv, Sound
<1> DEFINE v == IF o.r = "ok" THEN [tx[x] EXCEPT !.focus = TRUE] ELSE [tx[x] EXCEPT !.upset = TRUE]
<1>1. /\ v \in TxType /\ Used(tx[x], v) /\ v.acked = tx[x].acked /\ v.wrote = tx[x].wrote
      /\ v.pending <=> tx[x].pending
      /\ o.r = "ok" => v.focus /\ (v.upset <=> tx[x].upset)
      /\ o.r # "ok" => v.upset /\ (v.focus <=> tx[x].focus)
  <2>1. CASE o.r = "ok"
    BY <1>0, <2>1 DEF TxType, Used
  <2>2. CASE o.r # "ok"
    BY <1>0, <2>2 DEF TxType, Used
  <2> QED BY <2>1, <2>2
<1>2. Becomes(x, v)
  BY <1>0, <1>1 DEF Becomes, Throws
<1> HIDE DEF v
<1>3. DbMoves
  BY <1>0, <1>a, ExecuteSound DEF DbMoves
<1>4. o.r = "ok" => /\ stream' \in StreamType /\ stream'.kind = kind /\ stream'.on = x
                    /\ ~stream'.finished /\ stream'.rows = {}
  BY DEF NoStream, StreamType
<1>5. Base'
  <2>1. CASE o.r = "ok"
    <3>1. v.status = "active" /\ stream'.kind # "none" /\ v.focus
      BY <1>b, <1>1, <1>4, <2>1 DEF Used
    <3> QED BY <1>b, <1>1, <1>2, <1>3, <1>4, <2>1, <3>1, UseStep
  <2>2. CASE o.r # "ok"
    <3>1. stream' = stream /\ stream' \in StreamType
      BY <2>2 DEF Base, TypeInv
    <3> QED BY <1>b, <1>1, <1>2, <1>3, <2>2, <3>1, UseStep
  <2> QED BY <2>1, <2>2
<1>6. ASSUME Careful, CarefulInv PROVE CarefulInv'
  <2>1. Active(x) /\ ~Waits(x) /\ Finds(db) = db.state /\ \A y \in Tx : Active(y) => ~tx[y].focus
    BY <1>b, <1>6, NoCopyHere DEF Heeds, Active
  <2>2. o.db.up => /\ o.db.work = db.work /\ o.db.saved = db.saved
                   /\ \/ /\ o.r = "ok" /\ db.state # "failed" /\ o.db.state = db.state
                         /\ o.db.copy = IF op = "copy_in" THEN "in" ELSE "out"
                      \/ o.r = "sql_error" /\ o.db.state = Fails(db.state) /\ o.db.copy = "none"
    BY <1>0, <1>a, <2>1, ExecuteCopy
  <2>3. /\ o.db \in DbType /\ (o.r = "broken" <=> ~o.db.up) /\ (o.db.up => db.up /\ o.db.copied = {})
        /\ o.db.durable = db.durable /\ o.db.fate = db.fate
        /\ ~db.up => /\ o.db.work = db.work /\ o.db.saved = db.saved
                     /\ o.db.copied = db.copied /\ o.db.copy = db.copy
        /\ db.up /\ ~o.db.up => o.db.saved = None /\ o.db.copied = {} /\ o.db.work = {} /\ o.db.copy = "none"
    BY <1>0, <1>a, ExecuteAny
  <2>4. Held(db') \subseteq Held(db)
    <3>1. CASE db'.up BY <2>2, <2>3, <3>1 DEF Held
    <3>2. CASE ~db'.up BY <2>3, <3>2 DEF Held
    <3> QED BY <3>1, <3>2
  <2>5. Proper(x, v, {})
    <3>1. Spoiled(x) => SpoiledObject(v)
      BY <1>1 DEF Spoiled, SpoiledObject
    <3>2. o.r # "ok" => SpoiledObject(v)
      BY <1>1 DEF SpoiledObject
    <3> QED BY <1>1, <2>1, <2>2, <2>3, <2>4, <3>1, <3>2, ProperReading
  <2>6. CopyInv'
    <3>0. tx'[x] = v /\ \A y \in Tx \ {x} : tx'[y] = tx[y]
      BY <1>2, OneChanged DEF Base
    <3>1. CASE o.r # "ok"
      <4>1. db'.copy = "none"
        BY <1>0, <2>2, <2>3, <3>1 DEF Sound
      <4>2. \A y \in Tx : Active(y)' => ~tx'[y].focus
        BY <1>1, <2>1, <3>0, <3>1 DEF Used, Active
      <4> QED BY <4>1, <4>2 DEF CopyInv, Blocks
    <3>2. CASE o.r = "ok"
      <4>1. db'.up /\ db.up /\ db'.state = db.state /\ db.state # "failed"
        BY <2>2, <2>3, <3>2
      <4>2. db'.copy = IF kind = "to" THEN "in" ELSE "out"
        BY <1>a, <2>2, <3>2, <4>1
      <4>3. tx'[x].status = "active" /\ tx'[x].kind = tx[x].kind
        BY <1>b, <1>1, <3>0 DEF Used
      <4>4. tx[x].kind = "nontransaction" => db'.state = "idle"
        BY <1>6, <2>1, <4>1, NonTransactionIdle
      <4> QED BY <1>4, <3>2, <4>1, <4>2, <4>3, <4>4 DEF CopyInv, Active
    <3> QED BY <3>1, <3>2
  <2>7. stream'.on = stream.on \/ (stream'.on = x /\ ~Waits(x))
    BY <1>4, <2>1
  <2> QED BY <1>b, <1>1, <1>2, <1>3, <1>6, <2>5, <2>6, <2>7, CarefulUse
<1> QED BY <1>5, <1>6 DEF StepOK

\* The object that a stream is on.
LEMMA StreamObject ==
  ASSUME Base, stream.kind # "none"
  PROVE  stream.on \in Tx /\ tx[stream.on].alive /\ tx[stream.on] \in TxType
  BY DEF Base, StreamInv, TypeInv, StreamType

\* While a stream is unfinished its object has it for a focus, is not committed and
\* has no subtransaction.
LEMMA StreamActor ==
  ASSUME Base, CarefulInv, stream.kind # "none"
  PROVE  /\ ~Waits(stream.on)
         /\ ~stream.finished => tx[stream.on].status # "committed"
<1> USE Names, StreamObject DEF Base
<1>1. ~Waits(stream.on)
  BY DEF CarefulInv, SoloInv, Waits
<1>2. ~stream.finished => tx[stream.on].status # "committed"
  BY DEF StreamInv
<1> QED BY <1>1, <1>2

\* stream_to::write_row.
LEMMA WriteRowStep ==
  ASSUME Base, NEW w \in Work, WriteRow(w)
  PROVE  StepOK
<1> USE Names
<1> DEFINE x == stream.on
<1>b. /\ asking.by = None /\ stream.kind = "to" /\ ~stream.finished /\ Unused(w)
      /\ UNCHANGED <<trans, asking>>
  BY DEF WriteRow, StreamCall
<1>0. /\ db \in DbType /\ Sound(db) /\ tx \in [Tx -> TxType] /\ stream \in StreamType
      /\ x \in Tx /\ tx[x].alive /\ tx[x] \in TxType
  BY <1>b, StreamObject DEF Base, TypeInv, Sound
<1> DEFINE row == [tx[x] EXCEPT !.wrote = @ \cup {w}]
           bad == [tx[x] EXCEPT !.wrote = @ \cup {w}, !.upset = TRUE]
<1>1. ASSUME db.copy = "in" \/ ~db.up,
             db' = IF db.up THEN [db EXCEPT !.copied = @ \cup {w}] ELSE db,
             stream' = [stream EXCEPT !.rows = @ \cup {w}],
             tx' = [tx EXCEPT ![x].wrote = @ \cup {w}]
      PROVE  StepOK
  <2>1. /\ row \in TxType /\ Used(tx[x], row) /\ row.acked = tx[x].acked
        /\ row.wrote = tx[x].wrote \cup {w}
        /\ row.focus <=> tx[x].focus
        /\ row.pending <=> tx[x].pending
        /\ row.upset <=> tx[x].upset
    BY <1>0 DEF TxType, Used
  <2>2. Becomes(x, row)
    BY <1>0, <1>1, <2>1 DEF Becomes
  <2> HIDE DEF row
  <2>3. /\ db' \in DbType /\ db'.state = db.state /\ db'.work = db.work /\ db'.saved = db.saved
        /\ db'.copy = db.copy /\ db'.durable = db.durable /\ db'.fate = db.fate
        /\ db'.copied = IF db.up THEN db.copied \cup {w} ELSE db.copied
        /\ db'.up <=> db.up
    <3>1. CASE db.up BY <1>0, <1>1, <3>1 DEF DbType
    <3>2. CASE ~db.up BY <1>0, <1>1, <3>2
    <3> QED BY <3>1, <3>2
  <2>4. DbMoves
    BY <1>0, <2>3 DEF DbMoves, Sound
  <2>5. /\ stream' \in StreamType /\ stream'.on = stream.on /\ stream'.kind = stream.kind
        /\ stream'.finished <=> stream.finished
        /\ stream'.rows = stream.rows \cup {w}
    BY <1>0, <1>1 DEF StreamType
  <2>6. Base'
    BY <1>b, <1>0, <2>1, <2>2, <2>4, <2>5, UseStep
  <2>7. ASSUME CarefulInv PROVE CarefulInv'
    <3>1. ~Waits(x) /\ tx[x].status # "committed"
      BY <1>b, <2>7, StreamActor
    <3>2. ~db.up => db.copy = "none"
      BY <1>0 DEF Sound
    <3>3. CopyInv'
      <4>1. CopyInv
        BY <2>7 DEF CarefulInv
      <4>2. db'.copy = "in" => stream'.rows \subseteq db'.copied
        BY <2>3, <2>5, <3>2, <4>1 DEF CopyInv
      <4> QED BY <1>b, <1>0, <2>1, <2>2, <2>3, <2>5, <4>1, <4>2, CopyKept
    <3>4. Proper(x, row, {w})
      <4>1. {w} \cap Tried = {}
        BY <1>b, FreshWrite
      <4>2. Held(db') \subseteq Held(db) \cup {w}
        BY <2>3 DEF Held
      <4>3. tx[x].status = "aborted" /\ tx[x].kind # "nontransaction" => Held(db') \subseteq Held(db)
        <5>1. CASE db.up
          BY <1>b, <1>1, <2>7, <5>1 DEF CarefulInv, CopyInv, Active
        <5>2. CASE ~db.up
          BY <2>3, <5>2 DEF Held
        <5> QED BY <5>1, <5>2
      <4>4. Spoiled(x) => SpoiledObject(row)
        BY <2>1 DEF Spoiled, SpoiledObject
      <4> QED BY <2>1, <2>3, <4>1, <4>2, <4>3, <4>4 DEF Proper
    <3> QED BY <1>b, <1>0, <2>1, <2>2, <2>4, <2>5, <2>7, <3>3, <3>4, CarefulUse
  <2> QED BY <2>6, <2>7 DEF StepOK
<1>2. ASSUME db.copy # "in" \/ ~db.up,
             db' = IF db.up THEN db ELSE [db EXCEPT !.open = FALSE],
             stream' = stream,
             tx' = [tx EXCEPT ![x].wrote = @ \cup {w}, ![x].upset = TRUE]
      PROVE  StepOK
  <2>1. /\ bad \in TxType /\ Used(tx[x], bad) /\ bad.acked = tx[x].acked
        /\ bad.wrote = tx[x].wrote \cup {w}
        /\ bad.focus <=> tx[x].focus
        /\ bad.pending <=> tx[x].pending
        /\ bad.upset
    BY <1>0 DEF TxType, Used
  <2>2. Becomes(x, bad)
    BY <1>0, <1>2, <2>1 DEF Becomes
  <2> HIDE DEF bad
  <2>3. /\ db' \in DbType /\ db'.state = db.state /\ db'.work = db.work /\ db'.saved = db.saved
        /\ db'.copy = db.copy /\ db'.durable = db.durable /\ db'.fate = db.fate
        /\ db'.copied = db.copied
        /\ db'.up <=> db.up
    <3>1. CASE db.up BY <1>0, <1>2, <3>1
    <3>2. CASE ~db.up BY <1>0, <1>2, <3>2 DEF DbType
    <3> QED BY <3>1, <3>2
  <2>4. DbMoves
    BY <1>0, <2>3 DEF DbMoves, Sound
  <2>6. Base'
    BY <1>b, <1>0, <1>2, <2>1, <2>2, <2>4, UseStep
  <2>7. ASSUME CarefulInv PROVE CarefulInv'
    <3>1. ~Waits(x) /\ tx[x].status # "committed"
      BY <1>b, <2>7, StreamActor
    <3>3. CopyInv'
      <4>1. CopyInv
        BY <2>7 DEF CarefulInv
      <4>2. db.copy # "in"
        BY <1>0, <1>2 DEF Sound
      <4> QED BY <1>b, <1>0, <1>2, <2>1, <2>2, <2>3, <4>1, <4>2, CopyKept
    <3>4. Proper(x, bad, {w})
      <4>1. {w} \cap Tried = {}
        BY <1>b, FreshWrite
      <4>2. Held(db') = Held(db)
        BY <2>3 DEF Held
      <4> QED BY <2>1, <2>3, <4>1, <4>2 DEF Proper, SpoiledObject
    <3> QED BY <1>b, <1>0, <1>2, <2>1, <2>2, <2>4, <2>7, <3>3, <3>4, CarefulUse
  <2> QED BY <2>6, <2>7 DEF StepOK
<1> QED BY <1>1, <1>2 DEF WriteRow

\* The end of a stream_to, by complete() or by its destructor: rows that did not arrive
\* leave an error with the object.
LEMMA EndWriting ==
  ASSUME Base, stream.kind = "to", ~stream.finished, asking.by = None,
         NEW o \in EndCopyWrite, db' = o.db, NEW v, Becomes(stream.on, v), Used(tx[stream.on], v),
         ~v.focus, v.wrote = tx[stream.on].wrote,
         v.acked \subseteq tx[stream.on].acked \cup stream.rows,
         Spoiled(stream.on) => SpoiledObject(v),
         o.r # "ok" => SpoiledObject(v),
         v.pending => tx[stream.on].pending \/ o.r # "ok",
         UNCHANGED <<trans, asking>>,
         \/ /\ stream' \in StreamType /\ stream'.on = stream.on /\ stream'.kind = stream.kind
            /\ stream'.finished
         \/ stream' = NoStream
  PROVE  StepOK
<1> USE Names
<1> DEFINE x == stream.on
<1>0. /\ db \in DbType /\ Sound(db) /\ x \in Tx /\ tx[x].alive /\ tx[x] \in TxType
  BY StreamObject DEF Base, TypeInv, Sound
<1>1. DbMoves
  BY <1>0, WriteEndsSound DEF DbMoves
<1>2. stream' \in StreamType /\ stream'.finished /\ stream'.on \in {stream.on, None}
  <2>1. CASE stream' = NoStream
    BY <2>1 DEF NoStream, StreamType
  <2> QED BY <2>1
<1>3. Base'
  BY <1>0, <1>1, <1>2, UseStep
<1>4. ASSUME CarefulInv PROVE CarefulInv'
  <2>1. ~Waits(x) /\ tx[x].status # "committed"
    BY <1>4, StreamActor
  <2>2. CopyInv
    BY <1>4 DEF CarefulInv
  <2>3. o.db \in DbType /\ o.db.fate = db.fate
    BY <1>0, WriteEnds
  <2> DEFINE Down == /\ ~db.up /\ o.r = "broken" /\ ~o.db.up /\ o.db.state = db.state
                     /\ o.db.work = db.work /\ o.db.saved = db.saved /\ o.db.copy = db.copy
                     /\ o.db.copied = db.copied /\ o.db.durable = db.durable
             Off == db.up /\ db.copy # "in" /\ o.r = "failure" /\ o.db = db
             Over == db.up /\ db.copy = "in" /\ o.db.copy = "none" /\ o.db.copied = {}
             Good == /\ o.r = "ok" /\ o.db.up /\ o.db.state = db.state /\ o.db.saved = db.saved
                     /\ o.db.durable = IF db.state = "idle" THEN db.durable \cup db.copied ELSE db.durable
                     /\ o.db.work = IF db.state = "idle" THEN db.work ELSE db.work \cup db.copied
             Bad == /\ o.r = "sql_error" /\ o.db.up /\ o.db.state = Fails(db.state)
                    /\ o.db.saved = db.saved /\ o.db.durable = db.durable /\ o.db.work = db.work
             Gone == /\ o.r = "broken" /\ ~o.db.up /\ o.db.state = "idle" /\ o.db.saved = None
                     /\ o.db.work = {} /\ o.db.durable = db.durable
  <2>4. Down \/ Off \/ (Over /\ (Good \/ Bad \/ Gone))
    BY <1>0, WriteEnds
  <2>5. db'.copy # "in"
    BY <1>0, <2>4 DEF Sound
  <2>6. CopyInv'
    BY <1>2, <1>3, <2>5 DEF CopyInv, Base, StreamInv
  <2>8. v.pending /\ ~tx[x].pending /\ Blocks(x) /\ db'.up => db'.state = "failed"
    <3>1. SUFFICES ASSUME o.r # "ok", Blocks(x), db'.up PROVE db'.state = "failed"
      OBVIOUS
    <3>2. ~Off
      BY <1>0, <2>2, <3>1 DEF CopyInv, Base, StreamInv
    <3>3. Over /\ Bad
      BY <2>4, <3>1, <3>2
    <3>4. db.state # "idle"
      BY <1>0, <1>4, <3>1, <3>3, BlocksBusy
    <3> QED BY <3>3, <3>4 DEF Fails
  <2>7. Proper(x, v, {})
    <3>1. CASE Down
      <4>1. SpoiledObject(v) /\ Held(db') = Held(db)
        BY <3>1 DEF Held
      <4> QED BY <2>1, <2>3, <2>8, <3>1, <4>1 DEF Proper
    <3>2. CASE Off
      <4>1. SpoiledObject(v) /\ Held(db') = Held(db)
        BY <3>2 DEF Held
      <4> QED BY <2>1, <2>3, <2>8, <3>2, <4>1 DEF Proper
    <3>3. CASE Over /\ Good
      <4>1. /\ stream.rows \subseteq db.copied
            /\ tx[x].kind = "nontransaction" => db.state = "idle"
        BY <2>2, <3>3 DEF CopyInv
      <4>2. db'.durable \cup Held(db') \subseteq db.durable \cup Held(db)
        BY <3>3 DEF Held
      <4>3. db'.up /\ db'.state = "block" => v.acked \subseteq tx[x].acked \cup db'.work
        BY <3>3, <4>1
      <4>4. tx[x].kind = "nontransaction" => v.acked \subseteq tx[x].acked \cup db'.durable
        BY <3>3, <4>1
      <4> HIDE DEF Over, Good
      <4>5. /\ db.up /\ db'.up /\ db'.state = db.state /\ db'.saved = db.saved
            /\ db.work \subseteq db'.work /\ db.durable \subseteq db'.durable
            /\ db'.durable # db.durable => db.state = "idle"
        BY <3>3 DEF Over, Good
      <4> QED BY <2>1, <2>3, <2>8, <4>2, <4>3, <4>4, <4>5 DEF Proper
    <3>4. CASE Over /\ Bad
      <4>1. SpoiledObject(v) /\ Held(db') \subseteq Held(db)
        BY <3>4 DEF Held
      <4>2. db'.state # db.state => db'.state = "failed" /\ Active(x)
        BY <2>2, <3>4 DEF CopyInv, Fails
      <4> QED BY <2>1, <2>3, <2>8, <3>4, <4>1, <4>2 DEF Proper, Fails
    <3>5. CASE Over /\ Gone
      <4>1. SpoiledObject(v) /\ Held(db') \subseteq Held(db)
        BY <3>5 DEF Held
      <4> QED BY <2>1, <2>3, <2>8, <3>5, <4>1 DEF Proper
    <3> QED BY <2>4, <3>1, <3>2, <3>3, <3>4, <3>5
  <2> QED BY <1>0, <1>1, <1>2, <1>4, <2>6, <2>7, CarefulUse
<1> QED BY <1>3, <1>4 DEF StepOK

\* stream_to::complete.
LEMMA CompleteToStep ==
  ASSUME Base, CompleteTo
  PROVE  StepOK
<1> DEFINE x == stream.on
<1>b. /\ asking.by = None /\ stream.kind = "to" /\ ~stream.finished
      /\ stream' = [stream EXCEPT !.finished = TRUE] /\ UNCHANGED <<trans, asking>>
  BY DEF CompleteTo, StreamCall
<1>0. /\ x \in Tx /\ tx[x] \in TxType /\ tx \in [Tx -> TxType] /\ stream \in StreamType
  BY <1>b, StreamObject DEF Base, TypeInv
<1> PICK o \in EndCopyWrite :
          /\ db' = o.db
          /\ tx' = [tx EXCEPT ![x].focus = FALSE,
                              ![x].acked = IF o.r = "ok" THEN @ \cup stream.rows ELSE @,
                              ![x].upset = @ \/ o.r # "ok"]
  BY DEF CompleteTo
<1> DEFINE v == [tx[x] EXCEPT !.focus = FALSE,
                              !.acked = IF o.r = "ok" THEN @ \cup stream.rows ELSE @,
                              !.upset = @ \/ o.r # "ok"]
<1>c. /\ v \in TxType /\ ~v.focus /\ v.wrote = tx[x].wrote
      /\ v.acked = IF o.r = "ok" THEN tx[x].acked \cup stream.rows ELSE tx[x].acked
      /\ v.pending <=> tx[x].pending
      /\ v.upset <=> (tx[x].upset \/ o.r # "ok")
  BY <1>0 DEF TxType, StreamType
<1>d. Used(tx[x], v)
  BY <1>0 DEF TxType, Used, StreamType
<1>1. /\ v \in TxType /\ Used(tx[x], v) /\ ~v.focus /\ v.wrote = tx[x].wrote
      /\ v.acked = IF o.r = "ok" THEN tx[x].acked \cup stream.rows ELSE tx[x].acked
      /\ v.pending <=> tx[x].pending
      /\ v.upset <=> (tx[x].upset \/ o.r # "ok")
  BY <1>c, <1>d
<1>2. Becomes(x, v)
  BY <1>0, <1>1 DEF Becomes
<1> HIDE DEF v
<1>3. /\ v.acked \subseteq tx[x].acked \cup stream.rows
      /\ Spoiled(x) => SpoiledObject(v)
      /\ o.r # "ok" => SpoiledObject(v)
  BY <1>1 DEF Spoiled, SpoiledObject
<1>4. /\ stream' \in StreamType /\ stream'.on = stream.on /\ stream'.kind = stream.kind
      /\ stream'.finished
  BY <1>b, <1>0 DEF StreamType
<1> QED BY <1>b, <1>1, <1>2, <1>3, <1>4, EndWriting

\* The destructor of stream_to: an error becomes pending, so the object is spoiled although
\* its user takes the rows for written.
LEMMA DestroyToStep ==
  ASSUME Base, DestroyTo
  PROVE  StepOK
<1> USE Names
<1> DEFINE x == stream.on
<1>b. /\ asking.by = None /\ stream.kind = "to" /\ stream' = NoStream /\ UNCHANGED <<trans, asking>>
  BY DEF DestroyTo, StreamCall
<1>0. /\ x \in Tx /\ tx[x] \in TxType /\ tx \in [Tx -> TxType] /\ stream \in StreamType /\ tx[x].alive
      /\ Sound(db)
  BY <1>b, StreamObject DEF Base, TypeInv
<1>1. CASE stream.finished
  <2>1. UNCHANGED <<db, tx>>
    BY <1>1 DEF DestroyTo
  <2>2. Becomes(x, tx[x]) /\ Used(tx[x], tx[x])
    BY <1>0, <2>1 DEF Becomes, Used
  <2>3. ~tx[x].focus
    BY <1>1, <1>0 DEF Base, StreamInv
  <2>4. stream' \in StreamType /\ stream'.on = None /\ stream'.finished
    BY <1>b DEF NoStream, StreamType
  <2>5. Base'
    BY <1>b, <1>0, <2>1, <2>2, <2>3, <2>4, UseStep DEF DbMoves
  <2>6. ASSUME CarefulInv PROVE CarefulInv'
    <3>1. CopyInv'
      BY <1>1, <2>1, <2>4, <2>6 DEF CarefulInv, CopyInv, Base, StreamInv
    <3>2. Proper(x, tx[x], {})
      BY <2>1 DEF Proper, Spoiled, SpoiledObject
    <3> QED BY <1>b, <1>0, <2>1, <2>2, <2>4, <2>6, <3>1, <3>2, CarefulUse DEF DbMoves
  <2> QED BY <2>5, <2>6 DEF StepOK
<1>2. CASE ~stream.finished
  <2> PICK o \in EndCopyWrite :
            /\ db' = o.db
            /\ tx' = [tx EXCEPT ![x] = AfterDestructor(
                         [tx[x] EXCEPT !.focus = FALSE, !.acked = @ \cup stream.rows], o.r)]
    BY <1>2 DEF DestroyTo
  <2> DEFINE u == [tx[x] EXCEPT !.focus = FALSE, !.acked = @ \cup stream.rows]
             v == AfterDestructor(u, o.r)
  <2>1. /\ u \in TxType /\ Used(tx[x], u) /\ ~u.focus /\ u.wrote = tx[x].wrote
        /\ u.acked = tx[x].acked \cup stream.rows
        /\ u.pending <=> tx[x].pending
        /\ u.upset <=> tx[x].upset
    BY <1>0 DEF TxType, Used, StreamType
  <2>2. tx' = [tx EXCEPT ![x] = v]
    OBVIOUS
  <2> HIDE DEF u
  <2>3. /\ v \in TxType /\ Used(tx[x], v) /\ ~v.focus /\ v.wrote = tx[x].wrote
        /\ v.acked = tx[x].acked \cup stream.rows
        /\ v.pending <=> tx[x].pending \/ o.r # "ok"
        /\ v.upset <=> tx[x].upset
    BY <2>1 DEF AfterDestructor, TxType, Used
  <2> HIDE DEF v
  <2>4. /\ v.acked \subseteq tx[x].acked \cup stream.rows
        /\ Spoiled(x) => SpoiledObject(v)
        /\ o.r # "ok" => SpoiledObject(v)
    BY <2>3 DEF Spoiled, SpoiledObject
  <2>5. Becomes(x, v)
    BY <2>2, <2>3 DEF Becomes
  <2> QED BY <1>b, <1>2, <2>3, <2>4, <2>5, EndWriting
<1> QED BY <1>1, <1>2

\* The end of a stream_from.
LEMMA EndReading ==
  ASSUME Base, stream.kind = "from", ~stream.finished, asking.by = None,
         NEW o \in ReadEnds, db' = o.db, NEW v, Becomes(stream.on, v), Used(tx[stream.on], v),
         ~v.focus, v.wrote = tx[stream.on].wrote, v.acked = tx[stream.on].acked,
         Spoiled(stream.on) => SpoiledObject(v),
         o.r # "ok" => SpoiledObject(v),
         v.pending => tx[stream.on].pending \/ o.r # "ok",
         UNCHANGED <<trans, asking>>, stream' = [stream EXCEPT !.finished = TRUE]
  PROVE  StepOK
<1> USE Names
<1> DEFINE x == stream.on
<1>0. /\ db \in DbType /\ Sound(db) /\ x \in Tx /\ tx[x].alive /\ tx[x] \in TxType /\ stream \in StreamType
  BY StreamObject DEF Base, TypeInv, Sound
<1>1. DbMoves
  BY <1>0, ReadEndingSound DEF DbMoves
<1>2. /\ stream' \in StreamType /\ stream'.finished /\ stream'.on = stream.on
      /\ stream'.kind = stream.kind
  BY <1>0 DEF StreamType
<1>3. Base'
  BY <1>0, <1>1, <1>2, UseStep
<1>4. ASSUME CarefulInv PROVE CarefulInv'
  <2>2. CopyInv
    BY <1>4 DEF CarefulInv
  <2>3. o.db \in DbType /\ o.db.fate = db.fate /\ o.db.durable = db.durable
    BY <1>0, ReadEnding
  <2> DEFINE Down == /\ ~db.up /\ ~o.db.up /\ o.db.state = db.state
                     /\ o.db.work = db.work /\ o.db.saved = db.saved /\ o.db.copy = db.copy
                     /\ o.db.copied = db.copied
             Off == db.up /\ db.copy # "out" /\ o.db = db
             Over == db.up /\ db.copy = "out" /\ o.db.copy = "none"
             Read == /\ o.r \in {"ok", "sql_error"} /\ o.db.up /\ o.db.work = db.work
                     /\ o.db.saved = db.saved /\ o.db.copied = db.copied
                     /\ o.db.state = IF o.r = "ok" THEN db.state ELSE Fails(db.state)
             Gone == /\ ~o.db.up /\ o.db.saved = None /\ o.db.work = {} /\ o.db.copied = {}
  <2>4. Down \/ Off \/ (Over /\ (Read \/ Gone))
    BY <1>0, ReadEnding
  <2>5. db'.copy # "in"
    <3>1. db.copy # "in"
      BY <2>2 DEF CopyInv
    <3> QED BY <2>4, <3>1
  <2>6. CopyInv'
    BY <1>2, <1>3, <2>5 DEF CopyInv, Base, StreamInv
  <2>8. v.pending /\ ~tx[x].pending => ~Waits(x) /\ (Blocks(x) /\ db'.up => db'.state = "failed")
    <3>1. ~Waits(x)
      BY <1>4, StreamActor
    <3>2. ASSUME o.r # "ok", Blocks(x), db'.up PROVE db'.state = "failed"
      <4>1. ~Off
        BY <1>0, <2>2, <3>2 DEF CopyInv, Base, StreamInv
      <4>2. Over /\ Read
        BY <2>4, <3>2, <4>1
      <4>3. db.state # "idle"
        BY <1>0, <1>4, <3>2, <4>2, BlocksBusy
      <4> QED BY <3>2, <4>2, <4>3 DEF Fails
    <3> QED BY <3>1, <3>2
  <2>7. Proper(x, v, {})
    <3>1. CASE Down
      <4>1. Held(db') = Held(db)
        BY <3>1 DEF Held
      <4> QED BY <1>0, <2>3, <2>8, <3>1, <4>1, ProperReading
    <3>2. CASE Off
      BY <1>0, <2>3, <2>8, <3>2, ProperReading
    <3>3. CASE Over /\ Read
      <4>1. Held(db') = Held(db)
        BY <3>3 DEF Held
      <4>2. \/ db'.state = db.state
            \/ db'.state = Fails(db.state) /\ Active(x) /\ SpoiledObject(v)
        BY <2>2, <3>3 DEF CopyInv, Fails
      <4> QED BY <1>0, <2>3, <2>8, <3>3, <4>1, <4>2, ProperReading
    <3>4. CASE Over /\ Gone
      <4>1. Held(db') \subseteq Held(db)
        BY <3>4 DEF Held
      <4> QED BY <1>0, <2>3, <2>8, <3>4, <4>1, ProperReading
    <3> QED BY <2>4, <3>1, <3>2, <3>3, <3>4
  <2> QED BY <1>0, <1>1, <1>2, <1>4, <2>6, <2>7, CarefulUse
<1> QED BY <1>3, <1>4 DEF StepOK

\* stream_from::get_raw_line at the end or an error.
LEMMA ReadRowStep ==
  ASSUME Base, ReadRow
  PROVE  StepOK
<1> DEFINE x == stream.on
<1>b. /\ asking.by = None /\ stream.kind = "from" /\ ~stream.finished
      /\ stream' = [stream EXCEPT !.finished = TRUE] /\ UNCHANGED <<trans, asking>>
  BY DEF ReadRow, StreamCall
<1>0. /\ x \in Tx /\ tx[x] \in TxType /\ tx \in [Tx -> TxType]
  BY <1>b, StreamObject DEF Base, TypeInv
<1> PICK o \in ReadEnds :
          /\ db' = o.db
          /\ tx' = [tx EXCEPT ![x].focus = FALSE, ![x].upset = @ \/ o.r # "ok"]
  BY DEF ReadRow
<1> DEFINE v == [tx[x] EXCEPT !.focus = FALSE, !.upset = @ \/ o.r # "ok"]
<1>1. /\ v \in TxType /\ Used(tx[x], v) /\ ~v.focus /\ v.wrote = tx[x].wrote /\ v.acked = tx[x].acked
      /\ v.pending <=> tx[x].pending
      /\ v.upset <=> tx[x].upset \/ o.r # "ok"
  BY <1>0 DEF TxType, Used
<1>2. Becomes(x, v)
  BY <1>0, <1>1 DEF Becomes
<1> HIDE DEF v
<1>3. /\ Spoiled(x) => SpoiledObject(v)
      /\ o.r # "ok" => SpoiledObject(v)
  BY <1>1 DEF Spoiled, SpoiledObject
<1> QED BY <1>b, <1>1, <1>2, <1>3, EndReading

\* stream_from::complete.
LEMMA CompleteFromStep ==
  ASSUME Base, CompleteFrom
  PROVE  StepOK
<1> DEFINE x == stream.on
<1>b. /\ asking.by = None /\ stream.kind = "from" /\ ~stream.finished
      /\ stream' = [stream EXCEPT !.finished = TRUE] /\ UNCHANGED <<trans, asking>>
  BY DEF CompleteFrom, StreamCall
<1>0. /\ x \in Tx /\ tx[x] \in TxType /\ tx \in [Tx -> TxType]
  BY <1>b, StreamObject DEF Base, TypeInv
<1> PICK o \in ReadEnds :
          /\ db' = o.db
          /\ tx' = [tx EXCEPT ![x].focus = FALSE,
                              ![x].pending = @ \/ o.r \notin {"ok", "broken"},
                              ![x].upset = @ \/ o.r = "broken"]
  BY DEF CompleteFrom
<1> DEFINE v == [tx[x] EXCEPT !.focus = FALSE,
                              !.pending = @ \/ o.r \notin {"ok", "broken"},
                              !.upset = @ \/ o.r = "broken"]
<1>a. PICK pending \in BOOLEAN, upset \in BOOLEAN :
            /\ pending = (tx[x].pending \/ o.r \notin {"ok", "broken"})
            /\ upset = (tx[x].upset \/ o.r = "broken")
  OBVIOUS
<1>c. v = [tx[x] EXCEPT !.focus = FALSE, !.pending = pending, !.upset = upset]
  BY <1>a
<1>1. /\ v \in TxType /\ Used(tx[x], v) /\ ~v.focus /\ v.wrote = tx[x].wrote /\ v.acked = tx[x].acked
      /\ v.pending <=> tx[x].pending \/ o.r \notin {"ok", "broken"}
      /\ v.upset <=> tx[x].upset \/ o.r = "broken"
  <2> HIDE DEF v
  <2>1. v \in TxType /\ ~v.focus /\ v.wrote = tx[x].wrote /\ v.acked = tx[x].acked
    BY <1>0, <1>c DEF TxType
  <2>2. v.pending = pending /\ v.upset = upset
    BY <1>0, <1>c DEF TxType
  <2>3. Used(tx[x], v)
    BY <1>0, <1>c DEF TxType, Used
  <2> QED BY <1>a, <2>1, <2>2, <2>3
<1>2. Becomes(x, v)
  BY <1>0, <1>1 DEF Becomes
<1> HIDE DEF v
<1>3. /\ Spoiled(x) => SpoiledObject(v)
      /\ o.r # "ok" => SpoiledObject(v)
  BY <1>1 DEF Spoiled, SpoiledObject
<1> QED BY <1>b, <1>1, <1>2, <1>3, EndReading

\* The destructor of stream_from.
LEMMA DestroyFromStep ==
  ASSUME Base, DestroyFrom
  PROVE  StepOK
<1> USE Names
<1> DEFINE x == stream.on
           v == [tx[x] EXCEPT !.focus = FALSE]
<1>b. /\ asking.by = None /\ stream.kind = "from" /\ stream' = NoStream
      /\ tx' = [tx EXCEPT ![x].focus = FALSE] /\ UNCHANGED <<db, trans, asking>>
  BY DEF DestroyFrom, StreamCall
<1>0. /\ x \in Tx /\ tx[x] \in TxType /\ tx \in [Tx -> TxType] /\ stream \in StreamType /\ tx[x].alive
      /\ Sound(db)
  BY <1>b, StreamObject DEF Base, TypeInv
<1>1. /\ v \in TxType /\ Used(tx[x], v) /\ ~v.focus /\ v.wrote = tx[x].wrote /\ v.acked = tx[x].acked
      /\ v.pending <=> tx[x].pending
      /\ v.upset <=> tx[x].upset
  BY <1>0 DEF TxType, Used
<1>2. Becomes(x, v)
  BY <1>b, <1>0, <1>1 DEF Becomes
<1> HIDE DEF v
<1>3. stream' \in StreamType /\ stream'.on = None /\ stream'.finished
  BY <1>b DEF NoStream, StreamType
<1>4. Base'
  BY <1>b, <1>0, <1>1, <1>2, <1>3, UseStep DEF DbMoves
<1>5. ASSUME CarefulInv PROVE CarefulInv'
  <2>1. CopyInv'
    BY <1>b, <1>3, <1>4, <1>5 DEF CarefulInv, CopyInv, Base, StreamInv
  <2>2. Proper(x, v, {})
    BY <1>b, <1>1 DEF Proper, Spoiled, SpoiledObject
  <2> QED BY <1>b, <1>0, <1>1, <1>2, <1>3, <1>5, <2>1, <2>2, CarefulUse DEF DbMoves
<1> QED BY <1>4, <1>5 DEF StepOK

(***************************************************************************)
(* The network and the server.                                             *)
(***************************************************************************)
\* The session is gone, or a command was refused while no object was in use, and no object
\* has changed.
LEMMA CarefulLoss ==
  ASSUME Base, CarefulInv, Sound(db'),
         ~db'.up \/ (db.up /\ db'.state = db.state /\ db'.copy = "none" /\ \A y \in Tx : ~Active(y)),
         db'.durable = db.durable, db'.fate = db.fate,
         Held(db') \subseteq Held(db), UNCHANGED <<trans, tx, stream, asking>>
  PROVE  CarefulInv'
<1> USE DEF CarefulInv
<1>1. SoloInv'
  BY DEF SoloInv, Active, Blocks
<1>2. ServerInv'
  <2>1. ~db'.up => ServerInv'
    BY DEF ServerInv, Active, Blocks
  <2>2. db'.up => ServerInv'
    BY Names DEF ServerInv, Active, Blocks, Tx
  <2> QED BY <2>1, <2>2
<1>3. CopyInv'
  BY DEF CopyInv, Sound, Blocks, Active
<1>4. KeepInv'
  <2>1. ASSUME NEW y \in Tops, Blocks(y)' PROVE ~db'.up
    BY <2>1 DEF Blocks, Active, Tx
  <2>2. CommitKeepsAll'
    BY DEF KeepInv, CommitKeepsAll, Durable, Marred
  <2>3. (Active(Sub) /\ db.up /\ ~Spoiled(Sub) /\ db.state = "block" => tx[Sub].acked \subseteq db.work)'
    BY DEF Active, Tx
  <2>4. (\A y \in Tops : tx[y].kind = "nontransaction" /\ Active(y) /\ ~Spoiled(y) => Durable(y))'
    BY DEF KeepInv, Durable, Active, Spoiled
  <2> QED BY <2>1, <2>2, <2>3, <2>4 DEF KeepInv
<1>5. DropInv'
  <2>1. db.up /\ ~db'.up => Held(db') = {}
    BY DEF Base, TypeInv, Sound, Held
  <2>2. db'.up => db.up
    OBVIOUS
  <2>3. Tried' = Tried
    BY DEF Tried
  <2>4. (\A x \in Tops : tx[x].status = "aborted" /\ tx[x].kind # "nontransaction" /\ ~tx[x].unsure =>
          /\ tx[x].wrote \cap db.durable = {}
          /\ (tx[x].left /\ db.up) \/ tx[x].wrote \cap Held(db) = {})'
    BY <2>1, <2>2 DEF DropInv
  <2> QED BY <2>3, <2>4 DEF DropInv, Active, Blocks
<1>6. LeftInv'
  BY DEF LeftInv, Active, Blocks
<1> QED BY <1>1, <1>2, <1>3, <1>4, <1>5, <1>6

\* The connection is lost between two calls.
LEMMA LoseStep ==
  ASSUME Base, Lose
  PROVE  StepOK
<1> DEFINE l == Lost(db)
<1>1. Sound(db) /\ db \in DbType
  BY DEF Base, TypeInv, Sound
<1>2. /\ l \in DbType /\ l.copy = "none" /\ l.copied = {} /\ ~l.up /\ l.state = "idle"
      /\ l.work = {} /\ l.saved = None /\ l.durable = db.durable /\ l.fate = db.fate
  BY <1>1, LostFields
<1>3. db' = [l EXCEPT !.open = TRUE] /\ UNCHANGED <<trans, tx, stream, asking>>
  BY DEF Lose
<1> HIDE DEF l
<1>4. /\ db' \in DbType /\ db'.copy = "none" /\ db'.copied = {} /\ ~db'.up /\ db'.state = "idle"
      /\ db'.work = {} /\ db'.saved = None /\ db'.durable = db.durable /\ db'.fate = db.fate
  BY <1>2, <1>3 DEF DbType
<1>5. Sound(db') /\ DbMoves /\ Held(db') \subseteq Held(db)
  BY <1>4 DEF Sound, DbMoves, Held
<1>6. Base'
  BY <1>3, <1>5, DbStep
<1>7. CarefulInv => CarefulInv'
  BY <1>3, <1>4, <1>5, CarefulLoss
<1> QED BY <1>6, <1>7 DEF StepOK

\* The server finishes a commit that was in doubt: whatever it did, no open object says
\* otherwise.
LEMMA SettleStep ==
  ASSUME Base, Settle
  PROVE  StepOK
<1> USE DEF Base
<1>1. Sound(db) /\ db \in DbType /\ db.fate = "running" /\ UNCHANGED <<trans, tx, stream, asking>>
  BY DEF TypeInv, Sound, Settle
<1>2. ~db.up /\ db.copied = {} /\ db.saved = None /\ db.copy = "none"
  BY <1>1 DEF Sound
<1>3. /\ db' \in DbType /\ db'.copy = "none" /\ db'.copied = {} /\ ~db'.up /\ db'.state = "idle"
      /\ db'.work = {} /\ db'.saved = None
      /\ \/ db'.durable = db.durable \cup db.work /\ db'.fate = "committed"
         \/ db'.durable = db.durable /\ db'.fate = "aborted"
  <2>1. CASE db' = [Idle([db EXCEPT !.durable = @ \cup db.work]) EXCEPT !.fate = "committed"]
    <3> DEFINE g == [db EXCEPT !.durable = @ \cup db.work]
               i == Idle(g)
    <3>1. /\ g \in DbType /\ g.copy = db.copy /\ g.copied = db.copied /\ (g.up <=> db.up)
          /\ g.durable = db.durable \cup db.work
      BY <1>1 DEF DbType
    <3> HIDE DEF g
    <3>2. /\ i \in DbType /\ i.copy = g.copy /\ i.copied = g.copied /\ (i.up <=> g.up)
          /\ i.durable = g.durable /\ i.state = "idle" /\ i.work = {} /\ i.saved = None
      BY <3>1, IdleFields
    <3>3. db' = [i EXCEPT !.fate = "committed"]
      BY <2>1 DEF g
    <3> HIDE DEF i
    <3> QED BY <1>2, <3>1, <3>2, <3>3 DEF DbType, Fates
  <2>2. CASE db' = [Idle(db) EXCEPT !.fate = "aborted"]
    <3> DEFINE i == Idle(db)
    <3>1. /\ i \in DbType /\ i.copy = db.copy /\ i.copied = db.copied /\ (i.up <=> db.up)
          /\ i.durable = db.durable /\ i.state = "idle" /\ i.work = {} /\ i.saved = None
      BY <1>1, IdleFields
    <3>2. db' = [i EXCEPT !.fate = "aborted"]
      BY <2>2
    <3> HIDE DEF i
    <3> QED BY <1>2, <3>1, <3>2 DEF DbType, Fates
  <2> QED BY <2>1, <2>2 DEF Settle
<1>4. DbMoves
  BY <1>3 DEF DbMoves, Sound
<1>5. Base'
  BY <1>1, <1>4, DbStep
<1>6. ASSUME CarefulInv PROVE CarefulInv'
  <2> USE <1>6 DEF CarefulInv
  <2>1. SoloInv'
    BY <1>1 DEF SoloInv, Active, Blocks
  <2>2. ServerInv'
    BY <1>1, <1>3 DEF ServerInv, Active, Blocks
  <2>3. CopyInv'
    BY <1>3 DEF CopyInv
  <2>4. KeepInv'
    BY <1>1, <1>3 DEF KeepInv, CommitKeepsAll, Durable, Active, Blocks, Spoiled, Marred
  <2>5. DropInv'
    <3>1. Held(db') = {} /\ db.work \subseteq Held(db) /\ db'.durable \subseteq db.durable \cup Held(db)
      BY <1>3 DEF Held
    <3>2. (db.durable \cup Held(db) \subseteq Tried)'
      BY <1>1, <3>1 DEF DropInv, Tried
    <3>3. \A x \in Tx : ~(Blocks(x) /\ ~tx[x].doubted)
      BY <1>1 DEF ServerInv
    <3>4. \A x \in Tops : tx[x].status = "aborted" /\ tx[x].kind # "nontransaction" /\ ~tx[x].unsure
            => tx[x].wrote \cap (db'.durable \cup Held(db')) = {}
      BY <1>2, <3>1 DEF DropInv
    <3>5. \A x \in Tops : tx[x].doubted =>
            (db'.fate \in {"aborted", "running"} => tx[x].wrote \cap db'.durable = {})
      BY <1>1, <1>3 DEF DropInv
    <3> QED BY <1>1, <3>2, <3>3, <3>4, <3>5 DEF DropInv, Blocks, Active
  <2>6. LeftInv'
    BY <1>1, <1>3 DEF LeftInv, Active, Blocks
  <2> QED BY <2>1, <2>2, <2>3, <2>4, <2>5, <2>6
<1> QED BY <1>5, <1>6 DEF StepOK

\* Neither the objects nor the server have moved.
LEMMA StillCareful ==
  ASSUME CarefulInv, UNCHANGED <<db, tx, stream>>, asking'.by = asking.by
  PROVE  CarefulInv'
<1> USE DEF CarefulInv, Active, Blocks, Spoiled
<1>1. SoloInv' /\ ServerInv' /\ LeftInv' /\ CopyInv'
  BY DEF SoloInv, ServerInv, LeftInv, CopyInv
<1>2. CommitKeepsAll'
  BY DEF KeepInv, CommitKeepsAll, Durable, Marred
<1>3. KeepInv'
  BY <1>2 DEF KeepInv, SubFailed, Durable
<1>4. DropInv'
  BY DEF DropInv, Tried, Held
<1> QED BY <1>1, <1>3, <1>4

(***************************************************************************)
(* Construction.                                                           *)
(***************************************************************************)
\* Where a careful client may make a transaction there is none in use.
LEMMA NoneActive ==
  ASSUME Base, Careful, CarefulInv, HeedsOthers, trans = None
  PROVE  /\ \A y \in Tx : ~Active(y)
         /\ ~tx[Sub].alive
         /\ db.up /\ db.state # "idle" => db.state = "failed"
         /\ (\E y \in Tops : tx[y].left) /\ db.up => db.state = "failed"
<1> USE Names DEF Base, CarefulInv
<1>1. \A y \in Tops : ~Active(y)
  BY DEF HeedsOthers, LifeInv, Active
<1>2. ~tx[Sub].alive
  <2>1. SUFFICES ASSUME tx[Sub].alive PROVE FALSE
    OBVIOUS
  <2>2. tx[Sub].status # "none"
    BY <2>1 DEF LifeInv, NoTx
  <2> QED BY <1>1, <2>1, <2>2 DEF KindInv, SoloInv, Blocks
<1>3. ~Active(Sub)
  BY <1>2 DEF LifeInv
<1>4. /\ db.up /\ db.state # "idle" => db.state = "failed"
      /\ (\E y \in Tops : tx[y].left) /\ db.up => db.state = "failed"
  BY <1>1 DEF ServerInv, LeftInv, Blocks
<1> QED BY <1>1, <1>2, <1>3, <1>4 DEF Tx

\* CarefulInv is kept by the constructor of a transaction.
LEMMA BirthCareful ==
  ASSUME Base, CarefulInv, NEW x \in Tops, NEW kind \in AllKinds, tx[x].status = "none",
         tx' = [tx EXCEPT ![x] = Begun(kind, None)],
         \A y \in Tx : ~Active(y), ~tx[Sub].alive,
         Sound(db'), db'.durable = db.durable, db'.fate = db.fate, Held(db') \subseteq Held(db),
         \/ kind = "nontransaction" /\ db' = db
         \/ /\ kind # "nontransaction" /\ db'.up /\ db'.state = "block" /\ db'.copy = "none"
            /\ db.up /\ \A y \in Tops : ~tx[y].left,
         UNCHANGED <<stream, asking>>
  PROVE  CarefulInv'
<1> USE Names DEF Base, CarefulInv
<1> DEFINE v == Begun(kind, None)
<1>1. /\ v \in TxType /\ v.kind = kind /\ v.parent = None /\ v.status = "active"
      /\ v.alive /\ ~v.focus /\ ~v.doubted /\ v.acked = {} /\ v.wrote = {}
      /\ ~v.pending /\ ~v.unsure /\ ~v.left
  BY BegunFields
<1>2. Becomes(x, v)
  BY <1>1 DEF Becomes
<1>3. ~tx[x].alive /\ tx[x].wrote = {} /\ ~tx[x].left
  BY DEF LifeInv, NoTx
<1> HIDE DEF v
<1>4. tx' \in [Tx -> TxType] /\ tx'[x] = v /\ \A y \in Tx \ {x} : tx'[y] = tx[y]
  BY <1>2, OneChanged
<1>5. \A y \in Tx : Active(y)' => y = x
  BY <1>4 DEF Active
<1>6. Active(x)' /\ (Blocks(x)' <=> kind # "nontransaction")
  BY <1>1, <1>4 DEF Active, Blocks
<1>7. SoloInv'
  BY <1>1, <1>4, <1>5 DEF SoloInv
<1>8. ServerInv'
  <2>1. CASE kind # "nontransaction"
    BY <1>4, <1>5, <1>6, <2>1 DEF ServerInv, Blocks, Sound
  <2>2. CASE kind = "nontransaction"
    <3>1. db.up /\ db.state # "idle" => \E y \in Tops : tx'[y].left
      BY <1>3, <1>4 DEF ServerInv, Blocks, Tx
    <3>2. \A y \in Tx : ~Blocks(y)' /\ (Active(y)' => y = x)
      BY <1>5, <1>6, <2>2 DEF Blocks
    <3> QED BY <2>2, <3>1, <3>2 DEF ServerInv, Tx
  <2> QED BY <2>1, <2>2
<1>12. LeftInv'
  <2>1. ASSUME NEW y \in Tx, Blocks(y)' PROVE ~tx'[y].pending
    BY <1>1, <1>4, <1>5, <2>1 DEF Blocks
  <2>2. ASSUME NEW y \in Tops, tx'[y].left
        PROVE  (db'.up => db'.state = "failed") /\ \A z \in Tx : ~Blocks(z)'
    <3>1. tx[y].left
      BY <1>1, <1>4, <2>2 DEF Tx
    <3>2. kind = "nontransaction" /\ db' = db
      BY <3>1
    <3> QED BY <1>5, <1>6, <3>1, <3>2 DEF LeftInv, Blocks
  <2> QED BY <2>1, <2>2 DEF LeftInv
<1>9. CopyInv'
  <2>0. ASSUME NEW y \in Tx, Blocks(y)' PROVE ~tx'[y].focus
    BY <1>1, <1>4, <1>5, <2>0 DEF Blocks
  <2>1. CASE kind # "nontransaction"
    BY <2>0, <2>1 DEF CopyInv
  <2>2. CASE kind = "nontransaction"
    <3>1. stream.on \in Tx \cup {None} /\ stream.on # x
      BY <1>3 DEF TypeInv, StreamType, StreamInv
    <3>2. ~stream.finished => stream.on \in Tx
      BY <3>1 DEF StreamInv
    <3>3. ~stream.finished => tx'[stream'.on] = tx[stream.on]
      BY <1>4, <3>1, <3>2
    <3> QED BY <2>0, <2>2, <3>3 DEF CopyInv, Active
  <2> QED BY <2>1, <2>2
<1>10. KeepInv'
  <2>1. ASSUME NEW y \in Tops, Blocks(y)', db'.up
        PROVE  /\ db'.state # "failed" /\ tx'[y].acked = {} /\ ~Active(Sub)'
    BY <1>1, <1>4, <1>5, <1>6, <2>1 DEF Blocks
  <2>2. ~Active(Sub)'
    BY <1>5
  <2>3. ASSUME NEW y \in Tops, Active(y)' PROVE Durable(y)'
    BY <1>1, <1>4, <1>5, <2>3 DEF Durable
  <2>4. CommitKeepsAll'
    BY <1>1, <1>4 DEF KeepInv, CommitKeepsAll, Durable, Marred, Tx
  <2> QED BY <2>1, <2>2, <2>3, <2>4 DEF KeepInv
<1>11. DropInv'
  <2>1. Tried \subseteq Tried'
    BY <1>3, <1>4 DEF Tried
  <2>2. (\A y \in Tx : Blocks(y) /\ ~tx[y].doubted => tx[y].wrote \cap db.durable = {})'
    BY <1>1, <1>4, <1>5 DEF Blocks
  <2>3. ASSUME NEW y \in Tops, tx'[y].status = "aborted", tx'[y].kind # "nontransaction",
               ~tx'[y].unsure
        PROVE  /\ tx'[y].wrote \cap db'.durable = {}
               /\ (tx'[y].left /\ db'.up) \/ tx'[y].wrote \cap Held(db') = {}
    <3>1. tx'[y] = tx[y]
      BY <1>1, <1>4, <2>3 DEF Tx
    <3> QED BY <2>3, <3>1 DEF DropInv
  <2>4. (\A y \in Tops : tx[y].doubted =>
          (db.fate \in {"aborted", "running"} => tx[y].wrote \cap db.durable = {}))'
    BY <1>1, <1>4 DEF DropInv
  <2> QED BY <2>1, <2>2, <2>3, <2>4 DEF DropInv
<1> QED BY <1>7, <1>8, <1>9, <1>10, <1>11, <1>12

\* The constructors of work and nontransaction.
LEMMA OpenRegisteredStep ==
  ASSUME Base, NEW x \in Tops, NEW kind \in {"transaction", "nontransaction"},
         tx[x].status = "none", HeedsOthers, OpenRegistered(x, kind), UNCHANGED <<stream, asking>>
  PROVE  StepOK
<1> USE Names
<1>0. Sound(db) /\ db \in DbType /\ kind \in AllKinds
  BY DEF Base, TypeInv, Sound, AllKinds
<1>1. CASE UNCHANGED <<db, trans, tx>>
  <2>1. DbMoves
    BY <1>0, <1>1 DEF DbMoves
  <2>2. Base'
    BY <1>1, <2>1, DbStep
  <2>3. CarefulInv => CarefulInv'
    BY <1>1, StillCareful
  <2> QED BY <2>2, <2>3 DEF StepOK
<1>2. CASE /\ trans = None /\ kind = "nontransaction" /\ trans' = x
           /\ tx' = [tx EXCEPT ![x] = Begun(kind, None)] /\ UNCHANGED db
  <2>1. DbMoves
    BY <1>0, <1>2 DEF DbMoves
  <2>2. Base'
    <3>1. Born(x, kind, None)
      BY <1>0, <1>2 DEF Born
    <3> QED BY <2>1, <3>1, BirthStep
  <2>3. ASSUME Careful, CarefulInv PROVE CarefulInv'
    <3>1. (\A y \in Tx : ~Active(y)) /\ ~tx[Sub].alive
      BY <1>2, <2>3, NoneActive
    <3> QED BY <1>0, <1>2, <2>3, <3>1, BirthCareful
  <2> QED BY <2>2, <2>3 DEF StepOK
<1>3. CASE /\ trans = None /\ kind = "transaction"
           /\ \E o \in Execute(db, "begin", {}) :
                 /\ db' = o.db
                 /\ IF o.r = "ok" THEN trans' = x /\ tx' = [tx EXCEPT ![x] = Begun(kind, None)]
                    ELSE UNCHANGED <<trans, tx>>
  <2> PICK o \in Execute(db, "begin", {}) :
                 /\ db' = o.db
                 /\ IF o.r = "ok" THEN trans' = x /\ tx' = [tx EXCEPT ![x] = Begun(kind, None)]
                    ELSE UNCHANGED <<trans, tx>>
    BY <1>3
  <2>1. DbMoves
    BY <1>0, ExecuteSound DEF DbMoves, Ops
  <2>2. /\ (o.r = "broken" <=> ~o.db.up)
        /\ (o.db.up => db.up /\ o.db.copied = {} /\ o.db.copy = "none")
        /\ o.db.durable = db.durable /\ o.db.fate = db.fate
        /\ ~db.up => /\ o.db.work = db.work /\ o.db.saved = db.saved /\ o.db.copied = db.copied
        /\ db.up /\ ~o.db.up => o.db.saved = None /\ o.db.copied = {} /\ o.db.work = {}
    BY <1>0, ExecuteAny DEF Ops, CopyOps
  <2>3. o.db.up =>
           /\ o.db.work = db.work /\ o.db.saved = db.saved
           /\ \/ o.r = "ok" /\ Finds(db) # "failed" /\ o.db.state = "block"
              \/ o.r = "sql_error" /\ Finds(db) = "failed" /\ o.db.state = "failed"
    BY <1>0, ExecuteBegin
  <2>4. Held(db') \subseteq Held(db)
    <3>1. CASE db'.up BY <2>2, <2>3, <3>1 DEF Held
    <3>2. CASE ~db'.up BY <2>2, <3>2 DEF Held
    <3> QED BY <3>1, <3>2
  <2>5. CASE o.r = "ok"
    <3>1. Base'
      <4>1. Born(x, kind, None)
        BY <1>0, <1>3, <2>5 DEF Born
      <4> QED BY <2>1, <4>1, BirthStep
    <3>2. ASSUME Careful, CarefulInv PROVE CarefulInv'
      <4>1. /\ (\A y \in Tx : ~Active(y)) /\ ~tx[Sub].alive
            /\ (\E y \in Tops : tx[y].left) /\ db.up => db.state = "failed"
        BY <1>3, <3>2, NoneActive
      <4>0. db.up /\ \A y \in Tops : ~tx[y].left
        BY <2>2, <2>3, <2>5, <4>1 DEF Finds
      <4>2. db'.up /\ db'.state = "block" /\ db'.copy = "none" /\ kind # "nontransaction"
        BY <1>3, <2>2, <2>3, <2>5
      <4>3. Sound(db') /\ db'.durable = db.durable /\ db'.fate = db.fate
        BY <2>1, <2>2 DEF DbMoves
      <4> QED BY <1>0, <2>4, <2>5, <3>2, <4>0, <4>1, <4>2, <4>3, BirthCareful
    <3> QED BY <3>1, <3>2 DEF StepOK
  <2>6. CASE o.r # "ok"
    <3>1. UNCHANGED <<trans, tx>>
      BY <2>6
    <3>2. Base'
      BY <2>1, <3>1, DbStep
    <3>3. ASSUME Careful, CarefulInv PROVE CarefulInv'
      <4>1. (\A y \in Tx : ~Active(y)) /\ (db.up /\ db.state # "idle" => db.state = "failed")
        BY <1>3, <3>3, NoneActive
      <4>2. ~db'.up \/ (db.up /\ db'.state = db.state /\ db'.copy = "none")
        BY <2>2, <2>3, <2>6, <4>1 DEF Finds
      <4>3. Sound(db') /\ db'.durable = db.durable /\ db'.fate = db.fate
        BY <2>1, <2>2 DEF DbMoves
      <4> QED BY <2>4, <3>1, <3>3, <4>1, <4>2, <4>3, CarefulLoss
    <3> QED BY <3>2, <3>3 DEF StepOK
  <2> QED BY <2>5, <2>6
<1> QED BY <1>1, <1>2, <1>3 DEF OpenRegistered

\* The constructor of a robusttransaction throws after BEGIN: no object is made, and the
\* block that is left has failed.
LEMMA UnmadeStep ==
  ASSUME Base, NEW x \in Tops, tx[x].status = "none", tx' = [tx EXCEPT ![x] = Unmade],
         DbMoves, UNCHANGED <<trans, stream, asking>>
  PROVE  Base'
<1> USE Names DEF Base
<1> DEFINE v == Unmade
<1>1. /\ v \in TxType /\ v.kind = "robusttransaction" /\ v.parent = None /\ v.status = "aborted"
      /\ ~v.alive /\ ~v.registered /\ ~v.focus /\ ~v.doubted /\ v.wrote = {} /\ v.left
  BY DEF Unmade, NoTx, TxType, AllKinds, Statuses
<1>2. Becomes(x, v)
  BY <1>1 DEF Becomes
<1>3. ~tx[x].focus /\ ~tx[x].alive /\ ~tx[x].registered /\ tx[x].wrote = {}
  BY DEF LifeInv, NoTx
<1> HIDE DEF v
<1>4. tx' \in [Tx -> TxType] /\ tx'[x] = v /\ \A y \in Tx \ {x} : tx'[y] = tx[y]
  BY <1>2, OneChanged
<1>5. TypeInv'
  BY <1>4 DEF TypeInv, DbMoves
<1>6. KindInv'
  BY <1>1, <1>4 DEF KindInv, DbMoves, AllKinds
<1>7. LifeInv'
  BY <1>1, <1>3, <1>4 DEF LifeInv, Active, TypeInv
<1>8. StreamInv'
  BY <1>1, <1>3, <1>4 DEF StreamInv
<1>9. AskInv'
  BY <1>1, <1>3, <1>4 DEF AskInv, Active, TypeInv
<1> QED BY <1>5, <1>6, <1>7, <1>8, <1>9

\* See UnmadeStep: what that does to a client that heeds the documentation.
LEMMA UnmadeCareful ==
  ASSUME Base, CarefulInv, NEW x \in Tops, tx[x].status = "none", tx' = [tx EXCEPT ![x] = Unmade],
         DbMoves, UNCHANGED <<trans, stream, asking>>,
         \A y \in Tx : ~Active(y), ~tx[Sub].alive, db.up,
         \A y \in Tops : ~tx[y].left, db'.up => db'.state = "failed" /\ db'.copy = "none",
         db'.durable = db.durable, db'.fate = db.fate, Held(db') \subseteq Held(db)
  PROVE  CarefulInv'
<1> USE Names DEF Base, CarefulInv
<1> DEFINE v == Unmade
<1>1. /\ v \in TxType /\ v.kind = "robusttransaction" /\ v.parent = None /\ v.status = "aborted"
      /\ ~v.alive /\ ~v.registered /\ ~v.focus /\ ~v.doubted /\ v.wrote = {} /\ v.left
  BY DEF Unmade, NoTx, TxType, AllKinds, Statuses
<1>2. Becomes(x, v)
  BY <1>1 DEF Becomes
<1>3. ~tx[x].focus /\ ~tx[x].alive /\ ~tx[x].registered /\ tx[x].wrote = {}
  BY DEF LifeInv, NoTx
<1> HIDE DEF v
<1>4. tx' \in [Tx -> TxType] /\ tx'[x] = v /\ \A y \in Tx \ {x} : tx'[y] = tx[y]
  BY <1>2, OneChanged
<1>5. \A y \in Tx : ~Active(y)' /\ ~Blocks(y)'
  BY <1>1, <1>4 DEF Active, Blocks
<1>6. SoloInv'
  BY <1>4, <1>5 DEF SoloInv, Tx
<1>7. ServerInv'
  BY <1>1, <1>4, <1>5 DEF ServerInv, Tx
<1>8. LeftInv'
  BY <1>5 DEF LeftInv
<1>9. CopyInv'
  BY <1>5 DEF CopyInv, DbMoves, Sound
<1>10. KeepInv'
  <2>1. CommitKeepsAll'
    BY <1>1, <1>4 DEF KeepInv, CommitKeepsAll, Durable, Marred, Tx
  <2> QED BY <1>5, <2>1 DEF KeepInv, Tx
<1>11. DropInv'
  <2>1. Tried \subseteq Tried'
    BY <1>3, <1>4 DEF Tried
  <2>2. ASSUME NEW y \in Tops, tx'[y].status = "aborted", tx'[y].kind # "nontransaction",
               ~tx'[y].unsure
        PROVE  tx'[y].wrote \cap (db'.durable \cup Held(db')) = {}
    <3>1. CASE y = x
      BY <1>1, <1>4, <3>1
    <3>2. CASE y # x
      <4>1. tx'[y] = tx[y]
        BY <1>4, <3>2 DEF Tx
      <4> QED BY <2>2, <4>1 DEF DropInv
    <3> QED BY <3>1, <3>2
  <2>3. \A y \in Tops : tx'[y].doubted =>
           (db'.fate \in {"aborted", "running"} => tx'[y].wrote \cap db'.durable = {})
    BY <1>1, <1>4 DEF DropInv, Tx
  <2> QED BY <1>5, <2>1, <2>2, <2>3 DEF DropInv
<1> QED BY <1>6, <1>7, <1>8, <1>9, <1>10, <1>11

\* The constructor of robusttransaction.
LEMMA OpenRobustStep ==
  ASSUME Base, NEW x \in Tops, tx[x].status = "none", HeedsOthers, Careful => trans = None,
         OpenRobust(x), UNCHANGED <<stream, asking>>
  PROVE  StepOK
<1> USE Names
<1>0. Sound(db) /\ db \in DbType /\ "robusttransaction" \in AllKinds
  BY DEF Base, TypeInv, Sound, AllKinds
<1>1. PICK o \in Execute(db, "begin", {}) :
        /\ \/ o.r # "ok" /\ db' = o.db /\ UNCHANGED tx
           \/ /\ o.r = "ok"
              /\ \E p \in Execute(o.db, "query", {}) :
                    /\ db' = p.db
                    /\ tx' = [tx EXCEPT ![x] = IF p.r = "ok" THEN Begun("robusttransaction", None)
                                              ELSE Unmade]
        /\ UNCHANGED trans
  BY DEF OpenRobust
<1>2. Sound(o.db) /\ (~db.up => ~o.db.up) /\ o.db \in DbType
  BY <1>0, ExecuteSound DEF Ops, Sound
<1>3. /\ (o.r = "broken" <=> ~o.db.up)
      /\ (o.db.up => db.up /\ o.db.copied = {} /\ o.db.copy = "none")
      /\ o.db.durable = db.durable /\ o.db.fate = db.fate
      /\ ~db.up => /\ o.db.work = db.work /\ o.db.saved = db.saved /\ o.db.copied = db.copied
      /\ db.up /\ ~o.db.up => o.db.saved = None /\ o.db.copied = {} /\ o.db.work = {}
  BY <1>0, ExecuteAny DEF Ops, CopyOps
<1>4. o.db.up =>
         /\ o.db.work = db.work /\ o.db.saved = db.saved
         /\ \/ o.r = "ok" /\ Finds(db) # "failed" /\ o.db.state = "block"
            \/ o.r = "sql_error" /\ Finds(db) = "failed" /\ o.db.state = "failed"
  BY <1>0, ExecuteBegin
<1>5. Held(o.db) \subseteq Held(db)
  <2>1. CASE o.db.up BY <1>3, <1>4, <2>1 DEF Held
  <2>2. CASE ~o.db.up BY <1>3, <2>2 DEF Held
  <2> QED BY <2>1, <2>2
<1>6. ASSUME Careful, CarefulInv
      PROVE  /\ \A y \in Tx : ~Active(y)
             /\ ~tx[Sub].alive
             /\ db.up /\ db.state # "idle" => db.state = "failed"
             /\ (\E y \in Tops : tx[y].left) /\ db.up => db.state = "failed"
  BY <1>6, NoneActive
<1>7. CASE o.r # "ok" /\ db' = o.db /\ UNCHANGED tx
  <2>0. DbMoves /\ UNCHANGED <<trans, tx>>
    BY <1>1, <1>2, <1>7 DEF DbMoves
  <2>1. Base'
    BY <2>0, DbStep
  <2>2. ASSUME Careful, CarefulInv PROVE CarefulInv'
    <3>1. (\A y \in Tx : ~Active(y)) /\ (db.up /\ db.state # "idle" => db.state = "failed")
      BY <1>6, <2>2
    <3>2. ~db'.up \/ (db.up /\ db'.state = db.state /\ db'.copy = "none")
      BY <1>3, <1>4, <1>7, <3>1 DEF Finds
    <3>3. /\ Sound(db') /\ db'.durable = db.durable /\ db'.fate = db.fate
          /\ Held(db') \subseteq Held(db)
      BY <1>2, <1>3, <1>5, <1>7
    <3> QED BY <2>0, <2>2, <3>1, <3>2, <3>3, CarefulLoss
  <2> QED BY <2>1, <2>2 DEF StepOK
<1>8. CASE /\ o.r = "ok"
           /\ \E p \in Execute(o.db, "query", {}) :
                 /\ db' = p.db
                 /\ tx' = [tx EXCEPT ![x] = IF p.r = "ok" THEN Begun("robusttransaction", None)
                                           ELSE Unmade]
  <2>0. PICK p \in Execute(o.db, "query", {}) :
                 /\ db' = p.db
                 /\ tx' = [tx EXCEPT ![x] = IF p.r = "ok" THEN Begun("robusttransaction", None)
                                           ELSE Unmade]
    BY <1>8
  <2>1. /\ o.db.up /\ o.db.state = "block" /\ o.db.copy = "none" /\ db.up
        /\ Finds(db) # "failed" /\ Finds(o.db) = "block" /\ Fails(o.db.state) = "failed"
    BY <1>3, <1>4, <1>8 DEF Finds, Fails
  <2>2. Sound(p.db) /\ p.db \in DbType
    BY <1>2, ExecuteSound DEF Ops, Sound
  <2>3. /\ (p.r = "broken" <=> ~p.db.up)
        /\ (p.db.up => p.db.copied = {} /\ p.db.copy = "none")
        /\ p.db.durable = o.db.durable /\ p.db.fate = o.db.fate
        /\ ~p.db.up => p.db.saved = None /\ p.db.copied = {} /\ p.db.work = {}
    BY <1>2, <2>1, ExecuteAny DEF Ops, CopyOps
  <2>4. p.db.up => /\ p.db.work = o.db.work /\ p.db.saved = o.db.saved
                   /\ \/ p.r = "ok" /\ p.db.state = "block"
                      \/ p.r = "sql_error" /\ p.db.state = "failed"
    BY <1>2, <2>1, ExecuteConstraints
  <2>5. Held(p.db) \subseteq Held(o.db)
    <3>1. CASE p.db.up BY <2>3, <2>4, <3>1 DEF Held
    <3>2. CASE ~p.db.up BY <2>3, <3>2 DEF Held
    <3> QED BY <3>1, <3>2
  <2>6. /\ DbMoves /\ Sound(db') /\ Held(db') \subseteq Held(db) /\ db'.durable = db.durable
        /\ db'.fate = db.fate
    BY <1>3, <1>5, <2>0, <2>1, <2>2, <2>3, <2>5 DEF DbMoves
  <2>7. ASSUME Careful, CarefulInv
        PROVE  (\A y \in Tx : ~Active(y)) /\ ~tx[Sub].alive /\ \A y \in Tops : ~tx[y].left
    <3>1. db.state # "failed"
      BY <2>1 DEF Finds
    <3> QED BY <1>6, <2>1, <2>7, <3>1
  <2>8. CASE p.r = "ok"
    <3>0. tx' = [tx EXCEPT ![x] = Begun("robusttransaction", None)] /\ trans' = trans
      BY <1>1, <2>0, <2>8
    <3>1. Base'
      <4>1. Born(x, "robusttransaction", None)
        BY <1>0, <3>0 DEF Born
      <4> QED BY <2>6, <4>1, BirthStep
    <3>2. ASSUME Careful, CarefulInv PROVE CarefulInv'
      <4>1. db'.up /\ db'.state = "block" /\ db'.copy = "none"
        BY <2>0, <2>3, <2>4, <2>8
      <4> QED BY <1>0, <2>1, <2>6, <2>7, <3>0, <3>2, <4>1, BirthCareful
    <3> QED BY <3>1, <3>2 DEF StepOK
  <2>9. CASE p.r # "ok"
    <3>0. tx' = [tx EXCEPT ![x] = Unmade] /\ UNCHANGED <<trans, stream, asking>>
      BY <1>1, <2>0, <2>9
    <3>1. Base'
      BY <2>6, <3>0, UnmadeStep
    <3>2. ASSUME Careful, CarefulInv PROVE CarefulInv'
      <4>1. db'.up => db'.state = "failed" /\ db'.copy = "none"
        BY <2>0, <2>3, <2>4, <2>9
      <4> QED BY <2>1, <2>6, <2>7, <3>0, <3>2, <4>1, UnmadeCareful
    <3> QED BY <3>1, <3>2 DEF StepOK
  <2> QED BY <2>8, <2>9
<1> QED BY <1>1, <1>7, <1>8

\* The constructors of transactions.
LEMMA OpenStep ==
  ASSUME Base, NEW x \in Tops, NEW kind \in AllKinds, Open(x, kind)
  PROVE  StepOK
<1>1. CASE kind = "robusttransaction"
  BY <1>1, OpenRobustStep DEF Open
<1>2. CASE kind # "robusttransaction"
  BY <1>2, OpenRegisteredStep DEF Open, AllKinds
<1> QED BY <1>1, <1>2

\* A savepoint is set: what the parent has written is kept for a rollback.
LEMMA SavepointCareful ==
  ASSUME Base, CarefulInv, NEW p \in Tops, Blocks(p), stream.on # p, tx[Sub].status = "none",
         tx' = [tx EXCEPT ![Sub] = Begun("subtransaction", p)],
         db.up, db.state = "block", Sound(db'), db'.up, db'.state = "block", db'.work = db.work,
         db'.saved = db.work, db'.copy = "none", db'.copied = {}, db'.durable = db.durable,
         db'.fate = db.fate, asking.by = None, UNCHANGED <<stream, asking>>
  PROVE  CarefulInv'
<1> USE Names DEF Base, CarefulInv
<1> DEFINE v == Begun("subtransaction", p)
<1>1. /\ v \in TxType /\ v.kind = "subtransaction" /\ v.parent = p /\ v.status = "active"
      /\ v.alive /\ ~v.focus /\ ~v.doubted /\ v.acked = {} /\ v.wrote = {}
      /\ ~v.pending /\ ~v.left
  BY BegunFields
<1>2. Becomes(Sub, v)
  BY <1>1 DEF Becomes
<1>3. ~tx[Sub].alive /\ tx[Sub].wrote = {} /\ ~Active(Sub)
  BY DEF LifeInv, NoTx, Active
<1> HIDE DEF v
<1>4. tx' \in [Tx -> TxType] /\ tx'[Sub] = v /\ \A y \in Tops : tx'[y] = tx[y]
  BY <1>2, OneChanged DEF Tx
<1>5. \A y \in Tops : /\ Active(y)' <=> Active(y)
                      /\ Blocks(y)' <=> Blocks(y)
                      /\ Spoiled(y)' <=> Spoiled(y)
  BY <1>4 DEF Active, Blocks, Spoiled
<1>0. ~tx[p].pending
  BY DEF LeftInv, Tx
<1>6. SoloInv'
  BY <1>0, <1>1, <1>4, <1>5 DEF SoloInv, Tx
<1>7. db'.saved # None
  BY ConstantsAssumption DEF TypeInv, Sound, DbType
<1>8. db'.fate = "none"
  BY DEF Sound
<1>9. ServerInv'
  BY <1>4, <1>5, <1>7, <1>8 DEF ServerInv
<1>13. LeftInv'
  <2>1. ASSUME NEW y \in Tops PROVE ~tx'[y].left /\ (Blocks(y)' => ~tx'[y].pending)
    BY <1>4, <1>5 DEF LeftInv, Tx
  <2> QED BY <1>1, <1>4, <2>1 DEF LeftInv, Tx
<1>10. CopyInv'
  <2>1. Active(p) /\ ~Waits(p) /\ ~tx[p].focus
    BY <1>3 DEF Blocks, Waits, StreamInv
  <2>2. \A y \in Tx : Active(y) => ~tx[y].focus
    BY <2>1, NoCopyHere DEF Tx
  <2>3. \A y \in Tx : Blocks(y)' => ~tx'[y].focus
    BY <1>1, <1>4, <1>5, <2>2 DEF Blocks, Tx
  <2> QED BY <2>3 DEF CopyInv
<1>11. KeepInv'
  <2>1. ASSUME NEW y \in Tops, Blocks(y)', db'.up, ~Spoiled(y)'
        PROVE  tx'[y].acked \subseteq db'.work /\ tx'[y].acked \subseteq db'.saved
    <3>1. Blocks(y) /\ ~Spoiled(y)
      BY <1>5, <2>1
    <3> QED BY <1>4, <3>1 DEF KeepInv
  <2>2. tx'[Sub].acked \subseteq db'.work
    BY <1>1, <1>4
  <2>3. (\A y \in Tops : tx[y].kind = "nontransaction" /\ Active(y) /\ ~Spoiled(y) => Durable(y))'
    BY <1>4, <1>5 DEF KeepInv, Durable
  <2>4. CommitKeepsAll'
    <3>1. \A y \in Tops : tx[y].status = "committed" /\ tx[y].kind # "robusttransaction" => Durable(y)
      BY DEF KeepInv, CommitKeepsAll, Marred, LifeInv, NoTx
    <3> QED BY <1>4, <3>1 DEF CommitKeepsAll, Durable
  <2> QED BY <2>1, <2>2, <2>3, <2>4 DEF KeepInv
<1>12. DropInv'
  <2>1. Tried \subseteq Tried'
    BY <1>3, <1>4 DEF Tried, Tx
  <2>2. Held(db') \subseteq Held(db)
    BY DEF Held
  <2>3. (\A y \in Tx : Blocks(y) /\ ~tx[y].doubted => tx[y].wrote \cap db.durable = {})'
    BY <1>1, <1>4, <1>5 DEF DropInv, Tx
  <2>4. (\A y \in Tops : tx[y].status = "aborted" /\ tx[y].kind # "nontransaction" /\ ~tx[y].unsure =>
          /\ tx[y].wrote \cap db.durable = {}
          /\ (tx[y].left /\ db.up) \/ tx[y].wrote \cap Held(db) = {})'
    BY <1>4, <2>2 DEF DropInv
  <2>5. (\A y \in Tops : tx[y].doubted =>
          (db.fate \in {"aborted", "running"} => tx[y].wrote \cap db.durable = {}))'
    BY <1>4 DEF DropInv
  <2> QED BY <2>1, <2>2, <2>3, <2>4, <2>5 DEF DropInv
<1> QED BY <1>6, <1>9, <1>10, <1>11, <1>12, <1>13

\* The constructor of subtransaction.
LEMMA OpenSubStep ==
  ASSUME Base, NEW p \in Tops, OpenSub(p)
  PROVE  StepOK
<1> USE Names
<1>0. /\ asking.by = None /\ tx[p].alive /\ Heeds(p) /\ tx[p].kind # "nontransaction"
      /\ tx[Sub].status = "none" /\ (Careful => stream.on # p)
      /\ UNCHANGED <<trans, stream, asking>>
  BY DEF OpenSub, Call, StreamOn
<1> PICK o \in Execute(db, "savepoint", {}) :
          /\ db' = o.db
          /\ tx' = IF o.r = "ok" THEN [tx EXCEPT ![Sub] = Begun("subtransaction", p)]
                   ELSE [tx EXCEPT ![p].upset = TRUE]
  BY DEF OpenSub
<1>1. db \in DbType /\ Sound(db) /\ tx \in [Tx -> TxType] /\ tx[p] \in TxType /\ stream \in StreamType
  BY DEF Base, TypeInv, Sound
<1>2. DbMoves
  BY <1>1, ExecuteSound DEF DbMoves, Ops
<1>3. /\ (o.r = "broken" <=> ~o.db.up)
      /\ (o.db.up => db.up /\ o.db.copied = {} /\ o.db.copy = "none")
      /\ o.db.durable = db.durable /\ o.db.fate = db.fate
      /\ ~db.up => o.db.work = db.work /\ o.db.saved = db.saved /\ o.db.copied = db.copied
      /\ db.up /\ ~o.db.up => o.db.saved = None /\ o.db.copied = {} /\ o.db.work = {}
  BY <1>1, ExecuteAny DEF Ops, CopyOps
<1>4. o.db.up =>
        /\ o.db.work = db.work
        /\ \/ o.r = "ok" /\ Finds(db) = "block" /\ o.db.state = "block" /\ o.db.saved = db.work
           \/ o.r = "sql_error" /\ Finds(db) # "block" /\ o.db.state = Finds(db) /\ o.db.saved = db.saved
  BY <1>1, ExecuteSavepoint
<1>5. CASE o.r = "ok"
  <2>0. tx' = [tx EXCEPT ![Sub] = Begun("subtransaction", p)]
    BY <1>5
  <2>1. Base'
    <3>1. tx[p].status # "none"
      BY <1>0 DEF Base, LifeInv, NoTx
    <3>2. Born(Sub, "subtransaction", p)
      BY <1>0, <2>0, <3>1 DEF Born
    <3> QED BY <1>2, <3>2, BirthStep
  <2>2. ASSUME Careful, CarefulInv PROVE CarefulInv'
    <3>1. Blocks(p) /\ stream.on # p
      BY <1>0, <2>2 DEF Heeds, Blocks, Active
    <3>2. /\ db.up /\ db.state = "block" /\ db'.up /\ db'.state = "block" /\ db'.work = db.work
          /\ db'.saved = db.work /\ db'.copy = "none" /\ db'.copied = {}
          /\ db'.durable = db.durable /\ db'.fate = db.fate
      BY <1>3, <1>4, <1>5 DEF Finds
    <3>3. Sound(db')
      BY <1>2 DEF DbMoves
    <3> QED BY <1>0, <2>0, <2>2, <3>1, <3>2, <3>3, SavepointCareful
  <2> QED BY <2>1, <2>2 DEF StepOK
<1>6. CASE o.r # "ok"
  <2> DEFINE v == [tx[p] EXCEPT !.upset = TRUE]
  <2>1. /\ v \in TxType /\ Used(tx[p], v) /\ v.upset /\ v.acked = tx[p].acked
        /\ v.wrote = tx[p].wrote /\ (v.focus <=> tx[p].focus)
        /\ v.pending <=> tx[p].pending
    BY <1>1 DEF TxType, Used
  <2>2. Becomes(p, v)
    BY <1>1, <1>6, <2>1 DEF Becomes
  <2> HIDE DEF v
  <2>3. Base'
    <3>1. stream' \in StreamType /\ stream' = stream /\ p \in Tx
      BY <1>0, <1>1
    <3> QED BY <1>0, <1>2, <2>1, <2>2, <3>1, UseStep
  <2>4. ASSUME Careful, CarefulInv PROVE CarefulInv'
    <3>1. Active(p) /\ ~Waits(p) /\ ~tx[p].focus
      BY <1>0, <2>4 DEF Heeds, Active, Base, StreamInv
    <3>2. Finds(db) = db.state /\ \A y \in Tx : Active(y) => ~tx[y].focus
      BY <2>4, <3>1, NoCopyHere
    <3>3. Held(db') \subseteq Held(db)
      <4>1. CASE db'.up BY <1>3, <1>4, <1>6, <4>1 DEF Held
      <4>2. CASE ~db'.up BY <1>3, <4>2 DEF Held
      <4> QED BY <4>1, <4>2
    <3>4. SpoiledObject(v)
      BY <2>1 DEF SpoiledObject
    <3>5. Proper(p, v, {})
      BY <1>3, <1>4, <1>6, <2>1, <3>2, <3>3, <3>4, ProperReading
    <3>6. CopyInv'
      <4>1. \A y \in Tx : Active(y)' => ~tx'[y].focus
        BY <2>1, <2>2, <3>2, OneChanged DEF Base, Used, Active, Tx
      <4> QED BY <1>2, <1>3, <4>1 DEF CopyInv, DbMoves, Sound, Blocks
    <3> QED BY <1>0, <1>2, <2>1, <2>2, <2>4, <3>5, <3>6, CarefulUse
  <2> QED BY <2>3, <2>4 DEF StepOK
<1> QED BY <1>5, <1>6

\* exec and exec_params.
LEMMA ExecStep ==
  ASSUME Base, NEW x \in Tx, NEW w \in Work, Exec(x, w) \/ ExecParams(x, w)
  PROVE  StepOK
<1>1. CASE Exec(x, w)
  BY <1>1, ReportsPendingStep, ThrowsStep, RunsStep DEF Exec
<1>2. CASE ExecParams(x, w)
  BY <1>2, ThrowsStep, RunsStep DEF ExecParams
<1> QED BY <1>1, <1>2

(***************************************************************************)
(* Commit, abort and destruction.                                          *)
(***************************************************************************)
\* The object x is closed with a status: after a commit or an abort it is unregistered,
\* after a commit that threw it is left as it was.
Shut(x, status) ==
    /\ tx' \in [Tx -> TxType] /\ tx'[x].status = status
    /\ tx'[x].kind = tx[x].kind /\ tx'[x].parent = tx[x].parent
    /\ tx'[x].acked = tx[x].acked /\ tx'[x].wrote = tx[x].wrote
    /\ tx'[x].doubted <=> tx[x].doubted
    /\ tx'[x].focus <=> tx[x].focus
    /\ ~Active(x) => (tx'[x].unsure <=> tx[x].unsure)
    /\ tx[x].alive
    /\ \/ tx'[x].alive /\ (tx'[x].registered <=> tx[x].registered) /\ trans' = trans
       \/ ~tx'[x].registered /\ trans' = Unregistered(x) /\ (stream.on = x => tx'[x].alive)
    /\ stream' = stream

\* Nothing was left on the server that was not before.
Told(x) == tx'[x].left <=> tx[x].left
\* Nothing else changes, or what a subtransaction did becomes its parent's.
Alone(x) == \A y \in Tx \ {x} : tx'[y] = tx[y]
Merged(x, p) ==
    /\ \A y \in Tx \ {x, p} : tx'[y] = tx[y]
    /\ Used(tx[p], tx'[p])
    /\ tx'[p].focus <=> tx[p].focus
    /\ tx'[p].pending <=> tx[p].pending
    /\ tx'[p].upset <=> tx[p].upset
    /\ tx'[p].acked = tx[p].acked \cup tx[x].acked
    /\ tx'[p].wrote = tx[p].wrote \cup tx[x].wrote

\* A do_commit that throws.
LEMMA ThrowsShuts ==
  ASSUME Base, NEW x \in Tx, NEW status \in Statuses, NEW unsure \in BOOLEAN, Active(x), tx[x].alive,
         CommitThrows(x, status, unsure), stream' = stream
  PROVE  Shut(x, status) /\ Alone(x) /\ Told(x) /\ (tx'[x].unsure <=> unsure)
<1> DEFINE v == [tx[x] EXCEPT !.status = status, !.upset = TRUE, !.unsure = unsure]
<1>0. tx \in [Tx -> TxType] /\ tx[x] \in TxType
  BY DEF Base, TypeInv
<1>1. /\ v \in TxType /\ v.status = status /\ v.kind = tx[x].kind /\ v.parent = tx[x].parent
      /\ v.acked = tx[x].acked /\ v.wrote = tx[x].wrote
      /\ v.doubted <=> tx[x].doubted
      /\ v.focus <=> tx[x].focus
      /\ v.alive <=> tx[x].alive
      /\ v.registered <=> tx[x].registered
      /\ v.left <=> tx[x].left
      /\ v.unsure <=> unsure
  BY <1>0 DEF TxType
<1>2. Becomes(x, v)
  BY <1>0, <1>1 DEF Becomes, CommitThrows
<1> HIDE DEF v
<1>3. tx' \in [Tx -> TxType] /\ tx'[x] = v /\ \A y \in Tx \ {x} : tx'[y] = tx[y]
  BY <1>2, OneChanged DEF Base
<1> QED BY <1>1, <1>3 DEF Shut, Alone, Told, CommitThrows

\* close() keeps what the object has done.
LEMMA ClosedFields ==
  ASSUME NEW t \in TxType, NEW status \in Statuses
  PROVE  LET v == Closed(t, status)
         IN  /\ v \in TxType /\ v.status = status /\ v.kind = t.kind /\ v.parent = t.parent
             /\ v.acked = t.acked /\ v.wrote = t.wrote /\ ~v.registered
             /\ v.doubted <=> t.doubted
             /\ v.focus <=> t.focus
             /\ v.alive <=> t.alive
             /\ v.unsure <=> t.unsure
             /\ v.left <=> t.left
  BY DEF Closed, TxType

\* A do_commit that returns.
LEMMA CommittedShuts ==
  ASSUME Base, NEW x \in Tx, Committed(x), tx[x].alive, stream' = stream
  PROVE  /\ Shut(x, "committed") /\ Told(x)
         /\ x \in Tops => Alone(x)
         /\ x = Sub => tx[x].parent \in Tops /\ Merged(x, tx[x].parent)
<1> USE Names
<1>0. tx \in [Tx -> TxType] /\ tx[x] \in TxType /\ "committed" \in Statuses
  BY DEF Base, TypeInv, Statuses
<1> DEFINE v == Closed(tx[x], "committed")
           u == [y \in Tx |-> [tx[y] EXCEPT !.acked = @ \cup tx[x].acked, !.wrote = @ \cup tx[x].wrote]]
<1>1. /\ v \in TxType /\ v.status = "committed" /\ v.kind = tx[x].kind /\ v.parent = tx[x].parent
      /\ v.acked = tx[x].acked /\ v.wrote = tx[x].wrote /\ ~v.registered
      /\ v.doubted <=> tx[x].doubted
      /\ v.focus <=> tx[x].focus
      /\ v.alive <=> tx[x].alive
      /\ v.unsure <=> tx[x].unsure
      /\ v.left <=> tx[x].left
  BY <1>0, ClosedFields
<1>2. ASSUME NEW y \in Tx
      PROVE  /\ u[y] \in TxType /\ Used(tx[y], u[y])
             /\ u[y].focus <=> tx[y].focus
             /\ u[y].pending <=> tx[y].pending
             /\ u[y].upset <=> tx[y].upset
             /\ u[y].acked = tx[y].acked \cup tx[x].acked
             /\ u[y].wrote = tx[y].wrote \cup tx[x].wrote
  <2> DEFINE t == tx[y]
             w == [t EXCEPT !.acked = @ \cup tx[x].acked, !.wrote = @ \cup tx[x].wrote]
  <2>1. t \in TxType /\ u[y] = w
    BY <1>0
  <2>2. tx[x].acked \subseteq Work /\ tx[x].wrote \subseteq Work
    BY <1>0 DEF TxType
  <2> HIDE DEF t, u
  <2>3. /\ w \in TxType
        /\ w.acked = t.acked \cup tx[x].acked
        /\ w.wrote = t.wrote \cup tx[x].wrote
    BY <2>1, <2>2 DEF TxType
  <2>4. Used(t, w) /\ (w.focus <=> t.focus) /\ (w.pending <=> t.pending) /\ (w.upset <=> t.upset)
    BY <2>1 DEF TxType, Used
  <2> QED BY <2>1, <2>3, <2>4 DEF t
<1>3. tx' = [y \in Tx |-> IF y = x THEN v ELSE IF y = tx[x].parent THEN u[y] ELSE tx[y]]
  BY DEF Committed
<1> HIDE DEF v, u
<1>4. tx' \in [Tx -> TxType] /\ tx'[x] = v
  BY <1>0, <1>1, <1>2, <1>3
<1>5. Shut(x, "committed") /\ Told(x)
  BY <1>1, <1>4 DEF Shut, Told, Committed
<1>6. x \in Tops => Alone(x)
  BY <1>3 DEF Alone, Base, KindInv
<1>7. ASSUME x = Sub PROVE tx[x].parent \in Tops /\ Merged(x, tx[x].parent)
  <2>1. tx[Sub].status # "none"
    BY <1>7 DEF Base, LifeInv, NoTx
  <2>2. tx[x].parent \in Tops /\ tx[x].parent \in Tx /\ tx[x].parent # x
    BY <1>7, <2>1 DEF Base, KindInv
  <2>3. tx'[tx[x].parent] = u[tx[x].parent]
    BY <1>3, <2>2
  <2> QED BY <1>2, <1>3, <2>2, <2>3 DEF Merged
<1> QED BY <1>5, <1>6, <1>7

\* abort() and the destructor.
LEMMA ClosedShuts ==
  ASSUME Base, NEW x \in Tx, NEW status \in Statuses, tx[x].alive, trans' = Unregistered(x),
         stream' = stream,
         \/ tx' = [tx EXCEPT ![x] = [Closed(tx[x], status) EXCEPT !.left = tx[x].left \/ Unsent(x)]]
         \/ stream.on # x /\ tx' = [tx EXCEPT ![x] = [Closed(@, status) EXCEPT !.alive = FALSE]]
  PROVE  /\ Shut(x, status) /\ Alone(x)
         /\ Told(x) \/ (Unsent(x) /\ tx'[x].left)
<1> DEFINE c == Closed(tx[x], status)
           l == [c EXCEPT !.left = tx[x].left \/ Unsent(x)]
           d == [c EXCEPT !.alive = FALSE]
<1>0. tx \in [Tx -> TxType] /\ tx[x] \in TxType /\ Unsent(x) \in BOOLEAN
  BY DEF Base, TypeInv, Unsent
<1>1. /\ c \in TxType /\ c.status = status /\ c.kind = tx[x].kind /\ c.parent = tx[x].parent
      /\ c.acked = tx[x].acked /\ c.wrote = tx[x].wrote /\ ~c.registered
      /\ c.doubted <=> tx[x].doubted
      /\ c.focus <=> tx[x].focus
      /\ c.alive <=> tx[x].alive
      /\ c.unsure <=> tx[x].unsure
      /\ c.left <=> tx[x].left
  BY <1>0, ClosedFields
<1>2. tx' = [tx EXCEPT ![x] = l] \/ (stream.on # x /\ tx' = [tx EXCEPT ![x] = d])
  BY <1>0
<1> HIDE DEF c
<1>6. /\ l \in TxType /\ l.status = status /\ l.kind = tx[x].kind /\ l.parent = tx[x].parent
      /\ l.acked = tx[x].acked /\ l.wrote = tx[x].wrote /\ ~l.registered
      /\ l.doubted <=> tx[x].doubted
      /\ l.focus <=> tx[x].focus
      /\ l.alive <=> tx[x].alive
      /\ l.unsure <=> tx[x].unsure
      /\ l.left <=> (tx[x].left \/ Unsent(x))
  BY <1>0, <1>1 DEF TxType
<1>3. /\ d \in TxType /\ d.status = status /\ d.kind = tx[x].kind /\ d.parent = tx[x].parent
      /\ d.acked = tx[x].acked /\ d.wrote = tx[x].wrote /\ ~d.registered
      /\ d.doubted <=> tx[x].doubted
      /\ d.focus <=> tx[x].focus
      /\ d.unsure <=> tx[x].unsure
      /\ d.left <=> tx[x].left
  BY <1>1 DEF TxType
<1> HIDE DEF l, d
<1>4. CASE tx' = [tx EXCEPT ![x] = l]
  <2>1. tx' \in [Tx -> TxType] /\ tx'[x] = l /\ \A y \in Tx \ {x} : tx'[y] = tx[y]
    BY <1>0, <1>6, <1>4
  <2> QED BY <1>6, <2>1 DEF Shut, Alone, Told
<1>5. CASE stream.on # x /\ tx' = [tx EXCEPT ![x] = d]
  <2>1. tx' \in [Tx -> TxType] /\ tx'[x] = d /\ \A y \in Tx \ {x} : tx'[y] = tx[y]
    BY <1>0, <1>3, <1>5
  <2> QED BY <1>3, <1>5, <2>1 DEF Shut, Alone, Told
<1> QED BY <1>2, <1>4, <1>5

\* Base is kept when an object is closed.
LEMMA ShutStep ==
  ASSUME Base, NEW x \in Tx, NEW status \in {"committed", "aborted", "in_doubt"}, Shut(x, status),
         Alone(x) \/ (x = Sub /\ Merged(Sub, tx[Sub].parent)),
         status = "committed" => ~tx[x].focus, DbMoves,
         asking' \in [by : {None}, attempts : Nat], asking.by \in {None, x}
  PROVE  Base'
<1> USE Names
<1>1. tx[x].status # "none"
  BY DEF Shut, Base, LifeInv, NoTx
<1>2. /\ \A y \in Tx \ {x} : Used(tx[y], tx'[y]) /\ (tx'[y].focus <=> tx[y].focus)
      /\ \A y \in Tx \ {x} : tx'[y] = tx[y] \/ tx[y].status # "none"
  <2>1. CASE Alone(x)
    BY <2>1 DEF Alone, Used
  <2>2. CASE x = Sub /\ Merged(Sub, tx[Sub].parent)
    <3>1. tx[Sub].parent \in Tops /\ tx[tx[Sub].parent].status # "none"
      BY <1>1, <2>2 DEF Base, KindInv
    <3> QED BY <2>2, <3>1 DEF Merged, Used
  <2> QED BY <2>1, <2>2
<1> QED BY <1>1, <1>2, CloseStep DEF Shut

\* The server is not asked: the object was closed before or is a nontransaction.
LEMMA QuietClose ==
  ASSUME Base, CarefulInv, NEW x \in Tx, NEW status, status # "active", Shut(x, status), Alone(x),
         Told(x),         ~Blocks(x), db' = db, asking' = asking,
         \/ status = tx[x].status
         \/ Active(x) /\ x \in Tops /\ (status = "committed" => ~Spoiled(x))
  PROVE  CarefulInv'
<1> USE Names DEF Base, CarefulInv
<1>1. /\ \A y \in Tx : /\ tx'[y].kind = tx[y].kind /\ tx'[y].parent = tx[y].parent
                       /\ tx'[y].acked = tx[y].acked /\ tx'[y].wrote = tx[y].wrote
                       /\ tx'[y].doubted <=> tx[y].doubted
                       /\ tx'[y].left <=> tx[y].left
      /\ \A y \in Tx \ {x} : tx'[y] = tx[y]
      /\ tx'[x].status = status
  BY DEF Shut, Alone, Told
<1>2. /\ \A y \in Tx : Active(y)' => Active(y) /\ y # x /\ (Spoiled(y)' <=> Spoiled(y))
      /\ \A y \in Tx : Blocks(y)' <=> Blocks(y)
  BY <1>1 DEF Active, Blocks, Spoiled
<1>3. tx'[Sub].alive => tx[Sub].alive
  BY <1>1 DEF Shut
<1>4. tx[Sub].alive => tx[Sub].parent \in Tops
  BY DEF KindInv, LifeInv, NoTx
<1>5. Active(x) /\ x \in Tops => tx[x].kind = "nontransaction" /\ ~tx[Sub].alive /\ ~Active(Sub)
  BY <1>4 DEF Blocks, SoloInv, LifeInv
<1>6. stream' = stream
  BY DEF Shut
<1>7. SoloInv'
  <2>1. tx[Sub].alive => tx'[tx[Sub].parent].pending = tx[tx[Sub].parent].pending
    BY <1>1, <1>4 DEF SoloInv, Tx
  <2> QED BY <1>1, <1>2, <1>3, <1>4, <1>6, <2>1 DEF SoloInv
<1>8. ServerInv'
  BY <1>1, <1>2 DEF ServerInv, Tx
<1>12. LeftInv'
  <2>1. \A y \in Tx : Blocks(y)' => tx'[y] = tx[y]
    BY <1>1, <1>2 DEF Blocks
  <2> QED BY <1>1, <1>2, <2>1 DEF LeftInv, Tx
<1>9. CopyInv'
  <2>1. ~stream.finished => stream.on \in Tx
    BY DEF StreamInv, TypeInv, StreamType
  <2>2. ASSUME db.copy # "none", ~stream.finished
        PROVE  Active(stream.on)' \/ tx[stream.on].kind = "nontransaction"
    <3>1. CASE stream.on = x
      BY <1>1, <1>5, <2>2, <3>1 DEF CopyInv, Active, Blocks
    <3>2. CASE stream.on # x
      BY <1>1, <1>6, <2>1, <2>2, <3>2 DEF CopyInv, Active
    <3> QED BY <3>1, <3>2
  <2>3. \A y \in Tx : Blocks(y)' => Blocks(y) /\ tx'[y] = tx[y]
    BY <1>1, <1>2 DEF Blocks
  <2> QED BY <1>1, <1>6, <2>1, <2>2, <2>3 DEF CopyInv
<1>10. KeepInv'
  <2>1. (\A y \in Tops : Blocks(y) /\ db.up /\ ~Spoiled(y) =>
          /\ db.state = "failed" => SubFailed(y)
          /\ db.state = "block" => tx[y].acked \subseteq db.work
          /\ Active(Sub) /\ tx[Sub].parent = y => tx[y].acked \subseteq db.saved)'
    <3>1. SUFFICES ASSUME NEW y \in Tops, Blocks(y)', db'.up, ~Spoiled(y)'
                   PROVE  (/\ db.state = "failed" => SubFailed(y)
                           /\ db.state = "block" => tx[y].acked \subseteq db.work
                           /\ Active(Sub) /\ tx[Sub].parent = y => tx[y].acked \subseteq db.saved)'
      OBVIOUS
    <3>2. Blocks(y) /\ ~Spoiled(y)
      BY <1>2, <3>1 DEF Blocks
    <3>3. Active(Sub) => tx'[Sub] = tx[Sub]
      BY <1>1, <1>5 DEF Blocks, KindInv, Active
    <3>4. SubFailed(y) => SubFailed(y)'
      BY <1>1, <1>2, <3>3 DEF SubFailed, Active, Spoiled
    <3> QED BY <1>1, <1>2, <3>1, <3>2, <3>3, <3>4 DEF KeepInv, Active
  <2>2. (Active(Sub) /\ db.up /\ ~Spoiled(Sub) /\ db.state = "block" => tx[Sub].acked \subseteq db.work)'
    BY <1>1, <1>2 DEF KeepInv
  <2>3. (\A y \in Tops : tx[y].kind = "nontransaction" /\ Active(y) /\ ~Spoiled(y) => Durable(y))'
    BY <1>1, <1>2 DEF KeepInv, Durable
  <2>4. CommitKeepsAll'
    BY <1>1, <1>5 DEF KeepInv, CommitKeepsAll, Durable, Marred
  <2> QED BY <2>1, <2>2, <2>3, <2>4 DEF KeepInv
<1>11. DropInv'
  <2>1. Tried' = Tried
    BY <1>1 DEF Tried
  <2>2. \A y \in Tops : \/ tx'[y].status = tx[y].status /\ (tx'[y].unsure <=> tx[y].unsure)
                        \/ tx[y].kind = "nontransaction"
    <3>1. x \in Tops => \/ tx'[x].status = tx[x].status /\ (tx'[x].unsure <=> tx[x].unsure)
                        \/ tx[x].kind = "nontransaction"
      BY <1>1, <1>5 DEF Shut, Active
    <3> QED BY <1>1, <3>1 DEF Tx
  <2>3. \A y \in Tops : tx[y].kind = "nontransaction" => ~tx[y].doubted
    BY DEF KindInv
  <2>4. (\A y \in Tops : tx[y].status = "aborted" /\ tx[y].kind # "nontransaction" /\ ~tx[y].unsure =>
          /\ tx[y].wrote \cap db.durable = {}
          /\ (tx[y].left /\ db.up) \/ tx[y].wrote \cap Held(db) = {})'
    BY <1>1, <2>2 DEF DropInv, Tx
  <2> QED BY <1>1, <1>2, <2>1, <2>3, <2>4 DEF DropInv, Tx
<1> QED BY <1>7, <1>8, <1>9, <1>10, <1>11, <1>12

\* What the server may do when a transaction x of its own is closed with a status.
Ends(x, status) ==
    /\ Sound(db') /\ db'.copy = "none"
    /\ db'.up => db.up /\ db'.state = "idle"
    /\ db.durable \subseteq db'.durable
    /\ db'.durable \cup Held(db') \subseteq db.durable \cup Held(db)
    /\ status = "committed" /\ tx[x].kind = "transaction" /\ ~Marred(x) => tx[x].acked \subseteq db'.durable
    /\ status = "aborted" /\ ~tx'[x].unsure =>
          db'.durable = db.durable /\ Held(db') = {} /\ (tx[x].doubted => db.fate = "aborted")
    /\ ~db.up => db'.durable = db.durable /\ db'.fate = db.fate

\* CarefulInv is kept when a transaction ends on the server and its object is closed.
LEMMA EndClose ==
  ASSUME Base, CarefulInv, NEW x \in Tops, Blocks(x), ~tx[Sub].alive, NEW status, status # "active",
         Shut(x, status), Alone(x), Told(x), Ends(x, status), asking'.by = None
  PROVE  CarefulInv'
<1> USE Names DEF Base, CarefulInv
<1>1. /\ \A y \in Tx : /\ tx'[y].kind = tx[y].kind /\ tx'[y].parent = tx[y].parent
                       /\ tx'[y].acked = tx[y].acked /\ tx'[y].wrote = tx[y].wrote
                       /\ tx'[y].doubted <=> tx[y].doubted
                       /\ tx'[y].left <=> tx[y].left
      /\ \A y \in Tx \ {x} : tx'[y] = tx[y]
      /\ tx'[x].status = status
  BY DEF Shut, Alone, Told
<1>2. \A y \in Tx : ~Active(y)'
  <2>1. ~Active(Sub)'
    BY <1>1 DEF LifeInv, Active
  <2> QED BY <1>1, <2>1 DEF SoloInv, Blocks, Active, Tx
<1>3. \A y \in Tx : ~Blocks(y)'
  BY <1>2 DEF Blocks
<1>4. ~tx'[Sub].alive
  BY <1>1
<1>5. SoloInv'
  BY <1>2, <1>4 DEF SoloInv
<1>10. \A y \in Tops : ~tx'[y].left
  BY <1>1 DEF LeftInv, Tx
<1>11. LeftInv'
  BY <1>3, <1>10 DEF LeftInv
<1>6. ServerInv'
  BY <1>2, <1>3 DEF ServerInv, Ends
<1>7. CopyInv'
  BY <1>3 DEF CopyInv, Ends
<1>8. KeepInv'
  <2>1. CommitKeepsAll'
    <3>1. SUFFICES ASSUME NEW y \in Tops, tx'[y].status = "committed",
                          tx'[y].kind # "robusttransaction", ~Marred(y)'
                   PROVE  tx[y].acked \subseteq db'.durable
      BY <1>1 DEF CommitKeepsAll, Durable, Tx
    <3>2. ~Marred(y) /\ tx[y].kind # "robusttransaction"
      BY <1>1, <3>1 DEF Marred, Tx
    <3>3. CASE y = x
      <4>1. tx[x].kind = "transaction"
        BY <3>2, <3>3 DEF Blocks, KindInv, AllKinds
      <4> QED BY <1>1, <3>1, <3>2, <3>3, <4>1 DEF Ends
    <3>4. CASE y # x
      <4>1. tx[y].acked \subseteq db.durable
        BY <1>1, <3>1, <3>2, <3>4 DEF KeepInv, CommitKeepsAll, Durable, Tx
      <4> QED BY <4>1 DEF Ends
    <3> QED BY <3>3, <3>4
  <2> QED BY <1>2, <1>3, <2>1 DEF KeepInv
<1>9. DropInv'
  <2>1. Tried' = Tried
    BY <1>1 DEF Tried
  <2>2. (\A y \in Tops : tx[y].status = "aborted" /\ tx[y].kind # "nontransaction" /\ ~tx[y].unsure =>
          /\ tx[y].wrote \cap db.durable = {}
          /\ (tx[y].left /\ db.up) \/ tx[y].wrote \cap Held(db) = {})'
    <3>1. SUFFICES ASSUME NEW y \in Tops, tx'[y].status = "aborted", tx'[y].kind # "nontransaction",
                          ~tx'[y].unsure
                   PROVE  tx[y].wrote \cap (db'.durable \cup Held(db')) = {}
      BY <1>1 DEF Tx
    <3>2. CASE y = x
      <4>1. db'.durable = db.durable /\ Held(db') = {} /\ (tx[x].doubted => db.fate = "aborted")
        BY <1>1, <3>1, <3>2 DEF Ends
      <4>2. tx[x].wrote \cap db.durable = {}
        BY <4>1 DEF DropInv, Tx
      <4> QED BY <3>2, <4>1, <4>2
    <3>3. CASE y # x
      <4>1. tx'[y] = tx[y] /\ ~tx[y].left
        BY <1>1, <1>10, <3>3 DEF Tx
      <4>2. tx[y].wrote \cap (db.durable \cup Held(db)) = {}
        BY <3>1, <4>1 DEF DropInv
      <4> QED BY <4>2 DEF Ends
    <3> QED BY <3>2, <3>3
  <2>3. (\A y \in Tops : tx[y].doubted =>
          (db.fate \in {"aborted", "running"} => tx[y].wrote \cap db.durable = {}))'
    <3>1. \A y \in Tops : tx[y].doubted => ~db.up
      BY DEF KindInv
    <3> QED BY <1>1, <3>1 DEF DropInv, Ends, Tx
  <2> QED BY <1>3, <2>1, <2>2, <2>3 DEF DropInv, Ends
<1> QED BY <1>5, <1>6, <1>7, <1>8, <1>9, <1>11

\* CarefulInv is kept by abort() with a pending error: the block of a transaction stays behind,
\* that of a subtransaction stays failed for its parent.
LEMMA LeaveClose ==
  ASSUME Base, CarefulInv, NEW x \in Tx, Blocks(x), tx[x].pending, x = Sub \/ ~tx[Sub].alive,
         Shut(x, "aborted"), Alone(x), tx'[x].left, tx'[Sub].alive => tx[Sub].alive,
         db' = db, asking.by = None, asking' = asking
  PROVE  CarefulInv'
<1> USE Names DEF Base, CarefulInv
<1>1. /\ \A y \in Tx : /\ tx'[y].kind = tx[y].kind /\ tx'[y].parent = tx[y].parent
                       /\ tx'[y].acked = tx[y].acked /\ tx'[y].wrote = tx[y].wrote
                       /\ tx'[y].doubted <=> tx[y].doubted
      /\ \A y \in Tx \ {x} : tx'[y] = tx[y]
      /\ tx'[x].status = "aborted" /\ stream' = stream
  BY DEF Shut, Alone
<1>2. \A y \in Tx : Active(y)' => Active(y) /\ y # x /\ tx'[y] = tx[y]
  BY <1>1 DEF Active
<1>3. \A y \in Tx : (Blocks(y)' => Blocks(y) /\ y # x /\ tx'[y] = tx[y])
  BY <1>1, <1>2 DEF Blocks
<1>4. \A y \in Tops \ {x} : Blocks(y) => x = Sub /\ Blocks(y)'
  BY <1>1 DEF SoloInv, Blocks, Active, Tx
<1>5. db.up => db.state = "failed"
  BY DEF LeftInv
<1>6. x \in Tops => \A y \in Tx : ~Blocks(y)'
  BY <1>1, <1>2 DEF SoloInv, LifeInv, Blocks, Active, Tx
<1>7. SoloInv'
  <2>1. ASSUME tx'[Sub].alive
        PROVE  /\ Blocks(tx[Sub].parent)' /\ stream'.on # tx'[Sub].parent /\ asking'.by = None
               /\ ~tx'[tx'[Sub].parent].pending
    <3>1. tx[Sub].alive /\ x = Sub
      BY <2>1
    <3>2. tx[Sub].parent \in Tops
      BY <3>1 DEF KindInv, LifeInv, NoTx
    <3>3. tx'[tx[Sub].parent] = tx[tx[Sub].parent] /\ tx'[Sub].parent = tx[Sub].parent
      BY <1>1, <3>1, <3>2 DEF Tx
    <3> QED BY <1>1, <3>1, <3>3 DEF SoloInv, Blocks, Active
  <2>2. \A y, z \in Tops : Active(y)' /\ Active(z)' => y = z
    BY <1>2 DEF SoloInv, Tx
  <2>3. \A y \in Tx : tx'[y].doubted /\ Active(y)' => asking'.by = y
    BY <1>1, <1>2 DEF SoloInv
  <2> QED BY <2>1, <2>2, <2>3 DEF SoloInv
<1>8. ServerInv'
  <2>1. (db.up /\ db.state # "idle" => \E y \in Tops : Blocks(y) \/ tx[y].left)'
    <3>1. CASE x \in Tops
      BY <3>1
    <3>2. CASE x = Sub
      BY <1>1, <1>4, <3>2 DEF ServerInv, Tx
    <3> QED BY <3>1, <3>2 DEF Tx
  <2>2. (\A y \in Tops : Blocks(y) /\ db.up => db.state # "idle")'
    BY <1>5
  <2>3. (db.fate # "none" => \A y \in Tx : Blocks(y) => tx[y].doubted)'
    BY <1>1, <1>3 DEF ServerInv
  <2>4. (db.up /\ Active(Sub) => db.saved # None)'
    BY <1>2 DEF ServerInv, Tx
  <2> QED BY <2>1, <2>2, <2>3, <2>4 DEF ServerInv
<1>9. LeftInv'
  <2>1. ASSUME NEW y \in Tops, tx'[y].left PROVE \A z \in Tx : ~Blocks(z)'
    BY <1>1, <1>3, <1>6, <2>1 DEF LeftInv, Tx
  <2> QED BY <1>5, <2>1 DEF LeftInv
<1>10. CopyInv'
  <2>1. ~(db.copy # "none" /\ ~stream.finished)
    BY <1>5 DEF CopyInv, Sound, TypeInv
  <2>2. \A y \in Tx : Blocks(y)' => Blocks(y) /\ (tx'[y].focus <=> tx[y].focus)
    BY <1>3
  <2> QED BY <1>1, <2>1, <2>2 DEF CopyInv
<1>11. KeepInv'
  <2>1. ASSUME NEW y \in Tops, Blocks(y)', db.up, ~Spoiled(y)' PROVE SubFailed(y)' /\ ~Active(Sub)'
    <3>1. x = Sub /\ Blocks(y)
      BY <1>3, <1>6, <2>1 DEF Tx
    <3>2. tx[Sub].parent = y
      BY <3>1 DEF SoloInv, Blocks, LifeInv, Active, KindInv
    <3> QED BY <1>1, <1>2, <3>1, <3>2 DEF SubFailed
  <2>2. (Active(Sub) /\ db.up /\ ~Spoiled(Sub) /\ db.state = "block" => tx[Sub].acked \subseteq db.work)'
    BY <1>5
  <2>3. (\A y \in Tops : tx[y].kind = "nontransaction" /\ Active(y) /\ ~Spoiled(y) => Durable(y))'
    BY <1>2 DEF KeepInv, Durable, Spoiled, Tx
  <2>4. CommitKeepsAll'
    <3>1. \A y \in Tops : Marred(y) => Marred(y)'
      BY <1>1 DEF Marred
    <3> QED BY <1>1, <3>1 DEF KeepInv, CommitKeepsAll, Durable, Tx
  <2> QED BY <1>5, <2>1, <2>2, <2>3, <2>4 DEF KeepInv
<1>12. DropInv'
  <2>1. Tried' = Tried
    BY <1>1 DEF Tried
  <2>2. x \in Tops /\ ~db.up /\ ~tx[x].doubted => Held(db) = {}
    BY DEF Held, ServerInv, TypeInv, Sound
  <2>3. ASSUME NEW y \in Tops, tx'[y].status = "aborted", tx'[y].kind # "nontransaction", ~tx'[y].unsure
        PROVE  /\ tx[y].wrote \cap db.durable = {}
               /\ (tx'[y].left /\ db.up) \/ tx[y].wrote \cap Held(db) = {}
    <3>1. CASE y = x
      <4>1. ~tx[x].doubted
        BY DEF SoloInv, Blocks
      <4> QED BY <2>2, <3>1, <4>1 DEF DropInv
    <3>2. CASE y # x
      BY <1>1, <2>3, <3>2 DEF DropInv, Tx
    <3> QED BY <3>1, <3>2
  <2>4. (\A y \in Tops : tx[y].doubted =>
          (db.fate \in {"aborted", "running"} => tx[y].wrote \cap db.durable = {}))'
    BY <1>1 DEF DropInv, Tx
  <2>5. (\A y \in Tx : Blocks(y) /\ ~tx[y].doubted => tx[y].wrote \cap db.durable = {})'
    BY <1>1, <1>3 DEF DropInv
  <2> QED BY <1>1, <2>1, <2>3, <2>4, <2>5 DEF DropInv, Tx
<1> QED BY <1>7, <1>8, <1>9, <1>10, <1>11, <1>12

\* What the server may do when the subtransaction is closed: the parent p goes on.
Resumes(p) ==
    /\ Sound(db') /\ db'.copy = "none" /\ db'.durable = db.durable /\ db'.fate = db.fate
    /\ Held(db') \subseteq Held(db)
    /\ db'.up => db.up /\ db'.state # "idle"
    /\ db'.up /\ ~Spoiled(p) => db'.state = "block" /\ tx'[p].acked \subseteq db'.work

\* CarefulInv is kept when a subtransaction is closed.
LEMMA SubClose ==
  ASSUME Base, CarefulInv, Active(Sub), NEW status, status # "active", Shut(Sub, status),
         NEW p, p = tx[Sub].parent, Alone(Sub) \/ Merged(Sub, p), Told(Sub), Resumes(p),
         asking.by = None, asking' = asking
  PROVE  CarefulInv'
<1> USE Names DEF Base, CarefulInv
<1>0. /\ p \in Tops /\ Blocks(p) /\ stream.on # p /\ ~tx[p].pending
  BY DEF LifeInv, KindInv, SoloInv, Active
<1>1. /\ \A y \in Tx : /\ tx'[y].kind = tx[y].kind /\ tx'[y].parent = tx[y].parent
                       /\ tx'[y].doubted <=> tx[y].doubted
      /\ \A y \in Tops : /\ tx'[y].status = tx[y].status
                         /\ Spoiled(y)' <=> Spoiled(y)
                         /\ tx'[y].pending <=> tx[y].pending
                         /\ tx'[y].focus <=> tx[y].focus
                         /\ tx'[y].unsure <=> tx[y].unsure
      /\ \A y \in Tx : tx'[y].left <=> tx[y].left
      /\ \A y \in Tops \ {p} : tx'[y] = tx[y]
      /\ tx'[Sub].status = status
      /\ tx[p].wrote \subseteq tx'[p].wrote /\ tx'[p].wrote \subseteq tx[p].wrote \cup tx[Sub].wrote
      /\ tx'[Sub].wrote = tx[Sub].wrote
  <2>1. CASE Alone(Sub)
    BY <1>0, <2>1 DEF Shut, Alone, Told, Spoiled, Tx
  <2>2. CASE Merged(Sub, p)
    BY <1>0, <2>2, SMTT(30) DEF Shut, Merged, Told, Used, Spoiled, Tx
  <2> QED BY <2>1, <2>2
<1>2. /\ \A y \in Tops : Active(y)' <=> Active(y)
      /\ \A y \in Tops : Blocks(y)' <=> Blocks(y)
      /\ ~Active(Sub)' /\ ~Blocks(Sub)'
  BY <1>1 DEF Active, Blocks
<1>3. \A y \in Tops : Active(y) => y = p
  BY <1>0 DEF SoloInv, Blocks
<1>4. stream' = stream
  BY DEF Shut
<1>5. SoloInv'
  <2>1. \A y \in Tx : ~(tx'[y].doubted /\ Active(y)')
    BY <1>1, <1>2 DEF SoloInv, Tx
  <2> QED BY <1>0, <1>1, <1>2, <1>4, <2>1 DEF SoloInv
<1>10. \A y \in Tops : ~tx'[y].left
  BY <1>0, <1>1 DEF LeftInv, Tx
<1>11. LeftInv'
  <2>1. \A y \in Tx : ~(Blocks(y)' /\ tx'[y].pending)
    BY <1>0, <1>1, <1>2, <1>3 DEF Blocks, Tx
  <2> QED BY <1>10, <2>1 DEF LeftInv
<1>6. ServerInv'
  BY <1>0, <1>1, <1>2 DEF ServerInv, Resumes, Tx
<1>7. CopyInv'
  <2>1. \A y \in Tx : ~(Blocks(y)' /\ tx'[y].focus)
    BY <1>0, <1>1, <1>2, <1>3 DEF Blocks, StreamInv, Tx
  <2> QED BY <2>1 DEF CopyInv, Resumes
<1>8. KeepInv'
  <2>1. ASSUME NEW y \in Tops, Blocks(y)', db'.up, ~Spoiled(y)'
        PROVE  db'.state = "block" /\ tx'[y].acked \subseteq db'.work
    <3>1. y = p /\ ~Spoiled(p)
      BY <1>1, <1>2, <1>3, <2>1 DEF Blocks
    <3> QED BY <2>1, <3>1 DEF Resumes
  <2>2. \A y \in Tops : ~(tx'[y].kind = "nontransaction" /\ Active(y)')
    BY <1>0, <1>1, <1>2, <1>3 DEF Blocks
  <2>3. CommitKeepsAll'
    <3>1. SUFFICES ASSUME NEW y \in Tops, tx'[y].status = "committed",
                          tx'[y].kind # "robusttransaction", ~Marred(y)'
                   PROVE  Durable(y)'
      BY DEF CommitKeepsAll
    <3>2. ~Marred(y) /\ tx'[y] = tx[y]
      BY <1>0, <1>1, <3>1 DEF Marred, Blocks, Active, Tx
    <3> QED BY <3>1, <3>2 DEF KeepInv, CommitKeepsAll, Durable, Resumes
  <2> QED BY <1>2, <2>1, <2>2, <2>3 DEF KeepInv
<1>9. DropInv'
  <2>1. Tried \subseteq Tried'
    BY <1>0, <1>1 DEF Tried, Tx
  <2>2. (\A y \in Tx : Blocks(y) /\ ~tx[y].doubted => tx[y].wrote \cap db.durable = {})'
    <3>1. SUFFICES ASSUME NEW y \in Tx, Blocks(y)', ~tx'[y].doubted
                   PROVE  tx'[y].wrote \cap db.durable = {}
      BY DEF Resumes
    <3>2. y = p /\ ~tx[p].doubted
      BY <1>1, <1>2, <1>3, <3>1 DEF Blocks, Tx
    <3>3. Blocks(Sub) /\ ~tx[Sub].doubted
      BY DEF KindInv, Blocks, Active
    <3>4. tx[p].wrote \cap db.durable = {} /\ tx[Sub].wrote \cap db.durable = {}
      BY <1>0, <3>2, <3>3 DEF DropInv
    <3> QED BY <1>1, <3>2, <3>4
  <2>3. (\A y \in Tops : tx[y].status = "aborted" /\ tx[y].kind # "nontransaction" /\ ~tx[y].unsure =>
          /\ tx[y].wrote \cap db.durable = {}
          /\ (tx[y].left /\ db.up) \/ tx[y].wrote \cap Held(db) = {})'
    <3>1. \A y \in Tops : tx'[y].status = "aborted" => y # p
      BY <1>0, <1>1 DEF Blocks, Active
    <3>2. \A y \in Tops : tx'[y].status = "aborted" => tx'[y] = tx[y] /\ ~tx[y].left
      BY <1>1, <1>10, <3>1 DEF Tx
    <3>3. db'.durable \cup Held(db') \subseteq db.durable \cup Held(db)
      BY DEF Resumes
    <3> QED BY <3>2, <3>3 DEF DropInv
  <2>4. (\A y \in Tops : tx[y].doubted =>
          (db.fate \in {"aborted", "running"} => tx[y].wrote \cap db.durable = {}))'
    <3>1. ~tx[p].doubted
      BY <1>0 DEF SoloInv, Blocks
    <3> QED BY <1>1, <3>1 DEF DropInv, Resumes
  <2> QED BY <2>1, <2>2, <2>3, <2>4 DEF DropInv, Resumes
<1> QED BY <1>5, <1>6, <1>7, <1>8, <1>9, <1>11

\* The connection is lost while a robusttransaction commits.
LEMMA DoubtCareful ==
  ASSUME Base, CarefulInv, NEW x \in Tops, Blocks(x), ~tx[Sub].alive,
         tx[x].kind = "robusttransaction", tx' = [tx EXCEPT ![x].doubted = TRUE],
         asking' = [by |-> x, attempts |-> 0], UNCHANGED <<trans, stream>>,
         db.up, Sound(db'), ~db'.up, db.durable \subseteq db'.durable,
         db'.durable \cup Held(db') \subseteq db.durable \cup Held(db),
         db'.fate \in {"aborted", "running"} => db'.durable = db.durable
  PROVE  CarefulInv'
<1> USE Names DEF Base, CarefulInv
<1> DEFINE v == [tx[x] EXCEPT !.doubted = TRUE]
<1>0. tx[x] \in TxType
  BY DEF TypeInv
<1>1. /\ v \in TxType /\ v.kind = tx[x].kind /\ v.parent = tx[x].parent /\ v.status = tx[x].status
      /\ v.acked = tx[x].acked /\ v.wrote = tx[x].wrote /\ v.doubted
      /\ v.left <=> tx[x].left
      /\ v.unsure <=> tx[x].unsure
  BY <1>0 DEF TxType
<1>2. Becomes(x, v)
  BY <1>1 DEF Becomes
<1> HIDE DEF v
<1>3. tx' \in [Tx -> TxType] /\ tx'[x] = v /\ \A y \in Tx \ {x} : tx'[y] = tx[y]
  BY <1>2, OneChanged
<1>4. \A y \in Tx : /\ Active(y)' => y = x
                    /\ tx'[y].wrote = tx[y].wrote /\ tx'[y].acked = tx[y].acked
                    /\ tx'[y].kind = tx[y].kind /\ tx'[y].status = tx[y].status
                    /\ tx'[y].left <=> tx[y].left
                    /\ tx'[y].unsure <=> tx[y].unsure
                    /\ tx'[y].parent = tx[y].parent
                    /\ tx'[y].doubted => y = x
  <2>1. ~Active(Sub)
    BY DEF LifeInv
  <2>2. \A y \in Tx : ~tx[y].doubted
    BY DEF KindInv
  <2> QED BY <1>1, <1>3, <2>1, <2>2 DEF SoloInv, Blocks, Active, Tx
<1>5. SoloInv'
  <2>1. ~tx'[Sub].alive
    BY <1>3
  <2> QED BY <1>4, <2>1 DEF SoloInv
<1>10. \A y \in Tops : ~tx'[y].left
  BY <1>4 DEF LeftInv, Tx
<1>11. LeftInv'
  BY <1>10 DEF LeftInv
<1>6. ServerInv'
  BY <1>1, <1>3, <1>4 DEF ServerInv, Blocks
<1>7. CopyInv'
  BY DEF CopyInv, Sound
<1>8. KeepInv'
  <2>1. CommitKeepsAll'
    BY <1>4 DEF KeepInv, CommitKeepsAll, Durable, Marred, Tx
  <2>2. \A y \in Tops : ~(tx'[y].kind = "nontransaction" /\ Active(y)')
    BY <1>4 DEF Tx
  <2> QED BY <2>1, <2>2 DEF KeepInv
<1>9. DropInv'
  <2>1. Tried' = Tried
    BY <1>4 DEF Tried
  <2>2. ~tx[x].doubted /\ tx[x].wrote \cap db.durable = {}
    BY DEF KindInv, DropInv
  <2>3. \A y \in Tx : Blocks(y)' => tx'[y].doubted
    BY <1>1, <1>3, <1>4 DEF Blocks
  <2>4. (\A y \in Tops : tx[y].doubted =>
          (db.fate \in {"aborted", "running"} => tx[y].wrote \cap db.durable = {}))'
    BY <1>4, <2>2 DEF Blocks, Active
  <2>5. (\A y \in Tops : tx[y].status = "aborted" /\ tx[y].kind # "nontransaction" /\ ~tx[y].unsure =>
          /\ tx[y].wrote \cap db.durable = {}
          /\ (tx[y].left /\ db.up) \/ tx[y].wrote \cap Held(db) = {})'
    <3>1. \A y \in Tops : tx'[y].status = "aborted" => ~tx[y].left
      BY <1>4, <1>10 DEF Tx
    <3> QED BY <1>4, <3>1 DEF DropInv, Tx
  <2> QED BY <2>1, <2>3, <2>4, <2>5 DEF DropInv
<1> QED BY <1>5, <1>6, <1>7, <1>8, <1>9, <1>11

\* A transaction that does not wait for a subtransaction is the only one in use.
LEMMA NoSub ==
  ASSUME Base, CarefulInv, NEW x \in Tops, Active(x), ~Waits(x)
  PROVE  ~tx[Sub].alive /\ ~Active(Sub)
<1>1. tx[Sub].alive => tx[Sub].parent \in Tops
  BY Names DEF Base, KindInv, LifeInv, NoTx
<1> QED BY <1>1, Names DEF Base, CarefulInv, SoloInv, Blocks, Waits, LifeInv

\* ROLLBACK, whatever comes of it.
LEMMA RollbackMoves ==
  ASSUME NEW d, Sound(d), NEW o \in Execute(d, "rollback", {})
  PROVE  /\ Sound(o.db) /\ o.db.copy = "none"
         /\ o.db.up => d.up /\ o.db.state = "idle"
         /\ ~d.up => ~o.db.up
         /\ o.db.durable = d.durable /\ o.db.fate = d.fate
         /\ Held(o.db) \subseteq Held(d)
         /\ d.up => Held(o.db) = {}
<1>0. d \in DbType
  BY DEF Sound
<1>1. Sound(o.db) /\ (~d.up => ~o.db.up)
  BY ExecuteSound DEF Ops
<1>2. /\ o.db.durable = d.durable /\ o.db.fate = d.fate /\ (d.up => o.db.copy = "none")
      /\ ~d.up => o.db.work = d.work /\ o.db.saved = d.saved /\ o.db.copied = d.copied /\ o.db.copy = d.copy
  BY <1>0, ExecuteAny DEF Ops, CopyOps
<1>3. d.up => o.db.state = "idle" /\ o.db.work = {} /\ o.db.saved = None /\ o.db.copied = {}
  BY <1>0, ExecuteRollback
<1>4. d.up => Held(o.db) = {}
  BY <1>3 DEF Held
<1>5. ~d.up => Held(o.db) = Held(d)
  BY <1>2 DEF Held
<1> QED BY <1>1, <1>2, <1>3, <1>4, <1>5 DEF Sound

\* do_abort leaves a sound session.
LEMMA RollbacksMove ==
  ASSUME Base, NEW x \in Tx, db' \in Rollbacks(x)
  PROVE  DbMoves
<1>1. Sound(db)
  BY DEF Base, TypeInv
<1>2. CASE tx[x].kind = "nontransaction"
  BY <1>1, <1>2 DEF Rollbacks, DbMoves
<1>3. CASE tx[x].kind = "subtransaction"
  <2> PICK o \in Execute(db, "rollback_to", {}) : db' = o.db
    BY <1>3 DEF Rollbacks
  <2> QED BY <1>1, ExecuteSound DEF DbMoves, Ops
<1>4. CASE tx[x].kind \notin {"nontransaction", "subtransaction"}
  <2> PICK o \in Execute(db, "rollback", {}) : db' = o.db
    BY <1>4 DEF Rollbacks
  <2> QED BY <1>1, ExecuteSound DEF DbMoves, Ops
<1> QED BY <1>2, <1>3, <1>4

\* do_abort of a transaction leaves nothing of it on the server.
LEMMA RollbackEnds ==
  ASSUME Base, CarefulInv, NEW x \in Tops, Blocks(x), asking.by = None,
         NEW o \in Execute(db, "rollback", {}), db' = o.db
  PROVE  Ends(x, "aborted")
<1> USE DEF Base, CarefulInv
<1>1. Sound(db) /\ ~tx[x].doubted
  BY Names DEF TypeInv, SoloInv, Blocks
<1>2. /\ Sound(o.db) /\ o.db.copy = "none"
      /\ o.db.up => db.up /\ o.db.state = "idle"
      /\ o.db.durable = db.durable /\ o.db.fate = db.fate
      /\ Held(o.db) \subseteq Held(db)
      /\ db.up => Held(o.db) = {}
  BY <1>1, RollbackMoves
<1>3. ~db.up => Held(db) = {}
  BY <1>1, Names DEF Held, Sound, ServerInv
<1> QED BY <1>1, <1>2, <1>3 DEF Ends

\* ROLLBACK TO SAVEPOINT leaves what the parent had done before.
LEMMA RollbackToResumes ==
  ASSUME Base, CarefulInv, Active(Sub), NEW p, p = tx[Sub].parent, Alone(Sub),
         NEW o \in Execute(db, "rollback_to", {}), db' = o.db
  PROVE  Resumes(p)
<1> USE Names DEF Base, CarefulInv
<1>0. Sound(db) /\ db \in DbType
  BY DEF TypeInv, Sound
<1>1. /\ p \in Tops /\ Blocks(p) /\ tx'[p].acked = tx[p].acked
  BY DEF LifeInv, KindInv, SoloInv, Active, Alone
<1>2. Sound(o.db)
  BY <1>0, ExecuteSound DEF Ops
<1>3. /\ o.db.durable = db.durable /\ o.db.fate = db.fate /\ (db.up => o.db.copy = "none")
      /\ o.db.up => db.up /\ o.db.copied = {}
      /\ ~db.up => o.db.work = db.work /\ o.db.saved = db.saved /\ o.db.copied = db.copied /\ o.db.copy = db.copy
      /\ db.up /\ ~o.db.up => o.db.saved = None /\ o.db.copied = {} /\ o.db.work = {}
  BY <1>0, ExecuteAny DEF Ops, CopyOps
<1>4. o.db.up => /\ o.db.saved = db.saved
                 /\ \/ /\ o.r = "ok" /\ db.state # "idle" /\ db.saved # None
                       /\ o.db.state = "block" /\ o.db.work = db.saved
                    \/ /\ o.r = "sql_error" /\ (db.state = "idle" \/ db.saved = None)
                       /\ o.db.state = Fails(db.state) /\ o.db.work = db.work
  BY <1>0, ExecuteRollbackTo
<1>5. db.up => db.state # "idle" /\ db.saved # None
  BY <1>1 DEF ServerInv
<1>6. o.db.up => o.db.state = "block" /\ o.db.work = db.saved
  BY <1>3, <1>4, <1>5
<1>7. Held(o.db) \subseteq Held(db)
  <2>1. CASE o.db.up BY <1>3, <1>4, <1>5, <1>6, <2>1 DEF Held
  <2>2. CASE ~o.db.up BY <1>3, <2>2 DEF Held
  <2> QED BY <2>1, <2>2
<1>8. o.db.copy = "none"
  BY <1>0, <1>3 DEF Sound
<1>9. o.db.up /\ ~Spoiled(p) => tx'[p].acked \subseteq o.db.work
  BY <1>1, <1>3, <1>6 DEF KeepInv
<1> QED BY <1>2, <1>3, <1>6, <1>7, <1>8, <1>9 DEF Resumes

\* abort(), or the destructor of an object that is still active.
LEMMA AbortedStep ==
  ASSUME Base, NEW x \in Tx, Active(x), asking.by = None, asking' = asking,
         Shut(x, "aborted"), Alone(x), Told(x), db' \in Rollbacks(x), Careful => ~Waits(x)
  PROVE  StepOK
<1> USE Names
<1>1. DbMoves
  BY RollbacksMove
<1>2. asking' \in [by : {None}, attempts : Nat]
  BY DEF Base, TypeInv
<1>3. Base'
  BY <1>1, <1>2, ShutStep
<1>4. ASSUME Careful, CarefulInv PROVE CarefulInv'
  <2>1. CASE tx[x].kind = "nontransaction"
    <3>1. db' = db
      BY <2>1 DEF Rollbacks
    <3>2. x \in Tops /\ ~Blocks(x)
      BY <2>1 DEF Base, KindInv, Blocks, Active, Tx
    <3> QED BY <1>4, <3>1, <3>2, QuietClose
  <2>2. CASE tx[x].kind = "subtransaction"
    <3>1. x = Sub
      BY <2>2 DEF Base, KindInv, AllKinds, Tx
    <3> PICK o \in Execute(db, "rollback_to", {}) : db' = o.db
      BY <2>2 DEF Rollbacks
    <3>2. Resumes(tx[Sub].parent)
      BY <1>4, <3>1, RollbackToResumes
    <3> QED BY <1>4, <3>1, <3>2, SubClose
  <2>3. CASE tx[x].kind \notin {"nontransaction", "subtransaction"}
    <3>1. x \in Tops /\ Blocks(x)
      BY <2>3 DEF Base, KindInv, Active, Blocks, Tx
    <3> PICK o \in Execute(db, "rollback", {}) : db' = o.db
      BY <2>3 DEF Rollbacks
    <3>2. Ends(x, "aborted")
      BY <1>4, <3>1, RollbackEnds
    <3>3. ~tx[Sub].alive
      BY <1>4, <3>1, NoSub
    <3> QED BY <1>4, <3>1, <3>2, <3>3, EndClose
  <2> QED BY <2>1, <2>2, <2>3
<1> QED BY <1>3, <1>4 DEF StepOK

\* abort(). With a pending error it sends nothing, and then the block stays open.
LEMMA AbortStep ==
  ASSUME Base, NEW x \in Tx, Abort(x)
  PROVE  StepOK
<1> USE Names
<1>0. /\ asking.by = None /\ tx[x].alive /\ Active(x) /\ (Careful => ~Waits(x))
      /\ trans' = Unregistered(x)
      /\ tx' = [tx EXCEPT ![x] = [Closed(tx[x], "aborted") EXCEPT !.left = tx[x].left \/ Unsent(x)]]
      /\ stream' = stream /\ asking' = asking
      /\ IF tx[x].pending THEN UNCHANGED db ELSE db' \in Rollbacks(x)
  BY DEF Abort, Call, Active
<1>1. /\ Shut(x, "aborted") /\ Alone(x)
      /\ Told(x) \/ (Unsent(x) /\ tx'[x].left)
  BY <1>0, ClosedShuts DEF Statuses
<1>2. CASE ~Unsent(x)
  <2>1. db' \in Rollbacks(x)
    BY <1>0, <1>2 DEF Unsent, Rollbacks
  <2> QED BY <1>0, <1>1, <1>2, <2>1, AbortedStep
<1>3. CASE Unsent(x)
  <2>0. tx'[x].left
    <3>1. tx \in [Tx -> TxType] /\ tx[x] \in TxType
      BY DEF Base, TypeInv
    <3>2. tx'[x] = [Closed(tx[x], "aborted") EXCEPT !.left = tx[x].left \/ Unsent(x)]
      BY <1>0, <3>1
    <3> QED BY <1>3, <3>1, <3>2 DEF Closed, TxType
  <2>1. db' = db /\ tx[x].pending /\ Blocks(x) /\ tx'[x].left
    BY <1>0, <1>3, <2>0 DEF Unsent, Blocks
  <2>2. DbMoves /\ asking' \in [by : {None}, attempts : Nat]
    BY <1>0, <2>1 DEF Base, TypeInv, DbMoves
  <2>3. Base'
    BY <1>0, <1>1, <2>2, ShutStep
  <2>4. ASSUME Careful, CarefulInv PROVE CarefulInv'
    <3>1. x = Sub \/ ~tx[Sub].alive
      BY <1>0, <2>4, NoSub DEF Tx
    <3>2. tx'[Sub].alive => tx[Sub].alive
      BY <1>0, <1>1 DEF Alone
    <3> QED BY <1>0, <1>1, <2>1, <2>4, <3>1, <3>2, LeaveClose
  <2> QED BY <2>3, <2>4 DEF StepOK
<1> QED BY <1>2, <1>3

\* The destructor of a transaction.
LEMMA DestroyStep ==
  ASSUME Base, NEW x \in Tx, Destroy(x)
  PROVE  StepOK
<1> USE Names
<1> DEFINE status == IF tx[x].status = "active" THEN "aborted" ELSE tx[x].status
<1>0. /\ asking.by = None /\ tx[x].alive /\ ~Waits(x) /\ stream.on # x
      /\ trans' = Unregistered(x)
      /\ tx' = [tx EXCEPT ![x] = [Closed(@, status) EXCEPT !.alive = FALSE]]
      /\ stream' = stream /\ asking' = asking
      /\ IF Active(x) THEN db' \in Rollbacks(x) ELSE UNCHANGED db
  BY DEF Destroy, Call, Active, StreamOn, RollsBack
<1>1. tx[x].status \in Statuses /\ tx[x].status # "none"
  BY <1>0 DEF Base, TypeInv, TxType, LifeInv, NoTx
<1>2. status \in Statuses /\ status \in {"committed", "aborted", "in_doubt"}
      /\ (Active(x) => status = "aborted") /\ (~Active(x) => status = tx[x].status)
  BY <1>1 DEF Statuses, Active
<1> HIDE DEF status
<1>3. Shut(x, status) /\ Alone(x) /\ Told(x)
  <2>1. tx \in [Tx -> TxType] /\ tx[x] \in TxType
    BY DEF Base, TypeInv
  <2>2. tx'[x] = [Closed(tx[x], status) EXCEPT !.alive = FALSE]
    BY <1>0, <2>1
  <2>3. Told(x)
    BY <2>1, <2>2 DEF Told, Closed, TxType
  <2> QED BY <1>0, <1>2, <2>3, ClosedShuts
<1>4. CASE Active(x)
  BY <1>0, <1>2, <1>3, <1>4, AbortedStep
<1>5. CASE ~Active(x)
  <2>1. DbMoves /\ asking' \in [by : {None}, attempts : Nat] /\ db' = db /\ ~Blocks(x)
    BY <1>0, <1>5 DEF Base, TypeInv, DbMoves, Blocks
  <2>2. ~tx[x].focus
    BY <1>0 DEF Base, StreamInv
  <2>3. Base'
    BY <1>0, <1>2, <1>3, <2>1, <2>2, ShutStep
  <2>4. CarefulInv => CarefulInv'
    BY <1>0, <1>2, <1>3, <1>5, <2>1, QuietClose
  <2> QED BY <2>3, <2>4 DEF StepOK
<1> QED BY <1>4, <1>5

\* commit() goes on to do_commit.
Committing(x) ==
    /\ asking.by = None /\ tx[x].alive /\ Heeds(x) /\ ~tx[x].pending /\ Active(x)
    /\ ~tx[x].focus /\ db.open /\ stream' = stream

\* What a careful client commits has no error behind it.
LEMMA CommittingCareful ==
  ASSUME Base, Careful, CarefulInv, NEW x \in Tx, Committing(x)
  PROVE  ~Spoiled(x) /\ ~Waits(x) /\ Finds(db) = db.state
<1>1. ~Waits(x) /\ ~Spoiled(x) /\ Active(x) /\ ~tx[x].focus
  BY DEF Committing, Heeds, Spoiled
<1> QED BY <1>1, NoCopyHere

\* No commit asks.
LEMMA AskingIdle ==
  ASSUME Base, asking.by = None, asking' = asking
  PROVE  asking' \in [by : {None}, attempts : Nat]
  BY DEF Base, TypeInv

\* basic_transaction::do_commit: when it returns the block was good, so the commit was not a
\* rollback in disguise; when it throws without a doubt nothing was committed.
LEMMA CommitBasicStep ==
  ASSUME Base, NEW x \in Tops, tx[x].kind = "transaction", Committing(x), CommitBasic(x)
  PROVE  StepOK
<1> USE Names DEF Committing
<1> PICK o \in Execute(db, "commit", {}) :
        /\ db' = o.db
        /\ CASE o.r = "ok" -> Committed(x)
             [] o.r = "unknown" \/ ~o.db.open -> CommitThrows(x, "in_doubt", FALSE)
             [] OTHER -> CommitThrows(x, "aborted", FALSE)
        /\ UNCHANGED asking
  BY DEF CommitBasic
<1>0. Sound(db) /\ db \in DbType /\ x \in Tx
  BY DEF Base, TypeInv, Sound
<1>1. DbMoves
  BY <1>0, ExecuteSound DEF DbMoves, Ops
<1>2. /\ o.r \in {"ok", "sql_error", "unknown", "broken"}
      /\ o.r = "broken" <=> ~o.db.up
      /\ ~o.db.up => ~o.db.open
      /\ o.db.up => db.up
      /\ ~db.up => /\ o.db.work = db.work /\ o.db.saved = db.saved /\ o.db.copy = db.copy
                   /\ o.db.copied = db.copied /\ o.db.durable = db.durable /\ o.db.fate = db.fate
      /\ db.up => o.db.copy = "none"
      /\ db.durable \subseteq o.db.durable
  BY <1>0, ExecuteAny DEF Ops, CopyOps
<1>3. db.up =>
         /\ o.db.state = "idle" /\ o.db.saved = None /\ o.db.copied = {}
         /\ \/ /\ o.db.up /\ o.db.work = {}
               /\ \/ /\ o.r \in {"ok", "unknown"} /\ Finds(db) = "block"
                     /\ o.db.durable = db.durable \cup db.work
                  \/ /\ o.r \in {"sql_error", "unknown"} /\ Finds(db) = "block"
                     /\ o.db.durable = db.durable
                  \/ o.r = "ok" /\ Finds(db) # "block" /\ o.db.durable = db.durable
            \/ /\ o.r = "broken" /\ Finds(db) = "block"
               /\ \/ o.db.fate = "aborted" /\ o.db.work = {} /\ o.db.durable = db.durable
                  \/ o.db.fate = "committed" /\ o.db.work = {} /\ o.db.durable = db.durable \cup db.work
                  \/ o.db.fate = "running" /\ o.db.work = db.work /\ o.db.durable = db.durable
            \/ /\ o.r = "broken" /\ Finds(db) # "block" /\ o.db.work = {}
               /\ o.db.fate = db.fate /\ o.db.durable = db.durable
  BY <1>0, ExecuteCommit
<1> DEFINE status == IF o.r = "ok" THEN "committed"
                     ELSE IF o.r = "unknown" \/ ~o.db.open THEN "in_doubt" ELSE "aborted"
<1>4. /\ status \in {"committed", "aborted", "in_doubt"}
      /\ status = "committed" => o.r = "ok"
      /\ status = "aborted" => o.r = "sql_error"
  BY <1>2
<1>5. Shut(x, status) /\ Alone(x) /\ Told(x)
  <2>1. CASE o.r = "ok"
    <3>1. o.db.open
      BY <1>0, <2>1, ExecuteUp DEF Ops
    <3>2. Committed(x) /\ status = "committed"
      BY <2>1, <3>1
    <3> QED BY <1>0, <3>2, CommittedShuts
  <2>2. CASE o.r # "ok" /\ (o.r = "unknown" \/ ~o.db.open)
    <3>1. CommitThrows(x, "in_doubt", FALSE) /\ status = "in_doubt"
      BY <2>2
    <3> QED BY <1>0, <3>1, ThrowsShuts DEF Statuses
  <2>3. CASE o.r # "ok" /\ ~(o.r = "unknown" \/ ~o.db.open)
    <3>1. CommitThrows(x, "aborted", FALSE) /\ status = "aborted"
      BY <2>3
    <3> QED BY <1>0, <3>1, ThrowsShuts DEF Statuses
  <2> QED BY <2>1, <2>2, <2>3
<1> HIDE DEF status
<1>6. asking' \in [by : {None}, attempts : Nat]
  BY AskingIdle
<1>7. Base'
  BY <1>0, <1>1, <1>4, <1>5, <1>6, ShutStep
<1>8. ASSUME Careful, CarefulInv PROVE CarefulInv'
  <2>1. ~Spoiled(x) /\ ~Waits(x) /\ Finds(db) = db.state
    BY <1>0, <1>8, CommittingCareful
  <2>2. ~tx[Sub].alive /\ ~Active(Sub) /\ Blocks(x)
    BY <1>8, <2>1, NoSub DEF Blocks
  <2>3. db.up /\ ~Marred(x) => db.state = "block" /\ tx[x].acked \subseteq db.work
    <3>1. db.up => db.state \in {"block", "failed"}
      BY <1>0, <1>8, <2>2 DEF CarefulInv, ServerInv, DbType, States
    <3>2. ~SubFailed(x) \/ Marred(x)
      BY <2>2 DEF SubFailed, Marred
    <3> QED BY <1>8, <2>1, <2>2, <3>1, <3>2 DEF CarefulInv, KeepInv
  <2>4. ~tx[x].doubted
    BY <1>0 DEF Base, KindInv
  <2>5. db'.durable \cup Held(db') \subseteq db.durable \cup Held(db)
    <3>1. CASE db.up BY <1>3, <3>1 DEF Held
    <3>2. CASE ~db.up BY <1>2, <3>2 DEF Held
    <3> QED BY <3>1, <3>2
  <2>6. o.r = "ok" /\ ~Marred(x) => tx[x].acked \subseteq db'.durable
    BY <1>2, <1>3, <2>1, <2>3
  <2>7. o.r = "sql_error" => db'.durable = db.durable /\ Held(db') = {}
    BY <1>2, <1>3 DEF Held
  <2>8. Ends(x, status)
    BY <1>0, <1>1, <1>2, <1>3, <1>4, <2>4, <2>5, <2>6, <2>7 DEF Ends, DbMoves, Sound
  <2>9. asking'.by = None
    OBVIOUS
  <2> QED BY <1>4, <1>5, <1>8, <2>2, <2>8, <2>9, EndClose
<1> QED BY <1>7, <1>8 DEF StepOK

\* subtransaction::do_commit: what it did becomes the parent's.
LEMMA CommitSubStep ==
  ASSUME Base, tx[Sub].kind = "subtransaction", Committing(Sub), CommitSub(Sub)
  PROVE  StepOK
<1> USE Names DEF Committing
<1> PICK o \in Execute(db, "release", {}) :
        /\ db' = o.db
        /\ IF o.r = "ok" THEN Committed(Sub) ELSE CommitThrows(Sub, "aborted", FALSE)
        /\ UNCHANGED asking
  BY DEF CommitSub
<1>0. Sound(db) /\ db \in DbType
  BY DEF Base, TypeInv, Sound
<1>1. DbMoves
  BY <1>0, ExecuteSound DEF DbMoves, Ops
<1>2. /\ o.r = "broken" <=> ~o.db.up
      /\ o.db.up => db.up /\ o.db.copied = {}
      /\ ~db.up => /\ o.db.work = db.work /\ o.db.saved = db.saved /\ o.db.copy = db.copy
                   /\ o.db.copied = db.copied
      /\ db.up => o.db.copy = "none"
      /\ db.up /\ ~o.db.up => o.db.saved = None /\ o.db.copied = {} /\ o.db.work = {}
      /\ o.db.durable = db.durable /\ o.db.fate = db.fate
  BY <1>0, ExecuteAny DEF Ops, CopyOps
<1>3. o.db.up =>
         /\ o.db.work = db.work
         /\ \/ o.r = "ok" /\ Finds(db) = "block" /\ o.db.state = "block" /\ o.db.saved = None
            \/ /\ o.r = "sql_error" /\ (Finds(db) # "block" \/ db.saved = None)
               /\ o.db.state = Fails(db.state) /\ o.db.saved = db.saved
  BY <1>0, ExecuteRelease
<1> DEFINE status == IF o.r = "ok" THEN "committed" ELSE "aborted"
           p == tx[Sub].parent
<1>4. status \in {"committed", "aborted", "in_doubt"}
  OBVIOUS
<1>5. /\ Shut(Sub, status) /\ Told(Sub)
      /\ o.r = "ok" => Merged(Sub, p)
      /\ o.r # "ok" => Alone(Sub)
  <2>1. CASE o.r = "ok"
    BY <2>1, CommittedShuts
  <2>2. CASE o.r # "ok"
    BY <2>2, ThrowsShuts DEF Statuses
  <2> QED BY <2>1, <2>2
<1> HIDE DEF status
<1>6. asking' \in [by : {None}, attempts : Nat]
  BY AskingIdle
<1>7. Base'
  BY <1>1, <1>4, <1>5, <1>6, ShutStep
<1>8. ASSUME Careful, CarefulInv PROVE CarefulInv'
  <2>1. ~Spoiled(Sub) /\ Finds(db) = db.state
    BY <1>8, CommittingCareful
  <2>2. p \in Tops /\ Blocks(p)
    BY <1>8 DEF Base, KindInv, CarefulInv, SoloInv, Active
  <2>3. db.up => db.state # "idle" /\ db.saved # None
    BY <1>8, <2>2 DEF CarefulInv, ServerInv
  <2>4. db.up /\ ~Spoiled(p) => db.state = "block"
    <3>1. ~SubFailed(p)
      BY <2>1 DEF SubFailed
    <3> QED BY <1>0, <1>8, <2>2, <2>3, <3>1 DEF CarefulInv, KeepInv, DbType, States
  <2>5. db.up /\ ~Spoiled(p) => tx[p].acked \cup tx[Sub].acked \subseteq db.work
    <3>1. db.up /\ ~Spoiled(p) => tx[p].acked \subseteq db.work
      BY <1>8, <2>2, <2>4 DEF CarefulInv, KeepInv
    <3>2. db.up /\ ~Spoiled(p) => tx[Sub].acked \subseteq db.work
      BY <1>8, <2>1, <2>4 DEF CarefulInv, KeepInv
    <3> QED BY <3>1, <3>2
  <2>6. Held(db') \subseteq Held(db)
    <3>1. CASE db'.up BY <1>2, <1>3, <3>1 DEF Held
    <3>2. CASE ~db'.up BY <1>2, <3>2 DEF Held
    <3> QED BY <3>1, <3>2
  <2>7. db'.up /\ ~Spoiled(p) => o.r = "ok" /\ db'.state = "block" /\ db'.work = db.work
    BY <1>2, <1>3, <2>1, <2>3, <2>4
  <2>8. db'.up => db'.state # "idle"
    BY <1>2, <1>3, <2>3 DEF Fails
  <2>9. o.r = "ok" => tx'[p].acked = tx[p].acked \cup tx[Sub].acked
    BY <1>5 DEF Merged
  <2>10. db'.up /\ ~Spoiled(p) => tx'[p].acked \subseteq db'.work
    BY <1>2, <2>5, <2>7, <2>9
  <2>11. db'.copy = "none"
    BY <1>0, <1>2 DEF Sound
  <2>12. Resumes(p)
    BY <1>1, <1>2, <2>6, <2>7, <2>8, <2>10, <2>11 DEF Resumes, DbMoves
  <2>13. Alone(Sub) \/ Merged(Sub, p)
    BY <1>5
  <2> QED BY <1>4, <1>5, <1>8, <2>12, <2>13, SubClose
<1> QED BY <1>7, <1>8 DEF StepOK

\* The first command of a robusttransaction's commit.
LEMMA ConstraintsMove ==
  ASSUME Sound(db), NEW c \in Execute(db, "constraints", {})
  PROVE  /\ Sound(c.db) /\ (c.db.up => db.up)
         /\ c.r = "ok" => c.db.up /\ (c.db.open <=> db.open)
         /\ c.db.durable = db.durable /\ c.db.fate = db.fate
         /\ Held(c.db) \subseteq Held(db)
<1>0. db \in DbType
  BY DEF Sound
<1>1. Sound(c.db)
  BY ExecuteSound DEF Ops
<1>2. /\ c.db.durable = db.durable /\ c.db.fate = db.fate
      /\ c.r = "broken" <=> ~c.db.up
      /\ c.db.up => db.up /\ c.db.copied = {}
      /\ ~db.up => c.db.work = db.work /\ c.db.saved = db.saved /\ c.db.copied = db.copied
      /\ db.up /\ ~c.db.up => c.db.saved = None /\ c.db.copied = {} /\ c.db.work = {}
  BY <1>0, ExecuteAny DEF Ops
<1>3. c.db.up => c.db.work = db.work /\ c.db.saved = db.saved
  BY <1>0, ExecuteConstraints
<1>4. Held(c.db) \subseteq Held(db)
  <2>1. CASE c.db.up BY <1>2, <1>3, <2>1 DEF Held
  <2>2. CASE ~c.db.up BY <1>2, <2>2 DEF Held
  <2> QED BY <2>1, <2>2
<1>5. c.r = "ok" => c.db.up /\ (c.db.open <=> db.open)
  BY <1>0, ExecuteUp DEF Ops
<1> QED BY <1>1, <1>2, <1>4, <1>5

\* Its second command.
LEMMA CommitMoves ==
  ASSUME NEW d, Sound(d), d.up, d.open, NEW o \in Execute(d, "commit", {})
  PROVE  /\ Sound(o.db) /\ o.db.copy = "none" /\ o.db.state = "idle"
         /\ o.db.open <=> o.db.up
         /\ o.r = "ok" => o.db.up
         /\ d.durable \subseteq o.db.durable
         /\ o.db.durable \cup Held(o.db) \subseteq d.durable \cup Held(d)
         /\ ~o.db.up /\ o.db.fate \in {"aborted", "running"} => o.db.durable = d.durable
         /\ o.db.up /\ o.r \notin {"ok", "unknown"} => o.db.durable = d.durable
<1>0. d \in DbType /\ d.fate = "none"
  BY DEF Sound
<1>1. Sound(o.db)
  BY ExecuteSound DEF Ops
<1>2. /\ o.r = "broken" <=> ~o.db.up
      /\ ~o.db.up => ~o.db.open
      /\ o.db.copy = "none"
      /\ d.durable \subseteq o.db.durable
  BY <1>0, ExecuteAny DEF Ops, CopyOps
<1>3. o.db.up => o.db.open
  BY <1>0, ExecuteUp DEF Ops
<1>4. /\ o.db.state = "idle" /\ o.db.saved = None /\ o.db.copied = {}
      /\ \/ /\ o.db.up /\ o.db.work = {}
            /\ \/ /\ o.r \in {"ok", "unknown"} /\ Finds(d) = "block"
                  /\ o.db.durable = d.durable \cup d.work
               \/ /\ o.r \in {"sql_error", "unknown"} /\ Finds(d) = "block"
                  /\ o.db.durable = d.durable
               \/ o.r = "ok" /\ Finds(d) # "block" /\ o.db.durable = d.durable
         \/ /\ o.r = "broken" /\ Finds(d) = "block"
            /\ \/ o.db.fate = "aborted" /\ o.db.work = {} /\ o.db.durable = d.durable
               \/ o.db.fate = "committed" /\ o.db.work = {} /\ o.db.durable = d.durable \cup d.work
               \/ o.db.fate = "running" /\ o.db.work = d.work /\ o.db.durable = d.durable
         \/ /\ o.r = "broken" /\ Finds(d) # "block" /\ o.db.work = {}
            /\ o.db.fate = d.fate /\ o.db.durable = d.durable
  BY <1>0, ExecuteCommit
<1>5. o.db.durable \cup Held(o.db) \subseteq d.durable \cup Held(d)
  BY <1>4 DEF Held
<1> QED BY <1>0, <1>1, <1>2, <1>3, <1>4, <1>5

\* A robusttransaction that is closed with any status but in_doubt.
LEMMA RobustCloses ==
  ASSUME Base, NEW x \in Tops, tx[x].kind = "robusttransaction", Committing(x),
         NEW status \in {"committed", "aborted"}, Shut(x, status), Alone(x), Told(x), asking' = asking,
         Sound(db'), db'.copy = "none", db'.up => db.up /\ db'.state = "idle",
         db.durable \subseteq db'.durable, db'.durable \cup Held(db') \subseteq db.durable \cup Held(db),
         ~db.up => db'.durable = db.durable /\ db'.fate = db.fate,
         status = "aborted" /\ ~tx'[x].unsure =>
             db'.durable = db.durable /\ (Held(db') = {} \/ (~db.up /\ Held(db') \subseteq Held(db)))
  PROVE  StepOK
<1> USE Names DEF Committing
<1>1. asking' \in [by : {None}, attempts : Nat]
  BY AskingIdle
<1>2. Base'
  BY <1>1, ShutStep DEF DbMoves
<1>3. ASSUME Careful, CarefulInv PROVE CarefulInv'
  <2>1. ~Waits(x) /\ Blocks(x)
    BY <1>3, CommittingCareful DEF Blocks
  <2>2. ~tx[Sub].alive /\ ~tx[x].doubted
    BY <1>3, <2>1, NoSub DEF CarefulInv, SoloInv
  <2>4. ~db.up => Held(db) = {}
    BY <1>3, <2>1, <2>2 DEF Held, Base, TypeInv, Sound, CarefulInv, ServerInv
  <2>3. Ends(x, status)
    BY <2>2, <2>4 DEF Ends
  <2> QED BY <1>3, <2>1, <2>2, <2>3, EndClose
<1> QED BY <1>2, <1>3 DEF StepOK

\* basic_robusttransaction::do_commit up to its first question.
LEMMA CommitRobustStep ==
  ASSUME Base, NEW x \in Tops, tx[x].kind = "robusttransaction", Committing(x), CommitRobust(x)
  PROVE  StepOK
<1> USE Names DEF Committing
<1> PICK c \in Execute(db, "constraints", {}) :
        IF c.r # "ok"
        THEN /\ \E a \in Execute(c.db, "rollback", {}) : db' = a.db
             /\ CommitThrows(x, "aborted", FALSE) /\ UNCHANGED asking
        ELSE \E o \in Execute(c.db, "commit", {}) :
                \/ o.r = "ok" /\ db' = o.db /\ Committed(x) /\ UNCHANGED asking
                \/ /\ o.r # "ok" /\ ~o.db.open
                   /\ db' = o.db /\ asking' = [by |-> x, attempts |-> 0]
                   /\ tx' = [tx EXCEPT ![x].doubted = TRUE] /\ UNCHANGED trans
                \/ /\ o.r # "ok" /\ o.db.open
                   /\ \E a \in Execute(o.db, "rollback", {}) : db' = a.db
                   /\ CommitThrows(x, "aborted", o.r = "unknown") /\ UNCHANGED asking
  BY DEF CommitRobust
<1>0. Sound(db) /\ x \in Tx
  BY DEF Base, TypeInv
<1>1. /\ Sound(c.db) /\ (c.db.up => db.up)
      /\ c.r = "ok" => c.db.up /\ c.db.open
      /\ c.db.durable = db.durable /\ c.db.fate = db.fate
      /\ Held(c.db) \subseteq Held(db)
  BY <1>0, ConstraintsMove
<1>2. CASE c.r # "ok"
  <2> PICK a \in Execute(c.db, "rollback", {}) : db' = a.db
    BY <1>2
  <2>1. Shut(x, "aborted") /\ Alone(x) /\ Told(x) /\ asking' = asking
    BY <1>0, <1>2, ThrowsShuts DEF Statuses
  <2>2. /\ Sound(a.db) /\ a.db.copy = "none"
        /\ a.db.up => c.db.up /\ a.db.state = "idle"
        /\ a.db.durable = c.db.durable /\ a.db.fate = c.db.fate
        /\ Held(a.db) \subseteq Held(c.db)
        /\ c.db.up => Held(a.db) = {}
    BY <1>1, RollbackMoves
  <2>4. Held(db') = {} \/ (~db.up /\ Held(db') \subseteq Held(db))
    <3>1. db.up /\ ~c.db.up => Held(c.db) = {}
      BY <1>0, <1>1 DEF Sound, Held
    <3> QED BY <1>1, <2>2, <3>1
  <2>3. /\ db.durable \subseteq db'.durable /\ db'.durable \cup Held(db') \subseteq db.durable \cup Held(db)
        /\ ~db.up => db'.durable = db.durable /\ db'.fate = db.fate
        /\ db'.up => db.up /\ db'.state = "idle"
    BY <1>1, <2>2
  <2> QED BY <1>1, <2>1, <2>2, <2>3, <2>4, RobustCloses
<1>3. CASE c.r = "ok"
  <2>0. PICK o \in Execute(c.db, "commit", {}) :
                \/ o.r = "ok" /\ db' = o.db /\ Committed(x) /\ UNCHANGED asking
                \/ /\ o.r # "ok" /\ ~o.db.open
                   /\ db' = o.db /\ asking' = [by |-> x, attempts |-> 0]
                   /\ tx' = [tx EXCEPT ![x].doubted = TRUE] /\ UNCHANGED trans
                \/ /\ o.r # "ok" /\ o.db.open
                   /\ \E a \in Execute(o.db, "rollback", {}) : db' = a.db
                   /\ CommitThrows(x, "aborted", o.r = "unknown") /\ UNCHANGED asking
    BY <1>3
  <2>1. /\ Sound(o.db) /\ o.db.copy = "none" /\ o.db.state = "idle"
        /\ o.db.open <=> o.db.up
        /\ o.r = "ok" => o.db.up
        /\ c.db.durable \subseteq o.db.durable
        /\ o.db.durable \cup Held(o.db) \subseteq c.db.durable \cup Held(c.db)
        /\ ~o.db.up /\ o.db.fate \in {"aborted", "running"} => o.db.durable = c.db.durable
        /\ o.db.up /\ o.r \notin {"ok", "unknown"} => o.db.durable = c.db.durable
    BY <1>1, <1>3, CommitMoves
  <2>2. /\ db.up /\ db.durable \subseteq o.db.durable
        /\ o.db.durable \cup Held(o.db) \subseteq db.durable \cup Held(db)
    BY <1>1, <1>3, <2>1
  <2>3. CASE o.r = "ok" /\ db' = o.db /\ Committed(x) /\ UNCHANGED asking
    <3>1. Shut(x, "committed") /\ Alone(x) /\ Told(x)
      BY <1>0, <2>3, CommittedShuts
    <3> QED BY <2>1, <2>2, <2>3, <3>1, RobustCloses
  <2>4. CASE /\ o.r # "ok" /\ ~o.db.open
             /\ db' = o.db /\ asking' = [by |-> x, attempts |-> 0]
             /\ tx' = [tx EXCEPT ![x].doubted = TRUE] /\ UNCHANGED trans
    <3>1. Sound(db') /\ ~db'.up
      BY <2>1, <2>4
    <3>2. Base'
      BY <2>4, <3>1, DoubtStep
    <3>3. ASSUME Careful, CarefulInv PROVE CarefulInv'
      <4>1. ~Waits(x) /\ Blocks(x)
        BY <1>0, <3>3, CommittingCareful DEF Blocks
      <4>2. ~tx[Sub].alive
        BY <3>3, <4>1, NoSub
      <4>3. db'.fate \in {"aborted", "running"} => db'.durable = db.durable
        BY <1>1, <2>1, <2>4, <3>1
      <4> QED BY <2>2, <2>4, <3>1, <3>3, <4>1, <4>2, <4>3, DoubtCareful
    <3> QED BY <3>2, <3>3 DEF StepOK
  <2>5. CASE /\ o.r # "ok" /\ o.db.open
             /\ \E a \in Execute(o.db, "rollback", {}) : db' = a.db
             /\ CommitThrows(x, "aborted", o.r = "unknown") /\ UNCHANGED asking
    <3> PICK a \in Execute(o.db, "rollback", {}) : db' = a.db
      BY <2>5
    <3>0. (o.r = "unknown") \in BOOLEAN
      OBVIOUS
    <3>1. /\ Shut(x, "aborted") /\ Alone(x) /\ Told(x) /\ asking' = asking
          /\ tx'[x].unsure <=> o.r = "unknown"
      BY <1>0, <2>5, <3>0, ThrowsShuts DEF Statuses
    <3>2. /\ Sound(a.db) /\ a.db.copy = "none"
          /\ a.db.up => o.db.up /\ a.db.state = "idle"
          /\ a.db.durable = o.db.durable
          /\ Held(a.db) \subseteq Held(o.db)
          /\ Held(a.db) = {}
      BY <2>1, <2>5, RollbackMoves
    <3>4. ~tx'[x].unsure => db'.durable = db.durable
      BY <1>1, <2>1, <2>5, <3>1, <3>2
    <3>3. /\ db.durable \subseteq db'.durable
          /\ db'.durable \cup Held(db') \subseteq db.durable \cup Held(db)
      BY <2>2, <3>2
    <3> QED BY <2>2, <3>1, <3>2, <3>3, <3>4, RobustCloses
  <2> QED BY <2>0, <2>3, <2>4, <2>5
<1> QED BY <1>2, <1>3

\* transaction_base::commit.
LEMMA CommitStep ==
  ASSUME Base, NEW x \in Tx, Commit(x)
  PROVE  StepOK
<1> USE Names
<1>1. CASE ReportsPending(x)
  BY <1>1, ReportsPendingStep DEF Commit
<1>2. CASE Throws(x) /\ UNCHANGED <<db, trans, stream, asking>>
  BY <1>2, ThrowsStep DEF Commit
<1>3. CASE ~tx[x].pending /\ tx[x].status = "active" /\ MayCommit(x) /\ DoCommit(x) /\ UNCHANGED stream
  <2>1. Committing(x)
    BY <1>3 DEF Commit, Call, Committing, MayCommit, Active
  <2>2. /\ x \in Tops => tx[x].kind \in AllKinds
        /\ x = Sub => tx[x].kind = "subtransaction"
    BY <1>3 DEF Base, KindInv
  <2>3. CASE tx[x].kind = "transaction"
    <3>1. CommitBasic(x) /\ x \in Tops
      BY <1>3, <2>2, <2>3 DEF DoCommit, Tx
    <3> QED BY <2>1, <2>3, <3>1, CommitBasicStep
  <2>4. CASE tx[x].kind = "subtransaction"
    <3>1. CommitSub(x) /\ x = Sub
      BY <1>3, <2>2, <2>4 DEF DoCommit, Tx, AllKinds
    <3> QED BY <2>1, <2>4, <3>1, CommitSubStep
  <2>5. CASE tx[x].kind = "robusttransaction"
    <3>1. CommitRobust(x) /\ x \in Tops
      BY <1>3, <2>2, <2>5 DEF DoCommit, Tx
    <3> QED BY <2>1, <2>5, <3>1, CommitRobustStep
  <2>6. CASE tx[x].kind = "nontransaction"
    <3>1. Committed(x) /\ UNCHANGED <<db, asking>> /\ x \in Tops
      BY <1>3, <2>2, <2>6 DEF DoCommit, Tx
    <3>2. Shut(x, "committed") /\ Alone(x) /\ Told(x)
      BY <1>3, <2>1, <3>1, CommittedShuts DEF Committing
    <3>3. DbMoves /\ asking' \in [by : {None}, attempts : Nat]
      BY <2>1, <3>1, AskingIdle DEF Committing, Base, TypeInv, DbMoves
    <3>4. Base'
      BY <2>1, <3>2, <3>3, ShutStep DEF Committing
    <3>5. ASSUME Careful, CarefulInv PROVE CarefulInv'
      <4>1. ~Spoiled(x) /\ Active(x) /\ ~Blocks(x)
        BY <2>1, <2>6, <3>5, CommittingCareful DEF Committing, Blocks
      <4> QED BY <3>1, <3>2, <3>5, <4>1, QuietClose
    <3> QED BY <3>4, <3>5 DEF StepOK
  <2> QED BY <2>2, <2>3, <2>4, <2>5, <2>6 DEF Tx, AllKinds
<1> QED BY <1>1, <1>2, <1>3 DEF Commit

\* do_commit asks what became of the transaction.
LEMMA AskCloses ==
  ASSUME Base, NEW x \in Tops, asking.by = x, NEW status \in {"committed", "aborted", "in_doubt"},
         Shut(x, status), Alone(x), Told(x), db' = db, asking' = [by |-> None, attempts |-> 0],
         status = "aborted" /\ ~tx'[x].unsure => db.fate = "aborted"
  PROVE  StepOK
<1> USE Names
<1>0. Active(x) /\ tx[x].doubted /\ ~tx[x].focus /\ tx[x].kind = "robusttransaction" /\ ~db.up
  BY DEF Base, AskInv, KindInv
<1>1. Sound(db) /\ DbMoves /\ asking' \in [by : {None}, attempts : Nat] /\ asking'.by = None
  BY DEF Base, TypeInv, DbMoves
<1>2. Base'
  BY <1>0, <1>1, ShutStep
<1>3. ASSUME CarefulInv PROVE CarefulInv'
  <2>1. ~tx[Sub].alive /\ Blocks(x)
    BY <1>0, <1>3 DEF CarefulInv, SoloInv, Blocks
  <2>2. db'.copy = "none" /\ tx[x].kind # "transaction"
    BY <1>0, <1>1 DEF Sound
  <2>4. db.fate = "aborted" => Held(db) = {}
    BY <1>0, <1>1 DEF Sound, Held
  <2>3. Ends(x, status)
    BY <1>0, <1>1, <2>2, <2>4 DEF Ends, DbMoves
  <2> QED BY <1>1, <1>3, <2>1, <2>3, EndClose
<1> QED BY <1>2, <1>3 DEF StepOK

\* The loop of do_commit that asks for the status.
LEMMA AskStep ==
  ASSUME Base, Ask
  PROVE  StepOK
<1> USE Names
<1> DEFINE x == asking.by
           again == asking.attempts + 1 < MaxAttempts
           done == [by |-> None, attempts |-> 0]
<1>0. x \in Tops /\ x \in Tx /\ tx[x].alive /\ Active(x) /\ db' = db /\ stream' = stream
  BY DEF Base, TypeInv, AskInv, LifeInv, Ask
<1>1. PICK answer \in Answers :
             CASE Verdict(answer) = "committed" -> Committed(x) /\ asking' = done
               [] Verdict(answer) \in {"aborted", "throws"} ->
                     CommitThrows(x, "aborted", Verdict(answer) = "throws") /\ asking' = done
               [] Verdict(answer) = "ask again" /\ again ->
                     asking' = [asking EXCEPT !.attempts = @ + 1] /\ UNCHANGED <<trans, tx>>
               [] OTHER -> CommitThrows(x, "in_doubt", FALSE) /\ asking' = done
  BY DEF Ask
<1> HIDE DEF again, done
<1>2. CASE Verdict(answer) = "committed"
  <2>1. Committed(x) /\ asking' = done
    BY <1>1, <1>2
  <2>2. Shut(x, "committed") /\ Alone(x) /\ Told(x)
    BY <1>0, <2>1, CommittedShuts
  <2> QED BY <1>0, <2>1, <2>2, AskCloses DEF done
<1>3. CASE Verdict(answer) \in {"aborted", "throws"}
  <2>1. CommitThrows(x, "aborted", Verdict(answer) = "throws") /\ asking' = done
    BY <1>1, <1>3
  <2>0. (Verdict(answer) = "throws") \in BOOLEAN
    OBVIOUS
  <2>2. /\ Shut(x, "aborted") /\ Alone(x) /\ Told(x)
        /\ tx'[x].unsure <=> Verdict(answer) = "throws"
    BY <1>0, <2>0, <2>1, ThrowsShuts DEF Statuses
  <2>3. Verdict(answer) # "throws" => db.fate = "aborted"
    BY <1>1, <1>3 DEF Verdict, Answers
  <2> QED BY <1>0, <2>1, <2>2, <2>3, AskCloses DEF done
<1>4. CASE Verdict(answer) = "ask again" /\ again
  <2>1. asking' = [asking EXCEPT !.attempts = @ + 1] /\ UNCHANGED <<trans, tx>>
    BY <1>1, <1>4
  <2>2. asking' \in [by : Tops \cup {None}, attempts : Nat] /\ asking'.by = asking.by
    BY <2>1 DEF Base, TypeInv
  <2>3. Base'
    BY <1>0, <2>1, <2>2 DEF Base, TypeInv, KindInv, LifeInv, StreamInv, AskInv, Active
  <2>4. CarefulInv => CarefulInv'
    BY <1>0, <2>1, <2>2, StillCareful
  <2> QED BY <2>3, <2>4 DEF StepOK
<1>5. CASE Verdict(answer) \notin {"committed", "aborted", "throws"} /\ ~(Verdict(answer) = "ask again" /\ again)
  <2>1. CommitThrows(x, "in_doubt", FALSE) /\ asking' = done
    BY <1>1, <1>5
  <2>2. Shut(x, "in_doubt") /\ Alone(x) /\ Told(x)
    BY <1>0, <2>1, ThrowsShuts DEF Statuses
  <2> QED BY <1>0, <2>1, <2>2, AskCloses DEF done
<1> QED BY <1>2, <1>3, <1>4, <1>5

(***************************************************************************)
(* The theorems.                                                           *)
(***************************************************************************)
\* One case for each action.
LEMMA NextStep ==
  ASSUME Base, Next
  PROVE  StepOK
<1>1. ASSUME NEW x \in Tops, NEW kind \in Kinds, Open(x, kind) PROVE StepOK
  BY <1>1, ConstantsAssumption, OpenStep
<1>2. ASSUME NEW x \in Tops, OpenSub(x) PROVE StepOK
  BY <1>2, OpenSubStep
<1>3. ASSUME NEW x \in Tx, NEW w \in Work, Exec(x, w) \/ ExecParams(x, w) PROVE StepOK
  BY <1>3, ExecStep
<1>4. ASSUME NEW x \in Tx, Commit(x) \/ Abort(x) \/ Destroy(x) PROVE StepOK
  BY <1>4, CommitStep, AbortStep, DestroyStep
<1>5. ASSUME NEW x \in Tx, NEW kind \in {"to", "from"}, OpenStream(x, kind) PROVE StepOK
  BY <1>5, OpenStreamStep
<1>6. ASSUME NEW w \in Work, WriteRow(w) PROVE StepOK
  BY <1>6, WriteRowStep
<1>7. CASE CompleteTo \/ DestroyTo \/ ReadRow \/ CompleteFrom \/ DestroyFrom
  BY <1>7, CompleteToStep, DestroyToStep, ReadRowStep, CompleteFromStep, DestroyFromStep
<1>8. CASE Ask \/ Lose \/ Settle
  BY <1>8, AskStep, LoseStep, SettleStep
<1> QED BY <1>1, <1>2, <1>3, <1>4, <1>5, <1>6, <1>7, <1>8 DEF Next

\* A step that changes nothing.
LEMMA StutterStep ==
  ASSUME Base, UNCHANGED vars
  PROVE  StepOK
<1>1. Base'
  BY DEF vars, Base, TypeInv, KindInv, LifeInv, StreamInv, AskInv, Active
<1>2. CarefulInv => CarefulInv'
  BY StillCareful DEF vars
<1> QED BY <1>1, <1>2 DEF StepOK

\* Nothing was made yet.
LEMMA InitBase ==
  ASSUME Init
  PROVE  Base
<1> USE Names DEF Init
<1>1. FreshDb \in DbType /\ FreshDb.up /\ FreshDb.fate = "none" /\ NoTx \in TxType /\ NoStream \in StreamType
  BY DEF FreshDb, NoTx, NoStream, DbType, States, Fates, TxType, AllKinds, Statuses, StreamType
<1>2. TypeInv
  BY <1>1 DEF TypeInv, Sound
<1>3. KindInv /\ LifeInv /\ StreamInv /\ AskInv
  BY DEF KindInv, LifeInv, StreamInv, AskInv, Active, NoTx, NoStream, AllKinds
<1> QED BY <1>2, <1>3 DEF Base

\* See InitBase.
LEMMA InitCareful ==
  ASSUME Init
  PROVE  CarefulInv
<1> USE Names DEF Init
<1>1. \A x \in Tx : tx[x] = NoTx
  OBVIOUS
<1>2. \A x \in Tx : ~Active(x) /\ ~Blocks(x) /\ ~tx[x].alive /\ ~tx[x].doubted /\ ~tx[x].left /\ tx[x].status = "none"
  BY <1>1 DEF Active, Blocks, NoTx
<1>3. SoloInv /\ ServerInv /\ CopyInv /\ LeftInv
  BY <1>2 DEF SoloInv, ServerInv, CopyInv, LeftInv, FreshDb, Tx
<1>4. KeepInv
  BY <1>2 DEF KeepInv, CommitKeepsAll, Tx
<1>5. DropInv
  BY <1>2 DEF DropInv, Held, FreshDb, Tx
<1> QED BY <1>3, <1>4, <1>5 DEF CarefulInv

\* The types and the bookkeeping of objects, foci and the connection hold for every client.
THEOREM BaseHolds == Spec => []Base
<1>1. Init => Base
  BY InitBase
<1>2. Base /\ [Next]_vars => Base'
  BY NextStep, StutterStep DEF StepOK
<1> QED BY <1>1, <1>2, PTL DEF Spec

\* m_trans and the focus of a transaction never point to an object that is gone, whatever
\* the client does with the objects (register_transaction, register_focus and the destructors
\* that take them back).
THEOREM NoDanglingPointers == Spec => []PointersLive
<1>1. Base => PointersLive
  BY DEF Base, LifeInv, StreamInv, PointersLive, StreamOn
<1> QED BY <1>1, BaseHolds, PTL

\* The inductive invariant of a client that heeds the documentation.
LEMMA CarefulHolds ==
  ASSUME Careful
  PROVE  Spec => [](Base /\ CarefulInv)
<1>1. Init => Base /\ CarefulInv
  BY InitBase, InitCareful
<1>2. Base /\ CarefulInv /\ [Next]_vars => (Base /\ CarefulInv)'
  BY NextStep, StutterStep DEF StepOK
<1> QED BY <1>1, <1>2, PTL DEF Spec

\* For a client that heeds the documentation, when commit() has returned, all that calls on
\* the transaction, its subtransaction and its streams reported done is in the database
\* (transaction_base::commit), unless its subtransaction was aborted with a pending error, of
\* which direct_exec does not tell the server.
THEOREM CommitsAreKept ==
  ASSUME Careful
  PROVE  Spec => []CommitKeepsAll
<1>1. Base /\ CarefulInv => CommitKeepsAll
  BY DEF CarefulInv, KeepInv
<1> QED BY <1>1, CarefulHolds, PTL

\* For a client that heeds the documentation, nothing of a transaction of any class that was
\* aborted is in the database or ever will be, also if its rollback was never sent, and if it is
\* a robusttransaction that was told in its doubt that it was aborted (transaction_base::abort,
\* close and do_commit).  The one exception is a commit() of a robusttransaction that threw
\* without having learned the outcome, and without saying so by an in_doubt_error.
THEOREM AbortsAreUndone ==
  ASSUME Careful
  PROVE  Spec => []AbortLeavesNothing
<1>1. Base /\ CarefulInv => AbortLeavesNothing
  BY DEF CarefulInv, DropInv, AbortLeavesNothing
<1> QED BY <1>1, CarefulHolds, PTL

\* For a client that heeds the documentation, and may call abort() at any time, when all
\* transaction objects are gone none is registered with the connection, and the server is
\* idle, unless abort() did not send a rollback for a pending error or a robusttransaction
\* was not made: then its block has failed and stays (transaction_base::close).
THEOREM ConnectionFreed ==
  ASSUME Careful
  PROVE  Spec => []ConnectionReusable
<1>1. Base /\ CarefulInv => ConnectionReusable
  <2>1. ASSUME Base, CarefulInv PROVE PointersLive
    BY <2>1 DEF Base, LifeInv, StreamInv, PointersLive, StreamOn
  <2>2. ASSUME Base, CarefulInv, \A x \in Tx : ~tx[x].alive
        PROVE  /\ trans = None
               /\ db.up => db.state = IF \E x \in Tops : tx[x].left THEN "failed" ELSE "idle"
    <3>1. trans = None
      BY <2>2, Names DEF Base, TypeInv, LifeInv, Tx
    <3>2. \A x \in Tops : ~Blocks(x)
      BY <2>2 DEF Base, LifeInv, Blocks, Tx
    <3>3. ASSUME db.up, NEW x \in Tops, tx[x].left PROVE db.state = "failed"
      BY <2>2, <3>3 DEF CarefulInv, LeftInv
    <3>4. ASSUME db.up, \A x \in Tops : ~tx[x].left PROVE db.state = "idle"
      BY <2>2, <3>2, <3>4 DEF CarefulInv, ServerInv
    <3> QED BY <3>1, <3>3, <3>4
  <2> QED BY <2>1, <2>2 DEF ConnectionReusable, DestroyedMeansIdle
<1> QED BY <1>1, CarefulHolds, PTL

=============================================================================
