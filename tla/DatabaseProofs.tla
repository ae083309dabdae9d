---------------------------- MODULE DatabaseProofs ----------------------------
(***************************************************************************)
(* Proofs about Database: what holds for any number of threads that share  *)
(* the connection (cleaning up, referential integrity), and that a single  *)
(* thread gets atomic operations and is told the truth about failures.     *)
(***************************************************************************)
EXTENDS Database, TLAPS

(***************************************************************************)
(* Any number of threads.                                                  *)
(***************************************************************************)
LEMMA InitTypeOK == Init => TypeOK
<1> SUFFICES ASSUME Init PROVE TypeOK
  OBVIOUS
<1>1. linkUp \in BOOLEAN /\ garbled \in BOOLEAN
  BY DEF Init
<1>2. serial \in [TableNames -> Nat]
  BY DEF Init
<1> QED
  BY <1>1, <1>2, MaxCallsAssumption DEF Init, TypeOK, Steps

\* Every step of a method and the loss of the connection keep the types.
LEMMA NextTypeOK == ASSUME TypeOK, [Next]_vars PROVE TypeOK'
<1> USE MaxCallsAssumption, StatementsAssumption DEF TypeOK, Steps, server, outcome
<1>1. ASSUME NEW w \in Workers, NEW s \in Statements, Call(w, s) PROVE TypeOK'
  <2>1. calls' \in 0 .. MaxCalls
    BY <1>1 DEF Call
  <2>2. acked' \subseteq Nat
    BY <1>1 DEF Call
  <2> QED
    BY <1>1, <2>1, <2>2 DEF Call, Goto, Decide
<1>2. ASSUME NEW w \in Workers, CheckUnique(w) PROVE TypeOK'
  BY <1>2 DEF CheckUnique, Goto, Throw, Decide
<1>3. ASSUME NEW w \in Workers, Register(w) PROVE TypeOK'
  BY <1>3 DEF Register, Goto
<1>4. ASSUME NEW w \in Workers, Begin(w) PROVE TypeOK'
  BY <1>4 DEF Begin, ServerBegins, Goto, Throw, Decide
<1>5. ASSUME NEW w \in Workers, ExecuteOk(w) PROVE TypeOK'
  <2>1. serial' \in [TableNames -> Nat] /\ key' \in [Workers -> Nat]
    <3>1. call[w] \in Statements
      BY <1>5 DEF ExecuteOk, ServerExecutes, NewKey, AfterExec
    <3> QED
      BY <1>5, <3>1 DEF ExecuteOk, ServerExecutes, NewKey, AfterExec, NextSerial
  <2> QED
    BY <1>5, <2>1 DEF ExecuteOk, ServerExecutes, NewKey, AfterExec, Goto, Decide
<1>6. ASSUME NEW w \in Workers, ExecuteError(w) PROVE TypeOK'
  BY <1>6 DEF ExecuteError, Goto, Throw, Decide, NextSerial
<1>7. ASSUME NEW w \in Workers, CommitOk(w) PROVE TypeOK'
  BY <1>7 DEF CommitOk, Goto, Decide, ServerCommits
<1>8. ASSUME NEW w \in Workers, CommitError(w) PROVE TypeOK'
  BY <1>8 DEF CommitError, Goto, Throw, Decide
<1>9. ASSUME NEW w \in Workers, CommitAnswerLost(w) PROVE TypeOK'
  BY <1>9 DEF CommitAnswerLost, Goto, Throw, Decide, ServerCommits
<1>10. ASSUME NEW w \in Workers, Unregister(w) PROVE TypeOK'
  BY <1>10 DEF Unregister, Goto
<1>11. ASSUME NEW w \in Workers, Rollback(w) PROVE TypeOK'
  BY <1>11 DEF Rollback, ServerRollsBack, Goto
<1>12. ASSUME NEW w \in Workers, Return(w) PROVE TypeOK'
  <2>1. acked' \subseteq Nat
    <3>1. key[w] \in Nat
      OBVIOUS
    <3>2. acked' = acked \/ acked' = acked \cup {key[w]}
      BY <1>12 DEF Return
    <3> QED
      BY <3>1, <3>2
  <2> QED
    BY <1>12, <2>1 DEF Return, Goto
<1>13. CASE LoseLink
  BY <1>13 DEF LoseLink, ServerRollsBack
<1>14. CASE UNCHANGED vars
  BY <1>14 DEF vars
<1>15. ASSUME NEW w \in Workers, Garble(w) PROVE TypeOK'
  BY <1>15 DEF Garble, InCommand, Goto, Throw, Decide, NextSerial, AfterExec,
     ServerBegins, ServerExecutes, ServerCommits, ServerRollsBack
<1> QED
  BY <1>1, <1>2, <1>3, <1>4, <1>5, <1>6, <1>7,
     <1>8, <1>9, <1>10, <1>11, <1>12, <1>13, <1>14, <1>15
  DEF Next, Step

\* Every step keeps the transaction slot, the server's session and the
\* link in step (Database::*, pqxx::work).
LEMMA NextCleanInv == ASSUME CleanInv, [Next]_vars PROVE CleanInv'
<1>a. TypeOK /\ TypeOK'
  BY NextTypeOK DEF CleanInv
<1> DEFINE Clean ==
      /\ \A w \in Workers :
            m_trans = w => pc[w] \in {"begin", "exec", "commit", "unregister"}
      /\ session # "none" =>
            /\ linkUp
            /\ \/ garbled
               \/ \E w \in Workers :
                     /\ txn[w] = "active"
                     /\ pc[w] \in {"exec", "commit", "unregister", "rollback"}
<1>b. Clean
  BY DEF CleanInv
<1> SUFFICES Clean'
  BY <1>a DEF CleanInv
<1> USE <1>a, <1>b, WorkersAssumption DEF TypeOK, Steps, server, outcome
<1>1. ASSUME NEW w \in Workers, NEW s \in Statements, Call(w, s) PROVE Clean'
  BY <1>1 DEF Call, Goto, Decide
<1>2. ASSUME NEW w \in Workers, CheckUnique(w) PROVE Clean'
  BY <1>2 DEF CheckUnique, Goto, Throw, Decide
<1>3. ASSUME NEW w \in Workers, Register(w) PROVE Clean'
  BY <1>3 DEF Register, Goto
<1>4. ASSUME NEW w \in Workers, Begin(w) PROVE Clean'
  BY <1>4 DEF Begin, ServerBegins, Goto, Throw, Decide
<1>5. ASSUME NEW w \in Workers, ExecuteOk(w) PROVE Clean'
  BY <1>5 DEF ExecuteOk, ServerExecutes, NewKey, AfterExec, Goto, Decide, NextSerial
<1>6. ASSUME NEW w \in Workers, ExecuteError(w) PROVE Clean'
  BY <1>6 DEF ExecuteError, Goto, Throw, Decide, NextSerial
<1>7. ASSUME NEW w \in Workers, CommitOk(w) PROVE Clean'
  BY <1>7 DEF CommitOk, Goto, Decide, ServerCommits
<1>8. ASSUME NEW w \in Workers, CommitError(w) PROVE Clean'
  BY <1>8 DEF CommitError, Goto, Throw, Decide
<1>9. ASSUME NEW w \in Workers, CommitAnswerLost(w) PROVE Clean'
  BY <1>9 DEF CommitAnswerLost, Goto, Throw, Decide, ServerCommits
<1>10. ASSUME NEW w \in Workers, Unregister(w) PROVE Clean'
  BY <1>10 DEF Unregister, Goto
<1>11. ASSUME NEW w \in Workers, Rollback(w) PROVE Clean'
  BY <1>11 DEF Rollback, ServerRollsBack, Goto
<1>12. ASSUME NEW w \in Workers, Return(w) PROVE Clean'
  BY <1>12 DEF Return, Goto
<1>13. CASE LoseLink
  BY <1>13 DEF LoseLink, ServerRollsBack
<1>14. CASE UNCHANGED vars
  BY <1>14 DEF vars
<1>15. ASSUME NEW w \in Workers, Garble(w) PROVE Clean'
  BY <1>15 DEF Garble, InCommand, Goto, AfterExec, ServerBegins, ServerExecutes,
     ServerCommits, ServerRollsBack
<1> QED
  BY <1>1, <1>2, <1>3, <1>4, <1>5, <1>6, <1>7,
     <1>8, <1>9, <1>10, <1>11, <1>12, <1>13, <1>14, <1>15
  DEF Next, Step

\* Whatever the interleaving of the methods of Database on the shared
\* connection, and whichever of their steps fails, the registration and the
\* transaction on the server are cleaned up when all have returned.
THEOREM CleanWhenQuiet == Spec => []QuietMeansClean
<1>1. Init => CleanInv
  BY InitTypeOK, WorkersAssumption DEF Init, CleanInv
<1>2. CleanInv /\ [Next]_vars => CleanInv'
  BY NextCleanInv
<1>3. CleanInv => QuietMeansClean
  BY DEF CleanInv, QuietMeansClean, TypeOK
<1> QED
  BY <1>1, <1>2, <1>3, PTL DEF Spec

(***************************************************************************)
(* What the proofs need to know of the statements.                         *)
(***************************************************************************)
Shaped(d) == d = [t \in TableNames |-> d[t]]

\* A read changes nothing and is never refused; a write returns no rows;
\* only an insert depends on the key it is given.
LEMMA StatementFacts ==
    ASSUME NEW s \in Statements, NEW d, Shaped(d), NEW id
    PROVE  /\ IsRead(s) => Effect(d, s, id) = d
           /\ IsRead(s) => s.kind \notin {"insert", "delete"}
           /\ IsRead(s) => Accepts(d, s)
           /\ ~IsRead(s) => Fetched(d, s) = NoRows
           /\ s.kind # "insert" => \A i : Effect(d, s, i) = Effect(d, s, id)
  BY StatementsAssumption DEF IsRead, Effect, Accepts, Fetched

\* The keys after a statement.
LEMMA EffectKeys ==
    ASSUME NEW s \in Statements, NEW d, Shaped(d), NEW id
    PROVE  /\ Shaped(Effect(d, s, id))
           /\ \A t \in TableNames :
                /\ DOMAIN Effect(d, s, id)[t] \subseteq
                        DOMAIN d[t] \cup (IF s.kind = "insert" /\ t = s.table THEN {id} ELSE {})
                /\ DOMAIN d[t] \subseteq DOMAIN Effect(d, s, id)[t]
                      \cup (IF s.kind = "delete" /\ t = s.table THEN {s.id} ELSE {})
           /\ s.kind = "insert" => id \in DOMAIN Effect(d, s, id)[s.table]
<1> USE StatementsAssumption DEF Shaped
<1>1. CASE s.kind = "insert"
  BY <1>1 DEF Effect, Put
<1>2. CASE s.kind = "update" /\ s.id \in DOMAIN d[s.table]
  BY <1>2 DEF Effect, Put
<1>3. CASE s.kind = "delete"
  BY <1>3 DEF Effect, Drop
<1>4. CASE /\ s.kind \notin {"insert", "delete"}
           /\ ~(s.kind = "update" /\ s.id \in DOMAIN d[s.table])
  <2>1. Effect(d, s, id) = d
    BY <1>4 DEF Effect
  <2> QED
    BY <1>4, <2>1
<1> QED
  BY <1>1, <1>2, <1>3, <1>4

(***************************************************************************)
(* One thread.                                                             *)
(***************************************************************************)
OneThread == \A v, w \in Workers : v = w

\* The one-thread invariant holds before the first call.
LEMMA InitSolo == Init => SoloInv
<1> SUFFICES ASSUME Init PROVE SoloInv
  OBVIOUS
<1>1. TypeOK
  BY InitTypeOK
<1>2. Keyed(committed)
  BY DEF Init, Keyed, EmptyDb, SeedDb, NoRows, TableNames
<1>3. \A t \in TableNames : serial[t] <= 1
  BY DEF Init
<1> QED
  BY <1>1, <1>2, <1>3
  DEF Init, SoloInv, SoloTxn, SoloOutcome, AckedRecordsDurable, TypeOK

\* With one thread, every step of a call keeps its transaction, its result
\* and the stored rows in agreement.
LEMMA NextSolo == ASSUME OneThread, SoloInv, [Next]_vars PROVE SoloInv'
<1>a. TypeOK /\ TypeOK'
  BY NextTypeOK DEF SoloInv
<1>b. ASSUME NEW w \in Workers, pc[w] # "idle"
      PROVE  /\ call[w] \in Statements
             /\ call[w].table \in TableNames
  BY <1>a, <1>b, StatementsAssumption DEF TypeOK
<1>c. Shaped(committed)
  BY DEF SoloInv, Keyed, Shaped
<1> USE <1>a, <1>b, MaxCallsAssumption
    DEF OneThread, TypeOK, Steps, server, outcome, TableNames
<1>1. ASSUME NEW w \in Workers, NEW s \in Statements, Call(w, s) PROVE SoloInv'
  <2>1. Keyed(committed)'
    BY <1>1 DEF Call, SoloInv, Keyed
  <2>2. \A t \in TableNames : serial'[t] <= calls' /\ serial'[t] <= calls' + 1
    BY <1>1 DEF Call, SoloInv
  <2>3. /\ AckedRecordsDurable'
        /\ s.kind = "delete" /\ s.table = "history" => s.id \notin acked'
    BY <1>1 DEF Call, SoloInv, AckedRecordsDurable
  <2>4. (status = "bad" => ~linkUp)' /\ (~linkUp => session = "none")'
    BY <1>1 DEF Call, SoloInv
  <2>5. \A v \in Workers : SoloTxn(v)' /\ SoloOutcome(v)'
    BY <1>1, <2>2, <2>3 DEF Call, Goto, Decide, SoloInv, SoloTxn, SoloOutcome
  <2> QED
    BY <2>1, <2>2, <2>3, <2>4, <2>5 DEF SoloInv
<1>2. ASSUME NEW w \in Workers, CheckUnique(w) PROVE SoloInv'
  BY <1>2 DEF CheckUnique, Goto, Throw, Decide,
         SoloInv, Keyed, SoloTxn, SoloOutcome, AckedRecordsDurable
<1>3. ASSUME NEW w \in Workers, Register(w) PROVE SoloInv'
  BY <1>3 DEF Register, Goto,
         SoloInv, Keyed, SoloTxn, SoloOutcome, AckedRecordsDurable
<1>4. ASSUME NEW w \in Workers, Begin(w) PROVE SoloInv'
  BY <1>4 DEF Begin, ServerBegins, Goto, Throw, Decide,
         SoloInv, Keyed, SoloTxn, SoloOutcome, AckedRecordsDurable
<1>5. ASSUME NEW w \in Workers, ExecuteOk(w) PROVE SoloInv'
  <2> DEFINE s == call[w]
             id == key'[w]
  <2>1. /\ s \in Statements /\ s.table \in TableNames
        /\ session = "open" /\ working = committed /\ linkUp
        /\ Accepts(committed, s)
        /\ committed' = committed /\ working' = Effect(committed, s, id)
        /\ rows'[w] = Fetched(committed, s)
        /\ id = IF s.kind = "insert" THEN serial[s.table] + 1 ELSE 0
    <3>1. s \in Statements /\ s.table \in TableNames
      BY <1>5 DEF ExecuteOk, ServerExecutes, NewKey, AfterExec
    <3>2. session = "open" /\ working = committed /\ linkUp
      BY <1>5 DEF ExecuteOk, ServerExecutes, NewKey, AfterExec, SoloInv, SoloTxn
    <3>3. View = committed
      BY <3>2 DEF View
    <3>4. id = IF s.kind = "insert" THEN serial[s.table] + 1 ELSE 0
      BY <1>5 DEF ExecuteOk, ServerExecutes, NewKey, AfterExec
    <3>5. rows'[w] = Fetched(committed, s)
      BY <1>5, <3>3 DEF ExecuteOk, ServerExecutes, NewKey, AfterExec, SoloInv
    <3> QED
      BY <1>5, <3>1, <3>2, <3>3, <3>4, <3>5
      DEF ExecuteOk, ServerExecutes, NewKey, AfterExec
  <2>2. /\ serial' \in [TableNames -> Nat]
        /\ \A t \in TableNames : serial[t] <= serial'[t] /\ serial'[t] <= calls + 1
        /\ s.kind = "insert" => serial'[s.table] = serial[s.table] + 1
    <3>1. \A t \in TableNames : serial[t] \in Nat /\ serial[t] <= calls
      BY <1>5 DEF ExecuteOk, ServerExecutes, NewKey, AfterExec, SoloInv, SoloOutcome
    <3>2. s.kind = "insert" => s.row # BadRow
      BY <2>1 DEF Accepts
    <3> QED
      BY <1>5, <2>1, <3>1, <3>2
      DEF ExecuteOk, ServerExecutes, NewKey, AfterExec, NextSerial
  <2>3. s.kind = "insert" =>
          id \in Keys \cap (1 .. serial'[s.table]) /\ id \notin DOMAIN committed[s.table]
    <3>1. \A t \in TableNames : serial[t] \in Nat /\ serial[t] <= calls
      BY <1>5 DEF ExecuteOk, ServerExecutes, NewKey, AfterExec, SoloInv, SoloOutcome
    <3> QED
      BY <2>1, <2>2, <3>1 DEF SoloInv, Keyed
  <2>4. Keyed(committed)'
    BY <2>1, <2>2 DEF SoloInv, Keyed
  <2>5. SoloTxn(w)'
    BY <1>5, <2>1, <2>3
    DEF ExecuteOk, ServerExecutes, NewKey, AfterExec, Goto, SoloInv, SoloTxn
  <2>6. SoloOutcome(w)'
    <3>1. ~IsRead(s) => rows'[w] = NoRows
      BY <1>c, <2>1, StatementFacts
    <3>2. IsRead(s) => s.kind # "insert"
      BY <1>c, <2>1, StatementFacts
    <3> QED
      BY <1>5, <2>1, <2>2, <3>1, <3>2
      DEF ExecuteOk, ServerExecutes, NewKey, AfterExec, Goto, Decide, IsRead,
          SoloInv, SoloOutcome
  <2> QED
    BY <1>5, <2>1, <2>2, <2>4, <2>5, <2>6
    DEF ExecuteOk, ServerExecutes, NewKey, AfterExec, SoloInv,
        AckedRecordsDurable
<1>6. ASSUME NEW w \in Workers, ExecuteError(w) PROVE SoloInv'
  <2>1. call[w] \in Statements /\ call[w].table \in TableNames
    BY <1>6 DEF ExecuteError
  <2>2. /\ serial' \in [TableNames -> Nat]
        /\ \A t \in TableNames : serial[t] <= serial'[t] /\ serial'[t] <= calls + 1
    <3>1. \A t \in TableNames : serial[t] \in Nat /\ serial[t] <= calls
      BY <1>6 DEF ExecuteError, SoloInv, SoloOutcome
    <3> QED
      BY <1>6, <2>1, <3>1 DEF ExecuteError, NextSerial
  <2>3. Keyed(committed)'
    BY <1>6, <2>2 DEF ExecuteError, SoloInv, Keyed
  <2>4. SoloTxn(w)'
    BY <1>6 DEF ExecuteError, Goto, SoloInv, SoloTxn
  <2>5. SoloOutcome(w)'
    BY <1>6 DEF ExecuteError, Goto, Throw, Decide, SoloInv, SoloOutcome
  <2> QED
    BY <1>6, <2>2, <2>3, <2>4, <2>5 DEF ExecuteError, SoloInv, AckedRecordsDurable
<1>7. ASSUME NEW w \in Workers, CommitOk(w) PROVE SoloInv'
  <2>1. /\ call[w] \in Statements /\ call[w].table \in TableNames
        /\ session = "open" /\ linkUp
        /\ committed' = Effect(committed, call[w], key[w])
        /\ serial' = serial /\ session' = "none"
    BY <1>7 DEF CommitOk, ServerCommits, SoloInv, SoloTxn
  <2>2. Keyed(committed)'
    <3>1. call[w].kind = "insert" => key[w] \in 1 .. serial[call[w].table]
      BY <1>7 DEF CommitOk, SoloInv, SoloTxn
    <3> QED
      BY <1>c, <2>1, <3>1, EffectKeys DEF Shaped, SoloInv, Keyed
  <2>3. AckedRecordsDurable'
    <3>1. call[w].kind = "delete" /\ call[w].table = "history" => call[w].id \notin acked
      BY <1>7 DEF CommitOk, SoloInv, SoloOutcome
    <3>2. acked' = acked
      BY <1>7 DEF CommitOk
    <3>3. DOMAIN committed["history"] \subseteq DOMAIN committed'["history"]
            \cup (IF call[w].kind = "delete" /\ "history" = call[w].table
                  THEN {call[w].id} ELSE {})
      BY <1>c, <2>1, EffectKeys
    <3> QED
      BY <3>1, <3>2, <3>3 DEF SoloInv, AckedRecordsDurable
  <2>4. SoloTxn(w)'
    BY <1>7, <2>1 DEF CommitOk, Goto, SoloTxn
  <2>5. SoloOutcome(w)'
    <3>1. call[w].kind = "insert" => key[w] \in DOMAIN committed'[call[w].table]
      BY <1>c, <2>1, EffectKeys
    <3> QED
      BY <1>7, <2>1, <3>1 DEF CommitOk, Goto, Decide, SoloInv, SoloOutcome
  <2> QED
    BY <1>7, <2>1, <2>2, <2>3, <2>4, <2>5 DEF CommitOk, SoloInv
<1>8. ASSUME NEW w \in Workers, CommitError(w) PROVE SoloInv'
  BY <1>8 DEF CommitError, Goto, Throw, Decide,
         SoloInv, Keyed, SoloTxn, SoloOutcome, AckedRecordsDurable
<1>9. ASSUME NEW w \in Workers, CommitAnswerLost(w) PROVE SoloInv'
  <2>1. /\ call[w] \in Statements /\ call[w].table \in TableNames
        /\ session = "open" /\ linkUp
        /\ committed' = Effect(committed, call[w], key[w])
        /\ serial' = serial /\ session' = "none"
    BY <1>9 DEF CommitAnswerLost, ServerCommits, SoloInv, SoloTxn
  <2>2. Keyed(committed)'
    <3>1. call[w].kind = "insert" => key[w] \in 1 .. serial[call[w].table]
      BY <1>9 DEF CommitAnswerLost, SoloInv, SoloTxn
    <3> QED
      BY <1>c, <2>1, <3>1, EffectKeys DEF Shaped, SoloInv, Keyed
  <2>3. AckedRecordsDurable'
    <3>1. call[w].kind = "delete" /\ call[w].table = "history" => call[w].id \notin acked
      BY <1>9 DEF CommitAnswerLost, SoloInv, SoloOutcome
    <3>2. acked' = acked
      BY <1>9 DEF CommitAnswerLost
    <3>3. DOMAIN committed["history"] \subseteq DOMAIN committed'["history"]
            \cup (IF call[w].kind = "delete" /\ "history" = call[w].table
                  THEN {call[w].id} ELSE {})
      BY <1>c, <2>1, EffectKeys
    <3> QED
      BY <3>1, <3>2, <3>3 DEF SoloInv, AckedRecordsDurable
  <2>4. SoloTxn(w)'
    BY <1>9, <2>1 DEF CommitAnswerLost, Goto, SoloTxn
  <2>5. SoloOutcome(w)'
    <3>1. call[w].kind = "insert" => key[w] \in DOMAIN committed'[call[w].table]
      BY <1>c, <2>1, EffectKeys
    <3> QED
      BY <1>9, <2>1, <3>1
      DEF CommitAnswerLost, Goto, Throw, Decide, SoloInv, SoloOutcome
  <2> QED
    BY <1>9, <2>1, <2>2, <2>3, <2>4, <2>5 DEF CommitAnswerLost, SoloInv
<1>10. ASSUME NEW w \in Workers, Unregister(w) PROVE SoloInv'
  BY <1>10 DEF Unregister, Goto,
         SoloInv, Keyed, SoloTxn, SoloOutcome, AckedRecordsDurable
<1>11. ASSUME NEW w \in Workers, Rollback(w) PROVE SoloInv'
  BY <1>11 DEF Rollback, ServerRollsBack, Goto,
         SoloInv, Keyed, SoloTxn, SoloOutcome, AckedRecordsDurable
<1>12. ASSUME NEW w \in Workers, Return(w) PROVE SoloInv'
  <2>1. AckedRecordsDurable'
    BY <1>12 DEF Return, SoloInv, SoloOutcome, AckedRecordsDurable
  <2>2. \A v \in Workers : SoloTxn(v)' /\ SoloOutcome(v)'
    BY <1>12 DEF Return, Goto, SoloInv, SoloTxn, SoloOutcome
  <2> QED
    BY <1>12, <2>1, <2>2 DEF Return, SoloInv, Keyed
<1>13. CASE LoseLink
  BY <1>13 DEF LoseLink, ServerRollsBack,
         SoloInv, Keyed, SoloTxn, SoloOutcome, AckedRecordsDurable
<1>14. CASE UNCHANGED vars
  BY <1>14 DEF vars,
         SoloInv, Keyed, SoloTxn, SoloOutcome, AckedRecordsDurable
<1>15. ASSUME NEW w \in Workers, Garble(w) PROVE SoloInv'
  BY <1>15 DEF Garble
<1> QED
  BY <1>1, <1>2, <1>3, <1>4, <1>5, <1>6, <1>7,
     <1>8, <1>9, <1>10, <1>11, <1>12, <1>13, <1>14, <1>15
  DEF Next, Step

(***************************************************************************)
(* AtomicStore reads the schema through its own instance of ServiceDb; the *)
(* operators are the same.                                                 *)
(***************************************************************************)
LEMMA StoreOperators ==
    /\ Store!NoRows = NoRows
    /\ Store!EmptyDb = EmptyDb
    /\ \A n : Store!SeedDb(n) = SeedDb(n)
    /\ \A s : Store!IsRead(s) <=> IsRead(s)
    /\ \A d, s : Store!Accepts(d, s) <=> Accepts(d, s)
    /\ \A d, s, i : Store!Effect(d, s, i) = Effect(d, s, i)
    /\ \A d, s : Store!Fetched(d, s) = Fetched(d, s)
<1>1. Store!NoRows = NoRows
  BY DEF Store!NoRows, NoRows
<1>2. Store!EmptyDb = EmptyDb
  BY DEF Store!EmptyDb, Store!NoRows, Store!TableNames, EmptyDb, NoRows, TableNames
<1>3. ASSUME NEW n PROVE Store!SeedDb(n) = SeedDb(n)
  BY <1>2 DEF Store!SeedDb, SeedDb
<1>4. ASSUME NEW s PROVE Store!IsRead(s) <=> IsRead(s)
  BY DEF Store!IsRead, IsRead
<1>5. ASSUME NEW d, NEW s PROVE Store!Accepts(d, s) <=> Accepts(d, s)
  BY Zenon
  DEF Store!Accepts, Store!Referenced, Store!KeysExist, Accepts, Referenced,
      KeysExist
<1>6. ASSUME NEW d, NEW s, NEW i PROVE Store!Effect(d, s, i) = Effect(d, s, i)
  BY Zenon DEF Store!Effect, Store!Put, Store!Drop, Effect, Put, Drop
<1>7. ASSUME NEW d, NEW s PROVE Store!Fetched(d, s) = Fetched(d, s)
  BY Zenon DEF Store!Fetched, Store!Joined, Store!KeysExist, Store!NoRows,
     Fetched, Joined, KeysExist, NoRows
<1> QED
  BY <1>1, <1>2, <1>3, <1>4, <1>5, <1>6, <1>7

(***************************************************************************)
(* Every step of the one thread is a step of AtomicStore or leaves its     *)
(* variables alone.  A write takes effect at its COMMIT, a read at its     *)
(* statement; a method that throws before that fails without an effect.    *)
(***************************************************************************)
LEMMA StepSimulation ==
    ASSUME OneThread, SoloInv, [Next]_vars
    PROVE  [Store!Next]_(Store!vars)
<1>a. TypeOK
  BY DEF SoloInv
<1>b. ASSUME NEW w \in Workers, pc[w] # "idle"
      PROVE  call[w] \in Statements /\ call[w] # NoCall /\ call[w].table \in TableNames
  BY <1>a, <1>b, StatementsAssumption DEF TypeOK
<1>c. Shaped(committed)
  BY DEF SoloInv, Keyed, Shaped
\* An exception before the outcome is decided is a failed call.
<1>d. ASSUME NEW w \in Workers, pc[w] # "idle", Throw(w),
             UNCHANGED <<committed, call, rows>>
      PROVE  Store!Fail(w) \/ UNCHANGED Store!vars
  BY <1>a, <1>b, <1>d
  DEF Throw, Decide, Store!Fail, Store!Pending, Store!vars, TypeOK
\* A commit applies the statement of a write, and changes nothing for a read.
<1>e. ASSUME NEW w \in Workers, pc[w] = "commit", linkUp, ServerCommits
      PROVE  /\ Accepts(committed, call[w])
             /\ IsRead(call[w]) => committed' = committed
             /\ ~IsRead(call[w]) => Store!Changed(w)
  <2>1. /\ call[w] \in Statements
        /\ Accepts(committed, call[w])
        /\ committed' = Effect(committed, call[w], key[w])
        /\ call[w].kind = "insert" =>
              key[w] \in Keys /\ key[w] \notin DOMAIN committed[call[w].table]
    BY <1>b, <1>e DEF ServerCommits, SoloInv, SoloTxn
  <2>2. IsRead(call[w]) => committed' = committed
    BY <1>c, <2>1, StatementFacts
  <2>3. CASE call[w].kind = "insert"
    BY <2>1, <2>2, <2>3, StoreOperators DEF Store!Changed
  <2>4. CASE call[w].kind # "insert"
    <3>1. 1 \in Keys
      BY MaxCallsAssumption
    <3>2. committed' = Effect(committed, call[w], 1)
      BY <1>c, <2>1, <2>4, StatementFacts
    <3> QED
      BY <2>1, <2>2, <2>4, <3>1, <3>2, StoreOperators DEF Store!Changed
  <2> QED
    BY <2>1, <2>2, <2>3, <2>4
<1>1. ASSUME NEW w \in Workers, NEW s \in Statements, Call(w, s) PROVE Store!Invoke(w)
  BY <1>a, <1>1, StoreOperators DEF Call, Decide, Store!Invoke, TypeOK, server
<1>2. ASSUME NEW w \in Workers, CheckUnique(w) PROVE Store!Fail(w) \/ UNCHANGED Store!vars
  BY <1>2, <1>d DEF CheckUnique, Store!vars, server
<1>3. ASSUME NEW w \in Workers, Register(w) PROVE UNCHANGED Store!vars
  BY <1>3 DEF Register, Store!vars, server, outcome
<1>4. ASSUME NEW w \in Workers, Begin(w) PROVE Store!Fail(w) \/ UNCHANGED Store!vars
  BY <1>4, <1>d DEF Begin, ServerBegins, Store!vars
<1>5. ASSUME NEW w \in Workers, ExecuteOk(w) PROVE Store!Succeed(w) \/ UNCHANGED Store!vars
  <2>1. /\ session = "open" /\ working = committed /\ result[w] = "none"
        /\ rows[w] = NoRows
    BY <1>5
    DEF ExecuteOk, ServerExecutes, NewKey, AfterExec, SoloInv, SoloTxn,
        SoloOutcome
  <2>2. View = committed
    BY <2>1 DEF View
  <2>3. committed' = committed /\ call' = call
        /\ rows' = [rows EXCEPT ![w] = Fetched(committed, call[w])]
        /\ Accepts(committed, call[w])
    BY <1>5, <2>1, <2>2 DEF ExecuteOk, ServerExecutes, NewKey, AfterExec
  <2>4. CASE IsRead(call[w])
    BY <1>5, <1>b, <2>1, <2>3, <2>4, StoreOperators
    DEF ExecuteOk, ServerExecutes, NewKey, AfterExec, Decide, Store!Succeed, Store!Pending
  <2>5. CASE ~IsRead(call[w])
    <3>1. Fetched(committed, call[w]) = NoRows
      BY <1>5, <1>b, <1>c, <2>5, StatementFacts
      DEF ExecuteOk, ServerExecutes, NewKey, AfterExec
    <3>2. rows' = rows
      BY <1>a, <2>1, <2>3, <3>1 DEF TypeOK
    <3> QED
      BY <1>5, <2>3, <2>5, <3>2
      DEF ExecuteOk, ServerExecutes, NewKey, AfterExec, Store!vars
  <2> QED
    BY <2>4, <2>5
<1>6. ASSUME NEW w \in Workers, ExecuteError(w) PROVE Store!Fail(w) \/ UNCHANGED Store!vars
  BY <1>6, <1>d DEF ExecuteError
<1>7. ASSUME NEW w \in Workers, CommitOk(w) PROVE Store!Succeed(w) \/ UNCHANGED Store!vars
  <2>1. pc[w] = "commit" /\ linkUp /\ ServerCommits /\ UNCHANGED <<call, rows>>
        /\ result' = [result EXCEPT ![w] = "true"]
    BY <1>7 DEF CommitOk, Decide
  <2>2. result[w] = IF IsRead(call[w]) THEN "true" ELSE "none"
    BY <2>1 DEF SoloInv, SoloOutcome
  <2>3. CASE IsRead(call[w])
    BY <1>a, <1>e, <2>1, <2>2, <2>3 DEF Store!vars, TypeOK
  <2>4. CASE ~IsRead(call[w])
    <3>1. rows[w] = NoRows /\ Fetched(committed, call[w]) = NoRows
      BY <1>b, <1>c, <2>1, <2>2, <2>4, StatementFacts DEF SoloInv, SoloOutcome
    <3>2. rows' = [rows EXCEPT ![w] = Fetched(committed, call[w])]
      BY <1>a, <2>1, <3>1 DEF TypeOK
    <3> QED
      BY <1>b, <1>e, <2>1, <2>2, <2>4, <3>2, StoreOperators
      DEF Store!Succeed, Store!Pending
  <2> QED
    BY <2>3, <2>4
<1>8. ASSUME NEW w \in Workers, CommitError(w) PROVE Store!Fail(w) \/ UNCHANGED Store!vars
  BY <1>8, <1>d DEF CommitError, server
<1>9. ASSUME NEW w \in Workers, CommitAnswerLost(w)
      PROVE  Store!Doubt(w) \/ UNCHANGED Store!vars
  <2>1. pc[w] = "commit" /\ linkUp /\ ServerCommits /\ UNCHANGED <<call, rows>> /\ Throw(w)
    BY <1>9 DEF CommitAnswerLost
  <2>2. result[w] = IF IsRead(call[w]) THEN "true" ELSE "none"
    BY <2>1 DEF SoloInv, SoloOutcome
  <2>3. CASE IsRead(call[w])
    BY <1>a, <1>e, <2>1, <2>2, <2>3 DEF Throw, Decide, Store!vars, TypeOK
  <2>4. CASE ~IsRead(call[w])
    BY <1>b, <1>e, <2>1, <2>2, <2>4, StoreOperators
    DEF Throw, Decide, Store!Doubt, Store!Pending
  <2> QED
    BY <2>3, <2>4
<1>10. ASSUME NEW w \in Workers, Unregister(w) PROVE UNCHANGED Store!vars
  BY <1>10 DEF Unregister, Store!vars, server, outcome
<1>11. ASSUME NEW w \in Workers, Rollback(w) PROVE UNCHANGED Store!vars
  BY <1>11 DEF Rollback, ServerRollsBack, Store!vars, outcome
<1>12. ASSUME NEW w \in Workers, Return(w) PROVE Store!Respond(w)
  BY <1>12, <1>b DEF Return, Store!Respond, server, outcome, SoloInv, SoloOutcome
<1>13. CASE LoseLink
  BY <1>13 DEF LoseLink, ServerRollsBack, Store!vars, outcome
<1>14. CASE UNCHANGED vars
  BY <1>14 DEF vars, Store!vars
<1>15. ASSUME NEW w \in Workers, Garble(w) PROVE [Store!Next]_(Store!vars)
  BY <1>15 DEF OneThread, Garble
<1> QED
  BY <1>1, <1>2, <1>3, <1>4, <1>5, <1>6, <1>7,
     <1>8, <1>9, <1>10, <1>11, <1>12, <1>13, <1>14, <1>15
  DEF Next, Step, Store!Next

\* When a single thread uses the connection, every reachable state satisfies
\* the inductive invariant, and every acknowledged record is in the table.
THEOREM OneThreadDurable == ASSUME OneThread PROVE Spec => []AckedRecordsDurable
<1>1. Init => SoloInv
  BY InitSolo
<1>2. SoloInv /\ [Next]_vars => SoloInv'
  BY NextSolo
<1>3. SoloInv => AckedRecordsDurable
  BY DEF SoloInv
<1> QED
  BY <1>1, <1>2, <1>3, PTL DEF Spec

\* When a single thread uses the connection, class Database implements
\* AtomicStore: each method takes effect at one instant or not at all, however
\* often the connection is lost and whatever statements are sent.
THEOREM OneThreadAtomic == ASSUME OneThread PROVE Spec => Atomic
<1>1. Init => SoloInv
  BY InitSolo
<1>2. SoloInv /\ [Next]_vars => SoloInv'
  BY NextSolo
<1>3. Init => Store!Init
  BY StoreOperators DEF Init, Store!Init
<1>4. SoloInv /\ [Next]_vars => [Store!Next]_(Store!vars)
  BY StepSimulation
<1> QED
  BY <1>1, <1>2, <1>3, <1>4, PTL DEF Spec, Atomic, Store!Spec

(***************************************************************************)
(* Referential integrity, for any number of threads: whatever transaction  *)
(* a statement ends up in, it was accepted against the contents that it    *)
(* changes.                                                                *)
(***************************************************************************)
Intact(d) == Shaped(d) /\ KeysIntact(d)
IntegrityInv == TypeOK /\ Intact(committed) /\ Intact(working)

\* A statement that the server accepts keeps the foreign keys.
LEMMA EffectIntact ==
    ASSUME NEW s \in Statements, NEW d, Intact(d), NEW id, Accepts(d, s)
    PROVE  Intact(Effect(d, s, id))
<1> DEFINE e == Effect(d, s, id)
<1>0. /\ Shaped(d) /\ s.table \in TableNames
      /\ \A i \in DOMAIN d["history"] :
            /\ d["history"][i].device \in DOMAIN d["devices"]
            /\ d["history"][i].service \in DOMAIN d["types"]
  BY StatementsAssumption DEF Intact, KeysIntact, KeysExist
<1>1. Shaped(e)
  BY <1>0, EffectKeys
<1>2. SUFFICES ASSUME NEW i \in DOMAIN e["history"]
               PROVE  /\ e["history"][i].device \in DOMAIN e["devices"]
                      /\ e["history"][i].service \in DOMAIN e["types"]
  BY <1>1 DEF Intact, KeysIntact, KeysExist
<1>3. CASE s.kind = "insert"
  <2>1. e = [d EXCEPT ![s.table] = Put(d[s.table], id, s.row)]
    BY <1>3 DEF Effect
  <2>2. s.table = "history" =>
           s.row.device \in DOMAIN d["devices"] /\ s.row.service \in DOMAIN d["types"]
    BY <1>3 DEF Accepts, KeysExist
  <2> QED
    BY <1>0, <2>1, <2>2 DEF Put, Shaped, TableNames
<1>4. CASE s.kind = "update" /\ s.id \in DOMAIN d[s.table]
  <2>1. e = [d EXCEPT ![s.table] = Put(d[s.table], s.id, s.row)]
    BY <1>4 DEF Effect
  <2>2. s.table = "history" =>
           s.row.device \in DOMAIN d["devices"] /\ s.row.service \in DOMAIN d["types"]
    BY <1>4 DEF Accepts, KeysExist
  <2> QED
    BY <1>0, <2>1, <2>2 DEF Put, Shaped, TableNames
<1>5. CASE s.kind = "delete"
  <2>1. e = [d EXCEPT ![s.table] = Drop(d[s.table], s.id)]
    BY <1>5 DEF Effect
  <2>2. \A k \in DOMAIN d["history"] :
           /\ s.table = "devices" => d["history"][k].device # s.id
           /\ s.table = "types" => d["history"][k].service # s.id
    BY <1>5 DEF Accepts, Referenced
  <2> QED
    BY <1>0, <2>1, <2>2 DEF Drop, Shaped, TableNames
<1>6. CASE /\ s.kind \notin {"insert", "delete"}
           /\ ~(s.kind = "update" /\ s.id \in DOMAIN d[s.table])
  <2>1. e = d
    BY <1>6 DEF Effect
  <2> QED
    BY <1>0, <2>1
<1> QED
  BY <1>3, <1>4, <1>5, <1>6

\* The empty and the seeded database refer to no missing row.
LEMMA EmptyIntact == Intact(EmptyDb) /\ \A n : Intact(SeedDb(n))
<1>1. Shaped(EmptyDb) /\ DOMAIN EmptyDb["history"] = {}
  BY DEF EmptyDb, Shaped, NoRows, TableNames
<1>2. ASSUME NEW n PROVE Shaped(SeedDb(n)) /\ DOMAIN SeedDb(n)["history"] = {}
  BY DEF SeedDb, EmptyDb, Shaped, NoRows, TableNames
<1> QED
  BY <1>1, <1>2 DEF Intact, KeysIntact

\* No statement, commit or roll-back leaves a reference to a missing row.
LEMMA NextIntegrity == ASSUME IntegrityInv, [Next]_vars PROVE IntegrityInv'
<1>1. TypeOK /\ TypeOK' /\ Intact(committed) /\ Intact(working) /\ Intact(EmptyDb)
  BY NextTypeOK, EmptyIntact DEF IntegrityInv
<1>2. ASSUME NEW s \in Statements, ServerExecutes(s)
      PROVE  Intact(committed)' /\ Intact(working)'
  <2>1. Intact(View) /\ Accepts(View, s)
    BY <1>1, <1>2 DEF View, ServerExecutes
  <2>2. Intact(Effect(View, s, NewKey(s)))
    BY <2>1, EffectIntact
  <2>3. \/ committed' = Effect(View, s, NewKey(s)) /\ working' = working
        \/ working' = Effect(View, s, NewKey(s)) /\ committed' = committed
    BY <1>2 DEF ServerExecutes
  <2> QED
    BY <1>1, <2>2, <2>3
<1>3. ASSUME ServerBegins \/ ServerCommits \/ ServerRollsBack
             \/ UNCHANGED <<committed, working>>
      PROVE  Intact(committed)' /\ Intact(working)'
  BY <1>1, <1>3 DEF ServerBegins, ServerCommits, ServerRollsBack
<1>4. ASSUME NEW w \in Workers, pc[w] = "exec" PROVE call[w] \in Statements
  BY <1>1, <1>4 DEF TypeOK
<1> DEFINE Served ==
      \/ ServerBegins \/ ServerCommits \/ ServerRollsBack
      \/ UNCHANGED <<committed, working>>
      \/ \E s \in Statements : ServerExecutes(s)
<1>5. Served
  <2>1. ASSUME NEW w \in Workers, ExecuteOk(w) \/ Garble(w) PROVE Served
    BY <1>4, <2>1 DEF ExecuteOk, Garble
  <2>2. ASSUME NEW w \in Workers,
               \/ CheckUnique(w) \/ Register(w) \/ Begin(w) \/ ExecuteError(w)
               \/ CommitOk(w) \/ CommitError(w) \/ CommitAnswerLost(w)
               \/ Unregister(w) \/ Rollback(w) \/ Return(w)
        PROVE Served
    BY <2>2 DEF CheckUnique, Register, Begin, ExecuteError, CommitOk, CommitError,
       CommitAnswerLost, Unregister, Rollback, Return, server
  <2>3. ASSUME NEW w \in Workers, NEW s \in Statements, Call(w, s) PROVE Served
    BY <2>3 DEF Call, server
  <2>4. CASE LoseLink \/ UNCHANGED vars
    BY <2>4 DEF LoseLink, vars
  <2> QED
    BY <2>1, <2>2, <2>3, <2>4 DEF Next, Step
<1> QED
  BY <1>1, <1>2, <1>3, <1>5 DEF IntegrityInv

\* For any number of threads, even when they share one transaction by mistake or their
\* commands get mixed up: the inner join of getDetailedServiceHistory drops no record of
\* the committed history.
THEOREM JoinDropsNothing == Spec => []JoinComplete
<1>1. Init => IntegrityInv
  BY InitTypeOK, EmptyIntact DEF Init, IntegrityInv
<1>2. IntegrityInv /\ [Next]_vars => IntegrityInv'
  BY NextIntegrity
<1>3. IntegrityInv => JoinComplete
  BY DEF IntegrityInv, Intact, KeysIntact, JoinComplete, Joined
<1> QED
  BY <1>1, <1>2, <1>3, PTL DEF Spec

(***************************************************************************)
(* One thread: what a failed read means.                                   *)
(***************************************************************************)
\* A read that will return false has met a lost connection, which stays lost.
OutageInv ==
    /\ CleanInv /\ SoloInv
    /\ \A w \in Workers :
          pc[w] # "idle" /\ IsRead(call[w]) /\ result[w] = "false" => ~linkUp

\* With one thread, every step keeps a failing read tied to a lost link.
LEMMA NextOutage == ASSUME OneThread, OutageInv, [Next]_vars PROVE OutageInv'
<1>1. CleanInv' /\ SoloInv'
  BY NextCleanInv, NextSolo DEF OutageInv
<1>2. /\ TypeOK /\ TypeOK' /\ Shaped(committed)
      /\ status = "bad" => ~linkUp
  BY <1>1 DEF OutageInv, CleanInv, SoloInv, Keyed, Shaped
<1>3. ASSUME NEW w \in Workers
      PROVE  /\ pc[w] = "check" => m_trans = NoWorker
             /\ pc[w] = "begin" => session = "none"
             /\ pc[w] = "exec" /\ linkUp => session = "open" /\ View = committed
             /\ pc[w] = "commit" /\ IsRead(call[w]) => result[w] = "true"
             /\ pc[w] # "idle" /\ IsRead(call[w]) /\ result[w] = "false" => ~linkUp
  <2>1. SoloTxn(w) /\ SoloOutcome(w)
    BY DEF OutageInv, SoloInv
  <2>2. pc[w] = "check" => m_trans = NoWorker
    BY <1>2 DEF OutageInv, CleanInv, OneThread, TypeOK
  <2> QED
    BY <2>1, <2>2 DEF SoloTxn, SoloOutcome, OutageInv, View
<1>4. ASSUME NEW w \in Workers, pc[w] = "exec"
      PROVE  IsRead(call[w]) => Accepts(committed, call[w])
  <2>1. call[w] \in Statements
    BY <1>2, <1>4 DEF TypeOK
  <2> QED
    BY <1>2, <2>1, StatementFacts
<1> DEFINE Told(w) == pc[w] # "idle" /\ IsRead(call[w]) /\ result[w] = "false" => ~linkUp
<1> SUFFICES ASSUME NEW w \in Workers PROVE Told(w)'
  BY <1>1 DEF OutageInv
<1> USE <1>2, <1>3, <1>4 DEF OneThread, TypeOK, server, outcome
<1>5. ASSUME NEW s \in Statements, Call(w, s) PROVE Told(w)'
  BY <1>5 DEF Call, Decide
<1>6. CASE CheckUnique(w)
  BY <1>6 DEF CheckUnique, Goto
<1>7. CASE Begin(w)
  BY <1>7 DEF Begin, Goto
<1>8. CASE ExecuteOk(w)
  BY <1>8 DEF ExecuteOk, Decide
<1>9. CASE ExecuteError(w)
  BY <1>9 DEF ExecuteError
<1>10. CASE CommitOk(w)
  BY <1>10 DEF CommitOk, Decide
<1>11. CASE CommitError(w) \/ CommitAnswerLost(w)
  BY <1>11 DEF CommitError, CommitAnswerLost, Throw, Decide
<1>12. CASE Register(w) \/ Unregister(w) \/ Rollback(w) \/ Return(w)
  BY <1>12 DEF Register, Unregister, Rollback, Return, Goto
<1>13. CASE LoseLink \/ UNCHANGED vars
  BY <1>13 DEF LoseLink, vars
<1>14. CASE Garble(w)
  BY <1>14 DEF Garble
<1> QED
  BY <1>5, <1>6, <1>7, <1>8, <1>9, <1>10, <1>11, <1>12, <1>13, <1>14
  DEF Next, Step

\* With a single thread on the connection, testConnection and the reads report a failure
\* only when the connection is lost: "disconnected" and the empty list are never made up.
THEOREM OneThreadFailureMeansOutage == ASSUME OneThread PROVE Spec => []FailureMeansOutage
<1>1. Init => OutageInv
  <2> SUFFICES ASSUME Init PROVE OutageInv
    OBVIOUS
  <2>1. CleanInv
    BY InitTypeOK, WorkersAssumption DEF Init, CleanInv
  <2> QED
    BY <2>1, InitSolo DEF Init, OutageInv
<1>2. OutageInv /\ [Next]_vars => OutageInv'
  BY NextOutage
<1>3. OutageInv => FailureMeansOutage
  BY DEF OutageInv, FailureMeansOutage
<1> QED
  BY <1>1, <1>2, <1>3, PTL DEF Spec

=============================================================================
