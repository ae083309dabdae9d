------------------------------ MODULE AtomicStore ------------------------------
(***************************************************************************)
(* What class Database promises its callers (src/src/database.h): each     *)
(* method takes effect at one instant or not at all.  A method that        *)
(* returns true has taken effect; one that returns false has not, unless   *)
(* the connection was lost while it committed.  A read returns a state     *)
(* that was committed, or nothing.                                         *)
(***************************************************************************)
EXTENDS ServiceDb

CONSTANTS Workers, Statements, NoCall

VARIABLES
    db,         \* the committed contents
    call,       \* the statement each worker is waiting for
    result,     \* "none", "true" or "false": the outcome, once decided
    rows        \* the rows of a decided read

vars == <<db, call, result, rows>>

Init ==
    /\ db \in {EmptyDb} \cup {SeedDb(n) : n \in Names}
    /\ call = [w \in Workers |-> NoCall]
    /\ result = [w \in Workers |-> "none"]
    /\ rows = [w \in Workers |-> NoRows]

Invoke(w) ==
    /\ call[w] = NoCall
    /\ \E s \in Statements : call' = [call EXCEPT ![w] = s]
    /\ result' = [result EXCEPT ![w] = "none"]
    /\ rows' = [rows EXCEPT ![w] = NoRows]
    /\ UNCHANGED db

Pending(w) == call[w] # NoCall /\ result[w] = "none"

\* An inserted row gets a key that no row has.
Changed(w) ==
    \E id \in Keys :
        /\ call[w].kind = "insert" => id \notin DOMAIN db[call[w].table]
        /\ db' = Effect(db, call[w], id)

Succeed(w) ==
    /\ Pending(w)
    /\ Accepts(db, call[w])
    /\ IF IsRead(call[w]) THEN db' = db ELSE Changed(w)
    /\ result' = [result EXCEPT ![w] = "true"]
    /\ rows' = [rows EXCEPT ![w] = Fetched(db, call[w])]
    /\ UNCHANGED call

Fail(w) ==
    /\ Pending(w)
    /\ result' = [result EXCEPT ![w] = "false"]
    /\ UNCHANGED <<db, call, rows>>

\* The connection is lost before the answer to COMMIT arrives.
Doubt(w) ==
    /\ Pending(w)
    /\ ~IsRead(call[w])
    /\ Accepts(db, call[w])
    /\ Changed(w)
    /\ result' = [result EXCEPT ![w] = "false"]
    /\ UNCHANGED <<call, rows>>

Respond(w) ==
    /\ call[w] # NoCall /\ result[w] # "none"
    /\ call' = [call EXCEPT ![w] = NoCall]
    /\ UNCHANGED <<db, result, rows>>

Next == \E w \in Workers : Invoke(w) \/ Succeed(w) \/ Fail(w) \/ Doubt(w) \/ Respond(w)

Spec == Init /\ [][Next]_vars

=============================================================================
