------------------------------- MODULE ServiceDb -------------------------------
(***************************************************************************)
(* The database of the service system: the schema of create_db.sql and the *)
(* effect of the statements that the methods of class Database             *)
(* (src/src/database.cpp) send.  One statement per method:                 *)
(*                                                                         *)
(*   insert    addDevice, addServiceType, addServiceRecord                 *)
(*   update    updateDevice, updateServiceType, updateServiceRecord        *)
(*   delete    deleteDevice, deleteServiceType, deleteServiceRecord        *)
(*   select    getAllDevices, getAllServiceTypes, getAllServiceRecords     *)
(*   join      getDetailedServiceHistory                                   *)
(*   ping      testConnection                                              *)
(*                                                                         *)
(* A row of Devices or Service_Types is abstracted to its name; a row of   *)
(* Service_History to its two foreign keys.  BadRow stands for values that *)
(* a column refuses (a malformed date, a name that is too long).           *)
(***************************************************************************)
EXTENDS Integers

CONSTANTS
    Names,      \* names of devices and service types
    BadRow,     \* values that the server refuses
    Keys        \* values of the SERIAL columns

TableNames == {"devices", "types", "history"}

NoRows == [i \in {} |-> BadRow]
EmptyDb == [t \in TableNames |-> NoRows]

\* docker/init.sql also inserts sample rows; create_db.sql leaves the tables
\* empty.
SeedDb(name) ==
    [EmptyDb EXCEPT !["devices"] = [i \in {1} |-> name], !["types"] = [i \in {1} |-> name]]

Put(rows, id, row) == [i \in DOMAIN rows \cup {id} |-> IF i = id THEN row ELSE rows[i]]
Drop(rows, id) == [i \in DOMAIN rows \ {id} |-> rows[i]]

\* The foreign keys of a row of Service_History name existing rows.
KeysExist(db, row) ==
    row.device \in DOMAIN db["devices"] /\ row.service \in DOMAIN db["types"]

\* Mutant: the schema lacks the foreign keys' check on DELETE.
MutantReferencedNever(db, table, id) == FALSE

Referenced(db, table, id) ==
    \E i \in DOMAIN db["history"] :
        \/ table = "devices" /\ db["history"][i].device = id
        \/ table = "types" /\ db["history"][i].service = id

\* The server executes the statement without an error.  An UPDATE or a DELETE
\* that matches no row is not an error.
Accepts(db, s) ==
    CASE s.kind = "insert" ->
            s.row # BadRow /\ (s.table = "history" => KeysExist(db, s.row))
      [] s.kind = "update" ->
            s.row # BadRow
            /\ (s.table = "history" /\ s.id \in DOMAIN db["history"] => KeysExist(db, s.row))
      [] s.kind = "delete" -> ~Referenced(db, s.table, s.id)
      [] OTHER -> TRUE

\* Its effect; id is the key that the SERIAL column gives an inserted row.
Effect(db, s, id) ==
    CASE s.kind = "insert" -> [db EXCEPT ![s.table] = Put(@, id, s.row)]
      [] s.kind = "update" /\ s.id \in DOMAIN db[s.table] ->
            [db EXCEPT ![s.table] = Put(@, s.id, s.row)]
      [] s.kind = "delete" -> [db EXCEPT ![s.table] = Drop(@, s.id)]
      [] OTHER -> db

\* getDetailedServiceHistory: an inner join of the history with both tables.
Joined(db) ==
    LET matched == {i \in DOMAIN db["history"] : KeysExist(db, db["history"][i])}
    IN  [i \in matched |-> [device |-> db["devices"][db["history"][i].device],
                            service |-> db["types"][db["history"][i].service]]]

\* The rows a read returns.
Fetched(db, s) ==
    CASE s.kind = "select" -> db[s.table]
      [] s.kind = "join" -> Joined(db)
      [] OTHER -> NoRows

IsRead(s) == s.kind \in {"select", "join", "ping"}

\* Referential integrity.
KeysIntact(db) == \A i \in DOMAIN db["history"] : KeysExist(db, db["history"][i])

=============================================================================
