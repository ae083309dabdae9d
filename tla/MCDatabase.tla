------------------------------ MODULE MCDatabase ------------------------------
(***************************************************************************)
(* Instances of Database for TLC.                                          *)
(***************************************************************************)
EXTENDS Database, TLC

CONSTANTS PC1   \* the name of a device, or of a service type

MCNames == {PC1}
MCKeys == 1 .. MaxCalls + 1

Statement(kind, table, id, row) == [kind |-> kind, table |-> table, id |-> id, row |-> row]

NamedRows == Names \cup {BadRow}
HistoryRows == {[device |-> 1, service |-> 1], [device |-> 2, service |-> 1], BadRow}
RowsOf(table) == IF table = "history" THEN HistoryRows ELSE NamedRows

\* The statements behind the HTTP routes.
RouteStatements ==
    {Statement("ping", "devices", 0, BadRow),
     Statement("select", "history", 0, BadRow),
     Statement("insert", "history", 0, [device |-> 1, service |-> 1]),
     Statement("insert", "history", 0, [device |-> 2, service |-> 1])}

\* One statement for every method of Database and each kind of argument.
AllStatements ==
    RouteStatements
    \cup {Statement("join", "history", 0, BadRow)}
    \cup {Statement("select", t, 0, BadRow) : t \in TableNames}
    \cup UNION {{Statement("insert", t, 0, r) : r \in RowsOf(t)} : t \in TableNames}
    \cup UNION {{Statement("update", t, 1, r) : r \in RowsOf(t)} : t \in TableNames}
    \cup {Statement("delete", t, 1, BadRow) : t \in TableNames}

\* A behaviour ends when all the calls have been made and have returned.
Done ==
    /\ calls = MaxCalls /\ \A w \in Workers : pc[w] = "idle"
    /\ UNCHANGED vars

MCSpec == Init /\ [][Next \/ Done]_vars
MCFairSpec == MCSpec /\ Fairness

WorkerSymmetry == Permutations(Workers)

=============================================================================
