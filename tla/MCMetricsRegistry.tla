------------------------- MODULE MCMetricsRegistry -------------------------
(***************************************************************************)
(* Small instances of MetricsRegistry for TLC.                             *)
(***************************************************************************)
EXTENDS MetricsRegistry

\* The run ends when every thread has used up its bound.
Done ==
    /\ \A t \in Threads :
          pc[t] = "idle" /\ calls[t] = MaxCalls /\ scrapes[t] = MaxScrapes
    /\ UNCHANGED vars

MCSpec == Init /\ [][Next \/ Done]_vars
MCFairSpec == MCSpec /\ Fairness

=============================================================================
