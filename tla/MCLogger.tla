------------------------------- MODULE MCLogger -------------------------------
(***************************************************************************)
(* Instances of Logger for TLC.                                            *)
(***************************************************************************)
EXTENDS Logger, TLC

\* The run ends when the bounds are used up.
Done ==
    /\ phase = "running" /\ \A t \in Threads : pc[t] = "idle" /\ calls[t] = MaxCalls
    /\ UNCHANGED vars

MCFairSpec == Init /\ [][Next \/ Done]_vars /\ Fairness

=============================================================================
