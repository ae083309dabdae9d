----------------------------- MODULE MCWebServer -----------------------------
(***************************************************************************)
(* Instances of WebServer for TLC.                                         *)
(***************************************************************************)
EXTENDS WebServer, TLC

\* A behaviour ends when all requests are answered.
Done == stage = "serving" /\ sent = MaxRequests /\ Quiet /\ UNCHANGED vars

\* Well-formed records only.
HistoryRequests == {q \in AllRequests : q.route = "post_history" /\ q.body = "good"}

MCSpec == Init /\ [][Next \/ Done]_vars
MCFairSpec == MCSpec /\ Fairness

ThreadSymmetry == Permutations(Threads)

=============================================================================
