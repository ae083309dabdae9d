-------------------------------- MODULE MCWebUI --------------------------------
(***************************************************************************)
(* Instances of WebUI for TLC.                                             *)
(***************************************************************************)
EXTENDS WebUI, TLC

\* The page is at rest and the user has gone.
Done == Quiet /\ timers = 0 /\ clicks = Clicks /\ UNCHANGED vars

MCSpec == Init /\ [][Next \/ Done]_vars /\ Fairness

=============================================================================
