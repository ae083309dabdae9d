-------------------------------- MODULE MCPqxx --------------------------------
(***************************************************************************)
(* The session, the pipeline and the cursors of libpqxx, each on a         *)
(* connection of its own and one of them at a time.                        *)
(***************************************************************************)
EXTENDS PqxxSession, PqxxPipeline, PqxxCursor

MCInit == Init /\ PipeInit /\ CursorInit

NoSession == trans = None /\ db = FreshDb /\ \A x \in Tx : tx[x] = NoTx
NoPipeline == pipe = NoPipe
MCNext ==
    \/ NoPipeline /\ Unborn /\ Next /\ UNCHANGED <<pipe, cursor>>
    \/ NoSession /\ Unborn /\ PipeNext /\ UNCHANGED <<vars, cursor>>
    \/ NoSession /\ NoPipeline /\ CursorNext /\ UNCHANGED <<vars, pipe>>

MCSpec == MCInit /\ [][MCNext]_<<vars, pipe, cursor>>

=============================================================================
