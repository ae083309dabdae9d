------------------------------ MODULE JsonInputs ------------------------------
(***************************************************************************)
(* An input of json.hpp: what kind of input it is, and the input.          *)
(***************************************************************************)
VARIABLES kind, input

vars == <<kind, input>>

=============================================================================
