---------------------------- MODULE MCTodoBoard ----------------------------
(***************************************************************************)
(* TodoBoard for TLC.  No symmetry: liveness is checked.                   *)
(***************************************************************************)
EXTENDS TodoBoard
=============================================================================
