---------------------------- MODULE MCApiAdapter ----------------------------
(* Two threads that share an adapter, and a listing of three pages. *)
EXTENDS ApiAdapter

CONSTANT all

MCLimits == {all, 3}
=============================================================================
