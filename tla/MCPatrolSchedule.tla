-------------------------- MODULE MCPatrolSchedule --------------------------
(* One patrol of the default list and one the operator adds, which chats. *)
EXTENDS PatrolSchedule

CONSTANTS feed, custom

MCOrder == <<feed, custom>>
=============================================================================
