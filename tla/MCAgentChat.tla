---------------------------- MODULE MCAgentChat ----------------------------
(* Two messages that mention the same agent, one of them after another. *)
EXTENDS AgentChat, TLC

CONSTANTS feed, parser, d1, d2

MCMentions == d1 :> <<feed, parser>> @@ d2 :> <<parser>>
=============================================================================
