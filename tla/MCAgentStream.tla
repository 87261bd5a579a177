--------------------------- MODULE MCAgentStream ---------------------------
(* The agent's stream for TLC: the bounds are in the .cfg file. *)
EXTENDS AgentStream
=============================================================================
