--------------------------- MODULE MCAgentChannels ---------------------------
(* Instances of AgentChannels for TLC. *)
EXTENDS AgentChannels
=============================================================================
