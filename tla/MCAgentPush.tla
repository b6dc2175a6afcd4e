---------------------------- MODULE MCAgentPush ----------------------------
(* Three runs that may overlap, a binary of two chunks, two drops.         *)
EXTENDS AgentPush
=============================================================================
