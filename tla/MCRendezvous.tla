---------------------------- MODULE MCRendezvous ----------------------------
(* Two runs on one target, hence up to two agents, and one clean.          *)
EXTENDS Rendezvous
=============================================================================
