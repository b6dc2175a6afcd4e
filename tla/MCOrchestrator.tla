--------------------------- MODULE MCOrchestrator ---------------------------
(* Three hosts in one group and a group declared empty; plans of up to two   *)
(* blocks; a limit naming a host, the empty group or nobody; a fan-out     *)
(* unset or of one.                                                        *)
EXTENDS Orchestrator

CONSTANTS h1, h2, h3, all, empty

MCMembersOf == [g \in {all, empty} |-> IF g = all THEN Hosts ELSE {}]
MCBlocks ==
  [target : {h1, all, Ghost}, bare : {FALSE}]
    \cup {[target |-> all, bare |-> TRUE], [target |-> empty, bare |-> FALSE]}
MCLimits == {{}, {h1}, {h2, Ghost}, {h2}, {empty}}
=============================================================================
