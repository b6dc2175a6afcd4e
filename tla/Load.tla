-------------------------------- MODULE Load --------------------------------
(***************************************************************************)
(* Everything a run does before a host is dialed, and what it then sends:  *)
(* runCmd and statusCmd (cmd/shellf/main.go) around project.Load           *)
(* (project/project.go).  One run, Self, is followed through all of it;    *)
(* the others share with it the lock file and the module cache and nothing *)
(* else, and are followed as far as their imports.                         *)
(***************************************************************************)
EXTENDS ModuleLock, PlanValues, CallCycles

CONSTANTS
  Self,   \* the run that is followed
  Inputs  \* the projects considered: <<imports of the runs, plan,
          \*   call graph, packages>>

ASSUME SelfAssumption == Self \in Runs
ASSUME InputsAssumption ==
  \A i \in Inputs : i[1] \in Projects /\ i[2] \in Plans /\ i[3] \in Graphs /\ i[4] \in Packages

vars == <<lockVars, planVars, cycleVars>>

Init ==
  /\ \E i \in Inputs : imports = i[1] /\ plan = i[2] /\ calls = i[3] /\ libs = i[4]
  /\ LockInit
  /\ PlanInit
  /\ CycleInit

ImportModules == LockNext /\ UNCHANGED <<planVars, cycleVars>>

(* readImports returns before the plan is parsed: the lock is on disk      *)
(* whatever becomes of the plan.                                           *)
Parse == at[Self] = "done" /\ ReadPlan /\ UNCHANGED <<lockVars, cycleVars>>

CheckCalls == pass = "read" /\ CheckCycles /\ UNCHANGED <<lockVars, planVars>>

(* A circle is the end of Load, otherwise the arguments are judged.        *)
Judge ==
  /\ verdict = "acyclic"
  /\ JudgePlan
  /\ UNCHANGED <<lockVars, cycleVars>>

Send == SendPlan /\ UNCHANGED <<lockVars, cycleVars>>

Next == ImportModules \/ Parse \/ CheckCalls \/ Judge \/ Send

Spec == Init /\ [][Next]_vars

-----------------------------------------------------------------------------
TypeOK ==
  /\ LockTypeOK
  /\ CycleTypeOK
  /\ pass \in {"reading", "refused", "read", "expanding"}
  /\ base \in [Vars -> Texts \cup {Undefined}]
  /\ dropped \subseteq Hosts
  /\ \A m \in sent : m.host \in Hosts /\ m.block \in DOMAIN blocks
=============================================================================
