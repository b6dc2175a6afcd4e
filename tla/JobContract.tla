---------------------------- MODULE JobContract ----------------------------
(***************************************************************************)
(* What one call of transport.SSH.Run promises its caller, whatever        *)
(* happens to sessions, agents and files in between.  A job is accepted    *)
(* (its request is in place on the target), executed at most once, and     *)
(* answered at most once.  A result is only given for a job that was       *)
(* executed; an error says nothing about execution: an accepted job may    *)
(* still run after its caller gave up on it.                               *)
(***************************************************************************)
EXTENDS Naturals

CONSTANT Jobs

VARIABLES
  accepted,   \* the jobs whose request reached the target
  executions, \* executions[j]: how often the steps of job j were started
  answer      \* answer[j]: what the caller was told

vars == <<accepted, executions, answer>>

Init ==
  /\ accepted = {}
  /\ executions = [j \in Jobs |-> 0]
  /\ answer = [j \in Jobs |-> "pending"]

Accept(j) ==
  /\ j \notin accepted
  /\ answer[j] = "pending"
  /\ accepted' = accepted \cup {j}
  /\ UNCHANGED <<executions, answer>>

(* The request is in place but the caller is told of a failure.            *)
AcceptUnheard(j) ==
  /\ j \notin accepted
  /\ answer[j] = "pending"
  /\ accepted' = accepted \cup {j}
  /\ answer' = [answer EXCEPT ![j] = "error"]
  /\ UNCHANGED executions

Execute(j) ==
  /\ j \in accepted
  /\ executions[j] = 0
  /\ executions' = [executions EXCEPT ![j] = 1]
  /\ UNCHANGED <<accepted, answer>>

Answer(j) ==
  /\ answer[j] = "pending"
  /\ executions[j] = 1
  /\ answer' = [answer EXCEPT ![j] = "result"]
  /\ UNCHANGED <<accepted, executions>>

GiveUp(j) ==
  /\ answer[j] = "pending"
  /\ answer' = [answer EXCEPT ![j] = "error"]
  /\ UNCHANGED <<accepted, executions>>

Next ==
  \E j \in Jobs :
    Accept(j) \/ AcceptUnheard(j) \/ Execute(j) \/ Answer(j) \/ GiveUp(j)

Spec == Init /\ [][Next]_vars
=============================================================================
