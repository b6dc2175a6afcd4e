---------------------------- MODULE Orchestrator ----------------------------
(***************************************************************************)
(* The run of a plan over an inventory: orchestrator.Run                   *)
(* (src/internal/orchestrator/orchestrator.go), the fan-out of one block   *)
(* over its hosts (src/internal/fleet/fleet.go) and the verdict of the     *)
(* report (src/internal/report/report.go).                                 *)
(*                                                                         *)
(* A plan is a sequence of blocks, each with a target (a host or a group)  *)
(* and whether it has a shell without an interpreter of its own.  What a   *)
(* host does with a block is a choice among all the outcomes the fleet can *)
(* return: no request (a variable that does not resolve), no answer (the   *)
(* transport), or a response, of which only what the verdicts look at is   *)
(* kept: which kinds of failed steps it lists, whether the agent halted,   *)
(* and whether Response.Error is set.                                      *)
(***************************************************************************)
EXTENDS Integers, Sequences, FiniteSets, JobResponse

CONSTANTS
  Hosts,        \* the aliases the inventory declares
  Groups,       \* the groups it declares
  MembersOf,    \* MembersOf[g]: the aliases of group g
  Ghost,        \* a name the inventory does not declare
  Interps,      \* interpreters
  Blocks,       \* bound: the blocks a plan may contain
  MaxBlocks,    \* bound: the length of a plan
  Limits,       \* bound: the values of --limit, sets of names
  Widths,       \* bound: the values of --parallel, 0 when it is not given
  DefaultConcurrent  \* defaultConcurrent

Names == Hosts \cup Groups \cup {Ghost}

ASSUME InventoryAssumption ==
  /\ MembersOf \in [Groups -> SUBSET Hosts]
  /\ Hosts \cap Groups = {}
  /\ Ghost \notin Hosts \cup Groups
ASSUME PlanAssumption ==
  /\ Blocks \subseteq [target : Names, bare : BOOLEAN]
  /\ MaxBlocks \in Nat \ {0}
  /\ Limits \subseteq SUBSET Names
ASSUME WidthAssumption ==
  /\ Widths \subseteq Nat
  /\ DefaultConcurrent \in Nat \ {0}

VARIABLES
  plan,      \* the blocks, in order
  limit,     \* the names of --limit, {} when it is not given
  interp,    \* interp[h]: what Resolve(h) gives as its interpreter
  parallel,  \* --parallel
  phase,     \* where Run stands: between blocks, in fleet.Run, or done
  block,     \* the block being run
  live,      \* the hosts fleet.Run was given
  work,      \* work[h]: where the goroutine of h stands
  outcome,   \* outcome[h]: its HostResult for this block
  dead,      \* the hosts dropped from later blocks
  anyErr,    \* the report's verdict on the blocks reported so far
  contacted, \* history: <<b, h>> when h was dialed for block b
  completed, \* history: <<b, h>> when h ran block b to its end, no step failing
  silent     \* history: the hosts whose failure the report does not count

inputs == <<plan, limit, interp, parallel>>
fleet  == <<live, work, outcome>>
history == <<contacted, completed, silent>>
vars == <<inputs, phase, block, fleet, dead, anyErr, history>>

(* HostResult: an error, or else a response.                               *)
Results ==
  {[err |-> TRUE, resp |-> Clean]} \cup [err : {FALSE}, resp : Responses]
Pending == [err |-> TRUE, resp |-> [Clean EXCEPT !.halted = TRUE]]

(* failed(): any error, caught or not.                                     *)
Failed(res) == res.err \/ res.resp.error \/ res.resp.errs # {}

(* The verdict of report.Text and report.JSON on one host.                 *)
CountsAsError(res) == res.err \/ "plain" \in res.resp.errs

Done(res) == ~res.err /\ ~res.resp.error /\ ~res.resp.halted

Init ==
  /\ plan \in UNION {[1 .. n -> Blocks] : n \in 1 .. MaxBlocks}
  /\ limit \in Limits
  /\ interp \in [Hosts -> Interps]
  /\ parallel \in Widths
  /\ phase = "start"
  /\ block = 1
  /\ live = {}
  /\ work = [h \in Hosts |-> "none"]
  /\ outcome = [h \in Hosts |-> Pending]
  /\ dead = {}
  /\ anyErr = FALSE
  /\ contacted = {}
  /\ completed = {}
  /\ silent = {}

(* inventory.Members                                                       *)
Members(name) ==
  IF name \in Groups THEN MembersOf[name]
  ELSE IF name \in Hosts THEN {name} ELSE {}

Allowed ==
  IF limit = {} THEN Hosts ELSE UNION {Members(n) : n \in limit}

Target == Members(plan[block].target)
Selected == (Target \cap Allowed) \ dead

Width == IF parallel = 0 THEN DefaultConcurrent ELSE parallel

(* Slip: a slot is not given back.                                         *)
Slip_InFlightKept == {h \in Hosts : work[h] \in {"building", "dialed", "finished"}}

InFlight == {h \in Hosts : work[h] \in {"building", "dialed"}}

-----------------------------------------------------------------------------
(* Before anything runs.                                                   *)

(* Slip: only the first target is looked up.                               *)
Slip_FirstTargetOnly == plan[1].target = Ghost

UnknownTarget == \E b \in DOMAIN plan : plan[b].target = Ghost
UnknownLimit == Ghost \in limit

Refuse ==
  /\ phase = "start"
  /\ UnknownTarget \/ UnknownLimit
  /\ phase' = "done"
  /\ anyErr' = TRUE
  /\ UNCHANGED <<inputs, block, fleet, dead, history>>

Begin ==
  /\ phase = "start"
  /\ ~(UnknownTarget \/ UnknownLimit)
  /\ phase' = "blocks"
  /\ UNCHANGED <<inputs, block, fleet, dead, anyErr, history>>

-----------------------------------------------------------------------------
(* One block.                                                              *)

Advance ==
  IF block < Len(plan)
    THEN block' = block + 1 /\ phase' = "blocks"
    ELSE phase' = "done" /\ UNCHANGED block

LimitSelectsNone == limit # {} /\ Target # {} /\ Target \cap Allowed = {}

(* interpAgreement over the live hosts.                                    *)
Diverge ==
  /\ plan[block].bare
  /\ \E g, h \in Selected : interp[g] # interp[h]

EmptyLimit ==
  /\ phase = "blocks"
  /\ LimitSelectsNone
  /\ anyErr' = TRUE
  /\ Advance
  /\ UNCHANGED <<inputs, fleet, dead, history>>

(* Slip: the block is skipped and not reported.                            *)
Slip_DivergeSilently ==
  /\ phase = "blocks"
  /\ ~LimitSelectsNone
  /\ Diverge
  /\ dead' = dead \cup Selected
  /\ Advance
  /\ UNCHANGED <<inputs, fleet, anyErr, history>>

InterpretersDiverge ==
  /\ phase = "blocks"
  /\ ~LimitSelectsNone
  /\ Diverge
  /\ dead' = dead \cup Selected
  /\ anyErr' = TRUE
  /\ Advance
  /\ UNCHANGED <<inputs, fleet, history>>

Start(hosts) ==
  /\ phase' = "fleet"
  /\ live' = hosts
  /\ work' = [h \in Hosts |-> IF h \in hosts THEN "queued" ELSE "none"]
  /\ outcome' = [h \in Hosts |-> Pending]
  /\ UNCHANGED <<inputs, block, dead, anyErr, history>>

(* Slip: dead hosts are dialed again.                                      *)
Slip_StartDead ==
  /\ phase = "blocks"
  /\ ~LimitSelectsNone
  /\ ~Diverge
  /\ Start(Target \cap Allowed)

StartFleet ==
  /\ phase = "blocks"
  /\ ~LimitSelectsNone
  /\ ~Diverge
  /\ Start(Selected)

-----------------------------------------------------------------------------
(* fleet.Run: one goroutine per host, a semaphore of Width.                *)

Moves(h, from, to) ==
  /\ work[h] = from
  /\ work' = [work EXCEPT ![h] = to]

Acquire(h) ==
  /\ Cardinality(InFlight) < Width
  /\ Moves(h, "queued", "building")
  /\ UNCHANGED <<inputs, phase, block, live, outcome, dead, anyErr, history>>

(* reqFor fails: a value is missing, or one the def refuses.               *)
NoRequest(h) ==
  /\ Moves(h, "building", "finished")
  /\ outcome' = [outcome EXCEPT ![h] = [err |-> TRUE, resp |-> Clean]]
  /\ UNCHANGED <<inputs, phase, block, live, dead, anyErr, history>>

Dial(h) ==
  /\ Moves(h, "building", "dialed")
  /\ contacted' = contacted \cup {<<block, h>>}
  /\ UNCHANGED <<inputs, phase, block, live, outcome, dead, anyErr, completed,
                 silent>>

(* The transport returned.  Nothing says that it does: a local agent has   *)
(* no deadline, and SSH.Run looks at its own between polls only.           *)
Return(h, res) ==
  /\ Moves(h, "dialed", "finished")
  /\ outcome' = [outcome EXCEPT ![h] = res]
  /\ completed' =
       IF Done(res) THEN completed \cup {<<block, h>>} ELSE completed
  /\ UNCHANGED <<inputs, phase, block, live, dead, anyErr, contacted, silent>>

Record ==
  /\ phase = "fleet"
  /\ dead' = dead \cup {h \in live : Failed(outcome[h])}
  /\ anyErr' = (anyErr \/ \E h \in live : CountsAsError(outcome[h]))
  /\ silent' = silent \cup {h \in live : /\ Failed(outcome[h])
                                         /\ ~CountsAsError(outcome[h])}
  /\ Advance
  /\ UNCHANGED <<inputs, fleet, contacted, completed>>

Collect == (\A h \in live : work[h] = "finished") /\ Record

-----------------------------------------------------------------------------
OwnStep(h) == Acquire(h) \/ NoRequest(h) \/ Dial(h)

FleetStep(h) == OwnStep(h) \/ \E res \in Results : Return(h, res)

RunStep ==
  \/ Refuse \/ Begin \/ EmptyLimit \/ InterpretersDiverge \/ StartFleet
  \/ Collect

Exited == phase = "done" /\ UNCHANGED vars

Next == RunStep \/ (\E h \in Hosts : FleetStep(h)) \/ Exited

Spec == Init /\ [][Next]_vars

(* Run and what fleet.Run starts are goroutines.  That a host answers is   *)
(* not theirs to do, and nobody's promise.                                 *)
FairSpec ==
  Spec /\ WF_vars(RunStep) /\ \A h \in Hosts : WF_vars(OwnStep(h))

-----------------------------------------------------------------------------
WorkStates == {"none", "queued", "building", "dialed", "finished"}

TypeOK ==
  /\ plan \in Seq(Blocks) /\ Len(plan) \in 1 .. MaxBlocks
  /\ limit \in Limits
  /\ interp \in [Hosts -> Interps]
  /\ parallel \in Widths
  /\ phase \in {"start", "blocks", "fleet", "done"}
  /\ block \in DOMAIN plan
  /\ live \subseteq Hosts
  /\ work \in [Hosts -> WorkStates]
  /\ outcome \in [Hosts -> Results \cup {Pending}]
  /\ dead \subseteq Hosts
  /\ anyErr \in BOOLEAN
  /\ contacted \subseteq (DOMAIN plan) \X Hosts
  /\ completed \subseteq contacted
  /\ silent \subseteq dead
  /\ Cardinality(InFlight) <= Width

(* What the operator asked for: block b on host h.                         *)
Asked(b, h) == h \in Members(plan[b].target) \cap Allowed

(* "a host that fails ... is dropped from subsequent blocks", and --limit  *)
(* is an intersection, "never extend" (orchestrator.go:83-84,112): a block *)
(* reaches only hosts it was asked for on, and only those that ran every   *)
(* earlier block asked of them to its end.  Those that are sent a shell    *)
(* without an interpreter agree on one ("one `on` = one interpreter",      *)
(* ADR-0012).                                                              *)
DialsOnlySoundHosts ==
  \A b \in DOMAIN plan, h \in Hosts : <<b, h>> \in contacted =>
    /\ Asked(b, h)
    /\ \A c \in 1 .. b - 1 : Asked(c, h) => <<c, h>> \in completed
    /\ plan[b].bare =>
         \A g \in Hosts : <<b, g>> \in contacted => interp[g] = interp[h]

(* "the whole plan is refused" (orchestrator.go:92): a name the inventory  *)
(* does not declare, in any block or in --limit, and no host is ever       *)
(* contacted, while the run never reports success.                         *)
TypoReachesNobody ==
  Ghost \in {plan[b].target : b \in DOMAIN plan} \cup limit =>
    contacted = {} /\ (phase = "done" => anyErr)

(* Unless a failure went uncounted (silent), a run that reports success    *)
(* ran every block it was asked for on every host it was asked for on.     *)
SuccessIsComplete ==
  phase = "done" /\ ~anyErr /\ silent = {} =>
    \A b \in DOMAIN plan, h \in Hosts : Asked(b, h) => <<b, h>> \in completed

(* A run ends, or comes to stand in a block where it can do nothing but    *)
(* wait for hosts that were dialed and never answer (fleet.go:61, 72): all *)
(* the other hosts of the block are through, unless those that hang hold   *)
(* every slot.  A host that hangs costs its own slot and no other.         *)
Dialed == {h \in Hosts : work[h] = "dialed"}
OnlyAnswersAreAwaited ==
  /\ phase = "fleet" /\ Dialed # {}
  /\ \A h \in live \ Dialed :
       \/ work[h] = "finished"
       \/ work[h] = "queued" /\ Cardinality(Dialed) = Width
HeldByHostsAlone == <>(phase = "done") \/ <>[]OnlyAnswersAreAwaited

-----------------------------------------------------------------------------
(* "an error the plan handled is not a failed run" (proto.go:311): a host  *)
(* that ran a block to its end is sent the next one asked of it.           *)
HandledErrorKeepsHost ==
  [][Collect => \A h \in dead' \ dead : <<block, h>> \notin completed]_vars

(* The report says "whether any host errored" (report.go:218): a host that *)
(* did not run its block to the end, because it answered with              *)
(* Response.Error alone or because a caught error nothing handled halted   *)
(* it, makes the run fail.                                                 *)
UnfinishedJobFailsRun ==
  [][Collect => \A h \in live : ~Done(outcome[h]) => anyErr']_vars
=============================================================================
