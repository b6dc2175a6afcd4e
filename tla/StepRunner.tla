----------------------------- MODULE StepRunner -----------------------------
(***************************************************************************)
(* The steps of one job on the target: runRequest, runSteps, runIf and     *)
(* runStep (src/internal/agent/agent.go).                                  *)
(*                                                                         *)
(* A plan is a tree.  An inner node is an `if`, an `as` block or a         *)
(* parallel block; a leaf is an instruction.  A node runs at most once, so *)
(* that its state is that of the one call of runStep for it: idle, open    *)
(* while a sequence of its own is run, done.  What an instruction answers  *)
(* is a choice among what its mode allows.                                 *)
(***************************************************************************)
EXTENDS Naturals, Sequences, FiniteSets, JobResponse

CONSTANTS
  Nodes, Root,   \* the steps, and the `on` block
  Names, NoName, \* names of captures
  Tags, AnyTag,  \* tags of outcomes
  Nobody,        \* no step
  Modes,         \* bound: apply, check, status
  Plans          \* bound: the plans

(* ResultRef: an outcome pattern or `.changed`.                            *)
Tests ==
  [changed : BOOLEAN, cat : {"ok", "err", "would"}, tag : Tags \cup {AnyTag}]

(* proto.Step and IfBlock.  An `if` without a ref has an inline condition, *)
(* whose `?` is its caught.  Blocks have their steps in then.              *)
Steps ==
  [kind : {"call", "if", "as", "parallel"}, bind : Names \cup {NoName},
   caught : BOOLEAN, ref : Names \cup {NoName}, test : Tests,
   negate : BOOLEAN, then : Seq(Nodes), else : Seq(Nodes)]

ASSUME NameAssumption ==
  NoName \notin Names /\ AnyTag \notin Tags /\ Nobody \notin Nodes
(* Every step is at one place, and none is inside itself.                  *)
Range(s) == {s[i] : i \in DOMAIN s}
Below(p, n) == Range(p[n].then) \cup Range(p[n].else)
IsTree(p) ==
  /\ \A n \in Nodes :
       /\ Root \notin Below(p, n)
       /\ \A m \in Nodes \ {n} : Below(p, m) \cap Below(p, n) = {}
       /\ \A i, j \in DOMAIN p[n].then : p[n].then[i] = p[n].then[j] => i = j
       /\ \A i, j \in DOMAIN p[n].else : p[n].else[i] = p[n].else[j] => i = j
  /\ \A s \in SUBSET Nodes \ {{}} : \E n \in s : \A m \in s : n \notin Below(p, m)

ASSUME PlanAssumption ==
  /\ Root \in Nodes
  /\ Modes \subseteq {"apply", "check", "status"}
  /\ \A p \in Plans :
       /\ p \in [Nodes -> Steps]
       /\ p[Root].kind = "as"
       /\ IsTree(p)

VARIABLES
  plan,     \* the steps of the request
  mode,     \* its mode
  phase,    \* of runRequest
  st,       \* st[n]: the call of runStep for n
  result,   \* result[n]: what it returned
  taken,    \* taken[n]: the sequence it runs
  stopped,  \* stopped[n]: that sequence was halted
  scope,    \* scope[o][x]: the step whose result branch o has captured as x
  decider,  \* history: the step whose result decided the `if` n
  response  \* what runRequest returned

vars == <<plan, mode, phase, st, result, taken, stopped, scope, decider,
          response>>

Ok == [cat |-> "ok", tag |-> AnyTag, changed |-> FALSE]
Err(tag) == [cat |-> "err", tag |-> tag, changed |-> FALSE]

(* What an instruction may answer; only what acted has changed anything.   *)
Outcomes ==
  {Err(t) : t \in Tags}
  \cup {[Ok EXCEPT !.changed = c] : c \in IF mode = "apply" THEN BOOLEAN ELSE {FALSE}}
  \cup {[Ok EXCEPT !.cat = "would", !.changed = c] :
          c \in IF mode = "apply" THEN {} ELSE BOOLEAN}

Body(p) == IF taken[p] = "else" THEN plan[p].else ELSE plan[p].then
Parent(n) == CHOOSE p \in Nodes : n \in Below(plan, p)
Index(n) == CHOOSE i \in DOMAIN Body(Parent(n)) : Body(Parent(n))[i] = n

(* The steps around n, itself included.                                    *)
Path(n) ==
  LET up[m \in Nodes] ==
        IF \E p \in Nodes : m \in Below(plan, p) THEN {m} \cup up[Parent(m)] ELSE {m}
  IN  up[n]

IsBranch(n) == n # Root /\ plan[Parent(n)].kind = "parallel"
Slip_OwnerOfAll(n) == Root  \* Slip: the branches share one scope.

(* The innermost branch around n, or the block: it has the scope n sees.   *)
Owner(n) ==
  LET owners == {b \in Path(n) : b = Root \/ IsBranch(b)}
  IN  CHOOSE b \in owners : owners \subseteq Path(b)

Init ==
  /\ plan \in Plans
  /\ mode \in Modes
  /\ phase = "start"
  /\ st = [n \in Nodes |-> "idle"]
  /\ result = [n \in Nodes |-> Ok]
  /\ taken = [n \in Nodes |-> "none"]
  /\ stopped = [n \in Nodes |-> FALSE]
  /\ scope = [o \in Nodes |-> [x \in Names |-> Nobody]]
  /\ decider = [n \in Nodes |-> Nobody]
  /\ response = Clean

Enter(to) == phase = "start" /\ phase' = to

(* The request does not decode.                                            *)
Undecoded ==
  /\ Enter("over")
  /\ response' = [Clean EXCEPT !.error = TRUE]
  /\ UNCHANGED <<plan, mode, st, result, taken, stopped, scope, decider>>

(* A def that does not parse, an interpreter that is missing.              *)
Preflight ==
  /\ Enter("over")
  /\ response' = [error |-> FALSE, errs |-> {"plain"}, halted |-> TRUE]
  /\ UNCHANGED <<plan, mode, st, result, taken, stopped, scope, decider>>

Start ==
  /\ Enter("running")
  /\ st' = [st EXCEPT ![Root] = "open"]
  /\ taken' = [taken EXCEPT ![Root] = "then"]
  /\ UNCHANGED <<plan, mode, result, stopped, scope, decider, response>>

-----------------------------------------------------------------------------
(* runSteps.                                                               *)

Due(n) ==
  /\ st[n] = "idle"
  /\ \E p \in Nodes :
       /\ st[p] = "open"
       /\ \E i \in DOMAIN Body(p) :
            /\ Body(p)[i] = n
            /\ \/ plan[p].kind = "parallel"
               \/ ~stopped[p] /\ \A j \in 1 .. i - 1 : st[Body(p)[j]] = "done"

(* refTruth, and the negation.                                             *)
Passes(o, test) ==
  IF test.changed THEN o.changed
  ELSE o.cat = test.cat /\ test.tag \in {AnyTag, o.tag}
Truth(o, step) == Passes(o, step.test) # step.negate

(* A name that was never captured reads as a zero Result, which is an ok.  *)
Lookup(sc, res, n, x) ==
  LET w == sc[Owner(n)][x] IN IF w = Nobody THEN Ok ELSE res[w]

(* Slip: an `if` on the name is enough, whether or not a branch of it runs. *)
Slip_HandlesAnyTest(next, name, sc, res) ==
  plan[next].kind = "if" /\ plan[next].ref = name

(* handlesCaught                                                           *)
HandlesCaught(next, name, sc, res) ==
  /\ plan[next].kind = "if"
  /\ plan[next].ref = name
  /\ \/ plan[next].else # <<>>
     \/ Truth(Lookup(sc, res, next, name), plan[next])

Deferred(n) == plan[n].kind = "call" /\ plan[n].caught /\ plan[n].bind # NoName
HasNext(n) == ~IsBranch(n) /\ Index(n) < Len(Body(Parent(n)))
NextOf(n) == Body(Parent(n))[Index(n) + 1]

(* Slip: an `if` is never taken to have failed.                            *)
Slip_HaltsOnCalls(n, sc, res) ==
  /\ ~IsBranch(n) /\ plan[n].kind # "if"
  /\ res[n].cat = "err"
  /\ ~ /\ Deferred(n) /\ HasNext(n)
       /\ HandlesCaught(NextOf(n), plan[n].bind, sc, res)

(* An error halts the sequence it is in, unless it is deferred and the     *)
(* next step handles it.                                                   *)
Halts(n, sc, res) ==
  /\ ~IsBranch(n)
  /\ res[n].cat = "err"
  /\ ~ /\ Deferred(n) /\ HasNext(n)
       /\ HandlesCaught(NextOf(n), plan[n].bind, sc, res)

Returns(n, r, sc) ==
  /\ st' = [st EXCEPT ![n] = "done"]
  /\ result' = [result EXCEPT ![n] = r]
  /\ scope' = sc
  /\ stopped' = [stopped EXCEPT ![Parent(n)] =
                   @ \/ Halts(n, sc, [result EXCEPT ![n] = r])]
  /\ UNCHANGED <<plan, mode, phase, response>>

Opens(n, branch) ==
  /\ st' = [st EXCEPT ![n] = "open"]
  /\ taken' = [taken EXCEPT ![n] = branch]
  /\ UNCHANGED <<plan, mode, phase, result, stopped, response>>

-----------------------------------------------------------------------------
(* runStep.  A block without steps is taken for an instruction.            *)
IsGroup(n) == plan[n].kind \in {"as", "parallel"} /\ plan[n].then # <<>>

Capture(n) ==
  IF plan[n].bind = NoName THEN scope
  ELSE [scope EXCEPT ![Owner(n)][plan[n].bind] = n]

Call(n) ==
  /\ Due(n) /\ plan[n].kind = "call"
  /\ \E r \in Outcomes : Returns(n, r, Capture(n))
  /\ UNCHANGED <<taken, decider>>

(* The evaluation fails (agentErr), which captures nothing; no instruction *)
(* has the empty name.                                                     *)
CallBreaks(n) ==
  /\ Due(n)
  /\ plan[n].kind # "if" /\ ~IsGroup(n)
  /\ Returns(n, Err(AnyTag), scope)
  /\ UNCHANGED <<taken, decider>>

As(n) ==
  /\ Due(n) /\ IsGroup(n) /\ plan[n].kind = "as"
  /\ Opens(n, "then")
  /\ UNCHANGED <<scope, decider>>

(* Each branch gets a copy of the scope.                                   *)
Fork(n) ==
  /\ Due(n) /\ IsGroup(n) /\ plan[n].kind = "parallel"
  /\ Opens(n, "then")
  /\ scope' = [o \in Nodes |->
       IF o \in Range(plan[n].then) THEN scope[Owner(n)] ELSE scope[o]]
  /\ UNCHANGED decider

(* runIf, once it has the result o of step w to decide on.                 *)
Uncovered(n, o) ==
  /\ plan[n].ref = NoName /\ plan[n].caught
  /\ o.cat = "err" /\ ~Truth(o, plan[n]) /\ plan[n].else = <<>>

Decide(n, w, o) ==
  /\ decider' = [decider EXCEPT ![n] = w]
  /\ IF mode = "check" /\ o.cat = "would"
       THEN Opens(n, "preview") /\ UNCHANGED scope
     ELSE IF Uncovered(n, o)
       THEN Returns(n, o, scope) /\ UNCHANGED taken
     ELSE /\ Opens(n, IF Truth(o, plan[n]) THEN "then" ELSE "else")
          /\ UNCHANGED scope

IfCall(n) ==
  /\ Due(n) /\ plan[n].kind = "if" /\ plan[n].ref = NoName
  /\ \E o \in Outcomes : Decide(n, n, o)

IfRef(n) ==
  /\ Due(n) /\ plan[n].kind = "if" /\ plan[n].ref # NoName
  /\ LET w == scope[Owner(n)][plan[n].ref]
     IN  w # Nobody /\ Decide(n, w, result[w])

(* The condition cannot be evaluated, or names no result.                  *)
IfBreaks(n) ==
  /\ Due(n) /\ plan[n].kind = "if"
  /\ plan[n].ref # NoName => scope[Owner(n)][plan[n].ref] = Nobody
  /\ Returns(n, Err(AnyTag), scope)
  /\ UNCHANGED <<taken, decider>>

(* Slips: what a halt left undone is waited for; the first branch to end    *)
(* ends the block.                                                         *)
Slip_RunsOutWaits(p) ==
  st[p] = "open" /\ \A n \in Range(Body(p)) : st[n] = "done"
Slip_RunsOutFirst(p) ==
  /\ st[p] = "open"
  /\ \/ stopped[p]
     \/ plan[p].kind = "parallel" /\ \E n \in Range(Body(p)) : st[n] = "done"
     \/ \A n \in Range(Body(p)) : st[n] = "done"

RunsOut(p) ==
  /\ st[p] = "open"
  /\ stopped[p] \/ \A n \in Range(Body(p)) : st[n] = "done"

(* Slip: a branch of a parallel block may fail.                            *)
Slip_CategoryOfSequence(p) ==
  IF taken[p] = "preview" THEN "undetermined"
  ELSE IF stopped[p] THEN "err" ELSE "ok"

(* The category of a block: an error if its sequence was halted or one of  *)
(* its branches erred.  That of a preview is not known.                    *)
Category(p) ==
  IF taken[p] = "preview" THEN "undetermined"
  ELSE IF \/ stopped[p]
          \/ plan[p].kind = "parallel" /\ \E n \in Range(Body(p)) : result[n].cat = "err"
         THEN "err" ELSE "ok"

Close(n) ==
  /\ n # Root
  /\ RunsOut(n)
  /\ Returns(n, [Ok EXCEPT !.cat = Category(n)], scope)
  /\ UNCHANGED <<taken, decider>>

(* Only the results of the block itself, not those inside them, are what   *)
(* the verdicts on a response look at.                                     *)
Listed == {n \in Range(plan[Root].then) : st[n] = "done"}
CaughtStep(n) == plan[n].kind = "call" /\ plan[n].caught

Finish ==
  /\ phase = "running"
  /\ RunsOut(Root)
  /\ phase' = "over"
  /\ response' =
       [error  |-> FALSE,
        errs   |-> {IF CaughtStep(n) THEN "caught" ELSE "plain" :
                      n \in {m \in Listed : result[m].cat = "err"}},
        halted |-> stopped[Root]]
  /\ UNCHANGED <<plan, mode, st, result, taken, stopped, scope, decider>>

Over == phase = "over" /\ UNCHANGED vars

StepOf(n) ==
  Call(n) \/ CallBreaks(n) \/ As(n) \/ Fork(n) \/ IfCall(n) \/ IfRef(n)
  \/ IfBreaks(n) \/ Close(n)

Next ==
  Undecoded \/ Preflight \/ Start \/ Finish \/ Over \/ \E n \in Nodes : StepOf(n)

Spec == Init /\ [][Next]_vars
FairSpec == Spec /\ WF_vars(Next)

-----------------------------------------------------------------------------
Results == [cat : {"ok", "err", "would", "undetermined"},
            tag : Tags \cup {AnyTag}, changed : BOOLEAN]

(* The last conjunct: a call of runStep is inside the one that made it.    *)
TypeOK ==
  /\ phase \in {"start", "running", "over"}
  /\ st \in [Nodes -> {"idle", "open", "done"}]
  /\ result \in [Nodes -> Results]
  /\ taken \in [Nodes -> {"none", "then", "else", "preview"}]
  /\ stopped \in [Nodes -> BOOLEAN]
  /\ scope \in [Nodes -> [Names -> Nodes \cup {Nobody}]]
  /\ decider \in [Nodes -> Nodes \cup {Nobody}]
  /\ \A n \in Nodes \ {Root} : st[n] = "open" => st[Parent(n)] = "open"

(* Orchestrator draws its responses from what an agent can answer, and a   *)
(* response that does not say halted is that of a block run to its end     *)
(* (orchestrator.go:390, report.go:249-259).                               *)
ResponseFits ==
  phase = "over" =>
    /\ response \in Responses
    /\ ~response.error /\ ~response.halted =>
         \A n \in Range(plan[Root].then) :
           st[n] = "done" /\ (result[n].cat = "err" => CaughtStep(n))

Erred(n) == st[n] = "done" /\ result[n].cat = "err"
Previews(n) == {p \in Path(n) \ {n} : taken[p] = "preview"}

(* The `if` after n took a branch that is there.                           *)
Covered(n) ==
  /\ Deferred(n) /\ HasNext(n)
  /\ plan[NextOf(n)].ref = plan[n].bind
  /\ \/ taken[NextOf(n)] \in {"then", "preview"}
     \/ taken[NextOf(n)] = "else" /\ plan[NextOf(n)].else # <<>>

(* "By default a step that returns err halts the plan" (language.md:322):  *)
(* from however deep in blocks and branches, unless the `if` that follows  *)
(* took a branch for it, or the step was only previewed.                   *)
ErrorsHaltOrAreCovered ==
  phase = "over" =>
    \A n \in Nodes \ {Root} :
      Erred(n) /\ ~Covered(n) /\ Previews(n) = {} =>
        response.halted /\ \A p \in Path(n) \ {Root} : Erred(p)

Separate(m, n) ==
  \E b \in Path(m), c \in Path(n) :
    b # c /\ IsBranch(b) /\ IsBranch(c) /\ Parent(b) = Parent(c)

(* "nothing is built on a broken base" (language.md:322): a step begins    *)
(* after an error only in another branch, outside the preview the error is *)
(* in, as the `if` that handles it, or when that has taken a branch.       *)
NothingOnBrokenBase ==
  [][\A m, n \in Nodes \ {Root} :
       st[n] = "idle" /\ st'[n] # "idle" /\ Erred(m) =>
         \/ Separate(m, n)
         \/ ~(Previews(m) \subseteq Previews(n))
         \/ Deferred(m) /\ HasNext(m) /\ n = NextOf(m)
         \/ Covered(m)]_vars

(* "captures inside parallel don't escape", and are not seen by a branch   *)
(* beside (agent.go:290): what decides an `if` was captured around it.     *)
BranchesAreIsolated ==
  \A n \in Nodes :
    decider[n] # Nobody =>
      {b \in Path(decider[n]) : IsBranch(b)} \subseteq Path(n)

(* A job whose instructions return ends: a halt in one branch holds up     *)
(* neither the others nor the block (agent.go:286-296).                    *)
Ends == <>(phase = "over")

-----------------------------------------------------------------------------
(* "no error passes silently - it is either explicitly handled or it       *)
(* halts" (ADR-0009, section 4): the branch that runs is the one for this  *)
(* error.                                                                  *)
NoErrorPassesSilently ==
  \A n \in Nodes \ {Root} :
    Erred(n) /\ Covered(n) =>
      (taken[NextOf(n)] = "then") = Truth(result[n], plan[NextOf(n)])

(* "what we cannot know ... is marked, not invented" (ADR-0004): a check   *)
(* decides no `if` by what was captured in a branch it only previews.      *)
PreviewNeverGuesses ==
  \A n \in Nodes :
    taken[n] \in {"then", "else"} /\ decider[n] # Nobody =>
      Previews(decider[n]) \subseteq Previews(n)
=============================================================================
