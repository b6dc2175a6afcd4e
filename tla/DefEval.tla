------------------------------ MODULE DefEval ------------------------------
(***************************************************************************)
(* The evaluation of defs on one host: EvalDefFull and what it calls       *)
(* (src/internal/lang/eval.go), which applies are evaluated in a dry run   *)
(* (lang/inert.go), the file.write primitive (engine/instruction.go,       *)
(* engine/fileput.go).                                                     *)
(*                                                                         *)
(* A def is a sequence of phases, a phase a sequence of statements, each   *)
(* under a condition on what was evaluated last.  The arguments of a call  *)
(* are part of the def that is called, so that a def stands here for a def *)
(* and its arguments.  A frame is one call of EvalDefFull.  Calls are made *)
(* one after another, in any mode, and nobody else touches the host.       *)
(***************************************************************************)
EXTENDS Naturals, Sequences, FiniteSets

CONSTANTS
  Paths, Values, Falsy,  \* what a shell can look at, and the values that do not hold
  AnyValue, Holds,       \* a parameter that is empty, and one that is not declared
  Tags, NoTag,           \* tags of outcomes
  Names, NoName,         \* names of defs
  Defs,                  \* the defs
  Modes,                 \* bound: apply, check, status
  MaxCalls               \* bound: calls made

(* A statement.  A "test" is a shell that reads, a "set" one that acts;    *)
(* "write" and "sync" are the primitives that act; "stop" is whatever      *)
(* cannot be evaluated.                                                    *)
Statements ==
  [op : {"test", "set", "write", "sync"}, if : {"always", "ok", "err", "0"},
   path : Paths, value : Values]
  \cup [op : {"call"}, if : {"always", "ok", "err", "0"}, def : Names]
  \cup [op : {"stop"}, if : {"always", "ok", "err", "0"}]
  \cup [op : {"return"}, if : {"always", "ok", "err", "0"},
        cat : {"ok", "err", "would"}, tag : Tags \cup {NoTag}]

(* An observe is the record it returns, by field.                          *)
Phases ==
  [name : {"check", "preview", "apply"}, body : Seq(Statements)]
  \cup [name : {"observe"}, fields : [Paths -> Values \cup {AnyValue, Holds}]]

ASSUME NameAssumption ==
  /\ NoTag \notin Tags /\ NoName \notin Names
  /\ AnyValue \notin Values /\ Holds \notin Values /\ AnyValue # Holds
  /\ "already" \in Tags /\ "unconfirmed" \in Tags /\ "action" \in Tags
ASSUME DefAssumption ==
  /\ Falsy \subseteq Values
  /\ Modes \subseteq {"apply", "check", "status"}
  /\ MaxCalls \in Nat
  /\ Defs \in [Names -> [phases : Seq(Phases), delegate : Names \cup {NoName}]]
  /\ \A n \in Names : Defs[n].delegate # NoName =>
       \A i \in DOMAIN Defs[n].phases : Defs[n].phases[i].name = "check"
  /\ \A n \in Names : \A i \in DOMAIN Defs[n].phases :
       LET ph == Defs[n].phases[i] IN
       ph.name = "apply" =>
         /\ ph.body # <<>>
         /\ ph.body[Len(ph.body)].op = "return"
         /\ ph.body[Len(ph.body)].if = "always"

VARIABLES
  host,   \* host[p]: what is at p
  mode,   \* of the call that is made
  stack,  \* the frames, the innermost first
  ret,    \* what the frame that ended last returned
  log     \* history: the calls made, with the host before and after

vars == <<host, mode, stack, ret, log>>

(* An outcome; "fail" is an evaluation failure.                            *)
Outcome(cat, tag) == [cat |-> cat, tag |-> tag, changed |-> FALSE]
NoOutcome == Outcome("none", NoTag)
Failure == Outcome("fail", NoTag)
Already == Outcome("ok", "already")

Outcomes ==
  [cat : {"ok", "err", "would", "fail", "none"}, tag : Tags \cup {NoTag},
   changed : BOOLEAN]

Named(n, names) ==
  LET phases == Defs[n].phases
      upTo[i \in 0 .. Len(phases)] ==
        IF i = 0 THEN <<>>
        ELSE IF phases[i].name \in names THEN Append(upTo[i - 1], phases[i])
        ELSE upTo[i - 1]
  IN  upTo[Len(phases)]
Observes(n) == Named(n, {"observe"}) # <<>>
LastOf(s) == s[Len(s)]

(* converged: a field without a parameter must hold, an empty parameter    *)
(* asks for nothing.                                                       *)
Converged(h, fields) ==
  \A p \in Paths :
    \/ fields[p] = AnyValue
    \/ fields[p] = Holds /\ h[p] \notin Falsy
    \/ fields[p] = h[p]

(* inertApply: no shell and no call; it looks at the last apply.           *)
Inert(n) ==
  /\ ~Observes(n)
  /\ Named(n, {"apply"}) # <<>>
  /\ LET body == LastOf(Named(n, {"apply"})).body IN
     \A i \in DOMAIN body : body[i].op \notin {"test", "set", "call"}

(* isQuestion.                                                             *)
Question(n) ==
  /\ Defs[n].phases # <<>>
  /\ Defs[n].delegate = NoName
  /\ \A i \in DOMAIN Defs[n].phases : Defs[n].phases[i].name = "check"

(* What is asked of who writes a def, and not enforced: check and preview  *)
(* read (ADR-0013:62, ADR-0029:34), and `would` is derived, never authored *)
(* (language.md:23).                                                       *)
PhasesOnlyLook ==
  \A n \in Names : \A i \in DOMAIN Defs[n].phases :
    LET ph == Defs[n].phases[i] IN
    ph.name \in {"check", "preview"} =>
      \A j \in DOMAIN ph.body : ph.body[j].op # "set"
ChecksOnlyAsk ==
  \A n \in Names : \A i \in DOMAIN Defs[n].phases :
    LET ph == Defs[n].phases[i] IN
    ph.name = "check" =>
      \A j \in DOMAIN ph.body :
        \/ ph.body[j].op \in {"test", "stop", "return"}
        \/ ph.body[j].op = "call" /\ Question(ph.body[j].def)
WouldIsDerived ==
  \A n \in Names : \A i \in DOMAIN Defs[n].phases :
    LET ph == Defs[n].phases[i] IN
    ph.name = "apply" =>
      \A j \in DOMAIN ph.body : ph.body[j].op = "return" => ph.body[j].cat # "would"

(* What a dry run takes of an apply it tries.  The last apply of a def is  *)
(* tried and the first one run (inert.go:29, eval.go:184), so it has one;  *)
(* and what a transfer counted, which a dry run does not know              *)
(* (eval.go:941-960), is used to return and not to act.                    *)
AppliesOnce == \A n \in Names : Len(Named(n, {"apply"})) <= 1
CountsOnlyReturn ==
  \A n \in Names : Inert(n) =>
    LET body == LastOf(Named(n, {"apply"})).body IN
    (\E i \in DOMAIN body : body[i].op = "sync") =>
      \A j \in DOMAIN body : body[j].if = "0" => body[j].op \notin {"write", "sync"}

(* nominalReturn: the tag of the first apply.                              *)
NominalTag(n) ==
  IF Named(n, {"apply"}) = <<>> THEN NoTag
  ELSE LastOf(Head(Named(n, {"apply"})).body).tag

(* The first pass: a status leaves observe for later.                      *)
FirstPass(n, m) ==
  IF m = "status" THEN Named(n, {"check"}) ELSE Named(n, {"check", "observe"})

Stages == {"decide", "try", "preview", "apply", "delegated"}
Lasts == {"none", "ok", "err", "called", "0", "1", "summary"}

Frame(n, m) ==
  [def |-> n, stage |-> "decide", phases |-> FirstPass(n, m), rest |-> <<>>,
   acted |-> FALSE, last |-> "none", verdict |-> NoOutcome]

Top == Head(stack)
SetTop(f) == stack' = <<f>> \o Tail(stack)
Statement == Head(Top.rest)

Init ==
  /\ host \in [Paths -> Values]
  /\ mode \in Modes
  /\ stack = <<>>
  /\ ret = NoOutcome
  /\ log = <<>>

(* runInstruction.                                                         *)
Begin(n, m) ==
  /\ stack = <<>>
  /\ ret = NoOutcome
  /\ Len(log) < MaxCalls
  /\ mode' = m
  /\ stack' = <<Frame(n, m)>>
  /\ log' = Append(log, [def |-> n, mode |-> m, before |-> host,
                         after |-> host, outcome |-> NoOutcome])
  /\ UNCHANGED <<host, ret>>

(* Its result reaches the plan.                                            *)
End ==
  /\ stack = <<>>
  /\ ret # NoOutcome
  /\ log' = [log EXCEPT ![Len(log)].outcome = ret, ![Len(log)].after = host]
  /\ ret' = NoOutcome
  /\ UNCHANGED <<host, mode, stack>>

Leave(r) == stack' = Tail(stack) /\ ret' = r
Continue(last, acted) ==
  /\ SetTop([Top EXCEPT !.rest = Tail(@), !.last = last, !.acted = @ \/ acted])
  /\ UNCHANGED ret

Busy == stack # <<>> /\ ret = NoOutcome

-----------------------------------------------------------------------------
(* Calls of other defs: evalCall.                                          *)

Slip_Call(n, caller) ==  \* Slip: only a def that calls itself is a cycle.
  IF n = caller.def THEN Leave(Failure)
  ELSE /\ stack' = <<Frame(n, mode), caller>> \o Tail(stack)
       /\ UNCHANGED ret

Call(n, caller) ==
  IF \E i \in DOMAIN stack : stack[i].def = n THEN Leave(Failure)
  ELSE /\ stack' = <<Frame(n, mode), caller>> \o Tail(stack)
       /\ UNCHANGED ret

Slip_Receive ==  \* Slip: that the callee changed something is lost.
  /\ stack # <<>>
  /\ ret # NoOutcome
  /\ IF ret.cat \in {"err", "fail"} \/ Top.stage = "delegated" THEN Leave(ret)
     ELSE /\ SetTop([Top EXCEPT !.last = "called"])
          /\ ret' = NoOutcome
  /\ UNCHANGED <<host, mode, log>>

Slip_ReceiveGoesOn ==  \* Slip: a delegation goes on, as a call does.
  /\ stack # <<>>
  /\ ret # NoOutcome
  /\ IF ret.cat \in {"err", "fail"} THEN Leave(ret)
     ELSE /\ SetTop([Top EXCEPT !.acted = @ \/ ret.changed, !.last = "called"])
          /\ ret' = NoOutcome
  /\ UNCHANGED <<host, mode, log>>

(* An error of the callee ends its caller, with the callee's verdict; so   *)
(* does a delegation.                                                      *)
Receive ==
  /\ stack # <<>>
  /\ ret # NoOutcome
  /\ IF ret.cat \in {"err", "fail"} \/ Top.stage = "delegated" THEN Leave(ret)
     ELSE /\ SetTop([Top EXCEPT !.acted = @ \/ ret.changed, !.last = "called"])
          /\ ret' = NoOutcome
  /\ UNCHANGED <<host, mode, log>>

-----------------------------------------------------------------------------
(* Statements: evalStmt, evalExpr.                                         *)

(* `ok` and `err` ask whether the last value was a shell that succeeded:   *)
(* after anything else, err holds.                                         *)
Passes(last, if) ==
  CASE if = "always" -> TRUE
    [] if = "ok"     -> last = "ok"
    [] if = "err"    -> last # "ok"
    [] if = "0"      -> last = "0"

Due(op) ==
  /\ Busy
  /\ Top.rest # <<>>
  /\ Statement.op = op
  /\ Passes(Top.last, Statement.if)

SkipStatement ==
  /\ Busy
  /\ Top.rest # <<>>
  /\ ~Passes(Top.last, Statement.if)
  /\ SetTop([Top EXCEPT !.rest = Tail(@)])
  /\ UNCHANGED <<host, mode, ret, log>>

(* A shell runs in every mode, and counts as acting whatever it does.      *)
Test ==
  /\ Due("test")
  /\ Continue(IF host[Statement.path] = Statement.value THEN "ok" ELSE "err", TRUE)
  /\ UNCHANGED <<host, mode, log>>

Put == host' = [host EXCEPT ![Statement.path] = Statement.value]

(* Its exit status need not tell what became of the host.                  *)
Set ==
  /\ Due("set")
  /\ Put \/ UNCHANGED host
  /\ \E exit \in {"ok", "err"} : Continue(exit, TRUE)
  /\ UNCHANGED <<mode, log>>

InPlace == host[Statement.path] = Statement.value

(* ~file.write: engine.Run of a FilePut, whose guard compares digests and  *)
(* whose Apply renames into place.  Reading its content may fail, too.     *)
Write ==
  /\ Due("write")
  /\ \/ Leave(Failure) /\ UNCHANGED host
     \/ /\ Continue(IF InPlace THEN "0" ELSE "1", ~InPlace)
        /\ IF mode = "apply" THEN Put ELSE UNCHANGED host
  /\ UNCHANGED <<mode, log>>

Slip_Sync ==  \* Slip: the mode is not asked.
  /\ Due("sync")
  /\ \/ Continue(IF InPlace THEN "0" ELSE "1", ~InPlace) /\ Put
     \/ Leave(Failure) /\ (Put \/ UNCHANGED host)
  /\ UNCHANGED <<mode, log>>

Slip_SyncUnset ==  \* Slip: what a transfer would do is described, not counted.
  /\ Due("sync")
  /\ IF mode = "check"
     THEN /\ Continue("summary", FALSE) \/ Leave(Failure)
          /\ UNCHANGED host
     ELSE \/ Continue(IF InPlace THEN "0" ELSE "1", ~InPlace) /\ Put
          \/ Leave(Failure) /\ (Put \/ UNCHANGED host)
  /\ UNCHANGED <<mode, log>>

(* ~dir.sync: only a check asks for the delta alone.                       *)
Sync ==
  /\ Due("sync")
  /\ IF mode = "check"
     THEN /\ Continue("summary", ~InPlace) \/ Leave(Failure)
          /\ UNCHANGED host
     ELSE \/ Continue(IF InPlace THEN "0" ELSE "1", ~InPlace) /\ Put
          \/ Leave(Failure) /\ (Put \/ UNCHANGED host)
  /\ UNCHANGED <<mode, log>>

CallDef ==
  /\ Due("call")
  /\ Call(Statement.def, [Top EXCEPT !.rest = Tail(@)])
  /\ UNCHANGED <<host, mode, log>>

Stop ==
  /\ Due("stop")
  /\ Leave(Failure)
  /\ UNCHANGED <<host, mode, log>>

(* What check mode has decided to say, before the previews are evaluated.  *)
Announce(tag) ==
  /\ SetTop([Top EXCEPT !.stage = "preview", !.rest = <<>>,
                        !.phases = Named(Top.def, {"preview"}),
                        !.verdict = [Outcome("would", tag) EXCEPT !.changed = TRUE]])
  /\ UNCHANGED ret

Slip_Confirmed(r) ==  \* Slip: the exit status of the apply is enough.
  [r EXCEPT !.changed = r.cat = "ok" /\ Top.acted]

(* changedIfActed and confirm.                                             *)
Confirmed(r) ==
  LET n == Top.def IN
  IF /\ r.cat = "ok" /\ Top.acted /\ Observes(n)
     /\ ~Converged(host, LastOf(Named(n, {"observe"})).fields)
  THEN Outcome("err", "unconfirmed")
  ELSE [r EXCEPT !.changed = r.cat = "ok" /\ Top.acted]

(* questionInCheck.                                                        *)
Softened(r) ==
  IF mode = "check" /\ r.cat = "err" /\ Question(Top.def)
  THEN Outcome("would", NoTag)
  ELSE r

Return ==
  /\ Due("return")
  /\ LET r == Outcome(Statement.cat, Statement.tag) IN
     CASE Top.stage = "decide" -> Leave(Softened(r))
       [] Top.stage = "try" ->
            IF ~Top.acted THEN Leave(Already)
            ELSE Announce(IF r.cat = "ok" /\ r.tag # NoTag THEN r.tag
                          ELSE NominalTag(Top.def))
       [] Top.stage = "preview" -> Continue(Top.last, FALSE)
       [] Top.stage = "apply" -> Leave(Confirmed(r))
  /\ UNCHANGED <<host, mode, log>>

-----------------------------------------------------------------------------
(* Phases: EvalDefFull.                                                    *)

Between == Busy /\ Top.rest = <<>>

OpenPhase ==
  /\ Between
  /\ Top.phases # <<>>
  /\ Head(Top.phases).name # "observe"
  /\ SetTop([Top EXCEPT !.rest = Head(Top.phases).body, !.phases = Tail(@)])
  /\ UNCHANGED <<host, mode, ret, log>>

Observe ==
  /\ Between
  /\ Top.phases # <<>>
  /\ Head(Top.phases).name = "observe"
  /\ IF Converged(host, Head(Top.phases).fields) THEN Leave(Already)
     ELSE SetTop([Top EXCEPT !.phases = Tail(@)]) /\ UNCHANGED ret
  /\ UNCHANGED <<host, mode, log>>

(* The first pass has not decided.                                         *)
Undecided == Between /\ Top.phases = <<>> /\ Top.stage = "decide"

Delegate ==
  /\ Undecided
  /\ Defs[Top.def].delegate # NoName
  /\ Call(Defs[Top.def].delegate, [Top EXCEPT !.stage = "delegated"])
  /\ UNCHANGED <<host, mode, log>>

DecidesItself == Undecided /\ Defs[Top.def].delegate = NoName

(* statusResult.                                                           *)
Report ==
  /\ DecidesItself
  /\ mode = "status"
  /\ Leave(IF ~Observes(Top.def) THEN Outcome("ok", "action")
           ELSE IF Converged(host, Head(Named(Top.def, {"observe"})).fields)
           THEN Outcome("ok", NoTag) ELSE Outcome("would", NoTag))
  /\ UNCHANGED <<host, mode, log>>

Foresee ==
  /\ DecidesItself
  /\ mode = "check"
  /\ IF Inert(Top.def)
     THEN /\ SetTop([Top EXCEPT !.stage = "try", !.acted = FALSE,
                       !.rest = LastOf(Named(Top.def, {"apply"})).body])
          /\ UNCHANGED ret
     ELSE Announce(NominalTag(Top.def))
  /\ UNCHANGED <<host, mode, log>>

PreviewOver ==
  /\ Between
  /\ Top.phases = <<>>
  /\ Top.stage = "preview"
  /\ Leave(Top.verdict)
  /\ UNCHANGED <<host, mode, log>>

(* The second pass; what ran before has not acted.                         *)
Act ==
  /\ DecidesItself
  /\ mode = "apply"
  /\ IF Named(Top.def, {"apply"}) = <<>> THEN Leave(Outcome("ok", NoTag))
     ELSE /\ SetTop([Top EXCEPT !.stage = "apply", !.acted = FALSE,
                       !.rest = Head(Named(Top.def, {"apply"})).body])
          /\ UNCHANGED ret
  /\ UNCHANGED <<host, mode, log>>

Step ==
  \/ End \/ Receive
  \/ SkipStatement \/ Test \/ Set \/ Write \/ Sync \/ CallDef \/ Stop \/ Return
  \/ OpenPhase \/ Observe \/ Delegate \/ Report \/ Foresee \/ PreviewOver \/ Act

Next == Step \/ \E n \in Names, m \in Modes : Begin(n, m)

Spec == Init /\ [][Next]_vars

(* The evaluator is one goroutine; nobody has to call it.                  *)
FairSpec == Spec /\ WF_vars(Step)

-----------------------------------------------------------------------------
(* Properties                                                              *)

Records ==
  [def : Names, mode : Modes, before : [Paths -> Values],
   after : [Paths -> Values], outcome : Outcomes]

TypeFrame(f) ==
  /\ f.def \in Names
  /\ f.stage \in Stages
  /\ f.last \in Lasts
  /\ f.acted \in BOOLEAN
  /\ f.verdict \in Outcomes
  /\ f.stage = "delegated" => Defs[f.def].delegate # NoName
  /\ f.stage \in {"try", "preview"} => mode = "check"
  /\ f.stage = "apply" => mode = "apply"

(* The types of the variables; a def is on the stack once, an apply runs   *)
(* in a run alone, and what can be announced is so in a dry run.           *)
TypeOK ==
  /\ host \in [Paths -> Values]
  /\ mode \in Modes
  /\ ret \in Outcomes
  /\ Len(log) <= MaxCalls
  /\ \A i \in DOMAIN log : log[i] \in Records
  /\ \A i \in DOMAIN stack : TypeFrame(stack[i])
  /\ \A i, j \in DOMAIN stack : stack[i].def = stack[j].def => i = j

Over(i) == i \in DOMAIN log /\ log[i].outcome # NoOutcome
Repeated(i) == Over(i) /\ Over(i + 1) /\ log[i + 1].def = log[i].def
Untouched(i) == log[i].after = log[i].before

(* A dry run changes nothing, whatever the phases and the calls in them:   *)
(* "inert in check mode, by construction" (eval.go:937), and README.md:248 *)
(* "never mutates".  It takes that check, observe and preview hold no      *)
(* shell that acts, which is a convention (ADR-0013).                      *)
DryRunIsInert == \A i \in DOMAIN log :
  Over(i) /\ log[i].mode = "check" => Untouched(i)

(* A dry run or a status that says ok is kept: the same call leaves the    *)
(* host as it is (ADR-0041; eval.go:156).  A status has nothing to say of  *)
(* an action (eval.go:441).                                                *)
OkForetellsNoChange == \A i \in DOMAIN log :
  /\ Repeated(i)
  /\ log[i].mode # "apply" /\ log[i + 1].mode = "apply"
  /\ log[i].outcome.cat = "ok" /\ log[i].outcome.tag # "action"
  => Untouched(i + 1)

(* What a call that succeeds does not report as changed is as it was, at   *)
(* any depth of calls: `if x.changed` misses nothing (eval.go:176, 738).  *)
UnchangedMeansUntouched == \A i \in DOMAIN log :
  /\ Over(i) /\ log[i].mode = "apply"
  /\ log[i].outcome.cat = "ok" /\ ~log[i].outcome.changed
  => Untouched(i)

Managed(n) ==
  \/ Observes(n)
  \/ Defs[n].delegate # NoName /\ Observes(Defs[n].delegate)

(* After a success of a def that observes, the same call finds nothing to  *)
(* do, although commands may exit 0 and have had no effect: the verdict is *)
(* observed, not asserted (ADR-0050; eval.go:193).                         *)
SecondRunIsNoOp == \A i \in DOMAIN log :
  /\ Repeated(i)
  /\ log[i].mode = "apply" /\ log[i + 1].mode = "apply"
  /\ log[i].outcome.cat = "ok" /\ Managed(log[i].def)
  => Untouched(i + 1)

(* A call that is made ends, also of defs that call each other in a circle *)
(* (eval.go:696).  It takes that each shell and each transfer ends.        *)
Ends == stack # <<>> ~> stack = <<>>

(* Not so: a dry run may say ok.already of a call that the run refuses.  A *)
(* question in its check, softened to `would` (eval.go:266), no longer     *)
(* stops the def that asks it; and the outcome of an apply that has not    *)
(* acted is dropped, an err included (eval.go:155).                        *)
AlreadyIsNotRefused == \A i \in DOMAIN log :
  /\ Repeated(i)
  /\ log[i].mode = "check" /\ log[i + 1].mode = "apply"
  /\ log[i].outcome = Already
  => log[i + 1].outcome.cat # "err"

(* Not so: ADR-0029, "a preview is a courtesy, never a gate: it must not   *)
(* fail the check or halt the run".  A shell that fails in one does not; a *)
(* primitive that fails ends the call (eval.go:558, 945).                  *)
PreviewIsNeverAGate == [][
  stack # <<>> /\ ret = NoOutcome /\ Top.stage = "preview"
    => ret'.cat \notin {"err", "fail"}]_vars
=============================================================================
