----------------------------- MODULE PlanValues -----------------------------
(***************************************************************************)
(* What the arguments of a plan come to: parsePlan and what it calls       *)
(* (lang/parser.go), CheckArguments and CheckResolvedArguments             *)
(* (lang/argcheck.go), ControlResources (lang/control_scan.go), NewAllowed *)
(* (orchestrator/serve.go), HostEnv and reqFor                             *)
(* (orchestrator/orchestrator.go), ResolveRefs (proto/proto.go).           *)
(*                                                                         *)
(* A plan is read once, statement by statement, and sent once per host:    *)
(* some names are replaced when they are met, others when the host is      *)
(* known, and arguments are judged at both moments.                        *)
(*                                                                         *)
(* A string is a sequence of pieces: <<"lit", l>>, <<"name", x>> for       *)
(* `${x}`, <<"inv", f>> for `${inventory.f}`; whether a piece is text or   *)
(* is to be replaced is for the reader of the string to say.  What is      *)
(* written is [form, text]: "str", "raw" (triple quotes), "asset" (`%`),   *)
(* or "bare", an identifier, whose text is that one name.                  *)
(*                                                                         *)
(* Blocks, branches, parallel groups and conditions of `if` hold calls     *)
(* that every pass walks alike: `place` says where in them a call stands.  *)
(***************************************************************************)
EXTENDS DefTable, Sequences, SequencesExt

CONSTANTS
  Plans,    \* the plans considered: sequences of statements
  Inside,   \* the statements in the blocks and the loops of these plans
  Vars,     \* the names of variables
  VarsFile, \* [Vars -> values or None]: --vars
  SetVars,  \* [Vars -> values or None]: --set, and secrets, which win alike
  Hosts,
  Fields,   \* what an inventory entry may hold, `<host>.<field>` included
  Inv,      \* Inv[h]: [Fields -> values or None]
  Params,      \* Params[d]: the parameters of body d, in order
  Required,    \* Required[d]: how many of them have no default
  BoolParams,  \* BoolParams[d]: those declared `bool`
  Rejects,     \* Rejects[d]: <<parameter, value>> the pure `check` of d refuses
  Outside      \* paths that leave the assets of the project

Pieces == ({"lit"} \X STRING) \cup ({"name"} \X Vars) \cup ({"inv"} \X Fields)
Texts == Seq(Pieces)
Arguments ==
  [form : {"str", "raw", "asset"}, text : Texts]
  \cup {[form |-> "bare", text |-> <<<<"name", x>>>>] : x \in Vars}

ASSUME ValuesAssumption ==
  /\ Undefined \notin Texts
  /\ VarsFile \in [Vars -> Texts \cup {Undefined}]
  /\ SetVars \in [Vars -> Texts \cup {Undefined}]

(* What parsePlan and blockBody know.  The rest of a statement is where it *)
(* is read.                                                                *)
ASSUME PlansAssumption ==
  /\ \A s \in Inside :
       \/ /\ s.kind = "for" /\ s.var \in Vars
          /\ s.items \in Seq(Texts) /\ s.body \in Seq(Inside)
       \/ s.kind = "call" /\ s.args \in Seq(Arguments)
  /\ \A p \in Plans :
       /\ p \in Seq({p[i] : i \in DOMAIN p})
       /\ \A i \in DOMAIN p :
            \/ p[i].kind \in {"import", "def"}
            \/ p[i].kind = "bind" /\ p[i].name \in Vars /\ p[i].value \in Arguments
            \/ p[i].kind = "on" /\ p[i].body \in Seq(Inside)

VARIABLES
  plan,    \* the plan, for the properties
  todo,    \* what is left of it: <<statement, loop>>, the loop variables in force
  base,    \* baseVars
  blocks,  \* orchestrator.Plan
  pass,    \* "reading", "refused", "read", "expanding"
  allow,   \* the allow-list of the control channel
  sent,    \* the calls sent: [host, block, call]
  dropped  \* the hosts that could not be sent their block

planVars == <<defVars, plan, todo, base, blocks, pass, allow, sent, dropped>>

NoLoop == [x \in {} |-> <<>>]
Bools == {<<<<"lit", "true">>>>, <<<<"lit", "false">>>>}
Names(text) == {text[i][2] : i \in {j \in DOMAIN text : text[j][1] = "name"}}
Deferred(text) == \E i \in DOMAIN text : text[i][1] = "inv"

(* lookup: --set, then the loop variables, which the copy of baseVars for  *)
(* the body of a loop holds, then baseVars.                                *)
Lookup(x, loop) ==
  IF SetVars[x] # Undefined THEN SetVars[x]
  ELSE IF x \in DOMAIN loop THEN loop[x] ELSE base[x]

Known(text, loop) == \A x \in Names(text) : Lookup(x, loop) # Undefined

(* interpolate: names are replaced, by values that are not looked at       *)
(* again; the inventory is left for later.                                 *)
Interpolate(text, loop) ==
  FlattenSeq([i \in DOMAIN text |->
    IF text[i][1] = "name" THEN Lookup(text[i][2], loop) ELSE <<text[i]>>])

(* arg, for bindings and `with`: a bare name is replaced here.             *)
Readable(w, loop) == w.form = "raw" \/ Known(w.text, loop)
Arg(w, loop) == IF w.form = "raw" THEN w.text ELSE Interpolate(w.text, loop)

PlanInit ==
  /\ DefInit
  /\ plan \in Plans
  /\ todo = [i \in DOMAIN plan |-> <<plan[i], NoLoop>>]
  /\ base = VarsFile
  /\ blocks = <<>>
  /\ pass = "reading"
  /\ allow = {}
  /\ sent = {}
  /\ dropped = {}

Stmt == todo[1][1]
Loop == todo[1][2]
Reading(kind) == pass = "reading" /\ libs = {} /\ todo # <<>> /\ Stmt.kind = kind
Refuse ==
  /\ pass' = "refused"
  /\ UNCHANGED <<defVars, plan, todo, base, blocks, allow, sent, dropped>>

(* The packages of the project come before the plan.                       *)
ReadLibs ==
  /\ pass = "reading"
  /\ \/ RegisterLib /\ UNCHANGED <<plan, todo, base, blocks, pass, allow, sent, dropped>>
     \/ LibsClash /\ Refuse

(* A statement of the plan itself: all the ones before it have been read.  *)
Before == SubSeq(plan, 1, Len(plan) - Len(todo))

(* `import <alias> "<path>"`: before everything else, one alias once.      *)
ReadImport ==
  /\ Reading("import")
  /\ LET sound == /\ \A i \in DOMAIN Before :
                       Before[i].kind = "import" /\ Before[i].alias # Stmt.alias
                  /\ \A e \in Stmt.decls : Importable(e)
     IN \/ /\ sound
           /\ user' = Registered(Stmt.decls)
           /\ todo' = Tail(todo)
           /\ UNCHANGED <<libs, plan, base, blocks, pass, allow, sent, dropped>>
        \/ ~sound /\ Refuse

(* A def in the plan: known to the calls below it.                         *)
ReadDef ==
  /\ Reading("def")
  /\ \/ /\ Registrable(Stmt.decl)
        /\ user' = Registered({Stmt.decl})
        /\ todo' = Tail(todo)
        /\ UNCHANGED <<libs, plan, base, blocks, pass, allow, sent, dropped>>
     \/ ~Registrable(Stmt.decl) /\ Refuse

(* `x = value` at top level.  Nothing asks whether x is bound already.     *)
ReadBinding ==
  /\ Reading("bind")
  /\ \/ /\ Readable(Stmt.value, Loop)
        /\ base' = [base EXCEPT ![Stmt.name] = Arg(Stmt.value, Loop)]
        /\ todo' = Tail(todo)
        /\ UNCHANGED <<defVars, plan, blocks, pass, allow, sent, dropped>>
     \/ ~Readable(Stmt.value, Loop) /\ Refuse

(* `on <target> { ... }`                                                   *)
ReadBlock ==
  /\ Reading("on")
  /\ blocks' = Append(blocks, [hosts |-> Stmt.hosts, calls |-> <<>>])
  /\ todo' = [i \in DOMAIN Stmt.body |-> <<Stmt.body[i], NoLoop>>] \o Tail(todo)
  /\ UNCHANGED <<defVars, plan, base, pass, allow, sent, dropped>>

(* forLoop: the body once per item, with the item in its table.            *)
ReadFor ==
  /\ Reading("for")
  /\ \/ /\ \A i \in DOMAIN Stmt.items : Known(Stmt.items[i], Loop)
        /\ LET Item(i) == Interpolate(Stmt.items[i], Loop)
               Scope(i) == [x \in DOMAIN Loop \cup {Stmt.var} |->
                              IF x = Stmt.var THEN Item(i) ELSE Loop[x]]
               Body(i) == [j \in DOMAIN Stmt.body |-> <<Stmt.body[j], Scope(i)>>]
           IN todo' = FlattenSeq([i \in DOMAIN Stmt.items |-> Body(i)]) \o Tail(todo)
        /\ UNCHANGED <<defVars, plan, base, blocks, pass, allow, sent, dropped>>
     \/ /\ \E i \in DOMAIN Stmt.items : ~Known(Stmt.items[i], Loop)
        /\ Refuse

(* Slip: the type is asked of what a template holds for now.               *)
Slip_WrongTypeNow(d, p, w, loop) ==
  /\ p \in BoolParams[d]
  /\ w.form = "raw" \/ Known(w.text, loop)
  /\ Arg(w, loop) \notin Bools

(* The declared type, asked of a value that is there: not of a template,   *)
(* and of a bare name only if it is known here.                            *)
WrongTypeNow(d, p, w, loop) ==
  /\ p \in BoolParams[d]
  /\ w.form # "raw" => Known(w.text, loop) /\ ~Deferred(w.text)
  /\ Arg(w, loop) \notin Bools

(* Arguments are positional, by the def the name stands for by now.        *)
ArgsOf(c) == [p \in {Params[Resolve(c.name)][i] : i \in DOMAIN c.args} |->
                c.args[CHOOSE i \in DOMAIN c.args : Params[Resolve(c.name)][i] = p]]

(* call: an argument is a Ref, a Template or an Arg of the step.  The last *)
(* three are not part of it but for the properties: what was written, what *)
(* the same text comes to in braces, and the loops around it.              *)
StepOf(c, loop) ==
  LET args == ArgsOf(c)
      Given(forms) == {p \in DOMAIN args : args[p].form \in forms}
      late == {p \in Given({"str", "asset"}) : Deferred(args[p].text)}
  IN [name |-> c.name, place |-> c.place,
      refs |-> [p \in Given({"bare"}) |-> args[p].text[1][2]],
      templates |-> [p \in late |-> Interpolate(args[p].text, loop)],
      args |-> [p \in Given({"str", "asset", "raw"}) \ late |-> Arg(args[p], loop)],
      control |-> Given({"asset"}),
      with |-> [x \in DOMAIN c.with |-> Arg(c.with[x], loop)],
      written |-> [args |-> args, with |-> c.with],
      means |-> [p \in DOMAIN args |->
                   IF Readable(args[p], loop) THEN Arg(args[p], loop) ELSE Undefined],
      loops |-> DOMAIN loop]

Callable(c, loop) ==
  LET d == Resolve(c.name) IN
    /\ d # Undefined
    /\ Len(c.args) \in Required[d] .. Len(Params[d])
    /\ \A i \in DOMAIN c.args :
         /\ c.args[i].form \in {"str", "asset"} => Known(c.args[i].text, loop)
         /\ ~WrongTypeNow(d, Params[d][i], c.args[i], loop)
    /\ \A x \in DOMAIN c.with : Readable(c.with[x], loop)

ReadCall ==
  /\ Reading("call")
  /\ \/ /\ Callable(Stmt, Loop)
        /\ blocks' = [blocks EXCEPT ![Len(blocks)].calls = Append(@, StepOf(Stmt, Loop))]
        /\ todo' = Tail(todo)
        /\ UNCHANGED <<defVars, plan, base, pass, allow, sent, dropped>>
     \/ ~Callable(Stmt, Loop) /\ Refuse

EndOfPlan ==
  /\ pass = "reading" /\ libs = {} /\ todo = <<>>
  /\ pass' = "read"
  /\ UNCHANGED <<defVars, plan, todo, base, blocks, allow, sent, dropped>>

Steps(b) == {blocks[b].calls[i] : i \in DOMAIN blocks[b].calls}
AllSteps == UNION {Steps(b) : b \in DOMAIN blocks}

(* evalPureCheck: what `with` binds hides the argument of that name.       *)
PureCheckRefuses(s) ==
  \E r \in Rejects[Resolve(s.name)] :
    LET p == r[1] IN
      \/ p \in DOMAIN s.with /\ s.with[p] = r[2]
      \/ p \in DOMAIN s.args \ DOMAIN s.with /\ s.args[p] = r[2]

(* checkStepArguments leaves a call with a Ref or a Template alone.        *)
RefusedArguments(s) ==
  DOMAIN s.refs = {} /\ DOMAIN s.templates = {} /\ PureCheckRefuses(s)

(* scanSteps: a path that is a Template by now is in no Arg.               *)
ControlResources ==
  UNION {{s.args[p] : p \in s.control \cap DOMAIN s.args} : s \in AllSteps}

(* CheckArguments on what was read, then, before any host is dialed, the   *)
(* allow-list: a path outside assets/ is left out without a word.          *)
JudgePlan ==
  /\ pass = "read"
  /\ \/ /\ \E s \in AllSteps : RefusedArguments(s)
        /\ Refuse
     \/ /\ \A s \in AllSteps : ~RefusedArguments(s)
        /\ pass' = "expanding"
        /\ allow' = ControlResources \ Outside
        /\ UNCHANGED <<defVars, plan, todo, base, blocks, sent, dropped>>

(* HostEnv: the final baseVars, then --set.  No loop variable is in it.    *)
Env(x) == IF SetVars[x] # Undefined THEN SetVars[x] ELSE base[x]

(* expandInventory: whatever `${...}` a template holds by now.             *)
EnvHas(h, text) ==
  \A i \in DOMAIN text :
    /\ text[i][1] = "name" => Env(text[i][2]) # Undefined
    /\ text[i][1] = "inv" => Inv[h][text[i][2]] # Undefined

(* Slip: one table is built and used for every host.                       *)
Slip_Expand(h, text) ==
  FlattenSeq([i \in DOMAIN text |->
    CASE text[i][1] = "name" -> Env(text[i][2])
      [] text[i][1] = "inv" -> Inv[CHOOSE k \in Hosts : TRUE][text[i][2]]
      [] OTHER -> <<text[i]>>])

Expand(h, text) ==
  FlattenSeq([i \in DOMAIN text |->
    CASE text[i][1] = "name" -> Env(text[i][2])
      [] text[i][1] = "inv" -> Inv[h][text[i][2]]
      [] OTHER -> <<text[i]>>])

Resolvable(h, s) ==
  /\ \A p \in DOMAIN s.refs : Env(s.refs[p]) # Undefined
  /\ \A p \in DOMAIN s.templates : EnvHas(h, s.templates[p])

(* Slip: what marks the paths of the control host is lost (#334).          *)
Slip_Resolved(h, s) ==
  [s EXCEPT
     !.args = [p \in DOMAIN s.args \cup DOMAIN s.refs \cup DOMAIN s.templates |->
                 IF p \in DOMAIN s.templates THEN Expand(h, s.templates[p])
                 ELSE IF p \in DOMAIN s.refs THEN Env(s.refs[p]) ELSE s.args[p]],
     !.refs = NoLoop, !.templates = NoLoop, !.control = {}]

(* ResolveRefs: one Arg for each argument.                                 *)
Resolved(h, s) ==
  [s EXCEPT
     !.args = [p \in DOMAIN s.args \cup DOMAIN s.refs \cup DOMAIN s.templates |->
                 IF p \in DOMAIN s.templates THEN Expand(h, s.templates[p])
                 ELSE IF p \in DOMAIN s.refs THEN Env(s.refs[p]) ELSE s.args[p]],
     !.refs = NoLoop, !.templates = NoLoop]

(* Slip: only the pure checks are asked again.                             *)
Slip_Acceptable(s) == ~RefusedArguments(s)

(* checkResolvedStep: the declared types, then the pure checks.            *)
Acceptable(s) ==
  /\ \A p \in BoolParams[Resolve(s.name)] \cap DOMAIN s.args : s.args[p] \in Bools
  /\ ~RefusedArguments(s)

(* reqFor: blocks in order, the hosts of one in any order.  A host that    *)
(* cannot be sent its block is sent no later one either.  What drops a     *)
(* host later than this is Orchestrator's.                                 *)
Expandable(h, b) == \A s \in Steps(b) : Resolvable(h, s) /\ Acceptable(Resolved(h, s))
Sent(h, b) == \E m \in sent : m.host = h /\ m.block = b
Settled(b) == blocks[b].calls = <<>> \/ \A h \in blocks[b].hosts \ dropped : Sent(h, b)

ExpandFor(h, b) ==
  /\ pass = "expanding"
  /\ b \in DOMAIN blocks /\ blocks[b].calls # <<>>
  /\ h \in blocks[b].hosts \ dropped /\ ~Sent(h, b)
  /\ \A c \in 1 .. b - 1 : Settled(c)
  /\ \/ /\ Expandable(h, b)
        /\ sent' = sent \cup {[host |-> h, block |-> b, step |-> Resolved(h, s)] : s \in Steps(b)}
        /\ UNCHANGED dropped
     \/ /\ ~Expandable(h, b)
        /\ dropped' = dropped \cup {h}
        /\ UNCHANGED sent
  /\ UNCHANGED <<defVars, plan, todo, base, blocks, pass, allow>>

ReadPlan ==
  \/ ReadLibs \/ ReadImport \/ ReadDef \/ ReadBinding \/ ReadBlock \/ ReadFor
  \/ ReadCall \/ EndOfPlan
SendPlan == \E h \in Hosts, b \in DOMAIN blocks : ExpandFor(h, b)

-----------------------------------------------------------------------------
Given(m) == DOMAIN m.step.written.args
Written(m, p) == m.step.written.args[p]

(* "`owner` and "${owner}" are the same variable written two ways and      *)
(* always agree" (language.md:269); "both read the loop item" (:384).      *)
OneNameOneValue ==
  \A m \in sent : \A p \in Given(m) :
    Written(m, p).form = "bare" /\ m.step.means[p] # Undefined =>
      m.step.args[p] = m.step.means[p]

(* "A bare identifier the plan never binds is an error ... reported before *)
(* anything is applied" (language.md:280).                                 *)
UnboundIsFoundFirst ==
  sent # {} => \A s \in AllSteps : \A p \in DOMAIN s.refs : Env(s.refs[p]) # Undefined

(* "an agent must never see one" (parser.go:882-883): `${inventory.f}`     *)
(* leaves the control host only where triple quotes say that it is text.   *)
NoPlaceholderIsSent ==
  \A m \in sent :
    /\ \A p \in Given(m) : Written(m, p).form # "raw" => ~Deferred(m.step.args[p])
    /\ \A x \in DOMAIN m.step.with :
         m.step.written.with[x].form # "raw" => ~Deferred(m.step.with[x])

(* Names bound once, by the vars file or by one statement.                 *)
Binds(x) == {i \in DOMAIN plan : plan[i].kind = "bind" /\ plan[i].name = x}
BoundOnce(x) ==
  \A i, j \in Binds(x) : i = j /\ VarsFile[x] = Undefined

(* The value of a name is text: what it puts beside the rest of a string   *)
(* has no `${...}` of its own.  means is that string, names replaced.      *)
Placeholders(text, kind) == {i \in DOMAIN text : text[i][1] = kind}
Clean(w, means) ==
  w.form # "raw" =>
    /\ Placeholders(means, "name") = {}
    /\ Cardinality(Placeholders(means, "inv")) = Cardinality(Placeholders(w.text, "inv"))

(* A bare name means what it means in braces if it is bound once, before,  *)
(* and not by a loop.                                                      *)
Plain(m, p) ==
  /\ m.step.means[p] # Undefined
  /\ Clean(Written(m, p), m.step.means[p])
  /\ Written(m, p).form = "bare" =>
       \A x \in Names(Written(m, p).text) : BoundOnce(x) /\ x \notin m.step.loops

(* What was written, for one host.                                         *)
Meaning(h, w, means) ==
  IF w.form = "raw" THEN means
  ELSE FlattenSeq([i \in DOMAIN means |->
         IF means[i][1] = "inv" THEN Inv[h][means[i][2]] ELSE <<means[i]>>])

(* The two moments do not show (language.md:277): whatever is replaced     *)
(* when, the step a host is sent has, for each argument, what the author   *)
(* wrote, read once, from top to bottom, for that host alone.              *)
ResolvedAsWritten ==
  \A m \in sent : \A p \in Given(m) :
    Plain(m, p) =>
      m.step.args[p] = Meaning(m.host, Written(m, p), m.step.means[p])

(* "The two passes differ in what they may look at, not in what they       *)
(* decide" (argcheck.go:101-102): a call is refused while the plan is read *)
(* only if it is wrong on every host.                                      *)
WrongFor(d, p, v) ==
  (p \in BoolParams[d] /\ v \notin Bools) \/ \E r \in Rejects[d] : r[1] = p /\ r[2] = v
CallIsWrong(c) ==
  LET d == Resolve(c.name) IN
    \/ d = Undefined
    \/ Len(c.args) \notin Required[d] .. Len(Params[d])
    \/ \E x \in DOMAIN c.with : ~Readable(c.with[x], Loop)
    \/ \E i \in DOMAIN c.args :
         LET w == c.args[i] IN
           \/ ~Readable(w, Loop)
           \/ ~Clean(w, Arg(w, Loop))
           \/ \A h \in Hosts : WrongFor(d, Params[d][i], Meaning(h, w, Arg(w, Loop)))
StepIsWrong(s) ==
  LET d == Resolve(s.name) IN
    \/ \E x \in DOMAIN s.with : WrongFor(d, x, s.with[x])
    \/ \E p \in DOMAIN s.args :
         \/ ~Clean(s.written.args[p], s.means[p])
         \/ \A h \in Hosts : WrongFor(d, p, Meaning(h, s.written.args[p], s.means[p]))
RefusedIsWrongEverywhere ==
  pass = "refused" =>
    /\ libs = {} /\ todo # <<>> /\ Stmt.kind = "call" => CallIsWrong(Stmt)
    /\ libs = {} /\ todo = <<>> => \E s \in AllSteps : StepIsWrong(s)

(* "the declared type is held to it as well" (argcheck.go:104-106): no     *)
(* host is sent a call whose arguments its def refuses, whatever the       *)
(* inventory made of them.                                                 *)
NothingRefusedIsSent ==
  \A m \in sent :
    LET d == Resolve(m.step.name)
        Final(p) == IF p \in DOMAIN m.step.with THEN m.step.with[p] ELSE m.step.args[p]
    IN /\ \A p \in Given(m) : p \in BoolParams[d] => m.step.args[p] \in Bools
       /\ \A r \in Rejects[d] : r[1] \in Given(m) => Final(r[1]) # r[2]

(* The two passes judge alike (argcheck.go:101-106).                       *)
CallsAreJudgedAlike == RefusedIsWrongEverywhere /\ NothingRefusedIsSent

(* What the plan marks with `%` is read on the control host, on every host *)
(* it is sent to, and the control host serves it (control_scan.go:9-14).   *)
(* Not where the path waits for the inventory: see the README.             *)
AssetIsServed ==
  \A m \in sent : \A p \in Given(m) :
    Written(m, p).form = "asset" /\ ~Deferred(Written(m, p).text) =>
      /\ p \in m.step.control
      /\ m.step.args[p] \in allow \cup Outside

(* The signature a call was read with is that of the def that will run.    *)
(* Not when the plan itself overrides the def below the call.              *)
ArgumentsFitDef ==
  \A m \in sent : \A i \in 1 .. Required[Resolve(m.step.name)] :
    Params[Resolve(m.step.name)][i] \in Given(m)

(* "refused when the plan is read rather than mid-deploy"                  *)
(* (control_scan.go:13-14).                                                *)
EveryAssetIsServed ==
  \A m \in sent : \A p \in Given(m) :
    Written(m, p).form = "asset" => m.step.args[p] \in allow
=============================================================================
