---------------------------- MODULE MCStepRunner ----------------------------
(* Plans of up to six steps: an error handled, not handled, handled by the *)
(* wrong test; a name captured twice; captures and errors in branches of a *)
(* parallel block; captures in a branch that is only previewed; blocks     *)
(* without steps.                                                          *)
EXTENDS StepRunner

CONSTANTS r, a, b, c, d, e, f, x, y, t1, t2

Is(cat, tag) == [changed |-> FALSE, cat |-> cat, tag |-> tag]
Changed == [Is("ok", AnyTag) EXCEPT !.changed = TRUE]
Plain ==
  [kind |-> "call", bind |-> NoName, caught |-> FALSE, ref |-> NoName,
   test |-> Is("ok", AnyTag), negate |-> FALSE, then |-> <<>>, else |-> <<>>]
Capturing(name) == [Plain EXCEPT !.bind = name]
Catching(name) == [Capturing(name) EXCEPT !.caught = TRUE]
Block(kind, body) == [Plain EXCEPT !.kind = kind, !.then = body]
If(ref, test, then, else) ==
  [Block("if", then) EXCEPT !.ref = ref, !.test = test, !.else = else]

Rest == [n \in Nodes |-> Plain]
Tested == {Is("err", t1), Is("err", AnyTag), Is("ok", AnyTag), Changed}

Handling ==
  {[Rest EXCEPT ![r] = Block("as", <<a, b, e>>),
                ![a] = [Catching(x) EXCEPT !.caught = caught],
                ![b] = [If(ref, test, <<c>>, else) EXCEPT !.negate = negate]] :
     caught \in BOOLEAN, ref \in {x, y}, test \in Tested, negate \in BOOLEAN,
     else \in {<<>>, <<d>>}}
Inline ==
  {[Rest EXCEPT ![r] = Block("as", <<a, d>>),
                ![a] = [If(NoName, test, <<b>>, else) EXCEPT !.caught = caught]] :
     caught \in BOOLEAN, test \in Tested, else \in {<<>>, <<c>>}}
Twice ==
  {[Rest EXCEPT ![r] = Block("as", <<a, b, c, e>>),
                ![a] = Capturing(x),
                ![b] = Catching(x),
                ![c] = If(x, test, <<d>>, else)] :
     test \in {Is("ok", AnyTag), Is("err", t1)}, else \in {<<>>, <<f>>}}
Branches ==
  {[Rest EXCEPT ![r] = Block("as", <<a, b, f>>),
                ![a] = Capturing(x),
                ![b] = Block("parallel", <<c, d>>),
                ![c] = If(x, Changed, <<e>>, <<>>),
                ![d] = branch,
                ![f] = after] :
     branch \in {Capturing(x), Catching(x)},
     after \in {Plain, If(x, Is("ok", AnyTag), <<>>, <<>>)}}
  \cup
  {[Rest EXCEPT ![r] = Block("as", <<a, f>>),
                ![a] = Block("parallel", <<b, e>>),
                ![b] = Block("as", <<c, d>>),
                ![c] = Catching(x),
                ![d] = If(x, Is("err", t1), <<>>, <<>>)]}
Previewed ==
  {[Rest EXCEPT ![r] = Block("as", <<a, d, f>>),
                ![a] = If(NoName, Is("ok", AnyTag), <<b, c>>, <<>>),
                ![b] = [Catching(x) EXCEPT !.caught = caught],
                ![d] = If(x, Is("ok", AnyTag), <<e>>, <<>>)] : caught \in BOOLEAN}
Empty ==
  {[Rest EXCEPT ![r] = Block("as", <<a, b>>), ![a] = Block(kind, <<>>)] :
     kind \in {"as", "parallel"}}

MCPlans == Handling \cup Inline \cup Twice \cup Branches \cup Previewed \cup Empty
=============================================================================
