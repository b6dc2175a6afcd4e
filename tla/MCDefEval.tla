----------------------------- MODULE MCDefEval -----------------------------
(* Defs of the shapes the standard library has, and of some that users may *)
(* write: convergence by one or two commands, deliveries, a restart, a     *)
(* question, an argument check, delegations, defs made of others, circles. *)
EXTENDS DefEval

CONSTANTS p, q

Shell(op, path, value) == [op |-> op, if |-> "always", path |-> path, value |-> value]
CallOf(n) == [op |-> "call", if |-> "always", def |-> n]
Ret(if, cat, tag) == [op |-> "return", if |-> if, cat |-> cat, tag |-> tag]
Done == Ret("always", "ok", "done")
Failed == Ret("err", "err", "runtime")

Body(name, body) == [name |-> name, body |-> body]
Fields(f) == [name |-> "observe", fields |-> f]
Def(phases) == [phases |-> phases, delegate |-> NoName]
Delegating(n, phases) == [phases |-> phases, delegate |-> n]
OfP(want) == [x \in Paths |-> IF x = p THEN want ELSE AnyValue]
OfQ(want) == [x \in Paths |-> IF x = q THEN want ELSE AnyValue]

MCDefs ==
  [ensure |-> Def(<<Fields(OfP("on")),
      Body("apply", <<Shell("set", p, "on"), Failed, Done>>)>>),
   ensureBoth |-> Def(<<Fields([x \in Paths |-> IF x = p THEN "on" ELSE Holds]),
      Body("apply", <<Shell("set", p, "on"), Failed,
                      Shell("set", q, "on"), Failed, Done>>)>>),
   copy |-> Def(<<Body("apply", <<Shell("write", p, "on"), Ret("0", "ok", "already"), Done>>)>>),
   copyBoth |-> Def(<<Body("apply", <<Shell("write", p, "on"), Shell("write", q, "off"), Done>>)>>),
   tree |-> Def(<<Body("preview", <<Shell("sync", q, "on"), Done>>),
      Body("apply", <<Shell("sync", q, "on"), Ret("0", "ok", "already"), Done>>)>>),
   restart |-> Def(<<Body("preview", <<Shell("test", p, "on")>>),
      Body("apply", <<Shell("set", q, "off"), Done>>)>>),
   exists |-> Def(<<Body("check", <<Shell("test", p, "on"),
      Ret("ok", "ok", "done"), Ret("always", "err", "absent")>>)>>),
   refuses |-> Def(<<Body("check", <<Shell("test", q, "on"), Ret("ok", "err", "absent")>>),
      Fields(OfP("on")), Body("apply", <<Shell("set", p, "on"), Done>>)>>),
   asks |-> Def(<<Body("check", <<CallOf("exists")>>),
      Body("apply", <<Shell("write", q, "on"), Done>>)>>),
   wrapper |-> Delegating("ensure",
      <<Body("check", <<Shell("test", q, "on"), Ret("ok", "err", "absent")>>)>>),
   composite |-> Def(<<Body("apply", <<CallOf("copy"), CallOf("tree"), Done>>)>>),
   compositeSeen |-> Def(<<Fields(OfQ(Holds)),
      Body("apply", <<CallOf("tree"), CallOf("ensure"), Done>>)>>),
   broken |-> Def(<<Body("apply", <<[op |-> "stop", if |-> "always"], Done>>)>>),
   ring |-> Delegating("rung", <<>>),
   rung |-> Delegating("ring", <<>>)]
MCNames == DOMAIN MCDefs

ASSUME MCConventions ==
  /\ PhasesOnlyLook /\ ChecksOnlyAsk /\ WouldIsDerived
  /\ AppliesOnce /\ CountsOnlyReturn
=============================================================================
