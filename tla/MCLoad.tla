------------------------------- MODULE MCLoad -------------------------------
EXTENDS Load, TLC

CONSTANTS r1, r2, r3, a, b, pin, c1, c2

(* Three runs of one project: two tags, one of them also imported alone,   *)
(* and a commit that only the cache can give.                              *)
MCVersion == [s \in Specs |-> IF s = pin THEN c1 ELSE None]
MCTagged == [s \in Specs |-> c1]
Importing == (r1 :> <<a, b>>) @@ (r2 :> <<b>>) @@ (r3 :> <<a, pin>>)
Alone == [r \in Runs |-> <<>>]
MCProjects == {Importing, Alone}

Lit(l) == <<"lit", l>>
Name(x) == <<"name", x>>
Field(f) == <<"inv", f>>
Str(text) == [form |-> "str", text |-> text]
Raw(text) == [form |-> "raw", text |-> text]
Bare(x) == [form |-> "bare", text |-> <<Name(x)>>]
Asset(text) == [form |-> "asset", text |-> text]
True == <<Lit("true")>>
Yes == <<Lit("yes")>>
Bad == <<Lit("bad")>>

(* x is bound by the plan, y by a loop, s by --set, v by --vars, z by nobody.           *)
MCVars == {"x", "y", "s", "v", "z"}
MCVarsFile == [n \in MCVars |-> IF n = "v" THEN True ELSE Undefined]
MCSetVars == [n \in MCVars |-> IF n = "s" THEN True ELSE Undefined]
MCHosts == {"h1", "h2"}
MCFields == {"f", "h2.f", "g"}
MCInv == [h \in MCHosts |-> [f \in MCFields |->
  CASE f = "f" -> IF h = "h1" THEN True ELSE Yes
    [] f = "h2.f" -> Yes
    [] f = "g" -> IF h = "h1" THEN Bad ELSE Undefined]]

(* act(flag: bool, text: str), whose check refuses one text; copy(src, to) *)
(* with a default, and another copy(src, from) that overrides it; an       *)
(* imported lib.act.                                                       *)
MCDefNames == {"act", "copy", "lib.act", "site.act"}
MCBodies == {"act", "copy", "mine", "theirs"}
MCStd == [n \in MCDefNames |-> IF n \in {"act", "copy"} THEN n ELSE Undefined]
MCParams == [m \in MCBodies |->
  CASE m = "copy" -> <<"src", "to">> [] m = "mine" -> <<"from", "src">>
    [] OTHER -> <<"flag", "text">>]
MCRequired == [m \in MCBodies |-> IF m = "copy" THEN 1 ELSE 2]
MCBoolParams == [m \in MCBodies |-> IF m \in {"act", "theirs"} THEN {"flag"} ELSE {}]
MCRejects == [m \in MCBodies |-> IF m = "act" THEN {<<"text", Bad>>} ELSE {}]
Decl(n, m, o) == [name |-> n, body |-> m, override |-> o]
MCPackages ==
  {{}, {Decl("site.act", "act", FALSE), Decl("copy", "mine", TRUE)},
   {Decl("site.act", "act", FALSE), Decl("site.act", "theirs", FALSE)},
   {Decl("act", "theirs", FALSE)}}
MCOutside == {<<Lit("../key")>>}

Bind(x, w) == [kind |-> "bind", name |-> x, value |-> w]
On(hosts, body) == [kind |-> "on", hosts |-> hosts, body |-> body]
For(x, items, body) == [kind |-> "for", var |-> x, items |-> items, body |-> body]
NoWith == [n \in {} |-> <<>>]
Act(flag, text, with) ==
  [kind |-> "call", name |-> "act", place |-> "block", with |-> with,
   args |-> <<flag, text>>]
Copy(src, place) ==
  [kind |-> "call", name |-> "copy", place |-> place, with |-> NoWith,
   args |-> <<src>>]

Bindings ==
  {<<>>} \cup
  {<<Bind("x", w)>> : w \in {Str(True), Bare("v"), Bare("s"), Raw(<<Name("v")>>),
                             Str(<<Field("f")>>), Str(<<Name("z")>>)}}
Flags == {Str(True), Str(Yes), Bare("x"), Str(<<Name("x")>>), Str(<<Field("f")>>), Bare("s")}
TextArgs == {Str(Bad), Str(<<Name("x"), Field("f")>>), Bare("x"), Bare("z"),
          Raw(<<Name("x")>>), Str(<<Field("h2.f")>>), Str(<<Field("g")>>)}
Withs == {NoWith, "text" :> Str(Bad)}

Looped(body) == For("x", <<True, <<Name("v"), Lit("0")>>>>, body)
Rebound == <<Bind("x", Str(Yes))>>

(* One call, alone or in a loop over a name the plan may bind as well,     *)
(* before and after another binding of that name.                          *)
CallPlans ==
  {p \o <<On(MCHosts, <<c>>)>> \o q :
     p \in Bindings, q \in {<<>>, Rebound},
     c \in {Act(f, t, NoWith) : f \in Flags, t \in TextArgs}}
  \cup
  {p \o <<On({"h2"}, <<Looped(<<Act(f, t, w)>>)>>)>> :
     p \in Bindings, f \in {Str(True), Bare("x"), Str(<<Name("x")>>)},
     t \in TextArgs, w \in Withs}

(* Paths of the control host, wherever a call may stand; two blocks, the   *)
(* second of which some host cannot be sent; the same name twice in loops. *)
AssetPlans ==
  {<<On(MCHosts, <<Copy(Asset(t), place)>>)>> :
     t \in {<<Lit("conf")>>, <<Lit("../key")>>, <<Name("v")>>, <<Field("f")>>},
     place \in {"block", "parallel", "then", "else", "cond"}}
BlockPlans ==
  {<<On(MCHosts, <<Copy(Str(<<Lit("conf")>>), "block")>>),
     On({"h1"}, <<Act(Str(True), t, NoWith)>>), On(MCHosts, <<Copy(Bare("v"), "block")>>)>> :
     t \in TextArgs}
  \cup
  {<<On({"h1"}, <<Looped(<<For("y", <<<<Lit("b")>>>>, <<Act(Str(True), Str(<<Name("x"), Name(n)>>), NoWith)>>)>>)>>)>> :
     n \in {"x", "v"}}

OnePlan == <<On({"h1"}, <<Act(Bare("v"), Str(<<Field("f")>>), NoWith)>>)>>

(* The same call of an imported, a packaged, an overridden and no def; the *)
(* override and the import in and out of their place.                      *)
Lib(alias) == [kind |-> "import", alias |-> alias, decls |-> {Decl("lib.act", "theirs", FALSE)}]
Mine == [kind |-> "def", decl |-> Decl("copy", "mine", TRUE)]
Call(n, args) == On(MCHosts, <<[kind |-> "call", name |-> n, place |-> "block",
                                with |-> NoWith, args |-> args]>>)
DefPlans ==
  {pre \o <<Call(n, args)>> \o post :
     pre \in {<<>>, <<Lib("lib")>>, <<Lib("lib"), Lib("lib")>>, <<Mine>>, <<Mine, Lib("lib")>>},
     post \in {<<>>, <<Mine>>},
     n \in MCDefNames, args \in {<<Str(Yes)>>, <<Str(True), Str(Bad)>>}}

MCPlans == {OnePlan} \cup CallPlans \cup AssetPlans \cup BlockPlans \cup DefPlans

(* The statements in blocks, in the loops in blocks, and in their loops.   *)
BodiesOf(stmts, kind) == UNION {Range(s.body) : s \in {t \in stmts : t.kind = kind}}
InBlocks == BodiesOf(UNION {Range(p) : p \in MCPlans}, "on")
InLoops == BodiesOf(InBlocks, "for")
MCInside == InBlocks \cup InLoops \cup BodiesOf(InLoops, "for")

(* Every graph over two defs of the project and one of the library.        *)
MCGraphs == [Defs -> SUBSET Defs]
NoCalls == [n \in Defs |-> {}]

MCInputs ==
  {<<Importing, OnePlan, NoCalls, {}>>}
  \cup {<<Alone, p, NoCalls, {}>> : p \in MCPlans}
  \cup {<<Alone, p, NoCalls, l>> : p \in DefPlans, l \in MCPackages}
  \cup {<<Alone, OnePlan, g, {}>> : g \in MCGraphs}
=============================================================================
