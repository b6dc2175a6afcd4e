---------------------------- MODULE DefEvalProofs ----------------------------
(***************************************************************************)
(* What a call of a def does to its host, for all defs, hosts and calls.   *)
(***************************************************************************)
EXTENDS DefEval, TLAPS, WellFoundedInduction

Elements(s) == {s[i] : i \in DOMAIN s}

-----------------------------------------------------------------------------
(* The phases of a def that have one of some names.                        *)
Of(n, names) == {ph \in Elements(Defs[n].phases) : ph.name \in names}

Selecting(f, s, names, k) ==
  f = [i \in 0 .. k |->
         IF i = 0 THEN <<>>
         ELSE IF s[i].name \in names THEN Append(f[i - 1], s[i]) ELSE f[i - 1]]

Selectable(s, names, k) == \E f : Selecting(f, s, names, k)

LEMMA LeastNatural ==
  ASSUME NEW S \in SUBSET Nat, S # {}
  PROVE  \E n \in S : \A m \in S : n <= m
<1> DEFINE R == OpToRel(<, Nat)
<1>1. IsWellFoundedOn(R, Nat)
  BY NatLessThanWellFounded
<1>2. \A x, y \in Nat : x < y => <<x, y>> \in R
  BY DEF OpToRel
<1> HIDE DEF R
<1>3. PICK n \in S : \A m \in S : <<m, n>> \notin R
  BY <1>1, WFMin
<1>4. ASSUME NEW m \in S PROVE n <= m
  <2>1. m \in Nat /\ n \in Nat /\ ~(m < n)
    BY <1>2, <1>3
  <2> QED BY <2>1
<1> QED BY <1>4

LEMMA SelectingExists ==
  ASSUME NEW s, NEW names, NEW k \in Nat
  PROVE  Selectable(s, names, k)
<1> DEFINE bad == {i \in Nat : ~Selectable(s, names, i)}
<1> SUFFICES ASSUME bad # {} PROVE FALSE
  OBVIOUS
<1>1. PICK m \in bad : \A i \in bad : m <= i
  <2>1. bad \in SUBSET Nat
    OBVIOUS
  <2> HIDE DEF bad
  <2> QED BY <2>1, LeastNatural
<1>2. m # 0
  <2>1. Selecting([i \in 0 .. 0 |-> <<>>], s, names, 0)
    BY DEF Selecting
  <2> QED BY <2>1 DEF Selectable
<1>3. m - 1 \in Nat /\ m - 1 \notin bad
  BY <1>1, <1>2
<1>4. PICK f : Selecting(f, s, names, m - 1)
  BY <1>3 DEF Selectable
<1> DEFINE g == [i \in 0 .. m |->
                   IF i < m THEN f[i]
                   ELSE IF s[m].name \in names THEN Append(f[m - 1], s[m]) ELSE f[m - 1]]
<1>5. Selecting(g, s, names, m)
  <2>1. ASSUME NEW i \in 0 .. m
        PROVE  g[i] = IF i = 0 THEN <<>>
                      ELSE IF s[i].name \in names THEN Append(g[i - 1], s[i]) ELSE g[i - 1]
    <3>1. CASE i = m
      BY <1>2, <3>1
    <3>2. CASE i # m
      <4>1. i \in 0 .. m - 1 /\ (i # 0 => i - 1 \in 0 .. m - 1)
        BY <1>3, <3>2
      <4>2. f[i] = IF i = 0 THEN <<>>
                   ELSE IF s[i].name \in names THEN Append(f[i - 1], s[i]) ELSE f[i - 1]
        BY <1>4, <4>1 DEF Selecting
      <4> QED BY <3>2, <4>1, <4>2
    <3> QED BY <3>1, <3>2
  <2> QED BY <2>1 DEF Selecting
<1> QED BY <1>5 DEF Selectable

(* t is made of what s has of those names among its first k.               *)
Made(t, s, names, k) ==
  /\ t \in Seq(Phases)
  /\ \A x : x \in Elements(t) <=> \E j \in 1 .. k : s[j].name \in names /\ x = s[j]

LEMMA NamedOK ==
  ASSUME NEW n \in Names, NEW names
  PROVE  /\ Named(n, names) \in Seq(Phases)
         /\ Elements(Named(n, names)) = Of(n, names)
<1> DEFINE s == Defs[n].phases
           f == CHOOSE g : Selecting(g, s, names, Len(s))
           bad == {i \in 0 .. Len(s) : ~Made(f[i], s, names, i)}
<1>1. s \in Seq(Phases) /\ Len(s) \in Nat /\ DOMAIN s = 1 .. Len(s)
  BY DefAssumption
<1>2. Selecting(f, s, names, Len(s))
  BY <1>1, SelectingExists DEF Selectable
<1>3. Named(n, names) = f[Len(s)]
  BY DEF Named, Selecting
<1> HIDE DEF f
<1>4. bad = {}
  <2> SUFFICES ASSUME bad # {} PROVE FALSE
    OBVIOUS
  <2>1. PICK m \in bad : \A i \in bad : m <= i
    <3>1. bad \in SUBSET Nat
      BY <1>1
    <3> HIDE DEF bad
    <3> QED BY <3>1, LeastNatural
  <2>2. f[m] = IF m = 0 THEN <<>>
               ELSE IF s[m].name \in names THEN Append(f[m - 1], s[m]) ELSE f[m - 1]
    BY <1>2, <2>1 DEF Selecting
  <2>3. CASE m = 0
    <3>1. f[m] = <<>> /\ <<>> \in Seq(Phases) /\ Elements(<<>>) = {}
      BY <2>2, <2>3 DEF Elements
    <3>2. Made(f[m], s, names, m)
      BY <2>3, <3>1 DEF Made
    <3> QED BY <2>1, <3>2
  <2>4. CASE m # 0
    <3>1. m - 1 \in 0 .. Len(s) /\ m - 1 \notin bad /\ m \in 1 .. Len(s) /\ s[m] \in Phases
      BY <1>1, <2>1, <2>4
    <3>2. Made(f[m - 1], s, names, m - 1)
      BY <3>1
    <3>3. \A j : j \in 1 .. m <=> j \in 1 .. (m - 1) \/ j = m
      BY <3>1
    <3>4. CASE s[m].name \in names
      <4>1. f[m] = Append(f[m - 1], s[m]) /\ f[m - 1] \in Seq(Phases)
        BY <2>2, <2>4, <3>2, <3>4 DEF Made
      <4>2. \A x : x \in Elements(f[m]) <=> x \in Elements(f[m - 1]) \/ x = s[m]
        <5> DEFINE t == f[m - 1]
        <5>1. /\ DOMAIN f[m] = 1 .. Len(t) + 1 /\ Len(t) \in Nat /\ DOMAIN t = 1 .. Len(t)
              /\ f[m][Len(t) + 1] = s[m] /\ \A j \in 1 .. Len(t) : f[m][j] = t[j]
          BY <3>1, <4>1
        <5>2. ASSUME NEW x PROVE x \in Elements(f[m]) <=> x \in Elements(t) \/ x = s[m]
          <6>1. x \in Elements(f[m]) <=> \E j \in 1 .. Len(t) + 1 : x = f[m][j]
            BY <5>1 DEF Elements
          <6>2. x \in Elements(t) <=> \E j \in 1 .. Len(t) : x = t[j]
            BY <5>1 DEF Elements
          <6> HIDE DEF t
          <6> QED BY <5>1, <6>1, <6>2
        <5> QED BY <5>2
      <4>3. f[m] \in Seq(Phases)
        BY <3>1, <4>1
      <4> QED BY <2>1, <3>2, <3>3, <3>4, <4>2, <4>3 DEF Made
    <3>5. CASE s[m].name \notin names
      BY <2>1, <2>2, <2>4, <3>2, <3>3, <3>5 DEF Made
    <3> QED BY <3>4, <3>5
  <2> QED BY <2>3, <2>4
<1>5. Made(f[Len(s)], s, names, Len(s))
  BY <1>1, <1>4
<1>6. \A x : x \in Of(n, names) <=> \E j \in 1 .. Len(s) : s[j].name \in names /\ x = s[j]
  BY <1>1 DEF Of, Elements
<1> QED BY <1>3, <1>5, <1>6 DEF Made

-----------------------------------------------------------------------------
(* What the stack is made of.                                              *)
Frames ==
  [def : Names, stage : Stages, phases : Seq(Phases), rest : Seq(Statements),
   acted : BOOLEAN, last : Lasts, verdict : Outcomes]

(* The phases whose statements run in a stage.                             *)
Source(stage) ==
  IF stage = "decide" THEN "check" ELSE IF stage = "preview" THEN "preview" ELSE "apply"
From(s, n, name) == \E ph \in Of(n, {name}) : s \in Elements(ph.body)

(* What is left of a frame is of its def, and of the phases of its stage.  *)
FrameOK(f) ==
  /\ f \in Frames /\ TypeFrame(f)
  /\ f.stage = "preview" => f.verdict.cat = "would"
  /\ \A ph \in Elements(f.phases) :
       \/ f.stage = "decide" /\ ph \in Of(f.def, {"check", "observe"})
       \/ f.stage = "preview" /\ ph \in Of(f.def, {"preview"})
  /\ \A s \in Elements(f.rest) :
       /\ f.stage # "delegated" /\ From(s, f.def, Source(f.stage))
       /\ f.stage = "try" => s.op \notin {"test", "set", "call"}

InCall == stack # <<>> \/ ret # NoOutcome
Current == log[Len(log)]

(* A call that is made is the last of the log, and no def is on the stack  *)
(* twice.                                                                  *)
Calls ==
  /\ host \in [Paths -> Values] /\ mode \in Modes /\ ret \in Outcomes
  /\ log \in Seq(Records) /\ Len(log) <= MaxCalls
  /\ stack \in Seq(Frames) /\ \A i \in 1 .. Len(stack) : FrameOK(stack[i])
  /\ \A i, j \in 1 .. Len(stack) : stack[i].def = stack[j].def => i = j
  /\ InCall => log # <<>> /\ Current.mode = mode /\ Current.outcome = NoOutcome

(* A dry run has changed nothing so far.                                   *)
Dry ==
  PhasesOnlyLook =>
    /\ InCall /\ mode = "check" => host = Current.before
    /\ DryRunIsInert

(* If a run has changed something so far, a frame that will say so is on   *)
(* the stack, or the outcome that is returned says it.  Above a check      *)
(* there are only questions, which have changed nothing.                   *)
Acted(f) == f.stage = "apply" /\ f.acted
Says(r) == r.changed \/ r.cat \in {"err", "fail"}
Told ==
  ChecksOnlyAsk /\ WouldIsDerived =>
    /\ InCall /\ mode = "apply" =>
         /\ \A i \in 1 .. Len(stack) - 1 : stack[i + 1].stage = "decide" =>
              stack[i].stage = "decide" /\ Question(stack[i].def)
         /\ stack # <<>> /\ ret # NoOutcome /\ Top.stage = "decide" => ~ret.changed
         /\ host # Current.before => Says(ret) \/ \E i \in 1 .. Len(stack) : Acted(stack[i])
    /\ UnchangedMeansUntouched

EvalInv == Calls /\ Dry /\ Told

-----------------------------------------------------------------------------
LEMMA StatementOK ==
  ASSUME NEW s \in Statements
  PROVE  /\ s.op \in {"test", "set", "write", "sync"} => s.path \in Paths /\ s.value \in Values
         /\ s.op = "call" => s.def \in Names
         /\ s.op = "return" => s.cat \in {"ok", "err", "would"} /\ s.tag \in Tags \cup {NoTag}
BY DEF Statements

LEMMA PhaseOK ==
  ASSUME NEW ph \in Phases, ph.name # "observe"
  PROVE  ph.body \in Seq(Statements) /\ ph.name \in {"check", "preview", "apply"}
BY DEF Phases

LEMMA DefOK ==
  ASSUME NEW n \in Names
  PROVE  /\ Defs[n].phases \in Seq(Phases) /\ Defs[n].delegate \in Names \cup {NoName}
         /\ \A ph \in Elements(Defs[n].phases) : ph \in Phases
BY DefAssumption DEF Elements

LEMMA ConventionsOK ==
  ASSUME NEW n \in Names, NEW s, NEW name, From(s, n, name)
  PROVE  /\ PhasesOnlyLook /\ name \in {"check", "preview"} => s.op # "set"
         /\ ChecksOnlyAsk /\ name = "check" =>
              s.op \in {"test", "stop", "return"} \/ (s.op = "call" /\ Question(s.def))
         /\ WouldIsDerived /\ name = "apply" /\ s.op = "return" => s.cat # "would"
<1>1. PICK ph \in Of(n, {name}) : s \in Elements(ph.body)
  BY DEF From
<1>2. PICK i \in DOMAIN Defs[n].phases : ph = Defs[n].phases[i] /\ ph.name = name
  BY <1>1 DEF Of, Elements
<1>3. PICK j \in DOMAIN ph.body : s = ph.body[j]
  BY <1>1 DEF Elements
<1>4. PhasesOnlyLook /\ name \in {"check", "preview"} => s.op # "set"
  BY <1>2, <1>3 DEF PhasesOnlyLook
<1>5. ChecksOnlyAsk /\ name = "check" =>
        s.op \in {"test", "stop", "return"} \/ (s.op = "call" /\ Question(s.def))
  BY <1>2, <1>3 DEF ChecksOnlyAsk
<1>6. WouldIsDerived /\ name = "apply" /\ s.op = "return" => s.cat # "would"
  BY <1>2, <1>3 DEF WouldIsDerived
<1> QED BY <1>4, <1>5, <1>6

LEMMA QuestionOK ==
  ASSUME NEW n \in Names, Question(n)
  PROVE  Defs[n].delegate = NoName /\ Named(n, {"apply"}) = <<>>
<1>1. Of(n, {"apply"}) = {}
  BY DEF Question, Of, Elements
<1>2. Named(n, {"apply"}) \in Seq(Phases) /\ Elements(Named(n, {"apply"})) = {}
  BY <1>1, NamedOK
<1> DEFINE s == Named(n, {"apply"})
<1>3. s \in Seq(Phases) /\ Elements(s) = {}
  BY <1>2
<1> HIDE DEF s
<1>4. Len(s) = 0
  <2>1. Len(s) \in Nat /\ DOMAIN s = 1 .. Len(s)
    BY <1>3
  <2>2. 1 \notin DOMAIN s
    BY <1>3 DEF Elements
  <2> QED BY <2>1, <2>2
<1>5. s = <<>>
  BY <1>3, <1>4
<1> QED BY <1>5 DEF Question, s

(* The first and the last of the phases of a name.                         *)
LEMMA EndsOfNamed ==
  ASSUME NEW n \in Names, NEW name \in {"check", "preview", "apply"}, Named(n, {name}) # <<>>
  PROVE  /\ Head(Named(n, {name})) \in Of(n, {name}) /\ LastOf(Named(n, {name})) \in Of(n, {name})
         /\ \A ph \in Of(n, {name}) : ph.body \in Seq(Statements)
<1> DEFINE s == Named(n, {name})
<1>1. s \in Seq(Phases) /\ Elements(s) = Of(n, {name})
  BY NamedOK
<1>2. Len(s) \in 1 .. Len(s) /\ 1 \in 1 .. Len(s) /\ DOMAIN s = 1 .. Len(s)
  BY <1>1
<1>3. Head(s) = s[1] /\ LastOf(s) = s[Len(s)]
  BY <1>1 DEF LastOf
<1>4. Head(s) \in Elements(s) /\ LastOf(s) \in Elements(s)
  BY <1>2, <1>3 DEF Elements
<1>5. ASSUME NEW ph \in Of(n, {name}) PROVE ph.body \in Seq(Statements)
  BY DefOK, PhaseOK DEF Of
<1> QED BY <1>1, <1>4, <1>5

LEMMA NominalOK ==
  ASSUME NEW n \in Names PROVE NominalTag(n) \in Tags \cup {NoTag}
<1>1. CASE Named(n, {"apply"}) = <<>>
  BY <1>1 DEF NominalTag
<1>2. CASE Named(n, {"apply"}) # <<>>
  <2> DEFINE ph == Head(Named(n, {"apply"}))
  <2>1. ph \in Of(n, {"apply"}) /\ ph.body \in Seq(Statements)
    BY <1>2, EndsOfNamed
  <2>2. ph.body # <<>> /\ LastOf(ph.body).op = "return"
    BY <2>1, DefAssumption DEF Of, Elements, LastOf
  <2>3. LastOf(ph.body) \in Statements
    BY <2>1, <2>2 DEF LastOf
  <2> QED BY <1>2, <2>2, <2>3, StatementOK DEF NominalTag
<1> QED BY <1>1, <1>2

LEMMA OutcomeOK ==
  ASSUME NEW cat \in {"ok", "err", "would", "fail", "none"}, NEW tag \in Tags \cup {NoTag}
  PROVE  /\ Outcome(cat, tag) \in Outcomes /\ ~Outcome(cat, tag).changed
         /\ Outcome(cat, tag).cat = cat /\ Outcome(cat, tag).tag = tag
         /\ \A c \in BOOLEAN : /\ [Outcome(cat, tag) EXCEPT !.changed = c] \in Outcomes
                               /\ [Outcome(cat, tag) EXCEPT !.changed = c].cat = cat
                               /\ [Outcome(cat, tag) EXCEPT !.changed = c].changed = c
BY DEF Outcome, Outcomes

LEMMA ConstantsOK ==
  /\ Failure \in Outcomes /\ Failure.cat = "fail" /\ ~Failure.changed
  /\ Already \in Outcomes /\ Already.cat = "ok" /\ ~Already.changed
  /\ NoOutcome \in Outcomes /\ NoOutcome.cat = "none" /\ ~NoOutcome.changed
BY OutcomeOK, NameAssumption DEF Failure, Already, NoOutcome

LEMMA NotNothing ==
  /\ Failure # NoOutcome /\ Already # NoOutcome
  /\ \A r : r.cat \in {"ok", "err", "would", "fail"} => r # NoOutcome
BY ConstantsOK

LEMMA TailOK ==
  ASSUME NEW A, NEW s \in Seq(A), s # <<>>
  PROVE  /\ Tail(s) \in Seq(A) /\ Head(s) \in A /\ Head(s) = s[1] /\ Head(s) \in Elements(s)
         /\ Elements(Tail(s)) \subseteq Elements(s)
         /\ Len(Tail(s)) = Len(s) - 1 /\ \A i \in 1 .. Len(s) - 1 : Tail(s)[i] = s[i + 1]
<1>1. /\ Tail(s) \in Seq(A) /\ Head(s) \in A /\ Head(s) = s[1] /\ Len(s) \in Nat /\ 1 \in DOMAIN s
      /\ DOMAIN s = 1 .. Len(s) /\ DOMAIN Tail(s) = 1 .. Len(s) - 1
      /\ Len(Tail(s)) = Len(s) - 1 /\ \A i \in 1 .. Len(s) - 1 : Tail(s)[i] = s[i + 1]
  OBVIOUS
<1>2. \A i \in 1 .. Len(s) - 1 : i + 1 \in 1 .. Len(s)
  BY <1>1
<1>3. Elements(Tail(s)) \subseteq Elements(s)
  BY <1>1, <1>2 DEF Elements
<1>4. Head(s) \in Elements(s)
  BY <1>1 DEF Elements
<1> QED BY <1>1, <1>3, <1>4

LEMMA ReplaceTop ==
  ASSUME NEW A, NEW s \in Seq(A), s # <<>>, NEW f \in A
  PROVE  /\ <<f>> \o Tail(s) \in Seq(A)
         /\ Len(<<f>> \o Tail(s)) = Len(s)
         /\ (<<f>> \o Tail(s))[1] = f
         /\ \A i \in 2 .. Len(s) : (<<f>> \o Tail(s))[i] = s[i]
OBVIOUS

LEMMA PushTop ==
  ASSUME NEW A, NEW s \in Seq(A), s # <<>>, NEW f \in A, NEW g \in A
  PROVE  /\ <<g, f>> \o Tail(s) \in Seq(A)
         /\ Len(<<g, f>> \o Tail(s)) = Len(s) + 1
         /\ (<<g, f>> \o Tail(s))[1] = g
         /\ (<<g, f>> \o Tail(s))[2] = f
         /\ \A i \in 3 .. Len(s) + 1 : (<<g, f>> \o Tail(s))[i] = s[i - 1]
<1>1. /\ Len(s) \in Nat \ {0} /\ Tail(s) \in Seq(A) /\ Len(Tail(s)) = Len(s) - 1
      /\ \A i \in 1 .. Len(s) - 1 : Tail(s)[i] = s[i + 1]
  BY TailOK
<1> DEFINE t == Tail(s)
<1>2. t \in Seq(A) /\ Len(t) = Len(s) - 1 /\ <<g, f>> \in Seq(A) /\ Len(<<g, f>>) = 2
  BY <1>1
<1> HIDE DEF t
<1>3. /\ <<g, f>> \o t \in Seq(A) /\ Len(<<g, f>> \o t) = Len(s) + 1
      /\ (<<g, f>> \o t)[1] = g /\ (<<g, f>> \o t)[2] = f
      /\ \A i \in 3 .. Len(s) + 1 : (<<g, f>> \o t)[i] = t[i - 2]
  BY <1>1, <1>2
<1>4. \A i \in 3 .. Len(s) + 1 : i - 2 \in 1 .. Len(s) - 1 /\ i - 2 + 1 = i - 1
  BY <1>1
<1>5. \A i \in 3 .. Len(s) + 1 : t[i - 2] = s[i - 1]
  BY <1>1, <1>4 DEF t
<1> QED BY <1>3, <1>5 DEF t

-----------------------------------------------------------------------------
(* The kinds of steps.                                                     *)
Authored == ChecksOnlyAsk /\ WouldIsDerived /\ mode = "apply"

Quiet ==
  /\ mode' = mode /\ log' = log /\ host' \in [Paths -> Values]
  /\ PhasesOnlyLook /\ mode = "check" => host' = host

(* What is observed of a def holds.                                        *)
Settled(h, n) == Observes(n) /\ Converged(h, LastOf(Named(n, {"observe"})).fields)

(* The innermost frame goes on as f, and knows of what was changed.        *)
Moves(f) ==
  /\ stack # <<>> /\ SetTop(f) /\ ret' = NoOutcome
  /\ FrameOK(f) /\ f.def = Top.def
  /\ f.stage = "delegated" => Top.stage = "delegated"
  /\ f.stage = "apply" => Top.stage = "apply" \/ Defs[f.def].delegate = NoName
  /\ Authored =>
       /\ Acted(Top) \/ host' # host \/ Says(ret) => Acted(f)
       /\ Top.stage = "decide" /\ Question(Top.def) => f.stage = "decide"

(* It ends with r, which tells of what was changed.                        *)
Leaves(r) ==
  /\ stack # <<>> /\ Leave(r) /\ r \in Outcomes /\ r # NoOutcome
  /\ Authored =>
       /\ Acted(Top) \/ host' # host \/ Says(ret) => Says(r)
       /\ Top.stage = "decide" => ~r.changed
       /\ r.cat = "ok" /\ r.changed =>
            /\ host' = host
            /\ \/ Top.stage = "delegated" /\ r = ret
               \/ Top.stage = "apply" /\ (Observes(Top.def) => Settled(host, Top.def))

(* As f, it calls n.                                                       *)
Pushes(n, f) ==
  /\ stack # <<>> /\ stack' = <<Frame(n, mode), f>> \o Tail(stack)
  /\ ret = NoOutcome /\ ret' = NoOutcome /\ host' = host
  /\ n \in Names /\ \A i \in 1 .. Len(stack) : stack[i].def # n
  /\ FrameOK(f) /\ f.def = Top.def
  /\ f.stage = "delegated" => n = Defs[f.def].delegate
  /\ f.stage = "apply" => Top.stage = "apply"
  /\ Authored =>
       /\ Acted(Top) => Acted(f)
       /\ f.stage = "decide" => Top.stage = "decide" /\ Question(n)
       /\ Top.stage = "decide" /\ Question(Top.def) => f.stage = "decide"

StepKind ==
  /\ Quiet
  /\ \/ \E f : Moves(f)
     \/ \E r : Leaves(r)
     \/ \E n, f : Pushes(n, f)

LEMMA FrameIsOK ==
  ASSUME NEW n \in Names, NEW m \in Modes
  PROVE  FrameOK(Frame(n, m)) /\ Frame(n, m).def = n /\ Frame(n, m).stage = "decide"
<1> DEFINE f == Frame(n, m)
<1>1. f.phases \in Seq(Phases) /\ Elements(f.phases) \subseteq Of(n, {"check", "observe"})
  <2>1. Of(n, {"check"}) \subseteq Of(n, {"check", "observe"})
    BY DEF Of
  <2> QED BY <2>1, NamedOK DEF Frame, FirstPass
<1>2. f.rest = <<>> /\ f.rest \in Seq(Statements) /\ Elements(f.rest) = {}
  BY DEF Frame, Elements
<1>3. /\ f.def = n /\ f.stage = "decide" /\ f.acted = FALSE /\ f.last = "none"
      /\ f.verdict = NoOutcome
  BY DEF Frame
<1>4. f \in Frames /\ TypeFrame(f)
  <2>1. f = [def |-> f.def, stage |-> f.stage, phases |-> f.phases, rest |-> f.rest,
             acted |-> f.acted, last |-> f.last, verdict |-> f.verdict]
    BY DEF Frame
  <2> QED BY <1>1, <1>2, <1>3, <2>1, ConstantsOK DEF Frames, TypeFrame, Stages, Lasts
<1> QED BY <1>1, <1>2, <1>3, <1>4 DEF FrameOK

LEMMA TopOK ==
  ASSUME EvalInv, stack # <<>>
  PROVE  /\ FrameOK(Top) /\ Top = stack[1] /\ Len(stack) \in Nat \ {0} /\ Top.def \in Names
         /\ Authored => Top.stage \in {"decide", "apply", "delegated"}
<1>1. stack \in Seq(Frames) /\ \A i \in 1 .. Len(stack) : FrameOK(stack[i])
  BY DEF EvalInv, Calls
<1>2. Len(stack) \in Nat \ {0} /\ Head(stack) = stack[1]
  BY <1>1
<1>3. FrameOK(Top) /\ Top = stack[1]
  BY <1>1, <1>2 DEF Top
<1> QED BY <1>2, <1>3 DEF FrameOK, TypeFrame, Authored, Stages

(* A frame that goes on in the stage it is in.                             *)
LEMMA GoesOnOK ==
  ASSUME NEW f, FrameOK(f), NEW rest \in Seq(Statements), NEW phases \in Seq(Phases),
         NEW acted \in BOOLEAN, NEW last \in Lasts,
         Elements(rest) \subseteq Elements(f.rest),
         Elements(phases) \subseteq Elements(f.phases)
  PROVE  FrameOK([f EXCEPT !.rest = rest, !.phases = phases, !.acted = acted, !.last = last])
<1> DEFINE g == [f EXCEPT !.rest = rest, !.phases = phases, !.acted = acted, !.last = last]
<1>1. f \in Frames /\ TypeFrame(f)
  BY DEF FrameOK
<1>2. /\ g \in Frames /\ g.rest = rest /\ g.phases = phases /\ g.stage = f.stage
      /\ g.def = f.def /\ g.verdict = f.verdict /\ g.acted = acted /\ g.last = last
  BY <1>1 DEF Frames
<1> HIDE DEF g
<1>3. TypeFrame(g)
  BY <1>1, <1>2 DEF TypeFrame
<1> QED BY <1>2, <1>3 DEF FrameOK, g

(* A statement that is due, and what the conventions say of it.            *)
LEMMA StatementIsOK ==
  ASSUME EvalInv, stack # <<>>, Top.rest # <<>>
  PROVE  /\ Statement \in Statements /\ Top.stage # "delegated"
         /\ From(Statement, Top.def, Source(Top.stage))
         /\ Top.stage = "try" => Statement.op \notin {"test", "set", "call"}
         /\ Tail(Top.rest) \in Seq(Statements) /\ Elements(Tail(Top.rest)) \subseteq Elements(Top.rest)
         /\ PhasesOnlyLook /\ mode = "check" => Statement.op # "set"
         /\ Authored =>
              /\ Top.stage \in {"decide", "apply"}
              /\ Top.stage = "decide" =>
                   \/ Statement.op \in {"test", "stop", "return"}
                   \/ Statement.op = "call" /\ Question(Statement.def)
              /\ Top.stage = "apply" /\ Statement.op = "return" => Statement.cat # "would"
<1>1. FrameOK(Top) /\ Top.def \in Names
  BY TopOK
<1>2. Top.rest \in Seq(Statements) /\ Top.stage \in Stages
  BY <1>1 DEF FrameOK, Frames
<1>3. /\ Statement \in Statements /\ Statement \in Elements(Top.rest)
      /\ Tail(Top.rest) \in Seq(Statements) /\ Elements(Tail(Top.rest)) \subseteq Elements(Top.rest)
  BY <1>2, TailOK DEF Statement
<1>4. /\ Top.stage # "delegated" /\ From(Statement, Top.def, Source(Top.stage))
      /\ Top.stage = "try" => Statement.op \notin {"test", "set", "call"}
  BY <1>1, <1>3 DEF FrameOK
<1> DEFINE src == Source(Top.stage)
<1>5. /\ PhasesOnlyLook /\ src \in {"check", "preview"} => Statement.op # "set"
      /\ ChecksOnlyAsk /\ src = "check" =>
           Statement.op \in {"test", "stop", "return"}
             \/ (Statement.op = "call" /\ Question(Statement.def))
      /\ WouldIsDerived /\ src = "apply" /\ Statement.op = "return" => Statement.cat # "would"
  BY <1>1, <1>4, ConventionsOK
<1>6. /\ Top.stage = "decide" => src = "check"
      /\ Top.stage = "preview" => src = "preview"
      /\ Top.stage \in {"apply", "try"} => src = "apply"
  BY DEF Source
<1>7. Top.stage = "apply" => mode = "apply"
  BY <1>1 DEF FrameOK, TypeFrame
<1>8. PhasesOnlyLook /\ mode = "check" => Statement.op # "set"
  BY <1>2, <1>4, <1>5, <1>6, <1>7 DEF Stages
<1>9. Authored => Top.stage \in {"decide", "apply"}
  BY <1>4, TopOK
<1> QED BY <1>3, <1>4, <1>5, <1>6, <1>8, <1>9 DEF Authored

LEMMA NothingSaid == ~Says(NoOutcome) /\ ~Says(Already) /\ Says(Failure)
BY ConstantsOK DEF Says

(* A frame that has evaluated a statement.                                 *)
LEMMA ContinueOK ==
  ASSUME EvalInv, Quiet, Busy, Top.rest # <<>>,
         NEW last \in Lasts, NEW acted \in BOOLEAN, Continue(last, acted),
         Authored => host' = host \/ (acted /\ Top.stage = "apply")
  PROVE  \E f : Moves(f)
<1> DEFINE rest == Tail(Top.rest)
           f == [Top EXCEPT !.rest = rest, !.last = last, !.acted = @ \/ acted]
<1>1. /\ stack # <<>> /\ ret = NoOutcome /\ FrameOK(Top) /\ Top \in Frames
      /\ rest \in Seq(Statements) /\ Elements(rest) \subseteq Elements(Top.rest)
  BY TopOK, StatementIsOK DEF Busy, FrameOK
<1>2. SetTop(f) /\ ret' = NoOutcome
  BY <1>1 DEF Continue
<1> HIDE DEF rest
<1>3. f.def = Top.def /\ f.stage = Top.stage /\ f.acted = (Top.acted \/ acted)
  BY <1>1 DEF Frames
<1>4. FrameOK(f)
  <2>1. Top.phases \in Seq(Phases) /\ (Top.acted \/ acted) \in BOOLEAN
    BY <1>1 DEF Frames
  <2>2. FrameOK([Top EXCEPT !.rest = rest, !.phases = Top.phases,
                            !.acted = Top.acted \/ acted, !.last = last])
    BY <1>1, <2>1, GoesOnOK
  <2>3. f = [Top EXCEPT !.rest = rest, !.phases = Top.phases,
                        !.acted = Top.acted \/ acted, !.last = last]
    BY <1>1 DEF Frames
  <2> QED BY <2>2, <2>3
<1> HIDE DEF f
<1>5. Moves(f)
  BY <1>1, <1>2, <1>3, <1>4, NothingSaid DEF Moves, Acted
<1> QED BY <1>5

(* A frame that fails.                                                     *)
LEMMA FailOK ==
  ASSUME EvalInv, Busy, Leave(Failure)
  PROVE  \E r : Leaves(r)
<1>1. Leaves(Failure)
  BY ConstantsOK, NothingSaid DEF Leaves, Busy
<1> QED BY <1>1

LEMMA StaysQuiet ==
  ASSUME EvalInv, UNCHANGED <<host, mode, log>>
  PROVE  Quiet
BY DEF EvalInv, Calls, Quiet

LEMMA SkipKind ==
  ASSUME EvalInv, SkipStatement PROVE StepKind
<1>1. Quiet
  BY StaysQuiet DEF SkipStatement
<1>2. Busy /\ Top.rest # <<>> /\ FrameOK(Top) /\ Top \in Frames
  BY TopOK DEF SkipStatement, Busy, FrameOK
<1>3. Continue(Top.last, FALSE)
  <2>1. [Top EXCEPT !.rest = Tail(@)]
          = [Top EXCEPT !.rest = Tail(@), !.last = Top.last, !.acted = @ \/ FALSE]
    <3>1. Top.acted \in BOOLEAN
      BY <1>2 DEF Frames
    <3> QED BY <1>2, <3>1 DEF Frames
  <2> QED BY <2>1 DEF SkipStatement, Continue
<1>4. \E f : Moves(f)
  <2>1. Top.last \in Lasts
    BY <1>2 DEF Frames
  <2>2. host' = host
    BY DEF SkipStatement
  <2> QED BY <1>1, <1>2, <1>3, <2>1, <2>2, ContinueOK
<1> QED BY <1>1, <1>4 DEF StepKind

LEMMA TestKind ==
  ASSUME EvalInv, Test PROVE StepKind
<1>1. Quiet /\ host' = host
  BY StaysQuiet DEF Test
<1>2. Busy /\ Top.rest # <<>>
  BY DEF Test, Due
<1>3. PICK last \in Lasts : Continue(last, TRUE)
  BY DEF Test, Lasts
<1>4. \E f : Moves(f)
  BY <1>1, <1>2, <1>3, ContinueOK
<1> QED BY <1>1, <1>4 DEF StepKind

(* What acts in an apply tells.                                            *)
LEMMA ActingOK ==
  ASSUME EvalInv, Busy, Top.rest # <<>>, Statement.op \in {"set", "write", "sync"}
  PROVE  /\ Authored => Top.stage = "apply"
         /\ Statement.path \in Paths /\ Statement.value \in Values
         /\ Put => host' \in [Paths -> Values]
<1>1. stack # <<>>
  BY DEF Busy
<1>2. Authored => Top.stage = "apply"
  BY <1>1, StatementIsOK
<1>3. Statement.path \in Paths /\ Statement.value \in Values
  BY <1>1, StatementIsOK, StatementOK
<1>4. Put => host' \in [Paths -> Values]
  BY <1>3 DEF Put, EvalInv, Calls
<1> QED BY <1>2, <1>3, <1>4

LEMMA SetKind ==
  ASSUME EvalInv, Set PROVE StepKind
<1>1. Busy /\ Top.rest # <<>> /\ Statement.op = "set"
  BY DEF Set, Due
<1>2. Authored => Top.stage = "apply"
  BY <1>1, ActingOK
<1>3. Quiet
  <2>1. host' \in [Paths -> Values]
    BY <1>1, ActingOK DEF Set, EvalInv, Calls
  <2>2. ~(PhasesOnlyLook /\ mode = "check")
    BY <1>1, StatementIsOK DEF Busy
  <2> QED BY <2>1, <2>2 DEF Set, Quiet
<1>4. PICK exit \in {"ok", "err"} : Continue(exit, TRUE)
  BY DEF Set
<1>5. exit \in Lasts
  BY DEF Lasts
<1>6. \E f : Moves(f)
  BY <1>1, <1>2, <1>3, <1>4, <1>5, ContinueOK
<1> QED BY <1>3, <1>6 DEF StepKind

LEMMA WriteKind ==
  ASSUME EvalInv, Write PROVE StepKind
<1>1. Busy /\ Top.rest # <<>> /\ Statement.op = "write" /\ mode' = mode /\ log' = log
  BY DEF Write, Due
<1>2. /\ Authored => Top.stage = "apply"
      /\ Statement.path \in Paths /\ Statement.value \in Values
      /\ Put => host' \in [Paths -> Values]
  BY <1>1, ActingOK
<1>3. host \in [Paths -> Values]
  BY DEF EvalInv, Calls
<1>4. CASE Leave(Failure) /\ UNCHANGED host
  <2>1. Quiet
    BY <1>1, <1>4, StaysQuiet
  <2> QED BY <1>1, <1>4, <2>1, FailOK DEF StepKind
<1>5. CASE /\ Continue(IF InPlace THEN "0" ELSE "1", ~InPlace)
           /\ IF mode = "apply" THEN Put ELSE UNCHANGED host
  <2>1. Quiet
    BY <1>1, <1>2, <1>3, <1>5 DEF Quiet
  <2>2. InPlace /\ Put => host' = host
    BY <1>2, <1>3 DEF InPlace, Put
  <2>3. Authored => host' = host \/ (~InPlace /\ Top.stage = "apply")
    BY <1>2, <1>5, <2>2
  <2>4. (~InPlace) \in BOOLEAN /\ (IF InPlace THEN "0" ELSE "1") \in Lasts
    BY DEF InPlace, Lasts
  <2>5. \E f : Moves(f)
    BY <1>1, <1>5, <2>1, <2>3, <2>4, ContinueOK
  <2> QED BY <2>1, <2>5 DEF StepKind
<1> QED BY <1>4, <1>5 DEF Write

LEMMA SyncKind ==
  ASSUME EvalInv, Sync PROVE StepKind
<1>1. Busy /\ Top.rest # <<>> /\ Statement.op = "sync" /\ mode' = mode /\ log' = log
  BY DEF Sync, Due
<1>2. /\ Authored => Top.stage = "apply"
      /\ Statement.path \in Paths /\ Statement.value \in Values
      /\ Put => host' \in [Paths -> Values]
  BY <1>1, ActingOK
<1>3. host \in [Paths -> Values]
  BY DEF EvalInv, Calls
<1>4. (~InPlace) \in BOOLEAN /\ (IF InPlace THEN "0" ELSE "1") \in Lasts /\ "summary" \in Lasts
  BY DEF InPlace, Lasts
<1>5. InPlace /\ Put => host' = host
  BY <1>2, <1>3 DEF InPlace, Put
<1>6. Quiet
  <2>1. host' = host \/ Put
    BY DEF Sync
  <2>2. mode = "check" => host' = host
    BY DEF Sync
  <2> QED BY <1>1, <1>2, <1>3, <2>1, <2>2 DEF Quiet
<1>7. CASE Leave(Failure)
  BY <1>1, <1>6, <1>7, FailOK DEF StepKind
<1>8. CASE mode = "check" /\ Continue("summary", ~InPlace)
  <2>1. ~Authored
    BY <1>8 DEF Authored
  <2>2. \E f : Moves(f)
    BY <1>1, <1>4, <1>6, <1>8, <2>1, ContinueOK
  <2> QED BY <1>6, <2>2 DEF StepKind
<1>9. CASE Put /\ Continue(IF InPlace THEN "0" ELSE "1", ~InPlace)
  <2>1. Authored => host' = host \/ (~InPlace /\ Top.stage = "apply")
    BY <1>2, <1>5, <1>9
  <2>2. \E f : Moves(f)
    BY <1>1, <1>4, <1>6, <1>9, <2>1, ContinueOK
  <2> QED BY <1>6, <2>2 DEF StepKind
<1> QED BY <1>7, <1>8, <1>9 DEF Sync

(* A call is made by a frame that goes on as f, or fails as a cycle.       *)
LEMMA CallOK ==
  ASSUME EvalInv, Busy, UNCHANGED <<host, mode, log>>,
         NEW n \in Names, NEW f, FrameOK(f), f.def = Top.def, Call(n, f),
         f.stage = "delegated" => n = Defs[f.def].delegate,
         f.stage = "apply" => Top.stage = "apply",
         Authored =>
           /\ Acted(Top) => Acted(f)
           /\ f.stage = "decide" => Top.stage = "decide" /\ Question(n)
           /\ Top.stage = "decide" /\ Question(Top.def) => f.stage = "decide"
  PROVE  StepKind
<1>1. Quiet
  BY StaysQuiet
<1>2. CASE \E i \in DOMAIN stack : stack[i].def = n
  <2>1. Leave(Failure)
    BY <1>2 DEF Call
  <2> QED BY <1>1, <2>1, FailOK DEF StepKind
<1>3. CASE ~\E i \in DOMAIN stack : stack[i].def = n
  <2>1. stack' = <<Frame(n, mode), f>> \o Tail(stack) /\ ret' = ret
    BY <1>3 DEF Call
  <2>2. \A i \in 1 .. Len(stack) : stack[i].def # n
    <3>1. DOMAIN stack = 1 .. Len(stack)
      BY DEF EvalInv, Calls
    <3> QED BY <1>3, <3>1
  <2>3. Pushes(n, f)
    BY <2>1, <2>2 DEF Pushes, Busy
  <2> QED BY <1>1, <2>3 DEF StepKind
<1> QED BY <1>2, <1>3

LEMMA CallDefKind ==
  ASSUME EvalInv, CallDef PROVE StepKind
<1> DEFINE rest == Tail(Top.rest)
           f == [Top EXCEPT !.rest = rest]
<1>1. Busy /\ Top.rest # <<>> /\ Statement.op = "call" /\ UNCHANGED <<host, mode, log>>
  BY DEF CallDef, Due
<1>2. /\ FrameOK(Top) /\ Top \in Frames /\ Statement.def \in Names
      /\ rest \in Seq(Statements) /\ Elements(rest) \subseteq Elements(Top.rest)
      /\ Authored /\ Top.stage = "decide" => Question(Statement.def)
      /\ Top.stage # "delegated"
  BY <1>1, TopOK, StatementIsOK, StatementOK DEF Busy, FrameOK
<1>3. Call(Statement.def, f)
  BY DEF CallDef
<1> HIDE DEF rest
<1>4. /\ f.def = Top.def /\ f.stage = Top.stage /\ f.acted = Top.acted
      /\ f = [Top EXCEPT !.rest = rest, !.phases = Top.phases, !.acted = Top.acted, !.last = Top.last]
      /\ Top.phases \in Seq(Phases) /\ Top.acted \in BOOLEAN /\ Top.last \in Lasts
  BY <1>2 DEF Frames
<1>5. FrameOK(f)
  <2>1. FrameOK([Top EXCEPT !.rest = rest, !.phases = Top.phases, !.acted = Top.acted,
                            !.last = Top.last])
    BY <1>2, <1>4, GoesOnOK
  <2> QED BY <1>4, <2>1
<1> HIDE DEF f
<1> QED BY <1>1, <1>2, <1>3, <1>4, <1>5, CallOK DEF Acted

LEMMA StopKind ==
  ASSUME EvalInv, Stop PROVE StepKind
BY StaysQuiet, FailOK DEF Stop, Due, StepKind

(* What an apply says of what it did.                                      *)
LEMMA ConfirmedOK ==
  ASSUME NEW r \in Outcomes, Top.acted \in BOOLEAN
  PROVE  /\ Confirmed(r) \in Outcomes /\ Confirmed(r).cat \in {r.cat, "err"}
         /\ Top.acted /\ r.cat \in {"ok", "err"} => Says(Confirmed(r))
         /\ Confirmed(r).cat = "ok" /\ Confirmed(r).changed /\ Observes(Top.def) =>
              Settled(host, Top.def)
<1>1. Outcome("err", "unconfirmed") \in Outcomes /\ Says(Outcome("err", "unconfirmed"))
      /\ Outcome("err", "unconfirmed").cat = "err"
  BY NameAssumption, OutcomeOK DEF Says
<1> DEFINE c == (r.cat = "ok" /\ Top.acted)
           s == [r EXCEPT !.changed = c]
<1>2. s \in Outcomes /\ s.changed = c /\ s.cat = r.cat
  <2>1. c \in BOOLEAN
    OBVIOUS
  <2> HIDE DEF c
  <2> QED BY <2>1 DEF Outcomes
<1>3. Top.acted /\ r.cat \in {"ok", "err"} => Says(s)
  BY <1>2 DEF Says
<1>4. \/ Confirmed(r) = Outcome("err", "unconfirmed")
      \/ Confirmed(r) = s /\ (c /\ Observes(Top.def) => Settled(host, Top.def))
  BY DEF Confirmed, Settled
<1> HIDE DEF s
<1> QED BY <1>1, <1>2, <1>3, <1>4

LEMMA AnnounceOK ==
  ASSUME EvalInv, Quiet, Busy, mode = "check", NEW tag \in Tags \cup {NoTag}, Announce(tag)
  PROVE  \E f : Moves(f)
<1> DEFINE v == [Outcome("would", tag) EXCEPT !.changed = TRUE]
           ps == Named(Top.def, {"preview"})
           f == [Top EXCEPT !.stage = "preview", !.rest = <<>>, !.phases = ps, !.verdict = v]
<1>1. stack # <<>> /\ ret = NoOutcome /\ FrameOK(Top) /\ Top.def \in Names /\ Top \in Frames
  BY TopOK DEF Busy, FrameOK
<1>2. v \in Outcomes /\ v.cat = "would"
  <2>1. v \in Outcomes
    BY OutcomeOK
  <2>2. v.cat = "would"
    BY DEF Outcome
  <2> QED BY <2>1, <2>2
<1>3. ps \in Seq(Phases) /\ Elements(ps) = Of(Top.def, {"preview"})
  BY <1>1, NamedOK
<1>4. SetTop(f) /\ ret' = NoOutcome
  BY <1>1 DEF Announce
<1> HIDE DEF v, ps
<1>5. /\ f \in Frames /\ f.def = Top.def /\ f.stage = "preview" /\ f.rest = <<>> /\ f.phases = ps
      /\ f.verdict = v /\ f.acted = Top.acted /\ f.last = Top.last
  <2>1. <<>> \in Seq(Statements) /\ "preview" \in Stages
    BY DEF Stages
  <2> QED BY <1>1, <1>2, <1>3, <2>1 DEF Frames
<1> HIDE DEF f
<1>6. TypeFrame(f)
  BY <1>1, <1>2, <1>5 DEF TypeFrame, FrameOK, Stages
<1>7. Elements(f.rest) = {}
  BY <1>5 DEF Elements
<1>8. FrameOK(f)
  BY <1>2, <1>3, <1>5, <1>6, <1>7 DEF FrameOK
<1>9. Moves(f)
  BY <1>1, <1>4, <1>5, <1>8 DEF Moves, Authored
<1> QED BY <1>9

LEMMA ReturnKind ==
  ASSUME EvalInv, Return PROVE StepKind
<1> DEFINE r == Outcome(Statement.cat, Statement.tag)
<1>1. /\ Busy /\ stack # <<>> /\ ret = NoOutcome /\ Top.rest # <<>>
      /\ Statement.op = "return" /\ UNCHANGED <<host, mode, log>>
  BY DEF Return, Due, Busy
<1>2. Quiet /\ host' = host
  BY <1>1, StaysQuiet
<1>3. /\ Statement \in Statements /\ FrameOK(Top) /\ Top \in Frames /\ Top.def \in Names
      /\ Top.stage # "delegated" /\ Top.stage \in Stages
  BY <1>1, StatementIsOK, TopOK DEF FrameOK, TypeFrame
<1>4. Statement.cat \in {"ok", "err", "would"} /\ Statement.tag \in Tags \cup {NoTag}
  BY <1>1, <1>3, StatementOK
<1>5. r \in Outcomes /\ ~r.changed /\ r.cat = Statement.cat /\ r.tag = Statement.tag
  BY <1>4, OutcomeOK
<1>6. CASE Top.stage = "decide"
  <2>1. Leave(Softened(r))
    BY <1>6 DEF Return
  <2>2. Softened(r) \in Outcomes /\ ~Softened(r).changed /\ Softened(r) # NoOutcome
    <3>1. /\ Outcome("would", NoTag) \in Outcomes /\ ~Outcome("would", NoTag).changed
          /\ Outcome("would", NoTag) # NoOutcome /\ r # NoOutcome
      BY <1>4, <1>5, OutcomeOK, NotNothing
    <3> QED BY <1>5, <3>1 DEF Softened
  <2>3. ~Acted(Top) /\ ~Says(ret)
    BY <1>1, <1>6, NothingSaid DEF Acted
  <2>4. Leaves(Softened(r))
    BY <1>1, <1>2, <2>1, <2>2, <2>3 DEF Leaves
  <2> QED BY <1>2, <2>4 DEF StepKind
<1>7. CASE Top.stage = "try"
  <2>1. mode = "check"
    BY <1>3, <1>7 DEF FrameOK, TypeFrame
  <2>2. CASE ~Top.acted
    <3>1. Leave(Already)
      BY <1>7, <2>2 DEF Return
    <3>2. Leaves(Already)
      BY <1>1, <2>1, <3>1, ConstantsOK DEF Leaves, Authored
    <3> QED BY <1>2, <3>2 DEF StepKind
  <2>3. CASE Top.acted
    <3> DEFINE tag == IF r.cat = "ok" /\ r.tag # NoTag THEN r.tag ELSE NominalTag(Top.def)
    <3>1. Announce(tag)
      BY <1>7, <2>3 DEF Return
    <3>2. tag \in Tags \cup {NoTag}
      BY <1>3, <1>4, <1>5, NominalOK
    <3> HIDE DEF tag
    <3>3. \E f : Moves(f)
      BY <1>1, <1>2, <2>1, <3>1, <3>2, AnnounceOK
    <3> QED BY <1>2, <3>3 DEF StepKind
  <2> QED BY <2>2, <2>3
<1>8. CASE Top.stage = "preview"
  <2>1. Continue(Top.last, FALSE) /\ Top.last \in Lasts
    BY <1>3, <1>8 DEF Return, Frames
  <2>2. \E f : Moves(f)
    BY <1>1, <1>2, <2>1, ContinueOK
  <2> QED BY <1>2, <2>2 DEF StepKind
<1>9. CASE Top.stage = "apply"
  <2>1. Leave(Confirmed(r))
    BY <1>9 DEF Return
  <2>2. Top.acted \in BOOLEAN
    BY <1>3 DEF Frames
  <2>3. /\ Confirmed(r) \in Outcomes
        /\ Top.acted /\ r.cat \in {"ok", "err"} => Says(Confirmed(r))
        /\ Confirmed(r).cat = "ok" /\ Confirmed(r).changed /\ Observes(Top.def) =>
             Settled(host, Top.def)
        /\ Confirmed(r).cat \in {r.cat, "err"}
    BY <1>5, <2>2, ConfirmedOK
  <2>4. Authored => r.cat \in {"ok", "err"}
    BY <1>1, <1>4, <1>5, <1>9, StatementIsOK
  <2>5. Leaves(Confirmed(r))
    <3> HIDE DEF r
    <3>1. Confirmed(r) # NoOutcome
      BY <1>4, <1>5, <2>3, NotNothing
    <3> QED BY <3>1, <1>1, <1>2, <1>9, <2>1, <2>3, <2>4, NothingSaid DEF Leaves, Acted
  <2> QED BY <1>2, <2>5 DEF StepKind
<1> QED BY <1>3, <1>6, <1>7, <1>8, <1>9 DEF Stages

LEMMA OpenPhaseKind ==
  ASSUME EvalInv, OpenPhase PROVE StepKind
<1> DEFINE ph == Head(Top.phases)
           phs == Tail(Top.phases)
           f == [Top EXCEPT !.rest = ph.body, !.phases = phs]
<1>1. /\ stack # <<>> /\ ret = NoOutcome /\ Top.rest = <<>> /\ Top.phases # <<>>
      /\ ph.name # "observe" /\ UNCHANGED <<host, mode, ret, log>>
  BY DEF OpenPhase, Between, Busy
<1>2. Quiet
  BY <1>1, StaysQuiet
<1>3. /\ FrameOK(Top) /\ Top \in Frames /\ TypeFrame(Top) /\ Top.def \in Names
      /\ Top.phases \in Seq(Phases)
  BY <1>1, TopOK DEF FrameOK, Frames
<1>4. /\ phs \in Seq(Phases) /\ ph \in Phases /\ ph \in Elements(Top.phases)
      /\ Elements(phs) \subseteq Elements(Top.phases)
  BY <1>1, <1>3, TailOK
<1>5. SetTop(f)
  BY DEF OpenPhase
<1> HIDE DEF ph, phs
<1>6. \/ Top.stage = "decide" /\ ph \in Of(Top.def, {"check"})
      \/ Top.stage = "preview" /\ ph \in Of(Top.def, {"preview"})
  BY <1>1, <1>3, <1>4 DEF FrameOK, Of
<1>7. ph.body \in Seq(Statements)
  BY <1>1, <1>4, PhaseOK
<1>8. \A s \in Elements(ph.body) : From(s, Top.def, Source(Top.stage))
  BY <1>6 DEF From, Source
<1>9. /\ f \in Frames /\ f.rest = ph.body /\ f.phases = phs /\ f.stage = Top.stage
      /\ f.def = Top.def /\ f.acted = Top.acted /\ f.last = Top.last /\ f.verdict = Top.verdict
  BY <1>3, <1>4, <1>7 DEF Frames
<1> HIDE DEF f
<1>10. TypeFrame(f)
  BY <1>3, <1>9 DEF TypeFrame
<1>11. FrameOK(f)
  BY <1>3, <1>4, <1>6, <1>8, <1>9, <1>10 DEF FrameOK
<1>12. Moves(f)
  BY <1>1, <1>5, <1>9, <1>11, NothingSaid DEF Moves, Acted
<1> QED BY <1>2, <1>12 DEF StepKind

LEMMA ObserveKind ==
  ASSUME EvalInv, Observe PROVE StepKind
<1> DEFINE phs == Tail(Top.phases)
           f == [Top EXCEPT !.phases = phs]
<1>1. /\ stack # <<>> /\ ret = NoOutcome /\ Top.phases # <<>>
      /\ Head(Top.phases).name = "observe" /\ UNCHANGED <<host, mode, log>>
  BY DEF Observe, Between, Busy
<1>2. Quiet
  BY <1>1, StaysQuiet
<1>3. /\ FrameOK(Top) /\ Top \in Frames /\ Top.phases \in Seq(Phases)
      /\ Top.rest \in Seq(Statements) /\ Top.acted \in BOOLEAN /\ Top.last \in Lasts
  BY <1>1, TopOK DEF FrameOK, Frames
<1>4. /\ phs \in Seq(Phases) /\ Head(Top.phases) \in Elements(Top.phases)
      /\ Elements(phs) \subseteq Elements(Top.phases)
  BY <1>1, <1>3, TailOK
<1>5. Top.stage = "decide"
  BY <1>1, <1>3, <1>4 DEF FrameOK, Of
<1>6. CASE Leave(Already)
  <2>1. Leaves(Already)
    BY <1>1, <1>5, <1>6, ConstantsOK, NothingSaid DEF Leaves, Acted
  <2> QED BY <1>2, <2>1 DEF StepKind
<1>7. CASE SetTop(f) /\ ret' = ret
  <2>1. FrameOK([Top EXCEPT !.rest = Top.rest, !.phases = phs, !.acted = Top.acted,
                            !.last = Top.last])
    BY <1>3, <1>4, GoesOnOK
  <2> HIDE DEF phs
  <2>2. /\ f = [Top EXCEPT !.rest = Top.rest, !.phases = phs, !.acted = Top.acted,
                           !.last = Top.last]
        /\ f.def = Top.def /\ f.stage = Top.stage /\ f.acted = Top.acted
    BY <1>3 DEF Frames
  <2>3. FrameOK(f)
    BY <2>1, <2>2
  <2> HIDE DEF f
  <2>4. Moves(f)
    BY <1>1, <1>7, <2>2, <2>3, NothingSaid DEF Moves, Acted
  <2> QED BY <1>2, <2>4 DEF StepKind
<1> QED BY <1>6, <1>7 DEF Observe

LEMMA DelegateKind ==
  ASSUME EvalInv, Delegate PROVE StepKind
<1> DEFINE n == Defs[Top.def].delegate
           f == [Top EXCEPT !.stage = "delegated"]
<1>1. /\ Busy /\ Top.rest = <<>> /\ Top.phases = <<>> /\ Top.stage = "decide"
      /\ n # NoName /\ Call(n, f) /\ UNCHANGED <<host, mode, log>>
  BY DEF Delegate, Undecided, Between
<1>2. FrameOK(Top) /\ Top \in Frames /\ TypeFrame(Top) /\ Top.def \in Names
  BY <1>1, TopOK DEF FrameOK, Busy
<1>3. n \in Names
  BY <1>1, <1>2, DefOK
<1>4. ~Question(Top.def)
  BY <1>1, <1>2, QuestionOK
<1> HIDE DEF n
<1>5. /\ f \in Frames /\ f.stage = "delegated" /\ f.def = Top.def /\ f.rest = <<>>
      /\ f.phases = <<>> /\ f.acted = Top.acted /\ f.last = Top.last /\ f.verdict = Top.verdict
  BY <1>1, <1>2 DEF Frames, Stages
<1>6. Defs[Top.def].delegate # NoName /\ n = Defs[f.def].delegate
  BY <1>1, <1>5 DEF n
<1> HIDE DEF f
<1>7. TypeFrame(f)
  BY <1>2, <1>5, <1>6 DEF TypeFrame, Stages
<1>8. Elements(f.rest) = {} /\ Elements(f.phases) = {}
  BY <1>5 DEF Elements
<1>9. FrameOK(f)
  BY <1>5, <1>7, <1>8 DEF FrameOK
<1> QED BY <1>1, <1>3, <1>4, <1>5, <1>6, <1>9, CallOK DEF Acted

LEMMA ReportKind ==
  ASSUME EvalInv, Report PROVE StepKind
<1>1. stack # <<>> /\ mode = "status" /\ UNCHANGED <<host, mode, log>>
  BY DEF Report, DecidesItself, Undecided, Between, Busy
<1>2. Quiet
  BY <1>1, StaysQuiet
<1>3. /\ Outcome("ok", "action") \in Outcomes /\ Outcome("ok", NoTag) \in Outcomes
      /\ Outcome("would", NoTag) \in Outcomes
      /\ Outcome("ok", "action") # NoOutcome /\ Outcome("ok", NoTag) # NoOutcome
      /\ Outcome("would", NoTag) # NoOutcome
  BY NameAssumption, OutcomeOK, NotNothing
<1>4. PICK r \in Outcomes : r # NoOutcome /\ Leave(r)
  BY <1>3 DEF Report
<1>5. Leaves(r)
  BY <1>1, <1>4 DEF Leaves, Authored
<1> QED BY <1>2, <1>5 DEF StepKind

LEMMA PreviewOverKind ==
  ASSUME EvalInv, PreviewOver PROVE StepKind
<1>1. /\ stack # <<>> /\ Top.stage = "preview" /\ Leave(Top.verdict)
      /\ UNCHANGED <<host, mode, log>>
  BY DEF PreviewOver, Between, Busy
<1>2. Quiet
  BY <1>1, StaysQuiet
<1>3. FrameOK(Top)
  BY <1>1, TopOK
<1>4. mode = "check" /\ Top.verdict \in Outcomes /\ Top.verdict # NoOutcome
  BY <1>1, <1>3, NotNothing DEF FrameOK, TypeFrame
<1>5. Leaves(Top.verdict)
  BY <1>1, <1>4 DEF Leaves, Authored
<1> QED BY <1>2, <1>5 DEF StepKind

(* A pass that begins, over the body of an apply.                          *)
LEMMA EnterOK ==
  ASSUME EvalInv, Busy, Top.phases = <<>>, NEW stage \in {"try", "apply"},
         stage = "try" => mode = "check", stage = "apply" => mode = "apply",
         NEW ph \in Of(Top.def, {"apply"}), ph.body \in Seq(Statements),
         stage = "try" => \A i \in DOMAIN ph.body : ph.body[i].op \notin {"test", "set", "call"},
         NEW f, f = [Top EXCEPT !.stage = stage, !.acted = FALSE, !.rest = ph.body]
  PROVE  FrameOK(f) /\ f.def = Top.def /\ f.stage = stage
<1>1. FrameOK(Top) /\ Top \in Frames /\ TypeFrame(Top)
  BY TopOK DEF FrameOK, Busy
<1>2. /\ f \in Frames /\ f.stage = stage /\ f.def = Top.def /\ f.rest = ph.body
      /\ f.phases = <<>> /\ f.acted = FALSE /\ f.last = Top.last /\ f.verdict = Top.verdict
  <2>1. stage \in Stages
    BY DEF Stages
  <2> QED BY <1>1, <2>1 DEF Frames
<1>3. TypeFrame(f)
  BY <1>1, <1>2 DEF TypeFrame, Stages
<1>4. Elements(f.phases) = {}
  BY <1>2 DEF Elements
<1>5. ASSUME NEW s \in Elements(f.rest)
      PROVE  /\ From(s, f.def, Source(f.stage))
             /\ f.stage = "try" => s.op \notin {"test", "set", "call"}
  <2>1. s \in Elements(ph.body)
    BY <1>2
  <2>2. Source(f.stage) = "apply"
    BY <1>2 DEF Source
  <2>3. From(s, f.def, Source(f.stage))
    BY <1>2, <2>1, <2>2 DEF From
  <2>4. f.stage = "try" => s.op \notin {"test", "set", "call"}
    BY <1>2, <2>1 DEF Elements
  <2> QED BY <2>3, <2>4
<1> QED BY <1>2, <1>3, <1>4, <1>5 DEF FrameOK

LEMMA ForeseeKind ==
  ASSUME EvalInv, Foresee PROVE StepKind
<1>1. /\ Busy /\ stack # <<>> /\ ret = NoOutcome /\ Top.phases = <<>> /\ mode = "check"
      /\ UNCHANGED <<host, mode, log>>
  BY DEF Foresee, DecidesItself, Undecided, Between, Busy
<1>2. Quiet
  BY <1>1, StaysQuiet
<1>3. Top.def \in Names
  BY <1>1, TopOK
<1>4. CASE Inert(Top.def)
  <2> DEFINE ph == LastOf(Named(Top.def, {"apply"}))
             f == [Top EXCEPT !.stage = "try", !.acted = FALSE, !.rest = ph.body]
  <2>1. SetTop(f) /\ ret' = ret
    BY <1>4 DEF Foresee
  <2>2. ph \in Of(Top.def, {"apply"}) /\ ph.body \in Seq(Statements)
    BY <1>3, <1>4, EndsOfNamed DEF Inert
  <2>3. \A i \in DOMAIN ph.body : ph.body[i].op \notin {"test", "set", "call"}
    BY <1>4 DEF Inert
  <2> HIDE DEF ph
  <2>4. FrameOK(f) /\ f.def = Top.def /\ f.stage = "try"
    BY <1>1, <2>2, <2>3, EnterOK
  <2> HIDE DEF f
  <2>5. Moves(f)
    BY <1>1, <2>1, <2>4 DEF Moves, Authored
  <2> QED BY <1>2, <2>5 DEF StepKind
<1>5. CASE ~Inert(Top.def)
  <2>1. Announce(NominalTag(Top.def))
    BY <1>5 DEF Foresee
  <2>2. \E f : Moves(f)
    BY <1>1, <1>2, <1>3, <2>1, NominalOK, AnnounceOK
  <2> QED BY <1>2, <2>2 DEF StepKind
<1> QED BY <1>4, <1>5

LEMMA ActKind ==
  ASSUME EvalInv, Act PROVE StepKind
<1>1. /\ Busy /\ stack # <<>> /\ ret = NoOutcome /\ Top.phases = <<>> /\ mode = "apply"
      /\ Top.stage = "decide" /\ Defs[Top.def].delegate = NoName /\ UNCHANGED <<host, mode, log>>
  BY DEF Act, DecidesItself, Undecided, Between, Busy
<1>2. Quiet /\ ~Acted(Top) /\ ~Says(ret)
  BY <1>1, StaysQuiet, NothingSaid DEF Acted
<1>3. Top.def \in Names
  BY <1>1, TopOK
<1>4. CASE Named(Top.def, {"apply"}) = <<>>
  <2>1. Leave(Outcome("ok", NoTag))
    BY <1>4 DEF Act
  <2>2. Leaves(Outcome("ok", NoTag))
    BY <1>1, <1>2, <2>1, OutcomeOK, NotNothing DEF Leaves
  <2> QED BY <1>2, <2>2 DEF StepKind
<1>5. CASE Named(Top.def, {"apply"}) # <<>>
  <2> DEFINE ph == Head(Named(Top.def, {"apply"}))
             f == [Top EXCEPT !.stage = "apply", !.acted = FALSE, !.rest = ph.body]
  <2>1. SetTop(f) /\ ret' = ret
    BY <1>5 DEF Act
  <2>2. ph \in Of(Top.def, {"apply"}) /\ ph.body \in Seq(Statements)
    BY <1>3, <1>5, EndsOfNamed
  <2>3. ~Question(Top.def)
    BY <1>3, <1>5, QuestionOK
  <2> HIDE DEF ph
  <2>4. FrameOK(f) /\ f.def = Top.def /\ f.stage = "apply"
    BY <1>1, <2>2, EnterOK
  <2> HIDE DEF f
  <2>5. Moves(f)
    BY <1>1, <1>2, <2>1, <2>3, <2>4 DEF Moves
  <2> QED BY <1>2, <2>5 DEF StepKind
<1> QED BY <1>4, <1>5

LEMMA ReceiveKind ==
  ASSUME EvalInv, Receive PROVE StepKind
<1> DEFINE f == [Top EXCEPT !.acted = @ \/ ret.changed, !.last = "called"]
<1>1. stack # <<>> /\ ret # NoOutcome /\ UNCHANGED <<host, mode, log>>
  BY DEF Receive
<1>2. Quiet /\ ret \in Outcomes
  BY <1>1, StaysQuiet DEF EvalInv, Calls
<1>3. Authored /\ Top.stage = "decide" => ~ret.changed
  BY <1>1 DEF EvalInv, Told, Authored, InCall
<1>4. /\ FrameOK(Top) /\ Top \in Frames
      /\ Authored => Top.stage \in {"decide", "apply", "delegated"}
  BY <1>1, TopOK DEF FrameOK
<1>5. CASE Leave(ret) /\ (ret.cat \in {"err", "fail"} \/ Top.stage = "delegated")
  <2>1. Leaves(ret)
    BY <1>1, <1>2, <1>3, <1>5 DEF Leaves, Acted, Says
  <2> QED BY <1>2, <2>1 DEF StepKind
<1>6. CASE /\ SetTop(f) /\ ret' = NoOutcome
           /\ ret.cat \notin {"err", "fail"} /\ Top.stage # "delegated"
  <2> DEFINE acted == Top.acted \/ ret.changed
  <2>1. /\ acted \in BOOLEAN /\ "called" \in Lasts
        /\ Top.rest \in Seq(Statements) /\ Top.phases \in Seq(Phases)
    BY <1>2, <1>4 DEF Outcomes, Frames, Lasts
  <2>2. f = [Top EXCEPT !.rest = Top.rest, !.phases = Top.phases, !.acted = acted, !.last = "called"]
    BY <1>4 DEF Frames
  <2>3. f.def = Top.def /\ f.stage = Top.stage /\ f.acted = acted
    BY <1>4 DEF Frames
  <2> HIDE DEF acted
  <2>4. FrameOK([Top EXCEPT !.rest = Top.rest, !.phases = Top.phases, !.acted = acted, !.last = "called"])
    BY <1>4, <2>1, GoesOnOK
  <2>5. FrameOK(f)
    BY <2>2, <2>4
  <2> HIDE DEF f
  <2>6. Moves(f)
    BY <1>1, <1>3, <1>4, <1>6, <2>3, <2>5 DEF Moves, Acted, Says, acted
  <2> QED BY <1>2, <2>6 DEF StepKind
<1> QED BY <1>5, <1>6 DEF Receive

LEMMA EveryStep ==
  ASSUME EvalInv, Step, ~End PROVE StepKind
BY SkipKind, TestKind, SetKind, WriteKind, SyncKind, CallDefKind, StopKind, ReturnKind,
   OpenPhaseKind, ObserveKind, DelegateKind, ReportKind, ForeseeKind, PreviewOverKind, ActKind,
   ReceiveKind
   DEF Step

-----------------------------------------------------------------------------
(* The invariant is kept.                                                  *)
LEMMA SameMode ==
  ASSUME mode' = mode
  PROVE  \A i \in 1 .. Len(stack') : FrameOK(stack'[i]) => FrameOK(stack[i])'
BY DEF FrameOK, TypeFrame

(* What a step of a call has to show.                                      *)
LEMMA Kept ==
  ASSUME EvalInv, Quiet, stack # <<>>, ret' \in Outcomes,
         stack' \in Seq(Frames),
         \A i \in 1 .. Len(stack') : FrameOK(stack'[i]),
         \A i, j \in 1 .. Len(stack') : stack'[i].def = stack'[j].def => i = j,
         Authored =>
           /\ \A i \in 1 .. Len(stack') - 1 : stack'[i + 1].stage = "decide" =>
                stack'[i].stage = "decide" /\ Question(stack'[i].def)
           /\ stack' # <<>> /\ ret' # NoOutcome /\ stack'[1].stage = "decide" => ~ret'.changed
           /\ host' # Current.before => Says(ret') \/ \E i \in 1 .. Len(stack') : Acted(stack'[i])
  PROVE  EvalInv'
<1>1. /\ mode' = mode /\ log' = log /\ host' \in [Paths -> Values]
      /\ PhasesOnlyLook /\ mode = "check" => host' = host
  BY DEF Quiet
<1>2. Calls /\ Dry /\ Told /\ InCall
  BY DEF EvalInv, InCall
<1>3. Current' = Current
  BY <1>1 DEF Current
<1>4. Calls'
  <2>1. /\ mode' \in Modes /\ log' \in Seq(Records) /\ Len(log') <= MaxCalls
        /\ log' # <<>> /\ Current'.mode = mode' /\ Current'.outcome = NoOutcome
    BY <1>1, <1>2, <1>3 DEF Calls
  <2>2. \A i \in 1 .. Len(stack') : FrameOK(stack[i])'
    BY <1>1, SameMode
  <2> QED BY <1>1, <2>1, <2>2 DEF Calls
<1>5. Dry'
  <2>1. (DryRunIsInert)' = DryRunIsInert
    BY <1>1 DEF DryRunIsInert, Over, Untouched
  <2>2. PhasesOnlyLook /\ mode' = "check" => host' = Current'.before
    BY <1>1, <1>2, <1>3 DEF Dry
  <2>3. PhasesOnlyLook => DryRunIsInert
    BY <1>2 DEF Dry
  <2> QED BY <2>1, <2>2, <2>3 DEF Dry
<1>6. Told'
  <2>1. (UnchangedMeansUntouched)' = UnchangedMeansUntouched
    BY <1>1 DEF UnchangedMeansUntouched, Over, Untouched
  <2>2. ChecksOnlyAsk /\ WouldIsDerived => UnchangedMeansUntouched
    BY <1>2 DEF Told
  <2>3. stack' # <<>> => Top' = stack'[1]
    BY DEF Top
  <2>4. ChecksOnlyAsk /\ WouldIsDerived /\ mode' = "apply" => Authored
    BY <1>1 DEF Authored
  <2> QED BY <1>3, <2>1, <2>2, <2>3, <2>4 DEF Told
<1> QED BY <1>4, <1>5, <1>6 DEF EvalInv

LEMMA Standing ==
  ASSUME EvalInv, stack # <<>>
  PROVE  /\ stack \in Seq(Frames) /\ Len(stack) \in Nat \ {0} /\ Top = stack[1]
         /\ \A i \in 1 .. Len(stack) : FrameOK(stack[i])
         /\ \A i, j \in 1 .. Len(stack) : stack[i].def = stack[j].def => i = j
         /\ Authored =>
              /\ \A i \in 1 .. Len(stack) - 1 : stack[i + 1].stage = "decide" =>
                   stack[i].stage = "decide" /\ Question(stack[i].def)
              /\ host # Current.before => Says(ret) \/ \E i \in 1 .. Len(stack) : Acted(stack[i])
<1>1. stack \in Seq(Frames) /\ Len(stack) \in Nat \ {0} /\ Top = stack[1]
  BY TopOK DEF EvalInv, Calls
<1>2. /\ \A i \in 1 .. Len(stack) : FrameOK(stack[i])
      /\ \A i, j \in 1 .. Len(stack) : stack[i].def = stack[j].def => i = j
  BY DEF EvalInv, Calls
<1> QED BY <1>1, <1>2 DEF EvalInv, Told, Authored, InCall

LEMMA MovesKeeps ==
  ASSUME EvalInv, Quiet, NEW f, Moves(f) PROVE EvalInv'
<1>1. /\ stack # <<>> /\ stack' = <<f>> \o Tail(stack) /\ ret' = NoOutcome
      /\ FrameOK(f) /\ f.def = Top.def /\ f \in Frames
  BY DEF Moves, SetTop, FrameOK
<1>2. /\ stack \in Seq(Frames) /\ Len(stack) \in Nat \ {0} /\ Top = stack[1]
      /\ \A i \in 1 .. Len(stack) : FrameOK(stack[i])
      /\ \A i, j \in 1 .. Len(stack) : stack[i].def = stack[j].def => i = j
  BY <1>1, Standing
<1>3. /\ stack' \in Seq(Frames) /\ Len(stack') = Len(stack) /\ stack'[1] = f
      /\ \A i \in 2 .. Len(stack) : stack'[i] = stack[i]
  BY <1>1, <1>2, ReplaceTop
<1>4. \A i \in 1 .. Len(stack) : i = 1 \/ i \in 2 .. Len(stack)
  BY <1>2
<1>5. \A i \in 1 .. Len(stack') : FrameOK(stack'[i]) /\ stack'[i].def = stack[i].def
  BY <1>1, <1>2, <1>3, <1>4
<1>6. \A i, j \in 1 .. Len(stack') : stack'[i].def = stack'[j].def => i = j
  BY <1>2, <1>3, <1>5
<1>7. ASSUME Authored
      PROVE  /\ \A i \in 1 .. Len(stack') - 1 : stack'[i + 1].stage = "decide" =>
                  stack'[i].stage = "decide" /\ Question(stack'[i].def)
             /\ host' # Current.before => Says(ret') \/ \E i \in 1 .. Len(stack') : Acted(stack'[i])
  <2>1. /\ \A i \in 1 .. Len(stack) - 1 : stack[i + 1].stage = "decide" =>
             stack[i].stage = "decide" /\ Question(stack[i].def)
        /\ host # Current.before => Says(ret) \/ \E i \in 1 .. Len(stack) : Acted(stack[i])
    BY <1>1, <1>7, Standing
  <2>2. /\ Acted(Top) \/ host' # host \/ Says(ret) => Acted(f)
        /\ Top.stage = "decide" /\ Question(Top.def) => f.stage = "decide"
    BY <1>7 DEF Moves
  <2>3. ASSUME NEW i \in 1 .. Len(stack') - 1, stack'[i + 1].stage = "decide"
        PROVE  stack'[i].stage = "decide" /\ Question(stack'[i].def)
    <3>1. i + 1 \in 2 .. Len(stack) /\ i \in 1 .. Len(stack) /\ i \in 1 .. Len(stack) - 1
      BY <1>2, <1>3
    <3>2. stack[i].stage = "decide" /\ Question(stack[i].def)
      BY <1>3, <2>1, <2>3, <3>1
    <3> QED BY <1>1, <1>2, <1>3, <1>4, <2>2, <3>1, <3>2
  <2>4. ASSUME host' # Current.before
        PROVE  \E i \in 1 .. Len(stack') : Acted(stack'[i])
    <3>1. 1 \in 1 .. Len(stack')
      BY <1>2, <1>3
    <3>2. CASE Acted(f)
      BY <1>3, <3>1, <3>2
    <3>3. CASE ~Acted(f)
      <4>1. PICK i \in 1 .. Len(stack) : Acted(stack[i])
        BY <2>1, <2>2, <2>4, <3>3
      <4>2. i \in 2 .. Len(stack)
        BY <1>2, <1>4, <2>2, <3>3, <4>1
      <4> QED BY <1>3, <4>1, <4>2
    <3> QED BY <3>2, <3>3
  <2> QED BY <2>3, <2>4
<1>8. ret' \in Outcomes
  BY <1>1, ConstantsOK
<1> QED BY <1>1, <1>3, <1>5, <1>6, <1>7, <1>8, Kept

LEMMA LeavesKeeps ==
  ASSUME EvalInv, Quiet, NEW r, Leaves(r) PROVE EvalInv'
<1>1. stack # <<>> /\ stack' = Tail(stack) /\ ret' = r /\ r \in Outcomes
  BY DEF Leaves, Leave
<1>2. /\ stack \in Seq(Frames) /\ Len(stack) \in Nat \ {0} /\ Top = stack[1]
      /\ \A i \in 1 .. Len(stack) : FrameOK(stack[i])
      /\ \A i, j \in 1 .. Len(stack) : stack[i].def = stack[j].def => i = j
  BY <1>1, Standing
<1>3. /\ stack' \in Seq(Frames) /\ Len(stack') = Len(stack) - 1
      /\ \A i \in 1 .. Len(stack) - 1 : stack'[i] = stack[i + 1]
  BY <1>1, <1>2, TailOK
<1>4. \A i \in 1 .. Len(stack') : i + 1 \in 1 .. Len(stack) /\ stack'[i] = stack[i + 1]
  BY <1>2, <1>3
<1>5. /\ \A i \in 1 .. Len(stack') : FrameOK(stack'[i])
      /\ \A i, j \in 1 .. Len(stack') : stack'[i].def = stack'[j].def => i + 1 = j + 1
  BY <1>2, <1>4
<1>6. \A i, j \in 1 .. Len(stack') : stack'[i].def = stack'[j].def => i = j
  BY <1>5
<1>7. ASSUME Authored
      PROVE  /\ \A i \in 1 .. Len(stack') - 1 : stack'[i + 1].stage = "decide" =>
                  stack'[i].stage = "decide" /\ Question(stack'[i].def)
             /\ stack' # <<>> /\ ret' # NoOutcome /\ stack'[1].stage = "decide" => ~ret'.changed
             /\ host' # Current.before => Says(ret') \/ \E i \in 1 .. Len(stack') : Acted(stack'[i])
  <2>1. /\ \A i \in 1 .. Len(stack) - 1 : stack[i + 1].stage = "decide" =>
             stack[i].stage = "decide" /\ Question(stack[i].def)
        /\ host # Current.before => Says(ret) \/ \E i \in 1 .. Len(stack) : Acted(stack[i])
    BY <1>1, <1>7, Standing
  <2>2. /\ Acted(Top) \/ host' # host \/ Says(ret) => Says(r)
        /\ Top.stage = "decide" => ~r.changed
    BY <1>7 DEF Leaves
  <2>3. ASSUME NEW i \in 1 .. Len(stack') - 1, stack'[i + 1].stage = "decide"
        PROVE  stack'[i].stage = "decide" /\ Question(stack'[i].def)
    <3>1. i + 1 \in 1 .. Len(stack') /\ i \in 1 .. Len(stack') /\ i + 1 \in 1 .. Len(stack) - 1
      BY <1>2, <1>3
    <3> QED BY <1>4, <2>1, <2>3, <3>1
  <2>4. ASSUME stack' # <<>>, stack'[1].stage = "decide" PROVE ~r.changed
    <3>1. 1 \in 1 .. Len(stack') /\ 1 \in 1 .. Len(stack) - 1
      BY <1>2, <1>3, <2>4
    <3>2. stack[1 + 1].stage = "decide"
      BY <1>4, <2>4, <3>1
    <3> QED BY <1>2, <2>1, <2>2, <3>1, <3>2
  <2>5. ASSUME host' # Current.before, ~Says(r)
        PROVE  \E i \in 1 .. Len(stack') : Acted(stack'[i])
    <3>1. PICK i \in 1 .. Len(stack) : Acted(stack[i])
      BY <2>1, <2>2, <2>5
    <3>2. i # 1
      BY <1>2, <2>2, <2>5, <3>1
    <3>3. i - 1 \in 1 .. Len(stack') /\ i - 1 + 1 = i
      BY <1>2, <1>3, <3>2
    <3> QED BY <1>4, <3>1, <3>3
  <2> QED BY <1>1, <2>3, <2>4, <2>5
<1> QED BY <1>1, <1>3, <1>5, <1>6, <1>7, Kept

LEMMA PushesKeeps ==
  ASSUME EvalInv, Quiet, NEW n, NEW f, Pushes(n, f) PROVE EvalInv'
<1> DEFINE g == Frame(n, mode)
<1>1. /\ stack # <<>> /\ stack' = <<g, f>> \o Tail(stack) /\ n \in Names /\ mode \in Modes
      /\ ret = NoOutcome /\ ret' = NoOutcome /\ host' = host
      /\ FrameOK(f) /\ f.def = Top.def /\ f \in Frames
      /\ \A i \in 1 .. Len(stack) : stack[i].def # n
  BY DEF Pushes, FrameOK, EvalInv, Calls
<1>2. /\ stack \in Seq(Frames) /\ Len(stack) \in Nat \ {0} /\ Top = stack[1]
      /\ \A i \in 1 .. Len(stack) : FrameOK(stack[i])
      /\ \A i, j \in 1 .. Len(stack) : stack[i].def = stack[j].def => i = j
  BY <1>1, Standing
<1>3. FrameOK(g) /\ g.def = n /\ g.stage = "decide" /\ g \in Frames
  <2>1. FrameOK(g) /\ g.def = n /\ g.stage = "decide"
    BY <1>1, FrameIsOK
  <2> HIDE DEF g
  <2> QED BY <2>1 DEF FrameOK
<1> HIDE DEF g
<1>4. /\ stack' \in Seq(Frames) /\ Len(stack') = Len(stack) + 1 /\ stack'[1] = g /\ stack'[2] = f
      /\ \A i \in 3 .. Len(stack) + 1 : stack'[i] = stack[i - 1]
  BY <1>1, <1>2, <1>3, PushTop
<1>5. \A i \in 1 .. Len(stack') : i = 1 \/ i = 2 \/ i \in 3 .. Len(stack) + 1
  BY <1>2, <1>4
<1>6. \A i \in 2 .. Len(stack') : i - 1 \in 1 .. Len(stack) /\ stack'[i].def = stack[i - 1].def
  <2> SUFFICES ASSUME NEW i \in 2 .. Len(stack')
               PROVE  i - 1 \in 1 .. Len(stack) /\ stack'[i].def = stack[i - 1].def
    OBVIOUS
  <2>1. i - 1 \in 1 .. Len(stack) /\ (i = 2 \/ i \in 3 .. Len(stack) + 1)
    BY <1>2, <1>4
  <2> QED BY <1>1, <1>2, <1>4, <2>1
<1>7. \A i \in 1 .. Len(stack') : FrameOK(stack'[i])
  <2> SUFFICES ASSUME NEW i \in 1 .. Len(stack') PROVE FrameOK(stack'[i])
    OBVIOUS
  <2>1. i \in 3 .. Len(stack) + 1 => i - 1 \in 1 .. Len(stack)
    BY <1>2
  <2> QED BY <1>1, <1>2, <1>3, <1>4, <1>5, <2>1
<1>8. ASSUME NEW i \in 1 .. Len(stack'), NEW j \in 1 .. Len(stack'), stack'[i].def = stack'[j].def
      PROVE  i = j
  <2>1. (i = 1 \/ i \in 2 .. Len(stack')) /\ (j = 1 \/ j \in 2 .. Len(stack'))
    BY <1>4
  <2>2. \A k \in 2 .. Len(stack') : stack'[k].def # n
    BY <1>1, <1>6
  <2>3. stack'[1].def = n
    BY <1>3, <1>4
  <2>4. CASE i \in 2 .. Len(stack') /\ j \in 2 .. Len(stack')
    <3>1. i - 1 = j - 1
      BY <1>2, <1>6, <1>8, <2>4
    <3> QED BY <3>1
  <2> QED BY <1>8, <2>1, <2>2, <2>3, <2>4
<1>9. ASSUME Authored
      PROVE  /\ \A i \in 1 .. Len(stack') - 1 : stack'[i + 1].stage = "decide" =>
                  stack'[i].stage = "decide" /\ Question(stack'[i].def)
             /\ host' # Current.before => \E i \in 1 .. Len(stack') : Acted(stack'[i])
  <2>1. /\ \A i \in 1 .. Len(stack) - 1 : stack[i + 1].stage = "decide" =>
             stack[i].stage = "decide" /\ Question(stack[i].def)
        /\ host # Current.before => \E i \in 1 .. Len(stack) : Acted(stack[i])
    BY <1>1, <1>9, Standing, NothingSaid
  <2>2. /\ Acted(Top) => Acted(f)
        /\ f.stage = "decide" => Top.stage = "decide" /\ Question(n)
        /\ Top.stage = "decide" /\ Question(Top.def) => f.stage = "decide"
    BY <1>9 DEF Pushes
  <2>3. ASSUME NEW i \in 1 .. Len(stack') - 1, stack'[i + 1].stage = "decide"
        PROVE  stack'[i].stage = "decide" /\ Question(stack'[i].def)
    <3>1. CASE i = 1
      BY <1>3, <1>4, <2>2, <2>3, <3>1
    <3>2. CASE i # 1
      <4>1. /\ i + 1 \in 3 .. Len(stack) + 1 /\ i - 1 \in 1 .. Len(stack) - 1
            /\ i + 1 - 1 = i /\ i - 1 + 1 = i
        BY <1>2, <1>4, <3>2
      <4>2. stack[i].stage = "decide"
        BY <1>4, <2>3, <4>1
      <4>3. stack[i - 1].stage = "decide" /\ Question(stack[i - 1].def)
        BY <2>1, <4>1, <4>2
      <4>4. CASE i = 2
        BY <1>1, <1>2, <1>4, <2>2, <4>3, <4>4
      <4>5. CASE i # 2
        <5>1. i \in 3 .. Len(stack) + 1
          BY <1>2, <1>4, <3>2, <4>5
        <5> QED BY <1>4, <4>3, <5>1
      <4> QED BY <4>4, <4>5
    <3> QED BY <3>1, <3>2
  <2>4. ASSUME host' # Current.before
        PROVE  \E i \in 1 .. Len(stack') : Acted(stack'[i])
    <3>1. PICK i \in 1 .. Len(stack) : Acted(stack[i])
      BY <1>1, <2>1, <2>4
    <3>2. i + 1 \in 1 .. Len(stack') /\ i + 1 - 1 = i /\ (i = 1 \/ i + 1 \in 3 .. Len(stack) + 1)
      BY <1>2, <1>4
    <3>3. Acted(stack'[i + 1])
      <4>1. CASE i = 1
        BY <1>2, <1>4, <2>2, <3>1, <4>1
      <4>2. CASE i + 1 \in 3 .. Len(stack) + 1
        BY <1>4, <3>1, <3>2, <4>2
      <4> QED BY <3>2, <4>1, <4>2
    <3> QED BY <3>2, <3>3
  <2> QED BY <2>3, <2>4
<1>10. ret' \in Outcomes
  BY <1>1, ConstantsOK
<1> QED BY <1>1, <1>4, <1>7, <1>8, <1>9, <1>10, Kept

LEMMA BeginKeeps ==
  ASSUME EvalInv, NEW n \in Names, NEW m \in Modes, Begin(n, m) PROVE EvalInv'
<1> DEFINE e == [def |-> n, mode |-> m, before |-> host, after |-> host, outcome |-> NoOutcome]
           f == Frame(n, m)
<1>1. /\ stack = <<>> /\ ret = NoOutcome /\ ret' = ret /\ Len(log) < MaxCalls /\ mode' = m
      /\ stack' = <<f>> /\ log' = Append(log, e) /\ host' = host
  BY DEF Begin
<1>2. /\ host \in [Paths -> Values] /\ ret \in Outcomes /\ log \in Seq(Records) /\ MaxCalls \in Nat
  BY DefAssumption DEF EvalInv, Calls
<1>3. FrameOK(f) /\ f.def = n /\ f.stage = "decide" /\ f \in Frames
  BY FrameIsOK DEF FrameOK
<1>4. e \in Records
  BY <1>2, ConstantsOK DEF Records
<1>5. /\ log' \in Seq(Records) /\ Len(log') = Len(log) + 1 /\ log' # <<>> /\ Len(log) \in Nat
      /\ log'[Len(log) + 1] = e /\ \A i \in 1 .. Len(log) : log'[i] = log[i]
      /\ DOMAIN log = 1 .. Len(log) /\ DOMAIN log' = 1 .. Len(log) + 1
  <2> HIDE DEF e
  <2> QED BY <1>1, <1>2, <1>4
<1>6. Current' = e
  BY <1>5 DEF Current
<1>7. e.mode = m /\ e.before = host /\ e.outcome = NoOutcome
  OBVIOUS
<1> HIDE DEF e, f
<1>8. stack' \in Seq(Frames) /\ Len(stack') = 1 /\ stack'[1] = f
  BY <1>1, <1>3
<1>9. \A i \in 1 .. Len(stack') : FrameOK(stack[i])'
  <2>1. FrameOK(stack[1])'
    BY <1>3, <1>8 DEF FrameOK, TypeFrame
  <2>2. \A i \in 1 .. Len(stack') : i = 1
    BY <1>8
  <2> QED BY <2>1, <2>2
<1>10. Calls'
  <2>1. Len(log') <= MaxCalls
    BY <1>1, <1>2, <1>5
  <2> QED BY <1>1, <1>2, <1>5, <1>6, <1>7, <1>8, <1>9, <2>1 DEF Calls
<1>11. ASSUME NEW i, Over(i)' PROVE Over(i) /\ log'[i] = log[i]
  <2>1. i \in 1 .. Len(log) + 1 /\ log'[i].outcome # NoOutcome
    BY <1>5, <1>11 DEF Over
  <2>2. i \in 1 .. Len(log)
    BY <1>5, <1>7, <2>1
  <2> QED BY <1>5, <2>1, <2>2 DEF Over
<1>12. Dry'
  <2>1. DryRunIsInert => DryRunIsInert'
    BY <1>5, <1>11 DEF DryRunIsInert, Untouched, Over
  <2> QED BY <1>1, <1>6, <1>7, <2>1 DEF EvalInv, Dry
<1>13. Told'
  <2>1. UnchangedMeansUntouched => UnchangedMeansUntouched'
    BY <1>5, <1>11 DEF UnchangedMeansUntouched, Untouched, Over
  <2>2. \A i \in 1 .. Len(stack') - 1 : FALSE
    BY <1>8
  <2> QED BY <1>1, <1>6, <1>7, <2>1, <2>2 DEF EvalInv, Told
<1> QED BY <1>10, <1>12, <1>13 DEF EvalInv

LEMMA EndKeeps ==
  ASSUME EvalInv, End PROVE EvalInv'
<1> DEFINE k == Len(log)
           e == [log[k] EXCEPT !.outcome = ret, !.after = host]
<1>1. /\ stack = <<>> /\ ret # NoOutcome /\ ret' = NoOutcome /\ host' = host /\ mode' = mode
      /\ stack' = <<>> /\ log' = [log EXCEPT ![Len(log)].outcome = ret, ![Len(log)].after = host]
  BY DEF End
<1>2. /\ Calls /\ Dry /\ Told /\ InCall
      /\ host \in [Paths -> Values] /\ ret \in Outcomes /\ log \in Seq(Records)
      /\ Len(log) <= MaxCalls /\ log # <<>> /\ log[k].mode = mode
  BY <1>1 DEF EvalInv, Calls, InCall, Current
<1>3. k \in Nat /\ k \in 1 .. k /\ DOMAIN log = 1 .. k /\ log[k] \in Records
  BY <1>2
<1>4. /\ e \in Records /\ e.outcome = ret /\ e.after = host /\ e.mode = log[k].mode
      /\ e.before = log[k].before
  BY <1>2, <1>3 DEF Records
<1>5. log' = [log EXCEPT ![k] = e]
  BY <1>1, <1>2, <1>3
<1> HIDE DEF e, k
<1>6. /\ log' \in Seq(Records) /\ Len(log') = k /\ DOMAIN log' = 1 .. k /\ log'[k] = e
      /\ \A i \in 1 .. k : i # k => log'[i] = log[i]
  BY <1>2, <1>3, <1>4, <1>5 DEF k
<1>7. ~InCall'
  BY <1>1 DEF InCall
<1>8. Calls'
  <2>1. Len(log') <= MaxCalls
    BY <1>2, <1>6 DEF k
  <2>2. stack' \in Seq(Frames) /\ \A i \in 1 .. Len(stack') : FALSE
    BY <1>1
  <2>3. ret' \in Outcomes /\ mode' \in Modes
    BY <1>1, <1>2, ConstantsOK DEF Calls
  <2> QED BY <1>1, <1>2, <1>6, <1>7, <2>1, <2>2, <2>3 DEF Calls
<1>9. ASSUME NEW i, Over(i)', i # k PROVE Over(i) /\ log'[i] = log[i]
  BY <1>3, <1>6, <1>9 DEF Over
<1>10. Dry'
  <2>1. ASSUME PhasesOnlyLook, NEW i, Over(i)', log'[i].mode = "check" PROVE Untouched(i)'
    <3>1. CASE i = k
      <4>1. host = log[k].before
        BY <1>2, <1>4, <1>6, <2>1, <3>1 DEF Dry, Current, k
      <4> QED BY <1>4, <1>6, <3>1, <4>1 DEF Untouched
    <3>2. CASE i # k
      <4>1. Over(i) /\ log'[i] = log[i]
        BY <1>9, <2>1, <3>2
      <4>2. Untouched(i)
        BY <1>2, <2>1, <4>1 DEF Dry, DryRunIsInert, Over
      <4> QED BY <4>1, <4>2 DEF Untouched
    <3> QED BY <3>1, <3>2
  <2>2. PhasesOnlyLook => DryRunIsInert'
    BY <2>1 DEF DryRunIsInert
  <2> QED BY <1>7, <2>2 DEF Dry
<1>11. Told'
  <2>1. ASSUME ChecksOnlyAsk, WouldIsDerived, NEW i, Over(i)', log'[i].mode = "apply",
               log'[i].outcome.cat = "ok", ~log'[i].outcome.changed
        PROVE  Untouched(i)'
    <3>1. CASE i = k
      <4>1. mode = "apply" /\ ~Says(ret)
        BY <1>2, <1>4, <1>6, <2>1, <3>1 DEF Says
      <4>2. ~\E j \in 1 .. Len(stack) : Acted(stack[j])
        BY <1>1
      <4>3. host = log[k].before
        BY <1>2, <2>1, <4>1, <4>2 DEF Told, Current, k
      <4> QED BY <1>4, <1>6, <3>1, <4>3 DEF Untouched
    <3>2. CASE i # k
      <4>1. Over(i) /\ log'[i] = log[i]
        BY <1>9, <2>1, <3>2
      <4>2. Untouched(i)
        BY <1>2, <2>1, <4>1 DEF Told, UnchangedMeansUntouched, Over
      <4> QED BY <4>1, <4>2 DEF Untouched
    <3> QED BY <3>1, <3>2
  <2>2. ChecksOnlyAsk /\ WouldIsDerived => UnchangedMeansUntouched'
    BY <2>1 DEF UnchangedMeansUntouched
  <2> QED BY <1>7, <2>2 DEF Told
<1> QED BY <1>8, <1>10, <1>11 DEF EvalInv

LEMMA SameKeeps ==
  ASSUME EvalInv, UNCHANGED vars PROVE EvalInv'
<1>1. /\ host' = host /\ mode' = mode /\ stack' = stack /\ ret' = ret /\ log' = log
      /\ InCall' = InCall /\ Current' = Current /\ Top' = Top
  BY DEF vars, InCall, Current, Top
<1>2. Calls'
  BY <1>1 DEF EvalInv, Calls, FrameOK, TypeFrame
<1>3. Dry'
  BY <1>1 DEF EvalInv, Dry, DryRunIsInert, Over, Untouched
<1>4. Told'
  BY <1>1 DEF EvalInv, Told, UnchangedMeansUntouched, Over, Untouched
<1> QED BY <1>2, <1>3, <1>4 DEF EvalInv

LEMMA InitOK ==
  ASSUME Init PROVE EvalInv
<1>1. /\ host \in [Paths -> Values] /\ mode \in Modes /\ stack = <<>> /\ ret = NoOutcome
      /\ log = <<>>
  BY DEF Init
<1>2. log \in Seq(Records) /\ Len(log) = 0 /\ DOMAIN log = {} /\ stack \in Seq(Frames)
  BY <1>1
<1>3. Calls
  <2>1. \A i \in 1 .. Len(stack) : FALSE
    BY <1>1
  <2> QED BY <1>1, <1>2, <2>1, ConstantsOK, DefAssumption DEF Calls, InCall
<1>4. ~InCall /\ DryRunIsInert /\ UnchangedMeansUntouched
  BY <1>1, <1>2 DEF InCall, DryRunIsInert, UnchangedMeansUntouched, Over
<1> QED BY <1>3, <1>4 DEF EvalInv, Dry, Told

LEMMA NextKeeps ==
  ASSUME EvalInv, [Next]_vars PROVE EvalInv'
<1>1. CASE UNCHANGED vars
  BY <1>1, SameKeeps
<1>2. CASE End
  BY <1>2, EndKeeps
<1>3. CASE Step /\ ~End
  <2>1. StepKind
    BY <1>3, EveryStep
  <2> QED BY <2>1, MovesKeeps, LeavesKeeps, PushesKeeps DEF StepKind
<1>4. CASE \E n \in Names, m \in Modes : Begin(n, m)
  BY <1>4, BeginKeeps
<1> QED BY <1>1, <1>2, <1>3, <1>4 DEF Next

-----------------------------------------------------------------------------
(* The evaluator keeps its stack, and the account of what a call did so    *)
(* far, in order (EvalDefFull, eval.go:131).                               *)
THEOREM EvalInvariant == Spec => []EvalInv
<1>1. Init => EvalInv
  BY InitOK
<1>2. EvalInv /\ [Next]_vars => EvalInv'
  BY NextKeeps
<1> QED BY <1>1, <1>2, PTL DEF Spec

(* The types of the variables; no def is on the stack twice, so the depth  *)
(* of the calls is bounded (eval.go:696).                                  *)
THEOREM EvalTypeCorrect == Spec => []TypeOK
<1>1. EvalInv => TypeOK
  <2> SUFFICES ASSUME EvalInv PROVE TypeOK
    OBVIOUS
  <2>1. /\ DOMAIN stack = 1 .. Len(stack)
        /\ \A i \in DOMAIN log : log[i] \in Records
    BY DEF EvalInv, Calls
  <2> QED BY <2>1 DEF EvalInv, Calls, TypeOK, FrameOK
<1> QED BY <1>1, EvalInvariant, PTL

(* A dry run changes nothing, of any def that keeps check and preview      *)
(* without a shell that acts: whatever the defs it calls and the phases    *)
(* and branches that are taken (eval.go:937; fileput.go, inert.go).        *)
THEOREM DryRunsChangeNothing ==
  ASSUME PhasesOnlyLook PROVE Spec => []DryRunIsInert
<1>1. EvalInv => DryRunIsInert
  BY DEF EvalInv, Dry
<1> QED BY <1>1, EvalInvariant, PTL

(* A call that succeeds and is not said to have changed anything has not,  *)
(* however deep the call that acted, and though shells fail and questions  *)
(* are asked on the way (changedIfActed, evalCall: eval.go:176, 738).      *)
THEOREM UnchangedIsUntouched ==
  ASSUME ChecksOnlyAsk, WouldIsDerived PROVE Spec => []UnchangedMeansUntouched
<1>1. EvalInv => UnchangedMeansUntouched
  BY DEF EvalInv, Told
<1> QED BY <1>1, EvalInvariant, PTL

-----------------------------------------------------------------------------
(* A run over a host that it leaves alone is a walk from one configuration *)
(* to the next: what is next depends on the configuration alone.           *)
Configurations == [stack : Seq(Frames), ret : Outcomes]
Here == [stack |-> stack, ret |-> ret]
Start(n) == [stack |-> <<Frame(n, "apply")>>, ret |-> NoOutcome]

Left(c, r) == [stack |-> Tail(c.stack), ret |-> r]
On(c, f) == [stack |-> <<f>> \o Tail(c.stack), ret |-> NoOutcome]
Entered(c, n, f) ==
  IF \E i \in DOMAIN c.stack : c.stack[i].def = n THEN Left(c, Failure)
  ELSE [stack |-> <<Frame(n, "apply"), f>> \o Tail(c.stack), ret |-> NoOutcome]
Past(f, last, acted) == [f EXCEPT !.rest = Tail(@), !.last = last, !.acted = @ \/ acted]

ConfirmedAt(h, f, r) ==
  IF /\ r.cat = "ok" /\ f.acted /\ Observes(f.def)
     /\ ~Converged(h, LastOf(Named(f.def, {"observe"})).fields)
  THEN Outcome("err", "unconfirmed")
  ELSE [r EXCEPT !.changed = r.cat = "ok" /\ f.acted]

Received(c, f) ==
  IF c.ret.cat \in {"err", "fail"} \/ f.stage = "delegated" THEN Left(c, c.ret)
  ELSE On(c, [f EXCEPT !.acted = @ \/ c.ret.changed, !.last = "called"])

Evaluated(h, c, f, s) ==
  CASE s.op = "test" -> On(c, Past(f, IF h[s.path] = s.value THEN "ok" ELSE "err", TRUE))
    [] s.op \in {"write", "sync"} -> On(c, Past(f, "0", FALSE))
    [] s.op = "call" -> Entered(c, s.def, [f EXCEPT !.rest = Tail(@)])
    [] s.op = "return" ->
         Left(c, IF f.stage = "decide" THEN Outcome(s.cat, s.tag)
                 ELSE ConfirmedAt(h, f, Outcome(s.cat, s.tag)))
    [] OTHER -> Left(c, Failure)

Advanced(h, c, f) ==
  IF f.phases # <<>>
  THEN IF Head(f.phases).name # "observe"
       THEN On(c, [f EXCEPT !.rest = Head(f.phases).body, !.phases = Tail(@)])
       ELSE IF Converged(h, Head(f.phases).fields) THEN Left(c, Already)
       ELSE On(c, [f EXCEPT !.phases = Tail(@)])
  ELSE IF Defs[f.def].delegate # NoName
       THEN Entered(c, Defs[f.def].delegate, [f EXCEPT !.stage = "delegated"])
  ELSE IF Named(f.def, {"apply"}) = <<>> THEN Left(c, Outcome("ok", NoTag))
  ELSE On(c, [f EXCEPT !.stage = "apply", !.acted = FALSE,
                       !.rest = Head(Named(f.def, {"apply"})).body])

Move(h, c) ==
  LET f == Head(c.stack) IN
  IF c.ret # NoOutcome THEN Received(c, f)
  ELSE IF f.rest = <<>> THEN Advanced(h, c, f)
  ELSE IF ~Passes(f.last, Head(f.rest).if) THEN On(c, [f EXCEPT !.rest = Tail(@)])
  ELSE Evaluated(h, c, f, Head(f.rest))

(* What is next leaves the host alone.                                     *)
IsDue(c) ==
  /\ c.ret = NoOutcome /\ Head(c.stack).rest # <<>>
  /\ Passes(Head(c.stack).last, Head(Head(c.stack).rest).if)
Still(h, c) ==
  LET s == Head(Head(c.stack).rest) IN
  IsDue(c) => s.op # "set" /\ (s.op \in {"write", "sync"} => h[s.path] = s.value)

(* c is reached from the start of n; all of n leaves h alone.              *)
WalksOn(h, S, c) == \A e \in S : e = c \/ (Still(h, e) /\ Move(h, e) \in S)
Walk(h, n, c) == \E S : Start(n) \in S /\ c \in S /\ WalksOn(h, S, c)
Closed(h, S) == \A e \in S : e.stack = <<>> \/ (Still(h, e) /\ Move(h, e) \in S)
Safe(h, n) == \E S : Start(n) \in S /\ Closed(h, S)

LEMMA WalkBegins ==
  ASSUME NEW h, NEW n PROVE Walk(h, n, Start(n))
<1>1. WalksOn(h, {Start(n)}, Start(n))
  BY DEF WalksOn
<1> QED BY <1>1 DEF Walk

LEMMA WalkGoesOn ==
  ASSUME NEW h, NEW n, NEW c, Walk(h, n, c), Still(h, c)
  PROVE  Walk(h, n, Move(h, c))
<1>1. PICK S : Start(n) \in S /\ c \in S /\ WalksOn(h, S, c)
  BY DEF Walk
<1> DEFINE d == Move(h, c)
           T == S \cup {d}
<1>2. Start(n) \in T /\ d \in T
  BY <1>1
<1>3. ASSUME NEW e \in T, e # d PROVE Still(h, e) /\ Move(h, e) \in T
  BY <1>1, <1>3 DEF WalksOn
<1> HIDE DEF d, T
<1>4. WalksOn(h, T, d)
  BY <1>3 DEF WalksOn
<1> QED BY <1>2, <1>4 DEF Walk, d

LEMMA WalkEnds ==
  ASSUME NEW h, NEW n, NEW c, Walk(h, n, c), NEW T, c \in T, Closed(h, T)
  PROVE  Safe(h, n)
<1>1. PICK S : Start(n) \in S /\ c \in S /\ WalksOn(h, S, c)
  BY DEF Walk
<1>2. Closed(h, S \cup T)
  BY <1>1 DEF WalksOn, Closed
<1> QED BY <1>1, <1>2 DEF Safe

LEMMA WalkOver ==
  ASSUME NEW h, NEW n, NEW c, Walk(h, n, c), c.stack = <<>>
  PROVE  Safe(h, n)
<1>1. c \in {c} /\ Closed(h, {c})
  BY DEF Closed
<1> QED BY <1>1, WalkEnds

-----------------------------------------------------------------------------
(* Where an observe of a def, or of the one it delegates to, holds, a call *)
(* of the def ends before it acts: what comes before the observe only      *)
(* asks.                                                                   *)
Deciding(f) ==
  /\ f \in Frames /\ f.stage = "decide"
  /\ Elements(f.phases) \subseteq Of(f.def, {"check", "observe"})
  /\ \A s \in Elements(f.rest) : From(s, f.def, "check")
Asking(f) == Deciding(f) /\ Question(f.def)

Stays(h, n) ==
  \/ Settled(h, n)
  \/ Defs[n].delegate # NoName /\ Settled(h, Defs[n].delegate)

Met(h, ph) == ph.name = "observe" /\ Converged(h, ph.fields)
Finds(h, f) ==
  /\ Deciding(f)
  /\ \/ \E ph \in Elements(f.phases) : Met(h, ph)
     \/ Defs[f.def].delegate # NoName /\ Settled(h, Defs[f.def].delegate)

(* What has been decided is passed on to the call that was made.           *)
Unwinding(c) ==
  \/ c.stack = <<>>
  \/ /\ c.ret # NoOutcome
     /\ \/ c.ret.cat \in {"err", "fail"}
        \/ \A i \in 1 .. Len(c.stack) : c.stack[i].stage = "delegated"
Leading(h, c, k) ==
  /\ Finds(h, c.stack[k])
  /\ \A i \in 1 .. Len(c.stack) :
       /\ i < k => Asking(c.stack[i])
       /\ i > k => c.stack[i].stage = "delegated"
Leads(h, c) ==
  /\ c \in Configurations
  /\ Unwinding(c) \/ \E k \in 1 .. Len(c.stack) : Leading(h, c, k)

(* A frame that decides may go on, and keeps what it is made of.           *)
LEMMA DecidingOn ==
  ASSUME NEW f, Deciding(f), NEW g \in Frames, g.stage = f.stage, g.def = f.def,
         \A s \in Elements(g.rest) : From(s, f.def, "check"),
         Elements(g.phases) \subseteq Elements(f.phases)
  PROVE  Deciding(g)
BY DEF Deciding

LEMMA FrameDecides ==
  ASSUME NEW n \in Names
  PROVE  /\ Deciding(Frame(n, "apply")) /\ Frame(n, "apply").def = n
         /\ Frame(n, "apply").phases = Named(n, {"check", "observe"})
<1> DEFINE f == Frame(n, "apply")
<1>1. /\ f.phases = Named(n, {"check", "observe"}) /\ f.phases \in Seq(Phases)
      /\ Elements(f.phases) = Of(n, {"check", "observe"})
  BY NamedOK DEF Frame, FirstPass
<1>2. /\ f.rest = <<>> /\ f.def = n /\ f.stage = "decide" /\ f.acted = FALSE /\ f.last = "none"
      /\ f.verdict = NoOutcome
      /\ f = [def |-> f.def, stage |-> f.stage, phases |-> f.phases, rest |-> f.rest,
              acted |-> f.acted, last |-> f.last, verdict |-> f.verdict]
  BY DEF Frame
<1> HIDE DEF f
<1>3. f.rest \in Seq(Statements) /\ Elements(f.rest) = {}
  BY <1>2 DEF Elements
<1>4. f \in Frames
  BY <1>1, <1>2, <1>3, ConstantsOK DEF Frames, Stages, Lasts
<1> QED BY <1>1, <1>2, <1>3, <1>4 DEF Deciding, f

Keeps(h, f, g) ==
  /\ Deciding(g) /\ g.def = f.def
  /\ \A ph \in Elements(f.phases) : Met(h, ph) => ph \in Elements(g.phases)

(* What a frame that decides does next, but to act or to delegate.         *)
Decides(h, c) ==
  LET f == Head(c.stack) IN
  /\ Still(h, c)
  /\ \/ \E g : Move(h, c) = On(c, g) /\ Keeps(h, f, g)
     \/ \E r \in Outcomes : r # NoOutcome /\ Move(h, c) = Left(c, r)
     \/ \E n \in Names : \E g :
          /\ Move(h, c) = [stack |-> <<Frame(n, "apply"), g>> \o Tail(c.stack), ret |-> NoOutcome]
          /\ Question(n) /\ Keeps(h, f, g)

LEMMA DecidesStatement ==
  ASSUME ChecksOnlyAsk, NEW h, NEW c \in Configurations, c.stack # <<>>, c.ret = NoOutcome,
         NEW f, f = Head(c.stack), Deciding(f), f.rest # <<>>
  PROVE  Decides(h, c)
<1> DEFINE s == Head(f.rest)
           rest == Tail(f.rest)
<1>1. /\ f \in Frames /\ f.stage = "decide" /\ f.rest \in Seq(Statements) /\ f.rest # <<>>
      /\ f.phases \in Seq(Phases) /\ f.acted \in BOOLEAN /\ f.last \in Lasts /\ f.def \in Names
  BY DEF Deciding, Frames
<1>2. /\ s \in Statements /\ s \in Elements(f.rest) /\ rest \in Seq(Statements)
      /\ Elements(rest) \subseteq Elements(f.rest)
  BY <1>1, TailOK
<1>3. From(s, f.def, "check") /\ \A t \in Elements(rest) : From(t, f.def, "check")
  BY <1>2 DEF Deciding
<1>4. s.op \in {"test", "stop", "return"} \/ (s.op = "call" /\ Question(s.def))
  BY <1>1, <1>3, ConventionsOK
<1>5. Still(h, c)
  BY <1>4 DEF Still
<1>6. ASSUME NEW acted \in BOOLEAN, NEW last \in Lasts, NEW g,
             g = [f EXCEPT !.rest = rest, !.phases = f.phases, !.acted = acted, !.last = last]
      PROVE  Keeps(h, f, g)
  <2> HIDE DEF rest, s
  <2>1. /\ g \in Frames /\ g.def = f.def /\ g.phases = f.phases /\ g.stage = f.stage
        /\ g.rest = rest
    BY <1>1, <1>2, <1>6 DEF Frames
  <2>2. Deciding(g)
    BY <1>3, <2>1, DecidingOn
  <2> QED BY <2>1, <2>2 DEF Keeps
<1>7. Move(h, c) = IF ~Passes(f.last, s.if) THEN On(c, [f EXCEPT !.rest = Tail(@)])
                   ELSE Evaluated(h, c, f, s)
  BY <1>1 DEF Move
<1>8. [f EXCEPT !.rest = Tail(@)]
        = [f EXCEPT !.rest = rest, !.phases = f.phases, !.acted = f.acted, !.last = f.last]
  BY <1>1 DEF Frames
<1>9. Keeps(h, f, [f EXCEPT !.rest = Tail(@)])
  BY <1>1, <1>6, <1>8
<1>10. CASE ~Passes(f.last, s.if)
  BY <1>5, <1>7, <1>9, <1>10 DEF Decides
<1>11. CASE Passes(f.last, s.if)
  <2>1. Move(h, c) = Evaluated(h, c, f, s)
    BY <1>7, <1>11
  <2>2. CASE s.op = "test"
    <3> DEFINE last == IF h[s.path] = s.value THEN "ok" ELSE "err"
    <3>1. Move(h, c) = On(c, Past(f, last, TRUE))
      BY <2>1, <2>2 DEF Evaluated
    <3>2. last \in Lasts
      BY DEF Lasts
    <3> HIDE DEF last
    <3>3. Past(f, last, TRUE)
            = [f EXCEPT !.rest = rest, !.phases = f.phases, !.acted = TRUE, !.last = last]
      BY <1>1 DEF Past, Frames
    <3>4. Keeps(h, f, Past(f, last, TRUE))
      BY <1>6, <3>2, <3>3
    <3> QED BY <1>5, <3>1, <3>4 DEF Decides
  <2>3. CASE s.op = "stop"
    <3>1. Move(h, c) = Left(c, Failure)
      BY <2>1, <2>3 DEF Evaluated
    <3> QED BY <1>5, <3>1, ConstantsOK, NotNothing DEF Decides
  <2>4. CASE s.op = "return"
    <3> DEFINE r == Outcome(s.cat, s.tag)
    <3>1. Move(h, c) = Left(c, r)
      BY <1>1, <2>1, <2>4 DEF Evaluated
    <3>2. r \in Outcomes /\ r.cat \in {"ok", "err", "would"}
      BY <1>2, <2>4, StatementOK, OutcomeOK
    <3> HIDE DEF r
    <3>3. r # NoOutcome
      BY <3>2, NotNothing
    <3> QED BY <1>5, <3>1, <3>2, <3>3 DEF Decides
  <2>5. CASE s.op = "call"
    <3> DEFINE n == s.def
               g == [f EXCEPT !.rest = Tail(@)]
    <3>1. Question(n) /\ n \in Names
      BY <1>2, <1>4, <2>5, StatementOK
    <3>2. Move(h, c) = Entered(c, n, g)
      BY <2>1, <2>5 DEF Evaluated
    <3> HIDE DEF n, g
    <3>3. \/ Move(h, c) = Left(c, Failure)
          \/ Move(h, c) = [stack |-> <<Frame(n, "apply"), g>> \o Tail(c.stack), ret |-> NoOutcome]
      BY <3>2 DEF Entered
    <3>4. Keeps(h, f, g)
      BY <1>9 DEF g
    <3> QED BY <1>5, <3>1, <3>3, <3>4, ConstantsOK, NotNothing DEF Decides
  <2> QED BY <1>4, <2>2, <2>3, <2>4, <2>5
<1> QED BY <1>10, <1>11

LEMMA DecidesPhase ==
  ASSUME NEW h, NEW c \in Configurations, c.stack # <<>>, c.ret = NoOutcome,
         NEW f, f = Head(c.stack), Deciding(f), f.rest = <<>>, f.phases # <<>>
  PROVE  Decides(h, c)
<1> DEFINE ph == Head(f.phases)
           phs == Tail(f.phases)
<1>1. /\ f \in Frames /\ f.stage = "decide" /\ f.rest = <<>> /\ f.phases # <<>>
      /\ f.phases \in Seq(Phases) /\ f.acted \in BOOLEAN /\ f.last \in Lasts /\ f.def \in Names
      /\ Elements(f.phases) \subseteq Of(f.def, {"check", "observe"})
  BY DEF Deciding, Frames
<1>2. /\ ph \in Phases /\ ph \in Elements(f.phases) /\ phs \in Seq(Phases)
      /\ Elements(phs) \subseteq Elements(f.phases)
  BY <1>1, TailOK
<1>3. \A x \in Elements(f.phases) : x = ph \/ x \in Elements(phs)
  <2> DEFINE t == f.phases
  <2>1. /\ t \in Seq(Phases) /\ t # <<>> /\ ph = t[1] /\ DOMAIN t = 1 .. Len(t) /\ Len(t) \in Nat
        /\ DOMAIN phs = 1 .. Len(t) - 1 /\ \A i \in 1 .. Len(t) - 1 : phs[i] = t[i + 1]
    BY <1>1
  <2> HIDE DEF t, ph, phs
  <2>2. ASSUME NEW i \in 1 .. Len(t) PROVE t[i] = ph \/ t[i] \in Elements(phs)
    <3>1. i = 1 \/ (i - 1 \in 1 .. Len(t) - 1 /\ i - 1 + 1 = i)
      BY <2>1
    <3> QED BY <2>1, <3>1 DEF Elements
  <2>3. \A x \in Elements(t) : x = ph \/ x \in Elements(phs)
    BY <2>1, <2>2 DEF Elements
  <2> QED BY <2>3 DEF t
<1>4. Still(h, c)
  BY <1>1 DEF Still, IsDue
<1>5. Move(h, c) = Advanced(h, c, f)
  BY <1>1 DEF Move
<1>6. CASE ph.name # "observe"
  <2> DEFINE g == [f EXCEPT !.rest = ph.body, !.phases = Tail(@)]
  <2>1. Move(h, c) = On(c, g)
    BY <1>1, <1>5, <1>6 DEF Advanced
  <2>2. ph \in Of(f.def, {"check"}) /\ ph.body \in Seq(Statements)
    BY <1>1, <1>2, <1>6, PhaseOK DEF Of
  <2>3. \A s \in Elements(ph.body) : From(s, f.def, "check")
    BY <2>2 DEF From
  <2>4. g = [f EXCEPT !.rest = ph.body, !.phases = phs, !.acted = f.acted, !.last = f.last]
    BY <1>1 DEF Frames
  <2> HIDE DEF g, ph, phs
  <2>5. /\ g \in Frames /\ g.def = f.def /\ g.phases = phs /\ g.stage = f.stage
        /\ g.rest = ph.body
    BY <1>1, <1>2, <2>2, <2>4 DEF Frames
  <2>6. Deciding(g)
    BY <1>2, <2>3, <2>5, DecidingOn
  <2>7. Keeps(h, f, g)
    BY <1>3, <1>6, <2>5, <2>6 DEF Keeps, Met
  <2> QED BY <1>4, <2>1, <2>7 DEF Decides
<1>7. CASE ph.name = "observe"
  <2>1. CASE Converged(h, ph.fields)
    <3>1. Move(h, c) = Left(c, Already)
      BY <1>1, <1>5, <1>7, <2>1 DEF Advanced
    <3> QED BY <1>4, <3>1, ConstantsOK, NotNothing DEF Decides
  <2>2. CASE ~Converged(h, ph.fields)
    <3> DEFINE g == [f EXCEPT !.phases = Tail(@)]
    <3>1. Move(h, c) = On(c, g)
      BY <1>1, <1>5, <1>7, <2>2 DEF Advanced
    <3>2. \A s \in Elements(f.rest) : From(s, f.def, "check")
      BY DEF Deciding
    <3>3. g = [f EXCEPT !.rest = f.rest, !.phases = phs, !.acted = f.acted, !.last = f.last]
      BY <1>1 DEF Frames
    <3>4. f.rest \in Seq(Statements)
      BY <1>1 DEF Frames
    <3> HIDE DEF g, ph, phs
    <3>5. /\ g \in Frames /\ g.def = f.def /\ g.phases = phs /\ g.stage = f.stage
          /\ g.rest = f.rest
      BY <1>1, <1>2, <3>3, <3>4 DEF Frames
    <3>6. Deciding(g)
      BY <1>2, <3>2, <3>5, DecidingOn
    <3>7. Keeps(h, f, g)
      BY <1>3, <1>7, <2>2, <3>5, <3>6 DEF Keeps, Met
    <3> QED BY <1>4, <3>1, <3>7 DEF Decides
  <2> QED BY <2>1, <2>2
<1> QED BY <1>6, <1>7

Pushed(c, g, f) == [stack |-> <<g, f>> \o Tail(c.stack), ret |-> NoOutcome]

LEMMA OnOK ==
  ASSUME NEW c \in Configurations, c.stack # <<>>, NEW g \in Frames, NEW d, d = On(c, g)
  PROVE  /\ d \in Configurations /\ d.ret = NoOutcome /\ Len(d.stack) = Len(c.stack)
         /\ d.stack[1] = g /\ Len(c.stack) \in Nat \ {0} /\ Head(c.stack) = c.stack[1]
         /\ \A i \in 1 .. Len(c.stack) : i # 1 => d.stack[i] = c.stack[i]
<1> DEFINE s == c.stack
           t == <<g>> \o Tail(s)
<1>1. s \in Seq(Frames) /\ s # <<>> /\ Len(s) \in Nat \ {0} /\ Head(s) = s[1]
  BY DEF Configurations
<1>2. d = [stack |-> t, ret |-> NoOutcome]
  BY DEF On
<1> HIDE DEF s
<1>3. t \in Seq(Frames) /\ Len(t) = Len(s) /\ t[1] = g /\ \A i \in 2 .. Len(s) : t[i] = s[i]
  BY <1>1, ReplaceTop
<1>4. \A i \in 1 .. Len(s) : i # 1 => i \in 2 .. Len(s)
  BY <1>1
<1> HIDE DEF t
<1>5. d \in Configurations /\ d.stack = t /\ d.ret = NoOutcome
  BY <1>2, <1>3, ConstantsOK DEF Configurations
<1> QED BY <1>1, <1>3, <1>4, <1>5 DEF s

LEMMA LeftOK ==
  ASSUME NEW c \in Configurations, c.stack # <<>>, NEW r \in Outcomes, NEW d, d = Left(c, r)
  PROVE  /\ d \in Configurations /\ d.ret = r /\ Len(d.stack) = Len(c.stack) - 1
         /\ Len(c.stack) \in Nat \ {0} /\ Head(c.stack) = c.stack[1]
         /\ \A i \in 1 .. Len(c.stack) - 1 : d.stack[i] = c.stack[i + 1]
<1> DEFINE s == c.stack
<1>1. s \in Seq(Frames) /\ s # <<>> /\ Len(s) \in Nat \ {0} /\ Head(s) = s[1]
  BY DEF Configurations
<1>2. d = [stack |-> Tail(s), ret |-> r]
  BY DEF Left
<1> HIDE DEF s
<1>3. /\ Tail(s) \in Seq(Frames) /\ Len(Tail(s)) = Len(s) - 1
      /\ \A i \in 1 .. Len(s) - 1 : Tail(s)[i] = s[i + 1]
  BY <1>1, TailOK
<1>4. d \in Configurations /\ d.stack = Tail(s) /\ d.ret = r
  BY <1>2, <1>3 DEF Configurations
<1> QED BY <1>1, <1>3, <1>4 DEF s

LEMMA PushedOK ==
  ASSUME NEW c \in Configurations, c.stack # <<>>, NEW f \in Frames, NEW g \in Frames,
         NEW d, d = Pushed(c, g, f)
  PROVE  /\ d \in Configurations /\ d.ret = NoOutcome /\ Len(d.stack) = Len(c.stack) + 1
         /\ d.stack[1] = g /\ d.stack[2] = f /\ Len(c.stack) \in Nat \ {0}
         /\ Head(c.stack) = c.stack[1]
         /\ \A i \in 3 .. Len(c.stack) + 1 : d.stack[i] = c.stack[i - 1]
<1> DEFINE s == c.stack
           t == <<g, f>> \o Tail(s)
<1>1. s \in Seq(Frames) /\ s # <<>> /\ Len(s) \in Nat \ {0} /\ Head(s) = s[1]
  BY DEF Configurations
<1>2. d = [stack |-> t, ret |-> NoOutcome]
  BY DEF Pushed
<1> HIDE DEF s
<1>3. /\ t \in Seq(Frames) /\ Len(t) = Len(s) + 1 /\ t[1] = g /\ t[2] = f
      /\ \A i \in 3 .. Len(s) + 1 : t[i] = s[i - 1]
  BY <1>1, PushTop
<1> HIDE DEF t
<1>4. d \in Configurations /\ d.stack = t /\ d.ret = NoOutcome
  BY <1>2, <1>3, ConstantsOK DEF Configurations
<1> QED BY <1>1, <1>3, <1>4 DEF s

(* What has been decided at frame k stays so, however the top goes on.     *)
LEMMA LeadsOn ==
  ASSUME NEW h, NEW c \in Configurations, c.stack # <<>>, NEW k \in 1 .. Len(c.stack),
         Leading(h, c, k), NEW g, Keeps(h, Head(c.stack), g)
  PROVE  Leads(h, On(c, g))
<1> DEFINE d == On(c, g)
<1>1. /\ d \in Configurations /\ d.ret = NoOutcome /\ Len(d.stack) = Len(c.stack)
      /\ d.stack[1] = g /\ Len(c.stack) \in Nat \ {0} /\ Head(c.stack) = c.stack[1]
      /\ \A i \in 1 .. Len(c.stack) : i # 1 => d.stack[i] = c.stack[i]
  <2>1. g \in Frames
    BY DEF Keeps, Deciding
  <2> QED BY <2>1, OnOK
<1> HIDE DEF d
<1>2. Finds(h, c.stack[1]) => Finds(h, g)
  BY <1>1 DEF Keeps, Finds
<1>3. Asking(c.stack[1]) => Asking(g)
  BY <1>1 DEF Keeps, Asking
<1>4. Leading(h, d, k)
  <2>1. Finds(h, d.stack[k])
    BY <1>1, <1>2 DEF Leading
  <2>2. ASSUME NEW i \in 1 .. Len(d.stack)
        PROVE  (i < k => Asking(d.stack[i])) /\ (i > k => d.stack[i].stage = "delegated")
    <3>1. i > k => i # 1
      BY <1>1
    <3>2. (i < k => Asking(c.stack[i])) /\ (i > k => c.stack[i].stage = "delegated")
      BY <1>1 DEF Leading
    <3> QED BY <1>1, <1>3, <3>1, <3>2
  <2> QED BY <2>1, <2>2 DEF Leading
<1> QED BY <1>1, <1>4 DEF Leads, d

LEMMA LeadsLeft ==
  ASSUME NEW h, NEW c \in Configurations, c.stack # <<>>, NEW k \in 1 .. Len(c.stack),
         Leading(h, c, k), NEW r \in Outcomes, r # NoOutcome
  PROVE  Leads(h, Left(c, r))
<1> DEFINE d == Left(c, r)
<1>1. /\ d \in Configurations /\ d.ret = r /\ Len(d.stack) = Len(c.stack) - 1
      /\ Len(c.stack) \in Nat \ {0}
      /\ \A i \in 1 .. Len(c.stack) - 1 : d.stack[i] = c.stack[i + 1]
  BY LeftOK
<1> HIDE DEF d
<1>2. ASSUME NEW i \in 1 .. Len(d.stack)
      PROVE  /\ i + 1 \in 1 .. Len(c.stack) /\ d.stack[i] = c.stack[i + 1]
             /\ i + 1 < k => Asking(d.stack[i])
             /\ i + 1 > k => d.stack[i].stage = "delegated"
  <2>1. i + 1 \in 1 .. Len(c.stack) /\ d.stack[i] = c.stack[i + 1]
    BY <1>1
  <2> QED BY <2>1 DEF Leading
<1>3. CASE k = 1
  <2>1. \A i \in 1 .. Len(d.stack) : d.stack[i].stage = "delegated"
    <3>1. \A i \in 1 .. Len(d.stack) : i + 1 > k
      BY <1>1, <1>3
    <3> QED BY <1>2, <3>1
  <2> QED BY <1>1, <2>1 DEF Leads, Unwinding, d
<1>4. CASE k # 1
  <2>1. k - 1 \in 1 .. Len(d.stack) /\ k - 1 + 1 = k
    BY <1>1, <1>4
  <2>2. Finds(h, d.stack[k - 1])
    BY <1>2, <2>1 DEF Leading
  <2>3. \A i \in 1 .. Len(d.stack) : (i < k - 1 => i + 1 < k) /\ (i > k - 1 => i + 1 > k)
    BY <1>1
  <2>4. Leading(h, d, k - 1)
    BY <1>2, <2>2, <2>3 DEF Leading
  <2> QED BY <1>1, <2>1, <2>4 DEF Leads, d
<1> QED BY <1>3, <1>4

LEMMA LeadsPushed ==
  ASSUME NEW h, NEW c \in Configurations, c.stack # <<>>, NEW k \in 1 .. Len(c.stack),
         Leading(h, c, k), NEW g, Keeps(h, Head(c.stack), g), NEW n \in Names, Question(n)
  PROVE  Leads(h, Pushed(c, Frame(n, "apply"), g))
<1> DEFINE q == Frame(n, "apply")
           d == Pushed(c, q, g)
<1>1. Asking(q) /\ q \in Frames /\ g \in Frames
  BY FrameDecides DEF Asking, Deciding, Keeps
<1> HIDE DEF q
<1>2. /\ d \in Configurations /\ d.ret = NoOutcome /\ Len(d.stack) = Len(c.stack) + 1
      /\ d.stack[1] = q /\ d.stack[2] = g /\ Len(c.stack) \in Nat \ {0}
      /\ Head(c.stack) = c.stack[1]
      /\ \A i \in 3 .. Len(c.stack) + 1 : d.stack[i] = c.stack[i - 1]
  BY <1>1, PushedOK
<1> HIDE DEF d
<1>3. Finds(h, c.stack[1]) => Finds(h, g)
  BY <1>2 DEF Keeps, Finds
<1>4. Asking(c.stack[1]) => Asking(g)
  BY <1>2 DEF Keeps, Asking
<1>5. Leading(h, d, k + 1)
  <2>1. Finds(h, d.stack[k + 1])
    <3>1. CASE k = 1
      BY <1>2, <1>3, <3>1 DEF Leading
    <3>2. CASE k # 1
      <4>1. k + 1 \in 3 .. Len(c.stack) + 1 /\ k + 1 - 1 = k
        BY <1>2, <3>2
      <4> QED BY <1>2, <4>1 DEF Leading
    <3> QED BY <3>1, <3>2
  <2>2. ASSUME NEW i \in 1 .. Len(d.stack)
        PROVE  (i < k + 1 => Asking(d.stack[i])) /\ (i > k + 1 => d.stack[i].stage = "delegated")
    <3>1. CASE i = 1
      BY <1>1, <1>2, <3>1
    <3>2. CASE i = 2
      <4>1. 1 \in 1 .. Len(c.stack) /\ (i < k + 1 => 1 < k) /\ ~(i > k + 1)
        BY <1>2, <3>2
      <4>2. 1 < k => Asking(c.stack[1])
        BY <4>1 DEF Leading
      <4> QED BY <1>2, <1>4, <3>2, <4>1, <4>2
    <3>3. CASE i # 1 /\ i # 2
      <4>1. /\ i \in 3 .. Len(c.stack) + 1 /\ i - 1 \in 1 .. Len(c.stack)
            /\ (i < k + 1 => i - 1 < k) /\ (i > k + 1 => i - 1 > k)
        BY <1>2, <3>3
      <4>2. d.stack[i] = c.stack[i - 1]
        BY <1>2, <4>1
      <4> QED BY <4>1, <4>2 DEF Leading
    <3> QED BY <3>1, <3>2, <3>3
  <2> QED BY <2>1, <2>2 DEF Leading
<1>6. k + 1 \in 1 .. Len(d.stack)
  BY <1>2
<1> QED BY <1>2, <1>5, <1>6 DEF Leads, d, q

LEMMA SettledIsMet ==
  ASSUME NEW h, NEW n \in Names, Settled(h, n)
  PROVE  \E ph \in Elements(Named(n, {"check", "observe"})) : Met(h, ph)
<1> DEFINE s == Named(n, {"observe"})
<1>1. s \in Seq(Phases) /\ Elements(s) = Of(n, {"observe"}) /\ s # <<>>
      /\ Converged(h, LastOf(s).fields)
  BY NamedOK DEF Settled, Observes
<1> HIDE DEF s
<1>2. Len(s) \in DOMAIN s
  BY <1>1
<1>3. LastOf(s) \in Of(n, {"observe"})
  BY <1>1, <1>2 DEF LastOf, Elements
<1>4. LastOf(s).name = "observe" /\ LastOf(s) \in Of(n, {"check", "observe"})
  BY <1>3 DEF Of
<1>5. LastOf(s) \in Elements(Named(n, {"check", "observe"}))
  BY <1>4, NamedOK
<1> QED BY <1>1, <1>4, <1>5 DEF Met

(* From where something was found, every step leads to the end.            *)
LEMMA LeadsGoesOn ==
  ASSUME ChecksOnlyAsk, NEW h, NEW c, Leads(h, c), c.stack # <<>>
  PROVE  Still(h, c) /\ Leads(h, Move(h, c))
<1> DEFINE f == Head(c.stack)
<1>1. /\ c \in Configurations /\ c.stack \in Seq(Frames) /\ c.ret \in Outcomes
      /\ Len(c.stack) \in Nat \ {0} /\ f = c.stack[1] /\ f \in Frames /\ f.def \in Names
  <2>1. c \in Configurations /\ c.stack \in Seq(Frames) /\ c.ret \in Outcomes
    BY DEF Leads, Configurations
  <2>2. Len(c.stack) \in Nat \ {0} /\ f = c.stack[1] /\ f \in Frames
    BY <2>1, TailOK
  <2> QED BY <2>1, <2>2 DEF Frames
<1>2. CASE Unwinding(c)
  <2>1. /\ c.ret # NoOutcome
        /\ c.ret.cat \in {"err", "fail"} \/ \A i \in 1 .. Len(c.stack) : c.stack[i].stage = "delegated"
    BY <1>2 DEF Unwinding
  <2>2. Still(h, c)
    BY <2>1 DEF Still, IsDue
  <2> DEFINE d == Left(c, c.ret)
  <2>3. Move(h, c) = d
    <3>1. c.ret.cat \in {"err", "fail"} \/ f.stage = "delegated"
      BY <1>1, <2>1
    <3> QED BY <2>1, <3>1 DEF Move, Received
  <2>4. /\ d \in Configurations /\ d.ret = c.ret /\ Len(d.stack) = Len(c.stack) - 1
        /\ \A i \in 1 .. Len(c.stack) - 1 : d.stack[i] = c.stack[i + 1]
    BY <1>1, LeftOK
  <2> HIDE DEF d
  <2>5. \A i \in 1 .. Len(d.stack) : i + 1 \in 1 .. Len(c.stack) /\ d.stack[i] = c.stack[i + 1]
    BY <1>1, <2>4
  <2>6. Unwinding(d)
    BY <2>1, <2>4, <2>5 DEF Unwinding
  <2> QED BY <2>2, <2>3, <2>4, <2>6 DEF Leads
<1>3. ASSUME ~Unwinding(c) PROVE Still(h, c) /\ Leads(h, Move(h, c))
  <2>1. PICK k \in 1 .. Len(c.stack) : Leading(h, c, k)
    BY <1>3 DEF Leads
  <2>2. /\ Deciding(f)
        /\ k = 1 => Finds(h, f)
        /\ k # 1 => Question(f.def)
    <3>1. 1 \in 1 .. Len(c.stack) /\ (k # 1 => 1 < k)
      BY <1>1
    <3> QED BY <1>1, <2>1, <3>1 DEF Leading, Finds, Asking
  <2>3. CASE c.ret # NoOutcome
    <3> DEFINE g == [f EXCEPT !.acted = @ \/ c.ret.changed, !.last = "called"]
    <3>1. Still(h, c)
      BY <2>3 DEF Still, IsDue
    <3>2. f.stage # "delegated" /\ c.ret.cat \notin {"err", "fail"}
      BY <1>3, <2>2, <2>3 DEF Unwinding, Deciding
    <3>3. Move(h, c) = On(c, g)
      BY <2>3, <3>2 DEF Move, Received
    <3>4. c.ret.changed \in BOOLEAN /\ "called" \in Lasts
      BY <1>1 DEF Outcomes, Lasts
    <3>5. /\ g \in Frames /\ g.stage = f.stage /\ g.def = f.def /\ g.rest = f.rest
          /\ g.phases = f.phases
      BY <1>1, <3>4 DEF Frames
    <3> HIDE DEF g, f
    <3>6. Deciding(g)
      <4>1. \A s \in Elements(f.rest) : From(s, f.def, "check")
        BY <2>2 DEF Deciding
      <4> QED BY <2>2, <3>5, <4>1, DecidingOn
    <3>7. Keeps(h, f, g)
      BY <3>5, <3>6 DEF Keeps
    <3> QED BY <1>1, <2>1, <3>1, <3>3, <3>7, LeadsOn DEF f
  <2>4. CASE c.ret = NoOutcome /\ (f.rest # <<>> \/ f.phases # <<>>)
    <3>1. Decides(h, c)
      BY <1>1, <2>2, <2>4, DecidesStatement, DecidesPhase
    <3>2. CASE \E g : Move(h, c) = On(c, g) /\ Keeps(h, f, g)
      BY <1>1, <2>1, <3>1, <3>2, LeadsOn DEF Decides
    <3>3. CASE \E r \in Outcomes : r # NoOutcome /\ Move(h, c) = Left(c, r)
      BY <1>1, <2>1, <3>1, <3>3, LeadsLeft DEF Decides
    <3>4. CASE \E n \in Names : \E g :
                 /\ Move(h, c) = Pushed(c, Frame(n, "apply"), g)
                 /\ Question(n) /\ Keeps(h, f, g)
      BY <1>1, <2>1, <3>1, <3>4, LeadsPushed DEF Decides
    <3> QED BY <3>1, <3>2, <3>3, <3>4 DEF Decides, Pushed
  <2>5. CASE c.ret = NoOutcome /\ f.rest = <<>> /\ f.phases = <<>>
    <3>1. Still(h, c)
      BY <2>5 DEF Still, IsDue
    <3>2. Move(h, c) = Advanced(h, c, f)
      BY <2>5 DEF Move
    <3>3. CASE k = 1
      <4> DEFINE n == Defs[f.def].delegate
                 g == [f EXCEPT !.stage = "delegated"]
                 q == Frame(n, "apply")
      <4>1. n # NoName /\ Settled(h, n)
        <5>1. ~\E ph \in Elements(f.phases) : TRUE
          BY <2>5 DEF Elements
        <5> QED BY <2>2, <3>3, <5>1 DEF Finds
      <4>2. n \in Names
        BY <1>1, <4>1, DefOK
      <4>3. Move(h, c) = Entered(c, n, g)
        BY <2>5, <3>2, <4>1 DEF Advanced
      <4>4. Finds(h, q) /\ q \in Frames
        BY <4>1, <4>2, SettledIsMet, FrameDecides DEF Finds, Deciding
      <4>5. g \in Frames /\ g.stage = "delegated"
        BY <1>1 DEF Frames, Stages
      <4> HIDE DEF g, q, f, n
      <4>6. CASE Move(h, c) = Left(c, Failure)
        BY <1>1, <2>1, <3>1, <4>6, LeadsLeft, ConstantsOK, NotNothing
      <4>7. CASE Move(h, c) = Pushed(c, q, g)
        <5> DEFINE d == Pushed(c, q, g)
        <5>1. /\ d \in Configurations /\ Len(d.stack) = Len(c.stack) + 1
              /\ d.stack[1] = q /\ d.stack[2] = g
              /\ \A i \in 3 .. Len(c.stack) + 1 : d.stack[i] = c.stack[i - 1]
          BY <1>1, <4>4, <4>5, PushedOK
        <5> HIDE DEF d
        <5>2. ASSUME NEW i \in 1 .. Len(d.stack), i > 1 PROVE d.stack[i].stage = "delegated"
          <6>1. CASE i = 2
            BY <4>5, <5>1, <6>1
          <6>2. CASE i # 2
            <7>1. i \in 3 .. Len(c.stack) + 1 /\ i - 1 \in 1 .. Len(c.stack) /\ i - 1 > k
              BY <1>1, <3>3, <5>1, <5>2, <6>2
            <7> QED BY <2>1, <5>1, <7>1 DEF Leading
          <6> QED BY <6>1, <6>2
        <5>3. 1 \in 1 .. Len(d.stack) /\ \A i \in 1 .. Len(d.stack) : ~(i < 1)
          BY <1>1, <5>1
        <5>4. Leading(h, d, 1)
          BY <4>4, <5>1, <5>2, <5>3 DEF Leading
        <5> QED BY <3>1, <4>7, <5>1, <5>3, <5>4 DEF Leads, d
      <4> QED BY <4>3, <4>6, <4>7 DEF Entered, Pushed, q
    <3>4. CASE k # 1
      <4>1. Defs[f.def].delegate = NoName /\ Named(f.def, {"apply"}) = <<>>
        BY <1>1, <2>2, <3>4, QuestionOK
      <4>2. Move(h, c) = Left(c, Outcome("ok", NoTag))
        BY <2>5, <3>2, <4>1 DEF Advanced
      <4>3. Outcome("ok", NoTag) \in Outcomes /\ Outcome("ok", NoTag) # NoOutcome
        BY OutcomeOK, NotNothing
      <4> QED BY <1>1, <2>1, <3>1, <4>2, <4>3, LeadsLeft
    <3> QED BY <3>3, <3>4
  <2> QED BY <2>3, <2>4, <2>5
<1> QED BY <1>2, <1>3

LEMMA LeadsToSafe ==
  ASSUME ChecksOnlyAsk, NEW h, NEW n, NEW c, Walk(h, n, c), Leads(h, c)
  PROVE  Safe(h, n)
<1> DEFINE S == {d \in Configurations : Leads(h, d)}
<1>1. c \in S
  BY DEF Leads
<1>2. Closed(h, S)
  <2>1. ASSUME NEW e \in S, e.stack # <<>> PROVE Still(h, e) /\ Move(h, e) \in S
    <3>1. Still(h, e) /\ Leads(h, Move(h, e))
      BY <2>1, LeadsGoesOn
    <3> QED BY <3>1 DEF Leads
  <2> HIDE DEF S
  <2> QED BY <2>1 DEF Closed
<1> QED BY <1>1, <1>2, WalkEnds

(* A def that was observed to hold, or hands over to one that was, finds   *)
(* nothing to do.                                                          *)
LEMMA StaysSafe ==
  ASSUME ChecksOnlyAsk, NEW h, NEW n \in Names, Stays(h, n)
  PROVE  Safe(h, n)
<1> DEFINE f == Frame(n, "apply")
           c == Start(n)
<1>1. Deciding(f) /\ f.def = n /\ f.phases = Named(n, {"check", "observe"}) /\ f \in Frames
  BY FrameDecides DEF Deciding
<1>2. Finds(h, f)
  BY <1>1, SettledIsMet DEF Finds, Stays
<1> HIDE DEF f
<1>3. c = [stack |-> <<f>>, ret |-> NoOutcome]
  BY DEF Start, f
<1>4. c \in Configurations /\ c.stack = <<f>>
  BY <1>1, <1>3, ConstantsOK DEF Configurations
<1> HIDE DEF c
<1>5. Len(c.stack) = 1 /\ c.stack[1] = f
  BY <1>4
<1>6. Leading(h, c, 1)
  BY <1>2, <1>5 DEF Leading
<1>7. Leads(h, c)
  BY <1>4, <1>5, <1>6 DEF Leads
<1>8. Walk(h, n, c)
  BY WalkBegins DEF c
<1> QED BY <1>7, <1>8, LeadsToSafe

-----------------------------------------------------------------------------
(* A run that has not acted walks on.                                      *)
Spoken == Says(ret) \/ \E i \in 1 .. Len(stack) : Acted(stack[i])

WalksNext ==
  /\ Still(host, Here) => host' = host /\ (Here' = Move(host, Here) \/ ret' = Failure)
  /\ ~Still(host, Here) => Spoken'

LEMMA HereIs ==
  /\ Here.stack = stack /\ Here.ret = ret /\ Head(Here.stack) = Top
  /\ \A r : Leave(r) => Here' = Left(Here, r)
  /\ \A f : SetTop(f) /\ ret' = NoOutcome => Here' = On(Here, f)
BY DEF Here, Top, Leave, SetTop, Left, On

LEMMA FailureSpeaks ==
  ASSUME Leave(Failure) PROVE Spoken' /\ ret' = Failure
BY NothingSaid DEF Leave, Spoken

LEMMA ActingSpeaks ==
  ASSUME EvalInv, Busy, Top.rest # <<>>, Top.stage = "apply", NEW last, Continue(last, TRUE)
  PROVE  Spoken'
<1> DEFINE f == [Top EXCEPT !.rest = Tail(@), !.last = last, !.acted = @ \/ TRUE]
<1>1. stack # <<>> /\ stack' = <<f>> \o Tail(stack) /\ Top \in Frames
  BY TopOK DEF Busy, Continue, SetTop, FrameOK
<1>2. Acted(f)
  BY <1>1 DEF Acted, Frames
<1> HIDE DEF f
<1>3. 1 \in 1 .. Len(stack') /\ stack'[1] = f
  <2> DEFINE t == Tail(stack)
  <2>1. t \in Seq(Frames)
    BY <1>1 DEF EvalInv, Calls
  <2>2. stack' = <<f>> \o t
    BY <1>1
  <2> HIDE DEF t
  <2> QED BY <2>1, <2>2
<1> QED BY <1>2, <1>3 DEF Spoken

LEMMA MovesOf ==
  ASSUME Busy
  PROVE  /\ Top.rest = <<>> => Still(host, Here) /\ Move(host, Here) = Advanced(host, Here, Top)
         /\ Top.rest # <<>> /\ ~Passes(Top.last, Statement.if) =>
              /\ Still(host, Here)
              /\ Move(host, Here) = On(Here, [Top EXCEPT !.rest = Tail(@)])
         /\ Top.rest # <<>> /\ Passes(Top.last, Statement.if) =>
              /\ Still(host, Here) <=>
                   /\ Statement.op # "set"
                   /\ Statement.op \in {"write", "sync"} => InPlace
              /\ Move(host, Here) = Evaluated(host, Here, Top, Statement)
<1>1. Here.ret = NoOutcome /\ Head(Here.stack) = Top
  BY HereIs DEF Busy
<1> QED BY <1>1 DEF Move, Still, IsDue, Statement, InPlace

LEMMA SkipWalks ==
  ASSUME EvalInv, Authored, SkipStatement PROVE WalksNext
<1>1. Busy /\ Top.rest # <<>> /\ ~Passes(Top.last, Statement.if) /\ host' = host
  BY DEF SkipStatement
<1>2. Here' = On(Here, [Top EXCEPT !.rest = Tail(@)])
  BY HereIs DEF SkipStatement, Busy
<1> QED BY <1>1, <1>2, MovesOf DEF WalksNext

LEMMA ContinueWalks ==
  ASSUME Busy, NEW last, NEW acted, Continue(last, acted)
  PROVE  Here' = On(Here, Past(Top, last, acted))
<1>1. SetTop(Past(Top, last, acted)) /\ ret' = NoOutcome
  BY DEF Continue, Past, Busy
<1> QED BY <1>1, HereIs

LEMMA TestWalks ==
  ASSUME EvalInv, Authored, Test PROVE WalksNext
<1>1. /\ Busy /\ Top.rest # <<>> /\ Passes(Top.last, Statement.if) /\ Statement.op = "test"
      /\ host' = host
  BY DEF Test, Due
<1>2. Here' = On(Here, Past(Top, IF host[Statement.path] = Statement.value THEN "ok" ELSE "err", TRUE))
  BY <1>1, ContinueWalks DEF Test
<1>3. Move(host, Here) = Here' /\ Still(host, Here)
  BY <1>1, <1>2, MovesOf DEF Evaluated
<1> QED BY <1>1, <1>3 DEF WalksNext

LEMMA SetWalks ==
  ASSUME EvalInv, Authored, Set PROVE WalksNext
<1>1. /\ Busy /\ Top.rest # <<>> /\ Passes(Top.last, Statement.if) /\ Statement.op = "set"
  BY DEF Set, Due
<1>2. ~Still(host, Here)
  BY <1>1, MovesOf
<1>3. Top.stage = "apply"
  BY <1>1, ActingOK
<1>4. PICK exit \in {"ok", "err"} : Continue(exit, TRUE)
  BY DEF Set
<1>5. Spoken'
  BY <1>1, <1>3, <1>4, ActingSpeaks
<1> QED BY <1>2, <1>5 DEF WalksNext

LEMMA DeliveryWalks ==
  ASSUME EvalInv, Authored, Busy, Top.rest # <<>>, Passes(Top.last, Statement.if),
         Statement.op \in {"write", "sync"},
         \/ Leave(Failure) /\ (Put \/ UNCHANGED host)
         \/ Continue(IF InPlace THEN "0" ELSE "1", ~InPlace) /\ Put
  PROVE  WalksNext
<1>1. Top.stage = "apply" /\ Statement.path \in Paths /\ host \in [Paths -> Values]
  BY ActingOK DEF EvalInv, Calls
<1>2. InPlace /\ Put => host' = host
  BY <1>1 DEF InPlace, Put
<1>3. Still(host, Here) <=> InPlace
  BY MovesOf
<1>4. CASE Leave(Failure) /\ (Put \/ UNCHANGED host)
  BY <1>2, <1>3, <1>4, FailureSpeaks DEF WalksNext
<1>5. CASE Put /\ Continue(IF InPlace THEN "0" ELSE "1", ~InPlace)
  <2>1. CASE InPlace
    <3>1. Continue("0", FALSE)
      BY <1>5, <2>1
    <3>2. Here' = On(Here, Past(Top, "0", FALSE))
      BY <3>1, ContinueWalks
    <3>3. Move(host, Here) = Here'
      BY <3>2, MovesOf DEF Evaluated
    <3> QED BY <1>2, <1>3, <1>5, <2>1, <3>3 DEF WalksNext
  <2>2. CASE ~InPlace
    <3>1. Continue("1", TRUE)
      BY <1>5, <2>2
    <3>2. Spoken'
      BY <1>1, <3>1, ActingSpeaks
    <3> QED BY <1>3, <2>2, <3>2 DEF WalksNext
  <2> QED BY <2>1, <2>2
<1> QED BY <1>4, <1>5

LEMMA WriteWalks ==
  ASSUME EvalInv, Authored, Write PROVE WalksNext
<1>1. mode = "apply"
  BY DEF Authored
<1>2. \/ Leave(Failure) /\ (Put \/ UNCHANGED host)
      \/ Continue(IF InPlace THEN "0" ELSE "1", ~InPlace) /\ Put
  BY <1>1 DEF Write
<1>3. /\ Busy /\ Top.rest # <<>> /\ Passes(Top.last, Statement.if) /\ Statement.op = "write"
  BY DEF Write, Due
<1> QED BY <1>2, <1>3, DeliveryWalks

LEMMA SyncWalks ==
  ASSUME EvalInv, Authored, Sync PROVE WalksNext
<1>1. mode # "check"
  BY DEF Authored
<1>2. \/ Leave(Failure) /\ (Put \/ UNCHANGED host)
      \/ Continue(IF InPlace THEN "0" ELSE "1", ~InPlace) /\ Put
  BY <1>1 DEF Sync
<1>3. /\ Busy /\ Top.rest # <<>> /\ Passes(Top.last, Statement.if) /\ Statement.op = "sync"
  BY DEF Sync, Due
<1> QED BY <1>2, <1>3, DeliveryWalks

LEMMA CallWalks ==
  ASSUME Busy, mode = "apply", NEW n, NEW f, Call(n, f)
  PROVE  Here' = Entered(Here, n, f)
<1>1. Here.stack = stack /\ Here' = [stack |-> stack', ret |-> ret'] /\ ret = NoOutcome
  BY DEF Here, Busy
<1>2. CASE \E i \in DOMAIN stack : stack[i].def = n
  BY <1>1, <1>2, HereIs DEF Call, Entered
<1>3. CASE ~\E i \in DOMAIN stack : stack[i].def = n
  BY <1>1, <1>3 DEF Call, Entered
<1> QED BY <1>2, <1>3

LEMMA CallDefWalks ==
  ASSUME EvalInv, Authored, CallDef PROVE WalksNext
<1>1. /\ Busy /\ Top.rest # <<>> /\ Passes(Top.last, Statement.if) /\ Statement.op = "call"
      /\ host' = host /\ mode = "apply"
  BY DEF CallDef, Due, Authored
<1>2. Here' = Entered(Here, Statement.def, [Top EXCEPT !.rest = Tail(@)])
  BY <1>1, CallWalks DEF CallDef
<1>3. Move(host, Here) = Here' /\ Still(host, Here)
  BY <1>1, <1>2, MovesOf DEF Evaluated
<1> QED BY <1>1, <1>3 DEF WalksNext

LEMMA StopWalks ==
  ASSUME EvalInv, Authored, Stop PROVE WalksNext
<1>1. /\ Busy /\ Top.rest # <<>> /\ Passes(Top.last, Statement.if) /\ Statement.op = "stop"
      /\ host' = host /\ Leave(Failure)
  BY DEF Stop, Due
<1>2. Still(host, Here)
  BY <1>1, MovesOf
<1> QED BY <1>1, <1>2, FailureSpeaks DEF WalksNext

LEMMA ReturnWalks ==
  ASSUME EvalInv, Authored, Return PROVE WalksNext
<1> DEFINE r == Outcome(Statement.cat, Statement.tag)
<1>1. /\ Busy /\ Top.rest # <<>> /\ Passes(Top.last, Statement.if) /\ Statement.op = "return"
      /\ host' = host /\ mode = "apply" /\ Top.stage \in {"decide", "apply"}
  BY StatementIsOK DEF Return, Due, Authored, Busy
<1>2. Still(host, Here) /\ Move(host, Here) = Evaluated(host, Here, Top, Statement)
  BY <1>1, MovesOf
<1>3. CASE Top.stage = "decide"
  <2>1. Leave(r)
    BY <1>1, <1>3 DEF Return, Softened
  <2>2. Here' = Left(Here, r)
    BY <2>1, HereIs
  <2>3. Move(host, Here) = Left(Here, r)
    BY <1>1, <1>2, <1>3 DEF Evaluated
  <2> QED BY <1>1, <1>2, <2>2, <2>3 DEF WalksNext
<1>4. CASE Top.stage = "apply"
  <2>1. Leave(Confirmed(r))
    BY <1>4 DEF Return
  <2>2. Confirmed(r) = ConfirmedAt(host, Top, r)
    BY DEF Confirmed, ConfirmedAt
  <2>3. Here' = Left(Here, ConfirmedAt(host, Top, r))
    BY <2>1, <2>2, HereIs
  <2>4. Move(host, Here) = Left(Here, ConfirmedAt(host, Top, r))
    BY <1>1, <1>2, <1>4 DEF Evaluated
  <2> QED BY <1>1, <1>2, <2>3, <2>4 DEF WalksNext
<1> QED BY <1>1, <1>3, <1>4

LEMMA BetweenWalks ==
  ASSUME Between, host' = host, Here' = Advanced(host, Here, Top) PROVE WalksNext
BY MovesOf DEF Between, WalksNext

LEMMA OpenPhaseWalks ==
  ASSUME EvalInv, Authored, OpenPhase PROVE WalksNext
<1>1. /\ Between /\ Top.phases # <<>> /\ Head(Top.phases).name # "observe" /\ host' = host
      /\ SetTop([Top EXCEPT !.rest = Head(Top.phases).body, !.phases = Tail(@)])
      /\ ret' = NoOutcome
  BY DEF OpenPhase, Between, Busy
<1>2. Here' = Advanced(host, Here, Top)
  BY <1>1, HereIs DEF Advanced
<1> QED BY <1>1, <1>2, BetweenWalks

LEMMA ObserveWalks ==
  ASSUME EvalInv, Authored, Observe PROVE WalksNext
<1>1. /\ Between /\ Top.phases # <<>> /\ ~(Head(Top.phases).name # "observe") /\ host' = host
      /\ ret = NoOutcome
  BY DEF Observe, Between, Busy
<1>2. CASE Converged(host, Head(Top.phases).fields)
  <2>1. Leave(Already)
    BY <1>2 DEF Observe
  <2> QED BY <1>1, <1>2, <2>1, HereIs, BetweenWalks DEF Advanced
<1>3. CASE ~Converged(host, Head(Top.phases).fields)
  <2>1. SetTop([Top EXCEPT !.phases = Tail(@)]) /\ ret' = NoOutcome
    BY <1>1, <1>3 DEF Observe
  <2> QED BY <1>1, <1>3, <2>1, HereIs, BetweenWalks DEF Advanced
<1> QED BY <1>2, <1>3

LEMMA DelegateWalks ==
  ASSUME EvalInv, Authored, Delegate PROVE WalksNext
<1>1. /\ Between /\ Busy /\ Top.phases = <<>> /\ Defs[Top.def].delegate # NoName /\ host' = host
      /\ Call(Defs[Top.def].delegate, [Top EXCEPT !.stage = "delegated"]) /\ mode = "apply"
  BY DEF Delegate, Undecided, Between, Authored
<1>2. Here' = Entered(Here, Defs[Top.def].delegate, [Top EXCEPT !.stage = "delegated"])
  BY <1>1, CallWalks
<1> QED BY <1>1, <1>2, BetweenWalks DEF Advanced

LEMMA ActWalks ==
  ASSUME EvalInv, Authored, Act PROVE WalksNext
<1>1. /\ Between /\ Top.phases = <<>> /\ Defs[Top.def].delegate = NoName /\ host' = host
      /\ ret = NoOutcome
  BY DEF Act, DecidesItself, Undecided, Between, Busy
<1>2. CASE Named(Top.def, {"apply"}) = <<>>
  <2>1. Leave(Outcome("ok", NoTag))
    BY <1>2 DEF Act
  <2> QED BY <1>1, <1>2, <2>1, HereIs, BetweenWalks DEF Advanced
<1>3. CASE Named(Top.def, {"apply"}) # <<>>
  <2>1. /\ SetTop([Top EXCEPT !.stage = "apply", !.acted = FALSE,
                              !.rest = Head(Named(Top.def, {"apply"})).body])
        /\ ret' = NoOutcome
    BY <1>1, <1>3 DEF Act
  <2> QED BY <1>1, <1>3, <2>1, HereIs, BetweenWalks DEF Advanced
<1> QED BY <1>2, <1>3

LEMMA ReceiveWalks ==
  ASSUME EvalInv, Authored, Receive PROVE WalksNext
<1>1. stack # <<>> /\ ret # NoOutcome /\ host' = host
  BY DEF Receive
<1>2. Still(host, Here) /\ Move(host, Here) = Received(Here, Top)
  BY <1>1, HereIs DEF Still, IsDue, Move
<1>3. Here' = Received(Here, Top)
  <2>1. Here.ret = ret
    BY HereIs
  <2>2. CASE ret.cat \in {"err", "fail"} \/ Top.stage = "delegated"
    <3>1. Leave(ret)
      BY <2>2 DEF Receive
    <3> QED BY <2>1, <2>2, <3>1, HereIs DEF Received
  <2>3. CASE ~(ret.cat \in {"err", "fail"} \/ Top.stage = "delegated")
    <3>1. SetTop([Top EXCEPT !.acted = @ \/ ret.changed, !.last = "called"]) /\ ret' = NoOutcome
      BY <2>3 DEF Receive
    <3> QED BY <2>1, <2>3, <3>1, HereIs DEF Received
  <2> QED BY <2>2, <2>3
<1> QED BY <1>1, <1>2, <1>3 DEF WalksNext

LEMMA ApplyWalks ==
  ASSUME EvalInv, Authored, Step, ~End PROVE WalksNext
<1>1. ~Report /\ ~Foresee
  BY DEF Report, Foresee, Authored
<1>2. ~PreviewOver
  BY TopOK DEF PreviewOver, Between, Busy
<1> QED BY <1>1, <1>2, SkipWalks, TestWalks, SetWalks, WriteWalks, SyncWalks, CallDefWalks,
           StopWalks, ReturnWalks, OpenPhaseWalks, ObserveWalks, DelegateWalks, ActWalks,
           ReceiveWalks
        DEF Step

(* A delegation is to the delegate, what acts is of a def that decides     *)
(* itself, and the outermost frame is of the call that was made.           *)
Lined ==
  InCall =>
    /\ stack # <<>> => stack[Len(stack)].def = Current.def
    /\ \A i \in 1 .. Len(stack) - 1 : stack[i + 1].stage = "delegated" =>
         stack[i].def = Defs[stack[i + 1].def].delegate
    /\ \A i \in 1 .. Len(stack) :
         stack[i].stage = "apply" => Defs[stack[i].def].delegate = NoName

(* A def that says it changed something was observed since.                *)
Answers(n) ==
  \/ stack = <<>> /\ n = Current.def
  \/ stack # <<>> /\ Top.stage = "delegated" /\ n = Defs[Top.def].delegate
Observed ==
  ChecksOnlyAsk /\ WouldIsDerived =>
    (InCall /\ mode = "apply" /\ ret.cat = "ok" /\ ret.changed =>
       \A n : Answers(n) /\ Managed(n) => Stays(host, n))

(* A run walks until it acts; one that can walk to its end does.           *)
Reached(h) == ret.cat \in {"err", "fail"} \/ \E S : Here \in S /\ Closed(h, S)
Walked ==
  ChecksOnlyAsk /\ WouldIsDerived =>
    /\ InCall /\ mode = "apply" =>
         /\ Spoken \/ Walk(Current.before, Current.def, Here)
         /\ Safe(Current.before, Current.def) => host = Current.before /\ Reached(host)
    /\ \A i \in DOMAIN log : Over(i) /\ log[i].mode = "apply" =>
         /\ log[i].outcome.cat = "ok" /\ Managed(log[i].def) => Safe(log[i].after, log[i].def)
         /\ Safe(log[i].before, log[i].def) => Untouched(i)

(* Nobody else touches the host.                                           *)
Alone ==
  /\ \A i \in DOMAIN log : i + 1 \in DOMAIN log => log[i + 1].before = log[i].after
  /\ ~InCall /\ log # <<>> => Current.after = host

RunInv == Lined /\ Observed /\ Walked /\ Alone

LEMMA SpokenStays ==
  ASSUME EvalInv, Authored, StepKind, Spoken PROVE Spoken'
<1>1. Quiet /\ ((\E f : Moves(f)) \/ (\E r : Leaves(r)) \/ (\E n, f : Pushes(n, f)))
  BY DEF StepKind
<1>2. ASSUME stack # <<>>
      PROVE  /\ stack \in Seq(Frames) /\ Len(stack) \in Nat \ {0} /\ Top = stack[1]
  BY <1>2, Standing
<1>3. ASSUME NEW f, Moves(f) PROVE Spoken'
  <2>1. /\ stack # <<>> /\ stack' = <<f>> \o Tail(stack) /\ f \in Frames
        /\ Acted(Top) \/ Says(ret) => Acted(f)
    BY <1>3 DEF Moves, SetTop, FrameOK
  <2>2. /\ stack \in Seq(Frames) /\ Len(stack) \in Nat \ {0} /\ Top = stack[1]
    BY <1>2, <2>1
  <2>3. /\ Len(stack') = Len(stack) /\ stack'[1] = f
        /\ \A i \in 2 .. Len(stack) : stack'[i] = stack[i]
    BY <2>1, <2>2, ReplaceTop
  <2>4. CASE Acted(f)
    BY <2>2, <2>3, <2>4 DEF Spoken
  <2>5. CASE ~Acted(f)
    <3>1. PICK i \in 1 .. Len(stack) : Acted(stack[i])
      BY <2>1, <2>5 DEF Spoken
    <3>2. i \in 2 .. Len(stack)
      BY <2>1, <2>2, <2>5, <3>1
    <3> QED BY <2>3, <3>1, <3>2 DEF Spoken
  <2> QED BY <2>4, <2>5
<1>4. ASSUME NEW r, Leaves(r) PROVE Spoken'
  <2>1. /\ stack # <<>> /\ stack' = Tail(stack) /\ ret' = r
        /\ Acted(Top) \/ Says(ret) => Says(r)
    BY <1>4 DEF Leaves, Leave
  <2>2. /\ stack \in Seq(Frames) /\ Len(stack) \in Nat \ {0} /\ Top = stack[1]
    BY <1>2, <2>1
  <2>3. /\ Len(stack') = Len(stack) - 1
        /\ \A i \in 1 .. Len(stack) - 1 : stack'[i] = stack[i + 1]
    BY <2>1, <2>2, TailOK
  <2>4. CASE Says(r)
    BY <2>1, <2>4 DEF Spoken
  <2>5. CASE ~Says(r)
    <3>1. PICK i \in 1 .. Len(stack) : Acted(stack[i])
      BY <2>1, <2>5 DEF Spoken
    <3>2. i - 1 \in 1 .. Len(stack) - 1 /\ i - 1 + 1 = i
      <4>1. i # 1
        BY <2>1, <2>2, <2>5, <3>1
      <4> QED BY <2>2, <4>1
    <3>3. i - 1 \in 1 .. Len(stack') /\ stack'[i - 1] = stack[i]
      BY <2>3, <3>2
    <3> QED BY <3>1, <3>3 DEF Spoken
  <2> QED BY <2>4, <2>5
<1>5. ASSUME NEW n, NEW f, Pushes(n, f) PROVE Spoken'
  <2> DEFINE g == Frame(n, mode)
  <2>1. /\ stack # <<>> /\ stack' = <<g, f>> \o Tail(stack) /\ f \in Frames
        /\ Acted(Top) => Acted(f)
        /\ ~Says(ret) /\ n \in Names /\ mode \in Modes
    BY <1>5, NothingSaid DEF Pushes, FrameOK, EvalInv, Calls
  <2>2. g \in Frames
    BY <2>1, FrameIsOK DEF FrameOK
  <2> HIDE DEF g
  <2>3. /\ stack \in Seq(Frames) /\ Len(stack) \in Nat \ {0} /\ Top = stack[1]
    BY <1>2, <2>1
  <2>4. /\ Len(stack') = Len(stack) + 1 /\ stack'[2] = f
        /\ \A i \in 3 .. Len(stack) + 1 : stack'[i] = stack[i - 1]
    BY <2>1, <2>2, <2>3, PushTop
  <2>5. PICK i \in 1 .. Len(stack) : Acted(stack[i])
    BY <2>1 DEF Spoken
  <2>6. CASE i = 1
    <3>1. 2 \in 1 .. Len(stack')
      BY <2>3, <2>4
    <3> QED BY <2>1, <2>3, <2>4, <2>5, <2>6, <3>1 DEF Spoken
  <2>7. CASE i # 1
    <3>1. /\ i + 1 \in 3 .. Len(stack) + 1 /\ i + 1 \in 1 .. Len(stack') /\ i + 1 - 1 = i
      BY <2>3, <2>4, <2>7
    <3>2. stack'[i + 1] = stack[i]
      BY <2>4, <3>1
    <3> QED BY <2>5, <3>1, <3>2 DEF Spoken
  <2> QED BY <2>6, <2>7
<1> QED BY <1>1, <1>3, <1>4, <1>5

LEMMA LinedStays ==
  ASSUME EvalInv, Lined, StepKind PROVE Lined'
<1>1. /\ Quiet /\ ((\E f : Moves(f)) \/ (\E r : Leaves(r)) \/ (\E n, f : Pushes(n, f)))
      /\ Current' = Current
  BY DEF StepKind, Quiet, Current
<1>2. ASSUME stack # <<>>
      PROVE  /\ stack \in Seq(Frames) /\ Len(stack) \in Nat \ {0} /\ Top = stack[1]
             /\ stack[Len(stack)].def = Current.def
             /\ \A i \in 1 .. Len(stack) - 1 : stack[i + 1].stage = "delegated" =>
                  stack[i].def = Defs[stack[i + 1].def].delegate
             /\ \A i \in 1 .. Len(stack) :
                  stack[i].stage = "apply" => Defs[stack[i].def].delegate = NoName
  BY <1>2, Standing DEF Lined, InCall
<1>3. ASSUME NEW f, Moves(f) PROVE Lined'
  <2>1. /\ stack # <<>> /\ stack' = <<f>> \o Tail(stack) /\ f \in Frames /\ f.def = Top.def
        /\ f.stage = "delegated" => Top.stage = "delegated"
        /\ f.stage = "apply" => Top.stage = "apply" \/ Defs[f.def].delegate = NoName
    BY <1>3 DEF Moves, SetTop, FrameOK
  <2>2. /\ stack \in Seq(Frames) /\ Len(stack) \in Nat \ {0} /\ Top = stack[1]
    BY <1>2, <2>1
  <2>3. /\ Len(stack') = Len(stack) /\ stack'[1] = f
        /\ \A i \in 2 .. Len(stack) : stack'[i] = stack[i]
    BY <2>1, <2>2, ReplaceTop
  <2>4. \A i \in 1 .. Len(stack) : i = 1 \/ i \in 2 .. Len(stack)
    BY <2>2
  <2>5. ASSUME NEW i \in 1 .. Len(stack)
        PROVE  /\ stack'[i].def = stack[i].def
               /\ stack'[i].stage = "delegated" => stack[i].stage = "delegated"
               /\ stack'[i].stage = "apply" => Defs[stack'[i].def].delegate = NoName
    <3>1. 1 \in 1 .. Len(stack)
      BY <2>2
    <3>2. stack[i].stage = "apply" => Defs[stack[i].def].delegate = NoName
      BY <1>2, <2>1
    <3> QED BY <2>1, <2>2, <2>3, <2>4, <3>1, <3>2
  <2>6. stack'[Len(stack')].def = Current.def
    BY <1>2, <2>1, <2>2, <2>3, <2>5
  <2>7. ASSUME NEW i \in 1 .. Len(stack') - 1, stack'[i + 1].stage = "delegated"
        PROVE  stack'[i].def = Defs[stack'[i + 1].def].delegate
    <3>1. i \in 1 .. Len(stack) - 1 /\ i \in 1 .. Len(stack) /\ i + 1 \in 1 .. Len(stack)
      BY <2>2, <2>3
    <3> QED BY <1>2, <2>1, <2>5, <2>7, <3>1
  <2> QED BY <1>1, <2>3, <2>5, <2>6, <2>7 DEF Lined
<1>4. ASSUME NEW r, Leaves(r) PROVE Lined'
  <2>1. stack # <<>> /\ stack' = Tail(stack)
    BY <1>4 DEF Leaves, Leave
  <2>2. stack \in Seq(Frames) /\ Len(stack) \in Nat \ {0}
    BY <1>2, <2>1
  <2>3. /\ Len(stack') = Len(stack) - 1 /\ stack' \in Seq(Frames)
        /\ \A i \in 1 .. Len(stack) - 1 : stack'[i] = stack[i + 1]
    BY <2>1, <2>2, TailOK
  <2>4. \A i \in 1 .. Len(stack') : i + 1 \in 1 .. Len(stack) /\ stack'[i] = stack[i + 1]
    BY <2>2, <2>3
  <2>5. stack' # <<>> => stack'[Len(stack')].def = Current.def
    <3>1. stack' # <<>> => Len(stack') \in 1 .. Len(stack') /\ Len(stack') + 1 = Len(stack)
      BY <2>2, <2>3
    <3> QED BY <1>2, <2>1, <2>4, <3>1
  <2>6. ASSUME NEW i \in 1 .. Len(stack') - 1, stack'[i + 1].stage = "delegated"
        PROVE  stack'[i].def = Defs[stack'[i + 1].def].delegate
    <3>1. i \in 1 .. Len(stack') /\ i + 1 \in 1 .. Len(stack') /\ i + 1 \in 1 .. Len(stack) - 1
      BY <2>2, <2>3
    <3> QED BY <1>2, <2>1, <2>4, <2>6, <3>1
  <2> QED BY <1>1, <1>2, <2>1, <2>4, <2>5, <2>6 DEF Lined
<1>5. ASSUME NEW n, NEW f, Pushes(n, f) PROVE Lined'
  <2> DEFINE g == Frame(n, mode)
  <2>1. /\ stack # <<>> /\ stack' = <<g, f>> \o Tail(stack) /\ f \in Frames /\ f.def = Top.def
        /\ f.stage = "delegated" => n = Defs[f.def].delegate
        /\ f.stage = "apply" => Top.stage = "apply"
        /\ n \in Names /\ mode \in Modes
    BY <1>5 DEF Pushes, FrameOK, EvalInv, Calls
  <2>2. g \in Frames /\ g.def = n /\ g.stage = "decide"
    BY <2>1, FrameIsOK DEF FrameOK
  <2> HIDE DEF g
  <2>3. stack \in Seq(Frames) /\ Len(stack) \in Nat \ {0} /\ Top = stack[1]
    BY <1>2, <2>1
  <2>4. /\ Len(stack') = Len(stack) + 1 /\ stack'[1] = g /\ stack'[2] = f
        /\ \A i \in 3 .. Len(stack) + 1 : stack'[i] = stack[i - 1]
    BY <2>1, <2>2, <2>3, PushTop
  <2>5. ASSUME NEW i \in 2 .. Len(stack')
        PROVE  /\ i - 1 \in 1 .. Len(stack) /\ stack'[i].def = stack[i - 1].def
               /\ stack'[i].stage = "apply" => stack[i - 1].stage = "apply"
               /\ i > 2 => stack'[i] = stack[i - 1]
    <3>1. i - 1 \in 1 .. Len(stack) /\ (i = 2 \/ i \in 3 .. Len(stack) + 1)
      BY <2>3, <2>4
    <3> QED BY <2>1, <2>3, <2>4, <3>1
  <2>6. stack'[Len(stack')].def = Current.def
    <3>1. Len(stack') \in 2 .. Len(stack') /\ Len(stack') - 1 = Len(stack)
      BY <2>3, <2>4
    <3>2. stack'[Len(stack')].def = stack[Len(stack')- 1].def
      BY <2>5, <3>1
    <3> QED BY <1>2, <2>1, <3>1, <3>2
  <2>7. ASSUME NEW i \in 1 .. Len(stack') - 1, stack'[i + 1].stage = "delegated"
        PROVE  stack'[i].def = Defs[stack'[i + 1].def].delegate
    <3>1. CASE i = 1
      BY <2>1, <2>2, <2>4, <2>7, <3>1
    <3>2. CASE i # 1
      <4>1. /\ i \in 2 .. Len(stack') /\ i + 1 \in 2 .. Len(stack') /\ i + 1 > 2
            /\ i + 1 - 1 = i /\ i - 1 + 1 = i /\ i - 1 \in 1 .. Len(stack) - 1
        BY <2>3, <2>4, <3>2
      <4>2. stack'[i + 1] = stack[i] /\ stack'[i].def = stack[i - 1].def
        BY <2>5, <4>1
      <4>3. stack[i - 1].def = Defs[stack[i].def].delegate
        BY <1>2, <2>1, <2>7, <4>1, <4>2
      <4> QED BY <4>2, <4>3
    <3> QED BY <3>1, <3>2
  <2>8. ASSUME NEW i \in 1 .. Len(stack'), stack'[i].stage = "apply"
        PROVE  Defs[stack'[i].def].delegate = NoName
    <3>1. i = 1 \/ i \in 2 .. Len(stack')
      BY <2>4
    <3>2. i # 1
      BY <2>2, <2>4, <2>8
    <3> QED BY <1>2, <2>1, <2>5, <2>8, <3>1, <3>2
  <2> QED BY <1>1, <2>6, <2>7, <2>8 DEF Lined
<1> QED BY <1>1, <1>3, <1>4, <1>5

LEMMA DelegatingOnlyChecks ==
  ASSUME NEW n \in Names, Defs[n].delegate # NoName PROVE ~Observes(n)
<1> DEFINE s == Named(n, {"observe"})
<1>1. Of(n, {"observe"}) = {}
  BY DefAssumption DEF Of, Elements
<1>2. s \in Seq(Phases) /\ Elements(s) = {}
  BY <1>1, NamedOK
<1> HIDE DEF s
<1>3. s = <<>>
  <2>1. Len(s) \in Nat /\ DOMAIN s = 1 .. Len(s) /\ 1 \notin DOMAIN s
    BY <1>2 DEF Elements
  <2>2. Len(s) = 0
    BY <2>1
  <2> QED BY <1>2, <2>2
<1> QED BY <1>3 DEF Observes, s

LEMMA ObservedStays ==
  ASSUME EvalInv, Lined, Observed, StepKind PROVE Observed'
<1> SUFFICES ASSUME ChecksOnlyAsk, WouldIsDerived, mode' = "apply", ret'.cat = "ok", ret'.changed,
                    NEW n, Answers(n)', Managed(n)
             PROVE  Stays(host', n)
  BY DEF Observed
<1>1. Quiet /\ ((\E f : Moves(f)) \/ (\E r : Leaves(r)) \/ (\E k, f : Pushes(k, f)))
  BY DEF StepKind
<1>2. Authored /\ log' = log
  BY <1>1 DEF Quiet, Authored
<1>3. PICK r : Leaves(r)
  BY <1>1, ConstantsOK DEF Moves, Pushes
<1> DEFINE m == Top.def
           d == Defs[m].delegate
<1>4. /\ stack # <<>> /\ stack' = Tail(stack) /\ ret' = r /\ r.cat = "ok" /\ r.changed
      /\ host' = host
      /\ \/ Top.stage = "delegated" /\ r = ret
         \/ Top.stage = "apply" /\ (Observes(m) => Settled(host, m))
  BY <1>2, <1>3 DEF Leaves, Leave
<1>5. /\ stack \in Seq(Frames) /\ Len(stack) \in Nat \ {0} /\ Top = stack[1]
      /\ FrameOK(stack[1]) /\ InCall
      /\ Len(stack') = Len(stack) - 1 /\ \A i \in 1 .. Len(stack) - 1 : stack'[i] = stack[i + 1]
  <2>1. /\ stack \in Seq(Frames) /\ Len(stack) \in Nat \ {0} /\ Top = stack[1]
        /\ \A i \in 1 .. Len(stack) : FrameOK(stack[i])
    BY <1>4, Standing
  <2>2. 1 \in 1 .. Len(stack)
    BY <2>1
  <2> QED BY <1>4, <2>1, <2>2, TailOK DEF InCall
<1>6. m \in Names /\ (Top.stage = "delegated" => d # NoName)
  BY <1>5 DEF FrameOK, TypeFrame
<1>7. n = m
  <2>1. CASE stack' = <<>>
    <3>1. n = Current.def
      BY <2>1, <1>2 DEF Answers, Current
    <3>2. Len(stack) = 1
      BY <1>5, <2>1
    <3> QED BY <1>4, <1>5, <3>1, <3>2 DEF Lined
  <2>2. CASE stack' # <<>>
    <3>1. Top' = stack'[1]
      BY DEF Top
    <3>2. stack'[1].stage = "delegated" /\ n = Defs[stack'[1].def].delegate
      BY <2>2, <3>1 DEF Answers
    <3>3. 1 \in 1 .. Len(stack) - 1
      <4>1. Len(stack) # 1
        <5>1. Tail(stack) \in Seq(Frames) /\ Len(Tail(stack)) = Len(stack) - 1
          BY <1>4, <1>5, TailOK
        <5> DEFINE t == Tail(stack)
        <5>2. t \in Seq(Frames) /\ t # <<>> /\ Len(t) = Len(stack) - 1
          BY <1>4, <2>2, <5>1
        <5> HIDE DEF t
        <5>3. ASSUME Len(t) = 0 PROVE FALSE
          <6>1. t = <<>>
            BY <5>2, <5>3
          <6> QED BY <5>2, <6>1
        <5> QED BY <1>5, <5>2, <5>3
      <4> QED BY <1>5, <4>1
    <3>4. stack'[1] = stack[1 + 1]
      BY <1>5, <3>3
    <3> QED BY <1>5, <3>2, <3>3, <3>4 DEF Lined
  <2> QED BY <2>1, <2>2
<1>8. CASE Top.stage = "delegated" /\ r = ret
  <2>1. Answers(d)
    BY <1>4, <1>8 DEF Answers
  <2>2. d \in Names /\ d # NoName /\ ~Observes(m)
    BY <1>6, <1>8, DefOK, DelegatingOnlyChecks
  <2>3. Observes(d) /\ Managed(d)
    BY <1>7, <2>2 DEF Managed
  <2>4. mode = "apply" /\ ret.cat = "ok" /\ ret.changed
    BY <1>2, <1>4, <1>8 DEF Authored
  <2>5. Stays(host, d)
    BY <1>5, <2>1, <2>3, <2>4 DEF Observed
  <2>6. Settled(host, d)
    BY <2>2, <2>3, <2>5, DelegatingOnlyChecks DEF Stays
  <2> QED BY <1>4, <1>7, <2>2, <2>6 DEF Stays
<1>9. CASE Top.stage = "apply" /\ (Observes(m) => Settled(host, m))
  <2>1. d = NoName
    <3>1. 1 \in 1 .. Len(stack)
      BY <1>5
    <3> QED BY <1>5, <1>9, <3>1 DEF Lined
  <2>2. Observes(m)
    BY <1>7, <2>1 DEF Managed
  <2> QED BY <1>4, <1>7, <1>9, <2>2 DEF Stays
<1> QED BY <1>4, <1>8, <1>9

LEMMA WalkedStays ==
  ASSUME EvalInv, Walked, Step, ~End PROVE Walked'
<1>1. StepKind
  BY EveryStep
<1>2. /\ mode' = mode /\ log' = log /\ Current' = Current /\ stack # <<>> /\ InCall
  BY <1>1 DEF StepKind, Quiet, Moves, Leaves, Pushes, Current, InCall
<1> SUFFICES ASSUME ChecksOnlyAsk, WouldIsDerived
             PROVE  /\ mode = "apply" =>
                         /\ Spoken' \/ Walk(Current.before, Current.def, Here')
                         /\ Safe(Current.before, Current.def) =>
                              host' = Current.before /\ Reached(host)'
                    /\ \A i \in DOMAIN log : Over(i) /\ log[i].mode = "apply" =>
                         /\ log[i].outcome.cat = "ok" /\ Managed(log[i].def) =>
                              Safe(log[i].after, log[i].def)
                         /\ Safe(log[i].before, log[i].def) => Untouched(i)
  BY <1>2 DEF Walked, Over, Untouched, Reached
<1>3. ASSUME mode = "apply"
      PROVE  /\ Spoken' \/ Walk(Current.before, Current.def, Here')
             /\ Safe(Current.before, Current.def) => host' = Current.before /\ Reached(host)'
  <2>1. Authored /\ WalksNext
    BY <1>3, ApplyWalks DEF Authored
  <2>2. /\ Spoken \/ Walk(Current.before, Current.def, Here)
        /\ Safe(Current.before, Current.def) => host = Current.before /\ Reached(host)
    BY <1>2, <1>3 DEF Walked
  <2>3. ret' = Failure => Spoken'
    BY NothingSaid DEF Spoken
  <2>4. ASSUME ~Spoken'
        PROVE  Walk(Current.before, Current.def, Here')
    <3>1. ~Spoken
      BY <1>1, <2>1, <2>4, SpokenStays
    <3>2. host = Current.before
      BY <1>2, <1>3, <3>1 DEF EvalInv, Told, Spoken
    <3>3. Still(host, Here) /\ Here' = Move(host, Here)
      BY <2>1, <2>3, <2>4 DEF WalksNext
    <3>4. Walk(host, Current.def, Here)
      BY <2>2, <3>1, <3>2
    <3> DEFINE c == Here
               n == Current.def
               h == host
    <3>5. Walk(h, n, Move(h, c))
      BY <3>3, <3>4, WalkGoesOn
    <3> QED BY <3>2, <3>3, <3>5
  <2>5. ASSUME Safe(Current.before, Current.def)
        PROVE  host' = Current.before /\ Reached(host)'
    <3>1. host = Current.before /\ Reached(host)
      BY <2>2, <2>5
    <3>2. Here.stack = stack /\ Here.ret = ret /\ Head(Here.stack) = Top
      BY HereIs
    <3>3. CASE ret.cat \in {"err", "fail"}
      <4>1. ret # NoOutcome
        BY <3>3, NotNothing
      <4>2. Still(host, Here) /\ Move(host, Here) = Left(Here, ret)
        BY <3>2, <3>3, <4>1 DEF Still, IsDue, Move, Received
      <4>3. host' = host /\ (Here' = Left(Here, ret) \/ ret' = Failure)
        BY <2>1, <4>2 DEF WalksNext
      <4>4. ret' = ret \/ ret' = Failure
        BY <4>3 DEF Here, Left
      <4> QED BY <3>1, <3>3, <4>3, <4>4, ConstantsOK DEF Reached
    <3>4. CASE \E S : Here \in S /\ Closed(host, S)
      <4>1. PICK S : Here \in S /\ Closed(host, S)
        BY <3>4
      <4>2. Still(host, Here) /\ Move(host, Here) \in S
        BY <1>2, <3>2, <4>1 DEF Closed
      <4>3. host' = host /\ (Here' = Move(host, Here) \/ ret' = Failure)
        BY <2>1, <4>2 DEF WalksNext
      <4>4. CASE ret' = Failure
        BY <3>1, <4>3, <4>4, ConstantsOK DEF Reached
      <4>5. CASE Here' = Move(host, Here)
        <5>1. Here' \in S /\ Closed(host', S)
          BY <4>1, <4>2, <4>3, <4>5
        <5> QED BY <3>1, <4>3, <5>1 DEF Reached
      <4> QED BY <4>3, <4>4, <4>5
    <3> QED BY <3>1, <3>3, <3>4 DEF Reached
  <2> QED BY <2>4, <2>5
<1> QED BY <1>3 DEF Walked

LEMMA StaysInCall ==
  ASSUME EvalInv, StepKind PROVE InCall /\ InCall' /\ log' = log
<1>1. /\ log' = log
      /\ (\E f : Moves(f)) \/ (\E r : Leaves(r)) \/ (\E n, f : Pushes(n, f))
  BY DEF StepKind, Quiet
<1>2. stack # <<>> /\ InCall
  BY <1>1 DEF Moves, Leaves, Pushes, InCall
<1>3. stack \in Seq(Frames) /\ Len(stack) \in Nat \ {0}
  BY <1>2, Standing
<1>4. ASSUME NEW f, Moves(f) PROVE stack' # <<>>
  <2>1. f \in Frames /\ stack' = <<f>> \o Tail(stack)
    BY <1>4 DEF Moves, SetTop, FrameOK
  <2>2. Len(stack') = Len(stack)
    BY <1>2, <1>3, <2>1, ReplaceTop
  <2> QED BY <1>3, <2>2
<1>5. ASSUME NEW n, NEW f, Pushes(n, f) PROVE stack' # <<>>
  <2> DEFINE g == Frame(n, mode)
  <2>1. f \in Frames /\ n \in Names /\ mode \in Modes /\ stack' = <<g, f>> \o Tail(stack)
    BY <1>5 DEF Pushes, FrameOK, EvalInv, Calls
  <2>2. g \in Frames
    BY <2>1, FrameIsOK DEF FrameOK
  <2> HIDE DEF g
  <2>3. Len(stack') = Len(stack) + 1
    BY <1>2, <1>3, <2>1, <2>2, PushTop
  <2> QED BY <1>3, <2>3
<1>6. ASSUME NEW r, Leaves(r) PROVE ret' # NoOutcome
  BY <1>6 DEF Leaves, Leave
<1> QED BY <1>1, <1>2, <1>4, <1>5, <1>6 DEF InCall

LEMMA AloneStays ==
  ASSUME EvalInv, Alone, StepKind PROVE Alone'
BY StaysInCall DEF Alone

(* A call that begins.                                                     *)
LEMMA BeginsRecord ==
  ASSUME EvalInv, NEW n \in Names, NEW m \in Modes, Begin(n, m)
  PROVE  /\ ~InCall /\ ret' = NoOutcome /\ mode' = m /\ host' = host
         /\ stack' = <<Frame(n, m)>> /\ Len(stack') = 1 /\ stack'[1] = Frame(n, m)
         /\ log \in Seq(Records) /\ Len(log) \in Nat
         /\ DOMAIN log = 1 .. Len(log) /\ DOMAIN log' = 1 .. Len(log) + 1
         /\ Len(log') = Len(log) + 1
         /\ \A i \in 1 .. Len(log) : log'[i] = log[i]
         /\ log'[Len(log) + 1] = Current' /\ Current'.def = n /\ Current'.mode = m
         /\ Current'.before = host /\ Current'.outcome = NoOutcome
<1> DEFINE e == [def |-> n, mode |-> m, before |-> host, after |-> host, outcome |-> NoOutcome]
<1>1. /\ stack = <<>> /\ ret = NoOutcome /\ ret' = ret /\ mode' = m /\ host' = host
      /\ stack' = <<Frame(n, m)>> /\ log' = Append(log, e) /\ log \in Seq(Records)
      /\ host \in [Paths -> Values]
  BY DEF Begin, EvalInv, Calls
<1>2. /\ e \in Records /\ e.def = n /\ e.mode = m /\ e.before = host /\ e.outcome = NoOutcome
  BY <1>1, ConstantsOK DEF Records
<1> HIDE DEF e
<1>3. /\ Len(log) \in Nat /\ DOMAIN log = 1 .. Len(log) /\ DOMAIN log' = 1 .. Len(log) + 1
      /\ Len(log') = Len(log) + 1 /\ \A i \in 1 .. Len(log) : log'[i] = log[i]
      /\ log'[Len(log) + 1] = e
  BY <1>1, <1>2
<1>4. Current' = e
  BY <1>3 DEF Current
<1> DEFINE f == Frame(n, m)
<1>5. Len(stack') = 1 /\ stack'[1] = f
  <2> HIDE DEF f
  <2> QED BY <1>1 DEF f
<1> QED BY <1>1, <1>2, <1>3, <1>4, <1>5 DEF InCall

LEMMA RunBegins ==
  ASSUME EvalInv, RunInv, NEW n \in Names, NEW m \in Modes, Begin(n, m)
  PROVE  RunInv'
<1> DEFINE f == Frame(n, m)
           k == Len(log)
<1>1. /\ ~InCall /\ ret' = NoOutcome /\ mode' = m /\ host' = host
      /\ stack' = <<f>> /\ Len(stack') = 1 /\ stack'[1] = f
      /\ log \in Seq(Records) /\ k \in Nat
      /\ DOMAIN log = 1 .. k /\ DOMAIN log' = 1 .. k + 1 /\ Len(log') = k + 1
      /\ \A i \in 1 .. k : log'[i] = log[i]
      /\ log'[k + 1] = Current' /\ Current'.def = n /\ Current'.mode = m
      /\ Current'.before = host /\ Current'.outcome = NoOutcome
  BY BeginsRecord
<1>2. f.def = n /\ f.stage = "decide" /\ FrameOK(f)
  BY FrameIsOK
<1>3. Start(n) = [stack |-> <<Frame(n, "apply")>>, ret |-> NoOutcome]
  BY DEF Start
<1>4. m = "apply" => Here' = Start(n)
  BY <1>1, <1>3 DEF Here
<1> HIDE DEF f, k
<1>5. Lined'
  <2>1. \A i \in 1 .. Len(stack') : i = 1
    BY <1>1
  <2>2. \A i \in 1 .. Len(stack') - 1 : FALSE
    BY <1>1
  <2>3. stack'[Len(stack')].def = Current'.def
    BY <1>1, <1>2
  <2>4. \A i \in 1 .. Len(stack') : stack'[i].stage # "apply"
    BY <1>1, <1>2, <2>1
  <2> QED BY <2>2, <2>3, <2>4 DEF Lined
<1>6. Observed'
  BY <1>1, ConstantsOK DEF Observed
<1>7. ASSUME NEW i, Over(i)' PROVE Over(i) /\ log'[i] = log[i]
  <2>1. i \in 1 .. k + 1 /\ log'[i].outcome # NoOutcome
    BY <1>1, <1>7 DEF Over
  <2>2. i \in 1 .. k
    BY <1>1, <2>1
  <2> QED BY <1>1, <2>1, <2>2 DEF Over
<1>8. Walked'
  <2> SUFFICES ASSUME ChecksOnlyAsk, WouldIsDerived
               PROVE  /\ m = "apply" =>
                           /\ Walk(host, n, Here')
                           /\ Safe(host, n) => Reached(host)'
                      /\ \A i \in DOMAIN log' : Over(i)' /\ log'[i].mode = "apply" =>
                           /\ log'[i].outcome.cat = "ok" /\ Managed(log'[i].def) =>
                                Safe(log'[i].after, log'[i].def)
                           /\ Safe(log'[i].before, log'[i].def) => Untouched(i)'
    BY <1>1 DEF Walked
  <2>1. m = "apply" => Walk(host, n, Here')
    <3> DEFINE h == host
    <3>1. Walk(h, n, Start(n))
      BY WalkBegins
    <3> QED BY <1>4, <3>1
  <2>2. ASSUME m = "apply", Safe(host, n) PROVE Reached(host)'
    <3>1. PICK S : Start(n) \in S /\ Closed(host, S)
      BY <2>2 DEF Safe
    <3>2. Here' \in S /\ Closed(host', S)
      BY <1>1, <1>4, <2>2, <3>1
    <3> QED BY <3>2 DEF Reached
  <2>3. ASSUME NEW i \in DOMAIN log', Over(i)', log'[i].mode = "apply"
        PROVE  /\ log'[i].outcome.cat = "ok" /\ Managed(log'[i].def) =>
                    Safe(log'[i].after, log'[i].def)
               /\ Safe(log'[i].before, log'[i].def) => Untouched(i)'
    <3>1. Over(i) /\ log'[i] = log[i] /\ i \in DOMAIN log
      BY <1>7, <2>3 DEF Over
    <3>2. Untouched(i)' <=> Untouched(i)
      BY <3>1 DEF Untouched
    <3>3. /\ log[i].outcome.cat = "ok" /\ Managed(log[i].def) => Safe(log[i].after, log[i].def)
          /\ Safe(log[i].before, log[i].def) => Untouched(i)
      BY <2>3, <3>1 DEF RunInv, Walked
    <3> QED BY <3>1, <3>2, <3>3
  <2> QED BY <2>1, <2>2, <2>3
<1>9. Alone'
  <2>1. InCall'
    BY <1>1 DEF InCall
  <2>2. ASSUME NEW i \in DOMAIN log', i + 1 \in DOMAIN log'
        PROVE  log'[i + 1].before = log'[i].after
    <3>1. i \in 1 .. k /\ (i + 1 \in 1 .. k \/ i = k)
      BY <1>1, <2>2
    <3>2. CASE i = k
      <4>1. log # <<>>
        BY <1>1, <3>1
      <4>2. log[k].after = host
        BY <1>1, <4>1 DEF RunInv, Alone, Current, k
      <4> QED BY <1>1, <3>1, <3>2, <4>2
    <3>3. CASE i + 1 \in 1 .. k
      <4>1. log[i + 1].before = log[i].after
        BY <1>1, <3>1, <3>3 DEF RunInv, Alone
      <4> QED BY <1>1, <3>1, <3>3, <4>1
    <3> QED BY <3>1, <3>2, <3>3
  <2> QED BY <2>1, <2>2 DEF Alone
<1> QED BY <1>5, <1>6, <1>8, <1>9 DEF RunInv

\* A sequence with one element replaced: its length, the new element and the others.
LEMMA SeqReplaced ==
  ASSUME NEW A, NEW s \in Seq(A), NEW k \in 1 .. Len(s), NEW e \in A, NEW t,
         t = [s EXCEPT ![k] = e]
  PROVE  /\ t \in Seq(A) /\ Len(t) = Len(s) /\ DOMAIN t = 1 .. Len(s) /\ t[k] = e
         /\ \A i \in 1 .. Len(s) : i # k => t[i] = s[i]
  OBVIOUS

(* A call that ends.                                                       *)
LEMMA EndsRecord ==
  ASSUME EvalInv, End
  PROVE  /\ stack = <<>> /\ stack' = <<>> /\ InCall /\ ~InCall' /\ host' = host /\ mode' = mode
         /\ ret' = NoOutcome /\ log # <<>>
         /\ Len(log) \in Nat \ {0} /\ DOMAIN log = 1 .. Len(log) /\ DOMAIN log' = 1 .. Len(log)
         /\ Len(log') = Len(log)
         /\ \A i \in 1 .. Len(log) : i # Len(log) => log'[i] = log[i]
         /\ Current = log[Len(log)] /\ Current' = log'[Len(log)]
         /\ Current.mode = mode /\ Current'.mode = mode /\ Current'.def = Current.def
         /\ Current'.before = Current.before /\ Current'.after = host /\ Current'.outcome = ret
<1> DEFINE k == Len(log)
           e == [log[k] EXCEPT !.outcome = ret, !.after = host]
<1>1. /\ stack = <<>> /\ ret # NoOutcome /\ ret' = NoOutcome /\ host' = host /\ mode' = mode
      /\ stack' = <<>> /\ log' = [log EXCEPT ![Len(log)].outcome = ret, ![Len(log)].after = host]
  BY DEF End
<1>2. /\ InCall /\ host \in [Paths -> Values] /\ ret \in Outcomes /\ log \in Seq(Records)
      /\ log # <<>> /\ log[k].mode = mode
  BY <1>1 DEF EvalInv, Calls, InCall, Current
<1>3. k \in Nat \ {0} /\ k \in 1 .. k /\ DOMAIN log = 1 .. k /\ log[k] \in Records
  BY <1>2
<1>4. /\ e \in Records /\ e.outcome = ret /\ e.after = host /\ e.mode = log[k].mode
      /\ e.before = log[k].before /\ e.def = log[k].def
  BY <1>2, <1>3 DEF Records
<1>5. log' = [log EXCEPT ![k] = e]
  BY <1>1, <1>2, <1>3
<1> HIDE DEF e, k
<1>6. /\ log' \in Seq(Records) /\ Len(log') = k /\ DOMAIN log' = 1 .. k /\ log'[k] = e
      /\ \A i \in 1 .. k : i # k => log'[i] = log[i]
  <2>1. log \in Seq(Records) /\ k = Len(log) /\ k \in 1 .. k /\ e \in Records
    BY <1>2, <1>3, <1>4 DEF k
  <2> QED BY <2>1, <1>5, SeqReplaced
<1>7. Current = log[k] /\ Current' = e
  BY <1>6 DEF Current, k
<1> QED BY <1>1, <1>2, <1>3, <1>4, <1>6, <1>7 DEF InCall, k

LEMMA RunEnds ==
  ASSUME EvalInv, RunInv, End
  PROVE  RunInv'
<1> DEFINE k == Len(log)
<1>1. /\ stack = <<>> /\ stack' = <<>> /\ InCall /\ ~InCall' /\ host' = host /\ mode' = mode
      /\ ret' = NoOutcome /\ log # <<>>
      /\ k \in Nat \ {0} /\ DOMAIN log = 1 .. k /\ DOMAIN log' = 1 .. k /\ Len(log') = k
      /\ \A i \in 1 .. k : i # k => log'[i] = log[i]
      /\ Current = log[k] /\ Current' = log'[k]
      /\ Current.mode = mode /\ Current'.mode = mode /\ Current'.def = Current.def
      /\ Current'.before = Current.before /\ Current'.after = host /\ Current'.outcome = ret
  BY EndsRecord
<1> HIDE DEF k
<1>2. Lined' /\ Observed'
  BY <1>1 DEF Lined, Observed
<1>3. ASSUME NEW i, Over(i)', i # k PROVE Over(i) /\ log'[i] = log[i]
  BY <1>1, <1>3 DEF Over
<1>4. Walked'
  <2> SUFFICES ASSUME ChecksOnlyAsk, WouldIsDerived,
                      NEW i \in DOMAIN log', Over(i)', log'[i].mode = "apply"
               PROVE  /\ log'[i].outcome.cat = "ok" /\ Managed(log'[i].def) =>
                           Safe(log'[i].after, log'[i].def)
                      /\ Safe(log'[i].before, log'[i].def) => Untouched(i)'
    BY <1>1 DEF Walked
  <2>1. CASE i # k
    <3>1. Over(i) /\ log'[i] = log[i] /\ i \in DOMAIN log
      BY <1>3, <2>1 DEF Over
    <3>2. Untouched(i)' <=> Untouched(i)
      BY <3>1 DEF Untouched
    <3>3. /\ log[i].outcome.cat = "ok" /\ Managed(log[i].def) => Safe(log[i].after, log[i].def)
          /\ Safe(log[i].before, log[i].def) => Untouched(i)
      BY <3>1 DEF RunInv, Walked
    <3> QED BY <3>1, <3>2, <3>3
  <2>2. CASE i = k
    <3> DEFINE n == Current.def
    <3>1. /\ log'[i] = Current' /\ mode = "apply" /\ Authored
      BY <1>1, <2>2 DEF Authored
    <3>2. /\ Spoken \/ Walk(Current.before, n, Here)
          /\ Safe(Current.before, n) => host = Current.before
      BY <1>1, <3>1 DEF RunInv, Walked
    <3>3. Spoken <=> Says(ret)
      BY <1>1 DEF Spoken
    <3>4. Safe(Current.before, n) => Untouched(i)'
      BY <1>1, <3>1, <3>2 DEF Untouched
    <3>5. n \in Names
      <4>1. log \in Seq(Records) /\ k \in DOMAIN log
        BY <1>1 DEF EvalInv, Calls
      <4>2. log[k] \in Records
        BY <1>1, <4>1
      <4> QED BY <1>1, <4>2 DEF Records
    <3>6. ASSUME ret.cat = "ok", Managed(n) PROVE Safe(host, n)
      <4>1. CASE ret.changed
        <5>1. Answers(n)
          BY <1>1 DEF Answers
        <5>2. Stays(host, n)
          BY <1>1, <3>1, <3>6, <4>1, <5>1 DEF RunInv, Observed
        <5> DEFINE h == host
        <5>3. Stays(h, n) => Safe(h, n)
          BY <3>5, StaysSafe
        <5> QED BY <5>2, <5>3
      <4>2. CASE ~ret.changed
        <5>1. ~Spoken
          BY <3>3, <3>6, <4>2 DEF Says
        <5>2. host = Current.before
          BY <1>1, <3>1, <5>1 DEF EvalInv, Told, Spoken
        <5>3. Walk(host, n, Here)
          BY <3>2, <5>1, <5>2
        <5>4. Here.stack = <<>>
          BY <1>1, HereIs
        <5> DEFINE h == host
                   c == Here
        <5>5. Walk(h, n, c) /\ c.stack = <<>> => Safe(h, n)
          BY WalkOver
        <5> QED BY <5>3, <5>4, <5>5
      <4> QED BY <4>1, <4>2
    <3> QED BY <1>1, <3>1, <3>4, <3>6
  <2> QED BY <2>1, <2>2
<1>5. Alone'
  <2>1. ASSUME NEW i \in DOMAIN log', i + 1 \in DOMAIN log'
        PROVE  log'[i + 1].before = log'[i].after
    <3>1. i \in 1 .. k /\ i # k /\ i + 1 \in 1 .. k
      BY <1>1, <2>1
    <3>2. log[i + 1].before = log[i].after
      BY <1>1, <3>1 DEF RunInv, Alone
    <3>3. log'[i] = log[i] /\ log'[i + 1].before = log[i + 1].before
      BY <1>1, <3>1
    <3> QED BY <3>2, <3>3
  <2> QED BY <1>1, <2>1 DEF Alone
<1> QED BY <1>2, <1>4, <1>5 DEF RunInv

LEMMA RunSame ==
  ASSUME RunInv, UNCHANGED vars PROVE RunInv'
<1>1. /\ host' = host /\ mode' = mode /\ stack' = stack /\ ret' = ret /\ log' = log
  BY DEF vars
<1>2. Lined'
  BY <1>1 DEF RunInv, Lined, InCall, Current
<1>3. Observed'
  BY <1>1 DEF RunInv, Observed, Answers, InCall, Current, Top
<1>4. Here' = Here /\ Spoken' = Spoken /\ Current' = Current /\ InCall' = InCall
      /\ Reached(host)' = Reached(host)
  BY <1>1 DEF Here, Spoken, Current, InCall, Reached
<1>5. Walked'
  BY <1>1, <1>4 DEF RunInv, Walked, Over, Untouched
<1>6. Alone'
  BY <1>1, <1>4 DEF RunInv, Alone
<1> QED BY <1>2, <1>3, <1>5, <1>6 DEF RunInv

LEMMA RunInit ==
  ASSUME Init PROVE RunInv
<1>1. stack = <<>> /\ ret = NoOutcome /\ log = <<>> /\ DOMAIN log = {} /\ ~InCall
  BY DEF Init, InCall
<1> QED BY <1>1 DEF RunInv, Lined, Observed, Walked, Alone

LEMMA RunKeeps ==
  ASSUME EvalInv, RunInv, [Next]_vars PROVE RunInv'
<1>1. CASE UNCHANGED vars
  BY <1>1, RunSame
<1>2. CASE End
  BY <1>2, RunEnds
<1>3. CASE Step /\ ~End
  <2>1. StepKind
    BY <1>3, EveryStep
  <2> QED BY <1>3, <2>1, LinedStays, ObservedStays, WalkedStays, AloneStays DEF RunInv
<1>4. CASE \E n \in Names, m \in Modes : Begin(n, m)
  BY <1>4, RunBegins
<1> QED BY <1>1, <1>2, <1>3, <1>4 DEF Next

(* A run is a walk until it acts, and what it acted on was observed since. *)
THEOREM RunInvariant == Spec => []RunInv
<1>1. Init => RunInv
  BY RunInit
<1>2. EvalInv /\ RunInv /\ [Next]_vars => RunInv'
  BY RunKeeps
<1> QED BY <1>1, <1>2, EvalInvariant, PTL DEF Spec

(* After a success of a def that observes, or that delegates to one that   *)
(* does, the same call leaves the host as it is, whatever the commands of  *)
(* the first call did, the checks of the second one say, and primitives    *)
(* that fail in it: the verdict is observed, not asserted (ADR-0050;       *)
(* eval.go:193).                                                           *)
THEOREM SecondRunChangesNothing ==
  ASSUME ChecksOnlyAsk, WouldIsDerived PROVE Spec => []SecondRunIsNoOp
<1>1. RunInv => SecondRunIsNoOp
  <2> SUFFICES ASSUME RunInv, NEW i \in DOMAIN log, Repeated(i),
                      log[i].mode = "apply", log[i + 1].mode = "apply",
                      log[i].outcome.cat = "ok", Managed(log[i].def)
               PROVE  Untouched(i + 1)
    BY DEF SecondRunIsNoOp
  <2>1. Over(i) /\ Over(i + 1) /\ i + 1 \in DOMAIN log /\ log[i + 1].def = log[i].def
    BY DEF Repeated, Over
  <2>2. Safe(log[i].after, log[i].def)
    BY <2>1 DEF RunInv, Walked
  <2>3. log[i + 1].before = log[i].after
    BY <2>1 DEF RunInv, Alone
  <2> QED BY <2>1, <2>2, <2>3 DEF RunInv, Walked
<1> QED BY <1>1, RunInvariant, PTL

-----------------------------------------------------------------------------
(* What a status asks is what a run asks, without the observes.            *)
Strips(R) ==
  \A x \in R :
    \/ x[1] = <<>> /\ x[2] = <<>>
    \/ x[2] # <<>> /\ Head(x[2]).name = "observe" /\ <<x[1], Tail(x[2])>> \in R
    \/ /\ x[1] # <<>> /\ x[2] # <<>>
       /\ Head(x[1]) = Head(x[2]) /\ Head(x[2]).name # "observe"
       /\ <<Tail(x[1]), Tail(x[2])>> \in R
Stripped(p, q) ==
  \E R \in SUBSET (Seq(Phases) \X Seq(Phases)) : <<p, q>> \in R /\ Strips(R)

LEMMA StrippedStep ==
  ASSUME NEW p, NEW q, Stripped(p, q)
  PROVE  /\ q = <<>> => p = <<>>
         /\ q # <<>> /\ Head(q).name = "observe" => Stripped(p, Tail(q))
         /\ q # <<>> /\ Head(q).name # "observe" =>
              p # <<>> /\ Head(p) = Head(q) /\ Stripped(Tail(p), Tail(q))
<1>1. PICK R \in SUBSET (Seq(Phases) \X Seq(Phases)) : <<p, q>> \in R /\ Strips(R)
  BY DEF Stripped
<1>2. \/ p = <<>> /\ q = <<>>
      \/ q # <<>> /\ Head(q).name = "observe" /\ <<p, Tail(q)>> \in R
      \/ /\ p # <<>> /\ q # <<>> /\ Head(p) = Head(q) /\ Head(q).name # "observe"
         /\ <<Tail(p), Tail(q)>> \in R
  BY <1>1 DEF Strips
<1>3. \A a, b : <<a, b>> \in R => Stripped(a, b)
  BY <1>1 DEF Stripped
<1> QED BY <1>2, <1>3

(* Once the observes that come first are passed.                           *)
LEMMA StrippedNext ==
  ASSUME NEW p, NEW q, Stripped(p, q), q = <<>> \/ Head(q).name # "observe"
  PROVE  /\ p = <<>> => q = <<>>
         /\ p # <<>> =>
              /\ q # <<>> /\ Head(q) = Head(p) /\ Head(q).name # "observe"
              /\ Stripped(Tail(p), Tail(q))
<1>1. /\ q = <<>> => p = <<>>
      /\ q # <<>> /\ Head(q).name # "observe" =>
           p # <<>> /\ Head(p) = Head(q) /\ Stripped(Tail(p), Tail(q))
  BY StrippedStep
<1>2. CASE q = <<>>
  BY <1>1, <1>2
<1>3. CASE q # <<>>
  <2>1. Head(q).name # "observe"
    BY <1>3
  <2> QED BY <1>1, <1>3, <2>1
<1> QED BY <1>2, <1>3

LEMMA PairOK ==
  ASSUME NEW A, NEW R \in SUBSET (A \X A)
  PROVE  \A a \in R : a = <<a[1], a[2]>> /\ a[1] \in A /\ a[2] \in A
OBVIOUS

LEMMA NoPhases == <<<<>>, <<>>>> \in Seq(Phases) \X Seq(Phases)
<1> DEFINE e == <<>>
<1>1. e \in Seq(Phases)
  OBVIOUS
<1> HIDE DEF e
<1>2. <<e, e>> \in Seq(Phases) \X Seq(Phases)
  BY <1>1
<1> QED BY <1>2 DEF e

LEMMA StrippedNothing == Stripped(<<>>, <<>>)
<1>1. Strips({<<<<>>, <<>>>>})
  BY DEF Strips
<1>2. {<<<<>>, <<>>>>} \in SUBSET (Seq(Phases) \X Seq(Phases))
  BY NoPhases
<1> QED BY <1>1, <1>2 DEF Stripped

LEMMA AppendOK ==
  ASSUME NEW A, NEW s \in Seq(A), NEW x \in A
  PROVE  /\ Append(s, x) \in Seq(A) /\ Append(s, x) # <<>>
         /\ s # <<>> => Head(Append(s, x)) = Head(s) /\ Tail(Append(s, x)) = Append(Tail(s), x)
         /\ s = <<>> => Head(Append(s, x)) = x /\ Tail(Append(s, x)) = <<>>
<1>1. Append(s, x) \in Seq(A) /\ Append(s, x) # <<>>
  <2>1. Append(s, x) \in Seq(A) /\ Len(Append(s, x)) = Len(s) + 1 /\ Len(s) \in Nat
    OBVIOUS
  <2>2. Len(Append(s, x)) # 0
    BY <2>1
  <2> QED BY <2>1, <2>2
<1>2. CASE s # <<>>
  <2>1. Head(Append(s, x)) = Head(s)
    BY <1>2
  <2>2. Tail(Append(s, x)) = Append(Tail(s), x)
    BY <1>2
  <2> QED BY <1>1, <1>2, <2>1, <2>2
<1>3. CASE s = <<>>
  BY <1>1, <1>3
<1> QED BY <1>2, <1>3

LEMMA AppendGoesOn ==
  ASSUME NEW A, NEW s \in Seq(A), s # <<>>, NEW x \in A
  PROVE  /\ Append(s, x) # <<>> /\ Head(Append(s, x)) = Head(s)
         /\ Tail(Append(s, x)) = Append(Tail(s), x)
BY AppendOK

LEMMA StrippedBoth ==
  ASSUME NEW p, NEW q, Stripped(p, q), NEW x \in Phases, x.name # "observe"
  PROVE  Stripped(Append(p, x), Append(q, x))
<1>1. PICK R \in SUBSET (Seq(Phases) \X Seq(Phases)) : <<p, q>> \in R /\ Strips(R)
  BY DEF Stripped
<1> DEFINE T == {<<<<>>, <<>>>>} \cup {<<Append(a[1], x), Append(a[2], x)>> : a \in R}
<1>2. /\ \A a \in R : a = <<a[1], a[2]>> /\ a[1] \in Seq(Phases) /\ a[2] \in Seq(Phases)
      /\ \A a \in R : <<Append(a[1], x), Append(a[2], x)>> \in T
  BY <1>1, PairOK
<1>3. T \in SUBSET (Seq(Phases) \X Seq(Phases))
  <2>1. \A a \in R : <<Append(a[1], x), Append(a[2], x)>> \in Seq(Phases) \X Seq(Phases)
    BY <1>2, AppendOK
  <2> QED BY <2>1, NoPhases
<1>4. <<Append(p, x), Append(q, x)>> \in T /\ <<<<>>, <<>>>> \in T
  BY <1>1
<1>5. ASSUME NEW a \in R
      PROVE  \/ /\ Append(a[1], x) # <<>> /\ Append(a[2], x) # <<>>
                /\ Head(Append(a[1], x)) = Head(Append(a[2], x))
                /\ Head(Append(a[2], x)).name # "observe"
                /\ <<Tail(Append(a[1], x)), Tail(Append(a[2], x))>> \in T
             \/ /\ Append(a[2], x) # <<>> /\ Head(Append(a[2], x)).name = "observe"
                /\ <<Append(a[1], x), Tail(Append(a[2], x))>> \in T
  <2>1. a[1] \in Seq(Phases) /\ a[2] \in Seq(Phases)
    BY <1>2
  <2>2. CASE a[1] = <<>> /\ a[2] = <<>>
    BY <1>4, <2>1, <2>2, AppendOK
  <2>3. CASE a[2] # <<>> /\ Head(a[2]).name = "observe" /\ <<a[1], Tail(a[2])>> \in R
    <3>1. <<Append(a[1], x), Append(Tail(a[2]), x)>> \in T
      BY <1>2, <2>3
    <3> HIDE DEF T
    <3>2. /\ Append(a[2], x) # <<>> /\ Head(Append(a[2], x)) = Head(a[2])
          /\ Tail(Append(a[2], x)) = Append(Tail(a[2]), x)
      <4>1. a[2] # <<>> /\ a[2] \in Seq(Phases)
        BY <2>1, <2>3
      <4> QED BY <4>1, AppendGoesOn
    <3> QED BY <2>3, <3>1, <3>2
  <2>4. CASE /\ a[1] # <<>> /\ a[2] # <<>>
             /\ Head(a[1]) = Head(a[2]) /\ Head(a[2]).name # "observe"
             /\ <<Tail(a[1]), Tail(a[2])>> \in R
    <3>1. <<Append(Tail(a[1]), x), Append(Tail(a[2]), x)>> \in T
      BY <1>2, <2>4
    <3> HIDE DEF T
    <3>2. /\ Append(a[2], x) # <<>> /\ Head(Append(a[2], x)) = Head(a[2])
          /\ Tail(Append(a[2], x)) = Append(Tail(a[2]), x)
      <4>1. a[2] # <<>> /\ a[2] \in Seq(Phases)
        BY <2>1, <2>4
      <4> QED BY <4>1, AppendGoesOn
    <3>3. /\ Append(a[1], x) # <<>> /\ Head(Append(a[1], x)) = Head(a[1])
          /\ Tail(Append(a[1], x)) = Append(Tail(a[1]), x)
      <4>1. a[1] # <<>> /\ a[1] \in Seq(Phases)
        BY <2>1, <2>4
      <4> QED BY <4>1, AppendGoesOn
    <3> QED BY <2>4, <3>1, <3>2, <3>3
  <2> QED BY <1>1, <2>2, <2>3, <2>4 DEF Strips
<1>6. \A b \in T : b = <<<<>>, <<>>>> \/ \E a \in R : b = <<Append(a[1], x), Append(a[2], x)>>
  OBVIOUS
<1> HIDE DEF T
<1>7. Strips(T)
  <2> SUFFICES ASSUME NEW b \in T
               PROVE  \/ b[1] = <<>> /\ b[2] = <<>>
                      \/ b[2] # <<>> /\ Head(b[2]).name = "observe" /\ <<b[1], Tail(b[2])>> \in T
                      \/ /\ b[1] # <<>> /\ b[2] # <<>>
                         /\ Head(b[1]) = Head(b[2]) /\ Head(b[2]).name # "observe"
                         /\ <<Tail(b[1]), Tail(b[2])>> \in T
    BY DEF Strips
  <2>1. CASE b = <<<<>>, <<>>>>
    BY <2>1
  <2>2. CASE \E a \in R : b = <<Append(a[1], x), Append(a[2], x)>>
    <3>1. PICK a \in R : b = <<Append(a[1], x), Append(a[2], x)>>
      BY <2>2
    <3>2. b[1] = Append(a[1], x) /\ b[2] = Append(a[2], x)
      BY <3>1
    <3> QED BY <1>5, <3>2
  <2> QED BY <1>6, <2>1, <2>2
<1> QED BY <1>3, <1>4, <1>7 DEF Stripped

LEMMA StrippedOne ==
  ASSUME NEW p, NEW q, Stripped(p, q), NEW x \in Phases, x.name = "observe"
  PROVE  Stripped(p, Append(q, x))
<1>1. PICK R \in SUBSET (Seq(Phases) \X Seq(Phases)) : <<p, q>> \in R /\ Strips(R)
  BY DEF Stripped
<1> DEFINE T == {<<<<>>, <<>>>>} \cup {<<a[1], Append(a[2], x)>> : a \in R}
<1>2. /\ \A a \in R : a = <<a[1], a[2]>> /\ a[1] \in Seq(Phases) /\ a[2] \in Seq(Phases)
      /\ \A a \in R : <<a[1], Append(a[2], x)>> \in T
  BY <1>1, PairOK
<1>3. T \in SUBSET (Seq(Phases) \X Seq(Phases))
  <2>1. \A a \in R : <<a[1], Append(a[2], x)>> \in Seq(Phases) \X Seq(Phases)
    BY <1>2, AppendOK
  <2> QED BY <2>1, NoPhases
<1>4. <<p, Append(q, x)>> \in T /\ <<<<>>, <<>>>> \in T
  BY <1>1
<1>5. ASSUME NEW a \in R
      PROVE  \/ /\ a[1] # <<>> /\ Append(a[2], x) # <<>>
                /\ Head(a[1]) = Head(Append(a[2], x))
                /\ Head(Append(a[2], x)).name # "observe"
                /\ <<Tail(a[1]), Tail(Append(a[2], x))>> \in T
             \/ /\ Append(a[2], x) # <<>> /\ Head(Append(a[2], x)).name = "observe"
                /\ <<a[1], Tail(Append(a[2], x))>> \in T
  <2>1. a[1] \in Seq(Phases) /\ a[2] \in Seq(Phases)
    BY <1>2
  <2>2. CASE a[1] = <<>> /\ a[2] = <<>>
    BY <1>4, <2>1, <2>2, AppendOK
  <2>3. CASE a[2] # <<>> /\ Head(a[2]).name = "observe" /\ <<a[1], Tail(a[2])>> \in R
    <3>1. <<a[1], Append(Tail(a[2]), x)>> \in T
      BY <1>2, <2>3
    <3> HIDE DEF T
    <3>2. /\ Append(a[2], x) # <<>> /\ Head(Append(a[2], x)) = Head(a[2])
          /\ Tail(Append(a[2], x)) = Append(Tail(a[2]), x)
      <4>1. a[2] # <<>> /\ a[2] \in Seq(Phases)
        BY <2>1, <2>3
      <4> QED BY <4>1, AppendGoesOn
    <3> QED BY <2>3, <3>1, <3>2
  <2>4. CASE /\ a[1] # <<>> /\ a[2] # <<>>
             /\ Head(a[1]) = Head(a[2]) /\ Head(a[2]).name # "observe"
             /\ <<Tail(a[1]), Tail(a[2])>> \in R
    <3>1. <<Tail(a[1]), Append(Tail(a[2]), x)>> \in T
      BY <1>2, <2>4
    <3> HIDE DEF T
    <3>2. /\ Append(a[2], x) # <<>> /\ Head(Append(a[2], x)) = Head(a[2])
          /\ Tail(Append(a[2], x)) = Append(Tail(a[2]), x)
      <4>1. a[2] # <<>> /\ a[2] \in Seq(Phases)
        BY <2>1, <2>4
      <4> QED BY <4>1, AppendGoesOn
    <3> QED BY <2>4, <3>1, <3>2
  <2> QED BY <1>1, <2>2, <2>3, <2>4 DEF Strips
<1>6. \A b \in T : b = <<<<>>, <<>>>> \/ \E a \in R : b = <<a[1], Append(a[2], x)>>
  OBVIOUS
<1> HIDE DEF T
<1>7. Strips(T)
  <2> SUFFICES ASSUME NEW b \in T
               PROVE  \/ b[1] = <<>> /\ b[2] = <<>>
                      \/ b[2] # <<>> /\ Head(b[2]).name = "observe" /\ <<b[1], Tail(b[2])>> \in T
                      \/ /\ b[1] # <<>> /\ b[2] # <<>>
                         /\ Head(b[1]) = Head(b[2]) /\ Head(b[2]).name # "observe"
                         /\ <<Tail(b[1]), Tail(b[2])>> \in T
    BY DEF Strips
  <2>1. CASE b = <<<<>>, <<>>>>
    BY <2>1
  <2>2. CASE \E a \in R : b = <<a[1], Append(a[2], x)>>
    <3>1. PICK a \in R : b = <<a[1], Append(a[2], x)>>
      BY <2>2
    <3>2. b[1] = a[1] /\ b[2] = Append(a[2], x)
      BY <3>1
    <3> QED BY <1>5, <3>2
  <2> QED BY <1>6, <2>1, <2>2
<1> QED BY <1>3, <1>4, <1>7 DEF Stripped

LEMMA NamedStripped ==
  ASSUME NEW n \in Names
  PROVE  Stripped(Named(n, {"check"}), Named(n, {"check", "observe"}))
<1> DEFINE s == Defs[n].phases
           f == CHOOSE g : Selecting(g, s, {"check"}, Len(s))
           g == CHOOSE e : Selecting(e, s, {"check", "observe"}, Len(s))
           bad == {i \in 0 .. Len(s) : ~Stripped(f[i], g[i])}
<1>1. s \in Seq(Phases) /\ Len(s) \in Nat /\ DOMAIN s = 1 .. Len(s)
  BY DefAssumption
<1>2. Selecting(f, s, {"check"}, Len(s)) /\ Selecting(g, s, {"check", "observe"}, Len(s))
  BY <1>1, SelectingExists DEF Selectable
<1>3. Named(n, {"check"}) = f[Len(s)] /\ Named(n, {"check", "observe"}) = g[Len(s)]
  BY DEF Named, Selecting
<1> HIDE DEF f, g
<1>4. bad = {}
  <2> SUFFICES ASSUME bad # {} PROVE FALSE
    OBVIOUS
  <2>1. PICK m \in bad : \A i \in bad : m <= i
    <3>1. bad \in SUBSET Nat
      BY <1>1
    <3> HIDE DEF bad
    <3> QED BY <3>1, LeastNatural
  <2>2. /\ f[m] = IF m = 0 THEN <<>>
                  ELSE IF s[m].name \in {"check"} THEN Append(f[m - 1], s[m]) ELSE f[m - 1]
        /\ g[m] = IF m = 0 THEN <<>>
                  ELSE IF s[m].name \in {"check", "observe"} THEN Append(g[m - 1], s[m])
                  ELSE g[m - 1]
    BY <1>2, <2>1 DEF Selecting
  <2>3. m # 0
    BY <2>1, <2>2, StrippedNothing
  <2>4. m - 1 \in 0 .. Len(s) /\ m - 1 \notin bad /\ s[m] \in Phases
    BY <1>1, <2>1, <2>3
  <2>5. Stripped(f[m - 1], g[m - 1])
    BY <2>4
  <2>6. Stripped(f[m], g[m])
    BY <2>2, <2>3, <2>4, <2>5, StrippedBoth, StrippedOne
  <2> QED BY <2>1, <2>6
<1>5. Stripped(f[Len(s)], g[Len(s)])
  BY <1>1, <1>4
<1> QED BY <1>3, <1>5

-----------------------------------------------------------------------------
(* A dry run or a status goes the way a run would go, d, as long as it may *)
(* still say ok.                                                           *)
Counts(n) ==
  \A s \in Statements :
    From(s, n, "apply") /\ s.if = "0" => s.op \notin {"write", "sync"}

Onward(m, h, f, g) ==
  \/ m = "check" /\ f.phases = g.phases
  \/ /\ m = "status" /\ Stripped(f.phases, g.phases)
     /\ \A ph \in Of(f.def, {"observe"}) : ~Met(h, ph)
BothDecide(m, h, f, g) ==
  /\ f.stage = "decide" /\ Deciding(g)
  /\ f.rest = g.rest /\ f.last = g.last /\ Onward(m, h, f, g)
HasAsked(f, g) ==
  /\ f.stage = "preview" /\ f.rest = <<>> /\ f.phases = <<>>
  /\ g.stage = "decide" /\ g.rest = <<>> /\ g.phases = <<>>
BothTry(f, g) ==
  /\ f.stage = "try" /\ ~f.acted /\ Inert(f.def) /\ g.stage = "apply" /\ ~g.acted
  /\ f.rest = g.rest /\ f.phases = <<>> /\ g.phases = <<>>
  /\ f.last = g.last \/ (f.last = "summary" /\ g.last = "0" /\ Counts(f.def))
BothWait(f, g) == f.stage = "delegated" /\ g.stage = "delegated"

Alike(m, h, f, g) ==
  /\ g \in Frames /\ f.def = g.def
  /\ BothDecide(m, h, f, g) \/ HasAsked(f, g) \/ BothTry(f, g) \/ BothWait(f, g)

(* Frame k is of the def that decides: questions above, delegations below. *)
Place(f, i, k) ==
  /\ i < k => Question(f.def) /\ f.stage \in {"decide", "preview"}
  /\ i = k => f.stage \in {"decide", "try"}
  /\ i > k => f.stage = "delegated"
  /\ i > 1 => f.stage \in {"decide", "delegated"}
Goes(r) == r # NoOutcome /\ r.cat \notin {"err", "fail"}
Shadow(m, h, c, d, k) ==
  /\ d \in Configurations /\ Len(d.stack) = Len(c.stack) /\ k \in 1 .. Len(c.stack)
  /\ \A i \in 1 .. Len(c.stack) : Alike(m, h, c.stack[i], d.stack[i]) /\ Place(c.stack[i], i, k)
  /\ \/ c.ret = NoOutcome /\ d.ret = NoOutcome
     \/ Goes(c.ret) /\ Goes(d.ret) /\ c.stack[1].stage = "decide"

LEMMA ShadowTop ==
  ASSUME NEW m, NEW h, NEW c \in Configurations, NEW d, NEW k, Shadow(m, h, c, d, k)
  PROVE  /\ c.stack # <<>> /\ d.stack # <<>> /\ Len(c.stack) \in Nat \ {0}
         /\ Head(c.stack) = c.stack[1] /\ Head(d.stack) = d.stack[1]
         /\ c.stack[1] \in Frames /\ d.stack[1] \in Frames
         /\ Alike(m, h, c.stack[1], d.stack[1])
         /\ k = 1 => c.stack[1].stage \in {"decide", "try"}
         /\ k # 1 => Question(c.stack[1].def) /\ c.stack[1].stage \in {"decide", "preview"}
<1>1. /\ c.stack \in Seq(Frames) /\ d.stack \in Seq(Frames)
      /\ Len(d.stack) = Len(c.stack) /\ k \in 1 .. Len(c.stack)
  BY DEF Shadow, Configurations
<1>2. Len(c.stack) \in Nat \ {0} /\ 1 \in 1 .. Len(c.stack) /\ (k # 1 => 1 < k)
  BY <1>1
<1>3. c.stack # <<>> /\ d.stack # <<>>
  BY <1>1, <1>2
<1>4. /\ Head(c.stack) = c.stack[1] /\ Head(d.stack) = d.stack[1]
      /\ c.stack[1] \in Frames /\ d.stack[1] \in Frames
  BY <1>1, <1>3, TailOK
<1>5. Alike(m, h, c.stack[1], d.stack[1]) /\ Place(c.stack[1], 1, k)
  BY <1>2 DEF Shadow
<1> QED BY <1>2, <1>3, <1>4, <1>5 DEF Place

LEMMA ShadowOn ==
  ASSUME NEW m, NEW h, NEW c \in Configurations, NEW d, NEW k, Shadow(m, h, c, d, k),
         NEW f \in Frames, NEW g, Alike(m, h, f, g), f.def = c.stack[1].def,
         k = 1 => f.stage \in {"decide", "try"},
         k # 1 => f.stage \in {"decide", "preview"},
         NEW e \in Configurations, e.ret = NoOutcome, Len(e.stack) = Len(c.stack),
         e.stack[1] = g, \A i \in 1 .. Len(c.stack) : i # 1 => e.stack[i] = d.stack[i]
  PROVE  Shadow(m, h, On(c, f), e, k)
<1> DEFINE b == On(c, f)
<1>1. /\ c.stack # <<>> /\ Len(c.stack) \in Nat \ {0}
      /\ k # 1 => Question(c.stack[1].def)
  BY ShadowTop
<1>2. /\ b \in Configurations /\ b.ret = NoOutcome /\ Len(b.stack) = Len(c.stack)
      /\ b.stack[1] = f /\ \A i \in 1 .. Len(c.stack) : i # 1 => b.stack[i] = c.stack[i]
  BY <1>1, OnOK
<1> HIDE DEF b
<1>3. k \in 1 .. Len(c.stack)
  BY DEF Shadow
<1>4. ASSUME NEW i \in 1 .. Len(c.stack)
      PROVE  Alike(m, h, b.stack[i], e.stack[i]) /\ Place(b.stack[i], i, k)
  <2>1. CASE i = 1
    <3>1. Place(f, 1, k)
      <4>1. ~(1 > k) /\ (k # 1 <=> 1 < k)
        BY <1>1, <1>3
      <4> QED BY <1>1, <4>1 DEF Place
    <3> QED BY <1>2, <2>1, <3>1
  <2>2. CASE i # 1
    BY <1>2, <2>2 DEF Shadow
  <2> QED BY <2>1, <2>2
<1> QED BY <1>2, <1>3, <1>4 DEF Shadow, b

(* Both enter n, which is asked, or decides instead of the frame below.    *)
LEMMA ShadowPushed ==
  ASSUME NEW m, NEW h, NEW c \in Configurations, NEW d, NEW k, Shadow(m, h, c, d, k),
         NEW f \in Frames, NEW g, Alike(m, h, f, g), f.def = c.stack[1].def,
         NEW p \in Frames, NEW q, Alike(m, h, p, q), p.stage = "decide",
         NEW j, \/ j = k + 1 /\ f.stage = "decide" /\ Question(p.def)
                \/ j = 1 /\ k = 1 /\ f.stage = "delegated"
  PROVE  Shadow(m, h, Pushed(c, p, f), Pushed(d, q, g), j)
<1> DEFINE b == Pushed(c, p, f)
           e == Pushed(d, q, g)
<1>1. /\ c.stack # <<>> /\ d.stack # <<>> /\ Len(c.stack) \in Nat \ {0} /\ k \in 1 .. Len(c.stack)
      /\ k # 1 => Question(c.stack[1].def)
      /\ d \in Configurations /\ Len(d.stack) = Len(c.stack) /\ g \in Frames /\ q \in Frames
  <2>1. d \in Configurations /\ Len(d.stack) = Len(c.stack) /\ k \in 1 .. Len(c.stack)
    BY DEF Shadow
  <2>2. g \in Frames /\ q \in Frames
    BY DEF Alike
  <2> QED BY <2>1, <2>2, ShadowTop
<1>2. /\ b \in Configurations /\ b.ret = NoOutcome /\ Len(b.stack) = Len(c.stack) + 1
      /\ b.stack[1] = p /\ b.stack[2] = f
      /\ \A i \in 3 .. Len(c.stack) + 1 : b.stack[i] = c.stack[i - 1]
  BY <1>1, PushedOK
<1>3. /\ e \in Configurations /\ e.ret = NoOutcome /\ Len(e.stack) = Len(c.stack) + 1
      /\ e.stack[1] = q /\ e.stack[2] = g
      /\ \A i \in 3 .. Len(c.stack) + 1 : e.stack[i] = d.stack[i - 1]
  <2>1. d \in Configurations /\ d.stack # <<>> /\ g \in Frames /\ q \in Frames
    BY <1>1
  <2>2. /\ e \in Configurations /\ e.ret = NoOutcome /\ Len(e.stack) = Len(d.stack) + 1
        /\ e.stack[1] = q /\ e.stack[2] = g
        /\ \A i \in 3 .. Len(d.stack) + 1 : e.stack[i] = d.stack[i - 1]
    BY <2>1, PushedOK
  <2>3. Len(d.stack) = Len(c.stack)
    BY <1>1
  <2> QED BY <2>2, <2>3
<1> HIDE DEF b, e
<1>4. j \in 1 .. Len(b.stack)
  BY <1>1, <1>2
<1>5. ASSUME NEW i \in 1 .. Len(b.stack)
      PROVE  Alike(m, h, b.stack[i], e.stack[i]) /\ Place(b.stack[i], i, j)
  <2>1. CASE i = 1
    <3>1. Place(p, 1, j)
      <4>1. ~(1 > j) /\ (1 < j => j = k + 1)
        BY <1>1
      <4> QED BY <4>1 DEF Place
    <3> QED BY <1>2, <1>3, <2>1, <3>1
  <2>2. CASE i = 2
    <3>1. Place(f, 2, j)
      <4>1. CASE j = k + 1 /\ f.stage = "decide"
        <5>1. ~(2 > j) /\ (2 < j => k # 1)
          BY <1>1, <4>1
        <5> QED BY <1>1, <4>1, <5>1 DEF Place
      <4>2. CASE j = 1 /\ f.stage = "delegated"
        BY <4>2 DEF Place
      <4> QED BY <4>1, <4>2
    <3> QED BY <1>2, <1>3, <2>2, <3>1
  <2>3. CASE i # 1 /\ i # 2
    <3>1. i \in 3 .. Len(c.stack) + 1 /\ i - 1 \in 1 .. Len(c.stack) /\ i - 1 > 1
      BY <1>1, <1>2, <2>3
    <3>2. Alike(m, h, c.stack[i - 1], d.stack[i - 1]) /\ Place(c.stack[i - 1], i - 1, k)
      BY <3>1 DEF Shadow
    <3>3. /\ i < j => i - 1 < k
          /\ i = j => i - 1 = k
          /\ i > j => i - 1 > k
      BY <1>1, <3>1
    <3>4. Place(c.stack[i - 1], i, j)
      BY <3>1, <3>2, <3>3 DEF Place
    <3> QED BY <1>2, <1>3, <3>1, <3>2, <3>4
  <2> QED BY <2>1, <2>2, <2>3
<1> QED BY <1>2, <1>3, <1>4, <1>5 DEF Shadow, b, e

(* Both have asked, and are told the same.                                 *)
LEMMA ShadowLeft ==
  ASSUME NEW m, NEW h, NEW c \in Configurations, NEW d, NEW k, Shadow(m, h, c, d, k), k # 1,
         NEW r \in Outcomes, Goes(r), NEW s \in Outcomes, Goes(s)
  PROVE  Shadow(m, h, Left(c, r), Left(d, s), k - 1)
<1> DEFINE b == Left(c, r)
           e == Left(d, s)
<1>1. /\ c.stack # <<>> /\ d.stack # <<>> /\ Len(c.stack) \in Nat \ {0} /\ k \in 1 .. Len(c.stack)
      /\ d \in Configurations /\ Len(d.stack) = Len(c.stack)
  BY ShadowTop DEF Shadow
<1>2. /\ b \in Configurations /\ b.ret = r /\ Len(b.stack) = Len(c.stack) - 1
      /\ \A i \in 1 .. Len(c.stack) - 1 : b.stack[i] = c.stack[i + 1]
  BY <1>1, LeftOK
<1>3. /\ e \in Configurations /\ e.ret = s /\ Len(e.stack) = Len(c.stack) - 1
      /\ \A i \in 1 .. Len(c.stack) - 1 : e.stack[i] = d.stack[i + 1]
  BY <1>1, LeftOK
<1> HIDE DEF b, e
<1>4. k - 1 \in 1 .. Len(b.stack) /\ 1 \in 1 .. Len(b.stack)
  BY <1>1, <1>2
<1>5. ASSUME NEW i \in 1 .. Len(b.stack)
      PROVE  /\ Alike(m, h, b.stack[i], e.stack[i]) /\ Place(b.stack[i], i, k - 1)
             /\ i = 1 => b.stack[i].stage = "decide"
  <2>1. i + 1 \in 1 .. Len(c.stack) /\ i \in 1 .. Len(c.stack) - 1
    BY <1>1, <1>2
  <2>2. Alike(m, h, c.stack[i + 1], d.stack[i + 1]) /\ Place(c.stack[i + 1], i + 1, k)
    BY <2>1 DEF Shadow
  <2>3. /\ i < k - 1 => i + 1 < k
        /\ i = k - 1 => i + 1 = k
        /\ i > k - 1 => i + 1 > k
        /\ i + 1 > 1 /\ (i = 1 => i + 1 < k \/ i + 1 = k)
    BY <1>1, <2>1
  <2>4. Place(c.stack[i + 1], i, k - 1) /\ (i = 1 => c.stack[i + 1].stage = "decide")
    BY <2>2, <2>3 DEF Place
  <2> QED BY <1>2, <1>3, <2>1, <2>2, <2>4
<1> QED BY <1>2, <1>3, <1>4, <1>5 DEF Shadow, b, e

(* What a run decides at frame k, or that it fails, is its last word.      *)
LEMMA ShadowEnds ==
  ASSUME ChecksOnlyAsk, NEW m, NEW h, NEW n, NEW c \in Configurations, NEW d, NEW k,
         Shadow(m, h, c, d, k), NEW r \in Outcomes, r # NoOutcome,
         k = 1 \/ r.cat \in {"err", "fail"}, Walk(h, n, Left(d, r))
  PROVE  Safe(h, n)
<1> DEFINE e == Left(d, r)
<1>1. /\ d.stack # <<>> /\ Len(c.stack) \in Nat \ {0} /\ k \in 1 .. Len(c.stack)
      /\ d \in Configurations /\ Len(d.stack) = Len(c.stack)
  BY ShadowTop DEF Shadow
<1>2. /\ e \in Configurations /\ e.ret = r /\ Len(e.stack) = Len(c.stack) - 1
      /\ \A i \in 1 .. Len(c.stack) - 1 : e.stack[i] = d.stack[i + 1]
  BY <1>1, LeftOK
<1> HIDE DEF e
<1>3. ASSUME NEW i \in 1 .. Len(e.stack), k = 1 PROVE e.stack[i].stage = "delegated"
  <2>1. i + 1 \in 1 .. Len(c.stack) /\ i \in 1 .. Len(c.stack) - 1 /\ i + 1 > k
    BY <1>1, <1>2, <1>3
  <2>2. Alike(m, h, c.stack[i + 1], d.stack[i + 1]) /\ Place(c.stack[i + 1], i + 1, k)
    BY <2>1 DEF Shadow
  <2>3. d.stack[i + 1].stage = "delegated"
    BY <2>1, <2>2 DEF Place, Alike, BothDecide, HasAsked, BothTry, BothWait
  <2> QED BY <1>2, <2>1, <2>3
<1>4. Leads(h, e)
  BY <1>2, <1>3 DEF Leads, Unwinding
<1> QED BY <1>4, LeadsToSafe DEF e

(* An observe that holds, of the def that decides, ends a run.             *)
LEMMA MetEnds ==
  ASSUME ChecksOnlyAsk, NEW h, NEW n, NEW e \in Configurations, e.stack # <<>>, Walk(h, n, e),
         Finds(h, e.stack[1]), \A i \in 1 .. Len(e.stack) : i > 1 => e.stack[i].stage = "delegated"
  PROVE  Safe(h, n)
<1>1. Len(e.stack) \in Nat \ {0} /\ 1 \in 1 .. Len(e.stack)
  BY DEF Configurations
<1>2. \A i \in 1 .. Len(e.stack) : ~(i < 1)
  BY <1>1
<1>3. Leading(h, e, 1)
  BY <1>2 DEF Leading
<1>4. Leads(h, e)
  BY <1>1, <1>3 DEF Leads
<1> QED BY <1>4, LeadsToSafe

(* Where they begin.                                                       *)
LEMMA BeginAlike ==
  ASSUME NEW n \in Names, NEW h, NEW m \in {"check", "status"},
         m = "status" => \A ph \in Of(n, {"observe"}) : ~Met(h, ph)
  PROVE  Alike(m, h, Frame(n, m), Frame(n, "apply"))
<1> DEFINE f == Frame(n, m)
           g == Frame(n, "apply")
<1>1. /\ f.def = n /\ f.stage = "decide" /\ f.rest = <<>> /\ f.last = "none"
      /\ f.phases = IF m = "status" THEN Named(n, {"check"}) ELSE Named(n, {"check", "observe"})
  BY DEF Frame, FirstPass
<1>2. /\ g.def = n /\ g.stage = "decide" /\ g.rest = <<>> /\ g.last = "none"
      /\ g.phases = Named(n, {"check", "observe"})
  BY DEF Frame, FirstPass
<1>3. Deciding(g) /\ g \in Frames
  BY FrameDecides DEF Deciding
<1> HIDE DEF f, g
<1>4. Onward(m, h, f, g)
  BY <1>1, <1>2, NamedStripped DEF Onward
<1> QED BY <1>1, <1>2, <1>3, <1>4 DEF Alike, BothDecide, f, g

-----------------------------------------------------------------------------
(* A dry run or a status that can only say something else than ok.         *)
Overt(f) == f.stage = "preview" \/ (f.stage = "try" /\ f.acted)
Doomed ==
  \/ ret.cat \in {"err", "fail"}
  \/ /\ ret # NoOutcome /\ (ret.cat # "ok" \/ ret.tag = "action")
     /\ \A i \in 1 .. Len(stack) : stack[i].stage = "delegated"
  \/ \E i \in 1 .. Len(stack) :
       Overt(stack[i]) /\ \A j \in 1 .. Len(stack) : j > i => stack[j].stage = "delegated"

Ahead(d, k) == Walk(host, Current.def, d) /\ Shadow(mode, host, Here, d, k)
Follows ==
  \/ Doomed'
  \/ Safe(host, Current.def)
  \/ \E e, j : Walk(host, Current.def, e) /\ Shadow(mode, host, Here', e, j)

LEMMA AheadTop ==
  ASSUME EvalInv, NEW d, NEW k, Ahead(d, k)
  PROVE  /\ Here \in Configurations /\ Here.stack = stack /\ Here.ret = ret
         /\ stack # <<>> /\ Len(stack) \in Nat \ {0} /\ Top = stack[1] /\ FrameOK(Top)
         /\ Top \in Frames /\ Top.def \in Names /\ stack \in Seq(Frames)
         /\ d \in Configurations /\ d.stack # <<>> /\ Head(d.stack) = d.stack[1]
         /\ d.stack[1] \in Frames /\ Alike(mode, host, Top, d.stack[1])
         /\ Shadow(mode, host, Here, d, k) /\ Walk(host, Current.def, d)
         /\ k = 1 => Top.stage \in {"decide", "try"}
         /\ k # 1 => Question(Top.def) /\ Top.stage \in {"decide", "preview"}
         /\ ret = NoOutcome => d.ret = NoOutcome
         /\ k = 1 => \A i \in 1 .. Len(stack) : i > 1 => stack[i].stage = "delegated"
<1>1. Here.stack = stack /\ Here.ret = ret
  BY HereIs
<1>2. Here \in Configurations
  BY DEF EvalInv, Calls, Here, Configurations
<1>3. Walk(host, Current.def, d) /\ Shadow(mode, host, Here, d, k)
  BY DEF Ahead
<1>4. /\ stack # <<>> /\ d.stack # <<>> /\ Head(d.stack) = d.stack[1] /\ d.stack[1] \in Frames
      /\ Alike(mode, host, stack[1], d.stack[1]) /\ d \in Configurations
      /\ k = 1 => stack[1].stage \in {"decide", "try"}
      /\ k # 1 => Question(stack[1].def) /\ stack[1].stage \in {"decide", "preview"}
  <2>1. d \in Configurations
    BY <1>3 DEF Shadow
  <2> QED BY <1>1, <1>2, <1>3, <2>1, ShadowTop
<1>5. Top = stack[1] /\ FrameOK(Top) /\ Top.def \in Names /\ Len(stack) \in Nat \ {0}
  BY <1>4, TopOK
<1>6. Top \in Frames /\ stack \in Seq(Frames)
  BY <1>5 DEF FrameOK, EvalInv, Calls
<1>7. ret = NoOutcome => d.ret = NoOutcome
  BY <1>1, <1>3 DEF Shadow, Goes
<1>8. k = 1 => \A i \in 1 .. Len(stack) : i > 1 => stack[i].stage = "delegated"
  BY <1>1, <1>3 DEF Shadow, Place
<1> QED BY <1>1, <1>2, <1>3, <1>4, <1>5, <1>6, <1>7, <1>8

LEMMA MoveIs ==
  ASSUME NEW h, NEW d, d.ret = NoOutcome, NEW g, g = Head(d.stack)
  PROVE  /\ g.rest = <<>> => Still(h, d) /\ Move(h, d) = Advanced(h, d, g)
         /\ g.rest # <<>> /\ ~Passes(g.last, Head(g.rest).if) =>
              Still(h, d) /\ Move(h, d) = On(d, [g EXCEPT !.rest = Tail(@)])
         /\ g.rest # <<>> /\ Passes(g.last, Head(g.rest).if) =>
              /\ Head(g.rest).op # "set"
                 /\ (Head(g.rest).op \in {"write", "sync"} =>
                       h[Head(g.rest).path] = Head(g.rest).value)
                 => Still(h, d)
              /\ Move(h, d) = Evaluated(h, d, g, Head(g.rest))
BY DEF Move, Still, IsDue

(* Both go on.                                                             *)
LEMMA BothGoOn ==
  ASSUME EvalInv, NEW d, NEW k, Ahead(d, k), NEW f \in Frames, SetTop(f), ret' = NoOutcome,
         NEW g \in Frames, Still(host, d), Move(host, d) = On(d, g),
         Alike(mode, host, f, g), f.def = Top.def,
         k = 1 => f.stage \in {"decide", "try"},
         k # 1 => f.stage \in {"decide", "preview"}
  PROVE  Follows
<1>1. /\ Here \in Configurations /\ Here.stack = stack /\ stack # <<>> /\ Top = stack[1]
      /\ d \in Configurations /\ d.stack # <<>>
      /\ Shadow(mode, host, Here, d, k) /\ Walk(host, Current.def, d)
  BY AheadTop
<1>2. Here' = On(Here, f)
  BY HereIs
<1> DEFINE e == On(d, g)
<1>3. /\ e \in Configurations /\ e.ret = NoOutcome /\ Len(e.stack) = Len(d.stack)
      /\ e.stack[1] = g /\ \A i \in 1 .. Len(d.stack) : i # 1 => e.stack[i] = d.stack[i]
  BY <1>1, OnOK
<1>4. Walk(host, Current.def, e)
  BY <1>1, WalkGoesOn
<1> HIDE DEF e
<1>5. Len(d.stack) = Len(Here.stack)
  BY <1>1 DEF Shadow
<1>6. Shadow(mode, host, On(Here, f), e, k)
  BY <1>1, <1>3, <1>5, ShadowOn
<1> QED BY <1>2, <1>4, <1>6 DEF Follows

(* What is looked at waits.                                                *)
LEMMA OneGoesOn ==
  ASSUME EvalInv, NEW d, NEW k, Ahead(d, k), NEW f \in Frames, SetTop(f), ret' = NoOutcome,
         ret = NoOutcome, Alike(mode, host, f, d.stack[1]), f.def = Top.def,
         k = 1 => f.stage \in {"decide", "try"},
         k # 1 => f.stage \in {"decide", "preview"}
  PROVE  Follows
<1>1. /\ Here \in Configurations /\ Here.stack = stack /\ stack # <<>> /\ Top = stack[1]
      /\ d \in Configurations /\ d.ret = NoOutcome
      /\ Shadow(mode, host, Here, d, k) /\ Walk(host, Current.def, d)
  BY AheadTop
<1>2. Here' = On(Here, f)
  BY HereIs
<1>3. Len(d.stack) = Len(Here.stack)
  BY <1>1 DEF Shadow
<1>4. Shadow(mode, host, On(Here, f), d, k)
  BY <1>1, <1>3, ShadowOn
<1> QED BY <1>1, <1>2, <1>4 DEF Follows

(* Both leave a question.                                                  *)
LEMMA BothLeave ==
  ASSUME EvalInv, NEW d, NEW k, Ahead(d, k), k # 1,
         NEW r \in Outcomes, Goes(r), Leave(r),
         NEW s \in Outcomes, Goes(s), Still(host, d), Move(host, d) = Left(d, s)
  PROVE  Follows
<1>1. /\ Here \in Configurations /\ Shadow(mode, host, Here, d, k) /\ Walk(host, Current.def, d)
  BY AheadTop
<1>2. Here' = Left(Here, r)
  BY HereIs
<1>3. Shadow(mode, host, Left(Here, r), Left(d, s), k - 1)
  BY <1>1, ShadowLeft
<1>4. Walk(host, Current.def, Left(d, s))
  BY <1>1, WalkGoesOn
<1> QED BY <1>2, <1>3, <1>4 DEF Follows

(* A run is at its last word.                                              *)
LEMMA RunLeaves ==
  ASSUME EvalInv, ChecksOnlyAsk, NEW d, NEW k, Ahead(d, k),
         NEW r \in Outcomes, r # NoOutcome, k = 1 \/ r.cat \in {"err", "fail"},
         Still(host, d), Move(host, d) = Left(d, r)
  PROVE  Follows
<1>1. /\ Here \in Configurations /\ Shadow(mode, host, Here, d, k) /\ Walk(host, Current.def, d)
  BY AheadTop
<1>2. Walk(host, Current.def, Left(d, r))
  BY <1>1, WalkGoesOn
<1> QED BY <1>1, <1>2, ShadowEnds DEF Follows

LEMMA DoomedFail ==
  ASSUME NEW r, Leave(r), r.cat \in {"err", "fail"} PROVE Follows
BY DEF Follows, Doomed, Leave

LEMMA DoomedLeave ==
  ASSUME EvalInv, NEW d, Ahead(d, 1), NEW r, Leave(r), r # NoOutcome,
         r.cat # "ok" \/ r.tag = "action"
  PROVE  Follows
<1>1. /\ stack \in Seq(Frames) /\ stack # <<>> /\ Len(stack) \in Nat \ {0}
      /\ \A i \in 1 .. Len(stack) : i > 1 => stack[i].stage = "delegated"
  BY AheadTop
<1>2. stack' = Tail(stack) /\ ret' = r
  BY DEF Leave
<1>3. Len(stack') = Len(stack) - 1 /\ \A i \in 1 .. Len(stack) - 1 : stack'[i] = stack[i + 1]
  BY <1>1, <1>2, TailOK
<1>4. ASSUME NEW i \in 1 .. Len(stack') PROVE stack'[i].stage = "delegated"
  <2>1. i + 1 \in 1 .. Len(stack) /\ i + 1 > 1 /\ i \in 1 .. Len(stack) - 1
    BY <1>1, <1>3
  <2> QED BY <1>1, <1>3, <2>1
<1> QED BY <1>2, <1>4 DEF Follows, Doomed

LEMMA DoomedTop ==
  ASSUME EvalInv, NEW d, Ahead(d, 1), NEW f \in Frames, SetTop(f), Overt(f)
  PROVE  Follows
<1>1. /\ stack \in Seq(Frames) /\ stack # <<>> /\ Len(stack) \in Nat \ {0}
      /\ \A i \in 1 .. Len(stack) : i > 1 => stack[i].stage = "delegated"
  BY AheadTop
<1>2. /\ Len(stack') = Len(stack) /\ stack'[1] = f
      /\ \A i \in 2 .. Len(stack) : stack'[i] = stack[i]
  BY <1>1, ReplaceTop DEF SetTop
<1>3. 1 \in 1 .. Len(stack') /\ \A j \in 1 .. Len(stack') : j > 1 => stack'[j].stage = "delegated"
  <2>1. \A j \in 1 .. Len(stack) : j > 1 => j \in 2 .. Len(stack)
    BY <1>1
  <2> QED BY <1>1, <1>2, <2>1
<1> QED BY <1>2, <1>3 DEF Follows, Doomed

-----------------------------------------------------------------------------
(* Frames that have gone on.                                               *)
LEMMA RestOn ==
  ASSUME NEW f \in Frames, f.rest # <<>>
  PROVE  LET g == [f EXCEPT !.rest = Tail(@)] IN
         /\ g \in Frames /\ g.def = f.def /\ g.stage = f.stage /\ g.phases = f.phases
         /\ g.rest = Tail(f.rest) /\ g.acted = f.acted /\ g.last = f.last
<1>1. Tail(f.rest) \in Seq(Statements)
  BY DEF Frames
<1> QED BY <1>1 DEF Frames

LEMMA OpenedOn ==
  ASSUME NEW f \in Frames, f.phases # <<>>, NEW body \in Seq(Statements)
  PROVE  LET g == [f EXCEPT !.rest = body, !.phases = Tail(@)] IN
         /\ g \in Frames /\ g.def = f.def /\ g.stage = f.stage /\ g.phases = Tail(f.phases)
         /\ g.rest = body /\ g.acted = f.acted /\ g.last = f.last
<1>1. Tail(f.phases) \in Seq(Phases)
  BY DEF Frames
<1> QED BY <1>1 DEF Frames

LEMMA SeenOn ==
  ASSUME NEW f \in Frames, f.phases # <<>>
  PROVE  LET g == [f EXCEPT !.phases = Tail(@)] IN
         /\ g \in Frames /\ g.def = f.def /\ g.stage = f.stage /\ g.phases = Tail(f.phases)
         /\ g.rest = f.rest /\ g.acted = f.acted /\ g.last = f.last
<1>1. Tail(f.phases) \in Seq(Phases)
  BY DEF Frames
<1> QED BY <1>1 DEF Frames

LEMMA DelegatedOn ==
  ASSUME NEW f \in Frames
  PROVE  LET g == [f EXCEPT !.stage = "delegated"] IN
         g \in Frames /\ g.def = f.def /\ g.stage = "delegated"
BY DEF Frames, Stages

LEMMA BothDecideOn ==
  ASSUME NEW m, NEW h, NEW f, NEW g, BothDecide(m, h, f, g), f.def = g.def,
         NEW f2, NEW g2 \in Frames, f2.def = f.def, g2.def = g.def,
         f2.stage = f.stage, g2.stage = g.stage, f2.rest = g2.rest, f2.last = g2.last,
         Onward(m, h, f2, g2), Elements(g2.phases) \subseteq Elements(g.phases),
         \A s \in Elements(g2.rest) : From(s, g.def, "check")
  PROVE  Alike(m, h, f2, g2)
<1>1. Deciding(g) /\ g.stage = "decide"
  BY DEF BothDecide, Deciding
<1>2. Deciding(g2)
  BY <1>1, DecidingOn
<1> QED BY <1>2 DEF BothDecide, Alike

LEMMA OnwardOn ==
  ASSUME NEW m, NEW h, NEW f, NEW g, Onward(m, h, f, g),
         NEW f2, NEW g2, f2.def = f.def, f2.phases = f.phases, g2.phases = g.phases
  PROVE  Onward(m, h, f2, g2)
BY DEF Onward

(* Where both decide, and where both try what acts.                        *)
LEMMA DecideIs ==
  ASSUME EvalInv, NEW d, NEW k, Ahead(d, k), Top.stage = "decide"
  PROVE  LET g == d.stack[1] IN
         /\ BothDecide(mode, host, Top, g) /\ Deciding(g) /\ Onward(mode, host, Top, g)
         /\ g \in Frames /\ g.def = Top.def /\ g.stage = "decide" /\ g.rest = Top.rest
         /\ g.last = Top.last
<1>1. Alike(mode, host, Top, d.stack[1])
  BY AheadTop
<1> QED BY <1>1 DEF Alike, BothDecide, HasAsked, BothTry, BothWait, Deciding

LEMMA TryIs ==
  ASSUME EvalInv, NEW d, NEW k, Ahead(d, k), Top.stage = "try"
  PROVE  BothTry(Top, d.stack[1]) /\ d.stack[1] \in Frames /\ d.stack[1].def = Top.def /\ k = 1
<1>1. Alike(mode, host, Top, d.stack[1]) /\ (k # 1 => Top.stage \in {"decide", "preview"})
  BY AheadTop
<1> QED BY <1>1 DEF Alike, BothDecide, HasAsked, BothTry, BothWait

LEMMA RestDecides ==
  ASSUME NEW g, Deciding(g), g.rest # <<>>
  PROVE  /\ Head(g.rest) \in Statements /\ From(Head(g.rest), g.def, "check")
         /\ \A s \in Elements(Tail(g.rest)) : From(s, g.def, "check")
<1>1. g.rest \in Seq(Statements)
  BY DEF Deciding, Frames
<1> QED BY <1>1, TailOK DEF Deciding

LEMMA DecideOn ==
  ASSUME EvalInv, NEW d, NEW k, Ahead(d, k), Top.stage = "decide",
         NEW f, NEW g \in Frames, f.def = Top.def, g.def = Top.def,
         f.stage = "decide", g.stage = "decide", f.rest = g.rest, f.last = g.last,
         f.phases = Top.phases, g.phases = d.stack[1].phases,
         \A s \in Elements(g.rest) : From(s, Top.def, "check")
  PROVE  Alike(mode, host, f, g)
<1>1. /\ BothDecide(mode, host, Top, d.stack[1]) /\ d.stack[1].def = Top.def
      /\ Onward(mode, host, Top, d.stack[1]) /\ d.stack[1].stage = "decide"
  BY DecideIs
<1>2. Onward(mode, host, f, g)
  BY <1>1, OnwardOn
<1> QED BY <1>1, <1>2, BothDecideOn

(* What a run has to say once it comes to a return, or cannot go on.       *)
LEMMA ConfirmedAtOK ==
  ASSUME NEW h, NEW f \in Frames, NEW r \in Outcomes
  PROVE  ConfirmedAt(h, f, r) \in Outcomes /\ ConfirmedAt(h, f, r).cat \in {r.cat, "err"}
<1>1. Outcome("err", "unconfirmed") \in Outcomes /\ Outcome("err", "unconfirmed").cat = "err"
  BY NameAssumption, OutcomeOK
<1> DEFINE c == (r.cat = "ok" /\ f.acted)
           s == [r EXCEPT !.changed = c]
<1>2. s \in Outcomes /\ s.cat = r.cat
  <2>1. c \in BOOLEAN
    BY DEF Frames
  <2> HIDE DEF c
  <2> QED BY <2>1 DEF Outcomes
<1>3. ConfirmedAt(h, f, r) = Outcome("err", "unconfirmed") \/ ConfirmedAt(h, f, r) = s
  BY DEF ConfirmedAt
<1> HIDE DEF s
<1> QED BY <1>1, <1>2, <1>3

LEMMA LastWord ==
  ASSUME NEW h, NEW d, NEW g \in Frames, NEW s \in Statements, s.op \in {"stop", "return"}
  PROVE  \E r \in Outcomes : r # NoOutcome /\ Evaluated(h, d, g, s) = Left(d, r)
<1>1. CASE s.op = "stop"
  <2>1. Evaluated(h, d, g, s) = Left(d, Failure)
    BY <1>1 DEF Evaluated
  <2> QED BY <2>1, ConstantsOK, NotNothing
<1>2. CASE s.op = "return"
  <2> DEFINE r == Outcome(s.cat, s.tag)
             t == IF g.stage = "decide" THEN r ELSE ConfirmedAt(h, g, r)
  <2>1. Evaluated(h, d, g, s) = Left(d, t)
    BY <1>2 DEF Evaluated
  <2>2. r \in Outcomes /\ r.cat \in {"ok", "err", "would"}
    BY <1>2, StatementOK, OutcomeOK
  <2> HIDE DEF r
  <2>3. t \in Outcomes /\ t.cat \in {"ok", "err", "would"}
    BY <2>2, ConfirmedAtOK
  <2> HIDE DEF t
  <2> QED BY <2>1, <2>3, NotNothing
<1> QED BY <1>1, <1>2

LEMMA SkipFollows ==
  ASSUME EvalInv, ChecksOnlyAsk, NEW d, NEW k, Ahead(d, k), SkipStatement
  PROVE  Follows
<1> DEFINE f == [Top EXCEPT !.rest = Tail(@)]
           g == d.stack[1]
           e == [g EXCEPT !.rest = Tail(@)]
<1>1. /\ Top.rest # <<>> /\ SetTop(f) /\ ret' = NoOutcome /\ d.ret = NoOutcome
      /\ ~Passes(Top.last, Head(Top.rest).if) /\ Head(d.stack) = g /\ Top \in Frames
      /\ g \in Frames
  BY AheadTop DEF SkipStatement, Busy, Statement
<1>2. /\ f \in Frames /\ f.def = Top.def /\ f.stage = Top.stage /\ f.phases = Top.phases
      /\ f.rest = Tail(Top.rest) /\ f.acted = Top.acted /\ f.last = Top.last
  BY <1>1, RestOn
<1>3. g.rest # <<>> =>
        /\ e \in Frames /\ e.def = g.def /\ e.stage = g.stage /\ e.phases = g.phases
        /\ e.rest = Tail(g.rest) /\ e.acted = g.acted /\ e.last = g.last
  BY <1>1, RestOn
<1>4. g.rest # <<>> /\ ~Passes(g.last, Head(g.rest).if) => Still(host, d) /\ Move(host, d) = On(d, e)
  BY <1>1, MoveIs
<1> HIDE DEF f, g, e
<1>5. CASE Top.stage = "decide"
  <2>1. g.rest = Top.rest /\ g.last = Top.last /\ g.def = Top.def /\ g.stage = "decide" /\ Deciding(g)
    BY <1>5, DecideIs DEF g
  <2>2. \A s \in Elements(e.rest) : From(s, Top.def, "check")
    BY <1>1, <1>3, <2>1, RestDecides
  <2>3. e.phases = d.stack[1].phases
    BY <1>1, <1>3, <2>1 DEF g
  <2>4. Alike(mode, host, f, e)
    BY <1>1, <1>2, <1>3, <1>5, <2>1, <2>2, <2>3, DecideOn
  <2> QED BY <1>1, <1>2, <1>3, <1>4, <1>5, <2>1, <2>4, BothGoOn
<1>6. CASE Top.stage = "try"
  <2>1. BothTry(Top, g) /\ g.def = Top.def /\ k = 1
    BY <1>6, TryIs DEF g
  <2>2. g.rest = Top.rest /\ g.stage = "apply" /\ g.phases = <<>>
    BY <2>1 DEF BothTry
  <2>3. BothTry(f, e) /\ Alike(mode, host, f, e)
    BY <1>1, <1>2, <1>3, <2>1, <2>2 DEF BothTry, Alike
  <2>4. CASE ~Passes(g.last, Head(g.rest).if)
    BY <1>1, <1>2, <1>3, <1>4, <1>6, <2>1, <2>2, <2>3, <2>4, BothGoOn
  <2>5. CASE Passes(g.last, Head(g.rest).if)
    <3>1. /\ Statement.if = "0" /\ Statement \in Statements /\ From(Statement, Top.def, "apply")
          /\ Statement.op \notin {"test", "set", "call"} /\ g.last = "0" /\ Top.last = "summary"
          /\ Statement = Head(g.rest)
      <4>1. Top.last = "summary" /\ g.last = "0"
        BY <1>1, <2>1, <2>2, <2>5 DEF BothTry
      <4>2. Statement = Head(g.rest) /\ Statement = Head(Top.rest)
        BY <2>2 DEF Statement
      <4>3. /\ Statement \in Statements /\ From(Statement, Top.def, "apply")
            /\ Statement.op \notin {"test", "set", "call"}
        BY <1>1, <1>6, StatementIsOK DEF SkipStatement, Busy, Source
      <4>4. Statement.if \in {"always", "ok", "err", "0"}
        BY <4>3 DEF Statements
      <4>5. Statement.if = "0"
        BY <1>1, <2>5, <4>1, <4>2, <4>4 DEF Passes
      <4> QED BY <4>1, <4>2, <4>3, <4>5
    <3>2. Counts(Top.def)
      BY <2>1, <3>1 DEF BothTry
    <3>3. Statement.op \in {"stop", "return"}
      <4>1. Statement.op \notin {"write", "sync"}
        BY <3>1, <3>2 DEF Counts
      <4>2. Statement.op \in {"test", "set", "write", "sync", "call", "stop", "return"}
        BY <3>1 DEF Statements
      <4> QED BY <3>1, <4>1, <4>2
    <3>4. Still(host, d) /\ Move(host, d) = Evaluated(host, d, g, Statement)
      <4>1. Statement = Head(g.rest) /\ Statement.op \notin {"set", "write", "sync"}
        BY <3>1, <3>3
      <4> QED BY <1>1, <2>2, <2>5, <4>1, MoveIs
    <3>5. PICK r \in Outcomes : r # NoOutcome /\ Move(host, d) = Left(d, r)
      BY <1>1, <3>1, <3>3, <3>4, LastWord
    <3> QED BY <1>1, <2>1, <3>4, <3>5, RunLeaves
  <2> QED BY <2>4, <2>5
<1>7. Top.stage \in {"decide", "try", "preview"}
  BY AheadTop
<1>8. Top.stage # "preview"
  <2>1. Top.stage = "preview" => Top.rest = <<>>
    BY AheadTop DEF Alike, BothDecide, HasAsked, BothTry, BothWait
  <2> QED BY <1>1, <2>1
<1> QED BY <1>5, <1>6, <1>7, <1>8

LEMMA TestFollows ==
  ASSUME EvalInv, ChecksOnlyAsk, NEW d, NEW k, Ahead(d, k), Test
  PROVE  Follows
<1> DEFINE last == IF host[Statement.path] = Statement.value THEN "ok" ELSE "err"
           f == Past(Top, last, TRUE)
           g == d.stack[1]
           e == Past(g, last, TRUE)
<1>1. /\ Top.rest # <<>> /\ ret = NoOutcome /\ d.ret = NoOutcome
      /\ Passes(Top.last, Head(Top.rest).if) /\ Head(d.stack) = g /\ Top \in Frames
      /\ g \in Frames /\ Statement = Head(Top.rest) /\ Statement.op = "test"
      /\ Top.stage \in {"decide", "try", "preview"}
  BY AheadTop DEF Test, Due, Busy, Statement
<1>2. last \in Lasts
  BY DEF Lasts
<1>3. SetTop(f) /\ ret' = NoOutcome
  BY <1>1 DEF Test, Continue, Past
<1>4. Top.stage = "decide"
  <2>1. Top.stage # "try"
    BY <1>1, StatementIsOK DEF Test, Due, Busy
  <2>2. Top.stage = "preview" => Top.rest = <<>>
    BY AheadTop DEF Alike, BothDecide, HasAsked, BothTry, BothWait
  <2> QED BY <1>1, <2>1, <2>2
<1>5. g.rest = Top.rest /\ g.last = Top.last /\ g.def = Top.def /\ g.stage = "decide" /\ Deciding(g)
  BY <1>4, DecideIs
<1> DEFINE Both(a, b) ==
      /\ b.def = a.def /\ b.stage = a.stage /\ b.phases = a.phases
      /\ b.rest = Tail(a.rest) /\ b.last = last
<1>6. f \in Frames /\ Both(Top, f)
  <2> HIDE DEF last
  <2>1. Tail(Top.rest) \in Seq(Statements) /\ (Top.acted \/ TRUE) \in BOOLEAN
    BY <1>1 DEF Frames
  <2> QED BY <1>1, <1>2, <2>1 DEF Past, Frames
<1>7. e \in Frames /\ Both(g, e)
  <2>1. g.rest # <<>>
    BY <1>1, <1>5
  <2> HIDE DEF last, g
  <2>2. Tail(g.rest) \in Seq(Statements) /\ (g.acted \/ TRUE) \in BOOLEAN
    BY <1>1, <2>1 DEF Frames
  <2> QED BY <1>1, <1>2, <2>2 DEF Past, Frames
<1>8. Still(host, d) /\ Move(host, d) = Evaluated(host, d, g, Statement)
  <2>1. /\ Head(g.rest) = Statement /\ g.rest # <<>> /\ Passes(g.last, Statement.if)
        /\ Head(d.stack) = g /\ d.ret = NoOutcome /\ Statement.op = "test"
    BY <1>1, <1>5
  <2> HIDE DEF g
  <2>2. Still(host, d)
    BY <2>1 DEF Still
  <2>3. Move(host, d) = Evaluated(host, d, g, Statement)
    BY <2>1 DEF Move
  <2> QED BY <2>2, <2>3
<1>9. Move(host, d) = On(d, e)
  BY <1>1, <1>8 DEF Evaluated
<1>10. \A s \in Elements(e.rest) : From(s, Top.def, "check")
  BY <1>1, <1>5, <1>7, RestDecides
<1> HIDE DEF f, e
<1>11. Alike(mode, host, f, e)
  BY <1>1, <1>4, <1>5, <1>6, <1>7, <1>10, DecideOn
<1> QED BY <1>3, <1>4, <1>6, <1>7, <1>8, <1>9, <1>11, BothGoOn

LEMMA ReceiveFollows ==
  ASSUME EvalInv, ChecksOnlyAsk, NEW d, NEW k, Ahead(d, k), Receive
  PROVE  Follows
<1> DEFINE f == [Top EXCEPT !.acted = @ \/ ret.changed, !.last = "called"]
           g == d.stack[1]
           e == [g EXCEPT !.acted = @ \/ d.ret.changed, !.last = "called"]
<1>1. /\ ret # NoOutcome /\ Head(d.stack) = g /\ Top \in Frames /\ g \in Frames
      /\ d \in Configurations /\ ret \in Outcomes
  BY AheadTop DEF Receive, EvalInv, Calls
<1>2. Goes(ret) /\ Goes(d.ret) /\ Top.stage = "decide"
  <2>1. Here.stack = stack /\ Here.ret = ret /\ Top = stack[1] /\ Shadow(mode, host, Here, d, k)
    BY AheadTop
  <2> QED BY <1>1, <2>1 DEF Shadow
<1>3. ret.changed \in BOOLEAN /\ d.ret.changed \in BOOLEAN
  BY <1>1 DEF Outcomes, Configurations
<1>4. g.rest = Top.rest /\ g.last = Top.last /\ g.def = Top.def /\ g.stage = "decide" /\ Deciding(g)
  BY <1>2, DecideIs
<1>5. SetTop(f) /\ ret' = NoOutcome
  BY <1>2 DEF Receive, Goes
<1>6. Still(host, d) /\ Move(host, d) = On(d, e)
  <2>1. Still(host, d) /\ Move(host, d) = Received(d, g)
    BY <1>1, <1>2 DEF Still, IsDue, Move, Goes
  <2> QED BY <1>2, <1>4, <2>1 DEF Received, Goes
<1> DEFINE Both(a, b) ==
      /\ b.def = a.def /\ b.stage = a.stage /\ b.phases = a.phases
      /\ b.rest = a.rest /\ b.last = "called"
<1>7. f \in Frames /\ Both(Top, f)
  <2>1. (Top.acted \/ ret.changed) \in BOOLEAN /\ "called" \in Lasts
    BY <1>1, <1>3 DEF Frames, Lasts
  <2> QED BY <1>1, <2>1 DEF Frames
<1>8. e \in Frames /\ Both(g, e)
  <2> HIDE DEF g
  <2>1. (g.acted \/ d.ret.changed) \in BOOLEAN /\ "called" \in Lasts
    BY <1>1, <1>3 DEF Frames, Lasts
  <2> QED BY <1>1, <2>1 DEF Frames
<1>9. \A s \in Elements(e.rest) : From(s, Top.def, "check")
  BY <1>4, <1>8 DEF Deciding
<1> HIDE DEF f, e
<1>10. Alike(mode, host, f, e)
  BY <1>2, <1>4, <1>7, <1>8, <1>9, DecideOn
<1> QED BY <1>2, <1>5, <1>6, <1>7, <1>8, <1>10, BothGoOn

(* What may be due, and that it is due in a run.                           *)
LEMMA DueIs ==
  ASSUME EvalInv, ChecksOnlyAsk, NEW d, NEW k, Ahead(d, k), ret = NoOutcome, Top.rest # <<>>
  PROVE  LET g == d.stack[1] IN
         /\ Statement \in Statements /\ Top.stage \in {"decide", "try"}
         /\ From(Statement, Top.def, Source(Top.stage))
         /\ Top.stage = "decide" =>
              \/ Statement.op \in {"test", "stop", "return"}
              \/ Statement.op = "call" /\ Question(Statement.def)
         /\ Top.stage = "try" => Statement.op \in {"write", "sync", "stop", "return"}
         /\ g \in Frames /\ g.def = Top.def /\ g.rest # <<>> /\ Statement = Head(g.rest)
         /\ Passes(Top.last, Statement.if) =>
              /\ Statement.op # "set"
                   /\ (Statement.op \in {"write", "sync"} => InPlace) => Still(host, d)
              /\ Move(host, d) = Evaluated(host, d, g, Statement)
<1> DEFINE g == d.stack[1]
<1>1. /\ stack # <<>> /\ Head(d.stack) = g /\ g \in Frames /\ d.ret = NoOutcome
      /\ Top.stage \in {"decide", "try", "preview"} /\ Top.def \in Names
      /\ Alike(mode, host, Top, g)
  BY AheadTop
<1>2. /\ Statement \in Statements /\ From(Statement, Top.def, Source(Top.stage))
      /\ Top.stage = "try" => Statement.op \notin {"test", "set", "call"}
  BY <1>1, StatementIsOK
<1>3. Top.stage \in {"decide", "try"} /\ g.rest = Top.rest /\ g.def = Top.def
      /\ (Top.last = g.last \/ (Top.last = "summary" /\ g.last = "0"))
  BY <1>1 DEF Alike, BothDecide, HasAsked, BothTry, BothWait
<1> HIDE DEF g
<1>4. Top.stage = "decide" =>
        \/ Statement.op \in {"test", "stop", "return"}
        \/ Statement.op = "call" /\ Question(Statement.def)
  <2>1. Top.stage = "decide" => From(Statement, Top.def, "check")
    BY <1>2 DEF Source
  <2> QED BY <1>1, <2>1, ConventionsOK
<1>5. Statement.op \in {"test", "set", "write", "sync", "call", "stop", "return"}
      /\ Statement.if \in {"always", "ok", "err", "0"}
  BY <1>2 DEF Statements
<1>6. Statement = Head(g.rest) /\ g.rest # <<>>
  BY <1>3 DEF Statement
<1>7. Passes(Top.last, Statement.if) => Passes(g.last, Statement.if)
  BY <1>3, <1>5 DEF Passes
<1>8. Passes(Top.last, Statement.if) =>
        /\ Statement.op # "set"
             /\ (Statement.op \in {"write", "sync"} => InPlace) => Still(host, d)
        /\ Move(host, d) = Evaluated(host, d, g, Statement)
  BY <1>1, <1>6, <1>7, MoveIs DEF InPlace
<1> QED BY <1>1, <1>2, <1>3, <1>4, <1>5, <1>6, <1>8 DEF g

LEMMA StopFollows ==
  ASSUME Stop PROVE Follows
<1>1. Leave(Failure) /\ Failure.cat \in {"err", "fail"}
  BY ConstantsOK DEF Stop
<1> QED BY <1>1, DoomedFail

(* A def has one apply: what is tried is what is run.                      *)
LEMMA OneApply ==
  ASSUME AppliesOnce, NEW n \in Names, Named(n, {"apply"}) # <<>>
  PROVE  /\ LastOf(Named(n, {"apply"})) = Head(Named(n, {"apply"}))
         /\ \A ph \in Of(n, {"apply"}) : ph = LastOf(Named(n, {"apply"}))
<1> DEFINE s == Named(n, {"apply"})
<1>1. s \in Seq(Phases) /\ Elements(s) = Of(n, {"apply"}) /\ s # <<>> /\ Len(s) <= 1
  BY NamedOK DEF AppliesOnce
<1> HIDE DEF s
<1>2. Len(s) = 1 /\ DOMAIN s = {1} /\ Head(s) = s[1]
  <2>1. Len(s) \in Nat \ {0} /\ DOMAIN s = 1 .. Len(s) /\ Head(s) = s[1]
    BY <1>1
  <2>2. Len(s) = 1
    BY <1>1, <2>1
  <2>3. 1 .. 1 = {1}
    OBVIOUS
  <2> QED BY <2>1, <2>2, <2>3
<1>3. LastOf(s) = Head(s) /\ \A ph \in Elements(s) : ph = LastOf(s)
  BY <1>2 DEF LastOf, Elements
<1> QED BY <1>1, <1>3 DEF s

LEMMA CountsOK ==
  ASSUME AppliesOnce, CountsOnlyReturn, NEW n \in Names, Inert(n),
         NEW t, From(t, n, "apply"), t.op = "sync"
  PROVE  Counts(n)
<1> DEFINE body == LastOf(Named(n, {"apply"})).body
<1>1. \A ph \in Of(n, {"apply"}) : ph.body = body
  BY OneApply DEF Inert
<1>2. \A s : From(s, n, "apply") => s \in Elements(body)
  BY <1>1 DEF From
<1>3. (\E i \in DOMAIN body : body[i].op = "sync") =>
        \A j \in DOMAIN body : body[j].if = "0" => body[j].op \notin {"write", "sync"}
  BY DEF CountsOnlyReturn
<1> HIDE DEF body
<1>4. \E i \in DOMAIN body : body[i].op = "sync"
  BY <1>2 DEF Elements
<1>5. \A s \in Elements(body) : s.if = "0" => s.op \notin {"write", "sync"}
  BY <1>3, <1>4 DEF Elements
<1> QED BY <1>2, <1>5 DEF Counts

(* What acts is in place, or is foretold.                                  *)
LEMMA DeliveryFollows ==
  ASSUME EvalInv, ChecksOnlyAsk, AppliesOnce, CountsOnlyReturn,
         NEW d, NEW k, Ahead(d, k), Busy, Top.rest # <<>>, Passes(Top.last, Statement.if),
         Statement.op \in {"write", "sync"},
         NEW last, last = (IF InPlace THEN "0" ELSE "1")
                     \/ (last = "summary" /\ Statement.op = "sync"),
         Continue(last, ~InPlace)
  PROVE  Follows
<1> DEFINE acted == ~InPlace
           f == Past(Top, last, acted)
           g == d.stack[1]
           e == Past(g, "0", FALSE)
<1>1. Top \in Frames /\ ret = NoOutcome /\ Top.def \in Names
  BY AheadTop DEF Busy
<1>2. /\ Top.stage = "try" /\ From(Statement, Top.def, "apply") /\ g \in Frames /\ g.def = Top.def
      /\ g.rest # <<>>
      /\ InPlace => Still(host, d)
      /\ Move(host, d) = Evaluated(host, d, g, Statement)
  <2>1. Top.stage = "try"
    BY <1>1, DueIs
  <2>2. From(Statement, Top.def, "apply")
    BY <1>1, <2>1, DueIs DEF Source
  <2> QED BY <1>1, <2>1, <2>2, DueIs
<1>3. BothTry(Top, g) /\ k = 1
  BY <1>2, TryIs
<1>4. last \in Lasts /\ acted \in BOOLEAN /\ "0" \in Lasts
  BY DEF Lasts, InPlace
<1>5. SetTop(f) /\ ret' = NoOutcome
  BY <1>1 DEF Continue, Past
<1> HIDE DEF acted
<1>6. /\ f \in Frames /\ f.def = Top.def /\ f.stage = Top.stage /\ f.phases = Top.phases
      /\ f.rest = Tail(Top.rest) /\ f.acted = (Top.acted \/ acted) /\ f.last = last
  <2>1. Tail(Top.rest) \in Seq(Statements) /\ (Top.acted \/ acted) \in BOOLEAN
    BY <1>1 DEF Frames
  <2> QED BY <1>1, <1>4, <2>1 DEF Past, Frames
<1>7. /\ e \in Frames /\ e.def = g.def /\ e.stage = g.stage /\ e.phases = g.phases
      /\ e.rest = Tail(g.rest) /\ e.acted = (g.acted \/ FALSE) /\ e.last = "0"
  <2> HIDE DEF g
  <2>1. Tail(g.rest) \in Seq(Statements) /\ (g.acted \/ FALSE) \in BOOLEAN
    BY <1>2 DEF Frames
  <2> QED BY <1>2, <1>4, <2>1 DEF Past, Frames
<1> HIDE DEF f
<1>8. CASE ~InPlace
  <2>1. Overt(f)
    BY <1>2, <1>6, <1>8 DEF Overt, acted
  <2> QED BY <1>3, <1>5, <1>6, <2>1, DoomedTop
<1>9. CASE InPlace
  <2>1. ~acted /\ (last = "0" \/ (last = "summary" /\ Counts(f.def)))
    <3>1. CASE last = "summary"
      BY <1>1, <1>2, <1>3, <1>6, <1>9, <3>1, CountsOK DEF BothTry, acted
    <3>2. CASE last # "summary"
      BY <1>9, <3>2 DEF acted
    <3> QED BY <3>1, <3>2
  <2>2. Move(host, d) = On(d, e)
    BY <1>2 DEF Evaluated
  <2> HIDE DEF e, g
  <2>3. BothTry(f, e)
    BY <1>2, <1>3, <1>6, <1>7, <2>1 DEF BothTry
  <2>4. Alike(mode, host, f, e)
    BY <1>2, <1>6, <1>7, <2>3 DEF Alike
  <2> QED BY <1>2, <1>3, <1>5, <1>6, <1>7, <1>9, <2>2, <2>4, BothGoOn
<1> QED BY <1>8, <1>9

LEMMA WriteFollows ==
  ASSUME EvalInv, ChecksOnlyAsk, AppliesOnce, CountsOnlyReturn, NEW d, NEW k, Ahead(d, k), Write
  PROVE  Follows
<1>1. CASE Leave(Failure)
  <2>1. Failure.cat \in {"err", "fail"}
    BY ConstantsOK
  <2> QED BY <1>1, <2>1, DoomedFail
<1>2. CASE Continue(IF InPlace THEN "0" ELSE "1", ~InPlace)
  BY <1>2, DeliveryFollows DEF Write, Due
<1> QED BY <1>1, <1>2 DEF Write

LEMMA SyncFollows ==
  ASSUME EvalInv, ChecksOnlyAsk, AppliesOnce, CountsOnlyReturn, NEW d, NEW k, Ahead(d, k), Sync
  PROVE  Follows
<1>1. CASE Leave(Failure)
  <2>1. Failure.cat \in {"err", "fail"}
    BY ConstantsOK
  <2> QED BY <1>1, <2>1, DoomedFail
<1>2. CASE Continue(IF InPlace THEN "0" ELSE "1", ~InPlace)
  BY <1>2, DeliveryFollows DEF Sync, Due
<1>3. CASE Continue("summary", ~InPlace)
  BY <1>3, DeliveryFollows DEF Sync, Due
<1> QED BY <1>1, <1>2, <1>3 DEF Sync

LEMMA SetFollows ==
  ASSUME EvalInv, ChecksOnlyAsk, NEW d, NEW k, Ahead(d, k), Set
  PROVE  Follows
<1>1. Busy /\ ret = NoOutcome /\ Top.rest # <<>> /\ Statement.op = "set"
  BY DEF Set, Due, Busy
<1> QED BY <1>1, DueIs

LEMMA ReturnFollows ==
  ASSUME EvalInv, ChecksOnlyAsk, NEW d, NEW k, Ahead(d, k), Return
  PROVE  Follows
<1> DEFINE r == Outcome(Statement.cat, Statement.tag)
           g == d.stack[1]
<1>1. Top.rest # <<>> /\ ret = NoOutcome /\ Statement.op = "return" /\ Passes(Top.last, Statement.if)
  BY DEF Return, Due, Busy
<1>2. /\ Statement \in Statements /\ Top.stage \in {"decide", "try"} /\ g \in Frames
      /\ Still(host, d) /\ Move(host, d) = Evaluated(host, d, g, Statement)
  BY <1>1, DueIs
<1>3. r \in Outcomes /\ r.cat \in {"ok", "err", "would"} /\ r # NoOutcome
  <2>1. r \in Outcomes /\ r.cat \in {"ok", "err", "would"}
    BY <1>1, <1>2, StatementOK, OutcomeOK
  <2> HIDE DEF r
  <2> QED BY <2>1, NotNothing
<1>4. CASE Top.stage = "decide"
  <2>1. g.stage = "decide"
    BY <1>4, DecideIs
  <2>2. Move(host, d) = Left(d, r)
    BY <1>1, <1>2, <2>1 DEF Evaluated
  <2>3. Leave(Softened(r))
    BY <1>4 DEF Return
  <2> HIDE DEF r, g
  <2>4. CASE k = 1 \/ r.cat = "err"
    BY <1>2, <1>3, <2>2, <2>4, RunLeaves
  <2>5. CASE k # 1 /\ r.cat # "err"
    <3>1. Softened(r) = r /\ Goes(r)
      BY <1>3, <2>5 DEF Softened, Goes
    <3> QED BY <1>2, <1>3, <2>2, <2>3, <2>5, <3>1, BothLeave
  <2> QED BY <2>4, <2>5
<1>5. CASE Top.stage = "try"
  <2>1. k = 1
    BY <1>5, TryIs
  <2>2. PICK t \in Outcomes : t # NoOutcome /\ Evaluated(host, d, g, Statement) = Left(d, t)
    BY <1>1, <1>2, LastWord
  <2> QED BY <1>2, <2>1, <2>2, RunLeaves
<1> QED BY <1>2, <1>4, <1>5

(* Both call, or both fail.                                                *)
LEMMA BothEnter ==
  ASSUME EvalInv, NEW d, NEW k, Ahead(d, k), mode \in {"check", "status"}, ret = NoOutcome,
         NEW n \in Names, mode = "status" => \A ph \in Of(n, {"observe"}) : ~Met(host, ph),
         NEW f, Call(n, f), NEW g, Alike(mode, host, f, g), f.def = Top.def, f \in Frames,
         Still(host, d), Move(host, d) = Entered(d, n, g),
         \/ f.stage = "decide" /\ Question(n)
         \/ k = 1 /\ f.stage = "delegated"
  PROVE  Follows
<1>1. /\ Here \in Configurations /\ Here.stack = stack /\ Top = stack[1] /\ stack \in Seq(Frames)
      /\ d \in Configurations /\ Shadow(mode, host, Here, d, k) /\ Walk(host, Current.def, d)
  BY AheadTop
<1>2. CASE \E i \in DOMAIN stack : stack[i].def = n
  <2>1. Leave(Failure) /\ Failure.cat \in {"err", "fail"}
    BY <1>2, ConstantsOK DEF Call
  <2> QED BY <2>1, DoomedFail
<1>3. CASE ~\E i \in DOMAIN stack : stack[i].def = n
  <2> DEFINE p == Frame(n, mode)
             q == Frame(n, "apply")
             j == IF f.stage = "decide" THEN k + 1 ELSE 1
  <2>1. Here' = Pushed(Here, p, f)
    BY <1>1, <1>3 DEF Call, Here, Pushed
  <2>2. ~\E i \in DOMAIN d.stack : d.stack[i].def = n
    <3>1. /\ DOMAIN stack = 1 .. Len(stack) /\ DOMAIN d.stack = 1 .. Len(d.stack)
          /\ Len(d.stack) = Len(stack)
      BY <1>1 DEF Shadow, Configurations
    <3>2. \A i \in 1 .. Len(stack) : d.stack[i].def = stack[i].def
      BY <1>1 DEF Shadow, Alike
    <3> QED BY <1>3, <3>1, <3>2
  <2>3. Entered(d, n, g) = Pushed(d, q, g)
    BY <2>2 DEF Entered, Pushed
  <2>4. p \in Frames /\ p.stage = "decide" /\ p.def = n
    <3>1. mode \in Modes
      BY DEF EvalInv, Calls
    <3> QED BY <3>1, FrameIsOK DEF FrameOK
  <2>5. Alike(mode, host, p, q)
    BY BeginAlike
  <2> HIDE DEF p, q
  <2>6. \/ j = k + 1 /\ f.stage = "decide" /\ Question(p.def)
        \/ j = 1 /\ k = 1 /\ f.stage = "delegated"
    BY <2>4
  <2> HIDE DEF j
  <2>7. Shadow(mode, host, Pushed(Here, p, f), Pushed(d, q, g), j)
    BY <1>1, <2>4, <2>5, <2>6, ShadowPushed
  <2>8. Walk(host, Current.def, Pushed(d, q, g))
    BY <1>1, <2>3, WalkGoesOn
  <2> QED BY <2>1, <2>7, <2>8 DEF Follows
<1> QED BY <1>2, <1>3

LEMMA CallFollows ==
  ASSUME EvalInv, ChecksOnlyAsk, mode \in {"check", "status"},
         NEW d, NEW k, Ahead(d, k), CallDef
  PROVE  Follows
<1> DEFINE n == Statement.def
           f == [Top EXCEPT !.rest = Tail(@)]
           g == d.stack[1]
           e == [g EXCEPT !.rest = Tail(@)]
<1>1. /\ Top.rest # <<>> /\ ret = NoOutcome /\ Statement.op = "call"
      /\ Passes(Top.last, Statement.if) /\ Call(n, f) /\ Top \in Frames
  BY AheadTop DEF CallDef, Due, Busy
<1>2. Top.stage = "decide" /\ Question(n) /\ n \in Names
  <2>1. Top.stage = "decide" /\ Question(n) /\ Statement \in Statements
    BY <1>1, DueIs
  <2> QED BY <1>1, <2>1, StatementOK
<1>3. /\ g \in Frames /\ g.rest # <<>> /\ Still(host, d)
      /\ Move(host, d) = Evaluated(host, d, g, Statement)
  BY <1>1, DueIs
<1>4. g.rest = Top.rest /\ g.last = Top.last /\ g.def = Top.def /\ g.stage = "decide" /\ Deciding(g)
  BY <1>2, DecideIs
<1>5. Move(host, d) = Entered(d, n, e)
  BY <1>1, <1>3 DEF Evaluated
<1>6. /\ f \in Frames /\ f.def = Top.def /\ f.stage = Top.stage /\ f.phases = Top.phases
      /\ f.rest = Tail(Top.rest) /\ f.acted = Top.acted /\ f.last = Top.last
  BY <1>1, RestOn
<1>7. /\ e \in Frames /\ e.def = g.def /\ e.stage = g.stage /\ e.phases = g.phases
      /\ e.rest = Tail(g.rest) /\ e.acted = g.acted /\ e.last = g.last
  BY <1>3, RestOn
<1>8. \A s \in Elements(e.rest) : From(s, Top.def, "check")
  BY <1>3, <1>4, <1>7, RestDecides
<1> HIDE DEF n, f, e
<1>9. Alike(mode, host, f, e)
  BY <1>2, <1>4, <1>6, <1>7, <1>8, DecideOn
<1>10. Of(n, {"observe"}) = {}
  BY <1>2 DEF Of, Question, Elements
<1> QED BY <1>1, <1>2, <1>3, <1>5, <1>6, <1>9, <1>10, BothEnter

-----------------------------------------------------------------------------
(* A run observes what a status does not.                                  *)
LEMMA SameHere ==
  ASSUME EvalInv, stack # <<>>, ret = NoOutcome PROVE On(Here, Top) = Here
<1>1. stack \in Seq(Frames) /\ Top = Head(stack)
  BY DEF EvalInv, Calls, Top
<1>2. <<Top>> \o Tail(stack) = stack
  BY <1>1
<1> QED BY <1>2 DEF On, Here

LEMMA ObservesOn ==
  ASSUME EvalInv, NEW d, NEW k, Ahead(d, k), mode = "status", ret = NoOutcome,
         Top.stage = "decide", Top.rest = <<>>,
         d.stack[1].phases # <<>>, Head(d.stack[1].phases).name = "observe"
  PROVE  \E e : Ahead(e, k) /\ Len(e.stack[1].phases) = Len(d.stack[1].phases) - 1
<1> DEFINE g == d.stack[1]
           p == [g EXCEPT !.phases = Tail(@)]
           e == On(d, p)
<1>1. /\ Here \in Configurations /\ Here.stack = stack /\ stack # <<>> /\ Top = stack[1]
      /\ d \in Configurations /\ d.stack # <<>> /\ Head(d.stack) = g /\ g \in Frames
      /\ d.ret = NoOutcome /\ Shadow(mode, host, Here, d, k) /\ Walk(host, Current.def, d)
      /\ Top \in Frames
  BY AheadTop
<1>2. /\ g.rest = Top.rest /\ g.last = Top.last /\ g.def = Top.def /\ g.stage = "decide"
      /\ Deciding(g) /\ Onward(mode, host, Top, g) /\ BothDecide(mode, host, Top, g)
      /\ g.phases # <<>> /\ Head(g.phases).name = "observe"
  BY DecideIs
<1> HIDE DEF g
<1>3. /\ g.phases \in Seq(Phases) /\ Head(g.phases) \in Elements(g.phases)
      /\ Elements(Tail(g.phases)) \subseteq Elements(g.phases)
      /\ Len(Tail(g.phases)) = Len(g.phases) - 1
  <2>1. g.phases \in Seq(Phases)
    BY <1>1 DEF Frames
  <2> QED BY <1>2, <2>1, TailOK
<1>4. Head(g.phases) \in Of(Top.def, {"observe"})
  BY <1>2, <1>3 DEF Deciding, Of
<1>5. /\ ~Converged(host, Head(g.phases).fields) /\ Stripped(Top.phases, g.phases)
      /\ \A ph \in Of(Top.def, {"observe"}) : ~Met(host, ph)
  BY <1>2, <1>4 DEF Onward, Met
<1>6. Still(host, d) /\ Move(host, d) = e
  <2>1. g.rest = <<>> /\ Head(d.stack) = g /\ d.ret = NoOutcome
    BY <1>1, <1>2
  <2>2. Still(host, d)
    BY <2>1 DEF Still, IsDue
  <2>3. Move(host, d) = Advanced(host, d, g)
    BY <2>1 DEF Move
  <2> QED BY <1>2, <1>5, <2>2, <2>3 DEF Advanced
<1>7. /\ p \in Frames /\ p.def = g.def /\ p.stage = g.stage /\ p.phases = Tail(g.phases)
      /\ p.rest = g.rest /\ p.acted = g.acted /\ p.last = g.last
  BY <1>1, <1>2, SeenOn
<1> HIDE DEF p
<1>8. Onward(mode, host, Top, p)
  <2>1. Stripped(Top.phases, p.phases)
    BY <1>2, <1>5, <1>7, StrippedStep
  <2> QED BY <1>5, <2>1 DEF Onward
<1>9. Alike(mode, host, Top, p)
  <2>1. \A s \in Elements(p.rest) : From(s, g.def, "check")
    BY <1>2, <1>7 DEF Deciding
  <2> QED BY <1>2, <1>3, <1>7, <1>8, <2>1, BothDecideOn
<1>10. /\ e \in Configurations /\ e.ret = NoOutcome /\ Len(e.stack) = Len(d.stack)
       /\ e.stack[1] = p /\ \A i \in 1 .. Len(d.stack) : i # 1 => e.stack[i] = d.stack[i]
  BY <1>1, <1>7, OnOK
<1>11. Walk(host, Current.def, e)
  BY <1>1, <1>6, WalkGoesOn
<1> HIDE DEF e
<1>12. Len(d.stack) = Len(Here.stack)
  BY <1>1 DEF Shadow
<1>13. Shadow(mode, host, On(Here, Top), e, k)
  BY <1>1, <1>9, <1>10, <1>12, ShadowOn
<1>14. Ahead(e, k)
  BY <1>1, <1>11, <1>13, SameHere DEF Ahead
<1> QED BY <1>3, <1>7, <1>10, <1>14 DEF g

LEMMA Unobserved ==
  ASSUME EvalInv, NEW d, NEW k, Ahead(d, k), ret = NoOutcome,
         Top.stage = "decide", Top.rest = <<>>
  PROVE  \E e : /\ Ahead(e, k)
                /\ mode = "status" =>
                     e.stack[1].phases = <<>> \/ Head(e.stack[1].phases).name # "observe"
<1> DEFINE S == {i \in Nat : \E e : Ahead(e, k) /\ Len(e.stack[1].phases) = i}
<1>1. \A e : Ahead(e, k) => Len(e.stack[1].phases) \in S
  <2>1. ASSUME NEW e, Ahead(e, k) PROVE e.stack[1].phases \in Seq(Phases)
    <3>1. e.stack[1] \in Frames
      BY <2>1, AheadTop
    <3> QED BY <3>1 DEF Frames
  <2>2. \A s \in Seq(Phases) : Len(s) \in Nat
    OBVIOUS
  <2> QED BY <2>1, <2>2
<1>2. S # {} /\ S \in SUBSET Nat
  BY <1>1
<1>3. \A i \in S : i \in Nat /\ \E e : Ahead(e, k) /\ Len(e.stack[1].phases) = i
  OBVIOUS
<1> HIDE DEF S
<1>4. PICK m \in S : \A i \in S : m <= i
  BY <1>2, LeastNatural
<1>5. PICK e : Ahead(e, k) /\ Len(e.stack[1].phases) = m
  BY <1>3, <1>4
<1>6. ASSUME mode = "status", e.stack[1].phases # <<>>, Head(e.stack[1].phases).name = "observe"
      PROVE  FALSE
  <2>1. PICK c : Ahead(c, k) /\ Len(c.stack[1].phases) = m - 1
    BY <1>5, <1>6, ObservesOn
  <2>2. m - 1 \in S
    BY <1>1, <2>1
  <2>3. m <= m - 1 /\ m \in Nat
    BY <1>3, <1>4, <2>2
  <2> QED BY <2>3
<1> QED BY <1>5, <1>6

(* No phase is left, or the next one is the same.                          *)
LEMMA Unphased ==
  ASSUME EvalInv, mode \in {"check", "status"}, NEW d, NEW k, Ahead(d, k), ret = NoOutcome,
         Top.stage = "decide", Top.rest = <<>>, Top.phases = <<>>
  PROVE  \E e : /\ Ahead(e, k) /\ e.stack[1].phases = <<>> /\ Still(host, e)
                /\ Move(host, e) = Advanced(host, e, e.stack[1])
<1>1. PICK e : /\ Ahead(e, k)
               /\ mode = "status" =>
                    e.stack[1].phases = <<>> \/ Head(e.stack[1].phases).name # "observe"
  BY Unobserved
<1> DEFINE g == e.stack[1]
<1>2. Onward(mode, host, Top, g) /\ g.rest = <<>> /\ Head(e.stack) = g /\ e.ret = NoOutcome
  <2>1. Onward(mode, host, Top, g) /\ g.rest = Top.rest
    BY <1>1, DecideIs
  <2>2. Head(e.stack) = g /\ e.ret = NoOutcome
    BY <1>1, AheadTop
  <2> QED BY <2>1, <2>2
<1> HIDE DEF g
<1>3. g.phases = <<>>
  <2>1. CASE mode = "check"
    BY <1>2, <2>1 DEF Onward
  <2>2. CASE mode = "status"
    <3>1. g.phases = <<>> \/ Head(g.phases).name # "observe"
      BY <1>1, <2>2 DEF g
    <3>2. Stripped(Top.phases, g.phases)
      BY <1>2, <2>2 DEF Onward
    <3> DEFINE p == Top.phases
               q == g.phases
    <3>3. p = <<>> /\ Stripped(p, q) /\ (q = <<>> \/ Head(q).name # "observe")
      BY <3>1, <3>2
    <3> HIDE DEF p, q
    <3>4. q = <<>>
      BY <3>3, StrippedNext
    <3> QED BY <3>4 DEF q
  <2> QED BY <2>1, <2>2
<1>4. Still(host, e) /\ Move(host, e) = Advanced(host, e, g)
  BY <1>2, MoveIs
<1> QED BY <1>1, <1>3, <1>4 DEF g

LEMMA Phased ==
  ASSUME EvalInv, mode \in {"check", "status"}, NEW d, NEW k, Ahead(d, k), ret = NoOutcome,
         Top.stage = "decide", Top.rest = <<>>, Top.phases # <<>>
  PROVE  \E e : /\ Ahead(e, k) /\ Still(host, e)
                /\ Move(host, e) = Advanced(host, e, e.stack[1])
                /\ e.stack[1].phases # <<>> /\ Head(e.stack[1].phases) = Head(Top.phases)
                /\ mode = "status" => Head(Top.phases).name # "observe"
                /\ \A f, g :
                     /\ f.def = Top.def /\ f.phases = Tail(Top.phases)
                     /\ g.phases = Tail(e.stack[1].phases)
                     => Onward(mode, host, f, g)
<1>1. PICK e : /\ Ahead(e, k)
               /\ mode = "status" =>
                    e.stack[1].phases = <<>> \/ Head(e.stack[1].phases).name # "observe"
  BY Unobserved
<1> DEFINE g == e.stack[1]
<1>2. Onward(mode, host, Top, g) /\ g.rest = <<>> /\ Head(e.stack) = g /\ e.ret = NoOutcome
  <2>1. Onward(mode, host, Top, g) /\ g.rest = Top.rest
    BY <1>1, DecideIs
  <2>2. Head(e.stack) = g /\ e.ret = NoOutcome
    BY <1>1, AheadTop
  <2> QED BY <2>1, <2>2
<1>3. mode = "status" => g.phases = <<>> \/ Head(g.phases).name # "observe"
  BY <1>1
<1> HIDE DEF g
<1>4. Still(host, e) /\ Move(host, e) = Advanced(host, e, g)
  BY <1>2, MoveIs
<1>5. /\ g.phases # <<>> /\ Head(g.phases) = Head(Top.phases)
      /\ mode = "status" => Head(Top.phases).name # "observe"
      /\ \A p, q : p.def = Top.def /\ p.phases = Tail(Top.phases) /\ q.phases = Tail(g.phases)
           => Onward(mode, host, p, q)
  <2>1. CASE mode = "check"
    BY <1>2, <2>1 DEF Onward
  <2>2. CASE mode = "status"
    <3>1. /\ Stripped(Top.phases, g.phases)
          /\ \A ph \in Of(Top.def, {"observe"}) : ~Met(host, ph)
      BY <1>2, <2>2 DEF Onward
    <3>2. g.phases = <<>> \/ Head(g.phases).name # "observe"
      BY <1>3, <2>2
    <3> DEFINE p == Top.phases
               q == g.phases
    <3>3. p # <<>> /\ Stripped(p, q) /\ (q = <<>> \/ Head(q).name # "observe")
      BY <3>1, <3>2
    <3> HIDE DEF p, q
    <3>4. /\ q # <<>> /\ Head(q) = Head(p) /\ Head(q).name # "observe"
          /\ Stripped(Tail(p), Tail(q))
      BY <3>3, StrippedNext
    <3> QED BY <2>2, <3>1, <3>4 DEF Onward, p, q
  <2> QED BY <2>1, <2>2
<1> QED BY <1>1, <1>4, <1>5 DEF g

(* Where nothing is left to evaluate, both decide, or a question was asked. *)
LEMMA BetweenIs ==
  ASSUME EvalInv, NEW d, NEW k, Ahead(d, k)
  PROVE  /\ Top.phases # <<>> => Top.stage = "decide"
         /\ Top.stage = "preview" => HasAsked(Top, d.stack[1]) /\ k # 1
<1>1. /\ Alike(mode, host, Top, d.stack[1]) /\ Top.stage \in {"decide", "try", "preview"}
      /\ k = 1 => Top.stage \in {"decide", "try"}
  BY AheadTop
<1> QED BY <1>1 DEF Alike, BothDecide, HasAsked, BothTry, BothWait

LEMMA OpenPhaseFollows ==
  ASSUME EvalInv, ChecksOnlyAsk, mode \in {"check", "status"},
         NEW d, NEW k, Ahead(d, k), OpenPhase
  PROVE  Follows
<1> DEFINE ph == Head(Top.phases)
           f == [Top EXCEPT !.rest = ph.body, !.phases = Tail(@)]
<1>1. /\ ret = NoOutcome /\ Top.rest = <<>> /\ Top.phases # <<>> /\ ph.name # "observe"
      /\ SetTop(f) /\ ret' = NoOutcome
  BY DEF OpenPhase, Between, Busy
<1>2. Top.stage = "decide"
  BY <1>1, BetweenIs
<1>3. PICK e : /\ Ahead(e, k) /\ Still(host, e)
               /\ Move(host, e) = Advanced(host, e, e.stack[1])
               /\ e.stack[1].phases # <<>> /\ Head(e.stack[1].phases) = ph
               /\ \A p, q :
                    /\ p.def = Top.def /\ p.phases = Tail(Top.phases)
                    /\ q.phases = Tail(e.stack[1].phases)
                    => Onward(mode, host, p, q)
  BY <1>1, <1>2, Phased
<1> DEFINE g == e.stack[1]
           q == [g EXCEPT !.rest = ph.body, !.phases = Tail(@)]
<1>4. /\ BothDecide(mode, host, Top, g) /\ g \in Frames /\ g.def = Top.def /\ g.stage = "decide"
      /\ g.last = Top.last /\ Deciding(g) /\ Top \in Frames
  BY <1>2, <1>3, AheadTop, DecideIs
<1>5. Move(host, e) = On(e, q)
  BY <1>1, <1>3 DEF Advanced
<1>6. /\ g.phases # <<>> /\ ph = Head(g.phases)
      /\ \A a, b :
           a.def = Top.def /\ a.phases = Tail(Top.phases) /\ b.phases = Tail(g.phases)
           => Onward(mode, host, a, b)
  BY <1>3
<1> HIDE DEF g, ph
<1>7. /\ ph \in Phases /\ ph \in Elements(g.phases) /\ Elements(Tail(g.phases)) \subseteq Elements(g.phases)
  <2>1. g.phases \in Seq(Phases)
    BY <1>4 DEF Frames
  <2> QED BY <1>6, <2>1, TailOK
<1>8. ph.body \in Seq(Statements) /\ \A s \in Elements(ph.body) : From(s, g.def, "check")
  <2>1. ph.body \in Seq(Statements)
    BY <1>1, <1>7, PhaseOK
  <2>2. ph \in Of(g.def, {"check"})
    BY <1>1, <1>4, <1>7 DEF Deciding, Of
  <2> QED BY <2>1, <2>2 DEF From
<1>9. /\ f \in Frames /\ f.def = Top.def /\ f.stage = Top.stage /\ f.phases = Tail(Top.phases)
      /\ f.rest = ph.body /\ f.acted = Top.acted /\ f.last = Top.last
  BY <1>1, <1>4, <1>8, OpenedOn
<1>10. /\ q \in Frames /\ q.def = g.def /\ q.stage = g.stage /\ q.phases = Tail(g.phases)
       /\ q.rest = ph.body /\ q.acted = g.acted /\ q.last = g.last
  BY <1>4, <1>6, <1>8, OpenedOn
<1> HIDE DEF f, q
<1>11. Alike(mode, host, f, q)
  <2>1. Onward(mode, host, f, q)
    BY <1>6, <1>9, <1>10
  <2> QED BY <1>4, <1>7, <1>8, <1>9, <1>10, <2>1, BothDecideOn
<1> QED BY <1>1, <1>2, <1>3, <1>5, <1>9, <1>10, <1>11, BothGoOn

LEMMA ObserveFollows ==
  ASSUME EvalInv, ChecksOnlyAsk, mode \in {"check", "status"},
         NEW d, NEW k, Ahead(d, k), Observe
  PROVE  Follows
<1> DEFINE ph == Head(Top.phases)
           f == [Top EXCEPT !.phases = Tail(@)]
<1>1. /\ ret = NoOutcome /\ Top.rest = <<>> /\ Top.phases # <<>> /\ ph.name = "observe"
  BY DEF Observe, Between, Busy
<1>2. Top.stage = "decide"
  BY <1>1, BetweenIs
<1>3. PICK e : /\ Ahead(e, k) /\ Still(host, e)
               /\ Move(host, e) = Advanced(host, e, e.stack[1])
               /\ e.stack[1].phases # <<>> /\ Head(e.stack[1].phases) = ph
               /\ \A p, q :
                    /\ p.def = Top.def /\ p.phases = Tail(Top.phases)
                    /\ q.phases = Tail(e.stack[1].phases)
                    => Onward(mode, host, p, q)
  BY <1>1, <1>2, Phased
<1>4. CASE Converged(host, ph.fields)
  <2>1. Leave(Already) /\ Move(host, e) = Left(e, Already)
    BY <1>1, <1>3, <1>4 DEF Observe, Advanced
  <2>2. Already \in Outcomes /\ Goes(Already) /\ Already # NoOutcome
    BY ConstantsOK, NotNothing DEF Goes
  <2>3. CASE k = 1
    BY <1>3, <2>1, <2>2, <2>3, RunLeaves
  <2>4. CASE k # 1
    BY <1>3, <2>1, <2>2, <2>4, BothLeave
  <2> QED BY <2>3, <2>4
<1>5. CASE ~Converged(host, ph.fields)
  <2> DEFINE g == e.stack[1]
             q == [g EXCEPT !.phases = Tail(@)]
  <2>1. SetTop(f) /\ ret' = NoOutcome /\ Move(host, e) = On(e, q)
    BY <1>1, <1>3, <1>5 DEF Observe, Advanced
  <2>2. /\ BothDecide(mode, host, Top, g) /\ g \in Frames /\ g.def = Top.def
        /\ g.stage = "decide" /\ g.last = Top.last /\ g.rest = Top.rest /\ Deciding(g)
        /\ Top \in Frames
    BY <1>2, <1>3, AheadTop, DecideIs
  <2>3. /\ g.phases # <<>>
        /\ \A a, b :
             a.def = Top.def /\ a.phases = Tail(Top.phases) /\ b.phases = Tail(g.phases)
             => Onward(mode, host, a, b)
    BY <1>3
  <2> HIDE DEF g, ph
  <2>4. Elements(Tail(g.phases)) \subseteq Elements(g.phases)
    <3>1. g.phases \in Seq(Phases)
      BY <2>2 DEF Frames
    <3> QED BY <2>3, <3>1, TailOK
  <2>5. /\ f \in Frames /\ f.def = Top.def /\ f.stage = Top.stage
        /\ f.phases = Tail(Top.phases) /\ f.rest = Top.rest /\ f.acted = Top.acted
        /\ f.last = Top.last
    BY <1>1, <2>2, SeenOn
  <2>6. /\ q \in Frames /\ q.def = g.def /\ q.stage = g.stage /\ q.phases = Tail(g.phases)
        /\ q.rest = g.rest /\ q.acted = g.acted /\ q.last = g.last
    BY <2>2, <2>3, SeenOn
  <2> HIDE DEF f, q
  <2>7. Alike(mode, host, f, q)
    <3>1. Onward(mode, host, f, q)
      BY <2>3, <2>5, <2>6
    <3>2. \A s \in Elements(q.rest) : From(s, g.def, "check")
      BY <2>2, <2>6 DEF Deciding
    <3> QED BY <2>2, <2>4, <2>5, <2>6, <3>1, <3>2, BothDecideOn
  <2> QED BY <1>2, <1>3, <2>1, <2>5, <2>6, <2>7, BothGoOn
<1> QED BY <1>4, <1>5

LEMMA NamedNone ==
  ASSUME NEW n \in Names, NEW names, Of(n, names) = {} PROVE Named(n, names) = <<>>
<1> DEFINE s == Named(n, names)
<1>1. s \in Seq(Phases) /\ Elements(s) = {}
  BY NamedOK
<1> HIDE DEF s
<1>2. Len(s) \in Nat /\ DOMAIN s = 1 .. Len(s)
  BY <1>1
<1>3. 1 \notin DOMAIN s
  BY <1>1 DEF Elements
<1>4. Len(s) = 0
  BY <1>2, <1>3
<1>5. s = <<>>
  BY <1>1, <1>4
<1> QED BY <1>5 DEF s

LEMMA QuestionHas ==
  ASSUME NEW n \in Names, Question(n)
  PROVE  /\ ~Observes(n) /\ ~Inert(n) /\ Named(n, {"preview"}) = <<>>
         /\ Named(n, {"apply"}) = <<>> /\ Defs[n].delegate = NoName
<1>1. Of(n, {"observe"}) = {} /\ Of(n, {"preview"}) = {}
  BY DEF Question, Of, Elements
<1>2. Named(n, {"observe"}) = <<>> /\ Named(n, {"preview"}) = <<>>
  BY <1>1, NamedNone
<1> QED BY <1>2, QuestionOK DEF Observes, Inert

(* The def that is handed over to is observed to hold.                     *)
LEMMA DelegateMet ==
  ASSUME EvalInv, ChecksOnlyAsk, NEW d, Ahead(d, 1), NEW n \in Names,
         NEW f, Call(n, f), NEW g \in Frames, g.stage = "delegated",
         Still(host, d), Move(host, d) = Entered(d, n, g),
         \E ph \in Of(n, {"observe"}) : Met(host, ph)
  PROVE  Follows
<1>1. /\ Here \in Configurations /\ Here.stack = stack /\ stack \in Seq(Frames)
      /\ d \in Configurations /\ d.stack # <<>> /\ Shadow(mode, host, Here, d, 1)
      /\ Walk(host, Current.def, d)
      /\ \A i \in 1 .. Len(stack) : i > 1 => stack[i].stage = "delegated"
  BY AheadTop
<1>2. Len(d.stack) = Len(stack) /\ \A i \in 1 .. Len(stack) : Alike(mode, host, stack[i], d.stack[i])
  BY <1>1 DEF Shadow
<1>3. CASE \E i \in DOMAIN stack : stack[i].def = n
  <2>1. Leave(Failure) /\ Failure.cat \in {"err", "fail"}
    BY <1>3, ConstantsOK DEF Call
  <2> QED BY <2>1, DoomedFail
<1>4. CASE ~\E i \in DOMAIN stack : stack[i].def = n
  <2> DEFINE q == Frame(n, "apply")
             e == Pushed(d, q, g)
  <2>1. ~\E i \in DOMAIN d.stack : d.stack[i].def = n
    <3>1. DOMAIN stack = 1 .. Len(stack) /\ DOMAIN d.stack = 1 .. Len(d.stack)
      BY <1>1 DEF Configurations
    <3>2. \A i \in 1 .. Len(stack) : d.stack[i].def = stack[i].def
      BY <1>2 DEF Alike
    <3> QED BY <1>2, <1>4, <3>1, <3>2
  <2>2. Move(host, d) = e
    BY <2>1 DEF Entered, Pushed
  <2>3. Finds(host, q) /\ q \in Frames
    <3>1. Deciding(q) /\ q.phases = Named(n, {"check", "observe"})
      BY FrameDecides
    <3>2. Elements(q.phases) = Of(n, {"check", "observe"})
      BY <3>1, NamedOK
    <3> HIDE DEF q
    <3>3. \E ph \in Elements(q.phases) : Met(host, ph)
      BY <3>2 DEF Of
    <3> QED BY <3>1, <3>3 DEF Finds, Deciding
  <2> HIDE DEF q
  <2>4. /\ e \in Configurations /\ Len(e.stack) = Len(d.stack) + 1
        /\ e.stack[1] = q /\ e.stack[2] = g /\ Len(d.stack) \in Nat \ {0}
        /\ \A i \in 3 .. Len(d.stack) + 1 : e.stack[i] = d.stack[i - 1]
    BY <1>1, <2>3, PushedOK
  <2>5. Walk(host, Current.def, e)
    BY <1>1, <2>2, WalkGoesOn
  <2> HIDE DEF e
  <2>6. e.stack # <<>>
    <3>1. e.stack \in Seq(Frames) /\ Len(e.stack) # 0
      BY <2>4 DEF Configurations
    <3> QED BY <3>1
  <2>7. ASSUME NEW i \in 1 .. Len(e.stack), i > 1 PROVE e.stack[i].stage = "delegated"
    <3>1. CASE i = 2
      BY <2>4, <3>1
    <3>2. CASE i # 2
      <4>1. i \in 3 .. Len(d.stack) + 1 /\ i - 1 \in 1 .. Len(stack) /\ i - 1 > 1
        BY <1>2, <2>4, <2>7, <3>2
      <4>2. stack[i - 1].stage = "delegated" /\ Alike(mode, host, stack[i - 1], d.stack[i - 1])
        BY <1>1, <1>2, <4>1
      <4>3. d.stack[i - 1].stage = "delegated"
        BY <4>2 DEF Alike, BothDecide, HasAsked, BothTry, BothWait
      <4> QED BY <2>4, <4>1, <4>3
    <3> QED BY <3>1, <3>2
  <2>8. Safe(host, Current.def)
    BY <2>3, <2>4, <2>5, <2>6, <2>7, MetEnds
  <2> QED BY <2>8 DEF Follows
<1> QED BY <1>3, <1>4

LEMMA DelegateFollows ==
  ASSUME EvalInv, ChecksOnlyAsk, mode \in {"check", "status"},
         NEW d, NEW k, Ahead(d, k), Delegate
  PROVE  Follows
<1> DEFINE n == Defs[Top.def].delegate
           f == [Top EXCEPT !.stage = "delegated"]
<1>1. /\ ret = NoOutcome /\ Top.rest = <<>> /\ Top.phases = <<>> /\ Top.stage = "decide"
      /\ n # NoName /\ Call(n, f)
  BY DEF Delegate, Undecided, Between, Busy
<1>2. Top \in Frames /\ Top.def \in Names /\ (k # 1 => Question(Top.def))
  BY AheadTop
<1>3. n \in Names /\ k = 1
  BY <1>1, <1>2, DefOK, QuestionOK
<1>4. PICK e : /\ Ahead(e, k) /\ e.stack[1].phases = <<>> /\ Still(host, e)
               /\ Move(host, e) = Advanced(host, e, e.stack[1])
  BY <1>1, Unphased
<1> DEFINE g == e.stack[1]
           q == [g EXCEPT !.stage = "delegated"]
<1>5. g \in Frames /\ g.def = Top.def
  BY <1>1, <1>4, DecideIs
<1>6. Move(host, e) = Entered(e, n, q)
  BY <1>1, <1>4, <1>5 DEF Advanced
<1> HIDE DEF g
<1>7. f \in Frames /\ f.def = Top.def /\ f.stage = "delegated"
  BY <1>2, DelegatedOn
<1>8. q \in Frames /\ q.def = g.def /\ q.stage = "delegated"
  BY <1>5, DelegatedOn
<1> HIDE DEF f, q, n
<1>9. Alike(mode, host, f, q)
  BY <1>5, <1>7, <1>8 DEF Alike, BothWait
<1>10. CASE \E ph \in Of(n, {"observe"}) : Met(host, ph)
  BY <1>1, <1>3, <1>4, <1>6, <1>8, <1>10, DelegateMet
<1>11. CASE ~\E ph \in Of(n, {"observe"}) : Met(host, ph)
  BY <1>1, <1>3, <1>4, <1>6, <1>7, <1>9, <1>11, BothEnter
<1> QED BY <1>10, <1>11

LEMMA ReportFollows ==
  ASSUME EvalInv, ChecksOnlyAsk, NEW d, NEW k, Ahead(d, k), Report
  PROVE  Follows
<1> DEFINE n == Top.def
           ph == Head(Named(n, {"observe"}))
<1>1. /\ ret = NoOutcome /\ Top.rest = <<>> /\ Top.phases = <<>> /\ Top.stage = "decide"
      /\ Defs[n].delegate = NoName /\ mode = "status"
      /\ Leave(IF ~Observes(n) THEN Outcome("ok", "action")
               ELSE IF Converged(host, ph.fields) THEN Outcome("ok", NoTag)
               ELSE Outcome("would", NoTag))
  BY DEF Report, DecidesItself, Undecided, Between, Busy
<1>2. n \in Names /\ (k # 1 => Question(n))
  BY AheadTop
<1>3. /\ Outcome("ok", "action") \in Outcomes /\ Outcome("ok", NoTag) \in Outcomes
      /\ Outcome("ok", "action").cat = "ok" /\ Outcome("ok", "action").tag = "action"
      /\ Outcome("ok", NoTag).cat = "ok" /\ Outcome("would", NoTag).cat = "would"
  BY NameAssumption, OutcomeOK
<1>4. Goes(Outcome("ok", "action")) /\ Goes(Outcome("ok", NoTag)) /\ Outcome("would", NoTag) # NoOutcome
  BY <1>3, NotNothing DEF Goes
<1>5. CASE ~Observes(n) /\ k = 1
  BY <1>1, <1>3, <1>4, <1>5, DoomedLeave DEF Goes
<1>6. CASE Observes(n)
  <2>1. k = 1
    BY <1>2, <1>6, QuestionHas
  <2>2. ph \in Of(n, {"observe"})
    <3> DEFINE s == Named(n, {"observe"})
    <3>1. s \in Seq(Phases) /\ Elements(s) = Of(n, {"observe"}) /\ s # <<>>
      BY <1>2, <1>6, NamedOK DEF Observes
    <3> HIDE DEF s
    <3>2. Head(s) \in Elements(s)
      BY <3>1, TailOK
    <3> QED BY <3>1, <3>2 DEF s
  <2>3. ~Converged(host, ph.fields)
    <3>1. Onward(mode, host, Top, d.stack[1])
      BY <1>1, DecideIs
    <3>2. ~Met(host, ph)
      BY <1>1, <2>2, <3>1 DEF Onward
    <3> QED BY <2>2, <3>2 DEF Met, Of
  <2>4. Leave(Outcome("would", NoTag))
    BY <1>1, <1>6, <2>3
  <2> QED BY <1>3, <1>4, <2>1, <2>4, DoomedLeave
<1>7. CASE k # 1
  <2>1. Question(n)
    BY <1>2, <1>7
  <2>2. Leave(Outcome("ok", "action"))
    BY <1>1, <1>2, <2>1, QuestionHas
  <2>3. PICK e : /\ Ahead(e, k) /\ e.stack[1].phases = <<>> /\ Still(host, e)
                 /\ Move(host, e) = Advanced(host, e, e.stack[1])
    BY <1>1, Unphased
  <2>4. e.stack[1].def = n
    BY <1>1, <2>3, DecideIs
  <2>5. Move(host, e) = Left(e, Outcome("ok", NoTag))
    BY <1>2, <2>1, <2>3, <2>4, QuestionHas DEF Advanced
  <2> QED BY <1>3, <1>4, <1>7, <2>2, <2>3, <2>5, BothLeave
<1> QED BY <1>5, <1>6, <1>7

LEMMA ForeseeFollows ==
  ASSUME EvalInv, ChecksOnlyAsk, AppliesOnce, NEW d, NEW k, Ahead(d, k), Foresee
  PROVE  Follows
<1> DEFINE n == Top.def
<1>1. /\ ret = NoOutcome /\ Top.rest = <<>> /\ Top.phases = <<>> /\ Top.stage = "decide"
      /\ Defs[n].delegate = NoName /\ mode = "check"
  BY DEF Foresee, DecidesItself, Undecided, Between, Busy
<1>2. n \in Names /\ (k # 1 => Question(n)) /\ Top \in Frames
  BY AheadTop
<1>3. PICK e : /\ Ahead(e, k) /\ e.stack[1].phases = <<>> /\ Still(host, e)
               /\ Move(host, e) = Advanced(host, e, e.stack[1])
  BY <1>1, Unphased
<1> DEFINE g == e.stack[1]
<1>4. g \in Frames /\ g.def = n /\ g.stage = "decide" /\ g.rest = <<>> /\ g.last = Top.last
  BY <1>1, <1>3, DecideIs
<1>5. CASE Inert(n)
  <2> DEFINE body == LastOf(Named(n, {"apply"})).body
             f == [Top EXCEPT !.stage = "try", !.acted = FALSE, !.rest = body]
             q == [g EXCEPT !.stage = "apply", !.acted = FALSE, !.rest = body]
  <2>1. k = 1 /\ Named(n, {"apply"}) # <<>>
    BY <1>2, <1>5, QuestionHas DEF Inert
  <2>2. SetTop(f) /\ ret' = NoOutcome
    BY <1>1, <1>5 DEF Foresee
  <2>3. LastOf(Named(n, {"apply"})) = Head(Named(n, {"apply"}))
    BY <1>2, <2>1, OneApply
  <2>4. Move(host, e) = On(e, q)
    BY <1>1, <1>3, <1>4, <2>1, <2>3 DEF Advanced
  <2>5. body \in Seq(Statements)
    BY <1>2, <2>1, EndsOfNamed
  <2>6. g.phases = <<>>
    BY <1>3
  <2> HIDE DEF body, g
  <2>7. /\ f \in Frames /\ f.def = n /\ f.stage = "try" /\ f.phases = <<>> /\ f.rest = body
        /\ f.acted = FALSE /\ f.last = Top.last
    BY <1>1, <1>2, <2>5 DEF Frames, Stages
  <2>8. /\ q \in Frames /\ q.def = g.def /\ q.stage = "apply" /\ q.phases = <<>> /\ q.rest = body
        /\ q.acted = FALSE /\ q.last = g.last
    BY <1>4, <2>5, <2>6 DEF Frames, Stages
  <2> HIDE DEF f, q
  <2>9. Alike(mode, host, f, q)
    BY <1>4, <1>5, <2>7, <2>8 DEF Alike, BothTry
  <2> QED BY <1>3, <2>1, <2>2, <2>4, <2>7, <2>8, <2>9, BothGoOn
<1>6. CASE ~Inert(n)
  <2> DEFINE tag == NominalTag(n)
             ps == Named(n, {"preview"})
             v == [Outcome("would", tag) EXCEPT !.changed = TRUE]
             f == [Top EXCEPT !.stage = "preview", !.rest = <<>>, !.phases = ps, !.verdict = v]
  <2>1. SetTop(f) /\ ret' = NoOutcome
    BY <1>1, <1>6 DEF Foresee, Announce
  <2>2. tag \in Tags \cup {NoTag} /\ ps \in Seq(Phases)
    BY <1>2, NominalOK, NamedOK
  <2> HIDE DEF tag, ps
  <2>3. f \in Frames /\ f.def = n /\ f.stage = "preview" /\ f.phases = ps /\ f.rest = <<>>
    <3>1. v \in Outcomes
      BY <2>2, OutcomeOK
    <3> HIDE DEF v
    <3>2. <<>> \in Seq(Statements) /\ "preview" \in Stages
      BY DEF Stages
    <3> QED BY <1>2, <2>2, <3>1, <3>2 DEF Frames
  <2> HIDE DEF f
  <2>4. CASE k = 1
    <3>1. Overt(f)
      BY <2>3 DEF Overt
    <3> QED BY <1>3, <2>1, <2>3, <2>4, <3>1, DoomedTop
  <2>5. CASE k # 1
    <3>1. ps = <<>>
      BY <1>2, <2>5, QuestionHas DEF ps
    <3>2. Alike(mode, host, f, g)
      BY <1>3, <1>4, <2>3, <3>1 DEF Alike, HasAsked
    <3> QED BY <1>1, <1>3, <2>1, <2>3, <2>5, <3>2, OneGoesOn
  <2> QED BY <2>4, <2>5
<1> QED BY <1>5, <1>6

LEMMA PreviewOverFollows ==
  ASSUME EvalInv, ChecksOnlyAsk, NEW d, NEW k, Ahead(d, k), PreviewOver
  PROVE  Follows
<1> DEFINE g == d.stack[1]
           s == Outcome("ok", NoTag)
<1>1. Top.stage = "preview" /\ ret = NoOutcome /\ Leave(Top.verdict)
  BY DEF PreviewOver, Between, Busy
<1>2. HasAsked(Top, g) /\ k # 1
  BY <1>1, BetweenIs
<1>3. /\ Top.def \in Names /\ Question(Top.def) /\ FrameOK(Top) /\ d.ret = NoOutcome
      /\ Head(d.stack) = g /\ g.def = Top.def
  BY <1>1, <1>2, AheadTop DEF Alike
<1>4. Top.verdict \in Outcomes /\ Goes(Top.verdict)
  <2>1. Top.verdict \in Outcomes /\ Top.verdict.cat = "would"
    BY <1>1, <1>3 DEF FrameOK, TypeFrame
  <2> QED BY <2>1, NotNothing DEF Goes
<1>5. s \in Outcomes /\ Goes(s)
  <2>1. s \in Outcomes /\ s.cat = "ok"
    BY OutcomeOK
  <2> HIDE DEF s
  <2> QED BY <2>1, NotNothing DEF Goes
<1>6. Still(host, d) /\ Move(host, d) = Advanced(host, d, g)
  BY <1>2, <1>3, MoveIs DEF HasAsked
<1>7. Move(host, d) = Left(d, s)
  BY <1>2, <1>3, <1>6, QuestionHas DEF Advanced, HasAsked
<1> HIDE DEF s
<1> QED BY <1>1, <1>2, <1>4, <1>5, <1>6, <1>7, BothLeave

LEMMA AheadFollows ==
  ASSUME EvalInv, ChecksOnlyAsk, AppliesOnce, CountsOnlyReturn, mode \in {"check", "status"},
         NEW d, NEW k, Ahead(d, k), Step, ~End
  PROVE  Follows
<1>1. ~Act
  BY DEF Act
<1> QED BY <1>1, SkipFollows, TestFollows, SetFollows, WriteFollows, SyncFollows, CallFollows,
           StopFollows, ReturnFollows, OpenPhaseFollows, ObserveFollows, DelegateFollows,
           ReportFollows, ForeseeFollows, PreviewOverFollows, ReceiveFollows
        DEF Step

-----------------------------------------------------------------------------
(* What is said to change is not taken back.                               *)
Onwards ==
  \/ \E f \in Frames : Overt(f) /\ SetTop(f) /\ ret' = NoOutcome
  \/ \E r : Leave(r) /\ r.cat \in {"err", "fail", "would"}
  \/ \E p \in Frames, f \in Frames :
       Overt(f) /\ stack' = <<p, f>> \o Tail(stack) /\ ret' = NoOutcome

LEMMA FailureOnwards ==
  ASSUME Leave(Failure) PROVE Onwards
<1>1. Failure.cat \in {"err", "fail", "would"}
  BY ConstantsOK
<1> QED BY <1>1 DEF Onwards

LEMMA ContinueOnwards ==
  ASSUME Top \in Frames, Overt(Top), Top.rest # <<>>, ret = NoOutcome,
         NEW last \in Lasts, NEW acted \in BOOLEAN, Continue(last, acted)
  PROVE  Onwards
<1> DEFINE f == Past(Top, last, acted)
<1>1. SetTop(f) /\ ret' = NoOutcome
  BY DEF Continue, Past
<1>2. f \in Frames /\ f.stage = Top.stage /\ f.acted = (Top.acted \/ acted)
  <2>1. Tail(Top.rest) \in Seq(Statements) /\ (Top.acted \/ acted) \in BOOLEAN
    BY DEF Frames
  <2> QED BY <2>1 DEF Past, Frames
<1> HIDE DEF f
<1>3. Overt(f)
  BY <1>2 DEF Overt
<1> QED BY <1>1, <1>2, <1>3 DEF Onwards

LEMMA StatementOnwards ==
  ASSUME EvalInv, Overt(Top), Test \/ Set \/ Write \/ Sync
  PROVE  Onwards
<1>1. Top \in Frames /\ ret = NoOutcome /\ Top.rest # <<>>
  <2>1. stack # <<>> /\ ret = NoOutcome /\ Top.rest # <<>>
    BY DEF Test, Set, Write, Sync, Due, Busy
  <2> QED BY <2>1, TopOK DEF FrameOK
<1>2. Leave(Failure) \/ \E last \in Lasts, acted \in BOOLEAN : Continue(last, acted)
  <2>1. /\ (IF InPlace THEN "0" ELSE "1") \in Lasts /\ (~InPlace) \in BOOLEAN
        /\ "summary" \in Lasts /\ "ok" \in Lasts /\ "err" \in Lasts /\ TRUE \in BOOLEAN
        /\ (IF host[Statement.path] = Statement.value THEN "ok" ELSE "err") \in Lasts
    BY DEF Lasts, InPlace
  <2>2. CASE Test
    BY <2>1, <2>2 DEF Test
  <2>3. CASE Set
    BY <2>1, <2>3 DEF Set
  <2>4. CASE Write
    BY <2>1, <2>4 DEF Write
  <2>5. CASE Sync
    BY <2>1, <2>5 DEF Sync
  <2> QED BY <2>2, <2>3, <2>4, <2>5
<1>3. ASSUME NEW last \in Lasts, NEW acted \in BOOLEAN, Continue(last, acted) PROVE Onwards
  BY <1>1, <1>3, ContinueOnwards
<1> QED BY <1>2, <1>3, FailureOnwards

LEMMA SkipOnwards ==
  ASSUME EvalInv, Overt(Top), SkipStatement
  PROVE  Onwards
<1> DEFINE f == [Top EXCEPT !.rest = Tail(@)]
<1>1. stack # <<>> /\ Top.rest # <<>> /\ SetTop(f) /\ ret' = NoOutcome
  BY DEF SkipStatement, Busy
<1>2. Top \in Frames
  BY <1>1, TopOK DEF FrameOK
<1>3. f \in Frames /\ f.stage = Top.stage /\ f.acted = Top.acted
  BY <1>1, <1>2, RestOn
<1> HIDE DEF f
<1>4. Overt(f)
  BY <1>3 DEF Overt
<1> QED BY <1>1, <1>3, <1>4 DEF Onwards

LEMMA CallOnwards ==
  ASSUME EvalInv, Overt(Top), CallDef
  PROVE  Onwards
<1> DEFINE n == Statement.def
           f == [Top EXCEPT !.rest = Tail(@)]
           p == Frame(n, mode)
<1>1. stack # <<>> /\ ret = NoOutcome /\ Top.rest # <<>> /\ Statement.op = "call" /\ Call(n, f)
  BY DEF CallDef, Due, Busy
<1>2. Top \in Frames /\ n \in Names /\ mode \in Modes
  <2>1. Statement \in Statements
    BY <1>1, StatementIsOK
  <2> QED BY <1>1, <2>1, TopOK, StatementOK DEF FrameOK, EvalInv, Calls
<1>3. f \in Frames /\ f.stage = Top.stage /\ f.acted = Top.acted
  BY <1>1, <1>2, RestOn
<1>4. p \in Frames
  BY <1>2, FrameIsOK DEF FrameOK
<1>5. Leave(Failure) \/ (stack' = <<p, f>> \o Tail(stack) /\ ret' = NoOutcome)
  BY <1>1 DEF Call
<1> HIDE DEF f, p
<1>6. Overt(f)
  BY <1>3 DEF Overt
<1> QED BY <1>3, <1>4, <1>5, <1>6, FailureOnwards DEF Onwards

LEMMA ReturnOnwards ==
  ASSUME EvalInv, Overt(Top), Return
  PROVE  Onwards
<1> DEFINE r == Outcome(Statement.cat, Statement.tag)
           t == IF r.cat = "ok" /\ r.tag # NoTag THEN r.tag ELSE NominalTag(Top.def)
           v == [Outcome("would", t) EXCEPT !.changed = TRUE]
           ps == Named(Top.def, {"preview"})
           f == [Top EXCEPT !.stage = "preview", !.rest = <<>>, !.phases = ps, !.verdict = v]
<1>1. stack # <<>> /\ ret = NoOutcome /\ Top.rest # <<>> /\ Statement.op = "return"
  BY DEF Return, Due, Busy
<1>2. Top \in Frames /\ Top.def \in Names /\ Statement \in Statements
  BY <1>1, TopOK, StatementIsOK DEF FrameOK
<1>3. CASE Top.stage = "preview"
  <2>1. Continue(Top.last, FALSE) /\ Top.last \in Lasts
    BY <1>2, <1>3 DEF Return, Frames
  <2> QED BY <1>1, <1>2, <2>1, ContinueOnwards
<1>4. CASE Top.stage = "try" /\ Top.acted
  <2>1. SetTop(f) /\ ret' = NoOutcome
    BY <1>1, <1>4 DEF Return, Announce
  <2>2. t \in Tags \cup {NoTag} /\ ps \in Seq(Phases)
    <3>1. r.tag \in Tags \cup {NoTag}
      BY <1>1, <1>2, StatementOK, OutcomeOK
    <3> HIDE DEF r
    <3> QED BY <1>2, <3>1, NominalOK, NamedOK
  <2> HIDE DEF t, ps
  <2>3. v \in Outcomes
    BY <2>2, OutcomeOK
  <2>4. <<>> \in Seq(Statements) /\ "preview" \in Stages
    BY DEF Stages
  <2> HIDE DEF v
  <2>5. f \in Frames /\ f.stage = "preview"
    BY <1>2, <2>2, <2>3, <2>4 DEF Frames
  <2> HIDE DEF f
  <2>6. Overt(f)
    BY <2>5 DEF Overt
  <2> QED BY <2>1, <2>5, <2>6 DEF Onwards
<1> QED BY <1>3, <1>4 DEF Overt

LEMMA BetweenOnwards ==
  ASSUME EvalInv, Overt(Top), OpenPhase \/ Observe \/ PreviewOver
  PROVE  Onwards
<1>1. stack # <<>> /\ ret = NoOutcome
  BY DEF OpenPhase, Observe, PreviewOver, Between, Busy
<1>2. FrameOK(Top) /\ Top \in Frames
  BY <1>1, TopOK DEF FrameOK
<1>3. CASE OpenPhase
  <2> DEFINE body == Head(Top.phases).body
             f == [Top EXCEPT !.rest = body, !.phases = Tail(@)]
  <2>1. Top.phases # <<>> /\ Head(Top.phases).name # "observe" /\ SetTop(f) /\ ret' = NoOutcome
    BY <1>1, <1>3 DEF OpenPhase
  <2>2. body \in Seq(Statements)
    <3>1. Top.phases \in Seq(Phases)
      BY <1>2 DEF Frames
    <3>2. Head(Top.phases) \in Phases
      BY <2>1, <3>1, TailOK
    <3> QED BY <2>1, <3>2, PhaseOK
  <2> HIDE DEF body
  <2>3. f \in Frames /\ f.stage = Top.stage /\ f.acted = Top.acted
    BY <1>2, <2>1, <2>2, OpenedOn
  <2> HIDE DEF f
  <2>4. Overt(f)
    BY <2>3 DEF Overt
  <2> QED BY <2>1, <2>3, <2>4 DEF Onwards
<1>4. CASE Observe
  <2>1. Top.phases # <<>> /\ Head(Top.phases).name = "observe" /\ Top.phases \in Seq(Phases)
    BY <1>2, <1>4 DEF Observe, Frames
  <2>2. Head(Top.phases) \in Elements(Top.phases)
    BY <2>1, TailOK
  <2>3. Top.stage = "decide"
    BY <1>2, <2>1, <2>2 DEF FrameOK, Of
  <2> QED BY <2>3 DEF Overt
<1>5. CASE PreviewOver
  <2>1. Leave(Top.verdict) /\ Top.verdict.cat = "would"
    BY <1>2, <1>5 DEF PreviewOver, FrameOK
  <2> QED BY <2>1 DEF Onwards
<1> QED BY <1>3, <1>4, <1>5

LEMMA OvertStep ==
  ASSUME EvalInv, Overt(Top), Step, ~End, ret = NoOutcome
  PROVE  Onwards
<1>1. ~Receive /\ ~Delegate /\ ~Report /\ ~Foresee /\ ~Act
  BY DEF Receive, Delegate, Report, Foresee, Act, DecidesItself, Undecided, Overt
<1>2. Stop => Onwards
  BY FailureOnwards DEF Stop
<1> QED BY <1>1, <1>2, StatementOnwards, SkipOnwards, CallOnwards, ReturnOnwards, BetweenOnwards
        DEF Step

(* What is overt at frame i, and below it only delegations.                *)
OvertAt(s, i) ==
  i \in 1 .. Len(s) /\ Overt(s[i]) /\ \A j \in 1 .. Len(s) : j > i => s[j].stage = "delegated"

LEMMA OvertTop ==
  ASSUME NEW s \in Seq(Frames), s # <<>>, NEW i, OvertAt(s, i),
         NEW f \in Frames, i = 1 => Overt(f)
  PROVE  OvertAt(<<f>> \o Tail(s), i)
<1> DEFINE t == <<f>> \o Tail(s)
<1>1. /\ Len(t) = Len(s) /\ t[1] = f /\ \A j \in 2 .. Len(s) : t[j] = s[j]
      /\ Len(s) \in Nat \ {0}
  BY ReplaceTop
<1> HIDE DEF t
<1>2. i \in 1 .. Len(s) /\ Overt(s[i]) /\ \A j \in 1 .. Len(s) : j > i => s[j].stage = "delegated"
  BY DEF OvertAt
<1>3. Overt(t[i])
  <2>1. i = 1 \/ i \in 2 .. Len(s)
    BY <1>1, <1>2
  <2> QED BY <1>1, <1>2, <2>1
<1>4. ASSUME NEW j \in 1 .. Len(t), j > i PROVE t[j].stage = "delegated"
  <2>1. j \in 2 .. Len(s) /\ j \in 1 .. Len(s)
    BY <1>1, <1>2, <1>4
  <2> QED BY <1>1, <1>2, <1>4, <2>1
<1> QED BY <1>1, <1>2, <1>3, <1>4 DEF OvertAt, t

LEMMA OvertTail ==
  ASSUME NEW s \in Seq(Frames), s # <<>>, NEW i, OvertAt(s, i), i # 1
  PROVE  OvertAt(Tail(s), i - 1)
<1> DEFINE t == Tail(s)
<1>1. Len(t) = Len(s) - 1 /\ \A j \in 1 .. Len(s) - 1 : t[j] = s[j + 1]
  BY TailOK
<1>2. Len(s) \in Nat \ {0}
  OBVIOUS
<1> HIDE DEF t
<1>3. i \in 1 .. Len(s) /\ Overt(s[i]) /\ \A j \in 1 .. Len(s) : j > i => s[j].stage = "delegated"
  BY DEF OvertAt
<1>4. i - 1 \in 1 .. Len(s) - 1 /\ i - 1 + 1 = i
  BY <1>2, <1>3
<1>5. ASSUME NEW j \in 1 .. Len(t), j > i - 1 PROVE t[j].stage = "delegated"
  <2>1. j \in 1 .. Len(s) - 1 /\ j + 1 \in 1 .. Len(s) /\ j + 1 > i
    BY <1>1, <1>2, <1>3, <1>5
  <2> QED BY <1>1, <1>3, <2>1
<1> QED BY <1>1, <1>3, <1>4, <1>5 DEF OvertAt, t

LEMMA OvertPushed ==
  ASSUME NEW s \in Seq(Frames), s # <<>>, NEW i, OvertAt(s, i),
         NEW p \in Frames, NEW f \in Frames, i = 1 => Overt(f)
  PROVE  OvertAt(<<p, f>> \o Tail(s), i + 1)
<1> DEFINE t == <<p, f>> \o Tail(s)
<1>1. /\ Len(t) = Len(s) + 1 /\ t[2] = f /\ \A j \in 3 .. Len(s) + 1 : t[j] = s[j - 1]
  BY PushTop
<1>2. Len(s) \in Nat \ {0}
  OBVIOUS
<1> HIDE DEF t
<1>3. i \in 1 .. Len(s) /\ Overt(s[i]) /\ \A j \in 1 .. Len(s) : j > i => s[j].stage = "delegated"
  BY DEF OvertAt
<1>4. i + 1 \in 1 .. Len(t) /\ (i = 1 \/ (i + 1 \in 3 .. Len(s) + 1 /\ i + 1 - 1 = i))
  BY <1>1, <1>2, <1>3
<1>5. Overt(t[i + 1])
  <2>1. CASE i = 1
    <3>1. i + 1 = 2
      BY <2>1
    <3> QED BY <1>1, <2>1, <3>1
  <2>2. CASE i # 1
    BY <1>1, <1>3, <1>4, <2>2
  <2> QED BY <2>1, <2>2
<1>6. ASSUME NEW j \in 1 .. Len(t), j > i + 1 PROVE t[j].stage = "delegated"
  <2>1. j \in 3 .. Len(s) + 1 /\ j - 1 \in 1 .. Len(s) /\ j - 1 > i
    BY <1>1, <1>2, <1>3, <1>6
  <2> QED BY <1>1, <1>3, <2>1
<1> QED BY <1>4, <1>5, <1>6 DEF OvertAt, t

LEMMA OvertDooms ==
  ASSUME NEW i, OvertAt(stack', i) PROVE Doomed'
BY DEF OvertAt, Doomed

LEMMA DoomedStays ==
  ASSUME EvalInv, Doomed, Step, ~End
  PROVE  Doomed'
<1>1. StepKind
  BY EveryStep
<1>2. stack # <<>> /\ stack \in Seq(Frames) /\ Top = stack[1] /\ Top \in Frames
  <2>1. stack # <<>>
    BY <1>1 DEF StepKind, Moves, Leaves, Pushes
  <2> QED BY <2>1, TopOK DEF EvalInv, Calls, FrameOK
<1>3. ret # NoOutcome => Receive
  BY DEF Step, SkipStatement, Test, Set, Write, Sync, CallDef, Stop, Return, OpenPhase, Observe,
         Delegate, Report, Foresee, PreviewOver, Act, DecidesItself, Undecided, Between, Due, Busy
<1>4. CASE ret.cat \in {"err", "fail"}
  <2>1. Leave(ret)
    BY <1>3, <1>4, ConstantsOK DEF Receive
  <2> QED BY <1>4, <2>1 DEF Leave, Doomed
<1>5. CASE /\ ret # NoOutcome /\ (ret.cat # "ok" \/ ret.tag = "action")
           /\ \A i \in 1 .. Len(stack) : stack[i].stage = "delegated"
  <2>1. 1 \in 1 .. Len(stack) /\ Len(stack) \in Nat
    BY <1>2
  <2>2. Leave(ret)
    BY <1>2, <1>3, <1>5, <2>1 DEF Receive
  <2>3. ret' = ret /\ stack' = Tail(stack)
    BY <2>2 DEF Leave
  <2>4. Len(stack') = Len(stack) - 1 /\ \A i \in 1 .. Len(stack) - 1 : stack'[i] = stack[i + 1]
    BY <1>2, <2>3, TailOK
  <2>5. ASSUME NEW i \in 1 .. Len(stack') PROVE stack'[i].stage = "delegated"
    <3>1. i \in 1 .. Len(stack) - 1 /\ i + 1 \in 1 .. Len(stack)
      BY <2>1, <2>4
    <3> QED BY <1>5, <2>4, <3>1
  <2> QED BY <1>5, <2>3, <2>5 DEF Doomed
<1>6. ASSUME NEW i, OvertAt(stack, i) PROVE Doomed'
  <2>1. CASE i = 1
    <3>1. Overt(Top)
      BY <1>2, <1>6, <2>1 DEF OvertAt
    <3>2. CASE ret = NoOutcome
      <4>1. Onwards
        BY <3>1, <3>2, OvertStep
      <4>2. ASSUME NEW f \in Frames, Overt(f), SetTop(f) PROVE Doomed'
        <5>1. stack' = <<f>> \o Tail(stack)
          BY <4>2 DEF SetTop
        <5> QED BY <1>2, <1>6, <4>2, <5>1, OvertTop, OvertDooms
      <4>3. ASSUME NEW r, Leave(r), r.cat \in {"err", "fail", "would"} PROVE Doomed'
        <5>1. ret' = r /\ stack' = Tail(stack) /\ r # NoOutcome
          BY <4>3, NotNothing DEF Leave
        <5>2. \A j \in 1 .. Len(stack') : stack'[j].stage = "delegated"
          <6>1. Len(stack') = Len(stack) - 1 /\ \A j \in 1 .. Len(stack) - 1 : stack'[j] = stack[j + 1]
            BY <1>2, <5>1, TailOK
          <6>2. Len(stack) \in Nat
            BY <1>2
          <6>3. ASSUME NEW j \in 1 .. Len(stack') PROVE stack'[j].stage = "delegated"
            <7>1. j \in 1 .. Len(stack) - 1 /\ j + 1 \in 1 .. Len(stack) /\ j + 1 > 1
              BY <6>1, <6>2
            <7> QED BY <1>6, <2>1, <6>1, <7>1 DEF OvertAt
          <6> QED BY <6>3
        <5> QED BY <4>3, <5>1, <5>2 DEF Doomed
      <4>4. ASSUME NEW p \in Frames, NEW f \in Frames, Overt(f), stack' = <<p, f>> \o Tail(stack)
            PROVE  Doomed'
        BY <1>2, <1>6, <4>4, OvertPushed, OvertDooms
      <4> QED BY <4>1, <4>2, <4>3, <4>4 DEF Onwards
    <3>3. CASE ret # NoOutcome /\ ret.cat \notin {"err", "fail"}
      <4> DEFINE acted == ret.changed
                 f == [Top EXCEPT !.acted = @ \/ acted, !.last = "called"]
      <4>1. Top.stage # "delegated"
        BY <3>1 DEF Overt
      <4>2. SetTop(f)
        BY <1>3, <3>3, <4>1 DEF Receive
      <4>3. acted \in BOOLEAN
        BY DEF EvalInv, Calls, Outcomes
      <4> HIDE DEF acted
      <4>4. f \in Frames /\ f.stage = Top.stage /\ f.acted = (Top.acted \/ acted)
        <5>1. (Top.acted \/ acted) \in BOOLEAN /\ "called" \in Lasts
          BY <1>2, <4>3 DEF Frames, Lasts
        <5> QED BY <1>2, <5>1 DEF Frames
      <4> HIDE DEF f
      <4>5. Overt(f) /\ stack' = <<f>> \o Tail(stack)
        BY <3>1, <4>2, <4>4 DEF Overt, SetTop
      <4> QED BY <1>2, <1>6, <4>4, <4>5, OvertTop, OvertDooms
    <3> QED BY <1>4, <3>2, <3>3
  <2>2. CASE i # 1
    <3>1. ASSUME NEW f, Moves(f) PROVE Doomed'
      <4>1. f \in Frames /\ stack' = <<f>> \o Tail(stack)
        BY <3>1 DEF Moves, SetTop, FrameOK
      <4> QED BY <1>2, <1>6, <2>2, <4>1, OvertTop, OvertDooms
    <3>2. ASSUME NEW r, Leaves(r) PROVE Doomed'
      <4>1. stack' = Tail(stack)
        BY <3>2 DEF Leaves, Leave
      <4> QED BY <1>2, <1>6, <2>2, <4>1, OvertTail, OvertDooms
    <3>3. ASSUME NEW n, NEW f, Pushes(n, f) PROVE Doomed'
      <4> DEFINE p == Frame(n, mode)
      <4>1. f \in Frames /\ n \in Names /\ mode \in Modes /\ stack' = <<p, f>> \o Tail(stack)
        BY <3>3 DEF Pushes, FrameOK, EvalInv, Calls
      <4>2. p \in Frames
        BY <4>1, FrameIsOK DEF FrameOK
      <4> HIDE DEF p
      <4> QED BY <1>2, <1>6, <2>2, <4>1, <4>2, OvertPushed, OvertDooms
    <3> QED BY <1>1, <3>1, <3>2, <3>3 DEF StepKind
  <2> QED BY <2>1, <2>2
<1>7. CASE \E i \in 1 .. Len(stack) : OvertAt(stack, i)
  BY <1>6, <1>7
<1> QED BY <1>4, <1>5, <1>7 DEF Doomed, OvertAt

(* Neither a dry run nor a status touches the host.                        *)
LEMMA OnlyLooks ==
  ASSUME EvalInv, PhasesOnlyLook, ChecksOnlyAsk, mode \in {"check", "status"}, Step, ~End
  PROVE  host' = host /\ mode' = mode /\ log' = log
<1>1. Quiet
  BY EveryStep DEF StepKind
<1>2. CASE mode = "check"
  BY <1>1, <1>2 DEF Quiet
<1>3. CASE mode = "status"
  <2>1. CASE Set \/ Write \/ Sync
    <3>1. stack # <<>> /\ Top.rest # <<>> /\ Statement.op \in {"set", "write", "sync"}
      BY <2>1 DEF Set, Write, Sync, Due, Busy
    <3>2. /\ Top.stage # "delegated" /\ From(Statement, Top.def, Source(Top.stage))
          /\ FrameOK(Top) /\ Top.def \in Names
      BY <3>1, StatementIsOK, TopOK
    <3>3. Top.stage = "decide"
      BY <1>3, <3>2 DEF FrameOK, TypeFrame, Stages
    <3>4. From(Statement, Top.def, "check")
      BY <3>2, <3>3 DEF Source
    <3>5. Statement.op \notin {"set", "write", "sync"}
      BY <3>2, <3>4, ConventionsOK
    <3> QED BY <3>1, <3>5
  <2>2. CASE ~(Set \/ Write \/ Sync)
    <3>1. host' = host
      BY <2>2 DEF Step, Receive, SkipStatement, Test, CallDef, Stop, Return, OpenPhase, Observe,
                  Delegate, Report, Foresee, PreviewOver, Act
    <3> QED BY <1>1, <3>1 DEF Quiet
  <2> QED BY <2>1, <2>2
<1> QED BY <1>2, <1>3

-----------------------------------------------------------------------------
(* What a dry run or a status says ok of is left alone by a run.           *)
Foretelling == mode # "apply" => Doomed \/ Safe(host, Current.def) \/ \E d, k : Ahead(d, k)
OkKept(i) ==
  Over(i) /\ log[i].mode # "apply" /\ log[i].outcome.cat = "ok" /\ log[i].outcome.tag # "action"
  => Safe(log[i].after, log[i].def)
Conventions == PhasesOnlyLook /\ ChecksOnlyAsk /\ AppliesOnce /\ CountsOnlyReturn
Foretold ==
  Conventions =>
    /\ InCall => Foretelling
    /\ \A i \in DOMAIN log : OkKept(i)

LEMMA AskingModes ==
  ASSUME NEW m \in Modes, m # "apply" PROVE m \in {"check", "status"}
BY DefAssumption

(* At the start a run is as far; a status knows what it observes.          *)
LEMMA BeginForetells ==
  ASSUME EvalInv, Conventions, NEW n \in Names, NEW m \in Modes, Begin(n, m)
  PROVE  Foretelling'
<1> DEFINE f == Frame(n, m)
           g == Frame(n, "apply")
           c == Start(n)
           h == host
<1>1. /\ ret' = NoOutcome /\ mode' = m /\ host' = h /\ stack' = <<f>> /\ Current'.def = n
  BY BeginsRecord
<1>2. /\ Deciding(g) /\ g \in Frames /\ g.def = n /\ g.phases = Named(n, {"check", "observe"})
  BY FrameDecides DEF Deciding
<1>3. f.def = n /\ f.stage = "decide" /\ f \in Frames
  BY FrameIsOK DEF FrameOK
<1>4. c = [stack |-> <<g>>, ret |-> NoOutcome] /\ Here' = [stack |-> <<f>>, ret |-> NoOutcome]
  BY <1>1 DEF Start, Here
<1>5. Walk(h, n, c)
  BY WalkBegins
<1>6. ASSUME NEW ph \in Of(n, {"observe"}), Met(h, ph) PROVE Safe(h, n)
  <2>1. ph \in Elements(g.phases)
    BY <1>2, NamedOK DEF Of
  <2>2. Finds(h, g)
    BY <1>2, <1>6, <2>1 DEF Finds
  <2> HIDE DEF g
  <2>3. c \in Configurations /\ c.stack = <<g>>
    BY <1>2, <1>4, ConstantsOK DEF Configurations
  <2> HIDE DEF c
  <2>4. Len(c.stack) = 1 /\ c.stack[1] = g /\ c.stack # <<>>
    BY <2>3
  <2>5. \A i \in 1 .. Len(c.stack) : i > 1 => c.stack[i].stage = "delegated"
    BY <2>4
  <2> HIDE DEF h
  <2> QED BY <1>5, <2>2, <2>3, <2>4, <2>5, MetEnds DEF Conventions
<1>7. ASSUME m # "apply", \A ph \in Of(n, {"observe"}) : ~Met(h, ph)
      PROVE  Shadow(m, h, Here', c, 1)
  <2>1. m \in {"check", "status"}
    BY <1>7, AskingModes
  <2>2. Alike(m, h, f, g)
    BY <1>7, <2>1, BeginAlike
  <2> DEFINE b == Here'
  <2> HIDE DEF f, g, c
  <2>3. c \in Configurations /\ c.stack = <<g>> /\ c.ret = NoOutcome
    BY <1>2, <1>4, ConstantsOK DEF Configurations
  <2>4. b.stack = <<f>> /\ b.ret = NoOutcome
    BY <1>4
  <2> HIDE DEF b
  <2>5. Len(c.stack) = 1 /\ c.stack[1] = g /\ Len(b.stack) = 1 /\ b.stack[1] = f
    BY <2>3, <2>4
  <2>6. Place(f, 1, 1)
    BY <1>3 DEF Place
  <2>7. \A i \in 1 .. Len(b.stack) : Alike(m, h, b.stack[i], c.stack[i]) /\ Place(b.stack[i], i, 1)
    <3>1. \A i \in 1 .. Len(b.stack) : i = 1
      BY <2>5
    <3> QED BY <2>2, <2>5, <2>6, <3>1
  <2>8. 1 \in 1 .. Len(b.stack)
    BY <2>5
  <2>9. Shadow(m, h, b, c, 1)
    BY <2>3, <2>4, <2>5, <2>7, <2>8 DEF Shadow
  <2> QED BY <2>9 DEF b
<1>8. CASE \E ph \in Of(n, {"observe"}) : Met(h, ph)
  <2>1. Safe(h, n)
    BY <1>6, <1>8
  <2> QED BY <1>1, <2>1 DEF Foretelling
<1>9. CASE \A ph \in Of(n, {"observe"}) : ~Met(h, ph)
  <2> HIDE DEF c
  <2>1. ASSUME m # "apply" PROVE (\E d, k : Ahead(d, k))'
    <3>1. Ahead(c, 1)'
      BY <1>1, <1>5, <1>7, <1>9, <2>1 DEF Ahead
    <3> QED BY <3>1
  <2> QED BY <1>1, <2>1 DEF Foretelling
<1> QED BY <1>8, <1>9

LEMMA StepForetells ==
  ASSUME EvalInv, Conventions, Foretelling, Step, ~End
  PROVE  Foretelling'
<1>1. StepKind
  BY EveryStep
<1>2. mode' = mode /\ log' = log /\ mode \in Modes
  BY <1>1 DEF StepKind, Quiet, EvalInv, Calls
<1>3. CASE mode = "apply"
  BY <1>2, <1>3 DEF Foretelling
<1>4. CASE mode # "apply"
  <2>1. mode \in {"check", "status"}
    BY <1>2, <1>4, AskingModes
  <2>2. host' = host /\ Current' = Current
    BY <1>2, <2>1, OnlyLooks DEF Conventions, Current
  <2>3. CASE Doomed
    BY <2>3, DoomedStays DEF Foretelling
  <2>4. CASE Safe(host, Current.def)
    BY <2>2, <2>4 DEF Foretelling
  <2>5. ASSUME NEW d, NEW k, Ahead(d, k) PROVE Foretelling'
    <3>1. Follows
      BY <2>1, <2>5, AheadFollows DEF Conventions
    <3>2. ASSUME NEW e, NEW j, Walk(host, Current.def, e), Shadow(mode, host, Here', e, j)
          PROVE  Ahead(e, j)'
      BY <1>2, <2>2, <3>2 DEF Ahead
    <3>3. CASE Doomed'
      BY <3>3 DEF Foretelling
    <3>4. CASE Safe(host, Current.def)
      BY <2>4, <3>4
    <3>5. CASE \E e, j : Walk(host, Current.def, e) /\ Shadow(mode, host, Here', e, j)
      <4>1. (\E e, j : Ahead(e, j))'
        BY <3>2, <3>5
      <4> QED BY <4>1 DEF Foretelling
    <3> QED BY <3>1, <3>3, <3>4, <3>5 DEF Follows
  <2> QED BY <1>4, <2>3, <2>4, <2>5 DEF Foretelling
<1> QED BY <1>3, <1>4

(* With an ok at its end, it was not doomed.                               *)
LEMMA EndForetells ==
  ASSUME EvalInv, Conventions, Foretelling, End, mode # "apply",
         ret.cat = "ok", ret.tag # "action"
  PROVE  Safe(host, Current.def)
<1>1. stack = <<>> /\ Len(stack) = 0
  BY DEF End
<1>2. ~Doomed
  BY <1>1 DEF Doomed
<1>3. ASSUME NEW d, NEW k, Ahead(d, k) PROVE FALSE
  BY <1>1, <1>3, AheadTop
<1> QED BY <1>2, <1>3 DEF Foretelling

LEMMA ForetoldKeeps ==
  ASSUME EvalInv, Foretold, [Next]_vars PROVE Foretold'
<1> SUFFICES ASSUME Conventions
             PROVE  /\ InCall' => Foretelling'
                    /\ \A i \in DOMAIN log' : OkKept(i)'
  <2>1. Conventions' <=> Conventions
    BY DEF Conventions, PhasesOnlyLook, ChecksOnlyAsk, AppliesOnce, CountsOnlyReturn
  <2> QED BY <2>1 DEF Foretold
<1>1. /\ InCall => Foretelling
      /\ \A i \in DOMAIN log : OkKept(i)
  BY DEF Foretold
<1>2. CASE UNCHANGED vars
  <2>1. host' = host /\ mode' = mode /\ stack' = stack /\ ret' = ret /\ log' = log
    BY <1>2 DEF vars
  <2>2. InCall' = InCall /\ Current' = Current /\ Here' = Here
    BY <2>1 DEF InCall, Current, Here
  <2>3. Doomed' <=> Doomed
    BY <2>1 DEF Doomed
  <2>4. Foretelling => Foretelling'
    BY <2>1, <2>2, <2>3 DEF Foretelling, Ahead
  <2>5. \A i \in DOMAIN log : OkKept(i)' <=> OkKept(i)
    BY <2>1 DEF OkKept, Over
  <2> QED BY <1>1, <2>1, <2>2, <2>4, <2>5
<1>3. CASE Step /\ ~End
  <2>1. InCall /\ log' = log
    BY <1>3, EveryStep, StaysInCall
  <2>2. Foretelling'
    BY <1>1, <1>3, <2>1, StepForetells
  <2>3. \A i \in DOMAIN log : OkKept(i)' <=> OkKept(i)
    BY <2>1 DEF OkKept, Over
  <2> QED BY <1>1, <2>1, <2>2, <2>3
<1>4. CASE \E n \in Names, m \in Modes : Begin(n, m)
  <2>1. PICK n \in Names, m \in Modes : Begin(n, m)
    BY <1>4
  <2>2. Foretelling'
    BY <2>1, BeginForetells
  <2>3. /\ DOMAIN log = 1 .. Len(log) /\ DOMAIN log' = 1 .. Len(log) + 1 /\ Len(log) \in Nat
        /\ \A i \in 1 .. Len(log) : log'[i] = log[i]
        /\ log'[Len(log) + 1].outcome = NoOutcome
    <3>1. log'[Len(log) + 1] = Current' /\ Current'.outcome = NoOutcome
      BY <2>1, BeginsRecord
    <3> QED BY <2>1, <3>1, BeginsRecord
  <2>4. ASSUME NEW i \in DOMAIN log' PROVE OkKept(i)'
    <3>1. CASE i = Len(log) + 1
      BY <2>3, <3>1 DEF OkKept, Over
    <3>2. CASE i \in 1 .. Len(log)
      <4>1. OkKept(i) /\ log'[i] = log[i] /\ i \in DOMAIN log
        BY <1>1, <2>3, <3>2
      <4> QED BY <4>1 DEF OkKept, Over
    <3> QED BY <2>3, <3>1, <3>2
  <2> QED BY <2>2, <2>4
<1>5. CASE End
  <2> DEFINE k == Len(log)
  <2>1. /\ InCall /\ ~InCall' /\ DOMAIN log = 1 .. k /\ DOMAIN log' = 1 .. k
        /\ \A i \in 1 .. k : i # k => log'[i] = log[i]
        /\ Current' = log'[k] /\ Current.mode = mode /\ Current'.mode = mode
        /\ Current'.def = Current.def /\ Current'.after = host /\ Current'.outcome = ret
    BY <1>5, EndsRecord
  <2> HIDE DEF k
  <2>2. ASSUME NEW i \in DOMAIN log' PROVE OkKept(i)'
    <3>1. CASE i = k
      <4>1. ASSUME log'[i].mode # "apply", log'[i].outcome.cat = "ok", log'[i].outcome.tag # "action"
            PROVE  Safe(log'[i].after, log'[i].def)
        <5>1. mode # "apply" /\ ret.cat = "ok" /\ ret.tag # "action"
          BY <2>1, <3>1, <4>1
        <5>2. Safe(host, Current.def)
          BY <1>1, <1>5, <2>1, <5>1, EndForetells
        <5>3. log'[i].after = host /\ log'[i].def = Current.def
          BY <2>1, <3>1
        <5> QED BY <5>2, <5>3
      <4> QED BY <4>1 DEF OkKept
    <3>2. CASE i # k
      <4>1. OkKept(i) /\ log'[i] = log[i] /\ i \in DOMAIN log
        BY <1>1, <2>1, <2>2, <3>2
      <4> QED BY <4>1 DEF OkKept, Over
    <3> QED BY <3>1, <3>2
  <2> QED BY <2>1, <2>2
<1> QED BY <1>2, <1>3, <1>4, <1>5 DEF Next

(* What a dry run or a status can still say ok of, a run would leave alone *)
(* as far as it has come.                                                  *)
THEOREM ForetoldInvariant == Spec => []Foretold
<1>1. Init => Foretold
  BY DEF Init, Foretold, InCall
<1>2. EvalInv /\ Foretold /\ [Next]_vars => Foretold'
  BY ForetoldKeeps
<1> QED BY <1>1, <1>2, EvalInvariant, PTL DEF Spec

(* A dry run or a status that says ok is kept: the same call leaves the    *)
(* host as it is, whatever the checks of the two say, and primitives that  *)
(* fail in either (ADR-0041; eval.go:156).  A status has nothing to say of *)
(* an action (eval.go:441).                                                *)
THEOREM OkIsKept ==
  ASSUME PhasesOnlyLook, ChecksOnlyAsk, WouldIsDerived, AppliesOnce, CountsOnlyReturn
  PROVE  Spec => []OkForetellsNoChange
<1>1. RunInv /\ Foretold => OkForetellsNoChange
  <2> SUFFICES ASSUME RunInv, Foretold, NEW i \in DOMAIN log, Repeated(i),
                      log[i].mode # "apply", log[i + 1].mode = "apply",
                      log[i].outcome.cat = "ok", log[i].outcome.tag # "action"
               PROVE  Untouched(i + 1)
    BY DEF OkForetellsNoChange
  <2>1. Over(i) /\ Over(i + 1) /\ i + 1 \in DOMAIN log /\ log[i + 1].def = log[i].def
    BY DEF Repeated, Over
  <2>2. OkKept(i)
    BY DEF Foretold, Conventions
  <2>3. Safe(log[i].after, log[i].def)
    BY <2>1, <2>2 DEF OkKept
  <2>4. log[i + 1].before = log[i].after
    BY <2>1 DEF RunInv, Alone
  <2> QED BY <2>1, <2>3, <2>4 DEF RunInv, Walked
<1> QED BY <1>1, RunInvariant, ForetoldInvariant, PTL
=============================================================================
