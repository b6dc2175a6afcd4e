-------------------------- MODULE StepRunnerProofs --------------------------
(***************************************************************************)
(* What a job does with its errors and its captures, for every plan, every *)
(* mode and every outcome of its instructions.                             *)
(***************************************************************************)
EXTENDS StepRunner, TLAPS

HasParent(n) == \E p \in Nodes : n \in Below(plan, p)
Kids(p) == Range(Body(p))
Active(n) == st[n] # "idle"
Forks(b) == b = Root \/ IsBranch(b)

(* A step that has begun is in the sequence its parent has chosen.         *)
Begun ==
  /\ st[Root] # "done"
  /\ \A n \in Nodes :
       /\ st[n] = "idle" => taken[n] = "none" /\ ~stopped[n]
       /\ st[n] = "open" => taken[n] # "none"
       /\ taken[n] # "none" => plan[n].kind # "call"
       /\ taken[n] \in {"else", "preview"} => plan[n].kind = "if"
  /\ \A n \in Nodes \ {Root} : Active(n) =>
       /\ HasParent(n) /\ Root \in Path(n)
       /\ taken[Parent(n)] # "none" /\ n \in Kids(Parent(n))

(* One after the other, but for branches.                                  *)
InOrder ==
  \A p \in Nodes : plan[p].kind # "parallel" =>
    \A i, j \in DOMAIN Body(p) :
      j < i /\ Active(Body(p)[i]) => st[Body(p)[j]] = "done"

(* A sequence was halted by an error in it, and nothing of it goes on.     *)
Stops ==
  \A p \in Nodes : stopped[p] =>
    /\ plan[p].kind # "parallel"
    /\ \A n \in Kids(p) : st[n] # "open"
    /\ \E n \in Kids(p) : Erred(n)

(* What is done was halted or has done all its steps, and says so.         *)
Closed ==
  \A p \in Nodes : st[p] = "done" /\ taken[p] # "none" =>
    /\ stopped[p] \/ \A n \in Kids(p) : st[n] = "done"
    /\ result[p].cat = Category(p)

(* An error that did not halt its sequence is one that the next step, an   *)
(* `if`, is about to take a branch for, or has taken one for.              *)
Handled(n) ==
  /\ Deferred(n) /\ HasNext(n)
  /\ plan[NextOf(n)].kind = "if" /\ plan[NextOf(n)].ref = plan[n].bind
  /\ \/ /\ st[NextOf(n)] = "idle"
        /\ \/ plan[NextOf(n)].else # <<>>
           \/ Truth(Lookup(scope, result, NextOf(n), plan[n].bind), plan[NextOf(n)])
     \/ taken[NextOf(n)] \in {"then", "preview"}
     \/ taken[NextOf(n)] = "else" /\ plan[NextOf(n)].else # <<>>

Errors ==
  \A n \in Nodes \ {Root} :
    Erred(n) /\ ~IsBranch(n) => stopped[Parent(n)] \/ Handled(n)

(* What is captured is a result that is there, of a step in the branches   *)
(* around the place where it is seen.                                      *)
Around(w, n) == {b \in Path(w) : IsBranch(b)} \subseteq Path(n)
Scopes ==
  /\ \A o \in Nodes, x \in Names : scope[o][x] # Nobody =>
       st[scope[o][x]] = "done" /\ Around(scope[o][x], o)
  /\ \A n \in Nodes : decider[n] # Nobody => Around(decider[n], n)

(* What is being run at the same time is in different branches.            *)
Apart ==
  \A p, q \in Nodes : st[p] = "open" /\ st[q] = "open" =>
    p \in Path(q) \/ q \in Path(p) \/ Separate(p, q)

Verdict ==
  [error  |-> FALSE,
   errs   |-> {IF CaughtStep(n) THEN "caught" ELSE "plain" :
                 n \in {m \in Listed : result[m].cat = "err"}},
   halted |-> stopped[Root]]

Phases ==
  /\ phase = "start" => \A n \in Nodes : st[n] = "idle"
  /\ phase = "running" => st[Root] = "open"
  /\ phase = "over" =>
       \/ /\ \A n \in Nodes : st[n] = "idle"
          /\ response \in Responses /\ (response.error \/ response.halted)
       \/ /\ RunsOut(Root) /\ \A n \in Nodes \ {Root} : st[n] # "open"
          /\ response = Verdict

RunnerInv ==
  /\ plan \in Plans /\ mode \in Modes
  /\ TypeOK /\ Begun /\ InOrder /\ Stops /\ Closed /\ Errors /\ Scopes /\ Apart /\ Phases

-----------------------------------------------------------------------------
LEMMA PlanOK ==
  ASSUME plan \in Plans
  PROVE  /\ plan \in [Nodes -> Steps] /\ plan[Root].kind = "as" /\ Root \in Nodes
         /\ IsTree(plan)
         /\ \A n \in Nodes : /\ plan[n] \in Steps
                             /\ plan[n].then \in Seq(Nodes) /\ plan[n].else \in Seq(Nodes)
                             /\ Below(plan, n) \subseteq Nodes
<1>1. plan \in [Nodes -> Steps] /\ plan[Root].kind = "as" /\ Root \in Nodes /\ IsTree(plan)
  BY PlanAssumption
<1>2. ASSUME NEW n \in Nodes
      PROVE  plan[n] \in Steps /\ plan[n].then \in Seq(Nodes) /\ plan[n].else \in Seq(Nodes)
  BY <1>1 DEF Steps
<1>3. ASSUME NEW n \in Nodes PROVE Below(plan, n) \subseteq Nodes
  BY <1>2 DEF Below, Range
<1> QED BY <1>1, <1>2, <1>3

LEMMA ParentOK ==
  ASSUME plan \in Plans, NEW n, HasParent(n)
  PROVE  /\ Parent(n) \in Nodes /\ n \in Below(plan, Parent(n))
         /\ n \in Nodes /\ n # Root
         /\ \A p \in Nodes : n \in Below(plan, p) => p = Parent(n)
<1>1. Parent(n) \in Nodes /\ n \in Below(plan, Parent(n))
  BY DEF Parent, HasParent
<1> QED BY <1>1, PlanOK DEF IsTree

LEMMA RootOK == plan \in Plans => ~HasParent(Root)
BY ParentOK

(* No circle: a set of steps has one whose parent is not in it.            *)
LEMMA TopOf ==
  ASSUME plan \in Plans, NEW s \in SUBSET Nodes, s # {}
  PROVE  \E n \in s : HasParent(n) => Parent(n) \notin s
<1>1. PICK n \in s : \A m \in s : n \notin Below(plan, m)
  BY PlanOK DEF IsTree
<1> QED BY <1>1, ParentOK

(* The path of a step is the smallest set with it and the parents of what  *)
(* is in it.                                                               *)
Upward(s) == \A k \in s : HasParent(k) => Parent(k) \in s
Least(n) == {k \in Nodes : \A s \in SUBSET Nodes : n \in s /\ Upward(s) => k \in s}

LEMMA LeastOK ==
  ASSUME plan \in Plans, NEW n \in Nodes
  PROVE  Least(n) = IF HasParent(n) THEN {n} \cup Least(Parent(n)) ELSE {n}
<1>1. CASE ~HasParent(n)
  <2>1. Upward({n}) /\ {n} \in SUBSET Nodes
    BY <1>1 DEF Upward
  <2> QED BY <1>1, <2>1 DEF Least
<1>2. CASE HasParent(n)
  <2> DEFINE q == Parent(n)
  <2>1. q \in Nodes
    BY <1>2, ParentOK
  <2>2. \A s \in SUBSET Nodes : n \in s /\ Upward(s) => q \in s
    BY <1>2 DEF Upward
  <2>3. {n} \cup Least(q) \subseteq Least(n)
    BY <2>2 DEF Least
  <2>4. Upward({n} \cup Least(q))
    <3>1. q \in Least(q)
      BY <2>1 DEF Least
    <3>2. ASSUME NEW k \in Least(q), HasParent(k) PROVE Parent(k) \in Least(q)
      <4>1. Parent(k) \in Nodes
        BY <3>2, ParentOK
      <4>2. \A s \in SUBSET Nodes : q \in s /\ Upward(s) => Parent(k) \in s
        BY <3>2 DEF Least, Upward
      <4> QED BY <4>1, <4>2 DEF Least
    <3> QED BY <1>2, <3>1, <3>2 DEF Upward
  <2>5. Least(n) \subseteq {n} \cup Least(q)
    <3>1. {n} \cup Least(q) \in SUBSET Nodes
      BY DEF Least
    <3> QED BY <2>4, <3>1 DEF Least
  <2> QED BY <1>2, <2>3, <2>5
<1> QED BY <1>1, <1>2

LEMMA PathStep ==
  ASSUME plan \in Plans, NEW n \in Nodes
  PROVE  Path(n) = IF HasParent(n) THEN {n} \cup Path(Parent(n)) ELSE {n}
<1> DEFINE Unfolds(f) ==
      f = [m \in Nodes |-> IF HasParent(m) THEN {m} \cup f[Parent(m)] ELSE {m}]
           up == CHOOSE f : Unfolds(f)
<1>1. Unfolds([m \in Nodes |-> Least(m)])
  BY LeastOK, ParentOK
<1>2. Unfolds(up)
  BY <1>1
<1>3. \A m : Path(m) = up[m]
  BY DEF Path, HasParent
<1> HIDE DEF up
<1> QED BY <1>2, <1>3, ParentOK

(* What holds of every step whose parent it does not hold of holds of none.*)
LEMMA Upwards ==
  ASSUME plan \in Plans, NEW s \in SUBSET Nodes,
         \A n \in s : HasParent(n) /\ Parent(n) \in s
  PROVE  s = {}
BY TopOf

(* Whatever is closed under parents has the path of each of its members.   *)
LEMMA PathInside ==
  ASSUME plan \in Plans, NEW s \in SUBSET Nodes, NEW n \in s,
         \A k \in s : HasParent(k) => Parent(k) \in s
  PROVE  Path(n) \subseteq s
<1> DEFINE bad == {k \in s : ~(Path(k) \subseteq s)}
<1>1. \A k \in bad : HasParent(k) /\ Parent(k) \in bad
  BY PathStep
<1>2. bad = {}
  BY <1>1, Upwards
<1> QED BY <1>2

LEMMA PathOK ==
  ASSUME plan \in Plans, NEW n \in Nodes
  PROVE  /\ n \in Path(n) /\ Path(n) \subseteq Nodes
         /\ HasParent(n) => Path(Parent(n)) \subseteq Path(n) /\ Parent(n) \in Path(n)
         /\ \A m \in Path(n) \ {n} : HasParent(n) /\ m \in Path(Parent(n))
<1>1. \A m \in Nodes : m \in Path(m)
  BY PathStep
<1>2. Path(n) \subseteq Nodes
  BY PathInside, ParentOK
<1>3. HasParent(n) => Parent(n) \in Nodes
  BY ParentOK
<1> QED BY <1>1, <1>2, <1>3, PathStep

LEMMA PathTransitive ==
  ASSUME plan \in Plans, NEW n \in Nodes, NEW m \in Path(n)
  PROVE  Path(m) \subseteq Path(n)
<1> DEFINE bad == {k \in Nodes : m \in Path(k) /\ ~(Path(m) \subseteq Path(k))}
<1>1. ASSUME NEW k \in bad PROVE HasParent(k) /\ Parent(k) \in bad
  <2>1. HasParent(k) /\ m \in Path(Parent(k)) /\ Path(Parent(k)) \subseteq Path(k)
    BY PathOK
  <2> QED BY <2>1, ParentOK
<1>2. bad = {}
  BY <1>1, Upwards
<1> QED BY <1>2

LEMMA PathAcyclic ==
  ASSUME plan \in Plans, NEW n \in Nodes, HasParent(n)
  PROVE  n \notin Path(Parent(n)) /\ Parent(n) # n
<1> DEFINE round == {k \in Path(n) : n \in Path(k)}
<1> SUFFICES ASSUME n \in Path(Parent(n)) PROVE FALSE
  BY PathOK, ParentOK
<1>1. ASSUME NEW k \in round PROVE HasParent(k) /\ Parent(k) \in round
  <2>1. k \in Nodes
    BY PathOK
  <2>2. HasParent(k) /\ n \in Path(Parent(k))
    BY <2>1, PathOK
  <2>3. Parent(k) \in Path(k)
    BY <2>1, <2>2, PathOK
  <2> QED BY <2>1, <2>2, <2>3, PathTransitive
<1>2. round = {}
  BY <1>1, Upwards, PathOK
<1> QED BY <1>2, PathOK

LEMMA PathAntisymmetric ==
  ASSUME plan \in Plans, NEW n \in Nodes, NEW m \in Path(n), n \in Path(m)
  PROVE  m = n
<1> SUFFICES ASSUME m # n PROVE FALSE
  OBVIOUS
<1>1. HasParent(n) /\ m \in Path(Parent(n)) /\ Parent(n) \in Nodes
  BY PathOK, ParentOK
<1>2. n \in Path(Parent(n))
  BY <1>1, PathTransitive
<1> QED BY <1>1, <1>2, PathAcyclic

LEMMA PathChain ==
  ASSUME plan \in Plans, NEW n \in Nodes, NEW a \in Path(n), NEW b \in Path(n)
  PROVE  a \in Path(b) \/ b \in Path(a)
<1> DEFINE bad == {k \in Nodes : a \in Path(k) /\ b \in Path(k)}
<1> SUFFICES ASSUME a \notin Path(b), b \notin Path(a) PROVE FALSE
  OBVIOUS
<1>1. ASSUME NEW k \in bad PROVE HasParent(k) /\ Parent(k) \in bad
  <2>1. a # k /\ b # k
    OBVIOUS
  <2> QED BY <2>1, PathOK, ParentOK
<1>2. bad = {}
  BY <1>1, Upwards
<1> QED BY <1>2

(* Below m on the path of n there is a child of m.                         *)
LEMMA PathChild ==
  ASSUME plan \in Plans, NEW n \in Nodes, NEW m \in Path(n), m # n
  PROVE  \E c \in Path(n) : HasParent(c) /\ Parent(c) = m
<1> DEFINE bad == {k \in Nodes : /\ m \in Path(k) /\ m # k
                                 /\ ~\E c \in Path(k) : HasParent(c) /\ Parent(c) = m}
<1>1. ASSUME NEW k \in bad PROVE HasParent(k) /\ Parent(k) \in bad
  <2>1. HasParent(k) /\ m \in Path(Parent(k)) /\ Path(Parent(k)) \subseteq Path(k)
        /\ k \in Path(k) /\ Parent(k) \in Nodes
    BY PathOK, ParentOK
  <2> QED BY <2>1
<1>2. bad = {}
  BY <1>1, Upwards
<1> QED BY <1>2

-----------------------------------------------------------------------------
(* The innermost branch around a step.                                     *)
LEMMA OwnerOK ==
  ASSUME plan \in Plans, NEW n \in Nodes, Root \in Path(n)
  PROVE  /\ Owner(n) \in Path(n) /\ Forks(Owner(n))
         /\ \A b \in Path(n) : Forks(b) => b \in Path(Owner(n))
<1> DEFINE owners(k) == {b \in Path(k) : Forks(b)}
           bad == {k \in Nodes : /\ Root \in Path(k)
                                 /\ ~\E b \in owners(k) : owners(k) \subseteq Path(b)}
<1>1. ASSUME NEW k \in bad PROVE HasParent(k) /\ Parent(k) \in bad
  <2>1. ~Forks(k)
    <3>1. k \in Path(k)
      BY PathOK
    <3> QED BY <3>1
  <2>2. HasParent(k) /\ Root \in Path(Parent(k)) /\ Parent(k) \in Nodes
    BY <2>1, PathOK, ParentOK DEF Forks
  <2>3. owners(k) = owners(Parent(k))
    BY <2>1, <2>2, PathStep
  <2> QED BY <2>2, <2>3
<1>2. bad = {}
  BY <1>1, Upwards
<1>3. \E b \in owners(n) : owners(n) \subseteq Path(b)
  BY <1>2
<1>4. Owner(n) = CHOOSE b \in owners(n) : owners(n) \subseteq Path(b)
  BY DEF Owner, Forks
<1> QED BY <1>3, <1>4

LEMMA TreeKept ==
  ASSUME plan' = plan
  PROVE  \A n : /\ HasParent(n)' = HasParent(n) /\ Parent(n)' = Parent(n)
                /\ Path(n)' = Path(n) /\ IsBranch(n)' = IsBranch(n)
                /\ Owner(n)' = Owner(n)
<1>1. \A n : HasParent(n)' = HasParent(n) /\ Parent(n)' = Parent(n)
  BY DEF HasParent, Parent
<1>2. \A n : Path(n)' = Path(n)
  BY <1>1 DEF Path
<1>3. \A n : IsBranch(n)' = IsBranch(n)
  BY <1>1 DEF IsBranch
<1>4. \A n : Owner(n)' = Owner(n)
  BY <1>2, <1>3 DEF Owner
<1> QED BY <1>1, <1>2, <1>3, <1>4

LEMMA BodyOK ==
  ASSUME plan \in Plans, NEW p \in Nodes
  PROVE  /\ Body(p) \in Seq(Nodes) /\ DOMAIN Body(p) \subseteq Nat
         /\ \A i \in DOMAIN Body(p) : Body(p)[i] \in Kids(p)
         /\ \A n \in Kids(p) : /\ n \in Nodes /\ HasParent(n) /\ Parent(n) = p
                               /\ \E i \in DOMAIN Body(p) : Body(p)[i] = n
         /\ \A i, j \in DOMAIN Body(p) : Body(p)[i] = Body(p)[j] => i = j
<1>1. Body(p) \in Seq(Nodes) /\ Kids(p) \subseteq Below(plan, p)
  BY PlanOK DEF Body, Kids, Below
<1>2. \A n \in Kids(p) : n \in Nodes /\ HasParent(n) /\ Parent(n) = p
  BY <1>1, PlanOK, ParentOK DEF HasParent
<1>3. \A i, j \in DOMAIN Body(p) : Body(p)[i] = Body(p)[j] => i = j
  BY PlanOK DEF Body, IsTree
<1> QED BY <1>1, <1>2, <1>3 DEF Kids, Range

(* Where a step stands in the sequence it is in, and what follows it.      *)
LEMMA IndexOK ==
  ASSUME plan \in Plans, NEW n, HasParent(n), n \in Kids(Parent(n))
  PROVE  /\ Index(n) \in DOMAIN Body(Parent(n)) /\ Body(Parent(n))[Index(n)] = n
         /\ HasNext(n) => /\ ~IsBranch(n) /\ Index(n) + 1 \in DOMAIN Body(Parent(n))
                          /\ NextOf(n) \in Kids(Parent(n)) /\ NextOf(n) \in Nodes
                          /\ HasParent(NextOf(n)) /\ Parent(NextOf(n)) = Parent(n)
                          /\ NextOf(n) # n /\ ~IsBranch(NextOf(n))
<1>1. Parent(n) \in Nodes
  BY ParentOK
<1>2. Index(n) \in DOMAIN Body(Parent(n)) /\ Body(Parent(n))[Index(n)] = n
  BY <1>1, BodyOK DEF Index
<1>3. ASSUME HasNext(n) PROVE Index(n) + 1 \in DOMAIN Body(Parent(n))
  BY <1>1, <1>2, <1>3, BodyOK DEF HasNext
<1>4. ASSUME HasNext(n)
      PROVE  /\ NextOf(n) \in Kids(Parent(n)) /\ NextOf(n) \in Nodes
             /\ HasParent(NextOf(n)) /\ Parent(NextOf(n)) = Parent(n)
             /\ NextOf(n) # n
  <2>1. NextOf(n) = Body(Parent(n))[Index(n) + 1]
    BY DEF NextOf
  <2>2. Index(n) + 1 # Index(n)
    BY <1>1, <1>2, BodyOK
  <2> QED BY <1>1, <1>2, <1>3, <1>4, <2>1, <2>2, BodyOK
<1>5. HasNext(n) => ~IsBranch(n)
  BY DEF HasNext
<1>6. HasNext(n) => ~IsBranch(NextOf(n))
  BY <1>4, <1>5, ParentOK DEF IsBranch
<1> QED BY <1>2, <1>3, <1>4, <1>5, <1>6

-----------------------------------------------------------------------------
(* What a step of the job is: a call of runStep begins a sequence of its   *)
(* own, or returns.                                                        *)
DueIn(n, p) ==
  /\ st[n] = "idle" /\ st[p] = "open"
  /\ p \in Nodes /\ n \in Nodes \ {Root} /\ HasParent(n) /\ Parent(n) = p
  /\ n \in Kids(p) /\ Root \in Path(n) /\ taken[p] # "none"
  /\ \/ plan[p].kind = "parallel"
     \/ /\ ~stopped[p]
        /\ \A i, j \in DOMAIN Body(p) : Body(p)[i] = n /\ j < i => st[Body(p)[j]] = "done"

LEMMA DueOK ==
  ASSUME plan \in Plans, Begun, NEW n, Due(n)
  PROVE  DueIn(n, Parent(n))
<1>1. PICK p \in Nodes : /\ st[p] = "open"
                         /\ \E i \in DOMAIN Body(p) :
                              /\ Body(p)[i] = n
                              /\ \/ plan[p].kind = "parallel"
                                 \/ /\ ~stopped[p]
                                    /\ \A j \in 1 .. i - 1 : st[Body(p)[j]] = "done"
  BY DEF Due
<1>2. PICK i \in DOMAIN Body(p) :
        /\ Body(p)[i] = n
        /\ plan[p].kind = "parallel" \/ (~stopped[p] /\ \A j \in 1 .. i - 1 : st[Body(p)[j]] = "done")
  BY <1>1
<1>3. n \in Kids(p) /\ n \in Nodes /\ HasParent(n) /\ Parent(n) = p /\ n # Root
  BY <1>2, BodyOK, ParentOK
<1>4. Root \in Path(n)
  <2>1. CASE p = Root
    BY <1>3, <2>1, PathOK
  <2>2. CASE p # Root
    BY <1>1, <1>3, <2>2, PathOK DEF Begun, Active
  <2> QED BY <2>1, <2>2
<1>5. ASSUME NEW k \in DOMAIN Body(p), NEW j \in DOMAIN Body(p), Body(p)[k] = n, j < k
      PROVE  j \in 1 .. i - 1
  <2>1. k = i
    BY <1>2, <1>5, BodyOK
  <2>2. DOMAIN Body(p) = 1 .. Len(Body(p)) /\ Len(Body(p)) \in Nat
    <3>1. Body(p) \in Seq(Nodes)
      BY BodyOK
    <3> QED BY <3>1
  <2> QED BY <1>5, <2>1, <2>2
<1> QED BY <1>1, <1>2, <1>3, <1>4, <1>5 DEF DueIn, Begun, Due

LEMMA OnlyWhileRunning ==
  ASSUME plan \in Plans, Begun, Phases, TypeOK, NEW n \in Nodes, StepOf(n)
  PROVE  phase = "running" /\ n # Root
<1>1. CASE Due(n)
  <2>1. DueIn(n, Parent(n))
    BY <1>1, DueOK
  <2>2. plan[Root].kind = "as"
    BY PlanOK
  <2>3. ~(RunsOut(Root) /\ \A m \in Nodes \ {Root} : st[m] # "open")
    <3>1. SUFFICES ASSUME RunsOut(Root), Parent(n) = Root PROVE FALSE
      BY <2>1 DEF DueIn
    <3> QED BY <2>1, <2>2, <3>1 DEF DueIn, RunsOut, Kids
  <2> QED BY <2>1, <2>3 DEF Phases, DueIn, TypeOK
<1>2. CASE Close(n)
  <2>1. n # Root /\ st[n] = "open"
    BY <1>2 DEF Close, RunsOut
  <2> QED BY <2>1 DEF Phases, TypeOK
<1> QED
  BY <1>1, <1>2 DEF StepOf, Call, CallBreaks, As, Fork, IfCall, IfRef, IfBreaks

DecidedBy(n) ==
  \/ decider' = decider
  \/ \E w \in Nodes : /\ decider' = [decider EXCEPT ![n] = w]
                      /\ \/ w = n
                         \/ plan[n].ref \in Names /\ w = scope[Owner(n)][plan[n].ref]

Closing(n, r) ==
  /\ r \in Results
  /\ Returns(n, r, scope')
  /\ UNCHANGED taken
  /\ \/ /\ Due(n)
        /\ scope' = scope \/ (scope' = Capture(n) /\ plan[n].kind = "call")
        /\ plan[n].kind = "if" => r.cat = "err"
        /\ DecidedBy(n)
     \/ /\ RunsOut(n)
        /\ r.cat = Category(n)
        /\ UNCHANGED <<scope, decider>>

Forking(n) ==
  /\ plan[n].kind = "parallel"
  /\ scope' = [o \in Nodes |->
       IF o \in Range(plan[n].then) THEN scope[Owner(n)] ELSE scope[o]]

Opening(n, branch) ==
  /\ Due(n)
  /\ Opens(n, branch)
  /\ branch \in {"then", "else", "preview"}
  /\ plan[n].kind # "call"
  /\ branch \in {"else", "preview"} => plan[n].kind = "if"
  /\ plan[n].kind = "if" /\ plan[n].ref # NoName =>
       \/ branch = "preview"
       \/ branch = IF Truth(Lookup(scope, result, n, plan[n].ref), plan[n])
                   THEN "then" ELSE "else"
  /\ scope' = scope \/ Forking(n)
  /\ DecidedBy(n)

LEMMA OutcomesOK ==
  /\ Outcomes \subseteq Results
  /\ Err(AnyTag) \in Results /\ Err(AnyTag).cat = "err"
  /\ \A p : /\ [Ok EXCEPT !.cat = Category(p)] \in Results
            /\ [Ok EXCEPT !.cat = Category(p)].cat = Category(p)
<1>1. ASSUME NEW o \in Outcomes PROVE o \in Results
  <2>1. CASE o \in {Err(t) : t \in Tags}
    <3>1. PICK t \in Tags : o = Err(t)
      BY <2>1
    <3>2. o = [cat |-> "err", tag |-> t, changed |-> FALSE]
      BY <3>1 DEF Err
    <3> QED BY <3>2 DEF Results
  <2>2. CASE \E c \in BOOLEAN : o = [Ok EXCEPT !.changed = c]
    BY <2>2 DEF Results, Ok
  <2>3. CASE \E c \in BOOLEAN : o = [Ok EXCEPT !.cat = "would", !.changed = c]
    <3>1. PICK c \in BOOLEAN : o = [Ok EXCEPT !.cat = "would", !.changed = c]
      BY <2>3
    <3>2. o = [cat |-> "would", tag |-> AnyTag, changed |-> c]
      BY <3>1 DEF Ok
    <3> QED BY <3>2 DEF Results
  <2> QED BY <2>1, <2>2, <2>3 DEF Outcomes
<1>2. Err(AnyTag) \in Results /\ Err(AnyTag).cat = "err"
  BY DEF Results, Err
<1>3. ASSUME NEW p
      PROVE  /\ [Ok EXCEPT !.cat = Category(p)] \in Results
             /\ [Ok EXCEPT !.cat = Category(p)].cat = Category(p)
  <2>1. Category(p) \in {"ok", "err", "undetermined"}
    BY DEF Category
  <2> QED BY <2>1 DEF Ok, Results
<1> QED BY <1>1, <1>2, <1>3

LEMMA StepKinds ==
  ASSUME plan \in Plans, TypeOK, Begun, NEW n \in Nodes, StepOf(n)
  PROVE  (\E r : Closing(n, r)) \/ (\E branch : Opening(n, branch))
<1>1. CASE Call(n)
  <2>1. PICK r \in Outcomes : Returns(n, r, Capture(n))
    BY <1>1 DEF Call
  <2>2. scope' = Capture(n) /\ Returns(n, r, scope')
    BY <2>1 DEF Returns
  <2> QED BY <1>1, <2>1, <2>2, OutcomesOK DEF Call, Closing, DecidedBy
<1>2. CASE CallBreaks(n)
  <2>1. Returns(n, Err(AnyTag), scope) /\ scope' = scope
    BY <1>2 DEF CallBreaks, Returns
  <2> QED BY <1>2, <2>1, OutcomesOK DEF CallBreaks, Closing, DecidedBy
<1>3. CASE IfBreaks(n)
  <2>1. Returns(n, Err(AnyTag), scope) /\ scope' = scope
    BY <1>3 DEF IfBreaks, Returns
  <2> QED BY <1>3, <2>1, OutcomesOK DEF IfBreaks, Closing, DecidedBy
<1>4. CASE Close(n)
  <2>1. Returns(n, [Ok EXCEPT !.cat = Category(n)], scope) /\ scope' = scope
    BY <1>4 DEF Close, Returns
  <2> QED BY <1>4, <2>1, OutcomesOK DEF Close, Closing
<1>5. CASE As(n)
  BY <1>5 DEF As, Opening, DecidedBy
<1>6. CASE Fork(n)
  BY <1>6 DEF Fork, Opening, Forking, DecidedBy
<1>7. ASSUME NEW w \in Nodes, NEW o \in Results, Decide(n, w, o), Due(n), plan[n].kind = "if",
             w = n \/ (plan[n].ref \in Names /\ w = scope[Owner(n)][plan[n].ref]),
             plan[n].ref # NoName => o = Lookup(scope, result, n, plan[n].ref)
      PROVE  (\E r : Closing(n, r)) \/ (\E branch : Opening(n, branch))
  <2>1. DecidedBy(n)
    BY <1>7 DEF Decide, DecidedBy
  <2>2. CASE mode = "check" /\ o.cat = "would"
    BY <1>7, <2>1, <2>2 DEF Decide, Opening
  <2>3. CASE ~(mode = "check" /\ o.cat = "would") /\ Uncovered(n, o)
    <3>1. Returns(n, o, scope) /\ scope' = scope /\ UNCHANGED taken
      BY <1>7, <2>3 DEF Decide, Returns
    <3>2. o.cat = "err"
      BY <2>3 DEF Uncovered
    <3> QED BY <1>7, <2>1, <3>1, <3>2 DEF Closing
  <2>4. CASE ~(mode = "check" /\ o.cat = "would") /\ ~Uncovered(n, o)
    <3>1. Opens(n, IF Truth(o, plan[n]) THEN "then" ELSE "else") /\ scope' = scope
      BY <1>7, <2>4 DEF Decide
    <3> QED BY <1>7, <2>1, <3>1 DEF Opening
  <2> QED BY <2>2, <2>3, <2>4
<1>8. CASE IfCall(n)
  BY <1>7, <1>8, OutcomesOK DEF IfCall
<1>9. CASE IfRef(n)
  <2> DEFINE w == scope[Owner(n)][plan[n].ref]
  <2>1. w # Nobody /\ Decide(n, w, result[w]) /\ Due(n) /\ plan[n].kind = "if"
        /\ plan[n].ref # NoName
    BY <1>9 DEF IfRef
  <2>2. DueIn(n, Parent(n))
    BY <2>1, DueOK
  <2>3. Owner(n) \in Nodes
    BY <2>2, OwnerOK, PathOK DEF DueIn
  <2>4. plan[n].ref \in Names
    BY <2>1, PlanOK DEF Steps
  <2>5. w \in Nodes /\ result[w] \in Results
    BY <2>1, <2>3, <2>4 DEF TypeOK
  <2>6. result[w] = Lookup(scope, result, n, plan[n].ref)
    BY <2>1 DEF Lookup
  <2> QED BY <1>7, <2>1, <2>4, <2>5, <2>6
<1> QED BY <1>1, <1>2, <1>3, <1>4, <1>5, <1>6, <1>8, <1>9 DEF StepOf

-----------------------------------------------------------------------------
(* What a step keeps of the sequences.                                     *)
LEMMA BodiesKept ==
  ASSUME plan' = plan, taken' = taken
  PROVE  /\ \A p : Body(p)' = Body(p) /\ Kids(p)' = Kids(p)
         /\ \A n : /\ Index(n)' = Index(n) /\ HasNext(n)' = HasNext(n)
                   /\ NextOf(n)' = NextOf(n)
<1>1. \A p : Body(p)' = Body(p)
  BY DEF Body
<1>2. \A p : Kids(p)' = Kids(p)
  BY <1>1 DEF Kids
<1>3. \A n : Index(n)' = Index(n)
  BY <1>1, TreeKept DEF Index
<1>4. \A n : HasNext(n)' = HasNext(n) /\ NextOf(n)' = NextOf(n)
  BY <1>1, <1>3, TreeKept DEF HasNext, NextOf
<1> QED BY <1>1, <1>2, <1>3, <1>4

LEMMA OtherBodiesKept ==
  ASSUME plan' = plan, NEW k, \A p \in Nodes \ {k} : taken'[p] = taken[p]
  PROVE  /\ \A p \in Nodes \ {k} : Body(p)' = Body(p) /\ Kids(p)' = Kids(p)
         /\ \A n : Parent(n) \in Nodes \ {k} =>
              /\ Index(n)' = Index(n) /\ HasNext(n)' = HasNext(n)
              /\ NextOf(n)' = NextOf(n)
<1>1. \A p \in Nodes \ {k} : Body(p)' = Body(p)
  BY DEF Body
<1>2. \A p \in Nodes \ {k} : Kids(p)' = Kids(p)
  BY <1>1 DEF Kids
<1>3. \A n : Parent(n) \in Nodes \ {k} => Index(n)' = Index(n)
  BY <1>1, TreeKept DEF Index
<1>4. \A n : Parent(n) \in Nodes \ {k} => HasNext(n)' = HasNext(n) /\ NextOf(n)' = NextOf(n)
  BY <1>1, <1>3, TreeKept DEF HasNext, NextOf
<1> QED BY <1>1, <1>2, <1>3, <1>4

LEMMA KidsLater ==
  ASSUME plan \in Plans, plan' = plan, NEW p \in Nodes
  PROVE  /\ \A i \in DOMAIN Body(p)' : Body(p)'[i] \in Kids(p)'
         /\ \A n \in Kids(p)' : n \in Nodes /\ HasParent(n) /\ Parent(n) = p
<1>1. Kids(p)' \subseteq Below(plan, p) /\ Body(p)' \in Seq(Nodes)
  BY PlanOK DEF Body, Kids, Below
<1>2. \A n \in Kids(p)' : n \in Nodes /\ HasParent(n) /\ Parent(n) = p
  BY <1>1, PlanOK, ParentOK DEF HasParent
<1> QED BY <1>1, <1>2 DEF Kids, Range

-----------------------------------------------------------------------------
(* Among the steps of a sequence: what is beside one that can begin, or is *)
(* open, is done or has not begun, and so is what is beside a step that is *)
(* done with the next one to come.                                         *)
Placed(n) ==
  /\ n \in Nodes \ {Root} /\ HasParent(n) /\ Parent(n) \in Nodes /\ Parent(n) # n
  /\ n \in Kids(Parent(n)) /\ Root \in Path(n)
  /\ st[Parent(n)] = "open" /\ taken[Parent(n)] # "none" /\ st[n] # "done"
  /\ \/ plan[Parent(n)].kind = "parallel"
     \/ /\ ~stopped[Parent(n)]
        /\ \A i, j \in DOMAIN Body(Parent(n)) :
             Body(Parent(n))[i] = n /\ j < i => st[Body(Parent(n))[j]] = "done"

LEMMA PlacedOK ==
  ASSUME RunnerInv, NEW n \in Nodes \ {Root}, Due(n) \/ st[n] = "open"
  PROVE  Placed(n)
<1>1. CASE Due(n)
  <2>1. DueIn(n, Parent(n)) /\ plan \in Plans
    BY <1>1, DueOK DEF RunnerInv
  <2> QED BY <2>1, PathAcyclic DEF DueIn, Placed
<1>2. CASE st[n] = "open"
  <2> DEFINE p == Parent(n)
  <2>1. HasParent(n) /\ n \in Kids(p) /\ Root \in Path(n) /\ taken[p] # "none" /\ st[p] = "open"
    BY <1>2 DEF RunnerInv, Begun, Active, TypeOK
  <2>2. plan \in Plans /\ p \in Nodes /\ p # n
    BY <2>1, ParentOK, PathAcyclic DEF RunnerInv
  <2>3. stopped[p] => FALSE
    BY <1>2, <2>1, <2>2 DEF RunnerInv, Stops
  <2>4. ASSUME plan[p].kind # "parallel", NEW i \in DOMAIN Body(p), NEW j \in DOMAIN Body(p),
               Body(p)[i] = n, j < i
        PROVE  st[Body(p)[j]] = "done"
    BY <1>2, <2>2, <2>4 DEF RunnerInv, InOrder, Active
  <2> QED BY <1>2, <2>1, <2>2, <2>3, <2>4 DEF Placed
<1> QED BY <1>1, <1>2

LEMMA BesidePlaced ==
  ASSUME RunnerInv, NEW n, Placed(n), plan[Parent(n)].kind # "parallel",
         NEW c \in Kids(Parent(n)), c # n
  PROVE  st[c] # "open"
<1> DEFINE p == Parent(n)
<1>1. plan \in Plans /\ p \in Nodes /\ n \in Kids(p) /\ st[n] # "done"
  BY DEF RunnerInv, Placed
<1>2. PICK i \in DOMAIN Body(p) : Body(p)[i] = n
  BY <1>1, BodyOK
<1>3. PICK j \in DOMAIN Body(p) : Body(p)[j] = c
  BY <1>1, BodyOK
<1>4. i \in Nat /\ j \in Nat /\ i # j
  BY <1>1, <1>2, <1>3, BodyOK
<1>5. CASE j < i
  BY <1>2, <1>3, <1>5 DEF Placed
<1>6. CASE i < j
  BY <1>1, <1>2, <1>3, <1>6 DEF RunnerInv, InOrder, Active
<1> QED BY <1>4, <1>5, <1>6

LEMMA BesideNext ==
  ASSUME RunnerInv, NEW m, HasParent(m), m \in Kids(Parent(m)), HasNext(m),
         plan[Parent(m)].kind # "parallel",
         NEW c \in Kids(Parent(m)), c # m, c # NextOf(m)
  PROVE  (Active(m) => st[c] = "done") \/ (Active(c) => st[NextOf(m)] = "done")
<1> DEFINE p == Parent(m)
<1>1. plan \in Plans /\ p \in Nodes
  BY ParentOK DEF RunnerInv
<1>2. /\ Index(m) \in DOMAIN Body(p) /\ Body(p)[Index(m)] = m
      /\ Index(m) + 1 \in DOMAIN Body(p) /\ NextOf(m) = Body(p)[Index(m) + 1]
  BY <1>1, IndexOK DEF NextOf
<1>3. PICK j \in DOMAIN Body(p) : Body(p)[j] = c
  BY <1>1, BodyOK
<1>4. j \in Nat /\ Index(m) \in Nat /\ j # Index(m) /\ j # Index(m) + 1
  BY <1>1, <1>2, <1>3, BodyOK
<1>5. CASE j < Index(m)
  BY <1>1, <1>2, <1>3, <1>5 DEF RunnerInv, InOrder
<1>6. CASE Index(m) + 1 < j
  BY <1>1, <1>2, <1>3, <1>6 DEF RunnerInv, InOrder
<1> QED BY <1>4, <1>5, <1>6

(* The steps around one that is open are open, around one that has begun   *)
(* they have, and run a sequence.                                          *)
LEMMA AroundOpen ==
  ASSUME RunnerInv, NEW n \in Nodes, st[n] = "open"
  PROVE  \A k \in Path(n) : st[k] = "open"
<1> DEFINE s == {k \in Nodes : st[k] = "open"}
<1>1. ASSUME NEW k \in s, HasParent(k) PROVE Parent(k) \in s
  <2>1. plan \in Plans /\ k # Root /\ Parent(k) \in Nodes
    BY <1>1, ParentOK DEF RunnerInv
  <2> QED BY <2>1 DEF RunnerInv, TypeOK
<1>2. Path(n) \subseteq s
  BY <1>1, PathInside DEF RunnerInv
<1> QED BY <1>2

LEMMA AroundBegun ==
  ASSUME RunnerInv, NEW n \in Nodes, Active(n)
  PROVE  /\ \A k \in Path(n) : k \in Nodes /\ Active(k)
         /\ \A k \in Path(n) \ {n} : taken[k] # "none" /\ plan[k].kind # "call"
<1> DEFINE s == {k \in Nodes : Active(k)}
<1>1. ASSUME NEW k \in s, HasParent(k)
      PROVE  Parent(k) \in s /\ taken[Parent(k)] # "none" /\ plan[Parent(k)].kind # "call"
  <2>1. plan \in Plans /\ k # Root /\ Parent(k) \in Nodes
    BY <1>1, ParentOK DEF RunnerInv
  <2> QED BY <2>1 DEF RunnerInv, Begun, Active
<1>2. Path(n) \subseteq s /\ plan \in Plans
  BY <1>1, PathInside DEF RunnerInv
<1>3. ASSUME NEW k \in Path(n) \ {n} PROVE taken[k] # "none" /\ plan[k].kind # "call"
  <2>1. PICK c \in Path(n) : HasParent(c) /\ Parent(c) = k
    BY <1>2, PathChild
  <2> QED BY <1>1, <1>2, <2>1
<1> QED BY <1>2, <1>3

(* Below a sequence that is run one step after the other, no two steps are *)
(* open in different places.                                               *)
LEMMA OnTheWay ==
  ASSUME RunnerInv, NEW n, Placed(n), st[n] = "idle",
         NEW q \in Nodes, st[q] = "open", Parent(n) \in Path(q), q # Parent(n)
  PROVE  /\ plan[Parent(n)].kind = "parallel"
         /\ \E c \in Path(q) : /\ c # n /\ HasParent(c) /\ Parent(c) = Parent(n)
                               /\ c \in Nodes /\ c # Root
<1>1. plan \in Plans
  BY DEF RunnerInv
<1>2. PICK c \in Path(q) : HasParent(c) /\ Parent(c) = Parent(n)
  BY <1>1, PathChild
<1>3. c \in Nodes /\ c # Root /\ st[c] = "open"
  BY <1>1, <1>2, AroundOpen, ParentOK
<1>4. c \in Kids(Parent(n)) /\ c # n
  BY <1>2, <1>3 DEF RunnerInv, Begun, Active
<1> QED BY <1>2, <1>3, <1>4, BesidePlaced

LEMMA BranchesOf ==
  ASSUME plan \in Plans, NEW b \in Nodes, HasParent(b), plan[Parent(b)].kind = "parallel"
  PROVE  IsBranch(b)
BY ParentOK DEF IsBranch

LEMMA SeparateOK ==
  ASSUME plan \in Plans, NEW m \in Nodes, NEW n \in Nodes,
         NEW b \in Path(m), NEW c \in Path(n), b # c, HasParent(b), HasParent(c),
         Parent(b) = Parent(c), plan[Parent(b)].kind = "parallel"
  PROVE  Separate(m, n)
<1>1. IsBranch(b) /\ IsBranch(c)
  BY BranchesOf, PathOK
<1> QED BY <1>1 DEF Separate

LEMMA SeparateInside ==
  ASSUME plan \in Plans, NEW m \in Nodes, NEW n \in Nodes, NEW p \in Path(m), NEW q \in Path(n),
         Separate(p, q) \/ Separate(q, p)
  PROVE  Separate(m, n) /\ Separate(n, m)
<1>1. Path(p) \subseteq Path(m) /\ Path(q) \subseteq Path(n)
  BY PathTransitive
<1> QED BY <1>1 DEF Separate

(* A branch is not inside a branch beside it.                              *)
LEMMA NotBoth ==
  ASSUME plan \in Plans, NEW o \in Nodes, NEW b \in Path(o), NEW c \in Path(o),
         HasParent(b), HasParent(c), Parent(b) = Parent(c)
  PROVE  b = c
<1>1. ASSUME NEW x \in Nodes, NEW y \in Nodes, x \in Path(y), x # y, HasParent(x), HasParent(y),
             Parent(x) = Parent(y)
      PROVE  FALSE
  <2>1. x \in Path(Parent(x))
    BY <1>1, PathOK
  <2> QED BY <1>1, <2>1, PathAcyclic
<1>2. b \in Nodes /\ c \in Nodes
  BY PathOK
<1> QED BY <1>1, <1>2, PathChain

-----------------------------------------------------------------------------
(* A step that returns.                                                    *)
Returned(n, r) ==
  /\ Placed(n)
  /\ plan \in Plans /\ plan' = plan /\ mode' = mode /\ phase' = phase /\ response' = response
  /\ taken' = taken
  /\ st' = [st EXCEPT ![n] = "done"]
  /\ result' = [result EXCEPT ![n] = r] /\ r \in Results
  /\ stopped' = [stopped EXCEPT ![Parent(n)] = @ \/ Halts(n, scope', result')]
  /\ \A m \in Nodes \ {Root} : st[m] = "open" => Parent(m) # n

LEMMA ReturnedOK ==
  ASSUME RunnerInv, NEW n \in Nodes \ {Root}, NEW r, Closing(n, r)
  PROVE  Returned(n, r)
<1>1. Due(n) \/ RunsOut(n)
  BY DEF Closing
<1>2. Placed(n)
  BY <1>1, PlacedOK DEF RunsOut
<1>3. ASSUME NEW m \in Nodes \ {Root}, st[m] = "open", Parent(m) = n PROVE FALSE
  <2>1. st[n] = "open" /\ m \in Kids(n)
    BY <1>3 DEF RunnerInv, TypeOK, Begun, Active
  <2>2. RunsOut(n)
    BY <1>1, <2>1 DEF Due
  <2>3. stopped[n]
    BY <1>3, <2>1, <2>2 DEF RunsOut, Kids
  <2> QED BY <1>3, <2>1, <2>3 DEF RunnerInv, Stops
<1> QED BY <1>2, <1>3 DEF Closing, Returns, Returned, RunnerInv

LEMMA ClosingType ==
  ASSUME RunnerInv, NEW n \in Nodes \ {Root}, NEW r, Closing(n, r)
  PROVE  TypeOK'
<1>1. Returned(n, r) /\ TypeOK
  BY ReturnedOK DEF RunnerInv
<1>2. /\ phase' \in {"start", "running", "over"}
      /\ st' \in [Nodes -> {"idle", "open", "done"}]
      /\ result' \in [Nodes -> Results]
      /\ taken' \in [Nodes -> {"none", "then", "else", "preview"}]
  BY <1>1 DEF Returned, TypeOK
<1>3. stopped' \in [Nodes -> BOOLEAN]
  <2>1. Halts(n, scope', result') \in BOOLEAN
    BY DEF Halts
  <2>2. \A p \in Nodes : (stopped[p] \/ Halts(n, scope', result')) \in BOOLEAN
    BY <1>1, <2>1 DEF TypeOK
  <2> QED BY <1>1, <2>2 DEF Returned, TypeOK
<1>4. scope' \in [Nodes -> [Names -> Nodes \cup {Nobody}]]
  <2>1. CASE scope' = scope
    BY <1>1, <2>1 DEF TypeOK
  <2>2. CASE scope' = Capture(n) /\ scope' # scope
    <3>1. scope' = [scope EXCEPT ![Owner(n)][plan[n].bind] = n] /\ plan[n].bind \in Names
      BY <1>1, <2>2, PlanOK DEF Capture, Returned, Steps
    <3> QED BY <1>1, <3>1 DEF TypeOK
  <2> QED BY <2>1, <2>2 DEF Closing
<1>5. decider' \in [Nodes -> Nodes \cup {Nobody}]
  BY <1>1 DEF TypeOK, Closing, DecidedBy
<1>6. ASSUME NEW m \in Nodes \ {Root}, st'[m] = "open" PROVE st'[Parent(m)'] = "open"
  <2>1. m # n /\ st[m] = "open"
    BY <1>1, <1>6 DEF Returned, TypeOK
  <2>2. st[Parent(m)] = "open" /\ Parent(m) # n
    BY <1>1, <2>1 DEF Returned, TypeOK
  <2>3. Parent(m)' = Parent(m) /\ Parent(m) \in Nodes
    BY <1>1, <2>1, TreeKept, ParentOK DEF Returned, RunnerInv, Begun, Active
  <2> QED BY <1>1, <2>2, <2>3 DEF Returned, TypeOK
<1> QED BY <1>2, <1>3, <1>4, <1>5, <1>6 DEF TypeOK

LEMMA ClosingBegun ==
  ASSUME RunnerInv, NEW n \in Nodes \ {Root}, NEW r, Closing(n, r)
  PROVE  Begun' /\ InOrder'
<1>1. Returned(n, r) /\ TypeOK /\ Begun /\ InOrder
  BY ReturnedOK DEF RunnerInv
<1>2. /\ \A m \in Nodes : st'[m] = IF m = n THEN "done" ELSE st[m]
      /\ \A m \in Nodes : Active(m)' <=> m = n \/ Active(m)
      /\ \A m \in Nodes : m # Parent(n) => stopped'[m] = stopped[m]
      /\ taken' = taken /\ plan' = plan /\ Root \in Nodes
  BY <1>1, PlanAssumption DEF Returned, TypeOK, Active
<1>3. \A m : /\ HasParent(m)' = HasParent(m) /\ Parent(m)' = Parent(m) /\ Path(m)' = Path(m)
             /\ Kids(m)' = Kids(m) /\ Body(m)' = Body(m)
  BY <1>2, TreeKept, BodiesKept
<1>4. ASSUME NEW m \in Nodes
      PROVE  /\ st'[m] = "idle" => taken'[m] = "none" /\ ~stopped'[m]
             /\ st'[m] = "open" => taken'[m] # "none"
             /\ taken'[m] # "none" => plan'[m].kind # "call"
             /\ taken'[m] \in {"else", "preview"} => plan'[m].kind = "if"
  BY <1>1, <1>2 DEF Begun, Placed, Returned
<1>5. ASSUME NEW m \in Nodes \ {Root}, Active(m)'
      PROVE  /\ HasParent(m)' /\ Root \in Path(m)'
             /\ taken'[Parent(m)'] # "none" /\ m \in Kids(Parent(m))'
  <2>1. HasParent(m) /\ Root \in Path(m) /\ taken[Parent(m)] # "none" /\ m \in Kids(Parent(m))
    BY <1>1, <1>2, <1>5 DEF Begun, Placed, Returned
  <2>2. Kids(Parent(m))' = Kids(Parent(m))
    BY <1>2, <1>3, BodiesKept DEF Kids, Body
  <2> QED BY <1>2, <1>3, <2>1, <2>2
<1>6. Begun'
  BY <1>1, <1>2, <1>4, <1>5 DEF Begun
<1>7. ASSUME NEW p \in Nodes, plan[p].kind # "parallel",
             NEW i \in DOMAIN Body(p), NEW j \in DOMAIN Body(p), j < i,
             st'[Body(p)[i]] # "idle"
      PROVE  st'[Body(p)[j]] = "done"
  <2>1. Body(p)[i] \in Nodes /\ Body(p)[j] \in Nodes /\ Parent(Body(p)[i]) = p
    BY <1>1, BodyOK DEF Returned
  <2>2. st[Body(p)[j]] = "done"
    <3>1. CASE Body(p)[i] = n
      BY <1>1, <1>7, <2>1, <3>1 DEF Returned, Placed
    <3>2. CASE Body(p)[i] # n
      <4>1. Active(Body(p)[i])
        BY <1>2, <1>7, <2>1, <3>2 DEF Active
      <4> QED BY <1>1, <1>7, <4>1 DEF InOrder
    <3> QED BY <3>1, <3>2
  <2> QED BY <1>2, <2>1, <2>2
<1>8. InOrder'
  BY <1>2, <1>3, <1>7 DEF InOrder, Active
<1> QED BY <1>6, <1>8

LEMMA ClosingStops ==
  ASSUME RunnerInv, NEW n \in Nodes \ {Root}, NEW r, Closing(n, r)
  PROVE  Stops'
<1>1. Returned(n, r) /\ TypeOK /\ Begun /\ InOrder /\ Stops
  BY ReturnedOK DEF RunnerInv
<1>2. /\ \A m \in Nodes : st'[m] = IF m = n THEN "done" ELSE st[m]
      /\ \A m \in Nodes : result'[m] = IF m = n THEN r ELSE result[m]
      /\ plan' = plan /\ st[n] # "done"
  BY <1>1 DEF Returned, TypeOK, Placed
<1>3. \A m : Kids(m)' = Kids(m)
  BY <1>1, BodiesKept DEF Returned
<1>4. ASSUME NEW p \in Nodes, stopped'[p]
      PROVE  /\ plan[p].kind # "parallel"
             /\ \A c \in Kids(p) : st'[c] # "open"
             /\ \E c \in Kids(p) : st'[c] = "done" /\ result'[c].cat = "err"
  <2>0. \A c \in Kids(p) : c \in Nodes
    BY <1>1, BodyOK DEF Returned
  <2>1. CASE stopped[p]
    <3>1. /\ plan[p].kind # "parallel" /\ \A c \in Kids(p) : st[c] # "open"
          /\ \E c \in Kids(p) : st[c] = "done" /\ result[c].cat = "err"
      BY <1>1, <2>1 DEF Stops, Erred
    <3> QED BY <1>2, <2>0, <3>1
  <2>2. CASE ~stopped[p]
    <3>1. p = Parent(n) /\ Halts(n, scope', result')
      BY <1>1, <1>4, <2>2 DEF Returned, TypeOK
    <3>2. plan[p].kind # "parallel" /\ result'[n].cat = "err"
      BY <3>1 DEF Halts, IsBranch
    <3>3. n \in Kids(p)
      BY <1>1, <3>1 DEF Returned, Placed
    <3>4. ASSUME NEW c \in Kids(p), c # n PROVE st[c] # "open"
      BY <1>1, <3>1, <3>2, <3>4, BesidePlaced DEF Returned
    <3> QED BY <1>2, <2>0, <3>2, <3>3, <3>4
  <2> QED BY <2>1, <2>2
<1> QED BY <1>2, <1>3, <1>4 DEF Stops, Erred

LEMMA ClosingClosed ==
  ASSUME RunnerInv, NEW n \in Nodes \ {Root}, NEW r, Closing(n, r)
  PROVE  Closed'
<1>1. Returned(n, r) /\ TypeOK /\ Begun /\ Closed
  BY ReturnedOK DEF RunnerInv
<1>2. /\ \A m \in Nodes : st'[m] = IF m = n THEN "done" ELSE st[m]
      /\ \A m \in Nodes : result'[m] = IF m = n THEN r ELSE result[m]
      /\ \A m \in Nodes : m # Parent(n) => stopped'[m] = stopped[m]
      /\ plan' = plan /\ taken' = taken /\ Parent(n) # n /\ st[Parent(n)] = "open"
  BY <1>1 DEF Returned, TypeOK, Placed
<1>3. \A m : Kids(m)' = Kids(m)
  BY <1>1, BodiesKept DEF Returned
<1>4. ASSUME NEW p \in Nodes, p # Parent(n)
      PROVE  /\ \A c \in Kids(p) : c \in Nodes /\ c # n
             /\ Category(p)' = Category(p)
  <2>1. \A c \in Kids(p) : c \in Nodes /\ c # n
    BY <1>1, <1>4, BodyOK DEF Returned
  <2>2. \A c \in Kids(p) : result'[c] = result[c]
    BY <1>2, <2>1
  <2>3. Range(Body(p))' = Range(Body(p)) /\ Range(Body(p)) = Kids(p)
    BY <1>3 DEF Kids
  <2>4. (\E c \in Range(Body(p)) : result[c].cat = "err")'
        <=> \E c \in Range(Body(p)) : result[c].cat = "err"
    BY <2>2, <2>3
  <2> QED BY <1>2, <1>4, <2>1, <2>4 DEF Category
<1>5. ASSUME NEW p \in Nodes, st'[p] = "done", taken[p] # "none"
      PROVE  /\ stopped'[p] \/ \A c \in Kids(p) : st'[c] = "done"
             /\ result'[p].cat = Category(p)'
  <2>1. CASE p = n
    <3>1. RunsOut(n) /\ r.cat = Category(n)
      BY <1>1, <1>5, <2>1 DEF Closing, Due, Begun
    <3>2. stopped[n] \/ \A c \in Kids(n) : st[c] = "done"
      BY <3>1 DEF RunsOut, Kids
    <3> QED BY <1>2, <1>4, <2>1, <3>1, <3>2
  <2>2. CASE p # n
    <3>1. st[p] = "done" /\ p # Parent(n)
      BY <1>2, <1>5, <2>2
    <3>2. /\ stopped[p] \/ \A c \in Kids(p) : st[c] = "done"
          /\ result[p].cat = Category(p)
      BY <1>1, <1>5, <3>1 DEF Closed
    <3> QED BY <1>2, <1>4, <2>2, <3>1, <3>2
  <2> QED BY <2>1, <2>2
<1> QED BY <1>2, <1>3, <1>5 DEF Closed

LEMMA ClosingScopes ==
  ASSUME RunnerInv, NEW n \in Nodes \ {Root}, NEW r, Closing(n, r)
  PROVE  Scopes'
<1>1. Returned(n, r) /\ TypeOK /\ Scopes /\ Owner(n) \in Path(n) /\ Owner(n) \in Nodes
  BY ReturnedOK, OwnerOK, PathOK DEF RunnerInv, Returned, Placed
<1>2. \A m \in Nodes : st'[m] = IF m = n THEN "done" ELSE st[m]
  BY <1>1 DEF Returned, TypeOK
<1>3. \A w, m : Around(w, m)' = Around(w, m)
  BY <1>1, TreeKept DEF Returned, Around
<1>4. Around(n, Owner(n)) /\ Around(n, n)
  BY <1>1, OwnerOK DEF Around, Forks, Returned, Placed
<1>5. ASSUME NEW o \in Nodes, NEW x \in Names, scope'[o][x] # Nobody
      PROVE  st'[scope'[o][x]] = "done" /\ Around(scope'[o][x], o)
  <2>1. scope'[o][x] = scope[o][x] \/ (o = Owner(n) /\ scope'[o][x] = n)
    <3>1. CASE scope' = scope
      BY <3>1
    <3>2. CASE scope' = Capture(n) /\ scope' # scope
      <4>1. scope' = [scope EXCEPT ![Owner(n)][plan[n].bind] = n] /\ plan[n].bind \in Names
        BY <1>1, <3>2, PlanOK DEF Capture, Returned, Steps
      <4> QED BY <1>1, <4>1 DEF TypeOK
    <3> QED BY <3>1, <3>2 DEF Closing
  <2>2. CASE scope'[o][x] = scope[o][x]
    <3>1. st[scope[o][x]] = "done" /\ Around(scope[o][x], o) /\ scope[o][x] \in Nodes
      BY <1>1, <1>5, <2>2 DEF Scopes, TypeOK
    <3> QED BY <1>2, <2>2, <3>1
  <2>3. CASE o = Owner(n) /\ scope'[o][x] = n
    BY <1>2, <1>4, <2>3
  <2> QED BY <2>1, <2>2, <2>3
<1>6. ASSUME NEW m \in Nodes, decider'[m] # Nobody PROVE Around(decider'[m], m)
  <2>1. CASE decider'[m] = decider[m]
    BY <1>1, <1>6, <2>1 DEF Scopes
  <2>2. CASE decider'[m] # decider[m]
    <3>1. PICK w \in Nodes :
            /\ decider' = [decider EXCEPT ![n] = w]
            /\ w = n \/ (plan[n].ref \in Names /\ w = scope[Owner(n)][plan[n].ref])
      BY <2>2 DEF Closing, DecidedBy
    <3>2. m = n /\ decider'[m] = w
      BY <1>1, <2>2, <3>1 DEF TypeOK
    <3>3. Around(w, n)
      <4>1. CASE w = n
        BY <1>4, <4>1
      <4>2. CASE plan[n].ref \in Names /\ w = scope[Owner(n)][plan[n].ref]
        <5>1. Around(w, Owner(n))
          BY <1>1, <4>2, NameAssumption DEF Scopes
        <5>2. Path(Owner(n)) \subseteq Path(n)
          BY <1>1, PathTransitive DEF Returned
        <5> QED BY <5>1, <5>2 DEF Around
      <4> QED BY <3>1, <4>1, <4>2
    <3> QED BY <3>2, <3>3
  <2> QED BY <2>1, <2>2
<1> QED BY <1>3, <1>5, <1>6 DEF Scopes

LEMMA ClosingApart ==
  ASSUME RunnerInv, NEW n \in Nodes \ {Root}, NEW r, Closing(n, r)
  PROVE  Apart' /\ (phase = "running" => Phases')
<1>1. Returned(n, r) /\ TypeOK /\ Apart /\ Phases
  BY ReturnedOK DEF RunnerInv
<1>2. \A m \in Nodes : st'[m] = IF m = n THEN "done" ELSE st[m]
  BY <1>1 DEF Returned, TypeOK
<1>3. \A m, k : Path(m)' = Path(m) /\ Separate(m, k)' = Separate(m, k)
  BY <1>1, TreeKept DEF Returned, Separate
<1>4. Apart'
  BY <1>1, <1>2, <1>3 DEF Apart
<1>5. phase = "running" => phase' = "running" /\ st'[Root] = "open"
  BY <1>1, <1>2, PlanAssumption DEF Phases, Returned
<1> QED BY <1>4, <1>5 DEF Phases

-----------------------------------------------------------------------------
(* While the next step is to look at what a step has captured, nothing     *)
(* else begins that shares its scope.                                      *)
Waiting(m) ==
  /\ m \in Nodes \ {Root} /\ st[m] = "done" /\ ~IsBranch(m) /\ HasNext(m)
  /\ st[NextOf(m)] = "idle" /\ ~stopped[Parent(m)]

LEMMA WaitingOK ==
  ASSUME RunnerInv, NEW m, Waiting(m)
  PROVE  /\ plan \in Plans /\ HasParent(m) /\ m \in Kids(Parent(m)) /\ m \in Nodes
         /\ Parent(m) \in Nodes /\ st[Parent(m)] = "open" /\ Root \in Path(m)
         /\ plan[Parent(m)].kind # "parallel"
         /\ NextOf(m) \in Kids(Parent(m)) /\ NextOf(m) \in Nodes /\ NextOf(m) # m
         /\ HasParent(NextOf(m)) /\ Parent(NextOf(m)) = Parent(m) /\ ~IsBranch(NextOf(m))
         /\ NextOf(m) # Root /\ Root \in Path(NextOf(m))
         /\ \A c \in Kids(Parent(m)) : c # m /\ c # NextOf(m) => st[c] # "open"
<1> DEFINE q == Parent(m)
           x == NextOf(m)
<1>1. plan \in Plans /\ HasParent(m) /\ m \in Kids(q) /\ Root \in Path(m) /\ taken[q] # "none"
  BY DEF Waiting, RunnerInv, Begun, Active
<1>2. q \in Nodes /\ plan[q].kind # "parallel"
  BY <1>1, ParentOK DEF Waiting, IsBranch
<1>3. x \in Kids(q) /\ x \in Nodes /\ x # m /\ HasParent(x) /\ Parent(x) = q /\ ~IsBranch(x)
  BY <1>1, IndexOK DEF Waiting
<1>4. st[q] = "open"
  <2>1. st[q] # "idle"
    BY <1>1, <1>2 DEF RunnerInv, Begun
  <2>2. st[q] = "done" => FALSE
    BY <1>1, <1>2, <1>3 DEF RunnerInv, Closed, Waiting
  <2> QED BY <1>2, <2>1, <2>2 DEF RunnerInv, TypeOK
<1>5. x # Root /\ Root \in Path(x)
  <2>1. Root \in Path(q)
    BY <1>1, PathOK DEF Waiting
  <2> QED BY <1>1, <1>3, <2>1, PathOK, RootOK
<1>6. ASSUME NEW c \in Kids(q), c # m, c # x PROVE st[c] # "open"
  BY <1>1, <1>2, <1>6, BesideNext DEF Waiting, Active
<1> QED BY <1>1, <1>2, <1>3, <1>4, <1>5, <1>6 DEF Waiting

LEMMA SameBlock ==
  ASSUME RunnerInv, NEW n, Placed(n), st[n] = "idle",
         NEW m, Waiting(m), Parent(n) = Parent(m)
  PROVE  n = NextOf(m)
<1> DEFINE q == Parent(m)
           x == NextOf(m)
<1>1. /\ plan \in Plans /\ q \in Nodes /\ plan[q].kind # "parallel"
      /\ HasParent(m) /\ m \in Kids(q) /\ st[m] = "done" /\ st[x] = "idle" /\ n \in Kids(q)
  BY WaitingOK DEF Waiting, Placed
<1>2. \A i, j \in DOMAIN Body(q) : Body(q)[i] = n /\ j < i => st[Body(q)[j]] = "done"
  BY <1>1 DEF Placed
<1>3. /\ Index(m) \in DOMAIN Body(q) /\ Body(q)[Index(m)] = m
      /\ Index(m) + 1 \in DOMAIN Body(q) /\ x = Body(q)[Index(m) + 1]
  BY <1>1, IndexOK DEF NextOf, Waiting
<1>4. PICK i \in DOMAIN Body(q) : Body(q)[i] = n
  BY <1>1, BodyOK
<1>5. i \in Nat /\ Index(m) \in Nat /\ i # Index(m)
  BY <1>1, <1>3, <1>4, BodyOK
<1>6. CASE i < Index(m)
  BY <1>1, <1>3, <1>4, <1>6 DEF RunnerInv, InOrder, Active
<1>7. CASE Index(m) + 1 < i
  BY <1>1, <1>2, <1>3, <1>4, <1>7
<1> QED BY <1>3, <1>4, <1>5, <1>6, <1>7

LEMMA Elsewhere ==
  ASSUME RunnerInv, NEW n, Placed(n), st[n] = "idle",
         NEW m, Waiting(m), NextOf(m) # n
  PROVE  Owner(NextOf(m)) # Owner(n) /\ n \notin Path(NextOf(m))
<1> DEFINE p == Parent(n)
           q == Parent(m)
           x == NextOf(m)
           o == Owner(x)
<1>1. /\ plan \in Plans /\ q \in Nodes /\ st[q] = "open" /\ plan[q].kind # "parallel"
      /\ x \in Nodes /\ x # Root /\ HasParent(x) /\ Parent(x) = q /\ Root \in Path(x)
      /\ m \in Kids(q) /\ x \in Kids(q) /\ st[m] = "done" /\ st[x] = "idle" /\ m # n
      /\ \A c \in Kids(q) : c # m /\ c # x => st[c] # "open"
  BY WaitingOK DEF Waiting
<1>2. p \in Nodes /\ st[p] = "open" /\ n \in Nodes /\ HasParent(n) /\ Root \in Path(n)
  BY DEF Placed
<1>3. n \notin Path(x)
  <2>1. n \in Path(x) => n \in Path(q)
    BY <1>1, PathOK
  <2> QED BY <1>1, <2>1, AroundOpen
<1>4. o \in Path(x) /\ Forks(o) /\ Owner(n) \in Path(n)
  BY <1>1, <1>2, OwnerOK
<1> SUFFICES ASSUME o = Owner(n) PROVE FALSE
  BY <1>3
<1>5. \A b \in Path(n) \cup Path(x) : Forks(b) => b \in Path(o)
  BY <1>1, <1>2, OwnerOK
<1>6. CASE p = q
  BY <1>6, SameBlock
<1>7. CASE p \in Path(q) /\ p # q
  <2>1. HasParent(n) /\ plan[p].kind = "parallel"
    BY <1>1, <1>2, <1>7, OnTheWay
  <2>2. n \in Path(n) /\ Forks(n)
    BY <1>1, <1>2, <2>1, BranchesOf, PathOK DEF Forks
  <2>3. n \in Path(o) /\ o \in Path(x) /\ Path(o) \subseteq Path(x)
    BY <1>1, <1>4, <1>5, <2>2, PathTransitive
  <2> QED BY <1>3, <2>3
<1>8. CASE q \in Path(p) /\ p # q
  <2>1. PICK c \in Path(p) : HasParent(c) /\ Parent(c) = q
    BY <1>1, <1>2, <1>8, PathChild
  <2>2. c \in Nodes /\ c # Root /\ st[c] = "open"
    BY <1>1, <1>2, <2>1, AroundOpen, ParentOK
  <2>3. c \in Kids(q)
    BY <2>1, <2>2 DEF RunnerInv, Begun, Active
  <2> QED BY <1>1, <2>2, <2>3
<1>9. CASE Separate(p, q)
  <2>1. PICK b \in Path(p), c \in Path(q) :
          b # c /\ IsBranch(b) /\ IsBranch(c) /\ Parent(b) = Parent(c)
    BY <1>9 DEF Separate
  <2>2. b \in Path(n) /\ c \in Path(x)
    BY <1>1, <1>2, <2>1, PathOK
  <2>3. b \in Path(o) /\ c \in Path(o) /\ o \in Nodes
    BY <1>1, <1>4, <1>5, <2>1, <2>2, PathOK DEF Forks
  <2>4. HasParent(b) /\ HasParent(c)
    <3>1. st[b] = "open" /\ st[c] = "open" /\ b \in Nodes /\ c \in Nodes
      BY <1>1, <1>2, <2>1, AroundOpen, PathOK
    <3> QED BY <2>1, <3>1 DEF RunnerInv, Begun, Active, IsBranch
  <2> QED BY <1>1, <2>1, <2>3, <2>4, NotBoth
<1> QED BY <1>1, <1>2, <1>6, <1>7, <1>8, <1>9 DEF RunnerInv, Apart

LEMMA ClosingErrors ==
  ASSUME RunnerInv, NEW n \in Nodes \ {Root}, NEW r, Closing(n, r)
  PROVE  Errors'
<1>1. Returned(n, r) /\ TypeOK /\ Begun /\ Errors
  BY ReturnedOK DEF RunnerInv
<1>2. /\ \A m \in Nodes : st'[m] = IF m = n THEN "done" ELSE st[m]
      /\ \A m \in Nodes : result'[m] = IF m = n THEN r ELSE result[m]
      /\ \A m \in Nodes : stopped'[m] <=>
           stopped[m] \/ (m = Parent(n) /\ Halts(n, scope', result'))
      /\ plan' = plan /\ taken' = taken /\ Parent(n) \in Nodes
  BY <1>1 DEF Returned, TypeOK, Placed
<1>3. \A m : /\ IsBranch(m)' = IsBranch(m) /\ Parent(m)' = Parent(m) /\ Owner(m)' = Owner(m)
             /\ HasNext(m)' = HasNext(m) /\ NextOf(m)' = NextOf(m)
             /\ Deferred(m)' = Deferred(m)
  BY <1>2, BodiesKept, TreeKept DEF Deferred
<1> DEFINE Sure(m, sc, res) ==
      \/ plan[NextOf(m)].else # <<>>
      \/ Truth(Lookup(sc, res, NextOf(m), plan[m].bind), plan[NextOf(m)])
           Took(m) ==
      \/ taken[NextOf(m)] \in {"then", "preview"}
      \/ taken[NextOf(m)] = "else" /\ plan[NextOf(m)].else # <<>>
           Follows(m) ==
      /\ Deferred(m) /\ HasNext(m)
      /\ plan[NextOf(m)].kind = "if" /\ plan[NextOf(m)].ref = plan[m].bind
<1>4. ASSUME NEW m \in Nodes,
             Follows(m), (st'[NextOf(m)] = "idle" /\ Sure(m, scope', result')) \/ Took(m)
      PROVE  Handled(m)'
  <2>1. \A x, k : Lookup(scope', result', x, k) = Lookup(scope, result, x, k)'
    BY <1>3 DEF Lookup
  <2> QED BY <1>2, <1>3, <1>4, <2>1 DEF Handled
<1>5. ASSUME NEW m \in Nodes \ {Root}, st'[m] = "done", result'[m].cat = "err", ~IsBranch(m),
             ~stopped'[Parent(m)]
      PROVE  Handled(m)'
  <2>1. CASE m = n
    <3>1. HasParent(n) /\ n \in Kids(Parent(n)) /\ plan \in Plans /\ Placed(n) /\ st[n] # "done"
      BY <1>1 DEF Returned, Placed
    <3>2. Deferred(n) /\ HasNext(n) /\ HandlesCaught(NextOf(n), plan[n].bind, scope', result')
      BY <1>2, <1>5, <2>1 DEF Halts
    <3>3. st[NextOf(n)] = "idle" /\ NextOf(n) # n /\ NextOf(n) \in Nodes
      <4>1. /\ Index(n) \in DOMAIN Body(Parent(n)) /\ Body(Parent(n))[Index(n)] = n
            /\ Index(n) + 1 \in DOMAIN Body(Parent(n))
            /\ NextOf(n) = Body(Parent(n))[Index(n) + 1]
            /\ NextOf(n) # n /\ NextOf(n) \in Nodes
        BY <3>1, <3>2, IndexOK DEF NextOf
      <4>2. plan[Parent(n)].kind # "parallel"
        BY <1>5, <2>1 DEF IsBranch
      <4>3. Index(n) \in Nat
        BY <1>2, <3>1, <4>1, BodyOK
      <4>4. Active(NextOf(n)) => st[n] = "done"
        BY <1>2, <4>1, <4>2, <4>3 DEF RunnerInv, InOrder
      <4> QED BY <3>1, <4>1, <4>4 DEF Active
    <3>4. Follows(n) /\ Sure(n, scope', result')
      BY <3>2 DEF HandlesCaught
    <3> QED BY <1>2, <1>4, <2>1, <3>3, <3>4
  <2>2. CASE m # n
    <3>1. st[m] = "done" /\ result[m].cat = "err"
      BY <1>2, <1>5, <2>2
    <3>2. HasParent(m) /\ m \in Kids(Parent(m)) /\ plan \in Plans /\ Parent(m) \in Nodes
      BY <1>1, <3>1, ParentOK DEF Returned, Begun, Active
    <3>3. Handled(m) /\ ~stopped[Parent(m)]
      BY <1>1, <1>2, <1>5, <3>1, <3>2 DEF Errors, Erred
    <3>4. Follows(m) /\ ((st[NextOf(m)] = "idle" /\ Sure(m, scope, result)) \/ Took(m))
      BY <3>3 DEF Handled
    <3>5. CASE Took(m)
      BY <1>4, <3>4, <3>5
    <3>6. CASE st[NextOf(m)] = "idle" /\ Sure(m, scope, result)
      <4> DEFINE x == NextOf(m)
      <4>1. Waiting(m)
        BY <1>5, <3>1, <3>3, <3>4, <3>6 DEF Waiting
      <4>2. /\ x \in Nodes /\ Parent(x) = Parent(m) /\ ~IsBranch(x) /\ Root \in Path(x)
            /\ Owner(x) \in Nodes /\ plan[m].bind \in Names
        <5>1. x \in Nodes /\ Parent(x) = Parent(m) /\ ~IsBranch(x) /\ Root \in Path(x)
          BY <4>1, WaitingOK
        <5>2. plan[m].bind \in Names
          BY <3>2, <3>4, PlanOK DEF Deferred, Steps
        <5> QED BY <3>2, <5>1, <5>2, OwnerOK, PathOK
      <4>3. CASE x = n
        <5>1. Due(n) /\ r.cat = "err"
          BY <3>4, <3>6, <4>3 DEF Closing, RunsOut
        <5>2. ~Deferred(n)
          BY <3>4, <4>3 DEF Deferred
        <5>3. result'[n].cat = "err"
          BY <1>2, <5>1
        <5> QED BY <1>2, <1>5, <4>2, <4>3, <5>2, <5>3 DEF Halts
      <4>4. CASE x # n
        <5>1. scope'[Owner(x)] = scope[Owner(x)]
          <6>1. CASE scope' = scope
            BY <6>1
          <6>2. CASE scope' = Capture(n) /\ scope' # scope /\ Due(n)
            <7>1. Owner(x) # Owner(n)
              BY <1>1, <4>1, <4>4, <6>2, Elsewhere DEF Returned, Due
            <7> QED BY <1>1, <4>2, <6>2, <7>1 DEF Capture, TypeOK
          <6> QED BY <6>1, <6>2 DEF Closing
        <5>2. \A w \in Nodes : st[w] = "done" => result'[w] = result[w]
          BY <1>1, <1>2 DEF Returned, Placed
        <5>3. LET w == scope[Owner(x)][plan[m].bind]
              IN  w # Nobody => w \in Nodes /\ st[w] = "done"
          BY <1>1, <4>2 DEF RunnerInv, Scopes, TypeOK
        <5>4. Lookup(scope', result', x, plan[m].bind) = Lookup(scope, result, x, plan[m].bind)
          BY <5>1, <5>2, <5>3 DEF Lookup
        <5>5. Sure(m, scope', result') /\ st'[x] = "idle"
          BY <1>2, <3>6, <4>2, <4>4, <5>4
        <5> QED BY <1>4, <3>4, <5>5
      <4> QED BY <4>3, <4>4
    <3> QED BY <3>4, <3>5, <3>6
  <2> QED BY <2>1, <2>2
<1>6. ASSUME NEW m \in Nodes \ {Root}, Erred(m)', ~IsBranch(m)', ~stopped'[Parent(m)']
      PROVE  Handled(m)'
  BY <1>3, <1>5, <1>6 DEF Erred
<1> QED BY <1>6 DEF Errors

-----------------------------------------------------------------------------
(* A step that begins a sequence of its own.                               *)
Opened(n, branch) ==
  /\ Placed(n) /\ st[n] = "idle" /\ taken[n] = "none" /\ ~stopped[n]
  /\ plan \in Plans /\ plan' = plan /\ mode' = mode /\ phase' = phase /\ response' = response
  /\ taken' = [taken EXCEPT ![n] = branch] /\ branch \in {"then", "else", "preview"}
  /\ st' = [st EXCEPT ![n] = "open"]
  /\ result' = result /\ stopped' = stopped
  /\ \A m \in Nodes \ {Root} : Active(m) => Parent(m) \in Nodes \ {n}

LEMMA OpenedOK ==
  ASSUME RunnerInv, NEW n \in Nodes \ {Root}, NEW branch, Opening(n, branch)
  PROVE  Opened(n, branch)
<1>1. Placed(n) /\ st[n] = "idle"
  BY PlacedOK DEF Opening, Due
<1>2. taken[n] = "none" /\ ~stopped[n]
  BY <1>1 DEF RunnerInv, Begun
<1>3. ASSUME NEW m \in Nodes \ {Root}, Active(m) PROVE Parent(m) \in Nodes \ {n}
  BY <1>2, <1>3, ParentOK DEF RunnerInv, Begun
<1> QED BY <1>1, <1>2, <1>3 DEF Opening, Opens, Opened, RunnerInv

LEMMA OpeningType ==
  ASSUME RunnerInv, NEW n \in Nodes \ {Root}, NEW branch, Opening(n, branch)
  PROVE  TypeOK'
<1>1. Opened(n, branch) /\ TypeOK /\ Owner(n) \in Nodes
  BY OpenedOK, OwnerOK, PathOK DEF RunnerInv, Opened, Placed
<1>2. /\ phase' \in {"start", "running", "over"}
      /\ st' \in [Nodes -> {"idle", "open", "done"}]
      /\ result' \in [Nodes -> Results]
      /\ taken' \in [Nodes -> {"none", "then", "else", "preview"}]
      /\ stopped' \in [Nodes -> BOOLEAN]
  BY <1>1 DEF Opened, TypeOK
<1>3. scope' \in [Nodes -> [Names -> Nodes \cup {Nobody}]]
  <2>1. CASE scope' = scope
    BY <1>1, <2>1 DEF TypeOK
  <2>2. CASE Forking(n)
    <3>1. /\ scope[Owner(n)] \in [Names -> Nodes \cup {Nobody}]
          /\ \A o \in Nodes : scope[o] \in [Names -> Nodes \cup {Nobody}]
      BY <1>1 DEF TypeOK
    <3> QED BY <2>2, <3>1 DEF Forking
  <2> QED BY <2>1, <2>2 DEF Opening
<1>4. decider' \in [Nodes -> Nodes \cup {Nobody}]
  BY <1>1 DEF TypeOK, Opening, DecidedBy
<1>5. ASSUME NEW m \in Nodes \ {Root}, st'[m] = "open" PROVE st'[Parent(m)'] = "open"
  <2>1. st[Parent(m)] = "open" /\ Parent(m) \in Nodes
    BY <1>1, <1>5 DEF Opened, TypeOK, Placed, Active
  <2>2. Parent(m)' = Parent(m)
    BY <1>1, TreeKept DEF Opened
  <2> QED BY <1>1, <2>1, <2>2 DEF Opened, TypeOK
<1> QED BY <1>2, <1>3, <1>4, <1>5 DEF TypeOK

LEMMA OpeningBegun ==
  ASSUME RunnerInv, NEW n \in Nodes \ {Root}, NEW branch, Opening(n, branch)
  PROVE  Begun' /\ InOrder'
<1>1. Opened(n, branch) /\ TypeOK /\ Begun /\ InOrder
  BY OpenedOK DEF RunnerInv
<1>2. /\ \A m \in Nodes : st'[m] = IF m = n THEN "open" ELSE st[m]
      /\ \A m \in Nodes : taken'[m] = IF m = n THEN branch ELSE taken[m]
      /\ stopped' = stopped /\ plan' = plan /\ Root \in Nodes
  BY <1>1, PlanAssumption DEF Opened, TypeOK
<1>3. \A m : HasParent(m)' = HasParent(m) /\ Parent(m)' = Parent(m) /\ Path(m)' = Path(m)
  BY <1>2, TreeKept
<1>4. \A p \in Nodes \ {n} : Body(p)' = Body(p) /\ Kids(p)' = Kids(p)
  BY <1>2, OtherBodiesKept
<1>5. ASSUME NEW m \in Nodes
      PROVE  /\ st'[m] = "idle" => taken'[m] = "none" /\ ~stopped'[m]
             /\ st'[m] = "open" => taken'[m] # "none"
             /\ taken'[m] # "none" => plan'[m].kind # "call"
             /\ taken'[m] \in {"else", "preview"} => plan'[m].kind = "if"
  BY <1>1, <1>2 DEF Begun, Opened, Opening
<1>6. ASSUME NEW m \in Nodes \ {Root}, Active(m)'
      PROVE  /\ HasParent(m)' /\ Root \in Path(m)'
             /\ taken'[Parent(m)'] # "none" /\ m \in Kids(Parent(m))'
  <2>1. /\ HasParent(m) /\ Root \in Path(m) /\ taken[Parent(m)] # "none"
        /\ m \in Kids(Parent(m)) /\ Parent(m) \in Nodes \ {n}
    BY <1>1, <1>2, <1>6 DEF Begun, Placed, Opened, Active
  <2>2. Kids(Parent(m))' = Kids(Parent(m))
    <3>1. Parent(m)' = Parent(m) /\ Parent(m) \in Nodes \ {n}
      BY <1>3, <2>1
    <3> QED BY <1>2, <3>1 DEF Kids, Body
  <2> QED BY <1>2, <1>3, <2>1, <2>2
<1>7. Begun'
  BY <1>1, <1>2, <1>5, <1>6 DEF Begun
<1>8. ASSUME NEW p \in Nodes, plan[p].kind # "parallel",
             NEW i \in DOMAIN Body(p)', NEW j \in DOMAIN Body(p)', j < i,
             st'[Body(p)'[i]] # "idle"
      PROVE  st'[Body(p)'[j]] = "done"
  <2>1. CASE p = n
    <3>1. Body(p)'[i] \in Nodes /\ HasParent(Body(p)'[i]) /\ Parent(Body(p)'[i]) = n
      BY <1>1, <2>1, KidsLater DEF Opened
    <3>2. Body(p)'[i] # Root /\ Body(p)'[i] # n
      BY <1>1, <3>1, RootOK, PathAcyclic DEF Opened
    <3>3. st[Body(p)'[i]] # "idle"
      BY <1>2, <1>8, <3>1, <3>2
    <3> QED BY <1>1, <3>1, <3>2, <3>3 DEF Opened, Active
  <2>2. CASE p # n
    <3>0. Body(p)' = Body(p)
      BY <1>4, <2>2
    <3>1. Body(p)[i] \in Nodes /\ Body(p)[j] \in Nodes /\ Parent(Body(p)[i]) = p
      BY <1>1, <3>0, BodyOK DEF Opened
    <3>2. st[Body(p)[j]] = "done"
      <4>1. CASE Body(p)[i] = n
        BY <1>1, <1>8, <3>0, <3>1, <4>1 DEF Opened, Placed
      <4>2. CASE Body(p)[i] # n
        <5>1. Active(Body(p)[i])
          BY <1>2, <1>8, <3>0, <3>1, <4>2 DEF Active
        <5> QED BY <1>1, <1>8, <3>0, <5>1 DEF InOrder
      <4> QED BY <4>1, <4>2
    <3> QED BY <1>1, <1>2, <3>0, <3>1, <3>2 DEF Opened
  <2> QED BY <2>1, <2>2
<1>9. InOrder'
  BY <1>2, <1>8 DEF InOrder, Active
<1> QED BY <1>7, <1>9

LEMMA OpeningStops ==
  ASSUME RunnerInv, NEW n \in Nodes \ {Root}, NEW branch, Opening(n, branch)
  PROVE  Stops' /\ Closed'
<1>1. Opened(n, branch) /\ TypeOK /\ Stops /\ Closed
  BY OpenedOK DEF RunnerInv
<1>2. /\ \A m \in Nodes : st'[m] = IF m = n THEN "open" ELSE st[m]
      /\ \A m \in Nodes : taken'[m] = IF m = n THEN branch ELSE taken[m]
      /\ stopped' = stopped /\ plan' = plan /\ result' = result
  BY <1>1 DEF Opened, TypeOK
<1>3. \A p \in Nodes \ {n} : Body(p)' = Body(p) /\ Kids(p)' = Kids(p)
  BY <1>2, OtherBodiesKept
<1>4. ASSUME NEW p \in Nodes, stopped[p]
      PROVE  /\ p # n /\ plan[p].kind # "parallel"
             /\ \A c \in Kids(p) : st'[c] # "open"
             /\ \E c \in Kids(p) : st'[c] = "done" /\ result'[c].cat = "err"
  <2>1. /\ p # n /\ plan[p].kind # "parallel" /\ \A c \in Kids(p) : st[c] # "open"
        /\ \E c \in Kids(p) : st[c] = "done" /\ result[c].cat = "err"
    BY <1>1, <1>4 DEF Stops, Erred, Opened
  <2>2. \A c \in Kids(p) : c \in Nodes /\ Parent(c) = p
    BY <1>1, BodyOK DEF Opened
  <2>3. n \notin Kids(p)
    BY <1>1, <1>4, <2>1, <2>2 DEF Opened, Placed
  <2> QED BY <1>2, <2>1, <2>2, <2>3
<1>5. Stops'
  BY <1>2, <1>3, <1>4 DEF Stops, Erred
<1>6. ASSUME NEW p \in Nodes, st'[p] = "done", taken'[p] # "none"
      PROVE  /\ stopped'[p] \/ \A c \in Kids(p)' : st'[c] = "done"
             /\ result'[p].cat = Category(p)'
  <2>1. p # n /\ st[p] = "done" /\ taken[p] # "none"
    BY <1>2, <1>6
  <2>2. /\ stopped[p] \/ \A c \in Kids(p) : st[c] = "done"
        /\ result[p].cat = Category(p)
    BY <1>1, <2>1 DEF Closed
  <2>3. Category(p)' = Category(p)
    BY <1>2, <1>3, <2>1 DEF Category
  <2>4. \A c \in Kids(p) : c \in Nodes
    BY <1>1, BodyOK DEF Opened
  <2>5. \A c \in Kids(p) : st[c] = "done" => st'[c] = "done"
    BY <1>1, <1>2, <2>4 DEF Opened
  <2> QED BY <1>2, <1>3, <2>1, <2>2, <2>3, <2>5
<1>7. Closed'
  BY <1>6 DEF Closed
<1> QED BY <1>5, <1>7

LEMMA OpeningScopes ==
  ASSUME RunnerInv, NEW n \in Nodes \ {Root}, NEW branch, Opening(n, branch)
  PROVE  Scopes'
<1>1. /\ Opened(n, branch) /\ TypeOK /\ Scopes /\ n \in Path(n)
      /\ Owner(n) \in Path(n) /\ Owner(n) \in Nodes /\ Path(Owner(n)) \subseteq Path(n)
  BY OpenedOK, OwnerOK, PathOK, PathTransitive DEF RunnerInv, Opened, Placed
<1>2. \A m \in Nodes : st'[m] = IF m = n THEN "open" ELSE st[m]
  BY <1>1 DEF Opened, TypeOK
<1>3. \A w, m : Around(w, m)' = Around(w, m)
  BY <1>1, TreeKept DEF Opened, Around
<1>4. Around(n, n)
  BY DEF Around
<1>5. ASSUME NEW o \in Nodes, NEW x \in Names, scope'[o][x] # Nobody
      PROVE  st'[scope'[o][x]] = "done" /\ Around(scope'[o][x], o)
  <2>1. CASE scope'[o][x] = scope[o][x]
    <3>1. st[scope[o][x]] = "done" /\ Around(scope[o][x], o) /\ scope[o][x] \in Nodes
      BY <1>1, <1>5, <2>1 DEF Scopes, TypeOK
    <3> QED BY <1>1, <1>2, <2>1, <3>1 DEF Opened
  <2>2. CASE scope'[o][x] # scope[o][x]
    <3>1. Forking(n)
      BY <2>2 DEF Opening
    <3>2. o \in Range(plan[n].then) /\ scope'[o][x] = scope[Owner(n)][x]
      BY <2>2, <3>1 DEF Forking
    <3>3. /\ st[scope[Owner(n)][x]] = "done" /\ Around(scope[Owner(n)][x], Owner(n))
          /\ scope[Owner(n)][x] \in Nodes
      BY <1>1, <1>5, <3>2 DEF Scopes, TypeOK
    <3>4. o \in Below(plan, n)
      BY <3>2 DEF Below
    <3>5. HasParent(o) /\ Parent(o) = n
      BY <1>1, <3>4, ParentOK DEF HasParent, Opened
    <3>6. Path(n) \subseteq Path(o)
      BY <1>1, <3>5, PathOK DEF Opened
    <3> QED BY <1>1, <1>2, <3>2, <3>3, <3>6 DEF Around, Opened
  <2> QED BY <2>1, <2>2
<1>6. ASSUME NEW m \in Nodes, decider'[m] # Nobody PROVE Around(decider'[m], m)
  <2>1. CASE decider'[m] = decider[m]
    BY <1>1, <1>6, <2>1 DEF Scopes
  <2>2. CASE decider'[m] # decider[m]
    <3>1. PICK w \in Nodes :
            /\ decider' = [decider EXCEPT ![n] = w]
            /\ w = n \/ (plan[n].ref \in Names /\ w = scope[Owner(n)][plan[n].ref])
      BY <2>2 DEF Opening, DecidedBy
    <3>2. m = n /\ decider'[m] = w
      BY <1>1, <2>2, <3>1 DEF TypeOK
    <3>3. Around(w, n)
      <4>1. CASE w = n
        BY <1>4, <4>1
      <4>2. CASE plan[n].ref \in Names /\ w = scope[Owner(n)][plan[n].ref]
        <5>1. Around(w, Owner(n))
          BY <1>1, <4>2, NameAssumption DEF Scopes
        <5> QED BY <1>1, <5>1 DEF Around
      <4> QED BY <3>1, <4>1, <4>2
    <3> QED BY <3>2, <3>3
  <2> QED BY <2>1, <2>2
<1> QED BY <1>3, <1>5, <1>6 DEF Scopes

LEMMA OpeningApart ==
  ASSUME RunnerInv, NEW n \in Nodes \ {Root}, NEW branch, Opening(n, branch)
  PROVE  Apart' /\ (phase = "running" => Phases')
<1>1. Opened(n, branch) /\ TypeOK /\ Apart /\ Phases
  BY OpenedOK DEF RunnerInv
<1>2. \A m \in Nodes : st'[m] = IF m = n THEN "open" ELSE st[m]
  BY <1>1 DEF Opened, TypeOK
<1>3. \A m, k : Path(m)' = Path(m) /\ Separate(m, k)' = Separate(m, k)
  BY <1>1, TreeKept DEF Opened, Separate
<1> DEFINE p == Parent(n)
<1>4. /\ plan \in Plans /\ Placed(n) /\ st[n] = "idle" /\ p \in Nodes /\ st[p] = "open"
      /\ HasParent(n) /\ n \in Path(n) /\ p \in Path(n) /\ Path(p) \subseteq Path(n)
  BY <1>1, PathOK DEF Opened, Placed
<1>5. ASSUME NEW q \in Nodes, st[q] = "open"
      PROVE  q \in Path(n) \/ (Separate(n, q) /\ Separate(q, n))
  <2>1. CASE p \in Path(q) /\ p # q
    <3>1. /\ plan[p].kind = "parallel"
          /\ \E c \in Path(q) : /\ c # n /\ HasParent(c) /\ Parent(c) = p
                                /\ c \in Nodes /\ c # Root
      BY <1>4, <1>5, <2>1, OnTheWay
    <3>2. PICK c \in Path(q) : c # n /\ HasParent(c) /\ Parent(c) = p
      BY <3>1
    <3> QED BY <1>4, <3>1, <3>2, SeparateOK
  <2>2. CASE q \in Path(p) \/ p = q
    BY <1>4, <2>2
  <2>3. CASE Separate(p, q)
    BY <1>4, <2>3, SeparateInside, PathOK
  <2> QED BY <1>1, <1>4, <1>5, <2>1, <2>2, <2>3 DEF Apart
<1>6. ASSUME NEW a \in Nodes, NEW b \in Nodes, st'[a] = "open", st'[b] = "open"
      PROVE  a \in Path(b) \/ b \in Path(a) \/ Separate(a, b)
  <2>1. CASE a = n /\ b = n
    BY <1>4, <2>1
  <2>2. CASE a = n /\ b # n
    BY <1>2, <1>5, <1>6, <2>2
  <2>3. CASE a # n /\ b = n
    BY <1>2, <1>5, <1>6, <2>3
  <2>4. CASE a # n /\ b # n
    BY <1>1, <1>2, <1>6, <2>4 DEF Apart
  <2> QED BY <2>1, <2>2, <2>3, <2>4
<1>7. Apart'
  BY <1>3, <1>6 DEF Apart
<1>8. phase = "running" => phase' = "running" /\ st'[Root] = "open"
  BY <1>1, <1>2, PlanAssumption DEF Phases, Opened
<1> QED BY <1>7, <1>8 DEF Phases

LEMMA OpeningErrors ==
  ASSUME RunnerInv, NEW n \in Nodes \ {Root}, NEW branch, Opening(n, branch)
  PROVE  Errors'
<1>1. Opened(n, branch) /\ TypeOK /\ Begun /\ Errors
  BY OpenedOK DEF RunnerInv
<1>2. /\ \A m \in Nodes : st'[m] = IF m = n THEN "open" ELSE st[m]
      /\ \A m \in Nodes : taken'[m] = IF m = n THEN branch ELSE taken[m]
      /\ stopped' = stopped /\ plan' = plan /\ result' = result
  BY <1>1 DEF Opened, TypeOK
<1>3. \A m : IsBranch(m)' = IsBranch(m) /\ Parent(m)' = Parent(m) /\ Owner(m)' = Owner(m)
             /\ Deferred(m)' = Deferred(m)
  BY <1>2, TreeKept DEF Deferred
<1>4. \A m : Parent(m) \in Nodes \ {n} => HasNext(m)' = HasNext(m) /\ NextOf(m)' = NextOf(m)
  BY <1>2, OtherBodiesKept
<1>5. ASSUME NEW m \in Nodes \ {Root}, st'[m] = "done", result[m].cat = "err", ~IsBranch(m),
             ~stopped[Parent(m)]
      PROVE  Handled(m)'
  <2> DEFINE x == NextOf(m)
             Sees(sc) == Lookup(sc, result, x, plan[m].bind)
  <2>1. st[m] = "done" /\ HasParent(m) /\ m \in Kids(Parent(m)) /\ Parent(m) \in Nodes \ {n}
        /\ plan \in Plans
    BY <1>1, <1>2, <1>5 DEF Opened, Begun, Active
  <2>2. Handled(m)
    BY <1>1, <1>5, <2>1 DEF Errors, Erred
  <2>3. Deferred(m) /\ HasNext(m) /\ plan[x].kind = "if" /\ plan[x].ref = plan[m].bind
    BY <2>2 DEF Handled
  <2>4. x \in Nodes /\ Deferred(m)' /\ HasNext(m)' /\ NextOf(m)' = x
    BY <1>3, <1>4, <2>1, <2>3, IndexOK
  <2>5. \/ /\ st'[x] = "idle"
           /\ plan[x].else # <<>> \/ Truth(Sees(scope'), plan[x])
        \/ taken'[x] \in {"then", "preview"}
        \/ taken'[x] = "else" /\ plan[x].else # <<>>
    <3>1. CASE st[x] # "idle"
      <4>1. x # n
        BY <1>1, <3>1 DEF Opened
      <4> QED BY <1>2, <2>2, <2>4, <3>1, <4>1 DEF Handled
    <3>2. CASE st[x] = "idle" /\ x = n
      <4>1. plan[n].kind = "if" /\ plan[n].ref = plan[m].bind /\ plan[n].ref # NoName
        BY <2>3, <3>2 DEF Deferred
      <4>2. \/ branch = "preview"
            \/ branch = IF Truth(Sees(scope), plan[n]) THEN "then" ELSE "else"
        BY <3>2, <4>1 DEF Opening
      <4>3. plan[n].else # <<>> \/ Truth(Sees(scope), plan[n])
        BY <1>1, <2>2, <3>2 DEF Handled, Opened
      <4>4. taken'[n] = branch
        BY <1>2, <2>4, <3>2
      <4> QED BY <3>2, <4>2, <4>3, <4>4
    <3>3. CASE st[x] = "idle" /\ x # n
      <4>1. taken[x] = "none" /\ st'[x] = "idle"
        BY <1>1, <1>2, <2>4, <3>3 DEF Begun
      <4>2. plan[x].else # <<>> \/ Truth(Sees(scope), plan[x])
        BY <2>2, <4>1 DEF Handled
      <4>3. Waiting(m)
        BY <1>5, <2>1, <2>3, <3>3 DEF Waiting
      <4>4. Placed(n) /\ st[n] = "idle" /\ n \notin Path(x) /\ Root \in Path(x)
        BY <1>1, <3>3, <4>3, Elsewhere, WaitingOK DEF Opened
      <4>5. scope'[Owner(x)] = scope[Owner(x)]
        <5>1. Owner(x) \in Path(x) /\ Owner(x) \in Nodes
          BY <2>1, <2>4, <4>4, OwnerOK, PathOK
        <5>2. ASSUME Owner(x) \in Range(plan[n].then) PROVE FALSE
          <6>1. Owner(x) \in Below(plan, n)
            BY <5>2 DEF Below
          <6>2. HasParent(Owner(x)) /\ Parent(Owner(x)) = n
            BY <2>1, <4>4, <6>1, ParentOK DEF HasParent, Placed
          <6>3. n \in Path(Owner(x)) /\ Path(Owner(x)) \subseteq Path(x)
            BY <2>1, <2>4, <5>1, <6>2, PathOK, PathTransitive
          <6> QED BY <4>4, <6>3
        <5> QED BY <5>1, <5>2 DEF Opening, Forking
      <4>6. Sees(scope') = Sees(scope)
        BY <4>5 DEF Lookup
      <4> QED BY <4>1, <4>2, <4>6
    <3> QED BY <3>1, <3>2, <3>3
  <2>6. Sees(scope') = Lookup(scope, result, x, plan[m].bind)'
    <3>1. Lookup(scope, result, x, plan[m].bind)' = Lookup(scope', result', x', plan[m].bind)
      BY <1>2, <1>3, <2>4 DEF Lookup
    <3> QED BY <1>2, <2>4, <3>1
  <2> QED BY <1>2, <2>3, <2>4, <2>5, <2>6 DEF Handled
<1>6. ASSUME NEW m \in Nodes \ {Root}, Erred(m)', ~IsBranch(m)', ~stopped'[Parent(m)']
      PROVE  Handled(m)'
  BY <1>2, <1>3, <1>5, <1>6 DEF Erred
<1> QED BY <1>6 DEF Errors

-----------------------------------------------------------------------------
(* The steps of the job itself.                                            *)
Kept ==
  UNCHANGED <<plan, mode, st, result, taken, stopped, scope, decider>>

LEMMA NothingMoves ==
  ASSUME RunnerInv, Kept, phase' \in {"start", "running", "over"}
  PROVE  TypeOK' /\ Begun' /\ InOrder' /\ Stops' /\ Closed' /\ Errors' /\ Scopes' /\ Apart'
<1> USE DEF Kept
<1>1. /\ \A m : /\ HasParent(m)' = HasParent(m) /\ Parent(m)' = Parent(m) /\ Path(m)' = Path(m)
                /\ IsBranch(m)' = IsBranch(m) /\ Owner(m)' = Owner(m)
                /\ Body(m)' = Body(m) /\ Kids(m)' = Kids(m)
                /\ HasNext(m)' = HasNext(m) /\ NextOf(m)' = NextOf(m)
  BY TreeKept, BodiesKept
<1>2. /\ \A m : Deferred(m)' = Deferred(m) /\ Category(m)' = Category(m)
      /\ \A m, k : Around(m, k)' = Around(m, k) /\ Separate(m, k)' = Separate(m, k)
  BY <1>1 DEF Deferred, Category, Around, Separate
<1>3. \A m : Handled(m)' = Handled(m)
  <2>1. \A m : Owner(NextOf(m))' = Owner(NextOf(m))
    BY <1>1, TreeKept DEF Owner
  <2> QED BY <1>1, <1>2, <2>1 DEF Handled, Lookup
<1>4. TypeOK'
  BY <1>1 DEF RunnerInv, TypeOK
<1>5. Begun' /\ InOrder'
  <2>1. \A m : Kids(Parent(m))' = Kids(Parent(m))
    BY <1>1 DEF Kids, Body
  <2> QED BY <1>1, <2>1 DEF RunnerInv, Begun, InOrder, Active
<1>6. Stops' /\ Closed'
  BY <1>1, <1>2 DEF RunnerInv, Stops, Closed, Erred
<1>7. Errors'
  BY <1>1, <1>3 DEF RunnerInv, Errors, Erred
<1>8. Scopes' /\ Apart'
  BY <1>1, <1>2 DEF RunnerInv, Scopes, Apart
<1> QED BY <1>4, <1>5, <1>6, <1>7, <1>8

LEMMA InitKept == Init => RunnerInv
<1> SUFFICES ASSUME Init PROVE RunnerInv
  OBVIOUS
<1>1. plan \in Plans /\ mode \in Modes /\ Root \in Nodes
  BY PlanAssumption DEF Init
<1>2. TypeOK
  BY DEF Init, TypeOK, Results, Ok
<1>3. Begun /\ InOrder /\ Stops /\ Closed /\ Errors /\ Scopes /\ Apart
  <2>1. InOrder
    <3>1. \A p \in Nodes : \A i \in DOMAIN Body(p) : Body(p)[i] \in Nodes
      BY <1>1, BodyOK
    <3> QED BY <3>1 DEF Init, InOrder, Active
  <2> QED BY <1>1, <2>1 DEF Init, Begun, Stops, Closed, Errors, Erred, Scopes, Apart, Active
<1>4. Phases
  BY DEF Init, Phases
<1> QED BY <1>1, <1>2, <1>3, <1>4 DEF RunnerInv

LEMMA StartKept == RunnerInv /\ Start => RunnerInv'
<1> SUFFICES ASSUME RunnerInv, Start PROVE RunnerInv'
  OBVIOUS
<1>1. /\ phase = "start" /\ phase' = "running" /\ \A m \in Nodes : st[m] = "idle"
      /\ st' = [st EXCEPT ![Root] = "open"] /\ taken' = [taken EXCEPT ![Root] = "then"]
      /\ UNCHANGED <<plan, mode, result, stopped, scope, decider, response>>
      /\ TypeOK /\ Begun /\ Root \in Nodes /\ plan \in Plans
  BY PlanAssumption DEF Start, Enter, RunnerInv, Phases
<1>2. /\ \A m \in Nodes : st'[m] = IF m = Root THEN "open" ELSE "idle"
      /\ \A m \in Nodes : taken'[m] = IF m = Root THEN "then" ELSE "none"
      /\ \A m \in Nodes : ~stopped[m]
  BY <1>1 DEF TypeOK, Begun
<1>3. /\ \A m : HasParent(m)' = HasParent(m) /\ Path(m)' = Path(m)
      /\ \A m, k : Around(m, k)' = Around(m, k)
  BY <1>1, TreeKept DEF Around
<1>4. TypeOK'
  BY <1>1, <1>2 DEF TypeOK
<1>5. Begun'
  BY <1>1, <1>2, PlanOK DEF Begun, Active
<1>6. InOrder'
  <2>1. \A p \in Nodes : \A i \in DOMAIN Body(p)' : Body(p)'[i] \in Nodes \ {Root}
    BY <1>1, KidsLater, RootOK
  <2> QED BY <1>2, <2>1 DEF InOrder, Active
<1>7. Stops' /\ Closed' /\ Errors'
  BY <1>1, <1>2 DEF Stops, Closed, Errors, Erred
<1>8. Scopes'
  <2>1. \A o \in Nodes, x \in Names : scope[o][x] # Nobody => FALSE
    BY <1>1 DEF RunnerInv, Scopes, TypeOK
  <2> QED BY <1>1, <1>3, <2>1 DEF RunnerInv, Scopes
<1>9. Apart'
  BY <1>1, <1>2, <1>3, PathOK DEF Apart
<1>10. Phases'
  BY <1>1, <1>2 DEF Phases
<1> QED BY <1>1, <1>4, <1>5, <1>6, <1>7, <1>8, <1>9, <1>10 DEF RunnerInv

LEMMA EndsKept ==
  RunnerInv /\ (Undecoded \/ Preflight \/ Finish \/ UNCHANGED vars) => RunnerInv'
<1> SUFFICES ASSUME RunnerInv, Undecoded \/ Preflight \/ Finish \/ UNCHANGED vars
             PROVE  RunnerInv'
  OBVIOUS
<1>1. Kept /\ phase' \in {"start", "running", "over"}
  BY DEF Undecoded, Preflight, Finish, Enter, Kept, vars, RunnerInv, TypeOK
<1>2. Phases'
  <2>1. CASE Undecoded \/ Preflight
    <3>1. phase' = "over" /\ \A n \in Nodes : st'[n] = "idle"
      BY <2>1 DEF Undecoded, Preflight, Enter, RunnerInv, Phases
    <3>2. response' \in Responses /\ (response'.error \/ response'.halted)
      <4>1. CASE Undecoded
        <5>1. response' = [error |-> TRUE, errs |-> {}, halted |-> FALSE]
          BY <4>1 DEF Undecoded, Clean
        <5> QED BY <5>1 DEF Responses
      <4>2. CASE Preflight
        BY <4>2 DEF Preflight, Responses
      <4> QED BY <2>1, <4>1, <4>2
    <3> QED BY <3>1, <3>2 DEF Phases
  <2>2. CASE Finish
    <3>1. phase = "running" /\ RunsOut(Root) /\ phase' = "over" /\ response' = Verdict
      BY <2>2 DEF Finish, Verdict
    <3>2. Verdict' = Verdict
      BY <1>1 DEF Verdict, Listed, CaughtStep, Kept
    <3>3. ASSUME NEW n \in Nodes \ {Root}, st[n] = "open" PROVE FALSE
      <4>1. plan \in Plans /\ Root \in Path(n) /\ n # Root
        BY <3>3 DEF RunnerInv, Begun, Active
      <4>2. PICK c \in Path(n) : HasParent(c) /\ Parent(c) = Root
        BY <4>1, PathChild
      <4>3. st[c] = "open" /\ c \in Nodes /\ c # Root
        BY <3>3, <4>1, <4>2, AroundOpen, PathOK, RootOK
      <4>4. c \in Kids(Root)
        BY <4>2, <4>3 DEF RunnerInv, Begun, Active
      <4>5. stopped[Root] => \A k \in Kids(Root) : st[k] # "open"
        BY PlanAssumption DEF RunnerInv, Stops
      <4> QED BY <3>1, <4>3, <4>4, <4>5 DEF RunsOut, Kids
    <3>4. RunsOut(Root)'
      BY <1>1, <3>1 DEF Kept, RunsOut, Body
    <3>5. response' = Verdict'
      BY <3>1, <3>2
    <3> QED BY <1>1, <3>1, <3>3, <3>4, <3>5 DEF Phases, Kept
  <2>3. CASE UNCHANGED vars
    <3>1. RunsOut(Root)' = RunsOut(Root) /\ Verdict' = Verdict
      BY <2>3 DEF vars, RunsOut, Body, Verdict, Listed, CaughtStep
    <3> QED BY <2>3, <3>1 DEF vars, Phases, RunnerInv
  <2> QED BY <2>1, <2>2, <2>3
<1> QED BY <1>1, <1>2, NothingMoves DEF RunnerInv, Kept

LEMMA StepKept == RunnerInv /\ (\E n \in Nodes : StepOf(n)) => RunnerInv'
<1> SUFFICES ASSUME RunnerInv, NEW n \in Nodes, StepOf(n) PROVE RunnerInv'
  OBVIOUS
<1>1. phase = "running" /\ n \in Nodes \ {Root}
  BY OnlyWhileRunning DEF RunnerInv
<1>2. CASE \E r : Closing(n, r)
  <2>1. PICK r : Closing(n, r)
    BY <1>2
  <2>2. plan' \in Plans /\ mode' \in Modes
    BY <1>1, <2>1, ReturnedOK DEF Returned, RunnerInv
  <2> QED
    BY <1>1, <2>1, <2>2, ClosingType, ClosingBegun, ClosingStops, ClosingClosed, ClosingErrors,
       ClosingScopes, ClosingApart DEF RunnerInv
<1>3. CASE \E branch : Opening(n, branch)
  <2>1. PICK branch : Opening(n, branch)
    BY <1>3
  <2>2. plan' \in Plans /\ mode' \in Modes
    BY <1>1, <2>1, OpenedOK DEF Opened, RunnerInv
  <2> QED
    BY <1>1, <2>1, <2>2, OpeningType, OpeningBegun, OpeningStops, OpeningErrors,
       OpeningScopes, OpeningApart DEF RunnerInv
<1> QED BY <1>2, <1>3, StepKinds DEF RunnerInv

(* The inductive invariant, for every plan: where each call of runStep is, *)
(* what its captures are and what became of its errors.                    *)
THEOREM RunnerInvariant == Spec => []RunnerInv
<1>1. RunnerInv /\ [Next]_vars => RunnerInv'
  BY StartKept, EndsKept, StepKept DEF Next, Over
<1> QED BY <1>1, InitKept, PTL DEF Spec

(* Every call of runStep is inside the one that made it, and each history  *)
(* is of its type (runSteps, runIf, runStep; agent.go:149-322).            *)
THEOREM RunnerTypeCorrect == Spec => []TypeOK
<1>1. RunnerInv => TypeOK
  BY DEF RunnerInv
<1> QED BY <1>1, RunnerInvariant, PTL

-----------------------------------------------------------------------------
LEMMA RootKids ==
  ASSUME RunnerInv
  PROVE  /\ Kids(Root) = Range(plan[Root].then) /\ Root \in Nodes
         /\ \A n \in Kids(Root) : /\ n \in Nodes \ {Root} /\ HasParent(n) /\ Parent(n) = Root
                                  /\ ~IsBranch(n)
<1>1. plan \in Plans /\ Root \in Nodes /\ plan[Root].kind = "as"
  BY PlanAssumption DEF RunnerInv
<1>2. taken[Root] # "else"
  BY <1>1 DEF RunnerInv, Begun
<1> QED BY <1>1, <1>2, BodyOK, RootOK DEF Kids, Body, IsBranch

(* What runRequest answers is one of the responses the orchestrator's      *)
(* verdict was written for, and one that is not halted is of a block run   *)
(* to its end with no failure but those caught (runRequest, agent.go;      *)
(* orchestrator.go:390, report.go:249-259).                                *)
THEOREM ResponsesFit == Spec => []ResponseFits
<1>1. RunnerInv => ResponseFits
  <2> SUFFICES ASSUME RunnerInv, phase = "over"
               PROVE  /\ response \in Responses
                      /\ ~response.error /\ ~response.halted =>
                           \A n \in Range(plan[Root].then) :
                             st[n] = "done" /\ (result[n].cat = "err" => CaughtStep(n))
    BY DEF ResponseFits
  <2>1. CASE response \in Responses /\ (response.error \/ response.halted)
    BY <2>1
  <2>2. CASE RunsOut(Root) /\ response = Verdict
    <3>1. \A n \in Kids(Root) : n \in Nodes \ {Root} /\ Parent(n) = Root /\ ~IsBranch(n)
      BY RootKids
    <3>2. Kids(Root) = Range(plan[Root].then)
      BY RootKids
    <3>3. ASSUME NEW n \in Kids(Root), Erred(n), ~CaughtStep(n) PROVE stopped[Root]
      <4>1. ~Handled(n)
        BY <3>3 DEF Handled, Deferred, CaughtStep
      <4> QED BY <3>1, <3>3, <4>1 DEF RunnerInv, Errors
    <3>4. response.error = FALSE /\ response.halted = stopped[Root]
          /\ response.errs = {IF CaughtStep(n) THEN "caught" ELSE "plain" :
                                n \in {m \in Listed : result[m].cat = "err"}}
      BY <2>2 DEF Verdict
    <3>5. Listed = {n \in Kids(Root) : st[n] = "done"}
      BY <3>2 DEF Listed
    <3>6. "plain" \in response.errs => response.halted
      BY <3>3, <3>4, <3>5 DEF Erred
    <3>7. response.halted => response.errs # {}
      <4>1. stopped[Root] => \E n \in Kids(Root) : Erred(n)
        BY RootKids DEF RunnerInv, Stops
      <4> QED BY <3>4, <3>5, <4>1 DEF Erred
    <3>8. response \in Responses
      <4>1. stopped[Root] \in BOOLEAN /\ response.errs \subseteq {"plain", "caught"}
        BY <3>4, RootKids DEF RunnerInv, TypeOK
      <4>2. response \in [error : BOOLEAN, errs : SUBSET {"plain", "caught"}, halted : BOOLEAN]
        BY <2>2, <3>4, <4>1 DEF Verdict
      <4> QED BY <3>4, <3>6, <3>7, <4>2 DEF Responses
    <3>9. ASSUME ~response.halted, NEW n \in Kids(Root)
          PROVE  st[n] = "done" /\ (result[n].cat = "err" => CaughtStep(n))
      <4>1. ~stopped[Root] /\ st[n] = "done"
        BY <2>2, <3>4, <3>9 DEF RunsOut, Kids
      <4> QED BY <3>3, <4>1 DEF Erred
    <3> QED BY <3>2, <3>8, <3>9
  <2> QED BY <2>1, <2>2 DEF RunnerInv, Phases
<1> QED BY <1>1, RunnerInvariant, PTL

-----------------------------------------------------------------------------
(* An error nobody covers is that of its block, once the block is done.    *)
Loose(k) == Erred(k) /\ ~Covered(k)

LEMMA Rises ==
  ASSUME RunnerInv, NEW k \in Nodes \ {Root}, Loose(k),
         st[Parent(k)] = "done", taken[Parent(k)] # "preview"
  PROVE  Loose(Parent(k)) /\ Parent(k) \in Nodes \ {Root}
<1> DEFINE q == Parent(k)
<1>1. /\ plan \in Plans /\ HasParent(k) /\ taken[q] # "none" /\ k \in Kids(q) /\ q \in Nodes
      /\ q # Root /\ st[k] = "done"
  BY ParentOK DEF Loose, Erred, RunnerInv, Begun, Active
<1>2. /\ stopped[q] \/ \A c \in Kids(q) : st[c] = "done"
      /\ result[q].cat = Category(q)
  BY <1>1 DEF RunnerInv, Closed
<1>3. Category(q) = "err"
  <2>1. CASE IsBranch(k)
    BY <1>1, <2>1 DEF Category, IsBranch, Loose, Erred, Kids
  <2>2. CASE ~IsBranch(k)
    <3>1. stopped[q] \/ Handled(k)
      BY <2>2 DEF RunnerInv, Errors, Loose
    <3>2. Handled(k) => HasNext(k) /\ st[NextOf(k)] = "idle"
      BY DEF Handled, Covered, Loose
    <3>3. HasNext(k) => NextOf(k) \in Kids(q)
      BY <1>1, IndexOK
    <3>4. stopped[q]
      BY <1>2, <3>1, <3>2, <3>3
    <3> QED BY <3>4 DEF Category
  <2> QED BY <2>1, <2>2
<1>4. ~Covered(q)
  BY <1>1 DEF Covered, Deferred, RunnerInv, Begun
<1> QED BY <1>1, <1>2, <1>3, <1>4 DEF Loose, Erred

LEMMA PreviewsOfParent ==
  ASSUME plan \in Plans, NEW k \in Nodes, HasParent(k)
  PROVE  Previews(Parent(k)) \subseteq Previews(k)
BY PathOK, PathAcyclic DEF Previews

(* "By default a step that returns err halts the plan" (language.md:322):  *)
(* through every block and branch around it, unless the `if` that follows  *)
(* took a branch for it or the step was only previewed (runSteps, runStep; *)
(* agent.go:149-322).                                                      *)
THEOREM ErrorsHalt == Spec => []ErrorsHaltOrAreCovered
<1>1. RunnerInv => ErrorsHaltOrAreCovered
  <2> SUFFICES ASSUME RunnerInv, phase = "over", NEW n \in Nodes \ {Root},
                      Loose(n), Previews(n) = {}
               PROVE  response.halted /\ \A p \in Path(n) \ {Root} : Erred(p)
    BY DEF ErrorsHaltOrAreCovered, Loose
  <2>1. plan \in Plans /\ n \in Path(n) /\ st[n] = "done" /\ Root \in Path(n)
    BY PathOK DEF RunnerInv, Loose, Erred, Begun, Active
  <2>2. RunsOut(Root) /\ response.halted = stopped[Root]
        /\ \A m \in Nodes \ {Root} : st[m] # "open"
    BY <2>1 DEF RunnerInv, Phases, Verdict
  <2> DEFINE s == {k \in Nodes : k = Root \/ (Loose(k) /\ Previews(k) = {})}
  <2>3. ASSUME NEW k \in s, HasParent(k) PROVE Parent(k) \in s
    <3>1. CASE Parent(k) = Root
      BY <3>1, PlanAssumption
    <3>2. CASE Parent(k) # Root
      <4>1. k \in Nodes \ {Root} /\ Loose(k) /\ Previews(k) = {}
        BY <2>1, <2>3, RootOK
      <4>2. Parent(k) \in Nodes /\ taken[Parent(k)] # "none"
        BY <2>1, <2>3, <4>1, ParentOK DEF RunnerInv, Begun, Active, Loose, Erred
      <4>3. st[Parent(k)] = "done"
        BY <2>2, <3>2, <4>2 DEF RunnerInv, Begun, TypeOK
      <4>4. Parent(k) \in Path(k) /\ Parent(k) # k
        BY <2>1, <2>3, PathOK, PathAcyclic
      <4>5. taken[Parent(k)] # "preview"
        BY <4>1, <4>4 DEF Previews
      <4> QED BY <2>1, <2>3, <4>1, <4>3, <4>5, Rises, PreviewsOfParent
    <3> QED BY <3>1, <3>2
  <2>4. Path(n) \subseteq s
    BY <2>1, <2>3, PathInside
  <2>5. PICK c \in Path(n) : HasParent(c) /\ Parent(c) = Root
    BY <2>1, PathChild
  <2>6. c \in Nodes \ {Root} /\ Loose(c)
    BY <2>1, <2>4, <2>5, RootOK
  <2>7. c \in Kids(Root) /\ ~IsBranch(c)
    BY <2>5, <2>6, RootKids DEF RunnerInv, Begun, Active, Loose, Erred
  <2>8. stopped[Root]
    <3>1. stopped[Root] \/ Handled(c)
      BY <2>5, <2>6, <2>7 DEF RunnerInv, Errors, Loose
    <3>2. Handled(c) => HasNext(c) /\ st[NextOf(c)] = "idle"
      BY <2>6 DEF Handled, Covered, Loose
    <3>3. HasNext(c) => NextOf(c) \in Kids(Root)
      BY <2>1, <2>5, <2>7, IndexOK
    <3> QED BY <2>2, <3>1, <3>2, <3>3 DEF RunsOut, Kids
  <2> QED BY <2>2, <2>4, <2>8 DEF Loose
<1> QED BY <1>1, RunnerInvariant, PTL

(* "captures inside parallel don't escape", and are not seen by a branch   *)
(* beside (runStep, agent.go:290): what decides an `if` was captured in no *)
(* branch that is not around the `if` as well.                             *)
THEOREM BranchesStayIsolated == Spec => []BranchesAreIsolated
<1>1. RunnerInv => BranchesAreIsolated
  BY DEF RunnerInv, Scopes, Around, BranchesAreIsolated
<1> QED BY <1>1, RunnerInvariant, PTL

-----------------------------------------------------------------------------
LEMMA BeginsOK ==
  ASSUME RunnerInv, Next, NEW n \in Nodes \ {Root}, st[n] = "idle", st'[n] # "idle"
  PROVE  Placed(n)
<1>1. PICK k \in Nodes : StepOf(k)
  BY PlanAssumption DEF Next, Undecoded, Preflight, Start, Finish, Over, vars, RunnerInv, TypeOK
<1>2. k \in Nodes \ {Root} /\ plan \in Plans
  BY <1>1, OnlyWhileRunning DEF RunnerInv
<1>3. CASE \E r : Closing(k, r)
  <2>1. PICK r : Closing(k, r)
    BY <1>3
  <2>2. st' = [st EXCEPT ![k] = "done"]
    BY <1>2, <2>1, ReturnedOK DEF Returned
  <2>3. k = n
    BY <2>2 DEF RunnerInv, TypeOK
  <2>4. Due(n)
    BY <2>1, <2>3 DEF Closing, RunsOut
  <2> QED BY <2>4, PlacedOK
<1>4. CASE \E branch : Opening(k, branch)
  <2>1. PICK branch : Opening(k, branch)
    BY <1>4
  <2>2. st' = [st EXCEPT ![k] = "open"] /\ Due(k)
    BY <1>2, <2>1, OpenedOK DEF Opened, Opening
  <2>3. k = n
    BY <2>2 DEF RunnerInv, TypeOK
  <2> QED BY <2>2, <2>3, PlacedOK
<1> QED BY <1>1, <1>3, <1>4, StepKinds DEF RunnerInv

(* Going up from an error nobody covers, seen from a step that begins in   *)
(* no preview but those around the error: errors, up to one whose block    *)
(* still runs.                                                             *)
LEMMA StillRuns ==
  ASSUME RunnerInv, NEW n, Placed(n), NEW m \in Nodes \ {Root}, Loose(m),
         Previews(m) \subseteq Previews(n)
  PROVE  \E k \in Path(m) \ {Root} :
           /\ Loose(k) /\ st[Parent(k)] = "open" /\ HasParent(k) /\ k \in Nodes
           /\ Parent(k) \in Nodes /\ k \in Kids(Parent(k))
<1> DEFINE s == {k \in Path(m) \ {Root} : Loose(k) /\ Previews(k) \subseteq Previews(n)}
<1>1. plan \in Plans /\ m \in Path(m) /\ Path(m) \subseteq Nodes /\ n \in Nodes
  BY PathOK DEF RunnerInv, Placed
<1>2. ASSUME NEW k \in s
      PROVE  /\ HasParent(k) /\ Parent(k) \in Nodes /\ k \in Kids(Parent(k)) /\ k \in Nodes
             /\ st[Parent(k)] \in {"open", "done"}
  <2>1. HasParent(k) /\ taken[Parent(k)] # "none" /\ k \in Kids(Parent(k)) /\ k \in Nodes
    BY <1>1 DEF RunnerInv, Begun, Active, Loose, Erred
  <2>2. Parent(k) \in Nodes
    BY <1>1, <2>1, ParentOK
  <2> QED BY <2>1, <2>2 DEF RunnerInv, Begun, TypeOK
<1>3. ASSUME NEW k \in s, st[Parent(k)] = "done" PROVE Parent(k) \in s
  <2>1. k \in Nodes \ {Root} /\ Loose(k) /\ HasParent(k) /\ Parent(k) \in Nodes
    BY <1>2
  <2>2. Parent(k) \in Path(k) /\ Parent(k) # k /\ Path(k) \subseteq Path(m)
    BY <1>1, <2>1, PathOK, PathAcyclic, PathTransitive
  <2>3. taken[Parent(k)] # "preview"
    <3>1. SUFFICES ASSUME taken[Parent(k)] = "preview" PROVE FALSE
      OBVIOUS
    <3>2. Parent(k) \in Path(n) \ {n}
      BY <2>2, <3>1 DEF Previews
    <3>3. Parent(k) \in Path(Parent(n))
      BY <1>1, <3>2, PathOK
    <3>4. st[Parent(k)] = "open"
      BY <3>3, AroundOpen DEF Placed
    <3> QED BY <1>3, <3>4
  <2>4. Loose(Parent(k)) /\ Parent(k) \in Nodes \ {Root}
    BY <1>3, <2>1, <2>3, Rises
  <2> QED BY <1>1, <2>1, <2>2, <2>4, PreviewsOfParent
<1>4. \E k \in s : st[Parent(k)] # "done"
  <2>1. s \in SUBSET Nodes /\ m \in s
    BY <1>1
  <2> QED BY <1>1, <1>2, <1>3, <2>1, Upwards
<1> QED BY <1>2, <1>4

(* "nothing is built on a broken base" (language.md:322): no step begins   *)
(* after an error that nothing covers, but in another branch, outside the  *)
(* preview the error is in, or as the `if` that handles it (runSteps,      *)
(* handlesCaught, runStep; agent.go:149-322).                              *)
THEOREM NothingIsBuiltOnErrors == Spec => NothingOnBrokenBase
<1>1. ASSUME RunnerInv, Next, NEW m \in Nodes \ {Root}, NEW n \in Nodes \ {Root},
             st[n] = "idle", st'[n] # "idle", Erred(m),
             ~Separate(m, n), Previews(m) \subseteq Previews(n), ~Covered(m)
      PROVE  Deferred(m) /\ HasNext(m) /\ n = NextOf(m)
  <2>1. Placed(n) /\ plan \in Plans /\ Loose(m)
    BY <1>1, BeginsOK DEF RunnerInv, Loose
  <2>2. PICK k \in Path(m) \ {Root} :
          /\ Loose(k) /\ st[Parent(k)] = "open" /\ HasParent(k) /\ k \in Nodes
          /\ Parent(k) \in Nodes /\ k \in Kids(Parent(k))
    BY <1>1, <2>1, StillRuns
  <2> DEFINE p == Parent(n)
             q == Parent(k)
  <2>3. /\ p \in Nodes /\ st[p] = "open" /\ HasParent(n) /\ n \in Kids(p) /\ n \in Path(n)
        /\ p \in Path(n) /\ Path(p) \subseteq Path(n)
    BY <2>1, PathOK DEF Placed
  <2>4. st[k] = "done" /\ q \in Path(m) /\ k # n
    <3>1. Path(k) \subseteq Path(m) /\ q \in Path(k)
      BY <2>1, <2>2, PathOK, PathTransitive
    <3> QED BY <1>1, <2>2, <3>1 DEF Loose, Erred
  <2>5. plan[q].kind # "parallel" =>
          stopped[q] \/ (Deferred(k) /\ HasNext(k) /\ st[NextOf(k)] = "idle")
    <3>1. plan[q].kind # "parallel" => ~IsBranch(k)
      BY DEF IsBranch
    <3>2. ~IsBranch(k) => stopped[q] \/ Handled(k)
      BY <1>1, <2>2 DEF RunnerInv, Errors, Loose
    <3> QED BY <2>2, <3>1, <3>2 DEF Handled, Covered, Loose
  <2>6. CASE Separate(p, q)
    BY <1>1, <2>1, <2>3, <2>4, <2>6, SeparateInside
  <2>7. CASE p \in Path(q) /\ p # q
    <3>1. /\ plan[p].kind = "parallel"
          /\ \E c \in Path(q) : /\ c # n /\ HasParent(c) /\ Parent(c) = p
                                /\ c \in Nodes /\ c # Root
      BY <1>1, <2>1, <2>2, <2>3, <2>7, OnTheWay
    <3>2. PICK c \in Path(q) : c # n /\ HasParent(c) /\ Parent(c) = p
      BY <3>1
    <3>3. c \in Path(m)
      BY <2>1, <2>4, <3>2, PathTransitive
    <3> QED BY <1>1, <2>1, <2>3, <3>1, <3>2, <3>3, SeparateOK
  <2>8. CASE q \in Path(p) /\ p # q
    <3>1. PICK c \in Path(p) : HasParent(c) /\ Parent(c) = q
      BY <2>1, <2>3, <2>8, PathChild
    <3>2. c \in Nodes /\ c # Root /\ st[c] = "open" /\ c \in Path(n) /\ c # k
      BY <1>1, <2>1, <2>3, <2>4, <3>1, AroundOpen, PathOK, RootOK
    <3>3. c \in Kids(q)
      BY <1>1, <3>1, <3>2 DEF RunnerInv, Begun, Active
    <3>4. CASE plan[q].kind = "parallel"
      BY <1>1, <2>1, <2>2, <3>1, <3>2, <3>4, SeparateOK
    <3>5. CASE plan[q].kind # "parallel"
      <4>1. ~stopped[q]
        BY <1>1, <2>2, <3>2, <3>3 DEF RunnerInv, Stops
      <4>2. HasNext(k) /\ st[NextOf(k)] = "idle"
        BY <2>5, <3>5, <4>1
      <4>3. Waiting(k)
        BY <2>2, <2>4, <3>5, <4>1, <4>2 DEF Waiting, IsBranch
      <4> QED BY <1>1, <3>2, <3>3, <4>2, <4>3, WaitingOK
    <3> QED BY <3>4, <3>5
  <2>9. CASE p = q
    <3>1. CASE plan[q].kind = "parallel"
      BY <1>1, <2>1, <2>2, <2>3, <2>4, <2>9, <3>1, SeparateOK
    <3>2. CASE plan[q].kind # "parallel"
      <4>1. ~stopped[q]
        BY <2>1, <2>9, <3>2 DEF Placed
      <4>2. Deferred(k) /\ HasNext(k) /\ st[NextOf(k)] = "idle"
        BY <2>5, <3>2, <4>1
      <4>3. Waiting(k)
        BY <2>2, <2>4, <3>2, <4>1, <4>2 DEF Waiting, IsBranch
      <4>4. n = NextOf(k)
        BY <1>1, <2>1, <2>9, <4>3, Elsewhere, SameBlock
      <4>5. k = m
        BY <1>1, <4>2, AroundBegun DEF Deferred, Erred, Active
      <4> QED BY <4>2, <4>4, <4>5
    <3> QED BY <3>1, <3>2
  <2> QED BY <1>1, <2>2, <2>3, <2>6, <2>7, <2>8, <2>9 DEF RunnerInv, Apart
<1>2. RunnerInv /\ [Next]_vars =>
        [\A m, n \in Nodes \ {Root} :
           st[n] = "idle" /\ st'[n] # "idle" /\ Erred(m) =>
             \/ Separate(m, n)
             \/ ~(Previews(m) \subseteq Previews(n))
             \/ Deferred(m) /\ HasNext(m) /\ n = NextOf(m)
             \/ Covered(m)]_vars
  BY <1>1
<1> QED BY <1>2, RunnerInvariant, PTL DEF Spec, NothingOnBrokenBase
=============================================================================
