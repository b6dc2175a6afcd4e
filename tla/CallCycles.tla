----------------------------- MODULE CallCycles -----------------------------
(***************************************************************************)
(* CheckCycles and walk (lang/cycles.go): the search for a def that calls  *)
(* itself, through others or not, over the defs of the project and the     *)
(* standard library, with the lookup of a run (cycleResolver, project.go). *)
(*                                                                         *)
(* The recursion of walk is a stack here: chain is its chain, and          *)
(* rest[i] what the loop over Callees of chain[i] has left.                *)
(***************************************************************************)
EXTENDS Naturals, Sequences, FiniteSets

CONSTANTS
  Defs,      \* the names of defs that resolve, the standard library's too
  UserDefs,  \* those the project defines or imports
  Graphs     \* the call graphs considered: [Defs -> SUBSET Defs]

ASSUME DefsAssumption == UserDefs \subseteq Defs /\ IsFiniteSet(Defs)
ASSUME GraphsAssumption == Graphs \subseteq [Defs -> SUBSET Defs]

VARIABLES
  calls,   \* calls[d]: Callees of d
  roots,   \* the user defs CheckCycles has yet to walk from
  chain,   \* the defs whose walk has not returned, outermost first
  rest,    \* rest[i]: the callees of chain[i] not walked yet
  done,    \* the defs whose walk has returned
  verdict  \* "walking", "acyclic" or "cycle"

cycleVars == <<calls, roots, chain, rest, done, verdict>>

OnPath == {chain[i] : i \in 1 .. Len(chain)}

CycleInit ==
  /\ calls \in Graphs
  /\ roots = UserDefs
  /\ chain = <<>>
  /\ rest = <<>>
  /\ done = {}
  /\ verdict = "walking"

(* walk(d) of a def that is not on the path.                               *)
Enter(d) ==
  /\ chain' = Append(chain, d)
  /\ rest' = Append(rest, calls[d])

(* The sorted names of the loop are any order here: only which of several  *)
(* circles is named depends on it.                                         *)
WalkRoot(d) ==
  /\ verdict = "walking" /\ chain = <<>>
  /\ d \in roots
  /\ roots' = roots \ {d}
  /\ IF d \in done THEN UNCHANGED <<chain, rest>> ELSE Enter(d)
  /\ UNCHANGED <<calls, done, verdict>>

(* Slip: onPath is not looked at, a def met again is taken for done.       *)
Slip_WalkOnce(d) ==
  /\ verdict = "walking" /\ chain # <<>>
  /\ d \in rest[Len(rest)]
  /\ IF d \in done \cup OnPath
       THEN /\ rest' = [rest EXCEPT ![Len(rest)] = @ \ {d}]
            /\ UNCHANGED <<chain, verdict>>
       ELSE /\ chain' = Append(chain, d)
            /\ rest' = Append([rest EXCEPT ![Len(rest)] = @ \ {d}], calls[d])
            /\ UNCHANGED verdict
  /\ UNCHANGED <<calls, roots, done>>

(* Slip: what was visited is kept, not what is on the path.                *)
Slip_WalkVisited(d) ==
  /\ verdict = "walking" /\ chain # <<>>
  /\ d \in rest[Len(rest)]
  /\ chain' = Append(chain, d)
  /\ IF d \in done \cup OnPath
       THEN verdict' = "cycle" /\ UNCHANGED rest
       ELSE /\ rest' = Append([rest EXCEPT ![Len(rest)] = @ \ {d}], calls[d])
            /\ UNCHANGED verdict
  /\ UNCHANGED <<calls, roots, done>>

(* walk of the next callee: done is looked at first, then onPath.          *)
WalkCallee(d) ==
  /\ verdict = "walking" /\ chain # <<>>
  /\ d \in rest[Len(rest)]
  /\ LET left == [rest EXCEPT ![Len(rest)] = @ \ {d}] IN
       \/ /\ d \in done
          /\ rest' = left
          /\ UNCHANGED <<chain, verdict>>
       \/ /\ d \in OnPath \ done
          /\ verdict' = "cycle"
          /\ chain' = Append(chain, d)
          /\ UNCHANGED rest
       \/ /\ d \notin OnPath \cup done
          /\ chain' = Append(chain, d)
          /\ rest' = Append(left, calls[d])
          /\ UNCHANGED verdict
  /\ UNCHANGED <<calls, roots, done>>

Pop(s) == SubSeq(s, 1, Len(s) - 1)

(* The loop over the callees is over: off the path, and done.              *)
Return ==
  /\ verdict = "walking" /\ chain # <<>>
  /\ rest[Len(rest)] = {}
  /\ done' = done \cup {chain[Len(chain)]}
  /\ chain' = Pop(chain)
  /\ rest' = Pop(rest)
  /\ UNCHANGED <<calls, roots, verdict>>

AllWalked ==
  /\ verdict = "walking" /\ chain = <<>> /\ roots = {}
  /\ verdict' = "acyclic"
  /\ UNCHANGED <<calls, roots, chain, rest, done>>

CheckCycles ==
  \/ \E d \in Defs : WalkRoot(d) \/ WalkCallee(d)
  \/ Return
  \/ AllWalked

CycleSpec == CycleInit /\ [][CheckCycles]_cycleVars

-----------------------------------------------------------------------------
CycleTypeOK ==
  /\ calls \in [Defs -> SUBSET Defs]
  /\ roots \subseteq UserDefs
  /\ chain \in Seq(Defs)
  /\ rest \in Seq(SUBSET Defs)
  /\ done \subseteq Defs
  /\ verdict \in {"walking", "acyclic", "cycle"}

(* A set of defs each of which calls one of the set: there is one exactly  *)
(* if there is a circle.                                                   *)
Circle(S) == S # {} /\ \A d \in S : calls[d] \cap S # {}

(* What a run can get to from the defs of the project.                     *)
Closed(S) == UserDefs \subseteq S /\ \A d \in S : calls[d] \subseteq S
Reachable == {d \in Defs : \A S \in SUBSET Defs : Closed(S) => d \in S}

(* "A cycle is a writing error ... it must surface from reading the files, *)
(* before anything runs on a target" (cycles.go:9-11): a plan that is let  *)
(* through has no circle among the defs it can get to.                     *)
NoCircleIsLetThrough ==
  verdict = "acyclic" => ~\E S \in SUBSET Reachable : Circle(S)

(* ... and what is refused is one: the chain in the message is a path of   *)
(* calls from a def of the project that ends where it has been before.     *)
ChainIsCircle ==
  verdict = "cycle" =>
    /\ chain[1] \in UserDefs
    /\ \A i \in 1 .. Len(chain) - 1 : chain[i + 1] \in calls[chain[i]]
    /\ \E i \in 1 .. Len(chain) - 1 : chain[i] = chain[Len(chain)]

(* The search is exact: a plan is refused for its calls if and only if its *)
(* defs can get to a circle.                                               *)
ExactlyCirclesAreRefused == NoCircleIsLetThrough /\ ChainIsCircle
=============================================================================
