------------------------- MODULE OrchestratorProofs -------------------------
(***************************************************************************)
(* Safety of a run of a plan, for every inventory, plan, limit and width,  *)
(* whatever the hosts answer and in whatever order.                        *)
(***************************************************************************)
EXTENDS Orchestrator, FiniteSetTheorems, TLAPS

Known == ~(UnknownTarget \/ UnknownLimit)

(* The blocks that are behind: skipped, refused or collected.              *)
Behind == {b \in DOMAIN plan : b < block \/ (phase = "done" /\ b = block)}

(* TypeOK without the width of the fan-out.                                *)
DataOK ==
  /\ plan \in Seq(Blocks) /\ Len(plan) \in 1 .. MaxBlocks
  /\ limit \in Limits
  /\ interp \in [Hosts -> Interps]
  /\ parallel \in Widths
  /\ phase \in {"start", "blocks", "fleet", "done"}
  /\ block \in DOMAIN plan
  /\ live \subseteq Hosts
  /\ work \in [Hosts -> WorkStates]
  /\ outcome \in [Hosts -> Results \cup {Pending}]
  /\ dead \subseteq Hosts
  /\ anyErr \in BOOLEAN
  /\ contacted \subseteq (DOMAIN plan) \X Hosts
  /\ completed \subseteq contacted
  /\ silent \subseteq dead

(* The goroutines: they are those of the block that is run, and a finished *)
(* one has left its result.                                                *)
Busy == {"queued", "building", "dialed"}
FleetOK ==
  /\ phase = "fleet" => live = Selected /\ ~Diverge
  /\ \A h \in Hosts : work[h] \in Busy => phase = "fleet" /\ h \in live
  /\ \A h \in Hosts : work[h] = "dialed" => <<block, h>> \in contacted
  /\ \A h \in Hosts : work[h] = "finished" =>
       /\ outcome[h] \in Results
       /\ phase = "fleet" /\ Done(outcome[h]) => <<block, h>> \in completed

(* At most Width of them hold the semaphore.                               *)
WidthKept == IsFiniteSet(InFlight) /\ Cardinality(InFlight) <= Width

(* A host that was not dropped has run whatever was asked of it.           *)
Survivors ==
  Known => \A h \in Hosts \ dead : \A b \in Behind :
             Asked(b, h) => <<b, h>> \in completed

(* Nobody is dialed ahead of time.                                         *)
Contacts ==
  /\ phase = "start" => contacted = {}
  /\ \A b \in DOMAIN plan, h \in Hosts : <<b, h>> \in contacted =>
       \/ b \in Behind
       \/ b = block /\ phase = "fleet" /\ h \in live

Refused == ~Known => /\ phase \in {"start", "done"}
                     /\ contacted = {}
                     /\ phase = "done" => anyErr

(* A run that was begun goes through its plan to the end.                  *)
AtEnd == phase = "done" /\ Known => block = Len(plan)

(* Nobody is dropped without an error, reported or silent.                 *)
Counted == dead # {} => anyErr \/ silent # {}

RunInv ==
  /\ DataOK /\ FleetOK /\ WidthKept /\ Survivors /\ Contacts /\ Refused
  /\ AtEnd /\ Counted /\ DialsOnlySoundHosts

-----------------------------------------------------------------------------
(* What is asked of a run does not change under it.                        *)
LEMMA InputsKept ==
  ASSUME [Next]_vars
  PROVE  /\ plan' = plan /\ limit' = limit
         /\ interp' = interp /\ parallel' = parallel
         /\ \A b, h : Asked(b, h)' = Asked(b, h)
         /\ Known' = Known
<1>1. plan' = plan /\ limit' = limit /\ interp' = interp /\ parallel' = parallel
  BY DEF Next, RunStep, FleetStep, OwnStep, Refuse, Begin, EmptyLimit,
         InterpretersDiverge, StartFleet, Start, Collect, Record, Acquire, NoRequest,
         Dial, Return, Exited, vars, inputs
<1> QED
  BY <1>1 DEF Asked, Members, Allowed, Known, UnknownTarget, UnknownLimit

LEMMA ResultsOK ==
  /\ [err |-> TRUE, resp |-> Clean] \in Results
  /\ \A res \in Results : ~Failed(res) => Done(res)
<1>1. ASSUME NEW res \in Results, ~Failed(res) PROVE Done(res)
  <2>1. ~res.err
    BY <1>1 DEF Failed
  <2>2. CASE res \in [err : {FALSE}, resp : Responses]
    <3>1. res.resp \in Responses
      BY <2>2
    <3> QED BY <1>1, <2>1, <3>1 DEF Responses, Failed, Done
  <2>3. CASE res = [err |-> TRUE, resp |-> Clean]
    BY <2>1, <2>3
  <2> QED BY <2>2, <2>3 DEF Results
<1>2. [err |-> TRUE, resp |-> Clean] \in Results
  BY DEF Results
<1> QED
  BY <1>1, <1>2

(* A block is behind once the run has moved on.                            *)
LEMMA AdvanceOK ==
  ASSUME DataOK, Advance, plan' = plan
  PROVE  /\ block' \in DOMAIN plan
         /\ \/ phase' = "blocks" /\ block' = block + 1
            \/ phase' = "done" /\ block' = block /\ block = Len(plan)
         /\ phase \in {"blocks", "fleet"} => Behind' = Behind \cup {block}
<1>1. /\ block' \in DOMAIN plan
      /\ \/ phase' = "blocks" /\ block' = block + 1
         \/ phase' = "done" /\ block' = block /\ block = Len(plan)
  BY DEF Advance, DataOK
<1>2. ASSUME phase \in {"blocks", "fleet"} PROVE Behind' = Behind \cup {block}
  <2>1. DOMAIN plan \subseteq Int /\ block \in DOMAIN plan
    BY DEF DataOK
  <2>2. CASE block < Len(plan)
    BY <1>2, <2>1, <2>2 DEF Behind, Advance, DataOK
  <2>3. CASE ~(block < Len(plan))
    BY <1>2, <2>1, <2>3 DEF Behind, Advance, DataOK
  <2> QED BY <2>2, <2>3
<1> QED BY <1>1, <1>2
-----------------------------------------------------------------------------
LEMMA DataInit == Init => DataOK
<1> SUFFICES ASSUME Init PROVE DataOK
  OBVIOUS
<1>1. plan \in Seq(Blocks) /\ Len(plan) \in 1 .. MaxBlocks /\ block \in DOMAIN plan
  <2>1. PICK n \in 1 .. MaxBlocks : plan \in [1 .. n -> Blocks]
    BY DEF Init
  <2>2. plan \in Seq(Blocks) /\ Len(plan) = n
    BY <2>1, PlanAssumption
  <2> QED BY <2>1, <2>2, PlanAssumption DEF Init
<1> QED
  BY <1>1 DEF Init, DataOK, WorkStates

LEMMA DataKept ==
  ASSUME DataOK, FleetOK, [Next]_vars
  PROVE  DataOK'
<1>1. CASE Refuse
  BY <1>1 DEF DataOK, Refuse, inputs, fleet, history
<1>2. CASE Begin
  BY <1>2 DEF DataOK, Begin, inputs, fleet, history
<1>3. CASE EmptyLimit
  BY <1>3, AdvanceOK DEF DataOK, EmptyLimit, inputs, fleet, history
<1>4. CASE InterpretersDiverge
  <2>1. Selected \subseteq Hosts
    BY InventoryAssumption DEF Selected, Target, Members, DataOK
  <2> QED
    BY <1>4, <2>1, AdvanceOK DEF DataOK, InterpretersDiverge, inputs, fleet, history
<1>5. CASE StartFleet
  <2>1. Selected \subseteq Hosts
    BY InventoryAssumption DEF Selected, Target, Members, DataOK
  <2> QED
    BY <1>5, <2>1 DEF DataOK, StartFleet, Start, WorkStates, inputs, history
<1>6. CASE Collect
  <2>1. plan' = plan
    BY <1>6 DEF Collect, Record, inputs
  <2> QED
    BY <1>6, <2>1, AdvanceOK DEF DataOK, Collect, Record, inputs, fleet
<1>7. ASSUME NEW h \in Hosts, FleetStep(h) PROVE DataOK'
  <2>1. CASE Acquire(h)
    BY <2>1 DEF DataOK, Acquire, Moves, WorkStates, inputs, history
  <2>2. CASE NoRequest(h)
    BY <2>2, ResultsOK DEF DataOK, NoRequest, Moves, WorkStates, inputs, history
  <2>3. CASE Dial(h)
    BY <2>3 DEF DataOK, Dial, Moves, WorkStates, inputs
  <2>4. ASSUME NEW res \in Results, Return(h, res) PROVE DataOK'
    <3>1. <<block, h>> \in contacted
      BY <2>4 DEF FleetOK, Return, Moves
    <3> QED
      BY <2>4, <3>1 DEF DataOK, Return, Moves, WorkStates, inputs
  <2> QED BY <1>7, <2>1, <2>2, <2>3, <2>4 DEF FleetStep, OwnStep
<1>8. CASE UNCHANGED vars
  BY <1>8 DEF DataOK, vars, inputs, fleet, history
<1> QED
  BY <1>1, <1>2, <1>3, <1>4, <1>5, <1>6, <1>7, <1>8 DEF Next, RunStep, Exited

LEMMA FleetKept ==
  ASSUME DataOK, FleetOK, [Next]_vars
  PROVE  FleetOK'
<1> USE InputsKept DEF Busy, Done
<1>1. CASE Refuse \/ Begin
  BY <1>1 DEF FleetOK, DataOK, Refuse, Begin, fleet, history
<1>2. CASE EmptyLimit \/ InterpretersDiverge
  <2>1. phase = "blocks" /\ phase' \in {"blocks", "done"} /\ UNCHANGED <<fleet, history>>
    BY <1>2, AdvanceOK DEF EmptyLimit, InterpretersDiverge
  <2> QED BY <2>1 DEF FleetOK, DataOK, fleet, history
<1>3. CASE StartFleet
  <2>1. live' = Selected /\ ~Diverge /\ Selected' = Selected /\ Diverge' = Diverge
    BY <1>3 DEF StartFleet, Start, Selected, Target, Allowed, Members, Diverge, inputs
  <2> QED
    BY <1>3, <2>1 DEF FleetOK, DataOK, StartFleet, Start, inputs, history
<1>4. CASE Collect
  <2>1. \A h \in Hosts : work[h] \notin Busy
    BY <1>4 DEF Collect, FleetOK
  <2>2. phase' \in {"blocks", "done"} /\ UNCHANGED fleet
    BY <1>4, AdvanceOK DEF Collect, Record
  <2> QED BY <2>1, <2>2 DEF FleetOK, DataOK, fleet
<1>5. ASSUME NEW h \in Hosts, FleetStep(h) PROVE FleetOK'
  <2> USE <1>5 DEF FleetOK, DataOK, Moves
  <2>1. UNCHANGED <<phase, block, live, dead>>
    BY DEF FleetStep, OwnStep, Acquire, NoRequest, Dial, Return
  <2>2. Selected' = Selected /\ Diverge' = Diverge
    BY <2>1 DEF Selected, Target, Allowed, Members, Diverge
  <2>3. CASE Acquire(h)
    BY <2>1, <2>2, <2>3 DEF Acquire, history
  <2>4. CASE NoRequest(h)
    BY <2>1, <2>2, <2>4, ResultsOK DEF NoRequest, history
  <2>5. CASE Dial(h)
    BY <2>1, <2>2, <2>5 DEF Dial
  <2>6. ASSUME NEW res \in Results, Return(h, res) PROVE FleetOK'
    BY <2>1, <2>2, <2>6 DEF Return
  <2> QED BY <2>3, <2>4, <2>5, <2>6 DEF FleetStep, OwnStep
<1>6. CASE UNCHANGED vars
  BY <1>6 DEF FleetOK, Selected, Target, Diverge, vars, fleet, history, Members, Allowed, inputs
<1> QED
  BY <1>1, <1>2, <1>3, <1>4, <1>5, <1>6 DEF Next, RunStep, Exited

LEMMA WidthStep ==
  ASSUME DataOK, FleetOK, WidthKept, [Next]_vars
  PROVE  WidthKept'
<1> USE InputsKept
<1>1. Width' = Width
  BY DEF Width
<1>2. Cardinality({}) = 0 /\ IsFiniteSet({})
  BY FS_EmptySet
<1>3. Width \in Nat
  BY WidthAssumption DEF Width, DataOK
<1>4. CASE UNCHANGED work
  BY <1>1, <1>4 DEF WidthKept, InFlight
<1>5. CASE StartFleet
  <2>1. InFlight' = {}
    BY <1>5 DEF StartFleet, Start, InFlight
  <2> QED BY <1>1, <1>2, <1>3, <2>1 DEF WidthKept
<1>6. ASSUME NEW h \in Hosts, FleetStep(h) PROVE WidthKept'
  <2>1. CASE Acquire(h)
    <3>1. InFlight' = InFlight \cup {h} /\ h \notin InFlight
      BY <2>1 DEF Acquire, Moves, InFlight, DataOK
    <3>2. Cardinality(InFlight) < Width /\ IsFiniteSet(InFlight)
      BY <2>1 DEF Acquire, WidthKept
    <3>3. IsFiniteSet(InFlight') /\ Cardinality(InFlight') = Cardinality(InFlight) + 1
      BY <3>1, <3>2, FS_AddElement
    <3>4. Cardinality(InFlight) \in Nat
      BY <3>2, FS_CardinalityType
    <3> QED BY <1>1, <1>3, <3>2, <3>3, <3>4 DEF WidthKept
  <2>2. ASSUME InFlight' \in SUBSET InFlight PROVE WidthKept'
    <3>1. IsFiniteSet(InFlight) /\ Cardinality(InFlight) \in Nat
      BY FS_CardinalityType DEF WidthKept
    <3>2. IsFiniteSet(InFlight') /\ Cardinality(InFlight') <= Cardinality(InFlight)
      BY <2>2, <3>1, FS_Subset
    <3>3. Cardinality(InFlight') \in Nat
      BY <3>2, FS_CardinalityType
    <3> QED BY <1>1, <1>3, <3>1, <3>2, <3>3 DEF WidthKept
  <2>3. ASSUME ~Acquire(h) PROVE InFlight' \in SUBSET InFlight
    BY <1>6, <2>3 DEF FleetStep, OwnStep, NoRequest, Dial, Return, Moves, InFlight, DataOK
  <2> QED BY <2>1, <2>2, <2>3
<1> QED
  BY <1>4, <1>5, <1>6 DEF Next, RunStep, Refuse, Begin, EmptyLimit, InterpretersDiverge,
     Collect, Record, Exited, vars, fleet

-----------------------------------------------------------------------------
(* What each kind of step does to what is behind.                          *)
LEMMA BehindKept ==
  ASSUME DataOK, [Next]_vars
  PROVE  \/ Refuse
         \/ Behind' = Behind
         \/ /\ EmptyLimit \/ InterpretersDiverge \/ Collect
            /\ Behind' = Behind \cup {block}
<1> USE InputsKept
<1>1. CASE EmptyLimit \/ InterpretersDiverge \/ Collect
  <2>1. Advance /\ phase \in {"blocks", "fleet"}
    BY <1>1 DEF EmptyLimit, InterpretersDiverge, Collect, Record
  <2> QED BY <1>1, <2>1, AdvanceOK
<1>2. CASE Begin \/ StartFleet
  BY <1>2 DEF Begin, StartFleet, Start, Behind
<1>3. CASE UNCHANGED <<phase, block>>
  BY <1>3 DEF Behind
<1> QED
  BY <1>1, <1>2, <1>3 DEF Next, RunStep, FleetStep, OwnStep, Acquire, NoRequest, Dial,
     Return, Exited, vars

(* completed only grows, and so does dead.                                 *)
LEMMA Monotone ==
  ASSUME [Next]_vars
  PROVE  completed \subseteq completed' /\ dead \subseteq dead'
BY DEF Next, RunStep, FleetStep, OwnStep, Refuse, Begin, EmptyLimit, InterpretersDiverge,
       StartFleet, Start, Collect, Record, Acquire, NoRequest, Dial, Return, Exited,
       vars, history

(* The block that is left behind was run by every host that stays.         *)
LEMMA SurvivorsKept ==
  ASSUME DataOK, FleetOK, Survivors, [Next]_vars
  PROVE  Survivors'
<1> USE InputsKept, Monotone
<1>1. CASE Refuse
  BY <1>1 DEF Refuse, Survivors, Known
<1>2. CASE Behind' = Behind
  BY <1>2 DEF Survivors
<1>3. CASE /\ EmptyLimit \/ InterpretersDiverge \/ Collect
           /\ Behind' = Behind \cup {block}
  <2>1. SUFFICES ASSUME NEW h \in Hosts, h \notin dead', Asked(block, h)
                 PROVE  <<block, h>> \in completed'
    BY <1>3 DEF Survivors
  <2>2. h \notin dead /\ h \in Target /\ h \in Allowed
    BY <2>1 DEF Asked, Target
  <2>3. h \in Selected
    BY <2>2 DEF Selected
  <2>4. CASE EmptyLimit
    BY <2>2, <2>4 DEF EmptyLimit, LimitSelectsNone
  <2>5. CASE InterpretersDiverge
    BY <2>1, <2>3, <2>5 DEF InterpretersDiverge
  <2>6. CASE Collect
    <3>1. phase = "fleet" /\ h \in live /\ work[h] = "finished"
      BY <2>3, <2>6 DEF Collect, Record, FleetOK
    <3>2. ~Failed(outcome[h])
      BY <2>1, <2>6, <3>1 DEF Collect, Record
    <3>3. Done(outcome[h])
      BY <3>1, <3>2, ResultsOK DEF FleetOK
    <3> QED BY <3>1, <3>3 DEF FleetOK
  <2> QED BY <1>3, <2>4, <2>5, <2>6
<1> QED BY <1>1, <1>2, <1>3, BehindKept

(* Only Dial contacts anybody, and only a host of the block that is run.   *)
LEMMA NewContact ==
  ASSUME DataOK, FleetOK, [Next]_vars
  PROVE  \/ contacted' = contacted
         \/ \E h \in Hosts : /\ contacted' = contacted \cup {<<block, h>>}
                             /\ phase = "fleet" /\ h \in live
                             /\ UNCHANGED <<phase, block, live, dead, completed, anyErr>>
BY DEF Next, RunStep, FleetStep, OwnStep, Refuse, Begin, EmptyLimit, InterpretersDiverge,
       StartFleet, Start, Collect, Record, Acquire, NoRequest, Dial, Return, Exited,
       vars, history, Moves, FleetOK, Busy

LEMMA ContactsKept ==
  ASSUME DataOK, FleetOK, Contacts, [Next]_vars
  PROVE  Contacts'
<1> USE InputsKept
<1>1. ASSUME NEW h \in Hosts, contacted' = contacted \cup {<<block, h>>},
             phase = "fleet", h \in live, UNCHANGED <<phase, block, live>>
      PROVE  Contacts'
  BY <1>1 DEF Contacts, Behind
<1>2. CASE contacted' = contacted
  <2>1. CASE Refuse
    BY <1>2, <2>1 DEF Refuse, Contacts
  <2>2. CASE /\ EmptyLimit \/ InterpretersDiverge \/ Collect
             /\ Behind' = Behind \cup {block}
    <3>1. phase # "start" /\ phase' # "start"
      BY <2>2, AdvanceOK DEF EmptyLimit, InterpretersDiverge, Collect, Record
    <3> QED BY <1>2, <2>2, <3>1 DEF Contacts
  <2>3. CASE Behind' = Behind
    <3>1. CASE StartFleet
      BY <1>2, <2>3, <3>1 DEF StartFleet, Start, Contacts
    <3>2. CASE Begin
      BY <1>2, <2>3, <3>2 DEF Begin, Contacts
    <3>3. CASE UNCHANGED <<phase, block, live>>
      BY <1>2, <2>3, <3>3 DEF Contacts
    <3>4. CASE Refuse \/ EmptyLimit \/ InterpretersDiverge \/ Collect
      <4>1. CASE Refuse
        BY <2>1, <4>1
      <4>2. CASE EmptyLimit \/ InterpretersDiverge \/ Collect
        <5>1. Advance /\ phase \in {"blocks", "fleet"}
          BY <4>2 DEF EmptyLimit, InterpretersDiverge, Collect, Record
        <5>2. Behind' = Behind \cup {block}
          BY <5>1, AdvanceOK
        <5> QED BY <2>2, <4>2, <5>2
      <4> QED BY <3>4, <4>1, <4>2
    <3> QED
      BY <3>1, <3>2, <3>3, <3>4 DEF Next, RunStep, FleetStep, OwnStep, Acquire, NoRequest,
         Dial, Return, Exited, vars, fleet
  <2> QED BY <2>1, <2>2, <2>3, BehindKept
<1> QED BY <1>1, <1>2, NewContact

(* Who is dialed was asked for, is sound, and agrees with the others.      *)
LEMMA SoundKept ==
  ASSUME RunInv, [Next]_vars
  PROVE  DialsOnlySoundHosts'
<1> USE InputsKept, Monotone DEF RunInv
<1>1. CASE contacted' = contacted
  BY <1>1 DEF DialsOnlySoundHosts
<1>2. ASSUME NEW h \in Hosts, contacted' = contacted \cup {<<block, h>>},
             phase = "fleet", h \in live
      PROVE  DialsOnlySoundHosts'
  <2>1. h \in Selected /\ live = Selected /\ ~Diverge
    BY <1>2 DEF FleetOK
  <2>2. Asked(block, h) /\ h \notin dead
    BY <2>1 DEF Selected, Asked, Target
  <2>3. ASSUME NEW c \in 1 .. block - 1, Asked(c, h) PROVE <<c, h>> \in completed
    <3>1. c \in Behind
      BY DEF Behind, DataOK
    <3>2. Known
      BY <1>2 DEF Refused
    <3> QED BY <2>2, <2>3, <3>1, <3>2 DEF Survivors
  <2>4. ASSUME NEW g \in Hosts, <<block, g>> \in contacted PROVE g \in live
    BY <1>2, <2>4 DEF Contacts, Behind, DataOK
  <2>5. ASSUME plan[block].bare, NEW g \in live PROVE interp[g] = interp[h]
    BY <2>1, <2>5 DEF Diverge
  <2>6. SUFFICES ASSUME NEW b \in DOMAIN plan, NEW k \in Hosts, <<b, k>> \in contacted'
                 PROVE  /\ Asked(b, k)
                        /\ \A c \in 1 .. b - 1 : Asked(c, k) => <<c, k>> \in completed'
                        /\ plan[b].bare => \A g \in Hosts :
                             <<b, g>> \in contacted' => interp[g] = interp[k]
    BY DEF DialsOnlySoundHosts
  <2>7. CASE <<b, k>> = <<block, h>>
    BY <1>2, <2>2, <2>3, <2>4, <2>5, <2>7
  <2>8. CASE <<b, k>> \in contacted /\ b # block
    BY <1>2, <2>8 DEF DialsOnlySoundHosts
  <2>9. CASE <<b, k>> \in contacted /\ b = block
    <3>1. plan[b].bare => interp[k] = interp[h]
      BY <2>4, <2>5, <2>9
    <3> QED BY <1>2, <2>9, <3>1 DEF DialsOnlySoundHosts
  <2> QED BY <1>2, <2>6, <2>7, <2>8, <2>9
<1> QED BY <1>1, <1>2, NewContact

LEMMA RefusedKept ==
  ASSUME DataOK, FleetOK, Refused, [Next]_vars
  PROVE  Refused'
<1> SUFFICES ASSUME ~Known PROVE Refused'
  BY InputsKept DEF Refused
<1>1. /\ phase \in {"start", "done"} /\ contacted = {} /\ (phase = "done" => anyErr)
      /\ \A h \in Hosts : work[h] \notin Busy
  BY DEF Refused, FleetOK
<1>2. \A h \in Hosts : ~FleetStep(h)
  BY <1>1 DEF FleetStep, OwnStep, Acquire, NoRequest, Dial, Return, Moves, Busy
<1>3. Refuse \/ UNCHANGED vars
  BY <1>1, <1>2 DEF Next, RunStep, Begin, EmptyLimit, InterpretersDiverge, StartFleet,
     Collect, Record, Exited, Known
<1> QED
  BY <1>1, <1>3 DEF Refused, Refuse, vars, history

LEMMA AtEndKept ==
  ASSUME DataOK, AtEnd, [Next]_vars
  PROVE  AtEnd'
<1> USE InputsKept
<1>1. CASE EmptyLimit \/ InterpretersDiverge \/ Collect
  <2>1. Advance
    BY <1>1 DEF EmptyLimit, InterpretersDiverge, Collect, Record
  <2> QED BY <2>1, AdvanceOK DEF AtEnd
<1>2. CASE Refuse \/ Begin \/ StartFleet \/ UNCHANGED <<phase, block>>
  BY <1>2 DEF AtEnd, Refuse, Begin, StartFleet, Start, Known
<1> QED
  BY <1>1, <1>2 DEF Next, RunStep, FleetStep, OwnStep, Acquire, NoRequest, Dial, Return,
     Exited, vars

LEMMA CountedKept ==
  ASSUME DataOK, Counted, [Next]_vars
  PROVE  Counted'
<1>1. CASE Collect
  <2>1. \A h \in live : Failed(outcome[h]) => anyErr' \/ silent' # {}
    BY <1>1 DEF Collect, Record
  <2> QED BY <1>1, <2>1 DEF Collect, Record, Counted
<1> QED
  BY <1>1 DEF Counted, Next, RunStep, FleetStep, OwnStep, Refuse, Begin, EmptyLimit,
     InterpretersDiverge, StartFleet, Start, Acquire, NoRequest, Dial, Return, Exited,
     vars, history

-----------------------------------------------------------------------------
(* The invariant of a run: who has been dropped, what is behind, and what  *)
(* the goroutines of the block that is run have left.                      *)
THEOREM RunInvariant == Spec => []RunInv
<1>1. Init => RunInv
  <2> SUFFICES ASSUME Init PROVE RunInv
    OBVIOUS
  <2>1. DataOK
    BY DataInit
  <2>2. WidthKept
    <3>1. InFlight = {}
      BY DEF Init, InFlight
    <3>2. Width \in Nat
      BY <2>1, WidthAssumption DEF Width, DataOK
    <3> QED BY <3>1, <3>2, FS_EmptySet DEF WidthKept
  <2>3. Behind = {}
    BY <2>1 DEF Init, Behind, DataOK
  <2> QED
    BY <2>1, <2>2, <2>3 DEF Init, RunInv, FleetOK, Busy, Survivors, Contacts, Refused,
       AtEnd, Counted, DialsOnlySoundHosts
<1>2. RunInv /\ [Next]_vars => RunInv'
  <2> SUFFICES ASSUME RunInv, [Next]_vars PROVE RunInv'
    OBVIOUS
  <2> QED
    BY DataKept, FleetKept, WidthStep, SurvivorsKept, ContactsKept, SoundKept,
       RefusedKept, AtEndKept, CountedKept DEF RunInv
<1> QED BY <1>1, <1>2, PTL DEF Spec

(* Types, and no more than Width hosts at a time (fleet.go:50-60).         *)
THEOREM RunTypeCorrect == Spec => []TypeOK
<1>1. RunInv => TypeOK
  BY DEF RunInv, DataOK, WidthKept, TypeOK
<1> QED BY <1>1, RunInvariant, PTL

(* A host that failed is sent no later block, --limit never extends, and   *)
(* one block has one interpreter (orchestrator.go:83-84, 112).             *)
THEOREM OnlySoundHostsAreDialed == Spec => []DialsOnlySoundHosts
<1>1. RunInv => DialsOnlySoundHosts
  BY DEF RunInv
<1> QED BY <1>1, RunInvariant, PTL

(* A name the inventory does not declare, anywhere in the plan or in       *)
(* --limit, and nobody is contacted (orchestrator.go:92).                  *)
THEOREM TyposReachNobody == Spec => []TypoReachesNobody
<1>1. RunInv => TypoReachesNobody
  <2>1. Ghost \in {plan[b].target : b \in DOMAIN plan} \cup limit => ~Known
    BY DEF Known, UnknownTarget, UnknownLimit
  <2> QED BY <2>1 DEF RunInv, Refused, TypoReachesNobody
<1> QED BY <1>1, RunInvariant, PTL

(* A run that reports success and was not silent about a failure ran       *)
(* everything it was asked for (report.go:218).                            *)
THEOREM SuccessMeansComplete == Spec => []SuccessIsComplete
<1>1. RunInv => SuccessIsComplete
  <2> SUFFICES ASSUME RunInv, phase = "done", ~anyErr, silent = {},
                      NEW b \in DOMAIN plan, NEW h \in Hosts, Asked(b, h)
               PROVE  <<b, h>> \in completed
    BY DEF SuccessIsComplete
  <2>1. dead = {} /\ Known
    BY DEF RunInv, Counted, Refused
  <2>2. b \in Behind
    BY <2>1 DEF RunInv, AtEnd, DataOK, Behind
  <2> QED BY <2>1, <2>2 DEF RunInv, Survivors
<1> QED BY <1>1, RunInvariant, PTL
=============================================================================
