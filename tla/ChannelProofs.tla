---------------------------- MODULE ChannelProofs ----------------------------
(***************************************************************************)
(* The connections of a resident agent, for any number of runs, asks,      *)
(* reconnections and failures: none is left open.                          *)
(***************************************************************************)
EXTENDS Channel, TLAPS

(* A bridge process connects once, and a session has one bridge: the       *)
(* connections of the backlog, the one that is greeted and the one that is *)
(* installed are different ones.                                           *)
Once ==
  /\ conn = greeting => conn = None
  /\ \A i \in 1 .. Len(backlog) : backlog[i] # conn /\ backlog[i] # greeting
  /\ \A i, j \in 1 .. Len(backlog) : backlog[i] = backlog[j] => i = j

Placed(s) == s = conn \/ s = greeting \/ \E i \in 1 .. Len(backlog) : backlog[i] = s

Unconnected == \A s \in Sessions : bridge[s] \in {"none", "dialing"} => ~Placed(s)

(* The attempts a run has yet to make have no bridge.                      *)
Unused ==
  \A r \in Runs : \A k \in 0 .. Retries :
    k > attempt[r] \/ (k = attempt[r] /\ loop[r] \in {"idle", "dial"})
      => bridge[<<r, k>>] = "none"

ChannelInv == TypeOK /\ NoDescriptorLeft /\ Once /\ Unconnected /\ Unused

-----------------------------------------------------------------------------
LEMMA SessionsAre ==
  /\ Leftover \in Sessions /\ None \notin Sessions /\ None \notin Asks /\ None \notin Runs
  /\ \A r \in Runs, k \in 0 .. Retries : <<r, k>> \in Sessions /\ <<r, k>> # Leftover
  /\ \A a \in Asks : Job(a) \in Runs
BY NoneAssumption DEF Sessions, Leftover, Asks, Job

LEMMA CurrentIs ==
  ASSUME TypeOK, NEW r \in Runs
  PROVE  Current(r) \in Sessions /\ Current(r) = <<r, attempt[r]>> /\ attempt[r] \in 0 .. Retries
BY SessionsAre DEF Current, TypeOK

LEMMA FailsIsTyped ==
  ASSUME TypeOK, Fails PROVE faults' \in 0 .. MaxFaults /\ calm' \in BOOLEAN
<1>1. MaxFaults \in Nat /\ faults \in 0 .. MaxFaults /\ faults < MaxFaults /\ faults' = faults + 1
  BY RetriesAssumption DEF TypeOK, Fails
<1>2. calm' \in BOOLEAN
  BY DEF Fails
<1>3. faults' \in 0 .. MaxFaults
  BY <1>1
<1> QED BY <1>2, <1>3

LEMMA NextAttemptIsTyped ==
  ASSUME TypeOK, NEW r \in Runs, NextAttempt(r)
  PROVE  loop' \in [Runs -> LoopStates] /\ attempt' \in [Runs -> 0 .. Retries]
<1>1. /\ Retries \in Nat /\ attempt[r] \in 0 .. Retries
      /\ loop \in [Runs -> LoopStates] /\ attempt \in [Runs -> 0 .. Retries]
  BY RetriesAssumption DEF TypeOK
<1>2. CASE attempt[r] < Retries
  <2>1. attempt[r] + 1 \in 0 .. Retries
    BY <1>1, <1>2
  <2> QED BY <1>1, <1>2, <2>1 DEF NextAttempt, LoopStates
<1>3. CASE ~(attempt[r] < Retries)
  BY <1>1, <1>3 DEF NextAttempt, LoopStates
<1> QED BY <1>2, <1>3

LEMMA SameTarget ==
  ASSUME NoDescriptorLeft, Once, UNCHANGED target PROVE NoDescriptorLeft' /\ Once'
BY DEF NoDescriptorLeft, Once, target

LEMMA SamePlaces ==
  ASSUME Unconnected, UNCHANGED <<conn, greeting, backlog, bridge>> PROVE Unconnected'
BY DEF Unconnected, Placed

LEMMA SameAttempts ==
  ASSUME Unused, UNCHANGED <<loop, attempt, bridge>> PROVE Unused'
BY DEF Unused

(* A step of SSH.bridge that starts no bridge process.                     *)
LEMMA LoopMoves ==
  ASSUME ChannelInv, TypeOK', UNCHANGED target, UNCHANGED bridge,
         NEW r \in Runs,
         /\ \A q \in Runs \ {r} : loop'[q] = loop[q] /\ attempt'[q] = attempt[q]
         /\ \/ attempt'[r] = attempt[r] /\ (loop'[r] \in {"idle", "dial"} => loop[r] \in {"idle", "dial"})
            \/ attempt'[r] = attempt[r] + 1
  PROVE  ChannelInv'
<1>1. NoDescriptorLeft' /\ Once' /\ Unconnected'
  BY SameTarget, SamePlaces DEF ChannelInv, target
<1>2. Unused'
  <2> SUFFICES ASSUME NEW q \in Runs, NEW k \in 0 .. Retries,
                      k > attempt'[q] \/ (k = attempt'[q] /\ loop'[q] \in {"idle", "dial"})
               PROVE  bridge[<<q, k>>] = "none"
    BY DEF Unused
  <2>1. attempt[q] \in Nat /\ k \in Nat
    BY RetriesAssumption DEF ChannelInv, TypeOK
  <2>2. k > attempt[q] \/ (k = attempt[q] /\ loop[q] \in {"idle", "dial"})
    <3>1. CASE q # r
      BY <3>1
    <3>2. CASE q = r
      BY <2>1, <3>2
    <3> QED BY <3>1, <3>2
  <2> QED BY <2>2 DEF ChannelInv, Unused
<1> QED BY <1>1, <1>2 DEF ChannelInv

(* A step that leaves the loops, the bridges and the connections alone.    *)
LEMMA OtherSteps ==
  ASSUME ChannelInv, TypeOK', UNCHANGED target, UNCHANGED bridge, UNCHANGED <<loop, attempt>>
  PROVE  ChannelInv'
BY SameTarget, SamePlaces, SameAttempts DEF ChannelInv, target

-----------------------------------------------------------------------------
(* The control host.                                                       *)
LEMMA StartBridgeKeeps ==
  ASSUME ChannelInv, NEW r \in Runs, StartBridge(r) PROVE ChannelInv'
<1>1. TypeOK'
  BY DEF ChannelInv, TypeOK, StartBridge, Transition, LoopStates, target, asking, jobs, history
<1>2. /\ \A q \in Runs \ {r} : loop'[q] = loop[q] /\ attempt'[q] = attempt[q]
      /\ attempt'[r] = attempt[r] /\ loop[r] = "idle"
      /\ UNCHANGED target /\ UNCHANGED bridge
  BY DEF ChannelInv, TypeOK, StartBridge, Transition
<1> QED BY <1>1, <1>2, LoopMoves

LEMMA SeesStopKeeps ==
  ASSUME ChannelInv, NEW r \in Runs, SeesStop(r) PROVE ChannelInv'
<1>1. TypeOK'
  BY DEF ChannelInv, TypeOK, SeesStop, Transition, LoopStates, target, asking, jobs, history
<1>2. /\ \A q \in Runs \ {r} : loop'[q] = loop[q] /\ attempt'[q] = attempt[q]
      /\ attempt'[r] = attempt[r] /\ loop[r] = "dial"
      /\ UNCHANGED target /\ UNCHANGED bridge
  BY DEF ChannelInv, TypeOK, SeesStop, Transition
<1> QED BY <1>1, <1>2, LoopMoves

LEMMA DialKeeps ==
  ASSUME ChannelInv, NEW r \in Runs, Dial(r) PROVE ChannelInv'
<1> DEFINE c == Current(r)
<1>1. /\ loop[r] = "dial" /\ loop' = [loop EXCEPT ![r] = "register"]
      /\ session' = [session EXCEPT ![c] = "opened"]
      /\ bridge' = [bridge EXCEPT ![c] = "dialing"]
      /\ UNCHANGED <<attempt, stopped, target, asking, wire, jobs, history>>
  BY DEF Dial, Transition
<1>2. c \in Sessions /\ c = <<r, attempt[r]>> /\ attempt[r] \in 0 .. Retries
  BY CurrentIs DEF ChannelInv
<1>3. bridge[c] = "none" /\ ~Placed(c)
  BY <1>1, <1>2 DEF ChannelInv, Unused, Unconnected
<1> HIDE DEF c
<1>4. TypeOK'
  BY <1>1, <1>2 DEF ChannelInv, TypeOK, LoopStates, SessionStates, BridgeStates,
                    target, asking, jobs, history
<1>5. NoDescriptorLeft' /\ Once'
  BY <1>1, SameTarget DEF ChannelInv
<1>6. Unconnected'
  <2> SUFFICES ASSUME NEW s \in Sessions, bridge'[s] \in {"none", "dialing"} PROVE ~Placed(s)'
    BY DEF Unconnected
  <2>1. s = c \/ bridge'[s] = bridge[s]
    BY <1>1 DEF ChannelInv, TypeOK
  <2>2. ~Placed(s)
    BY <1>3, <2>1 DEF ChannelInv, Unconnected
  <2> QED BY <1>1, <2>2 DEF Placed, target
<1>7. Unused'
  <2> SUFFICES ASSUME NEW q \in Runs, NEW k \in 0 .. Retries,
                      k > attempt'[q] \/ (k = attempt'[q] /\ loop'[q] \in {"idle", "dial"})
               PROVE  bridge'[<<q, k>>] = "none"
    BY DEF Unused
  <2>1. <<q, k>> # c
    BY <1>1, <1>2 DEF ChannelInv, TypeOK
  <2>2. k > attempt[q] \/ (k = attempt[q] /\ loop[q] \in {"idle", "dial"})
    BY <1>1 DEF ChannelInv, TypeOK
  <2>3. bridge[<<q, k>>] = "none" /\ <<q, k>> \in Sessions
    BY <2>2, SessionsAre DEF ChannelInv, Unused
  <2> QED BY <1>1, <2>1, <2>3 DEF ChannelInv, TypeOK
<1> QED BY <1>4, <1>5, <1>6, <1>7 DEF ChannelInv

LEMMA DialFailsKeeps ==
  ASSUME ChannelInv, NEW r \in Runs, DialFails(r) PROVE ChannelInv'
<1>1. /\ NextAttempt(r) /\ Fails /\ loop[r] = "dial"
      /\ UNCHANGED <<stopped, session, bridge, target, asking, wire, jobs>>
  BY DEF DialFails
<1>2. attempt[r] \in 0 .. Retries
  BY DEF ChannelInv, TypeOK
<1>3. TypeOK'
  BY <1>1, NextAttemptIsTyped, FailsIsTyped DEF ChannelInv, TypeOK, target, asking, jobs
<1>4. /\ \A q \in Runs \ {r} : loop'[q] = loop[q] /\ attempt'[q] = attempt[q]
      /\ \/ attempt'[r] = attempt[r] /\ loop'[r] = "ended"
         \/ attempt'[r] = attempt[r] + 1
  BY <1>1 DEF ChannelInv, TypeOK, NextAttempt
<1> QED BY <1>1, <1>3, <1>4, LoopMoves

LEMMA RegisterKeeps ==
  ASSUME ChannelInv, NEW r \in Runs, Register(r) PROVE ChannelInv'
<1>1. Current(r) \in Sessions
  BY CurrentIs DEF ChannelInv
<1>2. TypeOK'
  BY <1>1 DEF ChannelInv, TypeOK, Register, Transition, LoopStates, SessionStates, target, asking, jobs, history
<1>3. /\ \A q \in Runs \ {r} : loop'[q] = loop[q] /\ attempt'[q] = attempt[q]
      /\ attempt'[r] = attempt[r] /\ loop'[r] = "serving"
      /\ UNCHANGED target /\ UNCHANGED bridge
  BY DEF ChannelInv, TypeOK, Register, Transition
<1> QED BY <1>2, <1>3, LoopMoves

LEMMA AnswerKeeps ==
  ASSUME ChannelInv, NEW r \in Runs, Answer(r) PROVE ChannelInv'
<1>1. Current(r) \in Sessions
  BY CurrentIs DEF ChannelInv
<1>2. TypeOK'
  BY <1>1 DEF ChannelInv, TypeOK, Answer, control, target, asking, jobs, history
<1>3. UNCHANGED target /\ UNCHANGED bridge /\ UNCHANGED <<loop, attempt>>
  BY DEF Answer, control
<1> QED BY <1>2, <1>3, OtherSteps

LEMMA ServingEndsKeeps ==
  ASSUME ChannelInv, NEW r \in Runs, ServingEnds(r) PROVE ChannelInv'
<1>1. /\ session' = [session EXCEPT ![Current(r)] = IF @ = "talking" THEN "cut" ELSE @]
      /\ (loop' = [loop EXCEPT ![r] = "ended"] /\ attempt' = attempt) \/ NextAttempt(r)
      /\ UNCHANGED <<stopped, bridge, target, asking, wire, jobs, history>>
  BY DEF ServingEnds
<1>2. Current(r) \in Sessions /\ attempt[r] \in 0 .. Retries
  BY CurrentIs DEF ChannelInv
<1>3. session' \in [Sessions -> SessionStates]
  BY <1>1, <1>2 DEF ChannelInv, TypeOK, SessionStates
<1>4. loop' \in [Runs -> LoopStates] /\ attempt' \in [Runs -> 0 .. Retries]
  BY <1>1, NextAttemptIsTyped DEF ChannelInv, TypeOK, LoopStates
<1>5. TypeOK'
  BY <1>1, <1>3, <1>4 DEF ChannelInv, TypeOK, target, asking, jobs, history
<1>6. /\ \A q \in Runs \ {r} : loop'[q] = loop[q] /\ attempt'[q] = attempt[q]
      /\ \/ attempt'[r] = attempt[r] /\ loop'[r] = "ended"
         \/ attempt'[r] = attempt[r] + 1
  BY <1>1 DEF ChannelInv, TypeOK, NextAttempt
<1> QED BY <1>1, <1>5, <1>6, LoopMoves

LEMMA StopKeeps ==
  ASSUME ChannelInv, NEW r \in Runs, Finish(r) \/ GiveUp(r) PROVE ChannelInv'
<1>1. Stop(r) /\ (UNCHANGED history \/ Fails)
  BY DEF Finish, GiveUp
<1>2. Current(r) \in Sessions
  BY CurrentIs DEF ChannelInv
<1>3. session' \in [Sessions -> SessionStates]
  BY <1>1, <1>2 DEF ChannelInv, TypeOK, SessionStates, Stop
<1>4. faults' \in 0 .. MaxFaults /\ calm' \in BOOLEAN
  BY <1>1, FailsIsTyped DEF ChannelInv, TypeOK, history
<1>5. TypeOK'
  BY <1>1, <1>3, <1>4 DEF ChannelInv, TypeOK, Stop, target, asking, jobs
<1>6. UNCHANGED target /\ UNCHANGED bridge /\ UNCHANGED <<loop, attempt>>
  BY <1>1 DEF Stop
<1> QED BY <1>5, <1>6, OtherSteps

LEMMA DropKeeps ==
  ASSUME ChannelInv, NEW r \in Runs, Drop(r) PROVE ChannelInv'
<1>1. Current(r) \in Sessions
  BY CurrentIs DEF ChannelInv
<1>2. session' \in [Sessions -> SessionStates]
  BY <1>1 DEF ChannelInv, TypeOK, SessionStates, Drop
<1>3. faults' \in 0 .. MaxFaults /\ calm' \in BOOLEAN
  BY FailsIsTyped DEF ChannelInv, Drop
<1>4. TypeOK'
  BY <1>2, <1>3 DEF ChannelInv, TypeOK, Drop, control, target, asking, jobs
<1>5. UNCHANGED target /\ UNCHANGED bridge /\ UNCHANGED <<loop, attempt>>
  BY DEF Drop, control
<1> QED BY <1>4, <1>5, OtherSteps

-----------------------------------------------------------------------------
(* The target.                                                             *)
LEMMA SameLoops ==
  ASSUME ChannelInv, TypeOK', UNCHANGED control,
         NEW s \in Sessions, bridge[s] # "none", NEW st, bridge' = [bridge EXCEPT ![s] = st]
  PROVE  Unused'
<1> SUFFICES ASSUME NEW r \in Runs, NEW k \in 0 .. Retries,
                    k > attempt'[r] \/ (k = attempt'[r] /\ loop'[r] \in {"idle", "dial"})
             PROVE  bridge'[<<r, k>>] = "none"
  BY DEF Unused
<1>1. bridge[<<r, k>>] = "none" /\ <<r, k>> \in Sessions
  BY SessionsAre DEF ChannelInv, Unused, control
<1> QED BY <1>1 DEF ChannelInv, TypeOK

LEMMA ConnectsKeeps ==
  ASSUME ChannelInv, NEW s \in Sessions, BridgeConnects(s) PROVE ChannelInv'
<1>1. /\ bridge[s] = "dialing" /\ bridge' = [bridge EXCEPT ![s] = "up"]
      /\ backlog' = Append(backlog, s) /\ conn' = conn /\ greeting' = greeting /\ open' = open
      /\ UNCHANGED <<control, session, ready, asking, wire, jobs, history>>
  BY DEF BridgeConnects
<1>2. backlog \in Seq(Sessions) /\ bridge \in [Sessions -> BridgeStates] /\ Len(backlog) \in Nat
  BY DEF ChannelInv, TypeOK
<1>3. /\ backlog' \in Seq(Sessions) /\ Len(backlog') = Len(backlog) + 1
      /\ backlog'[Len(backlog) + 1] = s
      /\ \A i \in 1 .. Len(backlog) : backlog'[i] = backlog[i]
  BY <1>1, <1>2
<1>4. TypeOK'
  BY <1>1, <1>3 DEF ChannelInv, TypeOK, BridgeStates, control, asking, jobs, history
<1>5. ~Placed(s)
  BY <1>1 DEF ChannelInv, Unconnected
<1>6. \A i \in 1 .. Len(backlog') : i \in 1 .. Len(backlog) \/ i = Len(backlog) + 1
  BY <1>2, <1>3
<1>7. NoDescriptorLeft'
  BY <1>1 DEF ChannelInv, NoDescriptorLeft
<1>8. Once'
  BY <1>1, <1>3, <1>5, <1>6 DEF ChannelInv, Once, Placed
<1>9. Unconnected'
  <2> SUFFICES ASSUME NEW q \in Sessions, bridge'[q] \in {"none", "dialing"} PROVE ~Placed(q)'
    BY DEF Unconnected
  <2>1. q # s /\ bridge[q] \in {"none", "dialing"}
    BY <1>1, <1>2
  <2>2. ~Placed(q)
    BY <2>1 DEF ChannelInv, Unconnected
  <2> QED BY <1>1, <1>3, <1>6, <2>1, <2>2 DEF Placed
<1>10. Unused'
  BY <1>1, <1>4, SameLoops
<1> QED BY <1>4, <1>7, <1>8, <1>9, <1>10 DEF ChannelInv

(* The end of a bridge process.                                            *)
LEMMA BridgeEnds ==
  ASSUME ChannelInv, TypeOK', NEW s \in Sessions, bridge[s] # "none",
         bridge' = [bridge EXCEPT ![s] = "exited"], UNCHANGED <<control, target>>
  PROVE  ChannelInv'
<1>1. NoDescriptorLeft' /\ Once'
  BY SameTarget DEF ChannelInv, target
<1>2. Unconnected'
  BY DEF ChannelInv, TypeOK, Unconnected, Placed, target
<1>3. Unused'
  BY SameLoops DEF control
<1> QED BY <1>1, <1>2, <1>3 DEF ChannelInv

LEMMA GivesUpKeeps ==
  ASSUME ChannelInv, NEW s \in Sessions, BridgeGivesUp(s) PROVE ChannelInv'
<1>1. /\ bridge[s] = "dialing" /\ bridge' = [bridge EXCEPT ![s] = "exited"] /\ Fails
      /\ UNCHANGED <<control, session, target, asking, wire, jobs>>
  BY DEF BridgeGivesUp
<1>2. bridge' \in [Sessions -> BridgeStates]
  BY <1>1 DEF ChannelInv, TypeOK, BridgeStates
<1>3. TypeOK'
  BY <1>1, <1>2, FailsIsTyped DEF ChannelInv, TypeOK, control, target, asking, jobs
<1> QED BY <1>1, <1>3, BridgeEnds

LEMMA ExitsKeeps ==
  ASSUME ChannelInv, NEW s \in Sessions, BridgeExits(s) PROVE ChannelInv'
<1>1. /\ bridge[s] = "up" /\ bridge' = [bridge EXCEPT ![s] = "exited"]
      /\ UNCHANGED <<control, session, target, asking, wire, jobs, history>>
  BY DEF BridgeExits
<1>2. bridge' \in [Sessions -> BridgeStates]
  BY <1>1 DEF ChannelInv, TypeOK, BridgeStates
<1>3. TypeOK'
  BY <1>1, <1>2 DEF ChannelInv, TypeOK, control, target, asking, jobs, history
<1> QED BY <1>1, <1>3, BridgeEnds

(* The connection at the head of the backlog is taken from it.             *)
LEMMA HeadIsTaken ==
  ASSUME ChannelInv, backlog # <<>>, backlog' = Tail(backlog)
  PROVE  /\ Head(backlog) \in Sessions /\ backlog' \in Seq(Sessions)
         /\ Head(backlog) # conn /\ Head(backlog) # greeting
         /\ Head(backlog) = backlog[1] /\ 1 \in 1 .. Len(backlog)
         /\ \A i \in 1 .. Len(backlog') :
              i + 1 \in 1 .. Len(backlog) /\ backlog'[i] = backlog[i + 1] /\ backlog'[i] # Head(backlog)
         /\ \A i, j \in 1 .. Len(backlog') : backlog'[i] = backlog'[j] => i = j
<1>1. backlog \in Seq(Sessions)
  BY DEF ChannelInv, TypeOK
<1>2. /\ Head(backlog) = backlog[1] /\ backlog' \in Seq(Sessions) /\ Len(backlog) \in Nat \ {0}
      /\ Len(backlog') = Len(backlog) - 1
      /\ \A i \in 1 .. Len(backlog) - 1 : backlog'[i] = backlog[i + 1]
  BY <1>1
<1>3. \A i \in 1 .. Len(backlog') : i \in 1 .. Len(backlog) - 1 /\ i + 1 \in 1 .. Len(backlog) /\ i + 1 # 1
  BY <1>2
<1>4. 1 \in 1 .. Len(backlog) /\ backlog[1] \in Sessions
  BY <1>1, <1>2
<1>5. \A i \in 1 .. Len(backlog') : backlog'[i] = backlog[i + 1]
  BY <1>2, <1>3
<1>6. /\ \A i \in 1 .. Len(backlog) : backlog[i] # conn /\ backlog[i] # greeting
      /\ \A i, j \in 1 .. Len(backlog) : backlog[i] = backlog[j] => i = j
  BY DEF ChannelInv, Once
<1>7. \A i \in 1 .. Len(backlog') : backlog'[i] # Head(backlog)
  BY <1>2, <1>3, <1>4, <1>5, <1>6
<1>8. ASSUME NEW i \in 1 .. Len(backlog'), NEW j \in 1 .. Len(backlog'), backlog'[i] = backlog'[j]
      PROVE  i = j
  <2>1. i + 1 = j + 1
    BY <1>3, <1>5, <1>6, <1>8
  <2> QED BY <2>1
<1> QED BY <1>2, <1>3, <1>4, <1>5, <1>6, <1>7, <1>8

(* No connection is placed that was not, so none that has not connected.   *)
LEMMA NothingPlaced ==
  ASSUME ChannelInv, UNCHANGED bridge, \A s \in Sessions : Placed(s)' => Placed(s)
  PROVE  Unconnected'
BY DEF ChannelInv, Unconnected

LEMMA GreetKeeps ==
  ASSUME ChannelInv, Greet PROVE ChannelInv'
<1>1. /\ greeting = None /\ backlog # <<>> /\ greeting' = Head(backlog)
      /\ open' = open \cup {Head(backlog)} /\ backlog' = Tail(backlog) /\ conn' = conn
      /\ UNCHANGED <<control, session, bridge, ready, asking, wire, jobs, history>>
  BY DEF Greet
<1>2. /\ Head(backlog) \in Sessions /\ backlog' \in Seq(Sessions)
      /\ Head(backlog) # conn /\ Head(backlog) = backlog[1] /\ 1 \in 1 .. Len(backlog)
      /\ \A i \in 1 .. Len(backlog') :
           i + 1 \in 1 .. Len(backlog) /\ backlog'[i] = backlog[i + 1] /\ backlog'[i] # Head(backlog)
      /\ \A i, j \in 1 .. Len(backlog') : backlog'[i] = backlog'[j] => i = j
  BY <1>1, HeadIsTaken
<1>3. TypeOK'
  BY <1>1, <1>2 DEF ChannelInv, TypeOK, control, asking, jobs, history
<1>4. NoDescriptorLeft'
  BY <1>1, <1>2, SessionsAre DEF ChannelInv, NoDescriptorLeft
<1>5. Once'
  BY <1>1, <1>2 DEF ChannelInv, Once
<1>6. \A s \in Sessions : Placed(s)' => Placed(s)
  BY <1>1, <1>2 DEF Placed
<1>7. Unconnected' /\ Unused'
  BY <1>1, <1>6, NothingPlaced, SameAttempts DEF ChannelInv, control
<1> QED BY <1>3, <1>4, <1>5, <1>7 DEF ChannelInv

LEMMA RejectKeeps ==
  ASSUME ChannelInv, Reject PROVE ChannelInv'
<1>1. /\ backlog # <<>> /\ backlog' = Tail(backlog)
      /\ UNCHANGED <<control, session, bridge, greeting, open, conn, ready, asking, wire, jobs, history>>
  BY DEF Reject
<1>2. /\ backlog' \in Seq(Sessions)
      /\ \A i \in 1 .. Len(backlog') : i + 1 \in 1 .. Len(backlog) /\ backlog'[i] = backlog[i + 1]
      /\ \A i, j \in 1 .. Len(backlog') : backlog'[i] = backlog'[j] => i = j
  BY <1>1, HeadIsTaken
<1>3. TypeOK'
  BY <1>1, <1>2 DEF ChannelInv, TypeOK, control, asking, jobs, history
<1>4. NoDescriptorLeft' /\ Once'
  BY <1>1, <1>2 DEF ChannelInv, NoDescriptorLeft, Once
<1>5. \A s \in Sessions : Placed(s)' => Placed(s)
  BY <1>1, <1>2 DEF Placed
<1>6. Unconnected' /\ Unused'
  BY <1>1, <1>5, NothingPlaced, SameAttempts DEF ChannelInv, control
<1> QED BY <1>3, <1>4, <1>6 DEF ChannelInv

LEMMA InstallKeeps ==
  ASSUME ChannelInv, Install PROVE ChannelInv'
<1>1. /\ greeting # None /\ mu = None /\ open' = open \ {conn} /\ conn' = greeting
      /\ greeting' = None /\ ready' = TRUE
      /\ ask' = [a \in Asks |-> IF ask[a] = "waiting" THEN "woken" ELSE ask[a]]
      /\ UNCHANGED <<control, session, bridge, backlog, mu, tries, by, wire, jobs, history>>
  BY DEF Install, WakeWaiting
<1>2. ask' \in [Asks -> AskStates] /\ \A a \in Asks : ask'[a] = "receiving" => ask[a] = "receiving"
  BY <1>1 DEF ChannelInv, TypeOK, AskStates
<1>3. open' \subseteq Sessions /\ conn' \in Sessions \cup {None} /\ greeting' \in Sessions \cup {None}
  BY <1>1 DEF ChannelInv, TypeOK
<1>4. ready' \in BOOLEAN /\ (ready' <=> conn' # None)
  BY <1>1
<1>5. TypeOK'
  BY <1>1, <1>2, <1>3, <1>4 DEF ChannelInv, TypeOK, control, jobs, history
<1>6. NoDescriptorLeft'
  BY <1>1 DEF ChannelInv, NoDescriptorLeft, Once
<1>7. \A i \in 1 .. Len(backlog) : backlog[i] # None
  BY SessionsAre DEF ChannelInv, TypeOK
<1>8. Once'
  BY <1>1, <1>7 DEF ChannelInv, Once
<1>9. \A s \in Sessions : Placed(s)' => Placed(s)
  BY <1>1, SessionsAre DEF Placed
<1>10. Unconnected' /\ Unused'
  BY <1>1, <1>9, NothingPlaced, SameAttempts DEF ChannelInv, control
<1> QED BY <1>5, <1>6, <1>8, <1>10 DEF ChannelInv

-----------------------------------------------------------------------------
(* The agent's asks.                                                       *)
LEMMA JobKeeps ==
  ASSUME ChannelInv, NEW r \in Runs, BeginJob(r) \/ EndJob(r) PROVE ChannelInv'
<1>1. /\ running' \in Runs \cup {None} /\ over' \subseteq Runs
      /\ UNCHANGED <<control, session, bridge, target, asking, wire, history>>
  BY DEF ChannelInv, TypeOK, BeginJob, EndJob
<1>2. TypeOK'
  BY <1>1 DEF ChannelInv, TypeOK, control, target, asking, history
<1> QED BY <1>1, <1>2, OtherSteps DEF control

LEMMA SendIsTyped ==
  ASSUME ChannelInv, NEW a \in Asks, Send(a)
  PROVE  /\ mu' \in Asks \cup {None} /\ ask' \in [Asks -> AskStates]
         /\ wire' \in [Sessions -> Asks \cup Runs \cup {None}]
         /\ \A b \in Asks : ask'[b] = "receiving" => mu' = b
<1>1. /\ mu = None /\ conn # None /\ mu' = a
      /\ ask' = [ask EXCEPT ![a] = "receiving"] /\ wire' = [wire EXCEPT ![conn] = a]
  BY DEF Send
<1>2. conn \in Sessions /\ wire \in [Sessions -> Asks \cup Runs \cup {None}] /\ ask \in [Asks -> AskStates]
  BY <1>1 DEF ChannelInv, TypeOK
<1>3. \A b \in Asks : ask[b] # "receiving"
  BY <1>1, SessionsAre DEF ChannelInv, TypeOK
<1>4. ask' \in [Asks -> AskStates] /\ \A b \in Asks : ask'[b] = "receiving" => mu' = b
  BY <1>1, <1>2, <1>3 DEF AskStates
<1>5. wire' \in [Sessions -> Asks \cup Runs \cup {None}]
  BY <1>1, <1>2
<1> QED BY <1>1, <1>4, <1>5

LEMMA AskKeeps ==
  ASSUME ChannelInv, NEW a \in Asks, Ask(a) PROVE ChannelInv'
<1>1. Send(a) /\ tries' = [tries EXCEPT ![a] = 1]
      /\ UNCHANGED <<control, session, bridge, target, by, jobs, history>>
  BY DEF Ask
<1>2. tries' \in [Asks -> 0 .. 2]
  BY <1>1 DEF ChannelInv, TypeOK
<1>3. TypeOK'
  BY <1>1, <1>2, SendIsTyped DEF ChannelInv, TypeOK, control, target, jobs, history
<1> QED BY <1>1, <1>3, OtherSteps DEF control

LEMMA ResumeKeeps ==
  ASSUME ChannelInv, NEW a \in Asks, Resume(a) PROVE ChannelInv'
<1>1. Send(a) /\ UNCHANGED <<control, session, bridge, target, tries, by, jobs, history>>
  BY DEF Resume
<1>2. TypeOK'
  BY <1>1, SendIsTyped DEF ChannelInv, TypeOK, control, target, jobs, history
<1> QED BY <1>1, <1>2, OtherSteps DEF control

(* An ask that waits, expires or finds nobody attached holds no mutex.     *)
LEMMA AskMoves ==
  ASSUME ChannelInv, NEW a \in Asks, NEW st \in AskStates \ {"receiving"},
         ask' = [ask EXCEPT ![a] = st], mu' = mu
  PROVE  ask' \in [Asks -> AskStates] /\ \A b \in Asks : ask'[b] = "receiving" => mu' = b
BY DEF ChannelInv, TypeOK

LEMMA AskWaitsKeeps ==
  ASSUME ChannelInv, NEW a \in Asks, AskWaits(a) PROVE ChannelInv'
<1>1. /\ ask' = [ask EXCEPT ![a] = "woken"] \/ ask' = [ask EXCEPT ![a] = "waiting"]
      /\ tries' = [tries EXCEPT ![a] = 1]
      /\ UNCHANGED <<control, session, bridge, target, mu, by, wire, jobs, history>>
  BY DEF AskWaits
<1>2. "woken" \in AskStates \ {"receiving"} /\ "waiting" \in AskStates \ {"receiving"}
  BY DEF AskStates
<1>3. ask' \in [Asks -> AskStates] /\ \A b \in Asks : ask'[b] = "receiving" => mu' = b
  BY <1>1, <1>2, AskMoves
<1>4. tries' \in [Asks -> 0 .. 2]
  BY <1>1 DEF ChannelInv, TypeOK
<1>5. TypeOK'
  BY <1>1, <1>3, <1>4 DEF ChannelInv, TypeOK, control, target, jobs, history
<1> QED BY <1>1, <1>5, OtherSteps DEF control

LEMMA ExpireKeeps ==
  ASSUME ChannelInv, NEW a \in Asks, Expire(a) PROVE ChannelInv'
<1>1. /\ ask' = [ask EXCEPT ![a] = "expired"]
      /\ UNCHANGED <<control, session, bridge, target, mu, tries, by, wire, jobs, faults>>
  BY DEF Expire
<1>2. calm' \in BOOLEAN
  BY DEF Expire
<1>3. "expired" \in AskStates \ {"receiving"}
  BY DEF AskStates
<1>4. ask' \in [Asks -> AskStates] /\ \A b \in Asks : ask'[b] = "receiving" => mu' = b
  BY <1>1, <1>3, AskMoves
<1>5. TypeOK'
  BY <1>1, <1>2, <1>4 DEF ChannelInv, TypeOK, control, target, jobs
<1> QED BY <1>1, <1>5, OtherSteps DEF control

LEMMA NobodyAttachedKeeps ==
  ASSUME ChannelInv, NEW a \in Asks, NobodyAttached(a) PROVE ChannelInv'
<1>1. /\ ask' = [ask EXCEPT ![a] = "failed"]
      /\ UNCHANGED <<control, session, bridge, target, mu, tries, by, wire, jobs, history>>
  BY DEF NobodyAttached
<1>2. "failed" \in AskStates \ {"receiving"}
  BY DEF AskStates
<1>3. ask' \in [Asks -> AskStates] /\ \A b \in Asks : ask'[b] = "receiving" => mu' = b
  BY <1>1, <1>2, AskMoves
<1>4. TypeOK'
  BY <1>1, <1>3 DEF ChannelInv, TypeOK, control, target, jobs, history
<1> QED BY <1>1, <1>4, OtherSteps DEF control

(* The one exchange under way ends, and mu is released.                    *)
LEMMA ExchangeEnds ==
  ASSUME ChannelInv, NEW a \in Asks, ask[a] = "receiving", NEW st \in AskStates \ {"receiving"},
         ask' = [ask EXCEPT ![a] = st], wire' = [wire EXCEPT ![conn] = None]
  PROVE  /\ ask' \in [Asks -> AskStates] /\ wire' \in [Sessions -> Asks \cup Runs \cup {None}]
         /\ \A b \in Asks : ask'[b] # "receiving"
<1>1. ask \in [Asks -> AskStates] /\ mu = a /\ \A b \in Asks : ask[b] = "receiving" => mu = b
  BY DEF ChannelInv, TypeOK
<1>2. ask' \in [Asks -> AskStates] /\ \A b \in Asks : ask'[b] # "receiving"
  BY <1>1
<1>3. wire' \in [Sessions -> Asks \cup Runs \cup {None}]
  BY DEF ChannelInv, TypeOK
<1> QED BY <1>2, <1>3

LEMMA ReceiveKeeps ==
  ASSUME ChannelInv, NEW a \in Asks, Receive(a) PROVE ChannelInv'
<1>1. /\ ask[a] = "receiving" /\ wire[conn] \in Runs /\ ask' = [ask EXCEPT ![a] = "answered"]
      /\ by' = [by EXCEPT ![a] = wire[conn]] /\ wire' = [wire EXCEPT ![conn] = None] /\ mu' = None
      /\ UNCHANGED <<control, session, bridge, target, tries, jobs, history>>
  BY DEF Receive
<1>2. "answered" \in AskStates \ {"receiving"}
  BY DEF AskStates
<1>3. /\ ask' \in [Asks -> AskStates] /\ wire' \in [Sessions -> Asks \cup Runs \cup {None}]
      /\ \A b \in Asks : ask'[b] # "receiving"
  BY <1>1, <1>2, ExchangeEnds
<1>4. by' \in [Asks -> Runs \cup {None}]
  BY <1>1 DEF ChannelInv, TypeOK
<1>5. TypeOK'
  BY <1>1, <1>3, <1>4 DEF ChannelInv, TypeOK, control, target, jobs, history
<1> QED BY <1>1, <1>5, OtherSteps DEF control

(* drop(): the connection is closed as it is forgotten, and it is not the  *)
(* one that is being greeted.                                              *)
LEMMA ForgetKeeps ==
  ASSUME ChannelInv, TypeOK', Forget, UNCHANGED <<control, bridge, backlog, greeting>>
  PROVE  ChannelInv'
<1>1. open' = open \ {conn} /\ conn' = None /\ greeting' = greeting /\ backlog' = backlog
  BY DEF Forget
<1>2. \A i \in 1 .. Len(backlog) : backlog[i] # None
  BY SessionsAre DEF ChannelInv, TypeOK
<1>3. NoDescriptorLeft'
  BY <1>1 DEF ChannelInv, NoDescriptorLeft, Once
<1>4. Once'
  BY <1>1, <1>2 DEF ChannelInv, Once
<1>5. \A s \in Sessions : Placed(s)' => Placed(s)
  BY <1>1, SessionsAre DEF Placed
<1>6. Unconnected' /\ Unused'
  BY <1>5, NothingPlaced, SameAttempts DEF ChannelInv, control
<1> QED BY <1>3, <1>4, <1>6 DEF ChannelInv

LEMMA EndOfFileKeeps ==
  ASSUME ChannelInv, NEW a \in Asks, Retry(a) \/ WentAway(a) PROVE ChannelInv'
<1>1. /\ ask[a] = "receiving" /\ Forget /\ ready' = FALSE /\ mu' = None
      /\ tries' = [tries EXCEPT ![a] = 2] \/ tries' = tries
      /\ ask' = [ask EXCEPT ![a] = "waiting"] \/ ask' = [ask EXCEPT ![a] = "failed"]
      /\ UNCHANGED <<control, session, bridge, backlog, greeting, by, jobs, history>>
  BY DEF Retry, WentAway, EndOfFile
<1>2. "waiting" \in AskStates \ {"receiving"} /\ "failed" \in AskStates \ {"receiving"}
  BY DEF AskStates
<1>3. /\ ask' \in [Asks -> AskStates] /\ wire' \in [Sessions -> Asks \cup Runs \cup {None}]
      /\ \A b \in Asks : ask'[b] # "receiving"
  BY <1>1, <1>2, ExchangeEnds DEF Forget
<1>4. tries' \in [Asks -> 0 .. 2]
  BY <1>1 DEF ChannelInv, TypeOK
<1>5. open' \subseteq Sessions /\ conn' = None
  BY <1>1 DEF ChannelInv, TypeOK, Forget
<1>6. TypeOK'
  BY <1>1, <1>3, <1>4, <1>5 DEF ChannelInv, TypeOK, control, jobs, history
<1> QED BY <1>1, <1>6, ForgetKeeps

-----------------------------------------------------------------------------
LEMMA ChannelInit == ASSUME Init PROVE ChannelInv
<1>1. Leftover \in Sessions /\ None \notin Sessions /\ Leftover # None
  BY SessionsAre
<1>2. 0 \in 0 .. Retries /\ 0 \in 0 .. MaxFaults
  BY RetriesAssumption
<1>3. TypeOK
  <2>1. loop \in [Runs -> LoopStates] /\ attempt \in [Runs -> 0 .. Retries] /\ stopped \subseteq Runs
    BY <1>2 DEF Init, LoopStates
  <2>2. session \in [Sessions -> SessionStates] /\ bridge \in [Sessions -> BridgeStates]
    BY DEF Init, SessionStates, BridgeStates
  <2>3. /\ backlog \in Seq(Sessions) /\ greeting \in Sessions \cup {None}
        /\ conn \in Sessions \cup {None} /\ open \subseteq Sessions
    BY <1>1 DEF Init
  <2>4. ready \in BOOLEAN /\ (ready <=> conn # None)
    BY DEF Init
  <2>5. /\ mu \in Asks \cup {None} /\ ask \in [Asks -> AskStates] /\ tries \in [Asks -> 0 .. 2]
        /\ \A a \in Asks : ask[a] = "receiving" => mu = a
    BY DEF Init, AskStates
  <2>6. /\ wire \in [Sessions -> Asks \cup Runs \cup {None}] /\ by \in [Asks -> Runs \cup {None}]
        /\ running \in Runs \cup {None} /\ over \subseteq Runs
    BY DEF Init
  <2>7. faults \in 0 .. MaxFaults /\ calm \in BOOLEAN
    BY <1>2 DEF Init
  <2> QED BY <2>1, <2>2, <2>3, <2>4, <2>5, <2>6, <2>7 DEF TypeOK
<1>4. NoDescriptorLeft /\ Once
  BY <1>1 DEF Init, NoDescriptorLeft, Once
<1>5. Unconnected
  BY <1>1 DEF Init, Unconnected, Placed
<1>6. Unused
  BY <1>1, SessionsAre DEF Init, Unused
<1> QED BY <1>3, <1>4, <1>5, <1>6 DEF ChannelInv

LEMMA ChannelStep == ASSUME ChannelInv, [Next]_vars PROVE ChannelInv'
<1>1. ASSUME NEW r \in Runs, ControlStep(r) \/ Begin(r) \/ Fault(r) PROVE ChannelInv'
  BY <1>1, StartBridgeKeeps, SeesStopKeeps, DialKeeps, DialFailsKeeps, RegisterKeeps,
     AnswerKeeps, ServingEndsKeeps, StopKeeps, DropKeeps, JobKeeps
  DEF ControlStep, Begin, Fault
<1>2. ASSUME NEW s \in Sessions, BridgeStep(s) \/ BridgeGivesUp(s) PROVE ChannelInv'
  BY <1>2, ConnectsKeeps, ExitsKeeps, GivesUpKeeps DEF BridgeStep
<1>3. CASE AcceptStep
  BY <1>3, GreetKeeps, RejectKeeps, InstallKeeps DEF AcceptStep
<1>4. ASSUME NEW a \in Asks, Ask(a) \/ AskWaits(a) \/ AskStep(a) PROVE ChannelInv'
  BY <1>4, AskKeeps, AskWaitsKeeps, ExpireKeeps, ResumeKeeps, NobodyAttachedKeeps,
     ReceiveKeeps, EndOfFileKeeps
  DEF AskStep
<1>5. CASE UNCHANGED vars
  <2>1. TypeOK'
    BY <1>5 DEF ChannelInv, TypeOK, vars, control, target, asking, jobs, history
  <2> QED BY <1>5, <2>1, OtherSteps DEF vars, control
<1> QED BY <1>1, <1>2, <1>3, <1>4, <1>5 DEF Next, Elsewhere

(* What holds of the connections between any two steps of control hosts,   *)
(* bridges, the accept goroutine and the asks (channel.go:89-243).         *)
THEOREM ChannelInvariant == Spec => []ChannelInv
<1>1. Init => ChannelInv
  BY ChannelInit
<1>2. ChannelInv /\ [Next]_vars => ChannelInv'
  BY ChannelStep
<1> QED BY <1>1, <1>2, PTL DEF Spec

(* Each variable keeps its type, an exchange under way is the one of the   *)
(* ask that holds mu, and ready is closed exactly while a connection is    *)
(* installed (channel.go:89-118, 144-243).                                 *)
THEOREM ChannelTypeCorrect == Spec => []TypeOK
<1>1. ChannelInv => TypeOK
  BY DEF ChannelInv
<1> QED BY <1>1, ChannelInvariant, PTL

(* However many sessions come and go, and however often control hosts      *)
(* reconnect between two asks, the agent's end is open on the connection   *)
(* installed and the one being greeted and on no other: accept() closes    *)
(* the connection it replaces, drop() the one it forgets                   *)
(* (channel.go:100-108, 231-243).                                          *)
THEOREM NoDescriptorIsLost == Spec => []NoDescriptorLeft
<1>1. ChannelInv => NoDescriptorLeft
  BY DEF ChannelInv
<1> QED BY <1>1, ChannelInvariant, PTL
=============================================================================
