--------------------------- MODULE AgentPushProofs ---------------------------
(***************************************************************************)
(* For any number of runs, chunks and dropped sessions: as long as runs do *)
(* not overlap, an agent is only started from the whole binary.            *)
(***************************************************************************)
EXTENDS AgentPush, TLAPS

(* An inode is named by the run that created it: none that has not come to *)
(* its push has one.                                                       *)
Fresh ==
  \A r \in Runs : pc[r] \in {"idle", "probe", "open"} => temp # r /\ path # r

(* Alone, a push finds under the temporary name what it has written, and   *)
(* under the final one the whole of it.                                    *)
Solo ==
  /\ \A q, r \in Active : q = r
  /\ \A r \in Runs :
       /\ pc[r] \in {"write", "rename"} =>
            /\ temp \in Runs /\ file[r] = temp
            /\ content[temp] = 1 .. pos[r]
       /\ pc[r] = "rename" => pos[r] = Size
       /\ pc[r] = "launch" => path \in Runs /\ content[path] = Whole
       /\ started[r] = Whole

PushInv == TypeOK /\ Fresh /\ (~overlap => Solo)

-----------------------------------------------------------------------------
LEMMA PushTypes ==
  ASSUME TypeOK, Fresh, [Next]_vars
  PROVE  TypeOK'
<1> USE NoneAssumption, SizeAssumption DEF TypeOK, Transition, Steps, sent, names
<1>1. ASSUME NEW r \in Runs, Step(r) \/ Drop(r) PROVE TypeOK'
  <2>1. CASE Begin(r) \/ Probe(r) \/ CatEnds(r) \/ RenameFails(r)
    BY <2>1 DEF Begin, Probe, CatEnds, RenameFails
  <2>2. CASE Open(r)
    <3>1. r # path /\ r # None
      BY <2>2 DEF Open, Fresh
    <3> QED BY <2>2, <3>1 DEF Open
  <2>3. CASE Write(r)
    <3>1. pos[r] + 1 \in Whole /\ pos[r] + 1 \in 0 .. Size
      BY <2>3 DEF Write, Whole
    <3>2. content' \in [Runs -> SUBSET Whole]
      BY <2>3, <3>1 DEF Write
    <3> QED BY <2>3, <3>1, <3>2 DEF Write
  <2>4. CASE Rename(r)
    BY <2>4 DEF Rename
  <2>5. CASE Launch(r)
    BY <2>5 DEF Launch
  <2>6. CASE Drop(r)
    BY <2>6 DEF Drop
  <2> QED BY <1>1, <2>1, <2>2, <2>3, <2>4, <2>5, <2>6 DEF Step
<1>2. CASE UNCHANGED vars
  BY <1>2 DEF vars
<1> QED BY <1>1, <1>2 DEF Next, AllEnded

LEMMA FreshKept ==
  ASSUME TypeOK, Fresh, [Next]_vars
  PROVE  Fresh'
<1> USE DEF Fresh, TypeOK, Transition, Steps, sent, names
<1>1. ASSUME NEW r \in Runs, Step(r) \/ Drop(r) PROVE Fresh'
  <2>1. CASE Begin(r) \/ Probe(r) \/ CatEnds(r) \/ RenameFails(r) \/ Write(r) \/ Launch(r)
    BY <2>1 DEF Begin, Probe, CatEnds, RenameFails, Write, Launch
  <2>2. CASE Open(r)
    BY <2>2 DEF Open
  <2>3. CASE Rename(r) \/ Drop(r)
    BY <2>3, NoneAssumption DEF Rename, Drop
  <2> QED BY <1>1, <2>1, <2>2, <2>3 DEF Step
<1>2. CASE UNCHANGED vars
  BY <1>2 DEF vars
<1> QED BY <1>1, <1>2 DEF Next, AllEnded

(* A run that begins beside another one is noted.                          *)
LEMMA SoloKept ==
  ASSUME PushInv, ~overlap', [Next]_vars
  PROVE  Solo'
<1> USE NoneAssumption, SizeAssumption DEF PushInv, Transition, Steps, sent, names
<1>1. ASSUME NEW r \in Runs, Step(r) \/ Drop(r) PROVE Solo'
  <2>1. Solo
    BY <1>1 DEF Step, Begin, Probe, Open, Write, CatEnds, Rename, RenameFails, Launch, Drop,
       TypeOK
  <2>2. pc' \in [Runs -> Steps] /\ \A q \in Runs : q # r => pc'[q] = pc[q]
    BY <1>1 DEF Step, Begin, Probe, Open, Write, CatEnds, Rename, RenameFails, Launch, Drop,
       TypeOK
  <2>3. \A q \in Runs : q # r => pc'[q] \in {"idle", "ended"}
    <3>1. CASE Begin(r)
      BY <2>2, <3>1 DEF Begin, Active
    <3>2. CASE ~Begin(r)
      <4>1. r \in Active
        BY <1>1, <3>2 DEF Step, Probe, Open, Write, CatEnds, Rename, RenameFails, Launch,
           Drop, Active
      <4> QED BY <2>1, <2>2, <4>1 DEF Solo, Active
    <3> QED BY <3>1, <3>2
  <2>4. \A p, q \in Active' : p = q
    BY <2>3 DEF Active
  <2>5. SUFFICES ASSUME TRUE
                 PROVE  /\ pc'[r] \in {"write", "rename"} =>
                             /\ temp' \in Runs /\ file'[r] = temp'
                             /\ content'[temp'] = 1 .. pos'[r]
                        /\ pc'[r] = "rename" => pos'[r] = Size
                        /\ pc'[r] = "launch" => path' \in Runs /\ content'[path'] = Whole
                        /\ \A q \in Runs : started'[q] = Whole
    BY <2>3, <2>4 DEF Solo
  <2>6. CASE Begin(r) \/ Probe(r) \/ CatEnds(r) \/ RenameFails(r) \/ Rename(r) \/ Drop(r)
    BY <2>1, <2>6 DEF Begin, Probe, CatEnds, RenameFails, Rename, Drop, Solo, TypeOK, Whole
  <2>7. CASE Open(r)
    BY <2>1, <2>7 DEF Open, Solo, TypeOK
  <2>8. CASE Write(r)
    <3>1. 1 .. (pos[r] + 1) = (1 .. pos[r]) \cup {pos[r] + 1}
      BY DEF TypeOK
    <3> QED BY <2>1, <2>8, <3>1 DEF Write, Solo, TypeOK
  <2>9. CASE Launch(r)
    BY <2>1, <2>9 DEF Launch, Solo, TypeOK
  <2> QED BY <1>1, <2>6, <2>7, <2>8, <2>9 DEF Step
<1>2. CASE UNCHANGED vars
  BY <1>2 DEF vars, Solo, Active
<1> QED BY <1>1, <1>2 DEF Next, AllEnded

-----------------------------------------------------------------------------
(* The invariant behind a push nobody else disturbs.                       *)
THEOREM PushInvariant == Spec => []PushInv
<1>1. Init => PushInv
  <2> SUFFICES ASSUME Init PROVE PushInv
    OBVIOUS
  <2>1. TypeOK
    <3>1. started \in [Runs -> SUBSET Whole] /\ content \in [Runs -> SUBSET Whole]
      BY DEF Init
    <3>2. pos \in [Runs -> 0 .. Size] /\ drops \in 0 .. MaxDrops
      BY SizeAssumption DEF Init
    <3> QED BY <3>1, <3>2 DEF Init, TypeOK, Steps
  <2>2. Fresh /\ Solo
    BY NoneAssumption DEF Init, Fresh, Solo, Active
  <2> QED BY <2>1, <2>2 DEF PushInv
<1>2. PushInv /\ [Next]_vars => PushInv'
  BY PushTypes, FreshKept, SoloKept DEF PushInv
<1> QED BY <1>1, <1>2, PTL DEF Spec

(* Types; the temporary name and the final one are never the same file.    *)
THEOREM PushTypeCorrect == Spec => []TypeOK
<1>1. PushInv => TypeOK
  BY DEF PushInv
<1> QED BY <1>1, PushInvariant, PTL

(* Whatever sessions dropped before, an agent is started from the whole    *)
(* binary unless two runs overlapped (ssh.go:521-523).                     *)
THEOREM SoloPushIsWhole == Spec => []SoloStartsWhole
<1>1. PushInv => SoloStartsWhole
  BY DEF PushInv, Solo, SoloStartsWhole
<1> QED BY <1>1, PushInvariant, PTL
=============================================================================
