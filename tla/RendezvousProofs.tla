-------------------------- MODULE RendezvousProofs --------------------------
(***************************************************************************)
(* Safety of the rendezvous for any number of runs, agents and cleans:     *)
(* type correctness, the inductive invariant behind "at most once" and     *)
(* "never wrong", and the refinement of JobContract.                       *)
(***************************************************************************)
EXTENDS Rendezvous, TLAPS

NotDeposited(r) == rpc[r] \in BeforeDeposit \cup {"refused"}

(* A job that is not deposited has left nothing on the target.             *)
Undeposited ==
  \A r \in Runs : NotDeposited(r) =>
    /\ ran[r] = 0
    /\ r \notin reqs \cup claims \cup dones
    /\ \A a \in Runs : ajob[a] # r

(* A request is waiting, or claimed, or neither: never two of them.        *)
Waiting ==
  \A r \in reqs : /\ ran[r] = 0
                  /\ r \notin claims
                  /\ \A a \in Runs : ajob[a] # r

SoleHolder ==
  \A a, b \in Runs : ajob[a] \in Runs /\ ajob[a] = ajob[b] => a = b

(* Where an agent stands tells whether its job has been executed.          *)
Progress ==
  \A a \in Runs :
    /\ apc[a] = "claimed" => ran[ajob[a]] = 0
    /\ apc[a] \in {"writing", "marking", "releasing"} => ran[ajob[a]] = 1

(* Results, markers and answers exist for executed jobs only.              *)
Executed ==
  \A r \in Runs :
    /\ ran[r] \in {0, 1}
    /\ outs[r] # "none" => ran[r] = 1
    /\ r \in dones => ran[r] = 1
    /\ got[r] # "none" => ran[r] = 1

IInv == Undeposited /\ Waiting /\ SoleHolder /\ Progress /\ Executed

(* What MarkerAfterResult rests on while nobody has erased the workdir.    *)
Published ==
  ~erased =>
    /\ \A r \in dones : outs[r] # "none"
    /\ \A r \in Runs : rpc[r] = "collect" => r \in dones
    /\ \A a \in Runs : apc[a] = "marking" => outs[ajob[a]] # "none"

Unmarked ==
  \A a \in Runs :
    apc[a] \in {"claimed", "writing", "marking"} => ajob[a] \notin dones

-----------------------------------------------------------------------------
(* TypeOK in two halves: the Booleans, and the rest.                       *)
BooleansOK ==
  /\ binary \in BOOLEAN
  /\ workdir \in BOOLEAN
  /\ erased \in BOOLEAN
  /\ calm \in BOOLEAN

DataOK ==
  /\ rpc \in [Runs -> RunStates]
  /\ got \in [Runs -> Results]
  /\ apc \in [Runs -> AgentStates]
  /\ ajob \in [Runs -> Runs \cup {None}]
  /\ reqs \subseteq Runs
  /\ claims \subseteq Runs
  /\ outs \in [Runs -> Results]
  /\ dones \subseteq Runs
  /\ pidfile \in Runs \cup {None}
  /\ ran \in [Runs -> Nat]
  /\ cleans \in 0 .. MaxCleans
  /\ \A a \in Runs : ajob[a] \in Runs <=> apc[a] \in Holding
  /\ \A r \in Runs : apc[r] # "unborn" =>
       rpc[r] \in {"poll", "collect", "returned", "abandoned"}

LEMMA TypeHalves == TypeOK <=> BooleansOK /\ DataOK
  BY Zenon DEF TypeOK, BooleansOK, DataOK

LEMMA BooleansStep == BooleansOK /\ [Next]_vars => BooleansOK'
<1> SUFFICES ASSUME BooleansOK, [Next]_vars PROVE BooleansOK'
  OBVIOUS
<1> USE DEF BooleansOK
<1>1. ASSUME NEW r \in Runs, RunStep(r) PROVE BooleansOK'
  BY <1>1, Zenon DEF RunStep, Probe, Push, EnsureWorkdir, Deposit,
     DepositFails, AliveCheck, Launch, LaunchNothing, Poll, RemoveJob, history
<1>2. ASSUME NEW a \in Runs, AgentStep(a) PROVE BooleansOK'
  BY <1>2, Zenon DEF AgentStep, Boot, Claim, Execute, ClaimVanished,
     WriteResult, Mark, Release, EraseFiles, RemoveDir, RemoveBinary, history
<1>3. ASSUME NEW r \in Runs, Fault(r) PROVE BooleansOK'
  BY <1>3, Zenon DEF Fault, DepositUnheard, Refuse, AliveUnheard, LaunchFails,
     Deadline, WriteShort, WriteNothing, Expire, Crash
<1>4. CASE Clean
  BY <1>4, Zenon DEF Clean
<1>5. CASE UNCHANGED vars
  BY <1>5, Zenon DEF vars, history
<1> QED BY <1>1, <1>2, <1>3, <1>4, <1>5 DEF Next, Quiescent

LEMMA DataStep == DataOK /\ [Next]_vars => DataOK'
<1> SUFFICES ASSUME DataOK, [Next]_vars PROVE DataOK'
  OBVIOUS
<1> USE NoneAssumption, MaxCleansAssumption
    DEF DataOK, RunStates, AgentStates, BeforeDeposit, Results, Holding
<1>1. ASSUME NEW r \in Runs, RunStep(r) PROVE DataOK'
  <2>1. CASE Probe(r) \/ Push(r) \/ EnsureWorkdir(r) \/ AliveCheck(r)
    BY <2>1 DEF Probe, Push, EnsureWorkdir, AliveCheck, Transition, agents,
                files, history
  <2>2. CASE Deposit(r) \/ DepositFails(r)
    BY <2>2 DEF Deposit, DepositFails, Transition, agents, files, history
  <2>3. CASE Launch(r) \/ LaunchNothing(r)
    BY <2>3 DEF Launch, LaunchNothing, Transition, agents, files, history
  <2>4. CASE Poll(r) \/ RemoveJob(r)
    BY <2>4 DEF Poll, RemoveJob, Transition, agents, files, history
  <2> QED BY <1>1, <2>1, <2>2, <2>3, <2>4 DEF RunStep
<1>2. ASSUME NEW a \in Runs, AgentStep(a) PROVE DataOK'
  <2>1. CASE Boot(a)
    BY <2>1 DEF Boot, AgentMoves, control, history
  <2>2. ASSUME NEW r \in Runs, Claim(a, r) PROVE DataOK'
    BY <2>2 DEF Claim, AgentMoves, control, history
  <2>3. CASE Execute(a)
    <3>1. ajob[a] \in Runs
      BY <2>3 DEF Execute, AgentMoves
    <3> QED BY <2>3, <3>1 DEF Execute, AgentMoves, control, files, history
  <2>4. CASE ClaimVanished(a)
    BY <2>4 DEF ClaimVanished, AgentMoves, control, files, history
  <2>5. CASE WriteResult(a)
    BY <2>5 DEF WriteResult, AgentMoves, control, history
  <2>6. CASE Mark(a)
    BY <2>6 DEF Mark, AgentMoves, control
  <2>7. CASE Release(a)
    BY <2>7 DEF Release, AgentMoves, control, history
  <2>8. CASE EraseFiles(a)
    BY <2>8 DEF EraseFiles, EraseEntries, AgentMoves, control
  <2>9. CASE RemoveDir(a) \/ RemoveBinary(a)
    BY <2>9 DEF RemoveDir, RemoveBinary, AgentMoves, control, files, history
  <2> QED BY <1>2, <2>1, <2>2, <2>3, <2>4, <2>5, <2>6, <2>7, <2>8, <2>9
          DEF AgentStep
<1>3. ASSUME NEW r \in Runs, Fault(r) PROVE DataOK'
  <2>1. CASE DepositUnheard(r) \/ Refuse(r) \/ AliveUnheard(r)
             \/ LaunchFails(r) \/ Deadline(r)
    BY <2>1 DEF DepositUnheard, Refuse, AliveUnheard, LaunchFails, Deadline,
                Transition, agents, files
  <2>2. CASE WriteShort(r) \/ WriteNothing(r)
    BY <2>2 DEF WriteShort, WriteNothing, AgentMoves, control
  <2>3. CASE Expire(r) \/ Crash(r)
    BY <2>3 DEF Expire, Crash, Live, AgentMoves, control, files
  <2> QED BY <1>3, <2>1, <2>2, <2>3 DEF Fault
<1>4. CASE Clean
  BY <1>4 DEF Clean, EraseEntries, Live, control
<1>5. CASE UNCHANGED vars
  BY <1>5 DEF vars, control, agents, files, history
<1> QED BY <1>1, <1>2, <1>3, <1>4, <1>5 DEF Next, Quiescent

(* The specification keeps its types (TypeOK): in particular an agent      *)
(* holds a job exactly from its claim to the release of that claim.        *)
THEOREM TypeCorrect == Spec => []TypeOK
<1>1. Init => BooleansOK
  BY Zenon DEF Init, BooleansOK
<1>2. Init => DataOK
  BY NoneAssumption, MaxCleansAssumption
  DEF Init, DataOK, RunStates, AgentStates, BeforeDeposit, Results, Holding
<1> QED BY <1>1, <1>2, BooleansStep, DataStep, TypeHalves, PTL DEF Spec

-----------------------------------------------------------------------------
LEMMA RunStepIInv ==
  ASSUME DataOK, IInv, NEW r \in Runs, RunStep(r) PROVE IInv'
<1> USE NoneAssumption
    DEF DataOK, IInv, Undeposited, NotDeposited, Waiting, SoleHolder, Progress,
        Executed, RunStates, AgentStates, BeforeDeposit, Results, Holding
<1>1. CASE Probe(r) \/ Push(r) \/ EnsureWorkdir(r) \/ AliveCheck(r)
  BY <1>1 DEF Probe, Push, EnsureWorkdir, AliveCheck, Transition, agents, files
<1>2. CASE Deposit(r)
  BY <1>2 DEF Deposit, Transition, agents
<1>3. CASE DepositFails(r)
  BY <1>3 DEF DepositFails, Transition, agents, files
<1>4. CASE Launch(r) \/ LaunchNothing(r)
  BY <1>4 DEF Launch, LaunchNothing, Transition, agents, files
<1>5. CASE Poll(r)
  BY <1>5 DEF Poll, Transition, agents, files
<1>6. CASE RemoveJob(r)
  BY <1>6 DEF RemoveJob, Transition, agents
<1> QED BY RunStep(r), <1>1, <1>2, <1>3, <1>4, <1>5, <1>6 DEF RunStep

LEMMA AgentStepIInv ==
  ASSUME DataOK, IInv, NEW a \in Runs, AgentStep(a) PROVE IInv'
<1> USE NoneAssumption
    DEF DataOK, IInv, Undeposited, NotDeposited, Waiting, SoleHolder, Progress,
        Executed, RunStates, AgentStates, BeforeDeposit, Results, Holding
<1>1. CASE Boot(a)
  BY <1>1 DEF Boot, AgentMoves, control
<1>2. ASSUME NEW r \in Runs, Claim(a, r) PROVE IInv'
  BY <1>2 DEF Claim, AgentMoves, control
<1>3. CASE Execute(a)
  BY <1>3 DEF Execute, AgentMoves, control, files
<1>4. CASE ClaimVanished(a)
  BY <1>4 DEF ClaimVanished, AgentMoves, control, files
<1>5. CASE WriteResult(a)
  BY <1>5 DEF WriteResult, AgentMoves, control
<1>6. CASE Mark(a)
  BY <1>6 DEF Mark, AgentMoves, control
<1>7. CASE Release(a)
  BY <1>7 DEF Release, AgentMoves, control
<1>8. CASE EraseFiles(a)
  BY <1>8 DEF EraseFiles, EraseEntries, AgentMoves, control
<1>9. CASE RemoveDir(a) \/ RemoveBinary(a)
  BY <1>9 DEF RemoveDir, RemoveBinary, AgentMoves, control, files
<1> QED BY AgentStep(a), <1>1, <1>2, <1>3, <1>4, <1>5, <1>6, <1>7, <1>8, <1>9
        DEF AgentStep

LEMMA FaultIInv ==
  ASSUME DataOK, IInv, NEW r \in Runs, Fault(r) PROVE IInv'
<1> USE NoneAssumption
    DEF DataOK, IInv, Undeposited, NotDeposited, Waiting, SoleHolder, Progress,
        Executed, RunStates, AgentStates, BeforeDeposit, Results, Holding
<1>1. CASE DepositUnheard(r) \/ Refuse(r)
  BY <1>1 DEF DepositUnheard, Refuse, Transition, agents, files
<1>2. CASE AliveUnheard(r) \/ LaunchFails(r) \/ Deadline(r)
  BY <1>2 DEF AliveUnheard, LaunchFails, Deadline, Transition, agents, files
<1>3. CASE WriteShort(r)
  BY <1>3 DEF WriteShort, AgentMoves, control
<1>4. CASE WriteNothing(r)
  BY <1>4 DEF WriteNothing, AgentMoves, control
<1>5. CASE Expire(r)
  BY <1>5 DEF Expire, AgentMoves, control, files
<1>6. CASE Crash(r)
  BY <1>6 DEF Crash, Live, control, files
<1> QED BY Fault(r), <1>1, <1>2, <1>3, <1>4, <1>5, <1>6 DEF Fault

LEMMA CleanIInv == ASSUME DataOK, IInv, Clean PROVE IInv'
  BY NoneAssumption
  DEF DataOK, IInv, Undeposited, NotDeposited, Waiting, SoleHolder, Progress,
      Executed, AgentStates, Holding, Clean, EraseEntries, Live, control

(* The inductive invariant: the one deposit, the one claim that a rename   *)
(* can give, and what each state of an agent says about its job.           *)
THEOREM InductiveInvariant == Spec => [](DataOK /\ IInv)
<1>1. Init => DataOK /\ IInv
  BY NoneAssumption, MaxCleansAssumption
  DEF Init, DataOK, IInv, Undeposited, Waiting, SoleHolder, Progress, Executed,
      RunStates, AgentStates, BeforeDeposit, Results, Holding
<1>2. DataOK /\ IInv /\ [Next]_vars => (DataOK /\ IInv)'
  <2> SUFFICES ASSUME DataOK, IInv, [Next]_vars PROVE IInv'
    BY DataStep
  <2>1. CASE UNCHANGED vars
    BY <2>1 DEF vars, control, agents, files, IInv, Undeposited, NotDeposited,
                Waiting, SoleHolder, Progress, Executed
  <2> QED BY <2>1, RunStepIInv, AgentStepIInv, FaultIInv, CleanIInv
          DEF Next, Quiescent
<1> QED BY <1>1, <1>2, PTL DEF Spec

(* "only one wins, so no request runs twice" (resident.go:68), for any     *)
(* number of runs, agents, crashes, expiries and cleans (AtMostOnce).      *)
THEOREM JobsRunAtMostOnce == Spec => []AtMostOnce
<1>1. ASSUME Executed, NEW r \in Runs PROVE ran[r] <= 1
  <2>1. ran[r] = 0 \/ ran[r] = 1
    BY <1>1 DEF Executed
  <2> QED BY <2>1
<1>2. IInv => AtMostOnce
  BY <1>1 DEF IInv, AtMostOnce
<1> QED BY <1>2, InductiveInvariant, PTL

(* "slow but never wrong" (resident.go:115): a result is only handed to a  *)
(* run whose job was executed, and an undeposited job leaves no trace      *)
(* (NeverWrong).                                                           *)
THEOREM ResultsAreNeverWrong == Spec => []NeverWrong
<1>1. Executed /\ Undeposited => NeverWrong
  BY DEF Executed, Undeposited, NotDeposited, NeverWrong
<1>2. IInv => Executed /\ Undeposited
  BY DEF IInv
<1> QED BY <1>1, <1>2, InductiveInvariant, PTL

-----------------------------------------------------------------------------
(* While the workdir stands, a result is there before its marker.          *)
LEMMA PublishedStep ==
  ASSUME DataOK, IInv, Unmarked, Published, Next
  PROVE  (Unmarked /\ Published)'
<1> USE NoneAssumption DEF DataOK, Unmarked, Published
<1>0. /\ \A a \in Runs : apc[a] \in Holding => ajob[a] \in Runs
      /\ \A a, b \in Runs : ajob[a] \in Runs /\ ajob[a] = ajob[b] => a = b
      /\ \A r \in reqs : ran[r] = 0
      /\ \A r \in dones : ran[r] = 1
  BY DEF IInv, SoleHolder, Waiting, Executed
<1> USE <1>0 DEF Holding
<1>1. ASSUME NEW r \in Runs, RunStep(r) PROVE (Unmarked /\ Published)'
  <2>1. CASE Probe(r) \/ Push(r) \/ EnsureWorkdir(r) \/ AliveCheck(r)
    BY <2>1 DEF Probe, Push, EnsureWorkdir, AliveCheck, Transition, agents,
                files, history
  <2>2. CASE Deposit(r) \/ DepositFails(r) \/ Launch(r) \/ LaunchNothing(r)
    BY <2>2 DEF Deposit, DepositFails, Launch, LaunchNothing, Transition,
                agents, files, history
  <2>3. CASE Poll(r)
    BY <2>3 DEF Poll, Transition, agents, files, history
  <2>4. CASE RemoveJob(r)
    BY <2>4 DEF RemoveJob, Transition, agents, history
  <2> QED BY <1>1, <2>1, <2>2, <2>3, <2>4 DEF RunStep
<1>2. ASSUME NEW a \in Runs, AgentStep(a) PROVE (Unmarked /\ Published)'
  <2>1. CASE Boot(a)
    BY <2>1 DEF Boot, AgentMoves, control, history
  <2>2. ASSUME NEW r \in Runs, Claim(a, r) PROVE (Unmarked /\ Published)'
    BY <2>2 DEF Claim, AgentMoves, control, history
  <2>3. CASE Execute(a) \/ ClaimVanished(a)
    BY <2>3 DEF Execute, ClaimVanished, AgentMoves, control, files, history
  <2>4. CASE WriteResult(a)
    BY <2>4 DEF WriteResult, AgentMoves, control, history
  <2>5. CASE Mark(a)
    BY <2>5 DEF Mark, AgentMoves, control
  <2>6. CASE Release(a)
    BY <2>6 DEF Release, AgentMoves, control, history
  <2>7. CASE EraseFiles(a)
    BY <2>7 DEF EraseFiles, EraseEntries, AgentMoves, control
  <2>8. CASE RemoveDir(a) \/ RemoveBinary(a)
    BY <2>8 DEF RemoveDir, RemoveBinary, AgentMoves, control, files, history
  <2> QED BY <1>2, <2>1, <2>2, <2>3, <2>4, <2>5, <2>6, <2>7, <2>8 DEF AgentStep
<1>3. ASSUME NEW r \in Runs, Fault(r) PROVE (Unmarked /\ Published)'
  <2>1. CASE DepositUnheard(r) \/ Refuse(r) \/ AliveUnheard(r)
             \/ LaunchFails(r) \/ Deadline(r)
    BY <2>1 DEF DepositUnheard, Refuse, AliveUnheard, LaunchFails, Deadline,
                Transition, agents, files, BeforeDeposit
  <2>2. CASE WriteShort(r) \/ WriteNothing(r)
    BY <2>2 DEF WriteShort, WriteNothing, AgentMoves, control, Results
  <2>3. CASE Expire(r) \/ Crash(r)
    BY <2>3 DEF Expire, Crash, AgentMoves, control, files
  <2> QED BY <1>3, <2>1, <2>2, <2>3 DEF Fault
<1>4. CASE Clean
  BY <1>4 DEF Clean, EraseEntries, control
<1>5. CASE Quiescent
  BY <1>5 DEF Quiescent, vars, control, agents, files, history
<1> QED BY <1>1, <1>2, <1>3, <1>4, <1>5 DEF Next

(* "The marker follows the result, and only if the result is there"        *)
(* (resident.go:105): MarkerAfterResult.                                   *)
THEOREM MarkersFollowResults == Spec => []MarkerAfterResult
<1>1. Init => Unmarked /\ Published
  BY DEF Init, Unmarked, Published
<1>2. UNCHANGED vars /\ Unmarked /\ Published => (Unmarked /\ Published)'
  BY DEF vars, control, agents, files, history, Unmarked, Published
<1>3. DataOK /\ IInv /\ Unmarked /\ Published /\ [Next]_vars
        => (Unmarked /\ Published)'
  BY <1>2, PublishedStep
<1>4. Published => MarkerAfterResult
  BY DEF Published, MarkerAfterResult
<1> QED BY <1>1, <1>3, <1>4, InductiveInvariant, PTL DEF Spec

(* A published result is removed or left, never replaced                   *)
(* (PublishedResultIsFinal): the agent that writes a result has not marked *)
(* it yet, and it alone holds the job.                                     *)
THEOREM PublishedResultsAreFinal == Spec => PublishedResultIsFinal
<1> DEFINE Kept ==
      \A r \in Runs :
        r \in dones /\ outs[r] # "none" => outs'[r] \in {outs[r], "none"}
<1>1. Init => Unmarked /\ Published
  BY DEF Init, Unmarked, Published
<1>2. UNCHANGED vars /\ Unmarked /\ Published => (Unmarked /\ Published)'
  BY DEF vars, control, agents, files, history, Unmarked, Published
<1>3. DataOK /\ IInv /\ Unmarked /\ Published /\ [Next]_vars
        => (Unmarked /\ Published)'
  BY <1>2, PublishedStep
<1>4. ASSUME DataOK, Unmarked, [Next]_vars PROVE [Kept]_vars
  <2>1. CASE outs' = outs
    BY <2>1
  <2>2. ASSUME NEW r \in Runs, RemoveJob(r) PROVE Kept
    <3>1. outs' = [outs EXCEPT ![r] = "none"] \/ outs' = outs
      BY <2>2 DEF RemoveJob
    <3> QED BY <1>4, <3>1 DEF DataOK
  <2>3. ASSUME NEW a \in Runs, WriteResult(a) \/ WriteShort(a) PROVE Kept
    <3>1. /\ apc[a] = "writing"
          /\ \E w \in Results : outs' = [outs EXCEPT ![ajob[a]] = w]
      BY <2>3 DEF WriteResult, WriteShort, AgentMoves, Results
    <3>2. ajob[a] \notin dones
      BY <1>4, <3>1 DEF Unmarked
    <3> QED BY <1>4, <3>1, <3>2 DEF DataOK
  <2>4. CASE EraseEntries
    BY <2>4 DEF EraseEntries
  <2>5. \/ outs' = outs
        \/ \E r \in Runs : RemoveJob(r) \/ WriteResult(r) \/ WriteShort(r)
        \/ EraseEntries
    <3>1. ASSUME NEW r \in Runs, RunStep(r) PROVE outs' = outs \/ RemoveJob(r)
      BY <3>1, Zenon DEF RunStep, Probe, Push, EnsureWorkdir, Deposit,
         DepositFails, AliveCheck, Launch, LaunchNothing, Poll, files
    <3>2. ASSUME NEW a \in Runs, AgentStep(a)
          PROVE  outs' = outs \/ WriteResult(a) \/ EraseEntries
      BY <3>2, Zenon DEF AgentStep, Boot, Claim, Execute, ClaimVanished, Mark,
         Release, EraseFiles, RemoveDir, RemoveBinary, files
    <3>3. ASSUME NEW r \in Runs, Fault(r) PROVE outs' = outs \/ WriteShort(r)
      BY <3>3, Zenon DEF Fault, DepositUnheard, Refuse, AliveUnheard,
         LaunchFails, Deadline, WriteNothing, Expire, Crash, files
    <3>4. CASE Clean
      BY <3>4 DEF Clean
    <3>5. CASE UNCHANGED vars
      BY <3>5 DEF vars, files
    <3> QED BY <1>4, <3>1, <3>2, <3>3, <3>4, <3>5 DEF Next, Quiescent
  <2> QED BY <2>1, <2>2, <2>3, <2>4, <2>5
<1> QED BY <1>1, <1>3, <1>4, InductiveInvariant, PTL
        DEF Spec, PublishedResultIsFinal

-----------------------------------------------------------------------------
(* The mapping to JobContract.  Only rpc and ran matter to it: a step that *)
(* moves a run without passing its deposit or its answer is a stutter.     *)
LEMMA SilentMove ==
  ASSUME DataOK, NEW r \in Runs, NEW s \in RunStates,
         rpc' = [rpc EXCEPT ![r] = s], ran' = ran,
         (rpc[r] \in BeforeDeposit \cup {"refused"})
           <=> (s \in BeforeDeposit \cup {"refused"}),
         (rpc[r] \in {"collect", "returned"}) <=> (s \in {"collect", "returned"}),
         (rpc[r] \in {"refused", "abandoned"})
           <=> (s \in {"refused", "abandoned"})
  PROVE  UNCHANGED Contract!vars
<1>1. \A q \in Runs : AnswerOf(q)' = AnswerOf(q)
  BY DEF DataOK, AnswerOf
<1>2. Accepted' = Accepted
  BY DEF DataOK, Accepted
<1> QED BY <1>1, <1>2 DEF Contract!vars

LEMMA ControlUnchanged ==
  ASSUME UNCHANGED control, ran' = ran PROVE UNCHANGED Contract!vars
  BY DEF control, Contract!vars, Accepted, AnswerOf

LEMMA GiveUpStep ==
  ASSUME DataOK, NEW r \in Runs, NEW s \in {"refused", "abandoned"},
         rpc[r] \notin Ended \cup {"collect"},
         rpc' = [rpc EXCEPT ![r] = s], ran' = ran,
         (rpc[r] \in BeforeDeposit) <=> (s = "refused")
  PROVE  Contract!GiveUp(r)
<1>1. AnswerOf(r) = "pending"
  BY DEF DataOK, AnswerOf, Ended
<1>2. \A q \in Runs : AnswerOf(q)' = IF q = r THEN "error" ELSE AnswerOf(q)
  BY DEF DataOK, AnswerOf, RunStates
<1>3. Accepted' = Accepted
  BY DEF DataOK, Accepted, Ended, BeforeDeposit
<1> QED BY <1>1, <1>2, <1>3 DEF Contract!GiveUp

LEMMA RunStepRefines ==
  ASSUME DataOK, IInv, NEW r \in Runs, RunStep(r)
  PROVE  [Contract!Next]_(Contract!vars)
<1>1. CASE Probe(r) \/ Push(r) \/ EnsureWorkdir(r)
  BY <1>1, SilentMove DEF Probe, Push, EnsureWorkdir, Transition, RunStates,
                          BeforeDeposit, DataOK
<1>2. CASE Deposit(r)
  <2>1. /\ rpc[r] = "deposit" /\ rpc' = [rpc EXCEPT ![r] = "alive"]
        /\ ran' = ran
    BY <1>2 DEF Deposit, Transition
  <2>2. r \notin Accepted /\ AnswerOf(r) = "pending"
    BY <2>1 DEF Accepted, AnswerOf, BeforeDeposit
  <2>3. Accepted' = Accepted \cup {r}
    BY <2>1 DEF Accepted, BeforeDeposit, DataOK
  <2>4. \A q \in Runs : AnswerOf(q)' = AnswerOf(q)
    BY <2>1 DEF DataOK, AnswerOf
  <2>5. Contract!Accept(r)
    BY <2>1, <2>2, <2>3, <2>4 DEF Contract!Accept
  <2> QED BY <2>5 DEF Contract!Next
<1>3. CASE DepositFails(r)
  <2>1. Contract!GiveUp(r)
    BY <1>3, GiveUpStep DEF DepositFails, Transition, Ended, BeforeDeposit
  <2> QED BY <2>1 DEF Contract!Next
<1>4. CASE AliveCheck(r) \/ Launch(r) \/ LaunchNothing(r) \/ RemoveJob(r)
  BY <1>4, SilentMove DEF AliveCheck, Launch, LaunchNothing, RemoveJob,
                          Transition, RunStates, BeforeDeposit, DataOK
<1>5. CASE Poll(r)
  <2>1. /\ rpc[r] = "poll" /\ rpc' = [rpc EXCEPT ![r] = "collect"]
        /\ ran' = ran /\ ran[r] = 1
    BY <1>5 DEF Poll, Transition, IInv, Executed
  <2>2. AnswerOf(r) = "pending"
    BY <2>1 DEF AnswerOf
  <2>3. Accepted' = Accepted
    BY <2>1 DEF Accepted, BeforeDeposit, DataOK
  <2>4. \A q \in Runs : AnswerOf(q)' = IF q = r THEN "result" ELSE AnswerOf(q)
    BY <2>1 DEF DataOK, AnswerOf
  <2>5. Contract!Answer(r)
    BY <2>1, <2>2, <2>3, <2>4 DEF Contract!Answer
  <2> QED BY <2>5 DEF Contract!Next
<1> QED BY RunStep(r), <1>1, <1>2, <1>3, <1>4, <1>5 DEF RunStep

LEMMA AgentStepRefines ==
  ASSUME DataOK, IInv, NEW a \in Runs, AgentStep(a)
  PROVE  [Contract!Next]_(Contract!vars)
<1>1. CASE Execute(a)
  <2> DEFINE r == ajob[a]
  <2>1. /\ r \in Runs /\ ran[r] = 0 /\ ran' = [ran EXCEPT ![r] = @ + 1]
        /\ UNCHANGED control
    BY <1>1 DEF Execute, AgentMoves, DataOK, Holding, IInv, Progress
  <2>2. r \in Accepted
    BY <2>1 DEF Accepted, IInv, Undeposited, NotDeposited
  <2>3. /\ Accepted' = Accepted
        /\ \A q \in Runs : AnswerOf(q)' = AnswerOf(q)
    BY <2>1 DEF control, Accepted, AnswerOf
  <2>4. ran' = [ran EXCEPT ![r] = 1]
    BY <2>1 DEF DataOK
  <2> HIDE DEF r
  <2>5. Contract!Execute(r)
    BY <2>1, <2>2, <2>3, <2>4 DEF Contract!Execute
  <2> QED BY <2>1, <2>5 DEF Contract!Next
<1>2. CASE ~Execute(a)
  <2>1. UNCHANGED control /\ ran' = ran
    BY <1>2, AgentStep(a), Zenon
    DEF AgentStep, Boot, Claim, ClaimVanished, WriteResult, Mark, Release,
        EraseFiles, RemoveDir, RemoveBinary
  <2> QED BY <2>1, ControlUnchanged
<1> QED BY <1>1, <1>2

LEMMA FaultRefines ==
  ASSUME DataOK, IInv, NEW r \in Runs, Fault(r)
  PROVE  [Contract!Next]_(Contract!vars)
<1>1. CASE DepositUnheard(r)
  <2>1. /\ rpc[r] = "deposit" /\ rpc' = [rpc EXCEPT ![r] = "abandoned"]
        /\ ran' = ran
    BY <1>1 DEF DepositUnheard, Transition
  <2>2. r \notin Accepted /\ AnswerOf(r) = "pending"
    BY <2>1 DEF Accepted, AnswerOf, BeforeDeposit
  <2>3. Accepted' = Accepted \cup {r}
    BY <2>1 DEF Accepted, BeforeDeposit, DataOK
  <2>4. \A q \in Runs : AnswerOf(q)' = IF q = r THEN "error" ELSE AnswerOf(q)
    BY <2>1 DEF DataOK, AnswerOf
  <2>5. Contract!AcceptUnheard(r)
    BY <2>1, <2>2, <2>3, <2>4 DEF Contract!AcceptUnheard
  <2> QED BY <2>5 DEF Contract!Next
<1>2. CASE Refuse(r) \/ LaunchFails(r) \/ Deadline(r)
  <2>1. Contract!GiveUp(r)
    BY <1>2, GiveUpStep DEF Refuse, LaunchFails, Deadline, Transition, Ended,
                            BeforeDeposit
  <2> QED BY <2>1 DEF Contract!Next
<1>3. CASE AliveUnheard(r)
  BY <1>3, SilentMove DEF AliveUnheard, Transition, RunStates, BeforeDeposit
<1>4. CASE WriteShort(r) \/ WriteNothing(r) \/ Expire(r) \/ Crash(r)
  BY <1>4, ControlUnchanged DEF WriteShort, WriteNothing, Expire, Crash
<1> QED BY Fault(r), <1>1, <1>2, <1>3, <1>4 DEF Fault

(* Whatever sessions, agents and files do, a caller of SSH.Run sees a      *)
(* behaviour of JobContract (ImplementsContract).                          *)
THEOREM RendezvousImplementsContract == Spec => ImplementsContract
<1>1. Init => Contract!Init
  BY DEF Init, Contract!Init, Accepted, AnswerOf, BeforeDeposit
<1>2. DataOK /\ IInv /\ [Next]_vars => [Contract!Next]_(Contract!vars)
  <2> SUFFICES ASSUME DataOK, IInv, [Next]_vars
               PROVE  [Contract!Next]_(Contract!vars)
    OBVIOUS
  <2>1. CASE Clean
    BY <2>1, ControlUnchanged DEF Clean
  <2>2. CASE UNCHANGED vars
    BY <2>2, ControlUnchanged DEF vars
  <2> QED BY <2>1, <2>2, RunStepRefines, AgentStepRefines, FaultRefines
          DEF Next, Quiescent
<1> QED BY <1>1, <1>2, InductiveInvariant, PTL
        DEF Spec, ImplementsContract, Contract!Spec
=============================================================================
