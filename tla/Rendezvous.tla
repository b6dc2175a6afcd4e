----------------------------- MODULE Rendezvous -----------------------------
(***************************************************************************)
(* The file rendezvous between control hosts and resident agents on ONE    *)
(* target: transport.SSH.Run (src/internal/transport/ssh.go) against       *)
(* agent.ServeResident (src/internal/agent/resident.go).                   *)
(*                                                                         *)
(* A run deposits one job in a workdir and polls for its marker.  It may   *)
(* launch one resident agent, so the agent a run launches is named by the  *)
(* run: agent r exists once run r has launched it.  Runs share the target, *)
(* its binary cache, its workdir and the agents the others launched.       *)
(*                                                                         *)
(* Abstractions.  One build and one SSH user, hence one binary path and    *)
(* one workdir.  A shell command of one session is one step; where its     *)
(* answer can be lost the step has a second, "unheard" outcome.  The       *)
(* contents of a request are its run; those of a result are "full" (what   *)
(* the job answered) or "short" (the agent could not write that).  A       *)
(* request cut short by a dropped deposit counts as a whole one: its run   *)
(* has ended, and nobody reads the decode error it is answered with.       *)
(* Elapsed time is a choice: an idle agent may find its TTL over and a     *)
(* polling run its deadline passed at any moment.                          *)
(***************************************************************************)
EXTENDS Naturals

CONSTANTS
  Runs,       \* the calls of SSH.Run; each deposits one job
  None,       \* no run, no agent
  MaxCleans   \* bound: how often the operator runs `shellf clean`

ASSUME NoneAssumption == None \notin Runs
ASSUME MaxCleansAssumption == MaxCleans \in Nat

VARIABLES
  rpc,      \* rpc[r]: where SSH.Run of r stands
  got,      \* got[r]: the result SSH.Run of r has read
  apc,      \* apc[a]: where the agent launched by run a stands
  ajob,     \* ajob[a]: the job agent a has claimed
  binary,   \* the cached agent binary is in place
  workdir,  \* the rendezvous directory exists
  reqs,     \* req-<r>.json
  claims,   \* req-<r>.json.claiming
  outs,     \* outs[r]: out-<r>.json
  dones,    \* done-<r>
  pidfile,  \* agent.pid: the agent that wrote it last
  ran,      \* history: ran[r] counts the executions of job r
  cleans,   \* how often clean has run (bounded by MaxCleans)
  erased,   \* history: some agent or clean has erased the workdir
  calm      \* history: no failure, expiry, deadline or clean so far

control == <<rpc, got>>
agents  == <<apc, ajob>>
files   == <<reqs, claims, outs, dones, pidfile>>
history == <<erased, calm>>
vars == <<control, agents, binary, workdir, files, ran, cleans, history>>

Results == {"none", "full", "short"}
BeforeDeposit == {"probe", "push", "ensure", "deposit"}
RunStates ==
  BeforeDeposit \cup
  {"alive", "launch", "poll", "collect", "returned", "refused", "abandoned"}
AgentStates ==
  {"unborn", "booting", "scan", "claimed", "writing", "marking", "releasing",
   "erasing", "rmdir", "unlinking", "dead"}
(* An agent between its claim and the release of that claim.               *)
Holding == {"claimed", "writing", "marking", "releasing"}
Ended == {"returned", "refused", "abandoned"}

Init ==
  /\ rpc = [r \in Runs |-> "probe"]
  /\ got = [r \in Runs |-> "none"]
  /\ apc = [a \in Runs |-> "unborn"]
  /\ ajob = [a \in Runs |-> None]
  /\ binary = FALSE
  /\ workdir = FALSE
  /\ reqs = {}
  /\ claims = {}
  /\ outs = [r \in Runs |-> "none"]
  /\ dones = {}
  /\ pidfile = None
  /\ ran = [r \in Runs |-> 0]
  /\ cleans = 0
  /\ erased = FALSE
  /\ calm = TRUE

Transition(r, from, to) ==
  /\ rpc[r] = from
  /\ rpc' = [rpc EXCEPT ![r] = to]

AgentMoves(a, from, to) ==
  /\ apc[a] = from
  /\ apc' = [apc EXCEPT ![a] = to]

Live(a) == apc[a] \notin {"unborn", "dead"}

NoEntries ==
  /\ reqs = {} /\ claims = {} /\ dones = {} /\ pidfile = None
  /\ \A r \in Runs : outs[r] = "none"

EraseEntries ==
  /\ reqs' = {} /\ claims' = {} /\ dones' = {} /\ pidfile' = None
  /\ outs' = [r \in Runs |-> "none"]

-----------------------------------------------------------------------------
(* The control host: SSH.Run, one step per command of its sessions.        *)

(* agentState: a binary that is ours and unchanged is not pushed again.    *)
Probe(r) ==
  /\ Transition(r, "probe", IF binary THEN "ensure" ELSE "push")
  /\ UNCHANGED <<got, agents, binary, workdir, files, ran, cleans, history>>

Push(r) ==
  /\ Transition(r, "push", "ensure")
  /\ binary' = TRUE
  /\ UNCHANGED <<got, agents, workdir, files, ran, cleans, history>>

EnsureWorkdir(r) ==
  /\ Transition(r, "ensure", "deposit")
  /\ workdir' = TRUE
  /\ UNCHANGED <<got, agents, binary, files, ran, cleans, history>>

Deposit(r) ==
  /\ workdir
  /\ Transition(r, "deposit", "alive")
  /\ reqs' = reqs \cup {r}
  /\ UNCHANGED <<got, agents, binary, workdir, claims, outs, dones, pidfile,
                 ran, cleans, history>>

(* The deposit makes no directory: without its workdir it fails and Run    *)
(* returns the error.                                                      *)
DepositFails(r) ==
  /\ ~workdir
  /\ Transition(r, "deposit", "refused")
  /\ UNCHANGED <<got, agents, binary, workdir, files, ran, cleans, history>>

(* The request is renamed into place but the session drops before saying   *)
(* so: Run returns an error, and no agent is checked for or launched.      *)
DepositUnheard(r) ==
  /\ workdir
  /\ Transition(r, "deposit", "abandoned")
  /\ reqs' = reqs \cup {r}
  /\ calm' = FALSE
  /\ UNCHANGED <<got, agents, binary, workdir, claims, outs, dones, pidfile,
                 ran, cleans, erased>>

(* Every error return of Run before the request is in place: a failed      *)
(* dial, probe or push, a foreign binary, an unsafe workdir.               *)
Refuse(r) ==
  /\ rpc[r] \in BeforeDeposit
  /\ rpc' = [rpc EXCEPT ![r] = "refused"]
  /\ calm' = FALSE
  /\ UNCHANGED <<got, agents, binary, workdir, files, ran, cleans, erased>>

AliveCheck(r) ==
  /\ Transition(r, "alive",
       IF pidfile # None /\ Live(pidfile) THEN "poll" ELSE "launch")
  /\ UNCHANGED <<got, agents, binary, workdir, files, ran, cleans, history>>

(* A session error while checking counts as "no agent": err == nil is the  *)
(* whole answer.                                                           *)
AliveUnheard(r) ==
  /\ Transition(r, "alive", "launch")
  /\ calm' = FALSE
  /\ UNCHANGED <<got, agents, binary, workdir, files, ran, cleans, erased>>

Launch(r) ==
  /\ binary
  /\ Transition(r, "launch", "poll")
  /\ apc' = [apc EXCEPT ![r] = "booting"]
  /\ UNCHANGED <<got, ajob, binary, workdir, files, ran, cleans, history>>

(* The launch is detached: when the binary is gone, nothing starts and     *)
(* nothing says so.                                                        *)
LaunchNothing(r) ==
  /\ ~binary
  /\ Transition(r, "launch", "poll")
  /\ UNCHANGED <<got, agents, binary, workdir, files, ran, cleans, history>>

LaunchFails(r) ==
  /\ Transition(r, "launch", "abandoned")
  /\ calm' = FALSE
  /\ UNCHANGED <<got, agents, binary, workdir, files, ran, cleans, erased>>

(* checkDone finds the marker and reads the result behind it.  A marker    *)
(* without a result makes the command fail, which reads as a dropped       *)
(* session: the poll goes on.                                              *)
Poll(r) ==
  /\ r \in dones
  /\ outs[r] # "none"
  /\ Transition(r, "poll", "collect")
  /\ got' = [got EXCEPT ![r] = outs[r]]
  /\ UNCHANGED <<agents, binary, workdir, files, ran, cleans, history>>

(* rmJob is best effort: its error is dropped.                             *)
RemoveJob(r) ==
  /\ Transition(r, "collect", "returned")
  /\ \/ /\ outs' = [outs EXCEPT ![r] = "none"]
        /\ dones' = dones \ {r}
     \/ UNCHANGED <<outs, dones>>
  /\ UNCHANGED <<got, agents, binary, workdir, reqs, claims, pidfile, ran,
                 cleans, history>>

(* Slip: a deadline that sends the job again.                              *)
Slip_DeadlineRetries(r) ==
  /\ Transition(r, "poll", "deposit")
  /\ UNCHANGED <<got, agents, binary, workdir, files, ran, cleans, history>>

Deadline(r) ==
  /\ Transition(r, "poll", "abandoned")
  /\ calm' = FALSE
  /\ UNCHANGED <<got, agents, binary, workdir, files, ran, cleans, erased>>

(* shellf clean: the pid file names the one agent it can kill; then        *)
(* rm -rf of the binaries and workdirs.                                    *)
Clean ==
  /\ cleans < MaxCleans
  /\ cleans' = cleans + 1
  /\ apc' = IF pidfile # None /\ Live(pidfile)
              THEN [apc EXCEPT ![pidfile] = "dead"] ELSE apc
  /\ ajob' = IF pidfile # None THEN [ajob EXCEPT ![pidfile] = None] ELSE ajob
  /\ binary' = FALSE
  /\ workdir' = FALSE
  /\ EraseEntries
  /\ erased' = TRUE
  /\ calm' = FALSE
  /\ UNCHANGED <<control, ran>>

-----------------------------------------------------------------------------
(* The target: agent.ServeResident.                                        *)

Boot(a) ==
  /\ AgentMoves(a, "booting", "scan")
  /\ workdir' = TRUE
  /\ pidfile' = a
  /\ UNCHANGED <<control, ajob, binary, reqs, claims, outs, dones, ran,
                 cleans, history>>

(* Slip: the request is read in place instead of renamed.                  *)
Slip_ClaimByCopy(a, r) ==
  /\ r \in reqs
  /\ AgentMoves(a, "scan", "claimed")
  /\ claims' = claims \cup {r}
  /\ ajob' = [ajob EXCEPT ![a] = r]
  /\ UNCHANGED <<control, binary, workdir, reqs, outs, dones, pidfile, ran,
                 cleans, history>>

(* nextRequest: the rename takes the request out of every other agent's    *)
(* sight.                                                                  *)
Claim(a, r) ==
  /\ r \in reqs
  /\ AgentMoves(a, "scan", "claimed")
  /\ reqs' = reqs \ {r}
  /\ claims' = claims \cup {r}
  /\ ajob' = [ajob EXCEPT ![a] = r]
  /\ UNCHANGED <<control, binary, workdir, outs, dones, pidfile, ran, cleans,
                 history>>

(* processJob reads the claimed file and runs the request.                 *)
Execute(a) ==
  /\ ajob[a] \in claims
  /\ AgentMoves(a, "claimed", "writing")
  /\ ran' = [ran EXCEPT ![ajob[a]] = @ + 1]
  /\ UNCHANGED <<control, ajob, binary, workdir, files, cleans, history>>

(* Slip: the return after a failed read is missing.                        *)
Slip_AnswerVanished(a) ==
  /\ ajob[a] \notin claims
  /\ AgentMoves(a, "claimed", "writing")
  /\ UNCHANGED <<control, ajob, binary, workdir, files, ran, cleans, history>>

(* The claimed file is gone: nothing is run and nothing is answered.       *)
ClaimVanished(a) ==
  /\ ajob[a] \notin claims
  /\ AgentMoves(a, "claimed", "scan")
  /\ ajob' = [ajob EXCEPT ![a] = None]
  /\ UNCHANGED <<control, binary, workdir, files, ran, cleans, history>>

WriteResult(a) ==
  /\ workdir
  /\ AgentMoves(a, "writing", "marking")
  /\ outs' = [outs EXCEPT ![ajob[a]] = "full"]
  /\ UNCHANGED <<control, ajob, binary, workdir, reqs, claims, dones, pidfile,
                 ran, cleans, history>>

(* A full filesystem: a short result naming the cause is written instead.  *)
WriteShort(a) ==
  /\ workdir
  /\ AgentMoves(a, "writing", "marking")
  /\ outs' = [outs EXCEPT ![ajob[a]] = "short"]
  /\ calm' = FALSE
  /\ UNCHANGED <<control, ajob, binary, workdir, reqs, claims, dones, pidfile,
                 ran, cleans, erased>>

(* Slip: the marker is written whatever became of the result.              *)
Slip_MarkAnyway(a) ==
  /\ AgentMoves(a, "writing", "marking")
  /\ calm' = FALSE
  /\ UNCHANGED <<control, ajob, binary, workdir, files, ran, cleans, erased>>

(* Not even that: no marker, the claim is dropped.                         *)
WriteNothing(a) ==
  /\ AgentMoves(a, "writing", "scan")
  /\ claims' = claims \ {ajob[a]}
  /\ ajob' = [ajob EXCEPT ![a] = None]
  /\ calm' = FALSE
  /\ UNCHANGED <<control, binary, workdir, reqs, outs, dones, pidfile, ran,
                 cleans, erased>>

(* The error of writing the marker is dropped.                             *)
Mark(a) ==
  /\ AgentMoves(a, "marking", "releasing")
  /\ \/ /\ workdir
        /\ dones' = dones \cup {ajob[a]}
        /\ UNCHANGED calm
     \/ /\ calm' = FALSE
        /\ UNCHANGED dones
  /\ UNCHANGED <<control, ajob, binary, workdir, reqs, claims, outs, pidfile,
                 ran, cleans, erased>>

(* Slips: the job stays with the agent; the agent leaves after one job.    *)
Slip_ReleaseKeepsJob(a) ==
  /\ AgentMoves(a, "releasing", "scan")
  /\ claims' = claims \ {ajob[a]}
  /\ UNCHANGED <<control, ajob, binary, workdir, reqs, outs, dones, pidfile,
                 ran, cleans, history>>

Slip_ReleaseAndExit(a) ==
  /\ AgentMoves(a, "releasing", "dead")
  /\ claims' = claims \ {ajob[a]}
  /\ ajob' = [ajob EXCEPT ![a] = None]
  /\ UNCHANGED <<control, binary, workdir, reqs, outs, dones, pidfile, ran,
                 cleans, history>>

Release(a) ==
  /\ AgentMoves(a, "releasing", "scan")
  /\ claims' = claims \ {ajob[a]}
  /\ ajob' = [ajob EXCEPT ![a] = None]
  /\ UNCHANGED <<control, binary, workdir, reqs, outs, dones, pidfile, ran,
                 cleans, history>>

(* A scan that found no request, and a TTL that is over.  What happens     *)
(* between this look and the erasure is not looked at again.               *)
Expire(a) ==
  /\ reqs = {}
  /\ AgentMoves(a, "scan", "erasing")
  /\ calm' = FALSE
  /\ UNCHANGED <<control, ajob, binary, workdir, files, ran, cleans, erased>>

(* os.RemoveAll: the entries it lists, then the directory if still empty.  *)
EraseFiles(a) ==
  /\ AgentMoves(a, "erasing", "rmdir")
  /\ EraseEntries
  /\ erased' = TRUE
  /\ UNCHANGED <<control, ajob, binary, workdir, ran, cleans, calm>>

RemoveDir(a) ==
  /\ AgentMoves(a, "rmdir", "unlinking")
  /\ workdir' = (workdir /\ ~NoEntries)
  /\ UNCHANGED <<control, ajob, binary, files, ran, cleans, history>>

RemoveBinary(a) ==
  /\ AgentMoves(a, "unlinking", "dead")
  /\ binary' = FALSE
  /\ UNCHANGED <<control, ajob, workdir, files, ran, cleans, history>>

(* The process dies (killed, out of memory); its files stay.               *)
Crash(a) ==
  /\ Live(a)
  /\ apc' = [apc EXCEPT ![a] = "dead"]
  /\ ajob' = [ajob EXCEPT ![a] = None]
  /\ calm' = FALSE
  /\ UNCHANGED <<control, binary, workdir, files, ran, cleans, erased>>

-----------------------------------------------------------------------------
(* Steps of code that is running: the ones its scheduling keeps taking.    *)
RunStep(r) ==
  \/ Probe(r) \/ Push(r) \/ EnsureWorkdir(r) \/ Deposit(r)
  \/ DepositFails(r) \/ AliveCheck(r) \/ Launch(r) \/ LaunchNothing(r)
  \/ Poll(r) \/ RemoveJob(r)

AgentStep(a) ==
  \/ Boot(a) \/ (\E r \in Runs : Claim(a, r)) \/ Execute(a)
  \/ ClaimVanished(a) \/ WriteResult(a) \/ Mark(a) \/ Release(a)
  \/ EraseFiles(a) \/ RemoveDir(a) \/ RemoveBinary(a)

(* What the environment or elapsed time may do, and need never do.         *)
Fault(r) ==
  \/ DepositUnheard(r) \/ Refuse(r) \/ AliveUnheard(r) \/ LaunchFails(r)
  \/ Deadline(r) \/ WriteShort(r) \/ WriteNothing(r) \/ Expire(r) \/ Crash(r)

(* Nothing left to do: every run has ended and no agent lives.             *)
Quiescent ==
  /\ \A r \in Runs : rpc[r] \in Ended /\ ~Live(r)
  /\ UNCHANGED vars

Next ==
  \/ \E r \in Runs : RunStep(r) \/ AgentStep(r) \/ Fault(r)
  \/ Clean
  \/ Quiescent

Spec == Init /\ [][Next]_vars

FairSpec ==
  /\ Spec
  /\ \A r \in Runs : WF_vars(RunStep(r)) /\ WF_vars(AgentStep(r))

-----------------------------------------------------------------------------
TypeOK ==
  /\ rpc \in [Runs -> RunStates]
  /\ got \in [Runs -> Results]
  /\ apc \in [Runs -> AgentStates]
  /\ ajob \in [Runs -> Runs \cup {None}]
  /\ binary \in BOOLEAN
  /\ workdir \in BOOLEAN
  /\ reqs \subseteq Runs
  /\ claims \subseteq Runs
  /\ outs \in [Runs -> Results]
  /\ dones \subseteq Runs
  /\ pidfile \in Runs \cup {None}
  /\ ran \in [Runs -> Nat]
  /\ cleans \in 0 .. MaxCleans
  /\ erased \in BOOLEAN
  /\ calm \in BOOLEAN
  /\ \A a \in Runs : ajob[a] \in Runs <=> apc[a] \in Holding
  /\ \A r \in Runs : apc[r] # "unborn" =>
       rpc[r] \in {"poll", "collect", "returned", "abandoned"}

(* "only one wins, so no request runs twice" (resident.go:68): whatever    *)
(* agents, crashes, expiries and cleans do, a job is executed at most once.*)
AtMostOnce == \A r \in Runs : ran[r] <= 1

(* "slow but never wrong" (resident.go:115): a result is only ever handed  *)
(* to a run whose job was executed, and a run that ended before its        *)
(* request was in place has no job anywhere on the target.                 *)
NeverWrong ==
  \A r \in Runs :
    /\ got[r] # "none" => ran[r] = 1
    /\ rpc[r] \in BeforeDeposit \cup {"refused"} =>
         ran[r] = 0 /\ r \notin reqs \cup claims \cup dones

(* "The marker follows the result, and only if the result is there"        *)
(* (resident.go:105): as long as nobody erased the workdir, a marker with  *)
(* no result behind it does not exist, full disks and crashes included.    *)
MarkerAfterResult ==
  ~erased => \A r \in dones : outs[r] # "none"

(* Once the marker announces a result (processJob writes it last), that    *)
(* result is never replaced by another: it can only be removed.            *)
PublishedResultIsFinal ==
  [][\A r \in Runs :
       r \in dones /\ outs[r] # "none" => outs'[r] \in {outs[r], "none"}]_vars

(* Two runs on one target, sharing or racing to launch agents: while       *)
(* nothing fails, no TTL ends and no deadline passes, every deposited job  *)
(* is answered in full (ssh.go:403-421).                                   *)
Served ==
  \A r \in Runs : rpc[r] = "alive" ~> (got[r] = "full" \/ ~calm)

-----------------------------------------------------------------------------
(* "after `ttl` of inactivity erases everything" (resident.go:19): an      *)
(* erasure does not take a request nobody has claimed, nor a job an agent  *)
(* is working on.                                                          *)
ErasesOnlyIdleWorkdir ==
  [][(\E a \in Runs : EraseFiles(a)) =>
       reqs = {} /\ \A b \in Runs : apc[b] \notin Holding]_vars

(* "cleanCmd kills every resident agent (via its pid file)" (ssh.go:314):  *)
(* no agent that was serving the workdir outlives a clean.                 *)
Serving(a) == apc[a] \in {"scan"} \cup Holding
CleanKillsEveryAgent ==
  [][Clean => \A a \in Runs : Serving(a) => ~Live(a)']_vars

-----------------------------------------------------------------------------
(* What the rendezvous implements.                                         *)
Accepted == {r \in Runs : rpc[r] \notin BeforeDeposit \cup {"refused"}}
AnswerOf(r) ==
  IF rpc[r] \in {"collect", "returned"} THEN "result"
  ELSE IF rpc[r] \in {"refused", "abandoned"} THEN "error"
  ELSE "pending"

Contract == INSTANCE JobContract WITH
  Jobs <- Runs,
  accepted <- Accepted,
  executions <- ran,
  answer <- [r \in Runs |-> AnswerOf(r)]

(* Every behaviour of the rendezvous is one of the contract.               *)
ImplementsContract == Contract!Spec
=============================================================================
