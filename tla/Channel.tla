------------------------------ MODULE Channel ------------------------------
(***************************************************************************)
(* The control channel of ONE resident agent: agent.Channel                *)
(* (src/internal/agent/channel.go), agent.Bridge (bridge.go) and the loop  *)
(* SSH.bridge runs on each control host (src/internal/transport/ssh.go).   *)
(*                                                                         *)
(* A run whose job may ask for files opens SSH sessions, one per attempt;  *)
(* session <<r, k>> is attempt k of run r.  On the target the session runs *)
(* a bridge process that joins it to the agent's socket.  The agent runs   *)
(* one job at a time; the branches of a parallel step ask concurrently,    *)
(* under one mutex.                                                        *)
(*                                                                         *)
(* Abstractions.  An ask is named by its job and a slot; an answer is the  *)
(* run whose control host gave it (a refusal is an answer too).  Sending   *)
(* is joined with taking the mutex: a send that fails and a receive that   *)
(* fails are handled alike.  The end of a session is always noticed by     *)
(* both ends, which is TCP's doing and sshd's, not this code's.            *)
(***************************************************************************)
EXTENDS Integers, Sequences

CONSTANTS
  Runs,     \* the calls of SSH.Run with a channel, all on one target
  Slots,    \* the asks a job may make, possibly at the same time
  Retries,  \* bridgeRetries
  MaxFaults, \* bound: dropped sessions, failed dials, runs that give up
  None      \* no run, no session, no ask

ASSUME RetriesAssumption == Retries \in Nat /\ MaxFaults \in Nat

Asks == Runs \X Slots
Job(a) == a[1]

(* Sessions of these runs, and one a command that has since ended left     *)
(* behind: its session is over, its bridge may not be.                     *)
Leftover == <<None, 0>>
SessionsOf(r) == {r} \X (0 .. Retries)
Sessions == (Runs \X (0 .. Retries)) \cup {Leftover}

ASSUME NoneAssumption == None \notin Runs \cup Asks \cup Sessions

VARIABLES
  loop,     \* loop[r]: where the goroutine of SSH.bridge stands
  attempt,  \* attempt[r]: its loop counter
  stopped,  \* the runs that have called stop()
  session,  \* session[s]: the SSH session, as its two ends see it
  bridge,   \* bridge[s]: the process `shellf __bridge` of s on the target
  backlog,  \* connections the socket has and Accept has not taken
  greeting, \* the connection accept() has taken and not yet installed
  open,     \* the connections of which the agent's end is open
  conn,     \* Channel.conn
  ready,    \* Channel.ready is closed
  mu,       \* the ask that holds Channel.mu
  ask,      \* ask[a]: where AskWith of a stands
  tries,    \* tries[a]: the exchanges AskWith of a has begun
  wire,     \* wire[s]: the message in flight on s
  by,       \* by[a]: the run whose control host answered a
  running,  \* the job the agent is running
  over,     \* the jobs that have ended
  faults,   \* how many of the failures MaxFaults bounds have happened
  calm      \* history: no failure and no early timer

control == <<loop, attempt, stopped>>
target  == <<backlog, greeting, open, conn, ready>>
asking  == <<mu, ask, tries, by>>
jobs    == <<running, over>>
history == <<faults, calm>>
vars == <<control, session, bridge, target, asking, wire, jobs, history>>

LoopStates == {"idle", "dial", "register", "serving", "ended"}
(* A session before its hello, after it, ended after it, ended before it.  *)
SessionStates == {"none", "opened", "talking", "cut", "mute"}
BridgeStates == {"none", "dialing", "up", "exited"}
AskStates ==
  {"idle", "waiting", "woken", "expired", "receiving", "answered", "failed"}
AskEnded == {"answered", "failed"}
Over(s) == session[s] \in {"cut", "mute"}
Current(r) == <<r, attempt[r]>>

Init ==
  /\ loop = [r \in Runs |-> "idle"]
  /\ attempt = [r \in Runs |-> 0]
  /\ stopped = {}
  /\ session = [s \in Sessions |-> IF s = Leftover THEN "cut" ELSE "none"]
  /\ conn \in {None, Leftover}
  /\ bridge = [s \in Sessions |-> IF s = conn THEN "up" ELSE "none"]
  /\ backlog = <<>>
  /\ greeting = None
  /\ open = {conn} \ {None}
  /\ ready = (conn # None)
  /\ mu = None
  /\ ask = [a \in Asks |-> "idle"]
  /\ tries = [a \in Asks |-> 0]
  /\ wire = [s \in Sessions |-> None]
  /\ by = [a \in Asks |-> None]
  /\ running = None
  /\ over = {}
  /\ faults = 0
  /\ calm = TRUE

(* A failure the code must live with.                                      *)
Fails ==
  /\ faults < MaxFaults
  /\ faults' = faults + 1
  /\ calm' = FALSE

Transition(r, from, to) ==
  /\ loop[r] = from
  /\ loop' = [loop EXCEPT ![r] = to]

-----------------------------------------------------------------------------
(* The control host: SSH.bridge.                                           *)

(* The job is deposited and the poll begins.                               *)
StartBridge(r) ==
  /\ Transition(r, "idle", "dial")
  /\ UNCHANGED <<attempt, stopped, session, bridge, target, asking, wire, jobs,
                 history>>

(* isStopped, before a dial.                                               *)
SeesStop(r) ==
  /\ r \in stopped
  /\ Transition(r, "dial", "ended")
  /\ UNCHANGED <<attempt, stopped, session, bridge, target, asking, wire, jobs,
                 history>>

(* The session is there and the bridge process starts, but stop() does not *)
(* know of it yet, and isStopped is not asked again.                       *)
Dial(r) ==
  /\ r \notin stopped
  /\ Transition(r, "dial", "register")
  /\ session' = [session EXCEPT ![Current(r)] = "opened"]
  /\ bridge' = [bridge EXCEPT ![Current(r)] = "dialing"]
  /\ UNCHANGED <<attempt, stopped, target, asking, wire, jobs, history>>

NextAttempt(r) ==
  IF attempt[r] < Retries
    THEN /\ attempt' = [attempt EXCEPT ![r] = @ + 1]
         /\ loop' = [loop EXCEPT ![r] = "dial"]
    ELSE /\ loop' = [loop EXCEPT ![r] = "ended"]
         /\ UNCHANGED attempt

DialFails(r) ==
  /\ r \notin stopped
  /\ loop[r] = "dial"
  /\ NextAttempt(r)
  /\ Fails
  /\ UNCHANGED <<stopped, session, bridge, target, asking, wire, jobs>>

(* sessions gets its entry and the handshake of s.Channel sends its hello. *)
Register(r) ==
  /\ Transition(r, "register", "serving")
  /\ session' =
       [session EXCEPT ![Current(r)] = IF @ = "opened" THEN "talking" ELSE @]
  /\ UNCHANGED <<attempt, stopped, bridge, target, asking, wire, jobs,
                 history>>

(* Serve answers whatever ask arrives on its session.                      *)
Answer(r) ==
  /\ loop[r] = "serving"
  /\ session[Current(r)] = "talking"
  /\ wire[Current(r)] \in Asks
  /\ wire' = [wire EXCEPT ![Current(r)] = r]
  /\ UNCHANGED <<control, session, bridge, target, asking, jobs, history>>

(* s.Channel returned: the session dropped, the bridge exited, or stop()   *)
(* closed it.  Only the first two deserve another bridge.                  *)
ServingEnds(r) ==
  /\ loop[r] = "serving"
  /\ Over(Current(r)) \/ bridge[Current(r)] = "exited"
  /\ session' =
       [session EXCEPT ![Current(r)] = IF @ = "talking" THEN "cut" ELSE @]
  /\ IF r \in stopped
       THEN loop' = [loop EXCEPT ![r] = "ended"] /\ UNCHANGED attempt
       ELSE NextAttempt(r)
  /\ UNCHANGED <<stopped, bridge, target, asking, wire, jobs, history>>

(* stop(): closes the session it knows of.  The run has its result, or its *)
(* deadline has passed.                                                    *)
Stop(r) ==
  /\ loop[r] # "idle"
  /\ r \notin stopped
  /\ stopped' = stopped \cup {r}
  /\ session' = IF loop[r] = "serving" /\ session[Current(r)] = "talking"
                  THEN [session EXCEPT ![Current(r)] = "cut"] ELSE session
  /\ UNCHANGED <<loop, attempt, bridge, target, asking, wire, jobs>>

Finish(r) == r \in over /\ Stop(r) /\ UNCHANGED history
GiveUp(r) == r \notin over /\ Stop(r) /\ Fails

(* The network drops a session.                                            *)
Drop(r) ==
  /\ session[Current(r)] \in {"opened", "talking"}
  /\ session' = [session EXCEPT ![Current(r)] =
                   IF @ = "opened" THEN "mute" ELSE "cut"]
  /\ Fails
  /\ UNCHANGED <<control, bridge, target, asking, wire, jobs>>

-----------------------------------------------------------------------------
(* The target: agent.Bridge, one process per session.                      *)

(* It dials whether or not its session is still there: only the copies     *)
(* that follow would tell.                                                 *)
BridgeConnects(s) ==
  /\ bridge[s] = "dialing"
  /\ bridge' = [bridge EXCEPT ![s] = "up"]
  /\ backlog' = Append(backlog, s)
  /\ UNCHANGED <<control, session, greeting, open, conn, ready, asking, wire,
                 jobs, history>>

BridgeGivesUp(s) ==
  /\ bridge[s] = "dialing"
  /\ bridge' = [bridge EXCEPT ![s] = "exited"]
  /\ Fails
  /\ UNCHANGED <<control, session, target, asking, wire, jobs>>

(* The outbound copy ends the process, once the agent has closed its end.  *)
(* The end of its input only half-closes the socket.                       *)
BridgeExits(s) ==
  /\ bridge[s] = "up"
  /\ s \notin open
  /\ \A i \in DOMAIN backlog : backlog[i] # s
  /\ bridge' = [bridge EXCEPT ![s] = "exited"]
  /\ UNCHANGED <<control, session, target, asking, wire, jobs, history>>

-----------------------------------------------------------------------------
(* The agent's accept goroutine.                                           *)

(* The handshake needs the hello of the other end.                         *)
Greet ==
  /\ greeting = None
  /\ backlog # <<>>
  /\ session[Head(backlog)] \in {"talking", "cut"}
  /\ greeting' = Head(backlog)
  /\ open' = open \cup {Head(backlog)}
  /\ backlog' = Tail(backlog)
  /\ UNCHANGED <<control, session, bridge, conn, ready, asking, wire, jobs,
                 history>>

(* The other end is gone before it said hello: closed, and on to the next. *)
Reject ==
  /\ greeting = None
  /\ backlog # <<>>
  /\ session[Head(backlog)] = "mute"
  /\ backlog' = Tail(backlog)
  /\ UNCHANGED <<control, session, bridge, greeting, open, conn, ready, asking,
                 wire, jobs, history>>

WakeWaiting ==
  ask' = [a \in Asks |-> IF ask[a] = "waiting" THEN "woken" ELSE ask[a]]

(* Slip: the replaced connection is not closed.                            *)
Slip_InstallKeepsOld ==
  /\ greeting # None
  /\ mu = None
  /\ conn' = greeting
  /\ greeting' = None
  /\ ready' = TRUE
  /\ WakeWaiting
  /\ UNCHANGED <<control, session, bridge, backlog, open, mu, tries, by, wire,
                 jobs, history>>

(* Under mu: the connection being replaced is closed, waiting asks wake.   *)
Install ==
  /\ greeting # None
  /\ mu = None
  /\ open' = open \ {conn}
  /\ conn' = greeting
  /\ greeting' = None
  /\ ready' = TRUE
  /\ WakeWaiting
  /\ UNCHANGED <<control, session, bridge, backlog, mu, tries, by, wire, jobs,
                 history>>

-----------------------------------------------------------------------------
(* The agent's asks.                                                       *)

BeginJob(r) ==
  /\ running = None
  /\ r \notin over
  /\ running' = r
  /\ UNCHANGED <<control, session, bridge, target, asking, wire, over,
                 history>>

(* The job is over when none of its branches is asking.                    *)
EndJob(r) ==
  /\ running = r
  /\ \A a \in Asks : Job(a) = r => ask[a] \in AskEnded \cup {"idle"}
  /\ running' = None
  /\ over' = over \cup {r}
  /\ UNCHANGED <<control, session, bridge, target, asking, wire, history>>

(* An exchange begins on the installed connection, mu held until it ends.  *)
Send(a) ==
  /\ mu = None
  /\ conn # None
  /\ mu' = a
  /\ ask' = [ask EXCEPT ![a] = "receiving"]
  /\ wire' = [wire EXCEPT ![conn] = a]

(* Slip: AskWith does not take mu.                                         *)
Slip_AskUnlocked(a) ==
  /\ running = Job(a)
  /\ ask[a] = "idle"
  /\ conn # None
  /\ mu' = a
  /\ ask' = [ask EXCEPT ![a] = "receiving"]
  /\ wire' = [wire EXCEPT ![conn] = a]
  /\ tries' = [tries EXCEPT ![a] = 1]
  /\ UNCHANGED <<control, session, bridge, target, by, jobs, history>>

(* AskWith finds a connection.                                             *)
Ask(a) ==
  /\ running = Job(a)
  /\ ask[a] = "idle"
  /\ Send(a)
  /\ tries' = [tries EXCEPT ![a] = 1]
  /\ UNCHANGED <<control, session, bridge, target, by, jobs, history>>

(* AskWith finds none: attached() releases mu and waits on ready.          *)
AskWaits(a) ==
  /\ running = Job(a)
  /\ ask[a] = "idle"
  /\ mu = None
  /\ conn = None
  /\ ask' = [ask EXCEPT ![a] = IF ready THEN "woken" ELSE "waiting"]
  /\ tries' = [tries EXCEPT ![a] = 1]
  /\ UNCHANGED <<control, session, bridge, target, mu, by, wire, jobs,
                 history>>

(* A session that can still become the connection of job r.                *)
OnItsWay(r) ==
  \/ loop[r] \in {"idle", "dial", "register"}
  \/ /\ loop[r] = "serving"
     /\ \/ bridge[Current(r)] = "dialing"
        \/ \E i \in DOMAIN backlog : backlog[i] = Current(r)
        \/ greeting = Current(r)

(* attachWait is over.                                                     *)
Expire(a) ==
  /\ ask[a] = "waiting"
  /\ ask' = [ask EXCEPT ![a] = "expired"]
  /\ calm' = (calm /\ ~OnItsWay(Job(a)))
  /\ UNCHANGED <<control, session, bridge, target, mu, tries, by, wire, jobs,
                 faults>>

(* attached() has mu again.                                                *)
Resume(a) ==
  /\ ask[a] \in {"woken", "expired"}
  /\ Send(a)
  /\ UNCHANGED <<control, session, bridge, target, tries, by, jobs, history>>

NobodyAttached(a) ==
  /\ ask[a] \in {"woken", "expired"}
  /\ mu = None
  /\ conn = None
  /\ ask' = [ask EXCEPT ![a] = "failed"]
  /\ UNCHANGED <<control, session, bridge, target, mu, tries, by, wire, jobs,
                 history>>

Receive(a) ==
  /\ ask[a] = "receiving"
  /\ wire[conn] \in Runs
  /\ ask' = [ask EXCEPT ![a] = "answered"]
  /\ by' = [by EXCEPT ![a] = wire[conn]]
  /\ wire' = [wire EXCEPT ![conn] = None]
  /\ mu' = None
  /\ UNCHANGED <<control, session, bridge, target, tries, jobs, history>>

(* The connection is forgotten and closed.                                 *)
Forget ==
  /\ open' = open \ {conn}
  /\ wire' = [wire EXCEPT ![conn] = None]
  /\ conn' = None

EndOfFile(a) == ask[a] = "receiving" /\ (Over(conn) \/ bridge[conn] = "exited")

(* Slip: no second exchange.                                               *)
Slip_NoRetry(a) ==
  /\ EndOfFile(a)
  /\ tries[a] = 1
  /\ Forget
  /\ ready' = FALSE
  /\ ask' = [ask EXCEPT ![a] = "failed"]
  /\ mu' = None
  /\ UNCHANGED <<control, session, bridge, backlog, greeting, tries, by, jobs,
                 history>>

(* Slip: attached() waits without releasing mu.                            *)
Slip_RetryKeepsMu(a) ==
  /\ EndOfFile(a)
  /\ tries[a] = 1
  /\ Forget
  /\ ready' = FALSE
  /\ tries' = [tries EXCEPT ![a] = 2]
  /\ ask' = [ask EXCEPT ![a] = "waiting"]
  /\ UNCHANGED <<control, session, bridge, backlog, greeting, mu, by, jobs,
                 history>>

(* The connection belonged to a session that is over: drop() forgets it,   *)
(* AskWith tries once more and so waits in attached(), mu released.        *)
Retry(a) ==
  /\ EndOfFile(a)
  /\ tries[a] = 1
  /\ Forget
  /\ ready' = FALSE
  /\ tries' = [tries EXCEPT ![a] = 2]
  /\ ask' = [ask EXCEPT ![a] = "waiting"]
  /\ mu' = None
  /\ UNCHANGED <<control, session, bridge, backlog, greeting, by, jobs,
                 history>>

WentAway(a) ==
  /\ EndOfFile(a)
  /\ tries[a] = 2
  /\ Forget
  /\ ready' = FALSE
  /\ ask' = [ask EXCEPT ![a] = "failed"]
  /\ mu' = None
  /\ UNCHANGED <<control, session, bridge, backlog, greeting, tries, by, jobs,
                 history>>

-----------------------------------------------------------------------------
ControlStep(r) ==
  \/ SeesStop(r) \/ Dial(r) \/ Register(r) \/ Answer(r) \/ ServingEnds(r)
  \/ Finish(r)
BridgeStep(s) == BridgeConnects(s) \/ BridgeExits(s)
AcceptStep == Greet \/ Reject \/ Install
AskStep(a) ==
  \/ Expire(a) \/ Resume(a) \/ NobodyAttached(a) \/ Receive(a) \/ Retry(a)
  \/ WentAway(a)
(* Commands started, plans executed, failures: none of them need happen.   *)
Begin(r) == StartBridge(r) \/ BeginJob(r) \/ EndJob(r)
Fault(r) == DialFails(r) \/ GiveUp(r) \/ Drop(r)

(* The job is busy with its other steps, or every run has ended.           *)
Elsewhere ==
  /\ running # None \/ \A r \in Runs : r \in over /\ r \in stopped
  /\ UNCHANGED vars

Next ==
  \/ \E r \in Runs : ControlStep(r) \/ Begin(r) \/ Fault(r)
  \/ \E s \in Sessions : BridgeStep(s) \/ BridgeGivesUp(s)
  \/ AcceptStep
  \/ \E a \in Asks : Ask(a) \/ AskWaits(a) \/ AskStep(a)
  \/ Elsewhere

Spec == Init /\ [][Next]_vars

FairSpec ==
  /\ Spec
  /\ \A r \in Runs : WF_vars(ControlStep(r))
  /\ \A s \in Sessions : WF_vars(BridgeStep(s))
  /\ WF_vars(AcceptStep)
  /\ \A a \in Asks : WF_vars(AskStep(a))

-----------------------------------------------------------------------------
TypeOK ==
  /\ loop \in [Runs -> LoopStates]
  /\ attempt \in [Runs -> 0 .. Retries]
  /\ stopped \subseteq Runs
  /\ session \in [Sessions -> SessionStates]
  /\ bridge \in [Sessions -> BridgeStates]
  /\ backlog \in Seq(Sessions)
  /\ greeting \in Sessions \cup {None}
  /\ open \subseteq Sessions
  /\ conn \in Sessions \cup {None}
  /\ ready \in BOOLEAN
  /\ mu \in Asks \cup {None}
  /\ ask \in [Asks -> AskStates]
  /\ tries \in [Asks -> 0 .. 2]
  /\ wire \in [Sessions -> Asks \cup Runs \cup {None}]
  /\ by \in [Asks -> Runs \cup {None}]
  /\ running \in Runs \cup {None}
  /\ over \subseteq Runs
  /\ faults \in 0 .. MaxFaults
  /\ calm \in BOOLEAN
  /\ \A a \in Asks : ask[a] = "receiving" => mu = a
  /\ ready <=> conn # None

(* However often control hosts reconnect without the agent asking anything *)
(* in between, the agent's end is open on the installed connection and the *)
(* one being greeted only, and on no connection it has dropped: no         *)
(* descriptor is lost (channel.go:99-105).                                 *)
NoDescriptorLeft == open = {conn, greeting} \ {None}

(* "a job blocked on an answer nobody will give must fail" (channel.go:    *)
(* 171-172): whatever becomes of sessions, bridges and the runs sharing    *)
(* the agent, an ask that was made ends.                                   *)
EveryAskEnds == \A a \in Asks : ask[a] # "idle" ~> ask[a] \in AskEnded

(* A run that has the agent to itself is answered by its own control host, *)
(* also when the agent still holds the connection of an earlier command    *)
(* (channel.go:147-153), unless a session drops or a timer beats a dial.   *)
SoleRunIsAnswered ==
  \A a \in Asks :
    ask[a] # "idle" ~>
      \/ by[a] = Job(a)
      \/ ~calm
      \/ \E r \in Runs \ {Job(a)} : loop[r] # "idle"
      \/ Job(a) \in stopped

-----------------------------------------------------------------------------
(* "and the bridge dies with its session" (ADR 0031, section 1): when a    *)
(* session is over its bridge process exits.                               *)
BridgeDiesWithSession ==
  \A s \in Sessions : Over(s) ~> bridge[s] \in {"none", "exited"}

(* "Serve answers one job's requests" (serve.go:103): an ask is answered   *)
(* by the control host whose plan declared it.                             *)
OwnControlAnswers == \A a \in Asks : by[a] \in {None, Job(a)}
=============================================================================
