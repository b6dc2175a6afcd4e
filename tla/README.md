# shellf, specified

TLA+ specifications of shellf: the concurrent and failure-prone parts of the
program as state machines, model-checked with TLC on small instances, and
theorems about them checked by TLAPS for every instance. All paths are
relative to the repository; `resident.go:58` is a line of a file of
`src/internal/`, unambiguous by its name, or named with its directory.

## The system

A control host reads a plan (`on <target>` blocks of steps) and an inventory,
and runs each block on every host of its target. For one host and one block
that is one *job*: the control host puts a job request on the target over SSH,
a resident agent there takes it, runs its steps and leaves a result file that
the control host polls for. While the job runs, it may ask the control host
for files and templates over a second SSH session, the *control channel*.

| Component | State it keeps | Operations | Talks to |
|---|---|---|---|
| Rendezvous: `transport/ssh.go`, `agent/resident.go` | cached agent binary, workdir with `req-`, `.claiming`, `out-`, `done-` files, `agent.pid` | probe, push, ensure workdir, deposit, alive check, launch, poll, remove job, clean; agent: boot, claim, run, write result, mark, release, expire | through files of the target only; runs of other control hosts and other agents share them |
| Agent push: `transport/ssh.go` | the binary and the temporary file it is sent to | digest probe, `cat > T && chmod && mv T P`, launch | other runs, through the file names |
| Control channel: `agent/channel.go`, `agent/bridge.go`, `transport/ssh.go` (`bridge`), `orchestrator/serve.go`, `proto/channel.go` | the agent's connection, its `ready` channel and mutex; each run's loop, attempt counter and sessions | listen, accept, ask, wait, retry; dial, register, serve, stop; bridge copies | agent's asks, bridge processes, control hosts |
| Orchestrator: `orchestrator/orchestrator.go`, `fleet/fleet.go`, `report/report.go`, `inventory/inventory.go` | blocks, dropped hosts, outcomes, the exit verdict | refuse, select, agree on an interpreter, fan out under a semaphore, collect, report | the transports, one call per host and block |
| Step runner: `agent/agent.go` | scope, deferred error, results | run steps, branches, parallel groups | def evaluation, channel |
| Def evaluation: `lang/eval.go`, `engine/instruction.go`, `lang/inert.go` | scope, verdict of observations | observe, act, confirm, in run, check and status mode | shells |
| Tree transfer: `agent/sync.go`, `agent/syncchild.go`, `orchestrator/sync.go` | manifest, staged files, destination | scan, send delta, stage, commit | control channel |
| Engine primitives: `engine/` and `agent/escalate.go` | none over time | run a shell, place a file, escalate | the operating system |
| Modules and lock: `module/`, `project/project.go` (`readImports`) | `shellf.lock`, the module cache, the lock in memory | fetch, pin, verify, save | other runs, through both files; git |
| Plan reader: `lang/parser.go`, `lang/argcheck.go`, `lang/control_scan.go` | the tables of variables and defs, the blocks read so far | read a statement, refuse, judge arguments, derive the allow-list | text in, blocks out |
| Per-host resolution: `orchestrator/orchestrator.go` (`HostEnv`, `reqFor`), `proto/proto.go` | the request of one host | replace names, judge again | the plan reader's tables; the transports |
| Call cycles: `lang/cycles.go` | path, memo | walk the call graph | the def table |
| Rest of the wire types: `proto/` | none | encode | all |
| Local transport: `transport/local.go` | one subprocess | run | agent |
| Rest of project and settings: `project/conf.go`, `pathguard/` | none over time | layer settings | files |
| Rest of the language front end: lexer, grammar of defs, shell detector | none | parse | text |
| Standard defs, embedded agents, command line: `std/`, `agentbin/`, `cmd/shellf/` | none | lookup, wiring | |

### What is hard, and what makes it correct

* **Rendezvous.** There is no lock and no server: runs and agents agree through
  renames. Two runs may each launch an agent; the agents then race for every
  request. A session may drop after its command took effect. An agent may die
  or reach its TTL anywhere, a disk may fill, the poll has a deadline, `clean`
  may come at any moment. Correct means: a job runs at most once, a caller is
  never told a result its job did not produce, a marker never precedes its
  result, and a job nothing disturbs is answered.
* **Push.** One temporary name for all runs. Correct means that no run starts a
  torn binary.
* **Channel.** The accept goroutine, the parallel asks and any number of control
  hosts meet at one connection under one mutex that is held across an exchange
  and released across a wait. A connection may be dead and only use tells.
  Correct means: no ask hangs, no descriptor is lost, a run alone with its agent
  is answered.
* **Orchestrator.** Partial failure: hosts fail in one block and must not be
  touched by later ones, while the others go on. Two verdicts are taken on the
  same response, one for dropping a host and one for the exit status. Correct
  means: a plan that names an unknown host touches nobody, a dropped host stays
  dropped, an exit status of 0 means that everything asked for was done. A host
  that never answers holds the plan, since nothing bounds a command; it must hold
  nothing but its own slot.
* **Tree transfer.** A manifest that is taken first and acted on last, over a
  connection that may break at any message, from a source and to a destination
  that others may edit; a retry that meets the first attempt's staging area; a
  commit that removes before it places. Correct means: only what the whole
  exchange delivered is committed, an interrupted exchange changes nothing, a
  success is one that the next run has nothing to add to (but for files dated at
  the epoch), a copy removes nothing, a preview tells what a transfer would do.
* **Step runner.** An error may be deferred for the next step alone, and whether
  that step handles it is decided before the step decides for itself; captures
  are shared with blocks and copied for branches; a preview runs what may not
  run. Correct means: no error is lost on its way out of blocks and branches,
  nothing is built on one, branches do not see each other.
* **Def evaluation.** One def is evaluated three ways, through calls and
  delegations, on commands whose exit status may say anything. Correct means: a
  dry run touches nothing, what it calls settled is settled, a success is
  observed and not asserted, what changed is said to have changed.

* **Modules and lock.** Every command of a project, `status` and `--dry-run`
  included, reads one lock file, asks git what is missing and may write the
  file back, and any two of them may overlap; the file is emptied before it is
  written; tags move between the asking, the cloning and the next run; the cache
  is a directory anybody may edit. Correct means: a run is given what the lock
  pins, one name is one module, and what is pinned and cached needs no network.
* **Reading a plan and resolving it.** Names are replaced at two moments (when a
  string is read, when the host is known), arguments are judged at the same two
  moments, and the paths a plan may ask for are derived at a third. Correct
  means: the moments do not show. What a host is sent is what the author wrote,
  no call is refused that is right, none is sent that is wrong, and what is
  marked as a file of the control host is served by it.
* **Call cycles.** The memo of the walk is shared by all its roots. Correct means
  that exactly the projects with a circle in reach are refused.

`PROJECT.json` lists each hazard with its line and the properties aimed at it.

## The modules

| Module | What it is |
|---|---|
| `Rendezvous` | runs and agents on one target |
| `JobContract` | what one call of `SSH.Run` promises; `Rendezvous` refines it |
| `RendezvousProofs` | theorems about `Rendezvous` |
| `AgentPush` | the push step, opened to the level of inodes |
| `Channel` | control hosts, bridges, the accept goroutine and asks of one agent |
| `JobResponse` | the answers an agent may give, shared by the next two |
| `StepRunner` | the steps of one job |
| `DefEval` | the evaluation of the def of one step, and of the defs it calls |
| `Orchestrator` | a whole run: blocks, hosts, fan-out, verdict |
| `TreeSync` | transfers of a tree to one destination, one after another |
| `ModuleLock` | any number of runs over one `shellf.lock` and one module cache |
| `DefTable` | which def a name stands for, and what may be registered |
| `PlanValues` | a plan, read statement by statement, judged, and resolved per host |
| `CallCycles` | the search for circles of calls |
| `Load` | one run from its imports to the requests it sends: the four above, composed |
| `AgentPushProofs`, `ChannelProofs`, `StepRunnerProofs`, `DefEvalProofs`, `OrchestratorProofs`, `TreeSyncProofs` | theorems about the module of that name |
| `LoadProofs` | theorems about `Load`, and by it about `ModuleLock`, `PlanValues` and `CallCycles` |
| `MC…` | instances for TLC |

The modules meet at their edges. `Rendezvous!Push` is one step where
`AgentPush` has five; `Channel!StartBridge` is the start of the poll of a run
whose job is deposited (`Rendezvous`' `poll`), and `Channel!Stop` its end; a
call of `Rendezvous` is the step from `Dial` to `Return` of `Orchestrator`,
whose results are `JobContract`'s: an error or a response. The responses
`Orchestrator` chooses from are those of `JobResponse`, and `StepRunner` is
checked to give no other (`ResponseFits`); its steps are what happens inside
`Rendezvous!Execute`. `StepRunner!Call` is `DefEval` from `Begin` to `End`, and
`CallBreaks` an outcome of `Failure`; `DefEval!Sync` is a call of `TreeSync`.
`TreeSync!Ask` to
`Done` is one ask of `Channel` whose answer has several messages; its `Drop` is
the end of that connection.

`Load` is what happens before the first step of `Orchestrator`: it extends
`ModuleLock`, `PlanValues` (over `DefTable`) and `CallCycles`, and lets one run
go from its last import to the parser, from there to the search for circles,
and from there to the judgement of its arguments. `PlanValues!ExpandFor` is the
`reqFor` that `Orchestrator` asks for each host it dials; a host it drops is
one of `Orchestrator`'s `dead`. A call it sends is a `StepRunner!Call`.

Operators named `Slip_…` are plausible wrong versions of the action they stand
above. No specification uses them. Each property of a passing run was checked
to fail when one of them replaces its action, so that none of them holds
merely by the shape of the model.

### Rendezvous

| State | Code |
|---|---|
| `rpc[r]`, `got[r]` | the position and the result of a call of `SSH.Run` (ssh.go:337-424) |
| `apc[a]`, `ajob[a]` | the position of the agent that run `a` launched (resident.go:22-152) and the job it claimed |
| `binary`, `workdir` | the cached binary and the rendezvous directory |
| `reqs`, `claims`, `outs`, `dones`, `pidfile` | `req-r.json`, `req-r.json.claiming`, `out-r.json`, `done-r`, `agent.pid` |
| `ran`, `cleans`, `erased`, `calm` | history, and the bound on cleans |

One shell command of one session is one step. Where an answer may be lost after
the command took effect there is a second action: `DepositUnheard` (the run
fails and its job may run), `AliveUnheard` (an error reads as "no agent").
`Refuse` gathers the error returns before the deposit. `Launch` is detached: a
missing binary (`LaunchNothing`) is not reported to anyone. On the agent's side
each file operation of `processJob` is a step, in the code's order: rename the
request away, read it, run, write the result, write the marker, drop the claim.
`Execute` reads the claim and counts the execution. Writing may fail three ways
(`WriteShort`, `WriteNothing`, the second half of `Mark`). `Expire` is a scan
that found nothing and a TTL that is over; `EraseFiles`, `RemoveDir` and
`RemoveBinary` are what follows, without another look.

A run launches at most one agent, so agents bear the names of runs and no
second constant is needed.

### AgentPush

`temp` and `path` are the two names, pointing to inodes; `content` is what an
inode holds; `file` and `pos` are the `cat` of a run. `Open` is the redirection
(it truncates whatever has the name), `Rename` is `mv`. `Drop` leaves open
whether the remote shell is killed or carries on after the end of its input:
both are possible, depending on sshd. That choice is outside this repository.

### Channel

| State | Code |
|---|---|
| `loop`, `attempt`, `stopped` | the goroutine of `SSH.bridge`, its counter, `stop()` (ssh.go:434-498) |
| `session[s]` | attempt `k` of run `r`: not yet, before or after its hello, ended after or before it |
| `bridge[s]` | the process `shellf __bridge` (bridge.go) |
| `backlog`, `greeting`, `open` | the socket's queue, the connection being greeted, the ends the agent has open |
| `conn`, `ready`, `mu` | the fields of `agent.Channel` |
| `ask`, `tries`, `by`, `wire` | the positions of `AskWith`, what answered, the message under way |
| `running`, `over` | the agent's job, the jobs done |

`Ask` joins taking the mutex and sending, since nothing between them can be
seen; `AskWaits`, `Expire`, `Resume` and `NobodyAttached` are `attached()`;
`Receive`, `Retry` and `WentAway` are the ends of an exchange. `Install` needs
the mutex, which an ask holds while it waits for an answer.

In one initial state the agent still holds the connection of an earlier
command (`Leftover`), in the other it holds none: both are reached by the code,
which never tells the agent that a run is over.

### Orchestrator

A plan is a sequence of blocks (target, and whether it has a shell with no
interpreter of its own); inputs are chosen in `Init`. `phase`, `block`, `dead`
are the variables of `orchestrator.Run`; `live`, `work`, `outcome` those of
`fleet.Run`; `anyErr` is the second result of `report.Text` and `report.JSON`.
`Return` chooses among every response an agent can give: steps that failed,
caught or not, halted or not, or `Response.Error` with no step at all.
`contacted`, `completed` and `silent` are history. `Failed` and
`CountsAsError` are the two verdicts on a response, kept apart as in the code.

### StepRunner

| State | Code |
|---|---|
| `plan`, `mode` | the request: a tree of steps, apply, check or status |
| `phase`, `response` | `runRequest` and what it returns |
| `st`, `result` | per step, the call of `runStep` for it and its result |
| `taken`, `stopped` | which sequence of the step is run by `runSteps`, and whether that halted |
| `scope` | per branch of a parallel block, which step's result each name stands for |
| `decider` | history: the step whose result decided an `if` |

Loops are unrolled when a plan is parsed, so a step runs at most once, and the
recursion of `runSteps`, `runIf` and `runStep` needs no stack: it is the tree
itself. `Call` is an instruction with any outcome its mode allows, `CallBreaks`
one that cannot be evaluated and therefore captures nothing; a block without
steps falls through to the same place (agent.go:276-304). `HandlesCaught` is
evaluated when the error is returned, `Decide` when the `if` runs, as in the
code. `Fork` copies the scope for each branch when the block begins: the code
does so when each branch begins, and nobody writes the outer scope in between.

### DefEval

| State | Code |
|---|---|
| `host` | what shells and primitives can see of the target |
| `mode` | apply (a run), check (`--dry-run`) or status |
| `stack` | the calls of `EvalDefFull` under way: `ev.def` and `ev.stack`, the phases and statements left, `ev.acted`, `ev.last` |
| `ret` | what the call that ended last returned |
| `log` | history: the calls made by plans, with the host before and after |

A def is its phases: `check`, `observe`, `preview`, `apply`, or a delegation.
The frame's `stage` says which pass it is in: the decision, an apply that is
tried because it is inert (`try`), the previews, the apply, a delegation.
A statement is a shell that reads or acts, a primitive that acts, a call, a
return, or something that cannot be evaluated, under a condition on what came
last. `Set` leaves open whether the command had an effect and what it exited
with, each independently of the other. `Receive` is both what follows a call in
`evalCall` and the recovery of its panic in `EvalDefFull`: an error of a callee
ends every caller with its own verdict.

Arguments are part of the def that is called, so that a name of the model stands
for a def and its arguments; what a def refuses of its arguments is `Stop` or a
`check`.

### TreeSync

| State | Code |
|---|---|
| `src`, `dst` | the source tree on the control host, the destination on the target |
| `pc`, `call`, `tries` | the position, the arguments and the attempt of `Channel.sync` (agent/sync.go:46-110) |
| `have` | the manifest `scanTarget` made and the ask carries |
| `want`, `todo` | the listing `serveSync` took, the files it has yet to send (orchestrator/sync.go) |
| `staged` | the staging directory |
| `extras`, `sent` | what the terminator said: paths to remove, number of files |
| `left` | what the escalated child has yet to remove, then to place (syncchild.go) |
| `residue` | the terminator of an exchange the agent stopped reading, still in the connection |
| `before`, `quiet`, `ended`, `forecast` | history |

`Scan`, `Ask`, `Deliver`, `Done` are one exchange. `Drop` is the loss of the
connection: the first is answered by a second attempt that scans again and
empties the staging directory, the second ends the call. `Vanished` and
`StagingFails` end the exchange for the agent only; `serveSync` sends on, and
`SkipResidue` is the agent skipping it at its next ask. `Stamp` is the time
`stagedFile.commit` gives a file: the listed one, or none if that is 0 (`Epoch`),
and then it is the time of writing (`Now`), which `Place` keeps. `Commit`, `Remove`,
`StartPlacing`, `Place` and `Finish` are `SyncCommit`; the two `…Refused` are
the refusals it makes on what the destination has become (a directory that is
not empty, a link that leads out, a file where a directory should be, a
directory where a file should be); `PlaceBreaks` leaves the destination at each
point a placement can stop at.

Kept out: a file is read, staged and placed in one step each, a scan is one
step, a link inside the destination leads out of it, trees have two levels.
The order of paths is left open where the code has one.

### ModuleLock

| State | Code |
|---|---|
| `imports` | what the plan of each run imports (`lang.ScanImports`) |
| `file`, `cache`, `tag` | `shellf.lock`, `~/.cache/shellf/modules`, the tags of the repositories |
| `at`, `next` | the position in the loop of `readImports` and in what it calls |
| `lock`, `changed`, `sha` | its variables `lock`, `lockChanged`, and `Resolve`'s `sha` |
| `served` | `out`, by what the sources hash to |
| `loaded`, `offline`, `alone`, `events` | history, and the bound on events |

Each read or write of something shared is a step: `LoadLock`, the look into the
cache with its verification (`ServeCached`, `RefuseCached`), `ls-remote`
(`AskTag`), `clone` and the rename into place (`Clone`), the reading of the
cached sources (`ReadModule`, `RefuseModule`), the emptying and the writing of
the lock (`Truncate`, `Write`). `Write` over what another run has written
meanwhile leaves the rest of a longer file behind: whole lines of it, or half a
line, which makes the file one that no run can read (`Torn`). `MoveTag` and
`TouchCache` are what authors and users do. A local import reads nothing that is
shared.

Commits and hashes of what they hold are one thing: two commits with the same
sources are told apart here and not in the code. A commit that is given as the
version is its own name; `git clone --branch` does not take one, so that such
an import is served from the cache or refused (`CloneFails`), although ADR-0016
names it beside tags.

### DefTable and PlanValues

| State | Code |
|---|---|
| `libs`, `user` | the files of `defs/` not read yet, `userDefs` |
| `plan`, `todo` | the plan, and what the parser has yet to read, with the loop variables in force |
| `base` | `baseVars`: `--vars`, then the bindings of the plan |
| `blocks` | `orchestrator.Plan`: calls with `Args`, `Refs`, `Templates`, `Control`, `With` |
| `pass` | how far `project.Load` has come |
| `allow` | the paths of `Allowed` |
| `sent`, `dropped` | the requests, the hosts whose expansion failed |

A string is a sequence of pieces: text, `${x}`, `${inventory.f}`. Whether a
piece is replaced depends on who reads it and not on who wrote it, so that a
value that was spliced into a string can be expanded a second time, as in the
code. One action per kind of statement: `ReadImport`, `ReadDef`, `ReadBinding`,
`ReadBlock`, `ReadFor` (which puts its body before the rest once per item, as
the parser re-reads it), `ReadCall`. `StepOf` is the tail of `parser.call`,
`Resolved` is `proto.ResolveRefs`, `RefusedArguments` and `Acceptable` are the
two passes of `argcheck.go`. Which values a pure `check` refuses is a constant,
`Rejects`, and so is what the inventory holds, `Inv`.

### CallCycles

The recursion of `walk` is a stack: `chain` is its argument of that name, `rest`
what each of its loops has left; `done` is its memo, `roots` the loop of
`CheckCycles`. `calls` is any graph. Which calls are in it is `Callees`' doing,
which does not look into the arguments of a delegation nor into what a return
carries: a circle through one of those is found by the evaluator, on the host
(`Ends` of `DefEval`), where cycles.go:9-11 wants none to be found.

## The runs

| Run | Instance | Shows |
|---|---|---|
| `rendezvous` | 2 runs, 2 agents, 1 clean | at most once; never wrong; marker after result; a published result is final; an undisturbed job is answered; refines `JobContract` |
| `channel` | 1 run, 2 parallel asks, 1 reconnection, 2 failures | no descriptor lost; every ask ends; a sole run is answered |
| `push` | 3 runs, 2 drops | without overlap, every agent starts from the whole binary |
| `push_torn` | 2 runs, no drop | **refutes** that the binary is never partial |
| `orchestrator` | 3 hosts, plans of 1-2 blocks, 5 limits, 2 widths | who is dialed, who is dropped, what a success means, and that a run ends unless a host it dialed never answers |
| `orchestrator_silent` | the same | **refutes** that a job left unfinished fails the run |
| `step_runner` | 93 plans of up to 6 steps, 3 modes | errors halt or are covered, nothing runs on a broken base, branches are isolated, the response fits, the job ends |
| `step_runner_stale` | the same | **refutes** that no error passes silently |
| `def_eval` | 15 defs, 2 paths, 2 calls in any mode | a dry run is inert, an ok is kept, no change goes unreported, a second run is a no-op, every call ends |
| `tree_sync` | 3 paths, 2 calls, 1 edit, 2 faults | what is committed, what is left alone, that a success converges and a preview is kept |
| `load` | 3 runs, 3 imports, 2 commits, 2 events; 991 plans, 80 of them under each of 4 sets of packaged defs, 2 hosts; 512 call graphs | what is imported is pinned, stays the same and needs no network; what is sent is what was written, judged alike at both moments, served where it is marked; exactly the circles are refused |
| `load_one_name` | the same | **refutes** that a bare name and the name in braces agree |

The comment above each property states it with the line of the code, comment or
document that it is about.

### Bounds

* `rendezvous`: two runs are the least that give two agents, two requests, a
  shared `agent.pid` and a foreign claim; every race of the code is between two
  parties. One clean reaches a target with runs before and after it. The
  theorems lift the safety part to any number of both.
* `channel`: two asks of one job contend for the mutex and for one new
  connection; one reconnection lets a second bridge replace a first; two
  failures include the one that uses up the reconnections. The code's own
  `bridgeRetries` is larger and gives more of the same steps.
* `push`: two chunks tell empty, partial and whole apart; a third run finds
  what two others left. Two drops allow an interrupted push after an
  interrupted push.
* `orchestrator`: three hosts and a width of two make one host wait. Two blocks
  are the least in which a host can be dropped from a later one. The blocks
  include a host, a group, an empty group, an undeclared name and a shell
  without an interpreter; the limits include none, one host, an empty group and
  one with a typo.

* `step_runner`: the plans hold an error with every kind of test after it
  (fitting or not, negated or not, with and without `else`, on another name),
  inline conditions, a name captured twice, captures and errors in two
  branches, a previewed branch and blocks without steps. Two tags tell a
  fitting error from another. An `if` looks at one result, so two captures of
  one name are the least that can be confused.
* `def_eval`: the defs have the shapes of the standard library: convergence by
  one and by two commands, one of them with a field that has no parameter;
  deliveries of a file, of two, of a tree with its preview; a restart; a
  question; a refusal; and a delegation, a def of calls with and without an
  `observe`, a def that asks a question, one that cannot be evaluated, a circle.
  Calls nest three deep at most. Two calls are what every property compares.
* `tree_sync`: a path, and a directory with a file in it that may be a file or
  a link on the other side, give every conflict of kinds two levels can have;
  two contents of one size and three times (the epoch, the present, another) make
  an entry the same by metadata and not by digest, and the other way round, and
  tell a file that kept its time from one that was just written. Two calls let a transfer follow a
  failed one, a broken-off one or a preview; two faults break both attempts of
  a call; one edit falls between any two steps.
* `load`: three runs, because two that overlap leave a lock that a third finds;
  two tags and a commit; two commits are what a tag can point at; two events let
  a tag move and the cache be emptied, or a run die after a tag has moved. With
  no imports, one call with every pair of arguments out of six and seven forms
  (strings, bare names, raw, deferred, bound before, after, by a loop, by
  `--set`, by `--vars`, by nobody), with and without bindings around it, in a
  loop, with a `with`; a path of the control host at each place a call may stand;
  three blocks; nested loops; a name that is a def of the library, of a package,
  overridden, imported twice or unknown. Two hosts whose inventories differ are
  what "for that host alone" needs. Every graph over two defs of the project and
  one of the library has every shape of circle and of shared callee that the
  memo could get wrong; the theorem lifts it to any graph.

`None`, `MaxCleans`, `MaxFaults`, `MaxDrops`, `Retries`, `Blocks`, `MaxBlocks`,
`Limits`, `Widths`, `Modes`, `Plans`, `Defs`, `StartSources`, `StartTargets`,
`MaxCalls`, `MaxEdits`, `MaxEvents` and `Inputs` are the only bounds. `Retries` stands for `bridgeRetries`.

### Fairness

Weak fairness of each process: a run's own steps, an agent's own steps, a
control loop, a bridge process, the accept goroutine, an ask once made. They are
goroutines or processes that are runnable whenever their action is enabled, so
the Go and the operating system's schedulers keep taking them. Commands that
people start (`StartBridge`, `Clean`), the job's own progress (`BeginJob`,
`EndJob`, `Ask`) and everything that fails are not fair: liveness never rests
on a failure, a command or a plan doing something.

`Served` and `SoleRunIsAnswered` are conditional on `calm`: they promise
nothing once a failure, an expiry, a deadline or a timer that beats a dial under
way has occurred. `EveryAskEnds` is unconditional but for one fact the code
takes from elsewhere: the end of a session is noticed by both ends of it. A
control host that vanishes without a FIN is noticed by sshd's keepalives, if
configured; `Recv` has no deadline of its own. In `Orchestrator` the goroutines of
a run are fair and the answer of a host (`Return`) is not: `Local.Run` waits for its
agent without a deadline (local.go:45-49), and `SSH.Run` looks at its own between
two polls and not while a command of the session runs (ssh.go:767, 86).
`HeldByHostsAlone` says what is left: a run ends, or nothing remains to be done in
its block but to wait for hosts that never answer. `Ends` takes it that every
instruction returns (`StepRunner`) or that every shell and transfer does (`DefEval`):
a command has no deadline of its own.

## What the refuted properties mean

1. **Concurrent pushes tear the binary** (ssh.go:280). They share `P.tmp`.
2. **A job left unfinished is a success** (`UnfinishedJobFailsRun`). There are
   two ways. A step that failed with an error marked as caught halts the job
   when nothing handles it, and the report counts no caught error (report.go:256,
   agent.go:160). A response whose steps were lost says so in `Response.Error`,
   which the report never reads (report.go:249).
3. **A stale capture handles an error** (agent.go:304). An instruction marked
   `?` that cannot be evaluated captures nothing. If its name was captured
   before, as every turn of a `for` loop does, the `if` that follows looks at
   that older result: the branch for a success runs on an error, and the job
   and the run succeed.
4. **A name has two values** (parser.go:451). `${x}` is replaced where it is
   read; a bare `x` is looked up after the whole plan has been read, in a table
   without loop variables. A second binding of `x` below the call, which nothing
   refuses, changes the one and not the other, and a loop over `x` reaches the
   one and not the other. `ResolvedAsWritten` is what holds besides.

2 is why `SuccessIsComplete` speaks of runs with no `silent` host: a failure
that drops a host and is not counted.

More statements of the documents are written down and do not hold; no run
of the project is spent on them. `ErasesOnlyIdleWorkdir` (`Rendezvous`) is
resident.go:19, that an agent erases everything after a TTL of inactivity: it
finds no request, sees its TTL over and removes the workdir (resident.go:58), with
a request deposited in between, or with the claim and the result of a second
agent that two simultaneous runs have produced. `OwnControlAnswers` (`Channel`) is
serve.go:103 and ADR-0031's allow-list: the agent has one connection for all jobs
(channel.go:106), and with two runs on a target the plan of one is asked for what
the job of the other needs. `CleanKillsEveryAgent` (`Rendezvous`) is the
comment at ssh.go:314 that clean kills every resident agent: when two agents
share a workdir, `agent.pid` names one of them. `FailedLeavesDestination`
(`TreeSync`) is ADR-0039's "a failed transfer leaves the destination as it was,
plus nothing": a commit that fails halfway, for which a source file where the
destination has a directory is enough, has removed and placed what came before.
`InterruptedLeavesDestination` is the part of it that holds: up to the end of
the exchange. `SecondRunSendsNothing` (`TreeSync`) is ADR-0039's "zero bytes on a
second run", and the comment at sync.go:366-368 on what it takes: the time of the
source is not applied when it is 0 (sync.go:369), so a file dated at the epoch lands
with the time it was written, differs under `meta` and is sent by every run, each
of which counts it as written. `Converges` is what holds: such files, with the right data,
are all that is sent again. `BridgeDiesWithSession` (`Channel`) is ADR-0031's "the bridge dies
with its session": the process waits for the agent to close the socket, which
the agent does when it next asks or when another bridge attaches, so that after
the last run of a day both remain until the agent's TTL (bridge.go:62).
`PreviewNeverGuesses` (`StepRunner`) is ADR-0004's promise that what cannot be
known is marked and not invented: a check runs a previewed branch with the scope
of the steps around it, and later conditions are decided by what it captured
(agent.go:226). `HandledErrorKeepsHost` (`Orchestrator`): an error that the job
handled still counts in `failed`, and costs the host its later blocks
(orchestrator.go:390), where proto.go:310 and ADR-0009:58 have it halt nothing.
`AlreadyIsNotRefused` (`DefEval`): a dry run may say ok, already, of a call that
the run refuses, since a nested question that would change something is only a
would (eval.go:266) and what came of an inert `apply` that has not acted is
dropped (eval.go:155). `PreviewIsNeverAGate` (`DefEval`) is ADR-0029:63-67: a
primitive that fails in a `preview` ends the call (eval.go:558, 945).

In what comes before the first host: `MovedTagRejected` (`ModuleLock`) is
lock.go:12-13 for any two runs. It fails when they overlap (one writes back a lock
without the other's pin, and a third run takes the tag where it points by then) and
when one dies between the emptying and the writing of the lock, since an empty lock
is a first run's; `MovedTagRejectedAlone` is what is left. `UnboundIsFoundFirst`
(`PlanValues`) is language.md:280, that a bare name nothing binds is reported before
anything is applied: it is found when a host is about to be sent the block it is in.
`NoPlaceholderIsSent` is parser.go:882-883: a `with`, and a variable bound to
a string with `${inventory.f}` that is then used bare, reach the agent as they
are. `EveryAssetIsServed` is control_scan.go:13-14: a path that waits for the
inventory or leaves `assets/` is in no allow-list and is refused by the control
host, mid-deploy. `ArgumentsFitDef`: a call is read with the signature its def has
at that point, and an `override def` further down changes the def.

Seen while modelling, and covered by no property:

* When two asks wait for one bridge and the first drops it before the second has
  the mutex, the second fails at once (channel.go:179-183) although its own wait
  is not over. `EveryAskEnds` allows it, and `SoleRunIsAnswered` does not forbid
  it, since the drop it takes is a failure.
* `~dir.sync` asks for check mode only (eval.go:941), so that a transfer written
  in a `check`, an `observe` or a delegation's argument acts under `status` too.
* A def with two `apply` phases is tried by its last and run by its first
  (inert.go:29, eval.go:184). A dry run that says ok, already, of it says nothing of the
  run. ADR-0041 knows of one `apply`; the parser accepts more.
* What a transfer counted is a number in a run and a sentence in a dry run
  (`syncSummary`, eval.go:960). With `n = ~dir.sync(...)` over an equal tree,
  `if n == "0" { ~file.write(...) }` writes in the run and is passed over in the dry
  run, which says ok, already, where ADR-0041 promises that nothing would change.
* The type of a parameter is asked of arguments and not of what `with` binds to the
  same name (argcheck.go:143-150).
* `if err` after a call or a primitive holds, because what came last is then no
  result of a shell (eval.go:1133).

## What is proved

`RendezvousProofs` holds for every set of runs and every number of cleans. The
assumptions are `NoneAssumption` (`None` is no run) and `MaxCleansAssumption`
(a natural number).

* `TypeCorrect`: `TypeOK`, including that an agent has a job exactly from its
  claim to its release. The Boolean variables and the others are two lemmas,
  because they suit different provers.
* `InductiveInvariant`: `IInv`. `AtMostOnce` by itself is not inductive: from
  `ran[r] = 1` with the request of `r` still in the directory, the next claim
  breaks it. `IInv` says where a job can be at each stage. `Undeposited`: before
  its deposit there is no trace of it. `Waiting`: a waiting request has not
  been executed, is not claimed, and is held by no agent. `SoleHolder`: no two
  agents hold one job. `Progress`: an agent's position says whether its job has
  been executed. `Executed`: results, markers and answers exist for executed
  jobs only. `Waiting` and `SoleHolder` are where the atomic rename of the claim
  is used, and `Undeposited` is where each run depositing once is.
* `JobsRunAtMostOnce` and `ResultsAreNeverWrong` follow from `IInv`.
* `MarkersFollowResults`: `MarkerAfterResult`, from `Published`: until an
  erasure, an agent at the marker has written its result, and a run removes the
  result only together with the marker.
* `PublishedResultsAreFinal`: from `Unmarked`: an agent that has yet to write
  the result of a job holds a job that has no marker, erasures included.
* `RendezvousImplementsContract`: each step of `Rendezvous` is a step of
  `JobContract` or a stutter, under `accepted` = the runs past their deposit,
  `executions` = `ran`, `answer` from `rpc`. `Execute` needs `Progress`,
  `Poll` needs `Executed`.

`AgentPushProofs` holds for every set of runs, number of chunks and number of
drops (`NoneAssumption`, `SizeAssumption`: a binary has at least one chunk).

* `PushInvariant`: `PushInv`. `SoloStartsWhole` is about what `path` names when an
  agent is launched, and the way there leads over `temp`. `Fresh` says that
  no name points to the inode of a run that has not opened its file yet, so that
  opening one never changes another; `Solo`, while no two runs have overlapped,
  that a writer has the inode under `temp`, that what is in it is what was sent,
  and that a rename comes after the last chunk.
* `PushTypeCorrect` and `SoloPushIsWhole` follow.

`ChannelProofs` holds for every set of runs and slots and every bound on
reconnections and failures (`RetriesAssumption`, `NoneAssumption`).

* `ChannelInvariant`: `ChannelInv`. `NoDescriptorLeft` is not inductive: if the
  connection being greeted were the one that is installed, `Install` and `drop()`
  would close the one they go on with. `Once` says that the connections in the
  backlog, the one being greeted and the one installed are different. That needs
  `Unconnected`, that a bridge process which has not connected yet is in none of
  these places, and this needs `Unused`, that the attempts a run has yet to make
  have no bridge process.
* `ChannelTypeCorrect`: `TypeOK`, with two facts of the mutex: the exchange under
  way is that of the ask that holds `mu`, and `ready` is closed exactly while
  a connection is installed. `NoDescriptorIsLost` is `NoDescriptorLeft`.

`OrchestratorProofs` holds for every inventory, every set of blocks and limits, and
every width (`InventoryAssumption`, `PlanAssumption`, `WidthAssumption`).

* `RunInvariant`: `RunInv`. `Survivors` is its heart: a host that has not been
  dropped has completed every block behind that asked for it. Between the end of
  a goroutine and the collection of its result this is not yet so, which is what
  `FleetOK` accounts for; `Contacts` says that nobody is dialed ahead of time,
  `Refused` that a run with an unknown name goes from its start to its end,
  `AtEnd` and `Counted` what a run that is over has behind it and whether it
  counted those it dropped. `WidthKept` counts the hosts in flight.
* `RunTypeCorrect`, `OnlySoundHostsAreDialed`, `TyposReachNobody` and
  `SuccessMeansComplete` follow.

`StepRunnerProofs` holds for every set of nodes and every set of plans that are
trees (`PlanAssumption`): no step is in two places, and none is inside itself,
however indirectly. A parsed plan is one.

* `RunnerInvariant`: `RunnerInv`. `ErrorsHaltOrAreCovered` speaks of the end of
  the job, and what carries an error there is `Errors`: at every moment an error has
  halted its sequence or is `Handled`, which looks at the step after it and at
  what that step will see when it decides; that nobody captures the name in between
  is what `Apart`, `InOrder` and `Scopes` give. `Begun`, `Stops` and `Closed` tie
  a step to the sequence its parent has chosen.
* `RunnerTypeCorrect`, `ResponsesFit`, `ErrorsHalt` and `BranchesStayIsolated`
  follow. `NothingIsBuiltOnErrors` is the action property `NothingOnBrokenBase`,
  from the same invariant.

`TreeSyncProofs` holds for every set of paths and shape of trees, and every number
of calls, edits and faults (`ShapeAssumption` to `BoundAssumption`).

* `SyncInvariant`: `SyncInv`. `Exchanged` ties the staging area and the terminator
  to the two listings; `Undisturbed`, while nobody else edits, the listings to the
  trees; `Committed` says how far a commit has come, which is not the destination
  as it was nor as it will be, but what lies between, path by path. `ForecastHolds`
  says that a preview is true of the trees as long as nobody touches them.
* `SyncTypeCorrect`, `OnlyTheDeltaIsCommitted`, `InterruptedIsHarmless`,
  `PreviewsAreKept` and `TransfersConverge` follow. For `TransfersConverge`,
  `Undisturbed` says of each staged file that it is the one of the source with the
  time `Stamp` gives it: that time differs from the source's for the epoch alone.

`DefEvalProofs` holds for every set of defs, of any form and with calls of any
depth, circles included, and every outcome of their shells (`NameAssumption`,
`DefAssumption`: a delegation has no phase but `check`, and an `apply` ends in an
unconditional return, both of which the parser asks for).

* `EvalInvariant`: `EvalInv`. `Calls`: the frames on the stack are of different defs,
  what is left of each is of its def and of the phases its stage evaluates, and
  the call under way is the last of the log. `Dry`: a dry run has changed nothing so
  far. `Told`: if a run has changed something so far, then a frame that will say so
  is on the stack, or the outcome being returned does; above a `check` there
  are only questions, which change nothing.
* `EvalTypeCorrect` follows. `DryRunsChangeNothing` and `UnchangedIsUntouched`
  have hypotheses on the defs, each a convention a document asks of who writes
  one and nothing enforces: `PhasesOnlyLook`, that a `check` and a `preview` hold no shell
  that acts (ADR-0013:62, ADR-0029:34), `ChecksOnlyAsk`, that a `check`, which reads,
  calls nothing but questions (ADR-0013:62), and `WouldIsDerived`, that no `apply`
  returns a `would` (language.md:23). `MCConventions` has TLC evaluate that the defs of the run
  keep these three and the two below, so that they are not empty. `PhasesOnlyLook` cannot be spared: the
  shell of a `check` runs under `--dry-run` as it is.
* `SecondRunChangesNothing` is `SecondRunIsNoOp`, of defs that keep `ChecksOnlyAsk` and
  `WouldIsDerived`. It compares two calls of one def, the first of which is no longer
  on the stack when the second begins, and the log has nothing of what the first one
  did in between. What stays of it is `Safe`, a property of a host and a def alone: a run
  of the def on that host meets nothing that would act. As long as it has not, what is
  next is determined (`Move`), but that a primitive which fails ends it sooner, and
  the `Walk` of a def is how far it has come. An apply that acted and succeeded has confirmed its
  `observe`, and one that had not acted was decided by it: at its end the host is one
  that the def's `observe` holds on (`LeadsToSafe`, `ConfirmedOK`). A later call of the def
  is on that walk until it acts (`Walked` of `RunInv`), which on a safe host
  it never does; that no other call is in between is `Alone`. `RunInvariant`: `RunInv`.
* `OkIsKept` is `OkForetellsNoChange`. A dry run and a status are followed by a run
  that does not take place: at every step of theirs there is a place `d` on the walk of
  the def that is like theirs, frame by frame (`Shadow`, `Alike`). A status looks at the checks
  alone, so that its phases are those of the run without the observes, none of which
  holds (`Stripped`); a dry run that tries an `apply` is where the run evaluates it, as
  long as nothing would have acted. It ends in one of two ways (`Foretelling`). Either
  the run has decided, or failed, and its walk is over: the def is `Safe` on this host,
  whatever the dry run still does. Or the dry run is `Doomed`: it has failed, has met what
  the run would do, or has begun its previews, and can only say something else than ok.
  At an ok the def is `Safe` (`OkKept` of `Foretold`), and `Walked` is
  about the run that comes after. `ForetoldInvariant`: `Foretold`. Two more hypotheses,
  which no document states, are needed here, because without them the property is
  false (see above): `AppliesOnce` and `CountsOnlyReturn`.

`LoadProofs` holds for every set of runs, specs and commits, every bound on
events, every project, plan, inventory and call graph. The assumptions are
`SpecialAssumption` (`None`, `Spoiled` and `Torn` are none of the values beside
which they stand), `StdAssumption` and `ValuesAssumption` (no value is `Undefined`;
`--vars` and `--set` give texts), `PlansAssumption` (a plan has imports, defs, bindings
and blocks, a block calls and loops: what `plan` and `blockBody` of parser.go accept),
`ProjectsAssumption`, `DefsAssumption`, `GraphsAssumption`, `SelfAssumption` and
`InputsAssumption` (the types of the other constants). `Inside` names the statements
that the blocks and loops of the plans hold, so that `PlansAssumption` can say of each
what is in it without a recursive definition.

* `LoadReadsImports` and `LoadSearchesCalls`: every behaviour of `Load` is one of
  `ModuleLock` (`LockSpec`) and one of `CallCycles` (`CycleSpec`), so that what is
  proved of these holds of a whole run.
* `LockInvariant`: `LockInv`, of four parts. `TypedPlaces` is `LockTypeOK` with
  what each position says: a run that is at an import has an import there, one
  that is about to clone or to read has settled on a commit, one that has not
  started has been given nothing. `ServedAsPinned` is then inductive by itself. `FromCache`: a run that was
  offline when it began has changed nothing, and what it has yet to import is in
  the cache as its lock has it; without it, nothing forbids that it gets to
  `ls-remote`. `OneByOne`, while `alone`: at most one run has begun and not ended,
  it has the file as it read it, up to its own save, and everything a run that is
  over was given is in the file, or in the lock of the one that is writing it.
* `LockTypeCorrect`, `ServedIsPinned`, `LockedRunsOffline` and `NamesAreStable` follow.
  `NamesAreStable` needs of two runs that are over that nobody is between the
  emptying and the writing of the file, or that the one who is has both in its lock.
* `CycleInvariant`: `CycleInv`. That nothing in `done` is on a circle is not
  inductive: `Return` adds a def whose callees might be anywhere. `RestOK` says
  that each callee of a def of the path is done, still to be walked, or the next of
  the path; `DoneOK` that what is done is closed under calls and holds no circle;
  `PathOK` that the path is one, starts at a def of the project, and on a verdict
  of a cycle ends at a def it has met before;
  `RootsOK` that a def of the project is still a root, done, or the bottom of the
  path.
* `CycleSearchIsExact`: what is let through is closed, contains the project's defs,
  hence all that is in reach, and holds no circle; the chain of a refusal is a path
  that ends where it has been before.
* `PlanInvariant`: `PlanInv`. A step that was read marks each `%` path whose text is
  known and keeps it as an argument that nothing replaces later (`MarksAssets`);
  once the arguments are judged the allow-list has all such paths (`AllServed`), and
  no step is read after that; what is sent is one of these steps, resolved
  (`SentFrom`). `AssetsAreServed` follows.
* `ReadInvariant`: `ReadInv`. What is left of a plan is what blocks and loops have put
  in front, then the plan from some statement on, and what is bound by then is bound by
  `--vars` or by a statement before that one (`TodoIs`, `BoundBefore`): without it,
  nothing forbids that a name bound once is bound again after a call has been read.
  Each argument of a step is a Ref, a Template or an Arg, and is in each case what its
  text came to (`ReadAs`). What is sent is a step resolved for its host, and accepted
  (`SentResolved`). It rests on what `FlattenSeq` makes of the pieces of a string
  (`FlattenTyped`, `FlattenSingles`): its recursion is a function, and a least
  counterexample takes the place of induction.
* `ArgumentsAreAsWritten` and `PassesJudgeAlike` follow: `ResolvedAsWritten`, because a
  text whose names are replaced and that waits for nothing means itself
  (`MeansItself`), and one that waits is expanded to what it means (`MeansExpanded`);
  `CallsAreJudgedAlike`, because the first pass looks only at values that no host
  changes (`RefusedCallIsWrong`, `RefusedStepIsWrong`).

### What is only model-checked

* Liveness under fairness (`Served`, `EveryAskEnds`, `SoleRunIsAnswered`,
  `HeldByHostsAlone`, `Ends`), which is beyond the prover.
* The statements that do not hold, by their counterexamples.

## What is not modelled

* In `Rendezvous`: authentication, host keys and the choice of an architecture
  (pure checks before the first step); the channel socket, whose rebinding by a
  second agent of the same workdir is not in `Channel` either; a request cut
  short by a dropped deposit (its run has ended; its answer is not read).
* In `Channel`: what an answer contains and the allow-list; the protocol
  version in the hello; tree transfers, which use the same connection for many
  messages; the TTL of the agent; a peer that stays silent without ending.
* In `Orchestrator`: how variables resolve (only whether), the contents of
  results, the layout of the report.
* In `StepRunner`: what an instruction does to its host; users, interpreters and
  the environment of a step; the results of nested steps in the report; the
  parser's own refusals, beyond which the plans of a run must not go.
* In `DefEval`: arguments and variables, kinds of values and interpolation; who a
  shell runs as; what a preview prints; primitives that only read; shells that
  change the host from a `check`, an `observe` or a `preview`, which ADR-0013
  forbids by convention and nothing enforces; the verbose listing of commands.
* In `TreeSync`: transfers of parallel branches onto one destination; the
  temporary file beside each destination; a source file that changes while it
  is read; modes and owners; that a call ends (it takes at most two attempts by
  its form).
* In `ModuleLock`: a cache directory that another run is renaming into place while
  the sources are read (the rename is atomic); git's own failures beyond "no such
  tag" and "no answer"; hashes of different contents that agree.
* In `PlanValues`: captures and the conditions that test them, shells of a plan (their
  text is not interpolated; their environment is `Env`), `as`, `parallel` and `if`
  but for the place of a call in them, since every pass walks them alike; defaults of
  parameters; the grammar of defs, the shell detector, secrets as a source of their
  own (they are `--set`); the refusals of a malformed `${...}`; variables files that
  refer to themselves.
* In `CallCycles`: what `Callees` finds in the text of a def.
* Components with no module are listed with their reason in `PROJECT.json`.

## Plan

1. `TreeSync` with two transfers at a time, and a run for
   `FailedLeavesDestination`.
2. The layering of `shellf.conf`, and `Callees` over the syntax of defs.

`orchestrator_silent` is the run that makes room for a new one: what halts a
job silently could be shown in `StepRunner`, on the response itself.
