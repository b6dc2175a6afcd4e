----------------------------- MODULE AgentPush -----------------------------
(***************************************************************************)
(* The cached agent binary of one target, shared by the runs of one user   *)
(* and one build: agentState, push and the launch of SSH.Run               *)
(* (src/internal/transport/ssh.go).  Rendezvous takes the binary as there  *)
(* or not there; this module opens that step.                              *)
(*                                                                         *)
(* push runs `cat > T && chmod 700 T && mv T P` on the target with the     *)
(* binary on its standard input.  T is the same name for every run.  A     *)
(* file is an inode, named by the run that created it; its content is the  *)
(* set of chunks written since it was last truncated.                      *)
(*                                                                         *)
(* External: what a shell and sshd do when a session drops.  The remote    *)
(* command is not signalled, it reads the end of its input; or it is       *)
(* killed with the connection.  Both are modelled.                         *)
(***************************************************************************)
EXTENDS Naturals

CONSTANTS
  Runs,     \* the calls of SSH.Run
  None,     \* no file
  Size,     \* the chunks of the binary
  MaxDrops  \* bound: dropped sessions

ASSUME NoneAssumption == None \notin Runs
ASSUME SizeAssumption == Size \in Nat \ {0} /\ MaxDrops \in Nat

VARIABLES
  pc,       \* pc[r]: where SSH.Run of r stands
  file,     \* file[r]: the inode the `cat` of r has open
  pos,      \* pos[r]: the chunks r has sent
  content,  \* content[i]: the chunks in inode i
  temp,     \* the inode named P.tmp
  path,     \* the inode named P
  started,  \* history: started[r]: what the launch of r executed
  drops,    \* how many sessions have dropped
  overlap   \* history: two runs have been between probe and end at once

sent == <<file, pos>>
names == <<temp, path>>
vars == <<pc, sent, content, names, started, drops, overlap>>

Whole == 1 .. Size
Steps == {"idle", "probe", "open", "write", "rename", "launch", "ended"}
Active == {r \in Runs : pc[r] \notin {"idle", "ended"}}

Init ==
  /\ pc = [r \in Runs |-> "idle"]
  /\ file = [r \in Runs |-> None]
  /\ pos = [r \in Runs |-> 0]
  /\ content = [r \in Runs |-> {}]
  /\ temp = None
  /\ path = None
  /\ started = [r \in Runs |-> Whole]
  /\ drops = 0
  /\ overlap = FALSE

Transition(r, from, to) ==
  /\ pc[r] = from
  /\ pc' = [pc EXCEPT ![r] = to]

Begin(r) ==
  /\ Transition(r, "idle", "probe")
  /\ overlap' = (overlap \/ Active # {})
  /\ UNCHANGED <<sent, content, names, started, drops>>

(* Slip: `test -x` instead of the digest.                                  *)
Slip_ProbeExists(r) ==
  /\ Transition(r, "probe", IF path # None THEN "launch" ELSE "open")
  /\ UNCHANGED <<sent, content, names, started, drops, overlap>>

(* agentState: absent and stale bytes are pushed, our own bytes are not.   *)
Probe(r) ==
  /\ Transition(r, "probe",
       IF path # None /\ content[path] = Whole THEN "launch" ELSE "open")
  /\ UNCHANGED <<sent, content, names, started, drops, overlap>>

(* The redirection truncates the file of that name, whoever is writing it. *)
Open(r) ==
  /\ Transition(r, "open", "write")
  /\ LET i == IF temp = None THEN r ELSE temp IN
       /\ temp' = i
       /\ file' = [file EXCEPT ![r] = i]
       /\ content' = [content EXCEPT ![i] = {}]
  /\ pos' = [pos EXCEPT ![r] = 0]
  /\ UNCHANGED <<path, started, drops, overlap>>

Write(r) ==
  /\ pc[r] = "write"
  /\ pos[r] < Size
  /\ pos' = [pos EXCEPT ![r] = @ + 1]
  /\ content' = [content EXCEPT ![file[r]] = @ \cup {pos[r] + 1}]
  /\ UNCHANGED <<pc, file, names, started, drops, overlap>>

CatEnds(r) ==
  /\ pos[r] = Size
  /\ Transition(r, "write", "rename")
  /\ UNCHANGED <<sent, content, names, started, drops, overlap>>

(* Slip: `cp` instead of `mv`.                                             *)
Slip_RenameCopies(r) ==
  /\ temp # None
  /\ Transition(r, "rename", "launch")
  /\ path' = temp
  /\ UNCHANGED <<sent, content, temp, started, drops, overlap>>

(* chmod and mv, one process after the other by name.                      *)
Rename(r) ==
  /\ temp # None
  /\ Transition(r, "rename", "launch")
  /\ path' = temp
  /\ temp' = None
  /\ UNCHANGED <<sent, content, started, drops, overlap>>

(* Another run has renamed it: the push fails, and Run with it.            *)
RenameFails(r) ==
  /\ temp = None
  /\ Transition(r, "rename", "ended")
  /\ UNCHANGED <<sent, content, names, started, drops, overlap>>

(* Run goes on without looking at the file again.  What is not whole does  *)
(* not start, or does not run.                                             *)
Launch(r) ==
  /\ path # None
  /\ Transition(r, "launch", "ended")
  /\ started' = [started EXCEPT ![r] = content[path]]
  /\ UNCHANGED <<sent, content, names, drops, overlap>>

(* The session drops while the binary is being sent: `cat` sees the end of *)
(* its input and the rest of the command runs, or all of it dies.  The run *)
(* returns an error either way.                                            *)
Drop(r) ==
  /\ drops < MaxDrops
  /\ Transition(r, "write", "ended")
  /\ drops' = drops + 1
  /\ \/ temp # None /\ path' = temp /\ temp' = None
     \/ UNCHANGED names
  /\ UNCHANGED <<sent, content, started, overlap>>

AllEnded == Active = {} /\ (\A r \in Runs : pc[r] = "ended") /\ UNCHANGED vars

Step(r) ==
  \/ Begin(r) \/ Probe(r) \/ Open(r) \/ Write(r) \/ CatEnds(r) \/ Rename(r)
  \/ RenameFails(r) \/ Launch(r)

Next == (\E r \in Runs : Step(r) \/ Drop(r)) \/ AllEnded

Spec == Init /\ [][Next]_vars

-----------------------------------------------------------------------------
TypeOK ==
  /\ pc \in [Runs -> Steps]
  /\ file \in [Runs -> Runs \cup {None}]
  /\ pos \in [Runs -> 0 .. Size]
  /\ content \in [Runs -> SUBSET Whole]
  /\ temp \in Runs \cup {None}
  /\ path \in Runs \cup {None}
  /\ started \in [Runs -> SUBSET Whole]
  /\ drops \in 0 .. MaxDrops
  /\ overlap \in BOOLEAN
  /\ temp = None \/ temp # path

(* The digest of agentState heals an interrupted push: as long as runs do  *)
(* not overlap, whatever sessions dropped before, an agent is only started *)
(* from the whole binary (ssh.go:521-523).                                 *)
SoloStartsWhole == ~overlap => \A r \in Runs : started[r] = Whole

(* "an interrupted push never leaves a partial binary, and a concurrent    *)
(* run sees either the old file or none" (ssh.go:723-725).                 *)
PathNeverPartial == path # None => content[path] = Whole
=============================================================================
