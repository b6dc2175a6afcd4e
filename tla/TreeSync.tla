------------------------------ MODULE TreeSync ------------------------------
(***************************************************************************)
(* The transfer of a tree from the control host to one destination:        *)
(* agent.Channel.sync and streamOnce (src/internal/agent/sync.go), the     *)
(* escalated child (syncchild.go, escalate.go) and serveSync of the        *)
(* control host (src/internal/orchestrator/sync.go).                       *)
(*                                                                         *)
(* Calls follow one another: a copy, a sync that deletes, or a preview,    *)
(* each comparing by metadata or by digest.  Meanwhile somebody may edit   *)
(* the source, somebody else the destination.                              *)
(*                                                                         *)
(* Abstractions.  A tree has two levels.  A file is its data and its time; *)
(* it is read, staged and placed in one step each, and its mode travels    *)
(* with it.  Sending and receiving a message are one step, as nothing      *)
(* comes between them; what an exchange that was broken off leaves in the  *)
(* connection is kept.  The order in which paths are sent, removed and     *)
(* placed is left open.  A link inside the destination leads out of it.  A *)
(* scan sees the destination at one moment.                                *)
(***************************************************************************)
EXTENDS Naturals, FiniteSets

CONSTANTS
  Paths,    \* the relative paths there can be
  Parent,   \* Parent[p]: the directory of p, or Root
  Root,     \* the destination itself
  Data,     \* contents of files
  SizeOf,   \* SizeOf[d]: their sizes
  Times,    \* modification times
  Epoch,    \* the time 0, which in a message means none
  Now,      \* the time a file has that was just written
  Absent, Dir, Link,  \* what a path can be besides a file
  Nothing,  \* no message, no forecast
  StartSources, StartTargets, \* bound: the trees there are at first
  MaxCalls, \* bound: transfers and previews
  MaxEdits, \* bound: changes somebody else makes to either tree
  MaxFaults \* bound: dropped sessions, failing files and processes

Files == [data : Data, mtime : Times]
Dirs == {Parent[p] : p \in Paths} \ {Root}
TreesOf(nodes) ==
  {t \in [Paths -> nodes] : \A p \in Paths :
     /\ t[p] = Dir => p \in Dirs
     /\ t[p] # Absent => Parent[p] = Root \/ t[Parent[p]] = Dir}
Sources == TreesOf(Files \cup {Absent, Dir})
Targets == TreesOf(Files \cup {Absent, Dir, Link})

ASSUME ShapeAssumption ==
  /\ Root \notin Paths
  /\ Parent \in [Paths -> Paths \cup {Root}]
  /\ \A d \in Dirs : Parent[d] = Root
ASSUME PathsAssumption == IsFiniteSet(Paths)
ASSUME NodeAssumption ==
  /\ Absent # Dir /\ Absent # Link /\ Dir # Link
  /\ {Absent, Dir, Link} \cap Files = {}
ASSUME DataAssumption == SizeOf \in [Data -> Nat]
ASSUME TimeAssumption == Now \in Times /\ Epoch \in Times
ASSUME StartAssumption ==
  StartSources \subseteq Sources /\ StartTargets \subseteq Targets
ASSUME BoundAssumption ==
  MaxCalls \in Nat /\ MaxEdits \in Nat /\ MaxFaults \in Nat

Calls ==
  {c \in [preview : BOOLEAN, del : BOOLEAN, compare : {"meta", "sha256"}] :
     c.preview => ~c.del}

VARIABLES
  src,      \* the tree on the control host
  dst,      \* the tree on the target
  pc,       \* where Channel.sync stands
  call,     \* its arguments
  tries,    \* the exchanges it has begun
  have,     \* the manifest it sent
  want,     \* the source as serveSync listed it
  todo,     \* the files serveSync has yet to send
  staged,   \* the staging tree
  extras,   \* the extras of the terminator
  sent,     \* the count of the terminator
  left,     \* what the commit has yet to remove or place
  residue,  \* the terminator of an exchange that was broken off
  count,    \* calls, edits and faults so far (bounded)
  before,   \* history: the destination when the call began
  quiet,    \* history: nobody edited either tree since the call began
  ended,    \* history: the terminator of this call has arrived
  forecast  \* history: what a preview answered, both trees unchanged since

exchange == <<have, want, todo, extras, sent>>
history == <<before, quiet, ended, forecast>>
vars == <<src, dst, pc, call, tries, exchange, staged, left, residue, count,
          history>>

NoFiles == [p \in Paths |-> Absent]
Staged == {p \in Paths : staged[p] # Absent}
Children(d) == {p \in Paths : Parent[p] = d}

(* scanTarget: directories are not listed, and links not followed.         *)
Manifest(tree) ==
  [p \in Paths |-> IF tree[p] = Dir THEN Absent ELSE tree[p]]

(* same(): a link is never the same as a file.                             *)
Same(entry, file, compare) ==
  /\ entry \in Files
  /\ IF compare = "sha256"
       THEN entry.data = file.data
       ELSE /\ SizeOf[entry.data] = SizeOf[file.data]
            /\ entry.mtime = file.mtime

Delta(manifest, tree, compare) ==
  {p \in Paths : tree[p] \in Files /\ ~Same(manifest[p], tree[p], compare)}
Extras(manifest, tree) ==
  {p \in Paths : manifest[p] # Absent /\ tree[p] \notin Files}

Init ==
  /\ src \in StartSources
  /\ dst \in StartTargets
  /\ pc = "idle"
  /\ call \in {c \in Calls : c.preview /\ c.compare = "meta"}
  /\ tries = 0
  /\ have = NoFiles
  /\ want = NoFiles
  /\ todo = {}
  /\ extras = {}
  /\ sent = 0
  /\ staged = NoFiles
  /\ left = {}
  /\ residue = Nothing
  /\ count = [calls |-> 0, edits |-> 0, faults |-> 0]
  /\ before = dst
  /\ quiet = TRUE
  /\ ended = FALSE
  /\ forecast = Nothing

Transition(from, to) == pc = from /\ pc' = to
Counts(what, bound) ==
  /\ count[what] < bound
  /\ count' = [count EXCEPT ![what] = @ + 1]
Fails == pc' = "failed" /\ UNCHANGED <<left, ended, forecast>>
Fault == Counts("faults", MaxFaults)

-----------------------------------------------------------------------------
(* Channel.sync, up to the terminator.                                     *)

Call(c) ==
  /\ pc \in {"idle", "ok", "failed"}
  /\ pc' = "scan"
  /\ call' = c
  /\ tries' = 0
  /\ have' = NoFiles
  /\ want' = NoFiles
  /\ todo' = {}
  /\ extras' = {}
  /\ sent' = 0
  /\ staged' = NoFiles
  /\ left' = {}
  /\ before' = dst
  /\ quiet' = TRUE
  /\ ended' = FALSE
  /\ Counts("calls", MaxCalls)
  /\ UNCHANGED <<src, dst, residue, forecast>>

(* Slip: the files of the first attempt stay in the staging area.          *)
Slip_ScanKeepsStaging ==
  /\ Transition("scan", "ask")
  /\ have' = Manifest(dst)
  /\ UNCHANGED <<src, dst, call, tries, want, todo, extras, sent, staged, left,
                 residue, count, history>>

(* scanThrough, and before a second attempt the staging area is emptied.   *)
Scan ==
  /\ Transition("scan", "ask")
  /\ have' = Manifest(dst)
  /\ staged' = NoFiles
  /\ UNCHANGED <<src, dst, call, tries, want, todo, extras, sent, left,
                 residue, count, history>>

(* The ask is sent; serveSync lists its source and finds what differs.     *)
Ask ==
  /\ Transition("ask", "stream")
  /\ tries' = tries + 1
  /\ want' = src
  /\ todo' = IF call.preview THEN {} ELSE Delta(have, src, call.compare)
  /\ UNCHANGED <<src, dst, call, have, extras, sent, staged, left, residue,
                 count, history>>

(* Messages of another exchange are skipped.                               *)
SkipResidue ==
  /\ residue # Nothing
  /\ pc = "stream"
  /\ residue' = Nothing
  /\ UNCHANGED <<src, dst, pc, call, tries, exchange, staged, left, count,
                 history>>

(* stagedFile.commit: the time that was listed, unless it is the epoch: the *)
(* file then keeps the time at which it was written.                       *)
Stamp(mtime) == IF mtime = Epoch THEN Now ELSE mtime

(* One file: the data it has now, the time it had when it was listed.      *)
Deliver(p) ==
  /\ pc = "stream" /\ residue = Nothing
  /\ p \in todo
  /\ src[p] \in Files
  /\ staged' = [staged EXCEPT ![p] =
                  [data |-> src[p].data, mtime |-> Stamp(want[p].mtime)]]
  /\ todo' = todo \ {p}
  /\ UNCHANGED <<src, dst, pc, call, tries, have, want, extras, sent, left,
                 residue, count, history>>

(* Slip: files are counted where they are sent, and a preview sends none.  *)
Slip_TerminatorCountsSent ==
  [sent |-> IF call.preview
              THEN 0 ELSE Cardinality(Delta(have, want, call.compare)),
   extras |-> Extras(have, want)]

(* What serveSync has computed, and sends whether or not anybody reads it. *)
Terminator ==
  [sent |-> Cardinality(Delta(have, want, call.compare)),
   extras |-> Extras(have, want)]

(* The agent stops reading: a file vanished between its listing and its    *)
(* sending, or staging it fails.  serveSync goes on to its terminator.     *)
BreaksOff ==
  /\ pc = "stream" /\ residue = Nothing
  /\ Fails
  /\ residue' = Terminator
  /\ UNCHANGED <<src, dst, call, tries, exchange, staged, before, quiet>>

Vanished(p) ==
  /\ p \in todo
  /\ src[p] \notin Files
  /\ BreaksOff
  /\ UNCHANGED count

StagingFails == todo # {} /\ BreaksOff /\ Fault

(* The source cannot be listed, the destination cannot be scanned, nobody  *)
(* attaches, the plan did not declare the resource.                        *)
RefusedEarly ==
  /\ pc \in {"scan", "ask"}
  /\ Fails
  /\ Fault
  /\ UNCHANGED <<src, dst, call, tries, exchange, staged, residue, before,
                 quiet>>

(* Slip: a stream that ends without its terminator counts as a whole one.  *)
Slip_DropTerminates ==
  /\ Transition("stream", "terminated")
  /\ residue' = Nothing
  /\ Fault
  /\ UNCHANGED <<src, dst, call, tries, exchange, staged, left, history>>

(* The connection is lost: one more attempt, from a new manifest.          *)
Drop ==
  /\ pc = "stream"
  /\ IF tries = 1
       THEN pc' = "scan" /\ UNCHANGED <<left, ended, forecast>>
       ELSE Fails
  /\ residue' = Nothing
  /\ Fault
  /\ UNCHANGED <<src, dst, call, tries, exchange, staged, before, quiet>>

Done ==
  /\ residue = Nothing /\ todo = {}
  /\ Transition("stream", "terminated")
  /\ sent' = Terminator.sent
  /\ extras' = Terminator.extras
  /\ ended' = TRUE
  /\ UNCHANGED <<src, dst, call, tries, have, want, todo, staged, left,
                 residue, count, before, quiet, forecast>>

(* A preview is over: nothing was staged, nothing is committed.            *)
Foretell ==
  /\ call.preview
  /\ Transition("terminated", "ok")
  /\ forecast' = IF quiet
       THEN [sent |-> sent, extras |-> extras, compare |-> call.compare]
       ELSE Nothing
  /\ UNCHANGED <<src, dst, call, tries, exchange, staged, left, residue, count,
                 before, quiet, ended>>

-----------------------------------------------------------------------------
(* SyncCommit, in the escalated child: removals first, then placements.    *)

Commit ==
  /\ ~call.preview
  /\ Transition("terminated", "remove")
  /\ left' = IF call.del THEN extras ELSE {}
  /\ UNCHANGED <<src, dst, call, tries, exchange, staged, residue, count,
                 history>>

(* What is there now is removed, whatever the scan saw: a file, a link, an *)
(* empty directory.  What is gone is not missed.                           *)
Reachable(p) == Parent[p] # Root => dst[Parent[p]] \in {Dir, Absent}
Removable(p) ==
  /\ Reachable(p)
  /\ \A q \in Children(p) : dst[q] = Absent

Remove(p) ==
  /\ pc = "remove" /\ p \in left
  /\ Removable(p)
  /\ dst' = [dst EXCEPT ![p] = Absent]
  /\ left' = left \ {p}
  /\ forecast' = Nothing
  /\ UNCHANGED <<src, pc, call, tries, exchange, staged, residue, count,
                 before, quiet, ended>>

RemoveRefused(p) ==
  /\ pc = "remove" /\ p \in left
  /\ ~Removable(p)
  /\ Fails
  /\ UNCHANGED <<src, dst, call, tries, exchange, staged, residue, count,
                 before, quiet>>

StartPlacing ==
  /\ left = {}
  /\ Transition("remove", "place")
  /\ left' = Staged
  /\ UNCHANGED <<src, dst, call, tries, exchange, staged, residue, count,
                 history>>

(* placeStaged: not through a link out of the destination (staysInside),   *)
(* not below a file, not over a directory.  A file lands with the time it  *)
(* has in the staging area.                                                *)
Placeable(p) == Reachable(p) /\ dst[p] # Dir

WithDir(p) ==
  IF Parent[p] = Root THEN dst ELSE [dst EXCEPT ![Parent[p]] = Dir]

(* Slips: the directory is not made; the time of the staged file is lost.   *)
Slip_PlaceNoDir(p) ==
  /\ pc = "place" /\ p \in left
  /\ Placeable(p)
  /\ dst' = [dst EXCEPT ![p] = staged[p]]
  /\ left' = left \ {p}
  /\ forecast' = Nothing
  /\ UNCHANGED <<src, pc, call, tries, exchange, staged, residue, count,
                 before, quiet, ended>>

Slip_PlaceUnstamped(p) ==
  /\ pc = "place" /\ p \in left
  /\ Placeable(p)
  /\ dst' = [WithDir(p) EXCEPT ![p] = [staged[p] EXCEPT !.mtime = Now]]
  /\ left' = left \ {p}
  /\ forecast' = Nothing
  /\ UNCHANGED <<src, pc, call, tries, exchange, staged, residue, count,
                 before, quiet, ended>>

Place(p) ==
  /\ pc = "place" /\ p \in left
  /\ Placeable(p)
  /\ dst' = [WithDir(p) EXCEPT ![p] = staged[p]]
  /\ left' = left \ {p}
  /\ forecast' = Nothing
  /\ UNCHANGED <<src, pc, call, tries, exchange, staged, residue, count,
                 before, quiet, ended>>

PlaceRefused(p) ==
  /\ pc = "place" /\ p \in left
  /\ ~Placeable(p)
  /\ Fails
  /\ UNCHANGED <<src, dst, call, tries, exchange, staged, residue, count,
                 before, quiet>>

(* The child fails or is killed while placing p: before it did anything,   *)
(* after making the directory, or after the rename and before the time was *)
(* applied.                                                                *)
PlaceBreaks(p) ==
  /\ pc = "place" /\ p \in left
  /\ Placeable(p)
  /\ dst' \in {dst, WithDir(p),
               [WithDir(p) EXCEPT ![p] = [staged[p] EXCEPT !.mtime = Now]]}
  /\ pc' = "failed"
  /\ forecast' = Nothing
  /\ Fault
  /\ UNCHANGED <<src, call, tries, exchange, staged, left, residue, before,
                 quiet, ended>>

(* The child is refused, or fails or is killed before it places anything.  *)
CommitBreaks ==
  /\ pc = "remove"
  /\ Fails
  /\ Fault
  /\ UNCHANGED <<src, dst, call, tries, exchange, staged, residue, before,
                 quiet>>

(* The count of files placed must be the terminator's.                     *)
Finish ==
  /\ left = {}
  /\ Transition("place", IF Cardinality(Staged) = sent THEN "ok" ELSE "failed")
  /\ UNCHANGED <<src, dst, call, tries, exchange, staged, left, residue, count,
                 history>>

-----------------------------------------------------------------------------
(* Somebody else changes one path of a tree, and what is below it goes.    *)
Changed(tree, p, node) ==
  [q \in Paths |->
     IF q = p THEN node
     ELSE IF q \in Children(p) /\ node # Dir THEN Absent ELSE tree[q]]

EditSource(p, node) ==
  /\ src' = Changed(src, p, node)
  /\ src' # src /\ src' \in Sources
  /\ Counts("edits", MaxEdits)
  /\ quiet' = FALSE
  /\ forecast' = Nothing
  /\ UNCHANGED <<dst, pc, call, tries, exchange, staged, left, residue, before,
                 ended>>

EditTarget(p, node) ==
  /\ dst' = Changed(dst, p, node)
  /\ dst' # dst /\ dst' \in Targets
  /\ Counts("edits", MaxEdits)
  /\ quiet' = FALSE
  /\ forecast' = Nothing
  /\ UNCHANGED <<src, pc, call, tries, exchange, staged, left, residue, before,
                 ended>>

Edit ==
  \E p \in Paths, node \in Files \cup {Absent, Dir, Link} :
    EditSource(p, node) \/ EditTarget(p, node)

Exchange ==
  \/ Scan \/ Ask \/ SkipResidue \/ Done \/ Foretell
  \/ \E p \in Paths : Deliver(p) \/ Vanished(p)

Committing ==
  \/ Commit \/ StartPlacing \/ Finish
  \/ \E p \in Paths : \/ Remove(p) \/ RemoveRefused(p)
                      \/ Place(p) \/ PlaceRefused(p)

Breaks ==
  \/ StagingFails \/ RefusedEarly \/ Drop \/ CommitBreaks
  \/ \E p \in Paths : PlaceBreaks(p)

Idle == pc \in {"idle", "ok", "failed"} /\ UNCHANGED vars

Next ==
  (\E c \in Calls : Call(c)) \/ Exchange \/ Committing \/ Breaks \/ Edit \/ Idle

Spec == Init /\ [][Next]_vars

-----------------------------------------------------------------------------
TypeOK ==
  /\ src \in Sources
  /\ dst \in Targets
  /\ pc \in {"idle", "scan", "ask", "stream", "terminated", "remove", "place",
             "ok", "failed"}
  /\ call \in Calls
  /\ tries \in 0 .. 2
  /\ have \in [Paths -> Files \cup {Absent, Link}]
  /\ want \in Sources
  /\ todo \subseteq Paths
  /\ staged \in [Paths -> Files \cup {Absent}]
  /\ extras \subseteq Paths
  /\ sent \in 0 .. Cardinality(Paths)
  /\ left \subseteq Paths
  /\ before \in Targets
  /\ quiet \in BOOLEAN
  /\ ended \in BOOLEAN

(* Only what the terminated exchange delivered is committed, all of it and *)
(* nothing of an earlier attempt or of an exchange that was broken off     *)
(* (sync.go:80-94, 248, 285-289).                                          *)
StagedIsDelta ==
  pc \in {"remove", "place"} =>
    Staged = Delta(have, want, call.compare) /\ Cardinality(Staged) = sent

(* What a transfer nobody interfered with reports as done is done: all     *)
(* that a second run would find to send are files dated at the epoch,      *)
(* under `meta`, and these are there with the data of the source, stamped  *)
(* with the time they were written (sync.go:369).  After a sync nothing is *)
(* left to remove (ADR-0039, section 1).  What failed calls left behind,   *)
(* the next one that succeeds repairs.  "A copy is a sync that deletes     *)
(* nothing" (std/dir/dir.shellf:102).                                      *)
Converges ==
  pc = "ok" /\ quiet /\ ~call.preview =>
    /\ \A p \in Delta(Manifest(dst), src, call.compare) :
         /\ call.compare = "meta" /\ src[p].mtime = Epoch
         /\ dst[p] = [src[p] EXCEPT !.mtime = Now]
    /\ call.del => Extras(Manifest(dst), src) = {}
    /\ ~call.del =>
         \A p \in Paths :
           before[p] # Absent /\ src[p] \notin Files => dst[p] = before[p]

(* "an interrupted transfer leaves the destination exactly as it was"      *)
(* (sync.go:214): also when it was interrupted in its second attempt.      *)
InterruptedLeavesDestination == quiet /\ ~ended => dst = before

(* "--dry-run names what it would remove ... before removing anything"     *)
(* (language.md:556): what a preview announced is what the next transfer   *)
(* does, as long as neither tree has changed.                              *)
PreviewIsKept ==
  /\ ended /\ quiet /\ forecast # Nothing
  /\ pc \in {"terminated", "remove"}
  /\ call.compare = forecast.compare
  => sent = forecast.sent /\ extras = forecast.extras

-----------------------------------------------------------------------------
(* "a failed transfer leaves the destination as it was, plus nothing"      *)
(* (ADR-0039, section 3).                                                  *)
FailedLeavesDestination == quiet /\ pc = "failed" => dst = before

(* "zero bytes on a second run" (ADR-0039, section 1): a file stamped with *)
(* its own write time "would be re-sent on every run" (sync.go:366-368).   *)
SecondRunSendsNothing ==
  pc = "ok" /\ quiet /\ ~call.preview =>
    Delta(Manifest(dst), src, call.compare) = {}
=============================================================================
