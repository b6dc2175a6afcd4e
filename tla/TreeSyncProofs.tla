--------------------------- MODULE TreeSyncProofs ---------------------------
(***************************************************************************)
(* The transfer of any tree onto any other, over any number of calls,      *)
(* edits and faults: what is committed is what was listed, what was not    *)
(* committed has changed nothing, and what succeeds has converged.         *)
(***************************************************************************)
EXTENDS TreeSync, FiniteSetTheorems, TLAPS

(* What a commit removes, and what it finds when it begins to place.       *)
Removals == IF call.del THEN extras ELSE {}
Cleared == [p \in Paths |-> IF p \in Removals THEN Absent ELSE before[p]]

Differing == Delta(have, want, call.compare)

(* What a file of the source becomes on its way.                           *)
Stamped(file) == [data |-> file.data, mtime |-> Stamp(file.mtime)]

Listing == {"stream", "terminated", "remove", "place", "ok"}
Terminated == {"terminated", "remove", "place", "ok"}

(* The staging area holds what has been delivered, and the terminator says *)
(* what was computed from the two listings.                                *)
Exchanged ==
  /\ pc = "ask" => staged = NoFiles
  /\ pc = "stream" => /\ todo \subseteq Differing
                      /\ ~call.preview => Staged = Differing \ todo
  /\ pc \in Terminated /\ ~call.preview => Staged = Differing
  /\ pc \in {"remove", "place"} => ~call.preview
  /\ pc = "place" => left \subseteq Staged
  /\ pc \in {"scan", "ask"} => tries <= 1
  /\ pc \in Terminated =>
       sent = Cardinality(Differing) /\ extras = Extras(have, want)

(* The terminator comes before the commit.                                 *)
Ended ==
  /\ pc \in Terminated => ended
  /\ pc \in {"scan", "ask", "stream"} => ~ended

(* While nobody else edits, both listings are still true of what was there *)
(* when the call began, and the destination is as it was until the commit. *)
Undisturbed ==
  quiet =>
    /\ pc \in Listing \cup {"ask"} => have = Manifest(before)
    /\ pc \in Listing => /\ want = src
                         /\ \A p \in Staged : staged[p] = Stamped(want[p])
    /\ ~ended \/ forecast # Nothing \/ pc = "terminated" => dst = before

(* A forecast is true of the two trees as they are now.                    *)
ForecastHolds ==
  forecast # Nothing =>
    /\ forecast.sent = Cardinality(Delta(Manifest(dst), src, forecast.compare))
    /\ forecast.extras = Extras(Manifest(dst), src)

(* How far the commit has come.  What is placed turns the directories it   *)
(* needs from nothing into directories, and touches nothing else.          *)
Removed ==
  /\ left \subseteq Removals
  /\ \A p \in Paths : dst[p] = IF p \in left THEN before[p] ELSE Cleared[p]

Placed ==
  /\ left \subseteq Differing
  /\ \A p \in Paths :
       IF p \in Differing \ left THEN dst[p] = staged[p]
       ELSE \/ dst[p] = Cleared[p]
            \/ /\ dst[p] = Dir /\ Cleared[p] = Absent
               /\ \E q \in Differing : Parent[q] = p

Committed ==
  quiet /\ ~call.preview =>
    /\ pc = "remove" => Removed
    /\ pc \in {"place", "ok"} => Placed
    /\ pc = "ok" => left = {}

SyncInv ==
  TypeOK /\ Exchanged /\ Ended /\ Undisturbed /\ ForecastHolds /\ Committed

-----------------------------------------------------------------------------
(* Trees keep their shape.                                                 *)
Shaped(t) ==
  \A p \in Paths : /\ t[p] = Dir => p \in Dirs
                   /\ t[p] # Absent => Parent[p] = Root \/ t[Parent[p]] = Dir

LEMMA TargetIsShaped ==
  ASSUME NEW t
  PROVE  t \in Targets <=> t \in [Paths -> Files \cup {Absent, Dir, Link}] /\ Shaped(t)
BY DEF Targets, TreesOf, Shaped

LEMMA SourceIsShaped ==
  ASSUME NEW t
  PROVE  t \in Sources <=> t \in [Paths -> Files \cup {Absent, Dir}] /\ Shaped(t)
BY DEF Sources, TreesOf, Shaped

LEMMA ParentsOK ==
  ASSUME NEW p \in Paths
  PROVE  /\ Parent[p] = Root \/ Parent[p] \in Paths
         /\ Parent[p] # Root => Parent[p] \in Dirs /\ Parent[Parent[p]] = Root
         /\ Parent[p] # p
<1>1. Parent[p] = Root \/ Parent[p] \in Paths
  BY ShapeAssumption
<1>2. Parent[p] # Root => Parent[p] \in Dirs /\ Parent[Parent[p]] = Root
  BY ShapeAssumption DEF Dirs
<1> QED BY <1>1, <1>2, ShapeAssumption

LEMMA RemoveShape ==
  ASSUME dst \in Targets, NEW p \in Paths, Removable(p)
  PROVE  [dst EXCEPT ![p] = Absent] \in Targets
<1> DEFINE new == [dst EXCEPT ![p] = Absent]
<1>1. dst \in [Paths -> Files \cup {Absent, Dir, Link}] /\ Shaped(dst)
  BY TargetIsShaped
<1>2. new \in [Paths -> Files \cup {Absent, Dir, Link}]
  BY <1>1
<1>3. Shaped(new)
  BY <1>1, ParentsOK, NodeAssumption DEF Shaped, Removable, Children
<1> QED BY <1>2, <1>3, TargetIsShaped

LEMMA PlaceShape ==
  ASSUME dst \in Targets, NEW p \in Paths, Placeable(p), NEW f \in Files
  PROVE  WithDir(p) \in Targets /\ [WithDir(p) EXCEPT ![p] = f] \in Targets
<1>1. dst \in [Paths -> Files \cup {Absent, Dir, Link}] /\ Shaped(dst)
  BY TargetIsShaped
<1>2. WithDir(p) \in [Paths -> Files \cup {Absent, Dir, Link}]
  BY <1>1, ParentsOK DEF WithDir
<1>3. Shaped(WithDir(p))
  <2>1. CASE Parent[p] = Root
    BY <1>1, <2>1 DEF WithDir
  <2>2. CASE Parent[p] # Root
    BY <1>1, <2>2, ParentsOK, NodeAssumption DEF WithDir, Shaped
  <2> QED BY <2>1, <2>2
<1>4. \A q \in Paths : Parent[q] = p => WithDir(p)[q] = Absent
  BY <1>1, ParentsOK, NodeAssumption, ShapeAssumption DEF Placeable, WithDir, Shaped
<1>5. Parent[p] # Root => WithDir(p)[Parent[p]] = Dir
  BY <1>1, ParentsOK DEF WithDir
<1> DEFINE new == [WithDir(p) EXCEPT ![p] = f]
<1>6. new \in [Paths -> Files \cup {Absent, Dir, Link}]
  BY <1>2
<1>7. f # Dir /\ f # Absent
  BY NodeAssumption
<1>8. Shaped(new)
  BY <1>2, <1>3, <1>4, <1>5, <1>7, ParentsOK DEF Shaped
<1> QED BY <1>2, <1>3, <1>6, <1>8, TargetIsShaped

-----------------------------------------------------------------------------
LEMMA StampType ==
  ASSUME NEW t \in Times
  PROVE  Stamp(t) \in Times
BY TimeAssumption DEF Stamp

LEMMA ManifestType ==
  ASSUME NEW t \in Targets
  PROVE  Manifest(t) \in [Paths -> Files \cup {Absent, Link}]
BY TargetIsShaped DEF Manifest

LEMMA DeltaOK ==
  ASSUME NEW m, NEW t, NEW c
  PROVE  /\ Delta(m, t, c) \subseteq Paths
         /\ \A p \in Delta(m, t, c) : t[p] \in Files
         /\ Cardinality(Delta(m, t, c)) \in 0 .. Cardinality(Paths)
<1>1. Delta(m, t, c) \in SUBSET Paths /\ \A p \in Delta(m, t, c) : t[p] \in Files
  BY DEF Delta
<1>2. Cardinality(Delta(m, t, c)) <= Cardinality(Paths) /\ IsFiniteSet(Delta(m, t, c))
  BY <1>1, FS_Subset, PathsAssumption
<1>3. Cardinality(Delta(m, t, c)) \in Nat /\ Cardinality(Paths) \in Nat
  BY <1>2, FS_CardinalityType, PathsAssumption
<1> QED BY <1>1, <1>2, <1>3

LEMMA SyncTypes ==
  ASSUME TypeOK, Exchanged, [Next]_vars
  PROVE  TypeOK'
<1> USE DEF TypeOK, Transition, Fails, Fault, Counts, exchange, history
<1>1. ASSUME NEW c \in Calls, Call(c) PROVE TypeOK'
  <2>1. NoFiles \in [Paths -> Files \cup {Absent, Link}]
        /\ NoFiles \in [Paths -> Files \cup {Absent}] /\ NoFiles \in Sources
    BY SourceIsShaped, NodeAssumption DEF NoFiles, Shaped
  <2>2. Cardinality(Paths) \in Nat
    BY FS_CardinalityType, PathsAssumption
  <2>3. /\ src' \in Sources /\ dst' \in Targets /\ pc' = "scan" /\ call' \in Calls
        /\ tries' = 0 /\ have' = NoFiles /\ want' = NoFiles /\ staged' = NoFiles
        /\ todo' = {} /\ extras' = {} /\ left' = {} /\ sent' = 0 /\ before' \in Targets
    BY <1>1 DEF Call
  <2>4. quiet' \in BOOLEAN /\ ended' \in BOOLEAN
    BY <1>1 DEF Call
  <2> HIDE DEF Transition, Fails, Fault, Counts, exchange, history
  <2> QED BY <2>1, <2>2, <2>3, <2>4
<1>2. CASE Scan
  BY <1>2, ManifestType DEF Scan, NoFiles
<1>3. CASE Ask
  <2>1. tries + 1 \in 0 .. 2
    BY <1>3 DEF Ask, Exchanged
  <2> QED BY <1>3, <2>1, DeltaOK DEF Ask
<1>4. CASE SkipResidue
  BY <1>4 DEF SkipResidue
<1>5. CASE Done
  BY <1>5, DeltaOK DEF Done, Terminator, Extras
<1>6. CASE Foretell
  BY <1>6 DEF Foretell
<1>7. ASSUME NEW p \in Paths, Deliver(p) PROVE TypeOK'
  <2>1. src[p] \in Files /\ want[p] \in Files
    BY <1>7, DeltaOK DEF Deliver, Exchanged, Differing
  <2>2. [data |-> src[p].data, mtime |-> Stamp(want[p].mtime)] \in Files
    BY <2>1, StampType DEF Files
  <2> QED BY <1>7, <2>2 DEF Deliver
<1>8. ASSUME NEW p \in Paths, Vanished(p) PROVE TypeOK'
  BY <1>8 DEF Vanished, BreaksOff
<1>9. CASE Commit
  BY <1>9 DEF Commit
<1>10. CASE StartPlacing
  BY <1>10 DEF StartPlacing, Staged
<1>11. CASE Finish
  BY <1>11 DEF Finish
<1>12. ASSUME NEW p \in Paths, Remove(p) PROVE TypeOK'
  BY <1>12, RemoveShape DEF Remove
<1>13. ASSUME NEW p \in Paths, RemoveRefused(p) \/ PlaceRefused(p) PROVE TypeOK'
  BY <1>13 DEF RemoveRefused, PlaceRefused
<1>14. ASSUME NEW p \in Paths, Place(p) \/ PlaceBreaks(p) PROVE TypeOK'
  <2>1. p \in left /\ pc = "place" /\ Placeable(p)
    BY <1>14 DEF Place, PlaceBreaks
  <2>2. staged[p] \in Files
    BY <2>1 DEF Exchanged, Staged
  <2>3. [staged[p] EXCEPT !.mtime = Now] \in Files
    BY <2>2, TimeAssumption DEF Files
  <2>4. /\ WithDir(p) \in Targets
        /\ [WithDir(p) EXCEPT ![p] = staged[p]] \in Targets
        /\ [WithDir(p) EXCEPT ![p] = [staged[p] EXCEPT !.mtime = Now]] \in Targets
    BY <2>1, <2>2, <2>3, PlaceShape
  <2>5. dst' \in Targets
    BY <1>14, <2>4 DEF Place, PlaceBreaks
  <2> QED BY <1>14, <2>5 DEF Place, PlaceBreaks
<1>15. CASE StagingFails \/ RefusedEarly \/ Drop \/ CommitBreaks
  BY <1>15 DEF StagingFails, RefusedEarly, Drop, CommitBreaks, BreaksOff
<1>16. CASE Edit
  BY <1>16 DEF Edit, EditSource, EditTarget
<1>17. CASE UNCHANGED vars
  BY <1>17 DEF vars
<1> QED
  BY <1>1, <1>2, <1>3, <1>4, <1>5, <1>6, <1>7, <1>8, <1>9, <1>10, <1>11, <1>12, <1>13,
     <1>14, <1>15, <1>16, <1>17 DEF Next, Exchange, Committing, Breaks, Idle

-----------------------------------------------------------------------------
(* A file that is delivered is in the staging area from then on.           *)
LEMMA Delivered ==
  ASSUME TypeOK, Exchanged, NEW p \in Paths, Deliver(p)
  PROVE  /\ Staged' = Staged \cup {p}
         /\ staged'[p] \in Files
         /\ quiet /\ want = src => staged'[p] = Stamped(want[p])
<1>1. src[p] \in Files /\ want[p] \in Files
  BY DeltaOK DEF Deliver, Exchanged, Differing
<1>2. [data |-> src[p].data, mtime |-> Stamp(want[p].mtime)] \in Files
  BY <1>1, StampType DEF Files
<1>3. staged' = [staged EXCEPT ![p] =
                   [data |-> src[p].data, mtime |-> Stamp(want[p].mtime)]]
  BY DEF Deliver
<1>4. staged'[p] = [data |-> src[p].data, mtime |-> Stamp(want[p].mtime)]
  BY <1>3 DEF TypeOK
<1>5. staged'[p] \in Files /\ staged'[p] # Absent
  BY <1>2, <1>4, NodeAssumption
<1>6. \A q \in Paths : q # p => staged'[q] = staged[q]
  BY <1>3 DEF TypeOK
<1> QED BY <1>2, <1>4, <1>5, <1>6 DEF Staged, Stamped

LEMMA ExchangedKept ==
  ASSUME TypeOK, Exchanged, [Next]_vars
  PROVE  Exchanged'
<1> USE DEF Exchanged, Transition, Fails, Fault, Counts, exchange, history, Terminated,
            Differing, Staged
<1>1. ASSUME NEW c \in Calls, Call(c) PROVE Exchanged'
  BY <1>1 DEF Call
<1>2. CASE Scan
  BY <1>2 DEF Scan
<1>3. CASE Ask
  <2>1. pc' = "stream" /\ staged' = NoFiles /\ call' = call
    BY <1>3 DEF Ask
  <2>2. Staged' = {}
    BY <2>1 DEF NoFiles
  <2>3. todo' = IF call.preview THEN {} ELSE Differing'
    BY <1>3 DEF Ask
  <2> QED BY <2>1, <2>2, <2>3
<1>4. CASE SkipResidue
  BY <1>4 DEF SkipResidue
<1>5. CASE Done
  BY <1>5 DEF Done, Terminator
<1>6. CASE Foretell
  BY <1>6 DEF Foretell
<1>7. ASSUME NEW p \in Paths, Deliver(p) PROVE Exchanged'
  <2>1. pc = "stream" /\ pc' = "stream" /\ p \in todo /\ todo' = todo \ {p}
        /\ UNCHANGED <<have, want, call>>
    BY <1>7 DEF Deliver
  <2>2. Differing' = Differing
    BY <2>1
  <2>3. Staged' = Staged \cup {p}
    BY <1>7, Delivered
  <2> HIDE DEF Staged, Differing
  <2> QED BY <2>1, <2>2, <2>3
<1>8. ASSUME NEW p \in Paths, Vanished(p) PROVE Exchanged'
  BY <1>8 DEF Vanished, BreaksOff
<1>9. CASE Commit
  BY <1>9 DEF Commit
<1>10. CASE StartPlacing
  BY <1>10 DEF StartPlacing
<1>11. CASE Finish
  BY <1>11 DEF Finish
<1>12. ASSUME NEW p \in Paths, Remove(p) PROVE Exchanged'
  BY <1>12 DEF Remove
<1>13. ASSUME NEW p \in Paths, RemoveRefused(p) \/ PlaceRefused(p) PROVE Exchanged'
  BY <1>13 DEF RemoveRefused, PlaceRefused
<1>14. ASSUME NEW p \in Paths, Place(p) \/ PlaceBreaks(p) PROVE Exchanged'
  BY <1>14 DEF Place, PlaceBreaks
<1>15. CASE StagingFails \/ RefusedEarly \/ Drop \/ CommitBreaks
  BY <1>15 DEF StagingFails, RefusedEarly, Drop, CommitBreaks, BreaksOff
<1>16. CASE Edit
  BY <1>16 DEF Edit, EditSource, EditTarget
<1>17. CASE UNCHANGED vars
  BY <1>17 DEF vars
<1> QED
  BY <1>1, <1>2, <1>3, <1>4, <1>5, <1>6, <1>7, <1>8, <1>9, <1>10, <1>11, <1>12, <1>13,
     <1>14, <1>15, <1>16, <1>17 DEF Next, Exchange, Committing, Breaks, Idle

LEMMA EndedKept ==
  ASSUME Ended, [Next]_vars
  PROVE  Ended'
<1> USE DEF Ended, Terminated, Transition, Fails, history
<1>1. ASSUME NEW c \in Calls, Call(c) PROVE Ended'
  BY <1>1 DEF Call
<1>2. CASE Scan \/ Ask \/ SkipResidue \/ Done \/ Foretell
  BY <1>2 DEF Scan, Ask, SkipResidue, Done, Foretell
<1>3. ASSUME NEW p \in Paths, Deliver(p) \/ Vanished(p) PROVE Ended'
  BY <1>3 DEF Deliver, Vanished, BreaksOff
<1>4. CASE Commit \/ StartPlacing \/ Finish
  BY <1>4 DEF Commit, StartPlacing, Finish
<1>5. ASSUME NEW p \in Paths,
             Remove(p) \/ RemoveRefused(p) \/ Place(p) \/ PlaceRefused(p) \/ PlaceBreaks(p)
      PROVE  Ended'
  BY <1>5 DEF Remove, RemoveRefused, Place, PlaceRefused, PlaceBreaks
<1>6. CASE StagingFails \/ RefusedEarly \/ Drop \/ CommitBreaks
  BY <1>6 DEF StagingFails, BreaksOff, RefusedEarly, Drop, CommitBreaks
<1>7. CASE Edit
  BY <1>7 DEF Edit, EditSource, EditTarget
<1>8. CASE UNCHANGED vars
  BY <1>8 DEF vars
<1> QED
  BY <1>1, <1>2, <1>3, <1>4, <1>5, <1>6, <1>7, <1>8
     DEF Next, Exchange, Committing, Breaks, Idle

LEMMA UndisturbedKept ==
  ASSUME TypeOK, Exchanged, Ended, Undisturbed, [Next]_vars
  PROVE  Undisturbed'
<1> USE DEF Undisturbed, Transition, Fails, exchange, history, Listing
<1>1. ASSUME NEW c \in Calls, Call(c) PROVE Undisturbed'
  BY <1>1 DEF Call
<1>2. CASE Scan
  BY <1>2 DEF Scan, Ended
<1>3. CASE Ask
  <2>1. Staged' = {}
    BY <1>3 DEF Ask, Exchanged, Staged, NoFiles
  <2> QED BY <1>3, <2>1 DEF Ask
<1>4. ASSUME NEW p \in Paths, Deliver(p) PROVE Undisturbed'
  <2>1. pc = "stream" /\ UNCHANGED <<src, dst, pc, have, want, before, quiet, ended, forecast>>
    BY <1>4 DEF Deliver
  <2>2. \A q \in Paths : q # p => staged'[q] = staged[q]
    BY <1>4 DEF Deliver, TypeOK
  <2>3. quiet => want = src /\ staged'[p] = Stamped(want[p])
    BY <1>4, <2>1, Delivered
  <2>4. Staged' = Staged \cup {p} /\ Staged \subseteq Paths
    BY <1>4, Delivered DEF Staged
  <2> QED BY <2>1, <2>2, <2>3, <2>4
<1>5. CASE SkipResidue
  BY <1>5 DEF SkipResidue, Staged
<1>6. CASE Done
  BY <1>6 DEF Done, Staged, Ended
<1>7. CASE Foretell
  BY <1>7 DEF Foretell, Staged
<1>8. CASE Commit \/ StartPlacing \/ Finish
  BY <1>8 DEF Commit, StartPlacing, Finish, Staged, Ended, Terminated
<1>9. ASSUME NEW p \in Paths,
             Remove(p) \/ RemoveRefused(p) \/ Place(p) \/ PlaceRefused(p) \/ PlaceBreaks(p)
      PROVE  Undisturbed'
  <2>1. /\ pc \in {"remove", "place"} /\ (pc' = pc \/ pc' = "failed")
        /\ UNCHANGED <<src, have, want, staged, before, quiet, ended>>
    BY <1>9 DEF Remove, RemoveRefused, Place, PlaceRefused, PlaceBreaks
  <2>2. UNCHANGED <<dst, forecast>> \/ forecast' = Nothing
    BY <1>9 DEF Remove, RemoveRefused, Place, PlaceRefused, PlaceBreaks
  <2>3. ended
    BY <2>1 DEF Ended, Terminated
  <2>4. Staged' = Staged
    BY <2>1 DEF Staged
  <2> HIDE DEF Transition, Fails, exchange, history
  <2> QED BY <2>1, <2>2, <2>3, <2>4
<1>10. ASSUME NEW p \in Paths, Vanished(p) PROVE Undisturbed'
  BY <1>10 DEF Vanished, BreaksOff
<1>11. CASE StagingFails \/ RefusedEarly \/ Drop \/ CommitBreaks
  BY <1>11 DEF StagingFails, BreaksOff, RefusedEarly, Drop, CommitBreaks
<1>12. CASE Edit
  BY <1>12 DEF Edit, EditSource, EditTarget
<1>13. CASE UNCHANGED vars
  BY <1>13 DEF vars, Staged
<1> QED
  BY <1>1, <1>2, <1>3, <1>4, <1>5, <1>6, <1>7, <1>8, <1>9, <1>10, <1>11, <1>12, <1>13
     DEF Next, Exchange, Committing, Breaks, Idle

LEMMA ForecastKept ==
  ASSUME Exchanged, Undisturbed, ForecastHolds, [Next]_vars
  PROVE  ForecastHolds'
<1>1. CASE Foretell
  <2>1. pc = "terminated" /\ UNCHANGED <<src, dst>>
    BY <1>1 DEF Foretell, Transition
  <2>2. sent = Cardinality(Differing) /\ extras = Extras(have, want)
    BY <2>1 DEF Exchanged, Terminated
  <2>3. quiet => have = Manifest(dst) /\ want = src
    BY <2>1 DEF Undisturbed, Listing
  <2>4. forecast' = IF quiet THEN [sent |-> sent, extras |-> extras, compare |-> call.compare]
                    ELSE Nothing
    BY <1>1 DEF Foretell
  <2> QED BY <2>1, <2>2, <2>3, <2>4 DEF ForecastHolds, Differing
<1>2. CASE forecast' = Nothing
  BY <1>2 DEF ForecastHolds
<1>3. CASE UNCHANGED <<src, dst, forecast>>
  BY <1>3 DEF ForecastHolds
<1>4. CASE Exchange /\ ~Foretell
  BY <1>3, <1>4 DEF Exchange, Scan, Ask, SkipResidue, Done, Deliver, Vanished, BreaksOff,
     Fails, history
<1>5. CASE Committing
  BY <1>2, <1>3, <1>5 DEF Committing, Commit, StartPlacing, Finish, Remove, RemoveRefused,
     Place, PlaceRefused, Fails, history
<1>6. CASE Breaks
  BY <1>2, <1>3, <1>6 DEF Breaks, StagingFails, BreaksOff, RefusedEarly, Drop, CommitBreaks,
     PlaceBreaks, Fails, history
<1>7. CASE Edit
  BY <1>2, <1>7 DEF Edit, EditSource, EditTarget
<1>8. CASE (\E c \in Calls : Call(c)) \/ UNCHANGED vars
  BY <1>3, <1>8 DEF Call, vars, history
<1> QED BY <1>1, <1>4, <1>5, <1>6, <1>7, <1>8 DEF Next, Idle

-----------------------------------------------------------------------------
(* Placing a file makes the directory above it, if it has to, and touches  *)
(* nothing else.                                                           *)
LEMMA PlaceOne ==
  ASSUME TypeOK, NEW p \in Paths, Place(p), Placed
  PROVE  Placed'
<1>1. /\ p \in left /\ p \in Differing /\ left' = left \ {p}
      /\ Differing' = Differing /\ Cleared' = Cleared /\ staged' = staged
  BY DEF Place, Placed, Differing, Cleared, Removals, exchange
<1>2. Parent[p] # Root => Parent[p] \in Paths \ {p} /\ Parent[p] \notin Differing
  <2>1. want[p] \in Files /\ want[p] # Absent
    BY <1>1, DeltaOK, NodeAssumption DEF Differing
  <2>2. Parent[p] # Root => want[Parent[p]] = Dir
    BY <2>1, SourceIsShaped DEF TypeOK, Shaped
  <2>3. Dir \notin Files
    BY NodeAssumption
  <2> QED BY <2>2, <2>3, ParentsOK, DeltaOK DEF Differing
<1>3. dst' = [WithDir(p) EXCEPT ![p] = staged[p]] /\ Placeable(p)
  BY DEF Place
<1>4. dst \in [Paths -> Files \cup {Absent, Dir, Link}]
  BY TargetIsShaped DEF TypeOK
<1>5. /\ dst'[p] = staged[p]
      /\ \A q \in Paths \ {p} : dst'[q] = IF q = Parent[p] THEN Dir ELSE dst[q]
      /\ Parent[p] # Root => dst[Parent[p]] \in {Dir, Absent}
  BY <1>3, <1>4, ParentsOK, ShapeAssumption DEF WithDir, Placeable, Reachable
<1>6. ASSUME NEW q \in Paths
      PROVE  IF q \in Differing \ left' THEN dst'[q] = staged[q]
             ELSE \/ dst'[q] = Cleared[q]
                  \/ /\ dst'[q] = Dir /\ Cleared[q] = Absent
                     /\ \E c \in Differing : Parent[c] = q
  <2>1. CASE q = p
    BY <1>1, <1>5, <2>1
  <2>2. CASE q # p /\ q = Parent[p]
    BY <1>1, <1>2, <1>5, <2>2, ShapeAssumption DEF Placed
  <2>3. CASE q # p /\ q # Parent[p]
    BY <1>1, <1>5, <2>3 DEF Placed
  <2> QED BY <2>1, <2>2, <2>3
<1>7. left' \subseteq Differing
  BY <1>1 DEF Placed
<1> QED BY <1>1, <1>6, <1>7 DEF Placed

LEMMA CommittedKept ==
  ASSUME SyncInv, [Next]_vars
  PROVE  Committed'
<1> USE DEF SyncInv, Transition, Fails, history
<1>1. CASE Commit
  <2>1. pc = "terminated" /\ pc' = "remove" /\ left' = Removals
        /\ UNCHANGED <<dst, call, before, extras, quiet>>
    BY <1>1 DEF Commit, Removals, exchange
  <2>2. quiet => dst = before
    BY <2>1 DEF Undisturbed
  <2>3. Removals' = Removals /\ Cleared' = Cleared
    BY <2>1 DEF Removals, Cleared
  <2> QED BY <2>1, <2>2, <2>3 DEF Committed, Removed, Cleared
<1>2. ASSUME NEW p \in Paths, Remove(p) PROVE Committed'
  <2>1. /\ pc = "remove" /\ pc' = "remove" /\ p \in left /\ left' = left \ {p}
        /\ dst' = [dst EXCEPT ![p] = Absent]
        /\ UNCHANGED <<call, before, extras, quiet>>
    BY <1>2 DEF Remove, exchange
  <2>2. Removals' = Removals /\ Cleared' = Cleared
    BY <2>1 DEF Removals, Cleared
  <2>3. dst \in [Paths -> Files \cup {Absent, Dir, Link}]
    BY TargetIsShaped DEF TypeOK
  <2>4. quiet /\ ~call.preview => Removed'
    BY <2>1, <2>2, <2>3 DEF Committed, Removed, Cleared
  <2> QED BY <2>1, <2>4 DEF Committed
<1>3. CASE StartPlacing
  <2>1. /\ pc = "remove" /\ pc' = "place" /\ left = {} /\ left' = Staged
        /\ UNCHANGED <<dst, call, before, have, want, extras, quiet, staged>>
    BY <1>3 DEF StartPlacing, exchange
  <2>2. Removals' = Removals /\ Cleared' = Cleared /\ Differing' = Differing
    BY <2>1 DEF Removals, Cleared, Differing
  <2>3. ~call.preview => Staged = Differing
    BY <2>1 DEF Exchanged, Terminated
  <2> QED BY <2>1, <2>2, <2>3 DEF Committed, Removed, Placed
<1>4. ASSUME NEW p \in Paths, Place(p) PROVE Committed'
  <2>1. pc = "place" /\ pc' = "place" /\ UNCHANGED <<call, quiet>>
    BY <1>4 DEF Place
  <2>2. quiet /\ ~call.preview => Placed'
    BY <1>4, <2>1, PlaceOne DEF Committed
  <2> QED BY <2>1, <2>2 DEF Committed
<1>5. CASE Finish
  <2>1. /\ pc = "place" /\ left = {} /\ pc' \in {"ok", "failed"}
        /\ UNCHANGED <<dst, call, before, have, want, extras, quiet, staged, left>>
    BY <1>5 DEF Finish, exchange
  <2>2. Removals' = Removals /\ Cleared' = Cleared /\ Differing' = Differing
    BY <2>1 DEF Removals, Cleared, Differing
  <2> QED BY <2>1, <2>2 DEF Committed, Placed
<1>6. CASE pc' \notin {"remove", "place", "ok"} \/ ~quiet' \/ call'.preview
  BY <1>6 DEF Committed
<1>7. CASE \E c \in Calls : Call(c)
  BY <1>6, <1>7 DEF Call
<1>8. CASE Exchange
  BY <1>6, <1>8 DEF Exchange, Scan, Ask, SkipResidue, Done, Foretell, Deliver, Vanished,
     BreaksOff
<1>9. CASE Breaks
  BY <1>6, <1>9 DEF Breaks, StagingFails, BreaksOff, RefusedEarly, Drop, CommitBreaks,
     PlaceBreaks
<1>10. ASSUME NEW p \in Paths, RemoveRefused(p) \/ PlaceRefused(p) PROVE Committed'
  BY <1>6, <1>10 DEF RemoveRefused, PlaceRefused
<1>11. CASE Edit
  BY <1>6, <1>11 DEF Edit, EditSource, EditTarget
<1>12. CASE UNCHANGED vars
  BY <1>12 DEF vars, exchange, Committed, Removed, Placed, Differing, Cleared, Removals
<1> QED
  BY <1>1, <1>2, <1>3, <1>4, <1>5, <1>7, <1>8, <1>9, <1>10, <1>11, <1>12
     DEF Next, Committing, Idle

-----------------------------------------------------------------------------
(* What a transfer keeps true at every step of every call, whatever is     *)
(* edited, lost or killed (sync.go:52-295, syncchild.go, serveSync).       *)
THEOREM SyncInvariant == Spec => []SyncInv
<1>1. Init => SyncInv
  <2> SUFFICES ASSUME Init PROVE SyncInv
    OBVIOUS
  <2>1. /\ NoFiles \in [Paths -> Files \cup {Absent, Link}]
        /\ NoFiles \in [Paths -> Files \cup {Absent}] /\ NoFiles \in Sources
    BY SourceIsShaped, NodeAssumption DEF NoFiles, Shaped
  <2>2. 0 \in 0 .. Cardinality(Paths)
    BY FS_CardinalityType, PathsAssumption
  <2>3. src \in Sources /\ dst \in Targets /\ before \in Targets
    BY StartAssumption DEF Init
  <2>4. call \in Calls /\ quiet \in BOOLEAN /\ ended \in BOOLEAN
    BY DEF Init
  <2>5. TypeOK
    BY <2>1, <2>2, <2>3, <2>4 DEF Init, TypeOK
  <2> QED BY <2>5 DEF Init, SyncInv, Exchanged, Ended, Undisturbed, ForecastHolds,
          Committed, Terminated, Listing
<1>2. SyncInv /\ [Next]_vars => SyncInv'
  BY SyncTypes, ExchangedKept, EndedKept, UndisturbedKept, ForecastKept, CommittedKept
     DEF SyncInv
<1> QED BY <1>1, <1>2, PTL DEF Spec

(* Trees stay trees, and the manifests, the staging area and the counts    *)
(* keep their types.                                                       *)
THEOREM SyncTypeCorrect == Spec => []TypeOK
<1>1. SyncInv => TypeOK
  BY DEF SyncInv
<1> QED BY <1>1, SyncInvariant, PTL

(* Only what the terminated exchange delivered is committed, all of it and *)
(* nothing of an earlier attempt (sync.go:80-94, 248, 285-289).            *)
THEOREM OnlyTheDeltaIsCommitted == Spec => []StagedIsDelta
<1>1. SyncInv => StagedIsDelta
  BY DEF SyncInv, Exchanged, StagedIsDelta, Differing, Terminated
<1> QED BY <1>1, SyncInvariant, PTL

(* Until the terminator has arrived, the destination is as the call found  *)
(* it (sync.go:214), in the second attempt as in the first.                *)
THEOREM InterruptedIsHarmless == Spec => []InterruptedLeavesDestination
<1>1. SyncInv => InterruptedLeavesDestination
  BY DEF SyncInv, Undisturbed, InterruptedLeavesDestination
<1> QED BY <1>1, SyncInvariant, PTL

(* What a preview announced is what the next transfer sends and removes,   *)
(* as long as neither tree has changed (language.md:556).                  *)
THEOREM PreviewsAreKept == Spec => []PreviewIsKept
<1>1. SyncInv => PreviewIsKept
  <2> SUFFICES ASSUME SyncInv, ended, quiet, forecast # Nothing,
                      pc \in {"terminated", "remove"}, call.compare = forecast.compare
               PROVE  sent = forecast.sent /\ extras = forecast.extras
    BY DEF PreviewIsKept
  <2>1. have = Manifest(dst) /\ want = src
    BY DEF SyncInv, Undisturbed, Listing
  <2>2. /\ forecast.sent = Cardinality(Delta(have, want, call.compare))
        /\ forecast.extras = Extras(have, want)
    BY <2>1 DEF SyncInv, ForecastHolds
  <2>3. sent = Cardinality(Delta(have, want, call.compare)) /\ extras = Extras(have, want)
    BY DEF SyncInv, Exchanged, Terminated, Differing
  <2> QED BY <2>2, <2>3
<1> QED BY <1>1, SyncInvariant, PTL

(* A transfer nobody interfered with and that reports success leaves       *)
(* nothing to send but, under `meta`, files dated at the epoch, which have *)
(* arrived and are stamped with the time they were written (sync.go:369);  *)
(* after a sync nothing to remove, and after a copy everything the source  *)
(* does not have as it was (ADR-0039, section 1; std/dir/dir.shellf:102).  *)
THEOREM TransfersConverge == Spec => []Converges
<1>1. SyncInv => Converges
  <2> SUFFICES ASSUME SyncInv, pc = "ok", quiet, ~call.preview
               PROVE  /\ \A p \in Delta(Manifest(dst), src, call.compare) :
                           /\ call.compare = "meta" /\ src[p].mtime = Epoch
                           /\ dst[p] = [src[p] EXCEPT !.mtime = Now]
                      /\ call.del => Extras(Manifest(dst), src) = {}
                      /\ ~call.del =>
                           \A p \in Paths :
                             before[p] # Absent /\ src[p] \notin Files
                               => dst[p] = before[p]
    BY DEF Converges
  <2>1. /\ have = Manifest(before) /\ want = src
        /\ \A p \in Staged : staged[p] = Stamped(want[p])
    BY DEF SyncInv, Undisturbed, Listing
  <2>2. Staged = Differing /\ extras = Extras(have, want)
    BY DEF SyncInv, Exchanged, Terminated
  <2>0. Placed /\ left = {}
    BY DEF SyncInv, Committed
  <2>3. ASSUME NEW p \in Paths, p \in Differing
        PROVE  dst[p] = Stamped(src[p]) /\ src[p] \in Files
    <3>1. dst[p] = staged[p]
      BY <2>0, <2>3 DEF Placed
    <3> QED BY <2>1, <2>2, <2>3, <3>1, DeltaOK DEF Differing
  <2>4. ASSUME NEW p \in Paths, p \notin Differing
        PROVE  dst[p] = Cleared[p] \/ (dst[p] = Dir /\ Cleared[p] = Absent)
    BY <2>0, <2>4 DEF Placed
  <2>5. \A p \in Paths : src[p] \notin Files => p \notin Differing
    BY <2>1, DeltaOK DEF Differing
  <2>6. ASSUME NEW p \in Paths, src[p] \in Files, p \notin Differing
        PROVE  Same(Manifest(dst)[p], src[p], call.compare)
    <3>1. Same(have[p], src[p], call.compare) /\ have[p] \in Files
      BY <2>1, <2>6 DEF Differing, Delta, Same
    <3>2. before[p] = have[p] /\ before[p] # Absent /\ before[p] # Dir
      BY <2>1, <3>1, NodeAssumption DEF Manifest
    <3>3. Cleared[p] = before[p]
      BY <2>1, <2>2, <2>6 DEF Cleared, Removals, Extras
    <3>4. dst[p] = before[p]
      BY <2>4, <2>6, <3>2, <3>3
    <3>5. Manifest(dst)[p] = have[p]
      BY <3>2, <3>4 DEF Manifest
    <3> QED BY <3>1, <3>5
  <2>7. ASSUME NEW p \in Delta(Manifest(dst), src, call.compare)
        PROVE  /\ call.compare = "meta" /\ src[p].mtime = Epoch
               /\ dst[p] = [src[p] EXCEPT !.mtime = Now]
    <3>1. /\ p \in Paths /\ src[p] \in Files
          /\ ~Same(Manifest(dst)[p], src[p], call.compare)
      BY <2>7 DEF Delta
    <3>2. dst[p] = Stamped(src[p])
      BY <2>3, <2>6, <3>1
    <3>3. src[p] = [data |-> src[p].data, mtime |-> src[p].mtime]
          /\ src[p].data \in Data /\ src[p].mtime \in Times
      BY <3>1 DEF Files
    <3>4. dst[p] \in Files /\ dst[p] # Dir
      BY <3>2, <3>3, StampType, NodeAssumption DEF Stamped, Files
    <3>5. Manifest(dst)[p] = Stamped(src[p])
      BY <3>1, <3>2, <3>4 DEF Manifest
    <3>6. call.compare = "meta" \/ call.compare = "sha256"
      BY DEF SyncInv, TypeOK, Calls
    <3>7. call.compare = "meta" /\ Stamp(src[p].mtime) # src[p].mtime
      BY <3>1, <3>2, <3>4, <3>5, <3>6 DEF Same, Stamped
    <3>8. src[p].mtime = Epoch /\ Stamp(src[p].mtime) = Now
      BY <3>7 DEF Stamp
    <3> QED BY <3>2, <3>3, <3>7, <3>8 DEF Stamped
  <2>8. ASSUME call.del, NEW p \in Paths, Manifest(dst)[p] # Absent, src[p] \notin Files
        PROVE  FALSE
    <3>1. dst[p] # Absent /\ dst[p] # Dir
      BY <2>8 DEF Manifest
    <3>2. dst[p] = Cleared[p]
      BY <2>4, <2>5, <2>8, <3>1
    <3>3. p \notin extras /\ before[p] = dst[p]
      BY <2>8, <3>1, <3>2 DEF Cleared, Removals
    <3>4. have[p] # Absent
      BY <2>1, <3>1, <3>3 DEF Manifest
    <3> QED BY <2>1, <2>2, <2>8, <3>3, <3>4 DEF Extras
  <2>9. ASSUME ~call.del, NEW p \in Paths, before[p] # Absent, src[p] \notin Files
        PROVE  dst[p] = before[p]
    <3>1. Cleared[p] = before[p]
      BY <2>9 DEF Cleared, Removals
    <3> QED BY <2>4, <2>5, <2>9, <3>1
  <2> QED BY <2>7, <2>8, <2>9 DEF Extras
<1> QED BY <1>1, SyncInvariant, PTL
=============================================================================
