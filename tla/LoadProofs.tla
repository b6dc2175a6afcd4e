----------------------------- MODULE LoadProofs -----------------------------
(***************************************************************************)
(* What a run does before it dials a host, for all projects, runs, plans   *)
(* and graphs of calls: Load takes the steps of its parts and no others,   *)
(* and the parts keep what they promise.                                   *)
(***************************************************************************)
EXTENDS Load, SequenceTheorems, FiniteSetTheorems, WellFoundedInduction, TLAPS

-----------------------------------------------------------------------------
(* Load is its parts.                                                      *)

(* The imports of a run are read as ModuleLock has them, the rest of Load  *)
(* leaves them alone (readImports, project.go).                            *)
THEOREM LoadReadsImports == Spec => LockSpec
<1>1. Init => LockInit
  BY DEF Init
<1>2. [Next]_vars => [LockNext]_lockVars
  BY DEF Next, vars, ImportModules, Parse, CheckCalls, Judge, Send
<1> QED BY <1>1, <1>2, PTL DEF Spec, LockSpec

(* The calls are searched as CallCycles has it (CheckCycles).              *)
THEOREM LoadSearchesCalls == Spec => CycleSpec
<1>1. Init => CycleInit
  BY DEF Init
<1>2. [Next]_vars => [CheckCycles]_cycleVars
  BY DEF Next, vars, ImportModules, Parse, CheckCalls, Judge, Send
<1> QED BY <1>1, <1>2, PTL DEF Spec, CycleSpec

-----------------------------------------------------------------------------
(* ModuleLock: what a run is given is what its lock says, a run whose      *)
(* imports are pinned and cached is never refused, and runs that do not    *)
(* overlap are given the same module under the same name.                  *)

(* Where a run stands bounds what it has done.                             *)
Importing(r) == at[r] \in {"resolve", "clone", "read"}

Places ==
  \A r \in Runs :
    /\ Importing(r) => next[r] \in 1 .. Len(imports[r])
    /\ at[r] \in {"clone", "read"} => sha[r] \in Shas
    /\ at[r] = "start" => /\ next[r] = 1 /\ ~changed[r]
                          /\ \A s \in Specs : served[r][s] = None /\ loaded[r][s] = None

(* A run that was found pinned and cached is given everything from there.  *)
FromCache ==
  \A r \in Runs : offline[r] =>
    /\ at[r] \in {"resolve", "done", "killed"}
    /\ ~changed[r]
    /\ \A s \in Wanted(r) : lock[r][s] # None /\ cache[lock[r][s].sha] = lock[r][s].hash

(* While runs do not overlap, the file holds what every run was given that *)
(* got past its imports, except between the truncation and the writing,    *)
(* when the run that writes holds it.                                      *)
Kept(l, q) == \A s \in Specs : served[q][s] # None => l[s] # None /\ l[s].hash = served[q][s]

OneByOne ==
  /\ file # Torn
  /\ \A q, r \in Runs : Live(q) /\ Live(r) => q = r
  /\ \A r \in Runs :
       /\ at[r] = "write" => file = NoEntries
       /\ Live(r) /\ at[r] # "write" => loaded[r] = file
       /\ Live(r) /\ ~changed[r] => lock[r] = loaded[r] /\ at[r] \notin {"save", "write"}
  /\ (\A r \in Runs : at[r] # "write") =>
       \A q \in Runs : at[q] = "done" => Kept(file, q)
  /\ \A r \in Runs : at[r] = "write" =>
       \A q \in Runs : at[q] = "done" => Kept(lock[r], q)

TypedPlaces == LockTypeOK /\ Places

-----------------------------------------------------------------------------
LEMMA TypedPlacesInit == LockInit => TypedPlaces
<1> SUFFICES ASSUME LockInit PROVE TypedPlaces
  OBVIOUS
<1>1. imports \in [Runs -> Seq(Specs)]
  BY ProjectsAssumption DEF LockInit
<1>2. LockTypeOK
  BY <1>1, ProjectsAssumption DEF LockInit, LockTypeOK, NoEntries, Lock, Ended
<1>3. Places
  BY DEF LockInit, Places, Importing, NoEntries
<1> QED BY <1>2, <1>3 DEF TypedPlaces

LEMMA NowIsWanted ==
  ASSUME TypedPlaces, NEW r \in Runs, Importing(r)
  PROVE  Now(r) \in Specs /\ Now(r) \in Wanted(r)
<1>1. imports[r] \in Seq(Specs) /\ next[r] \in 1 .. Len(imports[r])
  BY DEF TypedPlaces, LockTypeOK, Places
<1> QED BY <1>1, ElementOfSeq DEF Now, Wanted

(* What serving an import does to the run, and to no other.                *)
LEMMA ServeEffect ==
  ASSUME TypedPlaces, NEW r \in Runs, Importing(r), NEW hash \in Hash, Serve(r, hash)
  PROVE  /\ served' \in [Runs -> [Specs -> Hash \cup {None}]]
         /\ next' \in [Runs -> Nat]
         /\ \A q \in Runs : \A s \in Specs :
              served'[q][s] = IF q = r /\ s = Now(r) THEN hash ELSE served[q][s]
         /\ \A q \in Runs : q # r => at'[q] = at[q] /\ next'[q] = next[q]
         /\ at' = [at EXCEPT ![r] = at'[r]]
         /\ at'[r] \in {"resolve", "save", "done"}
         /\ at'[r] = "save" <=> changed'[r] /\ at'[r] # "resolve"
         /\ at'[r] = "resolve" => next'[r] \in 1 .. Len(imports[r])
<1>1. Now(r) \in Specs
  BY NowIsWanted
<1>2. PICK n \in Nat : n = Len(imports[r])
  BY LenProperties DEF TypedPlaces, LockTypeOK
<1>3. next[r] \in 1 .. n /\ next \in [Runs -> Nat]
  BY <1>2 DEF TypedPlaces, LockTypeOK, Places
<1>4. served \in [Runs -> [Specs -> Hash \cup {None}]] /\ r \in DOMAIN at
  BY DEF TypedPlaces, LockTypeOK
<1>5. /\ served' \in [Runs -> [Specs -> Hash \cup {None}]]
      /\ \A q \in Runs : \A s \in Specs :
           served'[q][s] = IF q = r /\ s = Now(r) THEN hash ELSE served[q][s]
  BY <1>1, <1>4 DEF Serve
<1>6. next' = [next EXCEPT ![r] = next[r] + 1]
  BY DEF Serve
<1>7. at'[r] = IF next[r] < n THEN "resolve" ELSE IF changed'[r] THEN "save" ELSE "done"
  BY <1>2, <1>4 DEF Serve, Goto
<1>8. at' = [at EXCEPT ![r] = at'[r]] /\ \A q \in Runs : q # r => at'[q] = at[q]
  BY <1>4 DEF Serve, Goto, TypedPlaces, LockTypeOK
<1>9. next' \in [Runs -> Nat] /\ \A q \in Runs : q # r => next'[q] = next[q]
  BY <1>3, <1>6
<1>10. at'[r] = "resolve" => next'[r] \in 1 .. Len(imports[r])
  BY <1>2, <1>3, <1>6, <1>7
<1> QED BY <1>5, <1>7, <1>8, <1>9, <1>10

(* The effect of serving an import keeps types and places.                 *)
LEMMA ServeKeeps ==
  ASSUME TypedPlaces, NEW r \in Runs, Importing(r), NEW hash \in Hash, Serve(r, hash),
         lock' \in [Runs -> Lock], changed' \in [Runs -> BOOLEAN],
         \A q \in Runs : q # r => changed'[q] = changed[q],
         UNCHANGED <<imports, file, cache, tag, sha, history>>
  PROVE  TypedPlaces'
<1>1. /\ served' \in [Runs -> [Specs -> Hash \cup {None}]]
      /\ next' \in [Runs -> Nat]
      /\ \A q \in Runs : \A s \in Specs :
           served'[q][s] = IF q = r /\ s = Now(r) THEN hash ELSE served[q][s]
      /\ \A q \in Runs : q # r => at'[q] = at[q] /\ next'[q] = next[q]
      /\ at' = [at EXCEPT ![r] = at'[r]]
      /\ at'[r] \in {"resolve", "save", "done"}
      /\ at'[r] = "resolve" => next'[r] \in 1 .. Len(imports[r])
  BY ServeEffect
<1>2. LockTypeOK'
  BY <1>1 DEF TypedPlaces, LockTypeOK, history, Ended
<1>3. Places'
  <2>1. ASSUME NEW q \in Runs, q # r
        PROVE  /\ Importing(q)' => next'[q] \in 1 .. Len(imports'[q])
               /\ at'[q] \in {"clone", "read"} => sha'[q] \in Shas
               /\ at'[q] = "start" =>
                    /\ next'[q] = 1 /\ ~changed'[q]
                    /\ \A s \in Specs : served'[q][s] = None /\ loaded'[q][s] = None
    <3>1. /\ at'[q] = at[q] /\ next'[q] = next[q] /\ changed'[q] = changed[q]
          /\ sha' = sha /\ imports' = imports /\ loaded' = loaded
          /\ \A s \in Specs : served'[q][s] = served[q][s]
      BY <1>1, <2>1 DEF history
    <3> QED BY <3>1 DEF TypedPlaces, Places, Importing
  <2>2. /\ Importing(r)' => next'[r] \in 1 .. Len(imports'[r])
        /\ at'[r] \notin {"clone", "read", "start"}
    BY <1>1 DEF Importing
  <2> QED BY <2>1, <2>2 DEF Places
<1> QED BY <1>2, <1>3 DEF TypedPlaces

LEMMA EntryIsTyped ==
  ASSUME TypedPlaces, NEW r \in Runs, Importing(r)
  PROVE  Entered(r) \in Entry \cup {None}
BY NowIsWanted DEF TypedPlaces, LockTypeOK, Entered, Lock

LEMMA TypedPlacesImport ==
  ASSUME TypedPlaces, NEW r \in Runs, Import(r)
  PROVE  TypedPlaces'
<1>1. CASE NoImports(r)
  BY <1>1 DEF NoImports, TypedPlaces, LockTypeOK, Places, Importing, Transition, Goto, world, history, Ended, Live
<1>2. CASE LoadTorn(r) \/ RefuseCached(r) \/ AskFails(r) \/ CloneFails(r) \/ RefuseModule(r)
  <2>1. Goto(r, "refused")
        /\ UNCHANGED <<world, next, lock, changed, sha, served, history>>
    BY <1>2 DEF LoadTorn, RefuseCached, AskFails, CloneFails, RefuseModule, Transition
  <2> QED BY <2>1 DEF TypedPlaces, LockTypeOK, Places, Importing, Transition, Goto, world, history, Ended, Live
<1>3. CASE LoadLock(r)
  <2>1. imports[r] \in Seq(Specs) /\ imports[r] # <<>>
    BY <1>3 DEF LoadLock, TypedPlaces, LockTypeOK
  <2>2. 1 \in 1 .. Len(imports[r])
    <3>1. PICK n \in Nat : n = Len(imports[r]) /\ n # 0
      BY <2>1, EmptySeq
    <3> QED BY <3>1
  <2>3. next[r] = 1 /\ file \in Lock
    BY <1>3 DEF LoadLock, Transition, TypedPlaces, LockTypeOK, Places
  <2> QED BY <1>3, <2>2, <2>3 DEF LoadLock, TypedPlaces, LockTypeOK, Places, Importing, Transition, Goto, world, history, Ended, Live
<1>4. CASE ServeCached(r)
  <2>1. Importing(r) /\ Serve(r, Entered(r).hash) /\ Entered(r) # None
    BY <1>4 DEF ServeCached, Importing, InCache
  <2>2. Entered(r).hash \in Hash
    BY <2>1, EntryIsTyped DEF Entry
  <2>3. UNCHANGED <<imports, file, cache, tag, sha, history, lock, changed>>
    BY <1>4 DEF ServeCached, world
  <2>4. lock' \in [Runs -> Lock] /\ changed' \in [Runs -> BOOLEAN]
    BY <2>3 DEF TypedPlaces, LockTypeOK
  <2> QED BY <2>1, <2>2, <2>3, <2>4, ServeKeeps
<1>5. CASE AskTag(r)
  BY <1>5, NowIsWanted, ProjectsAssumption DEF AskTag, TypedPlaces, LockTypeOK, Places, Importing, Transition, Goto, world, history, Ended, Live
<1>6. CASE Clone(r)
  BY <1>6 DEF Clone, Hash, TypedPlaces, LockTypeOK, Places, Importing, Transition, Goto, world, history, Ended, Live
<1>7. CASE ReadModule(r)
  <2>1. Importing(r) /\ Serve(r, cache[sha[r]])
    BY <1>7 DEF ReadModule, Importing
  <2>2. cache[sha[r]] \in Hash /\ sha[r] \in Shas /\ Now(r) \in Specs
    BY <1>7, <2>1, NowIsWanted DEF ReadModule, TypedPlaces, LockTypeOK, Places
  <2>3. [sha |-> sha[r], hash |-> cache[sha[r]]] \in Entry
    BY <2>2 DEF Entry
  <2>4. lock' \in [Runs -> Lock] /\ changed' \in [Runs -> BOOLEAN]
    <3> DEFINE got == [sha |-> sha[r], hash |-> cache[sha[r]]]
    <3>1. CASE UNCHANGED <<lock, changed>>
      BY <3>1 DEF TypedPlaces, LockTypeOK
    <3>2. CASE /\ lock' = [lock EXCEPT ![r][Now(r)] = got]
               /\ changed' = [changed EXCEPT ![r] = TRUE]
      <4> HIDE DEF got
      <4>1. got \in Entry
        BY <2>3 DEF got
      <4> QED BY <2>2, <3>2, <4>1 DEF Lock, TypedPlaces, LockTypeOK
    <3> QED BY <1>7, <3>1, <3>2 DEF ReadModule
  <2>5. \A q \in Runs : q # r => changed'[q] = changed[q]
    BY <1>7 DEF ReadModule, TypedPlaces, LockTypeOK
  <2>6. UNCHANGED <<imports, file, cache, tag, sha, history>>
    BY <1>7 DEF ReadModule, world
  <2> QED BY <2>1, <2>2, <2>4, <2>5, <2>6, ServeKeeps
<1>8. CASE Truncate(r)
  BY <1>8 DEF Truncate, NoEntries, Lock, TypedPlaces, LockTypeOK, Places, Importing, Transition, Goto, world, history, Ended, Live
<1>9. CASE Write(r)
  <2>1. file' \in Lock \cup {Torn}
    <3>1. lock[r] \in Lock /\ file \in Lock \cup {Torn}
      BY DEF TypedPlaces, LockTypeOK
    <3>2. CASE file # Torn /\ \E left \in SUBSET Pinned(file) \ {Pinned(file)} :
                 file' = [s \in Specs |-> IF s \in left THEN file[s] ELSE lock[r][s]]
      BY <3>1, <3>2 DEF Lock
    <3> QED BY <1>9, <3>1, <3>2 DEF Write
  <2> QED BY <1>9, <2>1 DEF Write, TypedPlaces, LockTypeOK, Places, Importing, Transition, Goto, world, history, Ended, Live
<1>10. CASE WriteFails(r) \/ Kill(r)
  <2>1. Live(r) /\ at' = [at EXCEPT ![r] = at'[r]] /\ at'[r] \in {"refused", "killed"}
    BY <1>10 DEF WriteFails, Kill, TypedPlaces, LockTypeOK, Places, Importing, Transition, Goto, world, history, Ended, Live
  <2>2. events' \in 0 .. MaxEvents
    BY <1>10, ProjectsAssumption DEF WriteFails, Kill, TypedPlaces, LockTypeOK
  <2>3. alone' = FALSE /\ UNCHANGED <<imports, file, cache, tag, next, lock, changed, sha,
                                     served, loaded, offline>>
    BY <1>10 DEF WriteFails, Kill, world
  <2>4. LockTypeOK'
    <3>1. at' \in [Runs -> {"start", "resolve", "clone", "read", "save", "write"} \cup Ended]
      BY <2>1 DEF TypedPlaces, LockTypeOK, Ended
    <3> QED BY <2>2, <2>3, <3>1 DEF TypedPlaces, LockTypeOK
  <2>5. Places'
    <3>1. \A q \in Runs : at'[q] \in {"start", "resolve", "clone", "read"} => at'[q] = at[q]
      BY <2>1 DEF TypedPlaces, LockTypeOK
    <3> QED BY <2>3, <3>1 DEF TypedPlaces, Places, Importing
  <2> QED BY <2>4, <2>5 DEF TypedPlaces
<1> QED BY <1>1, <1>2, <1>3, <1>4, <1>5, <1>6, <1>7, <1>8, <1>9, <1>10 DEF Import

LEMMA TypedPlacesWorld ==
  ASSUME TypedPlaces, World
  PROVE  TypedPlaces'
<1>1. ASSUME NEW s \in Specs, MoveTag(s)
      PROVE  TypedPlaces'
  BY <1>1, ProjectsAssumption DEF MoveTag, TypedPlaces, LockTypeOK, Places, Importing, Transition, Goto, world, history, Ended, Live
<1>2. ASSUME NEW c \in Shas, TouchCache(c)
      PROVE  TypedPlaces'
  BY <1>2, ProjectsAssumption DEF TouchCache, Hash, TypedPlaces, LockTypeOK, Places, Importing, Transition, Goto, world, history, Ended, Live
<1> QED BY <1>1, <1>2 DEF World

LEMMA TypedPlacesKept ==
  ASSUME TypedPlaces, [LockNext]_lockVars
  PROVE  TypedPlaces'
<1>1. CASE UNCHANGED lockVars
  BY <1>1 DEF lockVars, TypedPlaces, LockTypeOK, Places, Importing, world, history, Ended
<1> QED BY <1>1, TypedPlacesImport, TypedPlacesWorld DEF LockNext

-----------------------------------------------------------------------------
(* What the lock in memory, what was read from the file and what was given *)
(* to the run change in three actions only.                                *)
Quiet == UNCHANGED <<imports, lock, changed, served, loaded>>

LEMMA QuietSteps ==
  ASSUME NEW r \in Runs, Import(r)
  PROVE  Quiet \/ LoadLock(r) \/ ServeCached(r) \/ ReadModule(r)
BY DEF Import, Quiet, world, history, NoImports, LoadTorn, RefuseCached, AskTag, AskFails,
       Clone, CloneFails, RefuseModule, Truncate, Write, WriteFails, Kill

LEMMA QuietWorld == World => Quiet
BY DEF World, MoveTag, TouchCache, Quiet

LEMMA LoadEffect ==
  ASSUME TypedPlaces, NEW r \in Runs, LoadLock(r)
  PROVE  /\ at[r] = "start" /\ file \in Lock /\ ~changed[r]
         /\ \A s \in Specs : served[r][s] = None
         /\ lock'[r] = file /\ loaded'[r] = file
         /\ \A q \in Runs : q # r => lock'[q] = lock[q] /\ loaded'[q] = loaded[q]
         /\ at' = [at EXCEPT ![r] = "resolve"]
         /\ UNCHANGED <<imports, file, cache, tag, next, changed, sha, served>>
BY DEF LoadLock, TypedPlaces, LockTypeOK, Places, Transition, Goto, world

LEMMA ServeCachedEffect ==
  ASSUME TypedPlaces, NEW r \in Runs, ServeCached(r)
  PROVE  /\ at[r] = "resolve" /\ Now(r) \in Specs
         /\ Entered(r) = lock[r][Now(r)] /\ Entered(r) # None
         /\ \A q \in Runs : \A s \in Specs :
              served'[q][s] = IF q = r /\ s = Now(r) THEN Entered(r).hash ELSE served[q][s]
         /\ at' = [at EXCEPT ![r] = at'[r]]
         /\ at'[r] \in {"resolve", "save", "done"}
         /\ at'[r] = "save" <=> changed[r] /\ at'[r] # "resolve"
         /\ UNCHANGED <<imports, file, cache, tag, lock, changed, sha, history>>
<1>1. /\ at[r] = "resolve" /\ Importing(r) /\ Serve(r, Entered(r).hash)
      /\ Entered(r) = lock[r][Now(r)] /\ Entered(r) # None
      /\ UNCHANGED <<imports, file, cache, tag, lock, changed, sha, history>>
  BY DEF ServeCached, Importing, InCache, Entered, world
<1>2. Entered(r).hash \in Hash
  BY <1>1, EntryIsTyped DEF Entry
<1>3. Now(r) \in Specs
  BY <1>1, NowIsWanted
<1>4. changed' = changed
  BY <1>1
<1> QED BY <1>1, <1>2, <1>3, <1>4, ServeEffect

LEMMA ReadEffect ==
  ASSUME TypedPlaces, NEW r \in Runs, ReadModule(r)
  PROVE  /\ at[r] = "read" /\ Now(r) \in Specs
         /\ \A q \in Runs : \A s \in Specs :
              /\ served'[q][s] = IF q = r /\ s = Now(r) THEN cache[sha[r]] ELSE served[q][s]
              /\ ~(q = r /\ s = Now(r)) => lock'[q][s] = lock[q][s]
         /\ lock'[r][Now(r)] # None
         /\ lock'[r][Now(r)].hash = cache[sha[r]]
         /\ lock[r][Now(r)] # None => lock'[r][Now(r)] = lock[r][Now(r)]
         /\ changed'[r] \/ UNCHANGED <<lock, changed>>
         /\ \A q \in Runs : q # r => lock'[q] = lock[q] /\ changed'[q] = changed[q]
         /\ at' = [at EXCEPT ![r] = at'[r]]
         /\ at'[r] \in {"resolve", "save", "done"}
         /\ at'[r] = "save" <=> changed'[r] /\ at'[r] # "resolve"
         /\ UNCHANGED <<imports, file, cache, tag, sha, history>>
<1> DEFINE got == [sha |-> sha[r], hash |-> cache[sha[r]]]
<1>1. /\ at[r] = "read" /\ Importing(r) /\ Serve(r, cache[sha[r]])
      /\ UNCHANGED <<imports, file, cache, tag, sha, history>>
  BY DEF ReadModule, Importing, world
<1>2. cache[sha[r]] \in Hash /\ sha[r] \in Shas /\ Now(r) \in Specs
  BY <1>1, NowIsWanted DEF ReadModule, TypedPlaces, LockTypeOK, Places
<1>3. got \in Entry /\ got # None /\ got.hash = cache[sha[r]]
  BY <1>2, SpecialAssumption DEF Entry, Hash
<1>4. \/ /\ lock[r][Now(r)] = None
         /\ lock' = [lock EXCEPT ![r][Now(r)] = got]
         /\ changed' = [changed EXCEPT ![r] = TRUE]
      \/ lock[r][Now(r)] = got /\ UNCHANGED <<lock, changed>>
  BY DEF ReadModule, Entered
<1> HIDE DEF got
<1>5. lock \in [Runs -> [Specs -> Entry \cup {None}]] /\ changed \in [Runs -> BOOLEAN]
  BY DEF TypedPlaces, LockTypeOK, Lock
<1>6. /\ \A q \in Runs : \A s \in Specs : ~(q = r /\ s = Now(r)) => lock'[q][s] = lock[q][s]
      /\ lock'[r][Now(r)] = got
      /\ lock[r][Now(r)] # None => lock'[r][Now(r)] = lock[r][Now(r)]
      /\ changed'[r] \/ UNCHANGED <<lock, changed>>
      /\ \A q \in Runs : q # r => lock'[q] = lock[q] /\ changed'[q] = changed[q]
  BY <1>2, <1>4, <1>5
<1>7. /\ \A q \in Runs : \A s \in Specs :
           served'[q][s] = IF q = r /\ s = Now(r) THEN cache[sha[r]] ELSE served[q][s]
      /\ at' = [at EXCEPT ![r] = at'[r]]
      /\ at'[r] \in {"resolve", "save", "done"}
      /\ at'[r] = "save" <=> changed'[r] /\ at'[r] # "resolve"
  BY <1>1, <1>2, ServeEffect
<1> QED BY <1>1, <1>2, <1>3, <1>6, <1>7

(* What a run was given is what its lock says, and its lock still says     *)
(* what the file said when it was read.                                    *)
LEMMA PinsKept ==
  ASSUME TypedPlaces, ServedAsPinned, [LockNext]_lockVars
  PROVE  ServedAsPinned'
<1>1. CASE UNCHANGED lockVars \/ Quiet
  BY <1>1 DEF lockVars, history, Quiet, ServedAsPinned
<1>2. ASSUME NEW r \in Runs, LoadLock(r)
      PROVE  ServedAsPinned'
  BY <1>2, LoadEffect DEF ServedAsPinned
<1>3. ASSUME NEW r \in Runs, ServeCached(r)
      PROVE  ServedAsPinned'
  <2>1. /\ \A q \in Runs : \A s \in Specs :
             served'[q][s] = IF q = r /\ s = Now(r) THEN Entered(r).hash ELSE served[q][s]
        /\ Entered(r) = lock[r][Now(r)] /\ Entered(r) # None
        /\ lock' = lock /\ loaded' = loaded
    BY <1>3, ServeCachedEffect DEF history
  <2> QED BY <2>1 DEF ServedAsPinned
<1>4. ASSUME NEW r \in Runs, ReadModule(r)
      PROVE  ServedAsPinned'
  <2>1. /\ \A q \in Runs : \A s \in Specs :
             /\ served'[q][s] = IF q = r /\ s = Now(r) THEN cache[sha[r]] ELSE served[q][s]
             /\ ~(q = r /\ s = Now(r)) => lock'[q][s] = lock[q][s]
        /\ lock'[r][Now(r)] # None
        /\ lock'[r][Now(r)].hash = cache[sha[r]]
        /\ lock[r][Now(r)] # None => lock'[r][Now(r)] = lock[r][Now(r)]
        /\ loaded' = loaded
    BY <1>4, ReadEffect DEF history
  <2> QED BY <2>1 DEF ServedAsPinned
<1> QED BY <1>1, <1>2, <1>3, <1>4, QuietSteps, QuietWorld DEF LockNext

-----------------------------------------------------------------------------
(* For a run that has everything, each import is in the cache as locked.   *)
LEMMA OfflineIsCached ==
  ASSUME TypedPlaces, FromCache, NEW r \in Runs, offline[r], at[r] = "resolve"
  PROVE  InCache(r) /\ cache[Entered(r).sha] = Entered(r).hash
<1>1. Now(r) \in Wanted(r) /\ Importing(r)
  BY NowIsWanted DEF Importing
<1>2. Entered(r) # None /\ cache[Entered(r).sha] = Entered(r).hash
  BY <1>1 DEF FromCache, Entered
<1>3. Entered(r).hash # None
  BY <1>1, <1>2, EntryIsTyped, SpecialAssumption DEF Entry, Hash
<1> QED BY <1>2, <1>3 DEF InCache

(* The cache loses or changes nothing in the steps of a run.               *)
LEMMA CacheGrows ==
  ASSUME TypedPlaces, NEW r \in Runs, Import(r)
  PROVE  \A c \in Shas : cache[c] # None => cache'[c] = cache[c]
<1>1. CASE Clone(r)
  BY <1>1 DEF Clone, TypedPlaces, LockTypeOK
<1>2. CASE ~Clone(r)
  <2>1. cache' = cache
    BY <1>2 DEF Import, world, NoImports, LoadLock, LoadTorn, ServeCached, RefuseCached,
                AskTag, AskFails, CloneFails, ReadModule, RefuseModule, Truncate, Write,
                WriteFails, Kill
  <2> QED BY <2>1
<1> QED BY <1>1, <1>2

(* A run that could be refused, or has something to record, is not one     *)
(* that found everything.                                                  *)
LEMMA OfflineMoves ==
  ASSUME TypedPlaces, FromCache, NEW r \in Runs, Import(r), offline[r]
  PROVE  ServeCached(r) \/ (Kill(r) /\ Quiet)
<1>1. at[r] \in {"resolve", "done", "killed"}
  BY DEF FromCache
<1>2. at[r] = "resolve" => InCache(r) /\ cache[Entered(r).sha] = Entered(r).hash
  BY OfflineIsCached
<1> QED BY <1>1, <1>2 DEF Import, Transition, NoImports, LoadLock, LoadTorn, RefuseCached,
           AskTag, AskFails, Clone, CloneFails, ReadModule, RefuseModule, Truncate, Write,
           WriteFails, Kill, Quiet, world

(* ... and one becomes such a run only when it reads the lock.             *)
LEMMA OfflineBegins ==
  ASSUME TypedPlaces, NEW r \in Runs, Import(r), ~offline[r], offline'[r]
  PROVE  /\ LoadLock(r)
         /\ \A s \in Wanted(r) : file[s] # None /\ cache[file[s].sha] = file[s].hash
<1>1. LoadLock(r)
  BY ServeCachedEffect, ReadEffect
  DEF Import, history, NoImports, LoadTorn, RefuseCached, AskTag, AskFails, Clone, CloneFails,
      RefuseModule, Truncate, Write, WriteFails, Kill
<1> QED BY <1>1 DEF LoadLock, TypedPlaces, LockTypeOK

Everything(q) ==
  /\ at[q] \in {"resolve", "done", "killed"}
  /\ ~changed[q]
  /\ \A s \in Wanted(q) : lock[q][s] # None /\ cache[lock[q][s].sha] = lock[q][s].hash

LEMMA FromCacheImport ==
  ASSUME TypedPlaces, FromCache, NEW r \in Runs, Import(r)
  PROVE  FromCache'
<1>1. ASSUME NEW q \in Runs, offline'[q], q # r
      PROVE  Everything(q)'
  <2>1. /\ at'[q] = at[q] /\ changed'[q] = changed[q] /\ lock'[q] = lock[q]
        /\ offline[q] /\ imports' = imports
    <3>1. CASE LoadLock(r)
      <4>1. offline'[q] = offline[q]
        BY <1>1, <3>1 DEF LoadLock, TypedPlaces, LockTypeOK
      <4>2. /\ lock'[q] = lock[q] /\ at' = [at EXCEPT ![r] = "resolve"]
            /\ changed' = changed /\ imports' = imports
        BY <1>1, <3>1, LoadEffect
      <4> QED BY <1>1, <4>1, <4>2 DEF TypedPlaces, LockTypeOK
    <3>2. CASE ServeCached(r)
      <4>1. /\ at' = [at EXCEPT ![r] = at'[r]] /\ lock' = lock /\ changed' = changed
            /\ imports' = imports /\ offline' = offline
        BY <3>2, ServeCachedEffect DEF history
      <4> QED BY <1>1, <4>1 DEF TypedPlaces, LockTypeOK
    <3>3. CASE ReadModule(r)
      <4>1. /\ at' = [at EXCEPT ![r] = at'[r]] /\ imports' = imports /\ offline' = offline
            /\ lock'[q] = lock[q] /\ changed'[q] = changed[q]
        BY <1>1, <3>3, ReadEffect DEF history
      <4> QED BY <1>1, <4>1 DEF TypedPlaces, LockTypeOK
    <3>4. CASE ~(LoadLock(r) \/ ServeCached(r) \/ ReadModule(r))
      BY <1>1, <3>4
      DEF Import, world, history, Transition, Goto, NoImports, LoadTorn, RefuseCached, AskTag,
          AskFails, Clone, CloneFails, RefuseModule, Truncate, Write, WriteFails, Kill,
          TypedPlaces, LockTypeOK
    <3> QED BY <3>1, <3>2, <3>3, <3>4
  <2>2. ASSUME NEW s \in Wanted(q)
        PROVE  lock'[q][s] # None /\ cache'[lock'[q][s].sha] = lock'[q][s].hash
    <3>1. s \in Specs
      BY ElementOfSeq DEF Wanted, TypedPlaces, LockTypeOK
    <3>2. lock[q][s] # None /\ cache[lock[q][s].sha] = lock[q][s].hash
      BY <2>1 DEF FromCache
    <3>3. lock[q][s].sha \in Shas /\ lock[q][s].hash # None
      BY <3>1, <3>2, SpecialAssumption DEF TypedPlaces, LockTypeOK, Lock, Entry, Hash
    <3> QED BY <2>1, <3>2, <3>3, CacheGrows
  <2>3. Wanted(q)' = Wanted(q)
    BY <2>1 DEF Wanted
  <2> QED BY <2>1, <2>2, <2>3 DEF FromCache, Everything
<1>2. ASSUME offline[r], offline'[r]
      PROVE  Everything(r)'
  <2>1. Everything(r)
    BY <1>2 DEF FromCache, Everything
  <2>2. CASE ServeCached(r)
    <3>1. /\ at'[r] \in {"resolve", "done"}
          /\ UNCHANGED <<imports, lock, changed, cache>>
      BY <2>1, <2>2, ServeCachedEffect DEF Everything
    <3> QED BY <2>1, <3>1 DEF Everything, Wanted
  <2>3. CASE Kill(r) /\ Quiet
    <3>1. at'[r] = "killed" /\ cache' = cache
      BY <2>3 DEF Kill, Goto, world, TypedPlaces, LockTypeOK
    <3> QED BY <2>1, <2>3, <3>1 DEF Everything, Wanted, Quiet
  <2> QED BY <1>2, <2>2, <2>3, OfflineMoves
<1>3. ASSUME ~offline[r], offline'[r]
      PROVE  Everything(r)'
  <2>1. /\ LoadLock(r)
        /\ \A s \in Wanted(r) : file[s] # None /\ cache[file[s].sha] = file[s].hash
    BY <1>3, OfflineBegins
  <2>2. /\ at'[r] = "resolve" /\ ~changed'[r] /\ lock'[r] = file
        /\ UNCHANGED <<imports, cache>>
    BY <2>1, LoadEffect DEF TypedPlaces, LockTypeOK
  <2> QED BY <2>1, <2>2 DEF Everything, Wanted
<1> QED BY <1>1, <1>2, <1>3 DEF FromCache, Everything

LEMMA FromCacheKept ==
  ASSUME TypedPlaces, FromCache, [LockNext]_lockVars
  PROVE  FromCache'
<1>1. CASE UNCHANGED lockVars
  BY <1>1 DEF lockVars, world, history, FromCache, Wanted
<1>2. ASSUME NEW s \in Specs, MoveTag(s)
      PROVE  FromCache'
  BY <1>2 DEF MoveTag, FromCache, Wanted
<1>3. ASSUME NEW c \in Shas, TouchCache(c)
      PROVE  FromCache'
  BY <1>3 DEF TouchCache, FromCache
<1> QED BY <1>1, <1>2, <1>3, FromCacheImport DEF LockNext, World

-----------------------------------------------------------------------------
(* What a step of a run that is alone may do to the others: nothing.       *)
LEMMA AloneBegins ==
  ASSUME TypedPlaces, alone => OneByOne, NEW r \in Runs, LoadLock(r), alone'
  PROVE  OneByOne'
<1>1. alone /\ OneByOne /\ \A q \in Runs : ~Live(q)
  BY DEF LoadLock
<1>2. /\ file \in Lock /\ ~changed[r] /\ lock'[r] = file /\ loaded'[r] = file
      /\ at' = [at EXCEPT ![r] = "resolve"]
      /\ UNCHANGED <<file, changed, served>>
  BY LoadEffect
<1>3. \A q \in Runs : q # r => at'[q] = at[q]
  BY <1>2 DEF TypedPlaces, LockTypeOK
<1>4. at'[r] = "resolve"
  BY <1>2 DEF TypedPlaces, LockTypeOK
<1>5. \A q \in Runs : at[q] \notin {"write"}
  BY <1>1 DEF Live, Ended
<1> QED BY <1>1, <1>2, <1>3, <1>4, <1>5 DEF OneByOne, Live, Ended, Kept

LEMMA AloneServes ==
  ASSUME TypedPlaces, ServedAsPinned, ServedAsPinned', OneByOne, NEW r \in Runs,
         ServeCached(r) \/ ReadModule(r)
  PROVE  OneByOne'
<1>1. /\ at[r] \in {"resolve", "read"}
      /\ at' = [at EXCEPT ![r] = at'[r]]
      /\ at'[r] \in {"resolve", "save", "done"}
      /\ at'[r] = "save" <=> changed'[r] /\ at'[r] # "resolve"
      /\ changed'[r] \/ UNCHANGED <<lock, changed>>
      /\ \A q \in Runs : q # r => lock'[q] = lock[q] /\ changed'[q] = changed[q]
      /\ \A q \in Runs : q # r => \A s \in Specs : served'[q][s] = served[q][s]
      /\ file' = file /\ loaded' = loaded
  BY ServeCachedEffect, ReadEffect DEF history
<1>2. \A q \in Runs : q # r => at'[q] = at[q]
  BY <1>1 DEF TypedPlaces, LockTypeOK
<1>3. Live(r) /\ \A q \in Runs : q # r => ~Live(q) /\ at[q] # "write"
  BY <1>1 DEF OneByOne, Live, Ended
<1>4. \A q \in Runs : at[q] # "write" /\ at'[q] # "write"
  BY <1>1, <1>2, <1>3
<1>5. \A q \in Runs : Live(q)' => q = r
  BY <1>2, <1>3 DEF Live, Ended
<1>6. ~changed'[r] => lock'[r] = loaded'[r] /\ loaded'[r] = file'
  BY <1>1, <1>3, <1>4 DEF OneByOne
<1>7. ASSUME NEW q \in Runs, at'[q] = "done"
      PROVE  Kept(file, q)'
  <2>1. CASE q # r
    BY <1>1, <1>2, <1>4, <1>7, <2>1 DEF OneByOne, Kept
  <2>2. CASE q = r
    <3>1. ~changed'[r]
      BY <1>1, <1>7, <2>2
    <3> QED BY <1>6, <2>2, <3>1 DEF ServedAsPinned, Kept
  <2> QED BY <2>1, <2>2
<1>8. loaded'[r] = file'
  BY <1>1, <1>3, <1>4 DEF OneByOne
<1> QED BY <1>1, <1>4, <1>5, <1>6, <1>7, <1>8 DEF OneByOne

LEMMA AloneSaves ==
  ASSUME TypedPlaces, ServedAsPinned, OneByOne, NEW r \in Runs, Truncate(r) \/ Write(r)
  PROVE  OneByOne'
<1>1. /\ Live(r) /\ at' = [at EXCEPT ![r] = at'[r]]
      /\ UNCHANGED <<lock, changed, served, loaded>>
  BY DEF Truncate, Write, Transition, Goto, Live, Ended, history, TypedPlaces, LockTypeOK
<1>2. \A q \in Runs : q # r => at'[q] = at[q] /\ ~Live(q) /\ at[q] # "write"
  BY <1>1 DEF OneByOne, Live, Ended, TypedPlaces, LockTypeOK
<1>3. changed[r]
  BY <1>1 DEF OneByOne, Truncate, Write, Transition
<1>4. NoEntries \in Lock /\ NoEntries # Torn /\ lock[r] \in Lock /\ lock[r] # Torn
  BY SpecialAssumption DEF NoEntries, Lock, Entry, Hash, TypedPlaces, LockTypeOK
<1>5. CASE Truncate(r)
  <2>1. /\ at[r] = "save" /\ at'[r] = "write" /\ file' = NoEntries
    BY <1>5 DEF Truncate, Transition, Goto, TypedPlaces, LockTypeOK
  <2>2. loaded[r] = file /\ \A q \in Runs : at[q] = "done" => Kept(file, q)
    BY <1>1, <1>2, <2>1 DEF OneByOne
  <2>3. \A q \in Runs : at[q] = "done" => Kept(lock[r], q)
    BY <2>2 DEF Kept, ServedAsPinned
  <2> QED BY <1>1, <1>2, <1>3, <1>4, <2>1, <2>3 DEF OneByOne, Live, Ended, Kept
<1>6. CASE Write(r)
  <2>1. /\ at[r] = "write" /\ at'[r] = "done"
    BY <1>6 DEF Write, Transition, Goto, TypedPlaces, LockTypeOK
  <2>2. file = NoEntries /\ Pinned(file) = {}
    BY <2>1 DEF OneByOne, Pinned, NoEntries
  <2>3. file' = lock[r]
    BY <1>4, <1>6, <2>2 DEF Write
  <2>4. \A q \in Runs : at[q] = "done" => Kept(lock[r], q)
    BY <2>1 DEF OneByOne
  <2>5. Kept(lock[r], r)
    BY DEF Kept, ServedAsPinned
  <2> QED BY <1>1, <1>2, <1>4, <2>1, <2>3, <2>4, <2>5 DEF OneByOne, Live, Ended, Kept
<1> QED BY <1>5, <1>6

(* The other steps of a run end it, or leave it where it goes on.          *)
LEMMA AloneMoves ==
  ASSUME TypedPlaces, OneByOne, NEW r \in Runs, alone', Import(r),
         ~LoadLock(r), ~ServeCached(r), ~ReadModule(r), ~Truncate(r), ~Write(r)
  PROVE  OneByOne'
<1>1. UNCHANGED <<file, lock, changed, served, loaded>>
  BY DEF Import, world, history, NoImports, LoadTorn, RefuseCached, AskTag, AskFails, Clone,
         CloneFails, RefuseModule, WriteFails, Kill
<1>2. /\ at' = [at EXCEPT ![r] = at'[r]] /\ at[r] # "write"
      /\ \/ at'[r] = "refused"
         \/ at[r] = "start" /\ at'[r] = "done"
         \/ at[r] \in {"resolve", "clone"} /\ at'[r] \in {"clone", "read"}
  BY DEF Import, Transition, Goto, NoImports, LoadTorn, RefuseCached, AskTag, AskFails, Clone,
         CloneFails, RefuseModule, WriteFails, Kill, TypedPlaces, LockTypeOK
<1>3. \A q \in Runs : q # r => at'[q] = at[q]
  BY <1>2 DEF TypedPlaces, LockTypeOK
<1>4. \A q \in Runs : Live(q)' => Live(q)
  BY <1>2, <1>3 DEF Live, Ended
<1>5. at[r] = "start" => \A l : Kept(l, r)
  BY DEF TypedPlaces, Places, Kept
<1> QED BY <1>1, <1>2, <1>3, <1>4, <1>5 DEF OneByOne, Kept

LEMMA AloneKept ==
  ASSUME TypedPlaces, ServedAsPinned, ServedAsPinned', alone => OneByOne, [LockNext]_lockVars
  PROVE  (alone => OneByOne)'
<1> SUFFICES ASSUME alone' PROVE OneByOne'
  OBVIOUS
<1>1. CASE UNCHANGED lockVars \/ World
  <2>1. alone /\ UNCHANGED <<file, at, lock, changed, served, loaded>>
    BY <1>1 DEF lockVars, world, history, World, MoveTag, TouchCache
  <2> QED BY <2>1 DEF OneByOne, Live, Kept
<1>2. ASSUME NEW r \in Runs, Import(r)
      PROVE  OneByOne'
  <2>1. CASE LoadLock(r)
    BY <2>1, AloneBegins
  <2>2. CASE ~LoadLock(r)
    <3>1. alone
      BY <1>2, <2>2, ServeCachedEffect, ReadEffect
      DEF Import, history, NoImports, LoadTorn, RefuseCached, AskTag, AskFails, Clone,
          CloneFails, RefuseModule, Truncate, Write, WriteFails, Kill
    <3> QED BY <1>2, <2>2, <3>1, AloneServes, AloneSaves, AloneMoves
  <2> QED BY <2>1, <2>2
<1> QED BY <1>1, <1>2 DEF LockNext

LockInv == TypedPlaces /\ ServedAsPinned /\ FromCache /\ (alone => OneByOne)

(* LockInv is inductive.                                                   *)
THEOREM LockInvariant == LockSpec => []LockInv
<1>1. LockInit => ServedAsPinned /\ FromCache
  BY DEF LockInit, ServedAsPinned, FromCache, NoEntries
<1>2. LockInit => OneByOne
  <2> SUFFICES ASSUME LockInit PROVE OneByOne
    OBVIOUS
  <2>1. \A r \in Runs : at[r] = "start"
    BY DEF LockInit
  <2>2. file # Torn
    BY SpecialAssumption DEF LockInit, NoEntries
  <2> QED BY <2>1, <2>2 DEF OneByOne, Live, Ended
<1>3. LockInit => LockInv
  BY <1>1, <1>2, TypedPlacesInit DEF LockInv
<1>4. LockInv /\ [LockNext]_lockVars => LockInv'
  <2> SUFFICES ASSUME LockInv, [LockNext]_lockVars
               PROVE  LockInv'
    OBVIOUS
  <2>1. TypedPlaces'
    BY TypedPlacesKept DEF LockInv
  <2>2. ServedAsPinned'
    BY PinsKept DEF LockInv
  <2>3. FromCache'
    BY FromCacheKept DEF LockInv
  <2>4. (alone => OneByOne)'
    BY <2>2, AloneKept DEF LockInv
  <2> QED BY <2>1, <2>2, <2>3, <2>4 DEF LockInv
<1> QED BY <1>3, <1>4, PTL DEF LockSpec

(* The imports of a run keep their types: whatever SaveLock wrote over     *)
(* whatever, LoadLock reads a lock or refuses it.                          *)
THEOREM LockTypeCorrect == Spec => []LockTypeOK
<1>1. LockInv => LockTypeOK
  BY DEF LockInv, TypedPlaces
<1> QED BY <1>1, LockInvariant, LoadReadsImports, PTL

(* ResolveLocked (lock.go:64-105) gives a run what the lock says, or what  *)
(* it will write into it, whatever tags, caches and other runs do.         *)
THEOREM ServedIsPinned == Spec => []ServedAsPinned
<1>1. LockInv => ServedAsPinned
  BY DEF LockInv
<1> QED BY <1>1, LockInvariant, LoadReadsImports, PTL

(* ResolveLocked (lock.go:79-90) never refuses a run that found what it    *)
(* imports in the lock and the cache.                                      *)
THEOREM LockedRunsOffline == Spec => []OfflineAfterFirstLock
<1>1. LockInv => OfflineAfterFirstLock
  BY DEF LockInv, FromCache, OfflineAfterFirstLock
<1> QED BY <1>1, LockInvariant, LoadReadsImports, PTL

(* What lock.go:12-13 says of a moved tag, for runs that neither overlap   *)
(* nor die: one name is one module for good.                               *)
THEOREM NamesAreStable == Spec => []MovedTagRejectedAlone
<1>1. ASSUME LockInv, alone,
             NEW q \in Runs, NEW r \in Runs, at[q] = "done", at[r] = "done",
             NEW s \in Specs, served[q][s] # None, served[r][s] # None
      PROVE  served[q][s] = served[r][s]
  <2>1. CASE \A p \in Runs : at[p] # "write"
    BY <1>1, <2>1 DEF LockInv, OneByOne, Kept
  <2>2. ASSUME NEW p \in Runs, at[p] = "write"
        PROVE  served[q][s] = served[r][s]
    BY <1>1, <2>2 DEF LockInv, OneByOne, Kept
  <2> QED BY <2>1, <2>2
<1>2. LockInv => MovedTagRejectedAlone
  BY <1>1 DEF MovedTagRejectedAlone, MovedTagRejected
<1> QED BY <1>2, LockInvariant, LoadReadsImports, PTL

-----------------------------------------------------------------------------
(* CallCycles: the search is exact.  The invariant is the one of every     *)
(* depth-first search.  The path is a path of calls; a callee that a def   *)
(* of the path has behind it is done, or is the next of the path; what is  *)
(* done is closed under calls and holds no circle.                         *)

Walking == verdict = "walking"

(* The path, and what is left to walk from it.                             *)
PathOK ==
  /\ Walking => Len(rest) = Len(chain)
  /\ verdict = "cycle" =>
       \E i \in 1 .. Len(chain) : i < Len(chain) /\ chain[i] = chain[Len(chain)]
  /\ Len(chain) > 0 => chain[1] \in UserDefs
  /\ \A i \in 1 .. Len(chain) : i < Len(chain) => chain[i + 1] \in calls[chain[i]]

RestOK ==
  Walking => \A i \in 1 .. Len(chain) :
    /\ rest[i] \subseteq calls[chain[i]]
    /\ \A e \in calls[chain[i]] \ rest[i] :
         e \in done \/ (i < Len(chain) /\ chain[i + 1] = e)

(* What is done.                                                           *)
DoneOK ==
  /\ \A n \in done : calls[n] \subseteq done
  /\ \A S \in SUBSET done : ~Circle(S)

(* The defs of the project are walked from, one after the other.           *)
RootsOK ==
  /\ \A u \in UserDefs : u \in roots \/ u \in done \/ (Len(chain) > 0 /\ chain[1] = u)
  /\ verdict = "acyclic" => UserDefs \subseteq done

CycleInv == CycleTypeOK /\ PathOK /\ RestOK /\ DoneOK /\ RootsOK

-----------------------------------------------------------------------------
LEMMA UpTo ==
  ASSUME NEW n \in Nat, NEW i \in 1 .. n + 1
  PROVE  \/ i \in 1 .. n /\ i < n
         \/ i \in 1 .. n /\ i = n
         \/ i = n + 1 /\ ~(i < n + 1)
OBVIOUS

(* A stack grows and shrinks at its end.                                   *)
LEMMA Pushed ==
  ASSUME NEW S, NEW s \in Seq(S), NEW e \in S
  PROVE  /\ Append(s, e) \in Seq(S)
         /\ Len(Append(s, e)) = Len(s) + 1
         /\ Append(s, e)[Len(s) + 1] = e
         /\ \A i \in 1 .. Len(s) : Append(s, e)[i] = s[i]
BY AppendProperties

LEMMA Popped ==
  ASSUME NEW S, NEW s \in Seq(S), Len(s) > 0
  PROVE  /\ Pop(s) \in Seq(S)
         /\ Len(Pop(s)) = Len(s) - 1
         /\ \A i \in 1 .. Len(s) - 1 : Pop(s)[i] = s[i]
<1> DEFINE n == Len(s) - 1
<1>1. n \in Nat /\ \A i \in 1 .. n : s[i] \in S
  <2>1. PICK l \in Nat : l = Len(s)
    BY LenProperties
  <2> QED BY <2>1, ElementOfSeq
<1> HIDE DEF n
<1>2. /\ SubSeq(s, 1, n) \in Seq(S)
      /\ Len(SubSeq(s, 1, n)) = IF 1 <= n THEN n - 1 + 1 ELSE 0
      /\ \A i \in 1 .. n - 1 + 1 : SubSeq(s, 1, n)[i] = s[1 + i - 1]
  BY <1>1, SubSeqProperties
<1>3. /\ Len(SubSeq(s, 1, n)) = n
      /\ \A i \in 1 .. n : SubSeq(s, 1, n)[i] = s[i]
  BY <1>1, <1>2
<1>4. Pop(s) = SubSeq(s, 1, n)
  BY DEF Pop, n
<1>5. Pop(s) \in Seq(S) /\ Len(Pop(s)) = n /\ \A i \in 1 .. n : Pop(s)[i] = s[i]
  BY <1>2, <1>3, <1>4
<1> QED BY <1>5 DEF n

(* ... or is changed there.                                                *)
LEMMA Changed ==
  ASSUME NEW S, NEW s \in Seq(S), Len(s) > 0, NEW e \in S
  PROVE  /\ [s EXCEPT ![Len(s)] = e] \in Seq(S)
         /\ Len([s EXCEPT ![Len(s)] = e]) = Len(s)
         /\ \A j \in 1 .. Len(s) :
              [s EXCEPT ![Len(s)] = e][j] = IF j = Len(s) THEN e ELSE s[j]
<1> DEFINE k == Len(s)
<1>1. k \in 1 .. Len(s) /\ k = Len(s)
  BY LenProperties
<1> HIDE DEF k
<1>2. /\ [s EXCEPT ![k] = e] \in Seq(S) /\ Len([s EXCEPT ![k] = e]) = Len(s)
      /\ \A j \in 1 .. Len(s) : [s EXCEPT ![k] = e][j] = IF j = k THEN e ELSE s[j]
  BY <1>1, ExceptSeq
<1> QED BY <1>2 DEF k

(* Nothing that is done can be on a circle, and a def all of whose callees *)
(* are done is on none.                                                    *)
LEMMA NoCircleIsAdded ==
  ASSUME DoneOK, NEW n, calls[n] \subseteq done
  PROVE  /\ \A m \in done \cup {n} : calls[m] \subseteq done \cup {n}
         /\ \A S \in SUBSET (done \cup {n}) : ~Circle(S)
<1>1. \A m \in done \cup {n} : calls[m] \subseteq done
  BY DEF DoneOK
<1>2. SUFFICES ASSUME NEW S \in SUBSET (done \cup {n}), Circle(S)
               PROVE  FALSE
  BY <1>1
<1>3. S \cap done \in SUBSET done
  OBVIOUS
<1>4. S \cap done # {}
  BY <1>1, <1>2 DEF Circle
<1>5. \A d \in S \cap done : calls[d] \cap (S \cap done) # {}
  BY <1>1, <1>2 DEF Circle
<1> QED BY <1>3, <1>4, <1>5 DEF Circle, DoneOK

-----------------------------------------------------------------------------
LEMMA CycleInvInit == CycleInit => CycleInv
<1> SUFFICES ASSUME CycleInit PROVE CycleInv
  OBVIOUS
<1>1. Len(chain) = 0 /\ Len(rest) = 0 /\ chain \in Seq(Defs) /\ rest \in Seq(SUBSET Defs)
  BY EmptySeq DEF CycleInit
<1>2. CycleTypeOK
  BY <1>1, GraphsAssumption DEF CycleInit, CycleTypeOK
<1>3. PathOK /\ RestOK /\ RootsOK
  BY <1>1 DEF CycleInit, PathOK, RestOK, RootsOK, Walking
<1>4. DoneOK
  BY DEF CycleInit, DoneOK, Circle
<1> QED BY <1>2, <1>3, <1>4 DEF CycleInv

(* A def that is not done is walked into: the path and what is left grow   *)
(* by one.                                                                 *)
Entering(d, left) ==
  /\ left \in Seq(SUBSET Defs) /\ Len(left) = Len(chain)
  /\ \A i \in 1 .. Len(chain) :
       /\ left[i] \subseteq calls[chain[i]]
       /\ \A e \in calls[chain[i]] \ left[i] :
            e \in done \/ e = IF i < Len(chain) THEN chain[i + 1] ELSE d
  /\ Len(chain) = 0 => d \in UserDefs
  /\ Len(chain) > 0 => d \in calls[chain[Len(chain)]]
  /\ chain' = Append(chain, d) /\ rest' = Append(left, calls[d])
  /\ roots' \subseteq roots
  /\ \A u \in roots \ roots' : u = d /\ Len(chain) = 0
  /\ UNCHANGED <<calls, done, verdict>>

LEMMA EnterKeeps ==
  ASSUME CycleInv, Walking, NEW d \in Defs, NEW left, Entering(d, left)
  PROVE  CycleInv'
<1>0. PICK n \in Nat : n = Len(chain)
  BY LenProperties DEF CycleInv, CycleTypeOK
<1>1. chain \in Seq(Defs) /\ calls[d] \in SUBSET Defs
  BY DEF CycleInv, CycleTypeOK
<1>3. /\ chain' \in Seq(Defs)
      /\ Len(chain') = n + 1
      /\ chain'[n + 1] = d
      /\ \A i \in 1 .. n : chain'[i] = chain[i]
  BY <1>0, <1>1, Pushed DEF Entering
<1>4. /\ rest' \in Seq(SUBSET Defs)
      /\ Len(rest') = n + 1
      /\ rest'[n + 1] = calls[d]
      /\ \A i \in 1 .. n : rest'[i] = left[i]
  BY <1>0, <1>1, Pushed DEF Entering
<1>5. CycleTypeOK'
  BY <1>3, <1>4 DEF CycleInv, CycleTypeOK, Entering
<1>6. PathOK'
  <2>1. (Len(chain) > 0 => chain[1] \in UserDefs)'
    BY <1>0, <1>3 DEF CycleInv, PathOK, Entering
  <2>2. ASSUME NEW i \in 1 .. n + 1, i < n + 1
        PROVE  chain'[i + 1] \in calls'[chain'[i]]
    <3>1. CASE i \in 1 .. n /\ i < n
      <4>1. chain[i + 1] \in calls[chain[i]]
        BY <1>0, <3>1 DEF CycleInv, PathOK
      <4>2. chain'[i + 1] = chain[i + 1] /\ chain'[i] = chain[i]
        BY <1>3, <3>1
      <4> QED BY <4>1, <4>2 DEF Entering
    <3>2. CASE i \in 1 .. n /\ i = n
      BY <1>0, <1>3, <3>2 DEF Entering
    <3> QED BY UpTo, <2>2, <3>1, <3>2
  <2> QED BY <1>3, <1>4, <2>1, <2>2 DEF PathOK, Walking, Entering
<1>7. RestOK'
  <2>1. ASSUME NEW i \in 1 .. n + 1
        PROVE  /\ rest'[i] \subseteq calls'[chain'[i]]
               /\ \A e \in calls'[chain'[i]] \ rest'[i] :
                    e \in done' \/ (i < n + 1 /\ chain'[i + 1] = e)
    <3>1. CASE i \in 1 .. n /\ i < n
      <4>1. chain'[i + 1] = chain[i + 1] /\ chain'[i] = chain[i] /\ rest'[i] = left[i]
        BY <1>3, <1>4, <3>1
      <4> QED BY <1>0, <3>1, <4>1 DEF Entering
    <3>2. CASE i \in 1 .. n /\ i = n
      BY <1>0, <1>3, <1>4, <3>2 DEF Entering
    <3>3. CASE i = n + 1
      BY <1>3, <1>4, <3>3 DEF Entering
    <3> QED BY UpTo, <3>1, <3>2, <3>3
  <2> QED BY <1>3, <2>1 DEF RestOK
<1>8. DoneOK'
  BY DEF CycleInv, DoneOK, Circle, Entering
<1>9. RootsOK'
  BY <1>0, <1>3 DEF CycleInv, RootsOK, Walking, Entering
<1> QED BY <1>5, <1>6, <1>7, <1>8, <1>9 DEF CycleInv

LEMMA WalkRootKeeps ==
  ASSUME CycleInv, NEW d \in Defs, WalkRoot(d)
  PROVE  CycleInv'
<1>1. d \in UserDefs /\ Walking /\ Len(chain) = 0
  BY EmptySeq DEF WalkRoot, CycleInv, CycleTypeOK, Walking
<1>2. CASE d \in done
  <2>1. roots' = roots \ {d} /\ UNCHANGED <<calls, chain, rest, done, verdict>>
    BY <1>2 DEF WalkRoot
  <2> QED BY <1>1, <1>2, <2>1
       DEF CycleInv, CycleTypeOK, PathOK, RestOK, DoneOK, RootsOK, Circle, Walking
<1>3. CASE d \notin done
  <2>1. rest \in Seq(SUBSET Defs) /\ Len(rest) = Len(chain)
    BY <1>1 DEF CycleInv, CycleTypeOK, PathOK
  <2>2. Entering(d, rest)
    BY <1>1, <1>3, <2>1 DEF Entering, WalkRoot, Enter
  <2> QED BY <1>1, <2>2, EnterKeeps
<1> QED BY <1>2, <1>3

LEMMA WalkCalleeKeeps ==
  ASSUME CycleInv, NEW d \in Defs, WalkCallee(d)
  PROVE  CycleInv'
<1> DEFINE left == [rest EXCEPT ![Len(rest)] = @ \ {d}]
<1>1. PICK n \in Nat : n = Len(chain)
  BY LenProperties DEF CycleInv, CycleTypeOK
<1>2. /\ Walking /\ n > 0 /\ Len(rest) = n
      /\ chain \in Seq(Defs) /\ rest \in Seq(SUBSET Defs)
      /\ d \in rest[n] /\ d \in calls[chain[n]]
  <2>1. /\ Walking /\ Len(rest) = n /\ chain # <<>> /\ d \in rest[n]
        /\ chain \in Seq(Defs) /\ rest \in Seq(SUBSET Defs)
    BY <1>1 DEF WalkCallee, CycleInv, CycleTypeOK, PathOK, Walking
  <2>2. n > 0
    BY <1>1, <2>1, EmptySeq
  <2> QED BY <1>1, <2>1, <2>2 DEF CycleInv, RestOK
<1>3. rest[n] \ {d} \in SUBSET Defs
  BY <1>2, ElementOfSeq
<1>4. /\ left \in Seq(SUBSET Defs) /\ Len(left) = n
      /\ left[n] = rest[n] \ {d}
      /\ \A i \in 1 .. n : i < n => left[i] = rest[i]
  BY <1>2, <1>3, Changed
<1> HIDE DEF left
<1>5. CASE d \in done /\ rest' = left /\ UNCHANGED <<calls, roots, chain, done, verdict>>
  <2>1. RestOK'
    <3>1. ASSUME NEW i \in 1 .. n
          PROVE  /\ rest'[i] \subseteq calls'[chain'[i]]
                 /\ \A e \in calls'[chain'[i]] \ rest'[i] :
                      e \in done' \/ (i < n /\ chain'[i + 1] = e)
      <4>1. CASE i < n
        BY <1>1, <1>2, <1>4, <1>5, <4>1 DEF CycleInv, RestOK
      <4>2. CASE i = n
        BY <1>1, <1>2, <1>4, <1>5, <4>2 DEF CycleInv, RestOK
      <4> QED BY <4>1, <4>2
    <3> QED BY <1>1, <1>5, <3>1 DEF RestOK
  <2>2. CycleTypeOK' /\ PathOK' /\ DoneOK' /\ RootsOK'
    BY <1>1, <1>2, <1>4, <1>5
    DEF CycleInv, CycleTypeOK, PathOK, DoneOK, RootsOK, Circle, Walking
  <2> QED BY <2>1, <2>2 DEF CycleInv
<1>6. CASE /\ d \in OnPath /\ verdict' = "cycle" /\ chain' = Append(chain, d)
           /\ UNCHANGED <<calls, roots, rest, done>>
  <2>1. /\ chain' \in Seq(Defs) /\ Len(chain') = n + 1 /\ chain'[n + 1] = d
        /\ \A i \in 1 .. n : chain'[i] = chain[i]
    BY <1>1, <1>2, <1>6, Pushed
  <2>2. PICK k \in 1 .. n : chain[k] = d
    BY <1>1, <1>6 DEF OnPath
  <2>3. CycleTypeOK'
    BY <1>6, <2>1 DEF CycleInv, CycleTypeOK
  <2>4. PathOK'
    <3>1. k \in 1 .. n + 1 /\ k < n + 1 /\ chain'[k] = chain'[n + 1]
      BY <2>1, <2>2
    <3>2. chain'[1] \in UserDefs
      BY <1>1, <1>2, <2>1 DEF CycleInv, PathOK
    <3>3. ASSUME NEW i \in 1 .. n + 1, i < n + 1
          PROVE  chain'[i + 1] \in calls'[chain'[i]]
      <4>1. CASE i \in 1 .. n /\ i < n
        <5>1. chain[i + 1] \in calls[chain[i]]
          BY <1>1, <4>1 DEF CycleInv, PathOK
        <5>2. chain'[i + 1] = chain[i + 1] /\ chain'[i] = chain[i]
          BY <2>1, <4>1
        <5> QED BY <1>6, <5>1, <5>2
      <4>2. CASE i \in 1 .. n /\ i = n
        BY <1>2, <1>6, <2>1, <4>2
      <4> QED BY UpTo, <3>3, <4>1, <4>2
    <3>4. verdict' # "walking"
      BY <1>6
    <3> QED BY <2>1, <3>1, <3>2, <3>3, <3>4 DEF PathOK, Walking
  <2>5. RestOK' /\ DoneOK'
    BY <1>6 DEF CycleInv, RestOK, DoneOK, Circle, Walking
  <2>6. RootsOK'
    BY <1>1, <1>2, <1>6, <2>1 DEF CycleInv, RootsOK, Walking
  <2> QED BY <2>3, <2>4, <2>5, <2>6 DEF CycleInv
<1>7. CASE /\ d \notin done /\ chain' = Append(chain, d) /\ rest' = Append(left, calls[d])
           /\ UNCHANGED <<calls, roots, done, verdict>>
  <2>1. ASSUME NEW i \in 1 .. n
        PROVE  /\ left[i] \subseteq calls[chain[i]]
               /\ \A e \in calls[chain[i]] \ left[i] :
                    e \in done \/ e = IF i < n THEN chain[i + 1] ELSE d
    <3>1. CASE i < n
      BY <1>1, <1>2, <1>4, <3>1 DEF CycleInv, RestOK
    <3>2. CASE i = n
      BY <1>1, <1>2, <1>4, <3>2 DEF CycleInv, RestOK
    <3> QED BY <3>1, <3>2
  <2>2. /\ left \in Seq(SUBSET Defs) /\ Len(left) = Len(chain)
        /\ \A i \in 1 .. Len(chain) :
             /\ left[i] \subseteq calls[chain[i]]
             /\ \A e \in calls[chain[i]] \ left[i] :
                  e \in done \/ e = IF i < Len(chain) THEN chain[i + 1] ELSE d
    BY <1>1, <1>4, <2>1
  <2>3. Len(chain) > 0 /\ d \in calls[chain[Len(chain)]] /\ ~(Len(chain) = 0)
    BY <1>1, <1>2
  <2>4. Entering(d, left)
    BY <1>7, <2>2, <2>3 DEF Entering
  <2> QED BY <1>2, <2>4, EnterKeeps
<1> QED BY <1>5, <1>6, <1>7 DEF WalkCallee, left

LEMMA ReturnKeeps ==
  ASSUME CycleInv, Return
  PROVE  CycleInv'
<1>1. PICK n \in Nat : n = Len(chain)
  BY LenProperties DEF CycleInv, CycleTypeOK
<1>2. /\ Walking /\ n > 0 /\ Len(rest) = n
      /\ chain \in Seq(Defs) /\ rest \in Seq(SUBSET Defs)
      /\ rest[n] = {}
  <2>1. /\ Walking /\ Len(rest) = n /\ chain # <<>> /\ rest[n] = {}
        /\ chain \in Seq(Defs) /\ rest \in Seq(SUBSET Defs)
    BY <1>1 DEF Return, CycleInv, CycleTypeOK, PathOK, Walking
  <2> QED BY <1>1, <2>1, EmptySeq
<1>3. /\ chain' \in Seq(Defs) /\ Len(chain') = n - 1
      /\ \A i \in 1 .. n - 1 : chain'[i] = chain[i]
  BY <1>1, <1>2, Popped DEF Return
<1>4. /\ rest' \in Seq(SUBSET Defs) /\ Len(rest') = n - 1
      /\ \A i \in 1 .. n - 1 : rest'[i] = rest[i]
  BY <1>2, Popped DEF Return
<1>5. done' = done \cup {chain[n]} /\ chain[n] \in Defs
  BY <1>1, <1>2, ElementOfSeq DEF Return
<1>6. CycleTypeOK'
  BY <1>3, <1>4, <1>5 DEF CycleInv, CycleTypeOK, Return
<1>7. PathOK'
  <2>1. ASSUME NEW i \in 1 .. n - 1, i < n - 1
        PROVE  chain'[i + 1] \in calls'[chain'[i]]
    <3>1. chain[i + 1] \in calls[chain[i]]
      BY <1>1, <2>1 DEF CycleInv, PathOK
    <3>2. chain'[i + 1] = chain[i + 1] /\ chain'[i] = chain[i]
      BY <1>3, <2>1
    <3> QED BY <3>1, <3>2 DEF Return
  <2>2. n - 1 > 0 => chain'[1] \in UserDefs
    BY <1>1, <1>2, <1>3 DEF CycleInv, PathOK
  <2>3. verdict' = "walking"
    BY <1>2 DEF Return, Walking
  <2> QED BY <1>3, <1>4, <2>1, <2>2, <2>3 DEF PathOK, Walking
<1>8. RestOK'
  <2>1. ASSUME NEW i \in 1 .. n - 1
        PROVE  /\ rest'[i] \subseteq calls'[chain'[i]]
               /\ \A e \in calls'[chain'[i]] \ rest'[i] :
                    e \in done' \/ (i < n - 1 /\ chain'[i + 1] = e)
    <3>1. /\ rest[i] \subseteq calls[chain[i]]
          /\ \A e \in calls[chain[i]] \ rest[i] : e \in done \/ chain[i + 1] = e
      BY <1>1, <1>2 DEF CycleInv, RestOK
    <3>2. CASE i < n - 1
      <4>1. chain'[i + 1] = chain[i + 1]
        BY <1>3, <3>2
      <4> QED BY <1>3, <1>4, <1>5, <3>1, <3>2, <4>1 DEF Return
    <3>3. CASE i = n - 1
      <4>1. chain[i + 1] = chain[n]
        BY <3>3
      <4> QED BY <1>3, <1>4, <1>5, <3>1, <4>1 DEF Return
    <3> QED BY <3>2, <3>3
  <2> QED BY <1>3, <2>1 DEF RestOK
<1>9. DoneOK'
  <2>1. calls[chain[n]] \subseteq done
    BY <1>1, <1>2 DEF CycleInv, RestOK
  <2>2. /\ \A m \in done \cup {chain[n]} : calls[m] \subseteq done \cup {chain[n]}
        /\ \A S \in SUBSET (done \cup {chain[n]}) : ~Circle(S)
    BY <2>1, NoCircleIsAdded DEF CycleInv
  <2>3. calls' = calls
    BY DEF Return
  <2> QED BY <1>5, <2>2, <2>3 DEF DoneOK, Circle
<1>10. RootsOK'
  <2>1. ASSUME NEW u \in UserDefs, u \notin roots', u \notin done'
        PROVE  n - 1 > 0 /\ chain'[1] = u
    <3>1. chain[1] = u
      BY <1>5, <2>1 DEF CycleInv, RootsOK, Return
    <3>2. n # 1
      BY <1>5, <2>1, <3>1
    <3> QED BY <1>2, <1>3, <3>1, <3>2
  <2>2. verdict' = "walking"
    BY <1>2 DEF Return, Walking
  <2> QED BY <1>3, <2>1, <2>2 DEF RootsOK
<1> QED BY <1>6, <1>7, <1>8, <1>9, <1>10 DEF CycleInv

LEMMA AllWalkedKeeps ==
  ASSUME CycleInv, AllWalked
  PROVE  CycleInv'
<1>1. Len(chain) = 0 /\ verdict' = "acyclic" /\ roots = {}
      /\ UNCHANGED <<calls, roots, chain, rest, done>>
  BY EmptySeq DEF AllWalked
<1>2. UserDefs \subseteq done
  BY <1>1 DEF CycleInv, RootsOK
<1> QED BY <1>1, <1>2
     DEF CycleInv, CycleTypeOK, PathOK, RestOK, DoneOK, RootsOK, Circle, Walking

(* CycleInv is inductive.                                                  *)
THEOREM CycleInvariant == CycleSpec => []CycleInv
<1>1. CycleInv /\ [CheckCycles]_cycleVars => CycleInv'
  <2> SUFFICES ASSUME CycleInv, [CheckCycles]_cycleVars
               PROVE  CycleInv'
    OBVIOUS
  <2>1. ASSUME NEW d \in Defs, WalkRoot(d)
        PROVE  CycleInv'
    BY <2>1, WalkRootKeeps
  <2>2. ASSUME NEW d \in Defs, WalkCallee(d)
        PROVE  CycleInv'
    BY <2>2, WalkCalleeKeeps
  <2>3. CASE Return
    BY <2>3, ReturnKeeps
  <2>4. CASE AllWalked
    BY <2>4, AllWalkedKeeps
  <2>5. CASE UNCHANGED cycleVars
    BY <2>5
    DEF cycleVars, CycleInv, CycleTypeOK, PathOK, RestOK, DoneOK, RootsOK, Circle, Walking
  <2> QED BY <2>1, <2>2, <2>3, <2>4, <2>5 DEF CheckCycles
<1> QED BY <1>1, CycleInvInit, PTL DEF CycleSpec

(* What CheckCycles (cycles.go:86-103) lets through cannot get to a circle *)
(* of defs, and the chain it refuses a project with is one, whatever defs  *)
(* there are and whatever they call.                                       *)
THEOREM CycleSearchIsExact == Spec => []ExactlyCirclesAreRefused
<1>1. ASSUME CycleInv
      PROVE  NoCircleIsLetThrough
  <2> SUFFICES ASSUME verdict = "acyclic"
               PROVE  ~\E S \in SUBSET Reachable : Circle(S)
    BY DEF NoCircleIsLetThrough
  <2>1. done \in SUBSET Defs /\ Closed(done)
    BY <1>1 DEF CycleInv, CycleTypeOK, DoneOK, RootsOK, Closed
  <2>2. Reachable \subseteq done
    BY <2>1 DEF Reachable
  <2> QED BY <1>1, <2>2 DEF CycleInv, DoneOK
<1>2. ASSUME CycleInv
      PROVE  ChainIsCircle
  <2> SUFFICES ASSUME verdict = "cycle"
               PROVE  /\ chain[1] \in UserDefs
                      /\ \A i \in 1 .. Len(chain) - 1 : chain[i + 1] \in calls[chain[i]]
                      /\ \E i \in 1 .. Len(chain) - 1 : chain[i] = chain[Len(chain)]
    BY DEF ChainIsCircle
  <2>1. PICK n \in Nat : n = Len(chain)
    BY <1>2, LenProperties DEF CycleInv, CycleTypeOK
  <2>2. PICK k \in 1 .. n : k < n /\ chain[k] = chain[n]
    BY <1>2, <2>1 DEF CycleInv, PathOK
  <2>3. n > 0 /\ k \in 1 .. n - 1
    BY <2>2
  <2>4. chain[1] \in UserDefs
    BY <1>2, <2>1, <2>3 DEF CycleInv, PathOK
  <2>5. \A i \in 1 .. n - 1 : chain[i + 1] \in calls[chain[i]]
    BY <1>2, <2>1 DEF CycleInv, PathOK
  <2> QED BY <2>1, <2>2, <2>3, <2>4, <2>5
<1> QED BY <1>1, <1>2, CycleInvariant, LoadSearchesCalls, PTL DEF ExactlyCirclesAreRefused

-----------------------------------------------------------------------------
(* PlanValues: what the plan marks as a path of the control host is served.*)
(* A call is read into a step that marks it; the allow-list is made of the *)
(* steps once all are read, and they are as they were when they are sent.  *)

(* A step as `call` leaves it.                                             *)
MarksAssets(s) ==
  /\ {"refs", "templates", "args", "control", "written"} \subseteq DOMAIN s
  /\ \A p \in DOMAIN s.written.args :
       s.written.args[p].form = "asset" /\ ~Deferred(s.written.args[p].text) =>
         p \in s.control /\ p \in DOMAIN s.args /\ p \notin DOMAIN s.refs \cup DOMAIN s.templates

(* The blocks are made of such steps.                                      *)
BlockSet(S, H) == [hosts : H, calls : Seq(S)]
BlocksOf(bs, S, H) ==
  /\ bs \in Seq(BlockSet(S, H))
  /\ \A s \in S : MarksAssets(s)

AllServed == ControlResources \subseteq allow \cup Outside

(* A message is one of these steps, resolved.                              *)
SentFrom(m) ==
  \E s \in AllSteps :
    /\ m.step.written = s.written /\ m.step.control = s.control
    /\ \A p \in DOMAIN s.args \ (DOMAIN s.refs \cup DOMAIN s.templates) :
         m.step.args[p] = s.args[p]

PlanInv ==
  /\ \E S, H : BlocksOf(blocks, S, H)
  /\ pass = "expanding" => AllServed
  /\ sent # {} => pass = "expanding"
  /\ \A m \in sent : SentFrom(m)

LEMMA StepMarksAssets ==
  ASSUME NEW c, NEW loop
  PROVE  MarksAssets(StepOf(c, loop))
<1> DEFINE s == StepOf(c, loop)
           args == ArgsOf(c)
<1>1. /\ s.written.args = args
      /\ s.control = {p \in DOMAIN args : args[p].form \in {"asset"}}
      /\ DOMAIN s.refs = {p \in DOMAIN args : args[p].form \in {"bare"}}
  BY DEF StepOf
<1>2. /\ \A p \in DOMAIN s.templates : p \in DOMAIN args /\ Deferred(args[p].text)
      /\ \A p \in DOMAIN args : args[p].form = "asset" /\ ~Deferred(args[p].text) => p \in DOMAIN s.args
  BY DEF StepOf
<1>3. {"refs", "templates", "args", "control", "written"} \subseteq DOMAIN s
  BY DEF StepOf
<1> HIDE DEF s, args
<1>4. \A p \in DOMAIN s.written.args :
        s.written.args[p].form = "asset" /\ ~Deferred(s.written.args[p].text) =>
          p \in s.control /\ p \in DOMAIN s.args /\ p \notin DOMAIN s.refs \cup DOMAIN s.templates
  BY <1>1, <1>2
<1>5. MarksAssets(s)
  BY <1>3, <1>4 DEF MarksAssets
<1> QED BY <1>5 DEF s

(* The steps are of the blocks.                                            *)
LEMMA StepsAreOf ==
  ASSUME NEW S, NEW H, BlocksOf(blocks, S, H)
  PROVE  \A s \in AllSteps : s \in S /\ MarksAssets(s)
<1>1. ASSUME NEW s \in AllSteps PROVE s \in S
  <2>1. PICK b \in DOMAIN blocks : s \in Steps(b)
    BY DEF AllSteps
  <2>2. blocks[b] \in BlockSet(S, H)
    <3>1. blocks \in Seq(BlockSet(S, H))
      BY DEF BlocksOf
    <3> QED BY <2>1, <3>1
  <2>3. blocks[b].calls \in Seq(S)
    BY <2>2 DEF BlockSet
  <2>4. PICK i \in DOMAIN blocks[b].calls : s = blocks[b].calls[i]
    BY <2>1 DEF Steps
  <2> QED BY <2>3, <2>4
<1> QED BY <1>1 DEF BlocksOf

LEMMA PlanInvInit ==
  ASSUME PlanInit PROVE PlanInv
<1>1. BlocksOf(blocks, {}, {})
  BY DEF PlanInit, BlocksOf
<1> QED BY <1>1 DEF PlanInit, PlanInv

(* A step that sends nothing yet.                                          *)
LEMMA ReadsOn ==
  ASSUME PlanInv, UNCHANGED <<allow, sent>>, pass # "expanding", pass' # "expanding",
         \E S, H : BlocksOf(blocks', S, H)
  PROVE  PlanInv'
<1>1. sent = {}
  BY DEF PlanInv
<1> QED BY <1>1 DEF PlanInv

LEMMA SameBlocks ==
  ASSUME PlanInv, blocks' = blocks PROVE \E S, H : BlocksOf(blocks', S, H)
BY DEF PlanInv, BlocksOf

LEMMA ReadBlockKeeps ==
  ASSUME PlanInv, ReadBlock PROVE \E S, H : BlocksOf(blocks', S, H)
<1>1. PICK S, H : BlocksOf(blocks, S, H)
  BY DEF PlanInv
<1> DEFINE G == H \cup {Stmt.hosts}
           b == [hosts |-> Stmt.hosts, calls |-> <<>>]
<1>2. b \in BlockSet(S, G)
  BY DEF BlockSet
<1>3. blocks' = Append(blocks, b)
  BY DEF ReadBlock
<1>4. blocks \in Seq(BlockSet(S, H)) /\ BlockSet(S, H) \subseteq BlockSet(S, G)
  BY <1>1 DEF BlocksOf, BlockSet
<1> HIDE DEF b, G
<1>5. blocks' \in Seq(BlockSet(S, G))
  BY <1>2, <1>3, <1>4
<1>6. BlocksOf(blocks', S, G)
  BY <1>1, <1>5 DEF BlocksOf
<1> QED BY <1>6

LEMMA ReadCallKeeps ==
  ASSUME PlanInv, blocks' = [blocks EXCEPT ![Len(blocks)].calls = Append(@, StepOf(Stmt, Loop))]
  PROVE  \E S, H : BlocksOf(blocks', S, H)
<1>1. PICK S, H : BlocksOf(blocks, S, H)
  BY DEF PlanInv
<1> DEFINE s == StepOf(Stmt, Loop)
           T == S \cup {s}
           n == Len(blocks)
           b == [blocks[n] EXCEPT !.calls = Append(@, s)]
<1>2. \A t \in T : MarksAssets(t)
  BY <1>1, StepMarksAssets DEF BlocksOf
<1>3. blocks \in Seq(BlockSet(S, H)) /\ n \in Nat /\ DOMAIN blocks = 1 .. n
  BY <1>1 DEF BlocksOf
<1>4. s \in T /\ S \subseteq T
  OBVIOUS
<1> HIDE DEF s, T
<1>5. blocks \in Seq(BlockSet(T, H))
  <2>1. BlockSet(S, H) \subseteq BlockSet(T, H)
    BY <1>4 DEF BlockSet
  <2> QED BY <1>3, <2>1
<1>6. blocks' = [blocks EXCEPT ![n] = b]
  BY <1>3 DEF s
<1>7. CASE n = 0
  <2>1. blocks' = blocks
    BY <1>3, <1>6, <1>7
  <2> QED BY <2>1, SameBlocks
<1>8. CASE n # 0
  <2>1. n \in 1 .. Len(blocks)
    BY <1>3, <1>8
  <2>2. blocks[n] \in BlockSet(T, H)
    BY <1>5, <2>1
  <2>3. b \in BlockSet(T, H)
    <3>1. \A q \in Seq(T) : Append(q, s) \in Seq(T)
      BY <1>4
    <3> QED BY <2>2, <3>1 DEF BlockSet
  <2> HIDE DEF b, n
  <2>4. blocks' \in Seq(BlockSet(T, H))
    <3> DEFINE R == BlockSet(T, H)
    <3>1. blocks \in Seq(R) /\ b \in R /\ n \in 1 .. Len(blocks)
      BY <1>5, <2>1, <2>3
    <3> HIDE DEF R
    <3>2. [blocks EXCEPT ![n] = b] \in Seq(R)
      BY <3>1, ExceptSeq
    <3> QED BY <1>6, <3>2 DEF R
  <2>5. BlocksOf(blocks', T, H)
    BY <1>2, <2>4 DEF BlocksOf
  <2> QED BY <2>5
<1> QED BY <1>7, <1>8

LEMMA JudgeKeeps ==
  ASSUME PlanInv, JudgePlan PROVE PlanInv'
<1>1. UNCHANGED <<blocks, sent>> /\ pass = "read" /\ sent = {}
  BY DEF JudgePlan, Refuse, PlanInv
<1>2. \E S, H : BlocksOf(blocks', S, H)
  BY <1>1, SameBlocks
<1>3. pass' = "expanding" => AllServed'
  <2>1. ControlResources' = ControlResources
    BY <1>1 DEF ControlResources, AllSteps, Steps
  <2>2. pass' = "expanding" => allow' = ControlResources \ Outside
    BY DEF JudgePlan, Refuse
  <2> QED BY <2>1, <2>2 DEF AllServed
<1> QED BY <1>1, <1>2, <1>3 DEF PlanInv

(* Resolving leaves alone what is an Arg already.                          *)
LEMMA ResolvedKeeps ==
  ASSUME NEW h, NEW s, MarksAssets(s)
  PROVE  /\ Resolved(h, s).written = s.written /\ Resolved(h, s).control = s.control
         /\ \A p \in DOMAIN s.args \ (DOMAIN s.refs \cup DOMAIN s.templates) :
              Resolved(h, s).args[p] = s.args[p]
BY DEF Resolved, MarksAssets

LEMMA SendKeeps ==
  ASSUME PlanInv, NEW h \in Hosts, NEW b \in DOMAIN blocks, ExpandFor(h, b) PROVE PlanInv'
<1>1. UNCHANGED <<blocks, pass, allow>> /\ pass = "expanding"
  BY DEF ExpandFor
<1>2. \E S, H : BlocksOf(blocks', S, H)
  BY <1>1, SameBlocks
<1>3. AllServed' /\ AllSteps' = AllSteps
  BY <1>1 DEF PlanInv, AllServed, ControlResources, AllSteps, Steps
<1>4. \A m \in sent' : SentFrom(m)
  <2>1. \A s \in Steps(b) : s \in AllSteps /\ MarksAssets(s)
    BY StepsAreOf DEF AllSteps, PlanInv
  <2>2. ASSUME NEW m \in sent', m \notin sent PROVE SentFrom(m)
    <3>1. PICK s \in Steps(b) : m = [host |-> h, block |-> b, step |-> Resolved(h, s)]
      BY <2>2 DEF ExpandFor
    <3>2. m.step = Resolved(h, s)
      BY <3>1
    <3> QED BY <2>1, <3>2, ResolvedKeeps DEF SentFrom
  <2> QED BY <2>2 DEF PlanInv
<1>5. \A m \in sent' : SentFrom(m)'
  BY <1>3, <1>4 DEF SentFrom
<1> QED BY <1>1, <1>2, <1>3, <1>5 DEF PlanInv

LEMMA ReadKeeps ==
  ASSUME PlanInv, ReadPlan PROVE PlanInv'
<1>1. pass = "reading" /\ pass' # "expanding" /\ UNCHANGED <<allow, sent>>
  BY DEF ReadPlan, ReadLibs, ReadImport, ReadDef, ReadBinding, ReadBlock, ReadFor, ReadCall,
         EndOfPlan, Reading, Refuse
<1>2. \/ blocks' = blocks
      \/ ReadBlock
      \/ blocks' = [blocks EXCEPT ![Len(blocks)].calls = Append(@, StepOf(Stmt, Loop))]
  BY DEF ReadPlan, ReadLibs, ReadImport, ReadDef, ReadBinding, ReadFor, ReadCall, EndOfPlan, Refuse
<1>3. \E S, H : BlocksOf(blocks', S, H)
  BY <1>2, SameBlocks, ReadBlockKeeps, ReadCallKeeps
<1> QED BY <1>1, <1>3, ReadsOn

LEMMA SamePlan ==
  ASSUME PlanInv, UNCHANGED planVars PROVE PlanInv'
<1>1. UNCHANGED <<blocks, pass, allow, sent>>
  BY DEF planVars
<1>2. \E S, H : BlocksOf(blocks', S, H)
  BY <1>1, SameBlocks
<1>3. AllServed' = AllServed /\ AllSteps' = AllSteps
  BY <1>1 DEF AllServed, ControlResources, AllSteps, Steps
<1>4. \A m \in sent' : SentFrom(m)'
  BY <1>1, <1>3 DEF PlanInv, SentFrom
<1> QED BY <1>1, <1>2, <1>3, <1>4 DEF PlanInv

(* What is sent is what was read; the allow-list was made of it between.   *)
THEOREM PlanInvariant == Spec => []PlanInv
<1>1. Init => PlanInv
  BY PlanInvInit DEF Init
<1>2. ASSUME PlanInv, [Next]_vars PROVE PlanInv'
  <2>1. CASE Parse
    BY <1>2, <2>1, ReadKeeps DEF Parse
  <2>2. CASE Judge
    BY <1>2, <2>2, JudgeKeeps DEF Judge
  <2>3. CASE Send
    <3>1. PICK h \in Hosts, b \in DOMAIN blocks : ExpandFor(h, b)
      BY <2>3 DEF Send, SendPlan
    <3> QED BY <1>2, <3>1, SendKeeps
  <2>4. CASE ImportModules \/ CheckCalls \/ UNCHANGED vars
    <3>1. UNCHANGED planVars
      BY <2>4 DEF ImportModules, CheckCalls, vars
    <3> QED BY <1>2, <3>1, SamePlan
  <2> QED BY <1>2, <2>1, <2>2, <2>3, <2>4 DEF Next
<1> QED BY <1>1, <1>2, PTL DEF Spec

(* Whatever a plan marks with `%`, wherever the call stands and whatever   *)
(* the host, is marked when it is sent, and on the allow-list or outside   *)
(* the assets (scanSteps, control_scan.go:9-14; ResolveRefs, proto.go).    *)
THEOREM AssetsAreServed == Spec => []AssetIsServed
<1>1. ASSUME PlanInv, NEW m \in sent, NEW p \in Given(m),
             Written(m, p).form = "asset", ~Deferred(Written(m, p).text)
      PROVE  p \in m.step.control /\ m.step.args[p] \in allow \cup Outside
  <2>1. PICK s \in AllSteps :
          /\ m.step.written = s.written /\ m.step.control = s.control
          /\ \A q \in DOMAIN s.args \ (DOMAIN s.refs \cup DOMAIN s.templates) :
               m.step.args[q] = s.args[q]
    BY <1>1 DEF PlanInv, SentFrom
  <2>2. MarksAssets(s)
    BY <1>1, StepsAreOf DEF PlanInv
  <2>3. p \in s.control /\ p \in DOMAIN s.args /\ p \notin DOMAIN s.refs \cup DOMAIN s.templates
    BY <1>1, <2>1, <2>2 DEF MarksAssets, Given, Written
  <2>4. m.step.args[p] = s.args[p]
    BY <2>1, <2>3
  <2>5. s.args[p] \in ControlResources
    BY <2>3 DEF ControlResources
  <2> QED BY <1>1, <2>1, <2>3, <2>4, <2>5 DEF PlanInv, AllServed
<1>2. PlanInv => AssetIsServed
  BY <1>1 DEF AssetIsServed
<1> QED BY <1>2, PlanInvariant, PTL

-----------------------------------------------------------------------------
(* PlanValues: the two moments do not show.  First, what FlattenSeq makes  *)
(* of the pieces of a string.                                              *)
LEMMA LeastNatural ==
  ASSUME NEW S \in SUBSET Nat, S # {}
  PROVE  \E n \in S : \A m \in S : n <= m
<1> DEFINE R == OpToRel(<, Nat)
<1>1. IsWellFoundedOn(R, Nat)
  BY NatLessThanWellFounded
<1>2. \A x, y \in Nat : x < y => <<x, y>> \in R
  BY DEF OpToRel
<1> HIDE DEF R
<1>3. PICK n \in S : \A m \in S : <<m, n>> \notin R
  BY <1>1, WFMin
<1>4. ASSUME NEW m \in S PROVE n <= m
  <2>1. m \in Nat /\ n \in Nat /\ ~(m < n)
    BY <1>2, <1>3
  <2> QED BY <2>1
<1> QED BY <1>4

Flattening(f, s, k) ==
  f = [i \in 1 .. k |-> IF i = 1 THEN s[i] ELSE f[i - 1] \o s[i]]
Flattenable(s, k) == \E f : Flattening(f, s, k)

LEMMA FlatteningExists ==
  ASSUME NEW s, NEW k \in Nat PROVE Flattenable(s, k)
<1> DEFINE bad == {i \in Nat : ~Flattenable(s, i)}
<1> SUFFICES ASSUME bad # {} PROVE FALSE
  OBVIOUS
<1>1. PICK m \in bad : \A i \in bad : m <= i
  <2>1. bad \in SUBSET Nat
    OBVIOUS
  <2> HIDE DEF bad
  <2> QED BY <2>1, LeastNatural
<1>2. m # 0
  <2>1. Flattening([i \in 1 .. 0 |-> <<>>], s, 0)
    BY DEF Flattening
  <2> QED BY <2>1 DEF Flattenable
<1>3. m - 1 \in Nat /\ m - 1 \notin bad
  BY <1>1, <1>2
<1>4. PICK f : Flattening(f, s, m - 1)
  BY <1>3 DEF Flattenable
<1> DEFINE g == [i \in 1 .. m |->
                   IF i \in 1 .. m - 1 THEN f[i] ELSE IF i = 1 THEN s[i] ELSE f[i - 1] \o s[i]]
<1>5. Flattening(g, s, m)
  <2>1. ASSUME NEW i \in 1 .. m PROVE g[i] = IF i = 1 THEN s[i] ELSE g[i - 1] \o s[i]
    <3>1. i # 1 => i - 1 \in 1 .. m - 1 /\ i - 1 \in 1 .. m
      BY <1>1
    <3>2. i \in 1 .. m - 1 => f[i] = IF i = 1 THEN s[i] ELSE f[i - 1] \o s[i]
      BY <1>4 DEF Flattening
    <3> QED BY <3>1, <3>2
  <2> QED BY <2>1 DEF Flattening
<1> QED BY <1>1, <1>5 DEF Flattenable

LEMMA FlattenIs ==
  ASSUME NEW s, Len(s) \in Nat \ {0}
  PROVE  \E f : FlattenSeq(s) = f[Len(s)] /\
           \A i \in 1 .. Len(s) : f[i] = IF i = 1 THEN s[i] ELSE f[i - 1] \o s[i]
<1> DEFINE f == CHOOSE g : Flattening(g, s, Len(s))
<1>1. Flattening(f, s, Len(s))
  BY FlatteningExists DEF Flattenable
<1>2. FlattenSeq(s) = f[Len(s)]
  BY DEF FlattenSeq, Flattening
<1> HIDE DEF f
<1>3. \A i \in 1 .. Len(s) : f[i] = IF i = 1 THEN s[i] ELSE f[i - 1] \o s[i]
  BY <1>1 DEF Flattening
<1> QED BY <1>2, <1>3

LEMMA FlattenTyped ==
  ASSUME NEW S, NEW s \in Seq(Seq(S)) PROVE FlattenSeq(s) \in Seq(S)
<1>1. CASE Len(s) = 0
  BY <1>1 DEF FlattenSeq
<1>2. CASE Len(s) # 0
  <2>1. PICK f : FlattenSeq(s) = f[Len(s)] /\
          \A i \in 1 .. Len(s) : f[i] = IF i = 1 THEN s[i] ELSE f[i - 1] \o s[i]
    BY <1>2, FlattenIs
  <2> DEFINE bad == {i \in 1 .. Len(s) : f[i] \notin Seq(S)}
  <2>2. bad = {}
    <3> SUFFICES ASSUME bad # {} PROVE FALSE
      OBVIOUS
    <3>1. PICK m \in bad : \A i \in bad : m <= i
      <4>1. bad \in SUBSET Nat
        OBVIOUS
      <4> HIDE DEF bad
      <4> QED BY <4>1, LeastNatural
    <3>2. s[m] \in Seq(S) /\ m \in 1 .. Len(s)
      BY <3>1
    <3>3. CASE m = 1
      BY <2>1, <3>1, <3>2, <3>3
    <3>4. CASE m # 1
      <4>1. m - 1 \in 1 .. Len(s) /\ m - 1 \notin bad
        BY <3>1, <3>4
      <4>2. f[m] = f[m - 1] \o s[m] /\ f[m - 1] \in Seq(S)
        BY <2>1, <3>2, <3>4, <4>1
      <4>3. f[m] \in Seq(S)
        BY <3>2, <4>2, ConcatProperties
      <4> QED BY <3>1, <4>3
    <3> QED BY <3>3, <3>4
  <2> QED BY <1>2, <2>1, <2>2
<1> QED BY <1>1, <1>2

LEMMA FlattenOne == ASSUME NEW s, Len(s) = 1 PROVE FlattenSeq(s) = s[1]
BY FlattenIs

LEMMA FlattenSingles ==
  ASSUME NEW S, NEW m \in Seq(S) PROVE FlattenSeq([i \in DOMAIN m |-> <<m[i]>>]) = m
<1> DEFINE s == [i \in DOMAIN m |-> <<m[i]>>]
           n == Len(m)
<1>1. /\ n \in Nat /\ Len(s) = n
      /\ \A i \in 1 .. n : s[i] = <<m[i]>> /\ m[i] \in S
  <2>1. n \in Nat /\ DOMAIN m = 1 .. n /\ \A i \in 1 .. n : m[i] \in S
    OBVIOUS
  <2>2. DOMAIN s = 1 .. n /\ \A i \in 1 .. n : s[i] = <<m[i]>>
    BY <2>1
  <2>3. s \in [1 .. n -> {<<m[i]>> : i \in 1 .. n}]
    BY <2>1
  <2>4. s \in Seq({<<m[i]>> : i \in 1 .. n}) /\ Len(s) = n
    BY <2>1, <2>3
  <2> QED BY <2>1, <2>2, <2>4
<1> HIDE DEF s
<1>2. CASE n = 0
  <2>1. s = <<>> /\ m = <<>>
    BY <1>1, <1>2
  <2> QED BY <1>1, <1>2, <2>1 DEF FlattenSeq, s
<1>3. CASE n # 0
  <2>1. PICK f : FlattenSeq(s) = f[n] /\
          \A i \in 1 .. n : f[i] = IF i = 1 THEN s[i] ELSE f[i - 1] \o s[i]
    <3>1. Len(s) \in Nat \ {0}
      BY <1>1, <1>3
    <3> QED BY <1>1, <3>1, FlattenIs
  <2> DEFINE FrontIs(i) == f[i] \in Seq(S) /\ Len(f[i]) = i /\ \A j \in 1 .. i : f[i][j] = m[j]
             bad == {i \in 1 .. n : ~FrontIs(i)}
  <2>2. bad = {}
    <3> SUFFICES ASSUME bad # {} PROVE FALSE
      OBVIOUS
    <3>1. PICK k \in bad : \A i \in bad : k <= i
      <4>1. bad \in SUBSET Nat
        BY <1>1
      <4> HIDE DEF bad
      <4> QED BY <4>1, LeastNatural
    <3>2. k \in 1 .. n /\ s[k] = <<m[k]>> /\ m[k] \in S /\ ~FrontIs(k)
      BY <1>1, <3>1
    <3>3. CASE k = 1
      <4>1. f[k] = <<m[k]>>
        BY <2>1, <3>2, <3>3
      <4> QED BY <3>2, <3>3, <4>1
    <3>4. CASE k # 1
      <4>1. k - 1 \in 1 .. n /\ k - 1 \notin bad
        BY <1>1, <3>1, <3>4
      <4>2. f[k] = f[k - 1] \o <<m[k]>> /\ FrontIs(k - 1)
        BY <2>1, <3>2, <3>4, <4>1
      <4>3. f[k] = Append(f[k - 1], m[k])
        BY <3>2, <4>2
      <4>4. /\ f[k] \in Seq(S) /\ Len(f[k]) = k /\ f[k][k] = m[k]
            /\ \A j \in 1 .. k - 1 : f[k][j] = f[k - 1][j]
        BY <3>2, <4>1, <4>2, <4>3
      <4>5. \A j \in 1 .. k : j \in 1 .. k - 1 \/ j = k
        BY <3>2
      <4> QED BY <3>2, <4>2, <4>4, <4>5
    <3> QED BY <3>3, <3>4
  <2>3. FrontIs(n)
    BY <1>1, <1>3, <2>2
  <2>4. f[n] = m
    BY <1>1, <2>3, SeqEqual
  <2> QED BY <2>1, <2>4 DEF s
<1> QED BY <1>1, <1>2, <1>3

-----------------------------------------------------------------------------
LEMMA NothingLate ==
  ASSUME NEW w, w.text \in Texts, NEW m \in Texts, Clean(w, m), w.form # "raw", ~Deferred(w.text)
  PROVE  Placeholders(m, "inv") = {}
<1>1. Placeholders(w.text, "inv") = {}
  BY DEF Placeholders, Deferred
<1>2. Cardinality(Placeholders(m, "inv")) = 0
  BY <1>1, FS_EmptySet DEF Clean
<1>3. IsFiniteSet(Placeholders(m, "inv"))
  <2>1. IsFiniteSet(1 .. Len(m))
    BY FS_Interval DEF Texts
  <2>2. Placeholders(m, "inv") \subseteq 1 .. Len(m)
    BY DEF Placeholders, Texts
  <2> QED BY <2>1, <2>2, FS_Subset
<1> QED BY <1>2, <1>3, FS_EmptySet

(* A clean text that waits for nothing is what it means.                   *)
LEMMA MeansItself ==
  ASSUME NEW w, w.text \in Texts, NEW m \in Texts, Clean(w, m),
         w.form = "raw" \/ ~Deferred(w.text), NEW h
  PROVE  Meaning(h, w, m) = m
<1>1. CASE w.form = "raw"
  BY <1>1 DEF Meaning
<1>2. CASE w.form # "raw"
  <2>1. \A i \in DOMAIN m : m[i][1] # "inv"
    BY <1>2, NothingLate DEF Placeholders
  <2>2. Meaning(h, w, m) = FlattenSeq([i \in DOMAIN m |-> <<m[i]>>])
    BY <1>2, <2>1 DEF Meaning
  <2> QED BY <2>2, FlattenSingles DEF Texts
<1> QED BY <1>1, <1>2

(* One that waits for the inventory is expanded to what it means.          *)
LEMMA MeansExpanded ==
  ASSUME NEW w, w.form # "raw", NEW m, Clean(w, m), NEW h
  PROVE  Expand(h, m) = Meaning(h, w, m)
<1>1. \A i \in DOMAIN m : m[i][1] # "name"
  BY DEF Clean, Placeholders
<1>2. [i \in DOMAIN m |-> CASE m[i][1] = "name" -> Env(m[i][2])
                            [] m[i][1] = "inv" -> Inv[h][m[i][2]]
                            [] OTHER -> <<m[i]>>]
    = [i \in DOMAIN m |-> IF m[i][1] = "inv" THEN Inv[h][m[i][2]] ELSE <<m[i]>>]
  BY <1>1
<1> QED BY <1>2 DEF Expand, Meaning

(* The loop variables in force, with their items.                          *)
Loops == UNION {[X -> Texts] : X \in SUBSET Vars}

LEMMA InterpolateTyped ==
  ASSUME NEW text \in Texts, NEW loop \in Loops, base \in [Vars -> Texts \cup {Undefined}],
         Known(text, loop)
  PROVE  Interpolate(text, loop) \in Texts
<1> DEFINE piece(i) == IF text[i][1] = "name" THEN Lookup(text[i][2], loop) ELSE <<text[i]>>
           s == [i \in DOMAIN text |-> piece(i)]
<1>1. Len(text) \in Nat /\ DOMAIN text = 1 .. Len(text) /\ \A i \in 1 .. Len(text) : text[i] \in Pieces
  BY DEF Texts
<1>2. ASSUME NEW i \in 1 .. Len(text) PROVE piece(i) \in Texts
  <2>1. CASE text[i][1] = "name"
    <3>1. text[i][2] \in Names(text) /\ text[i][2] \in Vars
      BY <1>1, <2>1 DEF Names, Pieces
    <3>2. Lookup(text[i][2], loop) # Undefined
      BY <3>1 DEF Known
    <3>3. Lookup(text[i][2], loop) \in Texts \cup {Undefined}
      BY <3>1, ValuesAssumption DEF Lookup, Loops
    <3> QED BY <2>1, <3>2, <3>3
  <2>2. CASE text[i][1] # "name"
    <3>1. <<text[i]>> \in Texts
      BY <1>1 DEF Texts
    <3> QED BY <2>2, <3>1
  <2> QED BY <2>1, <2>2
<1> HIDE DEF piece
<1>3. s \in [1 .. Len(text) -> Texts]
  BY <1>1, <1>2
<1>4. s \in Seq(Texts)
  BY <1>1, <1>3
<1> HIDE DEF s
<1>5. FlattenSeq(s) \in Texts
  BY <1>4, FlattenTyped DEF Texts
<1> QED BY <1>5 DEF Interpolate, s, piece

(* A bare name in braces.                                                  *)
LEMMA InterpolateName ==
  ASSUME NEW x, NEW loop PROVE Interpolate(<<<<"name", x>>>>, loop) = Lookup(x, loop)
<1> DEFINE t == <<<<"name", x>>>>
           s == [i \in DOMAIN t |-> IF t[i][1] = "name" THEN Lookup(t[i][2], loop) ELSE <<t[i]>>]
<1>1. DOMAIN t = 1 .. 1 /\ t[1][1] = "name" /\ t[1][2] = x
  OBVIOUS
<1>2. s = <<Lookup(x, loop)>>
  BY <1>1
<1>3. Interpolate(t, loop) = FlattenSeq(s)
  BY DEF Interpolate
<1> HIDE DEF s
<1>4. Len(s) = 1 /\ s[1] = Lookup(x, loop)
  BY <1>2
<1> QED BY <1>3, <1>4, FlattenOne

-----------------------------------------------------------------------------
(* What is left of the plan: what the blocks and the loops met so far have *)
(* put before it, and the plan from its statement n + 1 on.                *)
Rest(n) == [i \in 1 .. Len(plan) - n |-> <<plan[n + i], NoLoop>>]

(* What is bound is bound by --vars or by a statement already read.        *)
BoundBefore(n) ==
  \A x \in Vars : base[x] # Undefined =>
    VarsFile[x] # Undefined \/ \E j \in Binds(x) : j <= n

TodoIs(n, f) ==
  /\ n \in 0 .. Len(plan) /\ f \in Seq(Inside \X Loops)
  /\ todo = f \o Rest(n)
  /\ BoundBefore(n)

(* What an argument of a step is to what was written: a Ref, which a name  *)
(* bound once keeps; a Template; an Arg.                                   *)
ReadAs(s, p) ==
  LET w == s.written.args[p]
      m == s.means[p]
  IN /\ w \in Arguments
     /\ m \in Texts \cup {Undefined}
     /\ \/ /\ w.form = "bare"
           /\ p \in DOMAIN s.refs /\ p \notin DOMAIN s.templates
           /\ w.text = <<<<"name", s.refs[p]>>>>
           /\ m # Undefined /\ s.refs[p] \notin s.loops /\ BoundOnce(s.refs[p]) =>
                m = Env(s.refs[p])
        \/ /\ w.form \notin {"bare", "raw"} /\ m # Undefined
           /\ p \in DOMAIN s.templates /\ s.templates[p] = m
        \/ /\ w.form = "raw" \/ (w.form # "bare" /\ ~Deferred(w.text))
           /\ m # Undefined
           /\ p \in DOMAIN s.args \ (DOMAIN s.refs \cup DOMAIN s.templates)
           /\ s.args[p] = m

StepFields == {"name", "refs", "templates", "args", "with", "written", "means", "loops"}
ReadStep(s) ==
  /\ StepFields \subseteq DOMAIN s
  /\ DOMAIN s.args \subseteq DOMAIN s.written.args
  /\ \A p \in DOMAIN s.written.args : ReadAs(s, p)

(* What a host is sent was expanded for it, and judged.                    *)
SentResolved(m) ==
  /\ m.host \in Hosts
  /\ \E s \in AllSteps : m.step = Resolved(m.host, s) /\ Acceptable(m.step)

Reads ==
  /\ plan \in Plans
  /\ base \in [Vars -> Texts \cup {Undefined}]
  /\ \E n, f : TodoIs(n, f)
Sends ==
  /\ pass \in {"read", "expanding"} => todo = <<>>
  /\ pass # "expanding" => sent = {}
  /\ \A m \in sent : SentResolved(m)
ReadInv ==
  /\ Reads
  /\ \A s \in AllSteps : ReadStep(s)
  /\ Sends
  /\ RefusedIsWrongEverywhere

LEMMA NoLoopIsLoop == NoLoop \in Loops
<1>1. NoLoop \in [{} -> Texts]
  BY DEF NoLoop
<1> QED BY <1>1 DEF Loops

(* The next statement is in a block or of the plan itself, and which of    *)
(* the two its kind says.                                                  *)
LEMMA NextStatement ==
  ASSUME plan \in Plans, NEW n, NEW f, TodoIs(n, f), todo # <<>>
  PROVE  \/ /\ Stmt \in Inside /\ Loop \in Loops
            /\ \E g \in Seq(Inside \X Loops) : Tail(todo) = g \o Rest(n)
         \/ /\ n < Len(plan) /\ Stmt = plan[n + 1] /\ Loop = NoLoop
            /\ Tail(todo) = <<>> \o Rest(n + 1)
<1> DEFINE U == (Inside \cup {plan[i] : i \in DOMAIN plan}) \X Loops
           F == Inside \X Loops
<1>1. plan \in Seq({plan[i] : i \in DOMAIN plan}) /\ Len(plan) \in Nat /\ DOMAIN plan = 1 .. Len(plan)
  BY PlansAssumption
<1>2. /\ n \in Nat /\ n <= Len(plan) /\ Len(plan) - n \in Nat
      /\ \A i \in 1 .. Len(plan) - n : n + i \in 1 .. Len(plan)
  BY <1>1 DEF TodoIs
<1>3. Rest(n) \in Seq(U) /\ Len(Rest(n)) = Len(plan) - n
  <2>1. Rest(n) \in [1 .. Len(plan) - n -> U]
    BY <1>1, <1>2, NoLoopIsLoop DEF Rest
  <2> QED BY <1>2, <2>1
<1>4. F \subseteq U /\ f \in Seq(F) /\ f \in Seq(U)
  BY DEF TodoIs
<1>5. todo = f \o Rest(n)
  BY DEF TodoIs
<1> HIDE DEF U
<1>6. CASE f # <<>>
  <2>1. todo \in Seq(U) /\ Len(todo) = Len(f) + Len(Rest(n)) /\ Len(f) \in Nat \ {0}
    <3>1. Len(f) \in Nat \ {0}
      BY <1>4, <1>6
    <3> QED BY <1>3, <1>4, <1>5, <3>1, ConcatProperties
  <2>2. todo[1] = f[1] /\ f[1] \in F
    BY <1>3, <1>4, <1>5, <1>6, <2>1, ConcatProperties
  <2>3. Tail(todo) = Tail(f) \o Rest(n)
    <3>1. Tail(f) \in Seq(U) /\ Len(Tail(f)) = Len(f) - 1
          /\ \A i \in 1 .. Len(f) - 1 : Tail(f)[i] = f[i + 1]
      BY <1>4, <1>6, HeadTailProperties
    <3>2. Tail(todo) \in Seq(U) /\ Len(Tail(todo)) = Len(todo) - 1
          /\ \A i \in 1 .. Len(todo) - 1 : Tail(todo)[i] = todo[i + 1]
      <4>1. todo # <<>>
        OBVIOUS
      <4> QED BY <2>1, <4>1, HeadTailProperties
    <3>3. /\ Tail(f) \o Rest(n) \in Seq(U)
          /\ Len(Tail(f) \o Rest(n)) = Len(f) - 1 + Len(Rest(n))
          /\ \A i \in 1 .. Len(f) - 1 + Len(Rest(n)) : (Tail(f) \o Rest(n))[i] =
               IF i <= Len(f) - 1 THEN Tail(f)[i] ELSE Rest(n)[i - (Len(f) - 1)]
      BY <1>3, <3>1, ConcatProperties
    <3>4. \A i \in 1 .. Len(f) + Len(Rest(n)) : todo[i] =
               IF i <= Len(f) THEN f[i] ELSE Rest(n)[i - Len(f)]
      BY <1>3, <1>4, <1>5, ConcatProperties
    <3>5. Len(Rest(n)) \in Nat
      BY <1>2, <1>3
    <3>6. ASSUME NEW i \in 1 .. Len(todo) - 1
          PROVE  Tail(todo)[i] = (Tail(f) \o Rest(n))[i]
      <4> DEFINE k == Len(f)
                 l == Len(Rest(n))
      <4>1. k \in Nat \ {0} /\ l \in Nat /\ i \in 1 .. k + l - 1 /\ i + 1 \in 1 .. k + l
            /\ i \in 1 .. k - 1 + l /\ i + 1 - k = i - (k - 1)
        BY <2>1, <3>5
      <4>2. Tail(todo)[i] = IF i + 1 <= k THEN f[i + 1] ELSE Rest(n)[i + 1 - k]
        BY <3>2, <3>4, <4>1
      <4>3. (Tail(f) \o Rest(n))[i] = IF i <= k - 1 THEN Tail(f)[i] ELSE Rest(n)[i - (k - 1)]
        BY <3>3, <4>1
      <4>4. i <= k - 1 => i \in 1 .. k - 1
        BY <4>1
      <4> QED BY <3>1, <4>1, <4>2, <4>3, <4>4
    <3>7. Len(Tail(todo)) = Len(Tail(f) \o Rest(n))
      BY <2>1, <3>2, <3>3, <3>5
    <3> QED BY <3>2, <3>3, <3>6, <3>7, SeqEqual
  <2>4. Tail(f) \in Seq(F)
    BY <1>4, <1>6, HeadTailProperties
  <2>5. Stmt \in Inside /\ Loop \in Loops
    BY <2>2 DEF Stmt, Loop
  <2> QED BY <2>3, <2>4, <2>5
<1>7. CASE f = <<>>
  <2>1. todo = Rest(n)
    BY <1>3, <1>5, <1>7, ConcatEmptySeq
  <2>2. n < Len(plan)
    BY <1>1, <1>2, <1>3, <2>1
  <2>3. todo[1] = <<plan[n + 1], NoLoop>>
    BY <1>2, <2>1, <2>2 DEF Rest
  <2>4. Rest(n + 1) \in Seq(U) /\ Len(Rest(n + 1)) = Len(plan) - (n + 1)
    <3>1. \A i \in 1 .. Len(plan) - (n + 1) : n + 1 + i \in 1 .. Len(plan)
      BY <1>1, <1>2, <2>2
    <3>2. Rest(n + 1) \in [1 .. Len(plan) - (n + 1) -> U]
      BY <1>1, <3>1, NoLoopIsLoop DEF Rest, U
    <3>3. Len(plan) - (n + 1) \in Nat
      BY <1>2, <2>2
    <3> QED BY <3>2, <3>3
  <2>5. Tail(todo) = Rest(n + 1)
    <3>1. Tail(todo) \in Seq(U) /\ Len(Tail(todo)) = Len(todo) - 1
          /\ \A i \in 1 .. Len(todo) - 1 : Tail(todo)[i] = todo[i + 1]
      <4>1. todo # <<>> /\ todo \in Seq(U)
        BY <1>3, <2>1
      <4> QED BY <4>1, HeadTailProperties
    <3>2. Len(Tail(todo)) = Len(Rest(n + 1))
      BY <1>2, <1>3, <2>1, <2>4, <3>1
    <3>3. ASSUME NEW i \in 1 .. Len(Rest(n + 1)) PROVE Tail(todo)[i] = Rest(n + 1)[i]
      <4>1. /\ i \in 1 .. Len(plan) - (n + 1) /\ i + 1 \in 1 .. Len(plan) - n
            /\ i \in 1 .. Len(todo) - 1 /\ n + (i + 1) = n + 1 + i
        BY <1>1, <1>2, <1>3, <2>1, <2>4
      <4>2. Tail(todo)[i] = Rest(n)[i + 1]
        BY <2>1, <3>1, <4>1
      <4> QED BY <4>1, <4>2 DEF Rest
    <3> QED BY <2>4, <3>1, <3>2, <3>3, SeqEqual
  <2>6. Rest(n + 1) = <<>> \o Rest(n + 1)
    BY <2>4, ConcatEmptySeq
  <2>7. Stmt = plan[n + 1] /\ Loop = NoLoop
    BY <2>3 DEF Stmt, Loop
  <2> QED BY <2>2, <2>5, <2>6, <2>7
<1> QED BY <1>6, <1>7

LEMMA RestTyped ==
  ASSUME plan \in Plans, NEW n \in 0 .. Len(plan)
  PROVE  Rest(n) \in Seq((Inside \cup {plan[i] : i \in DOMAIN plan}) \X Loops)
<1> DEFINE U == (Inside \cup {plan[i] : i \in DOMAIN plan}) \X Loops
<1>1. plan \in Seq({plan[i] : i \in DOMAIN plan}) /\ Len(plan) \in Nat /\ DOMAIN plan = 1 .. Len(plan)
  BY PlansAssumption
<1>2. n \in Nat /\ Len(plan) - n \in Nat /\ \A i \in 1 .. Len(plan) - n : n + i \in 1 .. Len(plan)
  BY <1>1
<1>3. Rest(n) \in [1 .. Len(plan) - n -> U]
  BY <1>1, <1>2, NoLoopIsLoop DEF Rest
<1> HIDE DEF U
<1>4. Rest(n) \in Seq(U)
  BY <1>2, <1>3
<1> QED BY <1>4 DEF U

(* What a block or a loop puts before the rest.                            *)
LEMMA PutBefore ==
  ASSUME plan \in Plans, NEW n \in 0 .. Len(plan),
         NEW g \in Seq(Inside \X Loops), NEW X \in Seq(Inside \X Loops)
  PROVE  X \o g \in Seq(Inside \X Loops) /\ X \o (g \o Rest(n)) = (X \o g) \o Rest(n)
<1> DEFINE U == (Inside \cup {plan[i] : i \in DOMAIN plan}) \X Loops
<1>1. Rest(n) \in Seq(U)
  BY RestTyped
<1>2. g \in Seq(U) /\ X \in Seq(U)
  OBVIOUS
<1> HIDE DEF U
<1>3. X \o (g \o Rest(n)) = (X \o g) \o Rest(n)
  <2> DEFINE r == Rest(n)
  <2>1. r \in Seq(U)
    BY <1>1
  <2> HIDE DEF r
  <2>2. (X \o g) \o r = X \o (g \o r)
    BY <1>2, <2>1, ConcatAssociative, SMTT(20)
  <2> QED BY <2>2 DEF r
<1>4. X \o g \in Seq(Inside \X Loops)
  <2> DEFINE F == Inside \X Loops
  <2>1. g \in Seq(F) /\ X \in Seq(F)
    OBVIOUS
  <2> HIDE DEF F
  <2>2. X \o g \in Seq(F)
    BY <2>1, ConcatProperties
  <2> QED BY <2>2 DEF F
<1> QED BY <1>3, <1>4

LEMMA PlanFacts ==
  ASSUME plan \in Plans
  PROVE  /\ Len(plan) \in Nat /\ DOMAIN plan = 1 .. Len(plan)
         /\ \A i \in 1 .. Len(plan) :
              \/ plan[i].kind \in {"import", "def"}
              \/ plan[i].kind = "bind" /\ plan[i].name \in Vars /\ plan[i].value \in Arguments
              \/ plan[i].kind = "on" /\ plan[i].body \in Seq(Inside)
         /\ \A x : Binds(x) \subseteq Nat
<1>1. plan \in Seq({plan[i] : i \in DOMAIN plan})
  BY PlansAssumption
<1>2. Len(plan) \in Nat /\ DOMAIN plan = 1 .. Len(plan)
  BY <1>1
<1>3. \A i \in DOMAIN plan :
        \/ plan[i].kind \in {"import", "def"}
        \/ plan[i].kind = "bind" /\ plan[i].name \in Vars /\ plan[i].value \in Arguments
        \/ plan[i].kind = "on" /\ plan[i].body \in Seq(Inside)
  BY PlansAssumption
<1>4. \A x : Binds(x) \subseteq Nat
  BY <1>2 DEF Binds
<1> QED BY <1>2, <1>3, <1>4

LEMMA InsideFacts ==
  ASSUME NEW s \in Inside
  PROVE  \/ /\ s.kind = "for" /\ s.var \in Vars
            /\ s.items \in Seq(Texts) /\ s.body \in Seq(Inside)
         \/ s.kind = "call" /\ s.args \in Seq(Arguments)
BY PlansAssumption

LEMMA TodoIsNow ==
  ASSUME UNCHANGED <<plan, base>>, NEW n \in 0 .. Len(plan), NEW g \in Seq(Inside \X Loops),
         BoundBefore(n), todo' = g \o Rest(n)
  PROVE  TodoIs(n, g)'
<1>1. Rest(n)' = Rest(n) /\ BoundBefore(n)'
  BY DEF Rest, BoundBefore, Binds
<1> QED BY <1>1 DEF TodoIs

LEMMA BoundStill ==
  ASSUME plan \in Plans, NEW n, NEW f, TodoIs(n, f), n + 1 \in 1 .. Len(plan)
  PROVE  n + 1 \in 0 .. Len(plan) /\ n \in Nat /\ BoundBefore(n + 1)
<1>1. n + 1 \in 0 .. Len(plan) /\ n \in Nat
  BY PlanFacts DEF TodoIs
<1>2. \A x : \A j \in Binds(x) : j <= n => j <= n + 1
  BY <1>1, PlanFacts
<1> QED BY <1>1, <1>2 DEF TodoIs, BoundBefore

LEMMA SameReads ==
  ASSUME Reads, UNCHANGED <<plan, todo, base>> PROVE Reads'
<1>1. PICK n, f : TodoIs(n, f)
  BY DEF Reads
<1>2. TodoIs(n, f)'
  BY <1>1 DEF TodoIs, Rest, BoundBefore, Binds
<1> QED BY <1>2 DEF Reads

(* A statement of the plan itself.                                         *)
LEMMA NextOfPlan ==
  ASSUME plan \in Plans, NEW n, NEW f, TodoIs(n, f), todo # <<>>, Stmt.kind \notin {"for", "call"}
  PROVE  /\ n + 1 \in 1 .. Len(plan) /\ Stmt = plan[n + 1] /\ Loop = NoLoop
         /\ Tail(todo) = <<>> \o Rest(n + 1)
<1>1. Stmt \notin Inside
  BY InsideFacts
<1>2. Len(plan) \in Nat /\ n \in Nat
  BY PlanFacts DEF TodoIs
<1>3. n < Len(plan) /\ Stmt = plan[n + 1] /\ Loop = NoLoop /\ Tail(todo) = <<>> \o Rest(n + 1)
  BY <1>1, NextStatement
<1> QED BY <1>2, <1>3

(* A statement in a block.                                                 *)
LEMMA NextInside ==
  ASSUME plan \in Plans, NEW n, NEW f, TodoIs(n, f), todo # <<>>, Stmt.kind \in {"for", "call"}
  PROVE  /\ Stmt \in Inside /\ Loop \in Loops
         /\ \E g \in Seq(Inside \X Loops) : Tail(todo) = g \o Rest(n)
<1>1. \A i \in 1 .. Len(plan) : plan[i].kind \notin {"for", "call"}
  BY PlanFacts
<1>2. Len(plan) \in Nat /\ n \in Nat
  BY PlanFacts DEF TodoIs
<1>3. ~(n < Len(plan) /\ Stmt = plan[n + 1])
  BY <1>1, <1>2
<1> QED BY <1>3, NextStatement

LEMMA WrittenIsText ==
  ASSUME NEW w \in Arguments PROVE w.text \in Texts
<1>1. CASE w \in [form : {"str", "raw", "asset"}, text : Texts]
  BY <1>1
<1>2. CASE \E x \in Vars : w = [form |-> "bare", text |-> <<<<"name", x>>>>]
  <2>1. PICK x \in Vars : w.text = <<<<"name", x>>>>
    BY <1>2
  <2>2. <<"name", x>> \in Pieces
    BY DEF Pieces
  <2> QED BY <2>1, <2>2 DEF Texts
<1> QED BY <1>1, <1>2 DEF Arguments

(* What a value comes to when the plan is read.                            *)
LEMMA ArgTyped ==
  ASSUME NEW w \in Arguments, NEW loop \in Loops, base \in [Vars -> Texts \cup {Undefined}],
         Readable(w, loop)
  PROVE  Arg(w, loop) \in Texts
<1>1. w.text \in Texts
  BY WrittenIsText
<1>2. w.form = "raw" \/ Known(w.text, loop)
  BY DEF Readable
<1> QED BY <1>1, <1>2, InterpolateTyped DEF Arg

LEMMA MoreIsRead ==
  ASSUME Reads, ReadImport \/ ReadDef \/ ReadCall PROVE Reads'
<1>1. PICK n, f : TodoIs(n, f)
  BY DEF Reads
<1>2. CASE UNCHANGED <<plan, todo, base>>
  BY <1>2, SameReads
<1>3. CASE UNCHANGED <<plan, base>> /\ todo' = Tail(todo) /\ todo # <<>> /\ Stmt.kind \in {"import", "def"}
  <2>1. n + 1 \in 1 .. Len(plan) /\ Tail(todo) = <<>> \o Rest(n + 1)
    BY <1>1, <1>3, NextOfPlan DEF Reads
  <2>2. n + 1 \in 0 .. Len(plan) /\ BoundBefore(n + 1)
    BY <1>1, <2>1, BoundStill DEF Reads
  <2>3. <<>> \in Seq(Inside \X Loops)
    OBVIOUS
  <2>4. TodoIs(n + 1, <<>>)'
    BY <1>3, <2>1, <2>2, <2>3, TodoIsNow
  <2> QED BY <1>3, <2>4 DEF Reads
<1>4. CASE UNCHANGED <<plan, base>> /\ todo' = Tail(todo) /\ todo # <<>> /\ Stmt.kind = "call"
  <2>1. PICK g \in Seq(Inside \X Loops) : Tail(todo) = g \o Rest(n)
    BY <1>1, <1>4, NextInside DEF Reads
  <2>2. n \in 0 .. Len(plan) /\ BoundBefore(n)
    BY <1>1 DEF TodoIs
  <2>3. TodoIs(n, g)'
    BY <1>4, <2>1, <2>2, TodoIsNow
  <2> QED BY <1>4, <2>3 DEF Reads
<1> QED BY <1>2, <1>3, <1>4 DEF ReadImport, ReadDef, ReadCall, Reading, Refuse

LEMMA BlockIsRead ==
  ASSUME Reads, ReadBlock PROVE Reads'
<1>1. PICK n, f : TodoIs(n, f)
  BY DEF Reads
<1> DEFINE X == [i \in DOMAIN Stmt.body |-> <<Stmt.body[i], NoLoop>>]
<1>2. UNCHANGED <<plan, base>> /\ todo' = X \o Tail(todo) /\ todo # <<>> /\ Stmt.kind = "on"
  BY DEF ReadBlock, Reading
<1>3. n + 1 \in 1 .. Len(plan) /\ Stmt = plan[n + 1] /\ Tail(todo) = <<>> \o Rest(n + 1)
  BY <1>1, <1>2, NextOfPlan DEF Reads
<1>4. n + 1 \in 0 .. Len(plan) /\ BoundBefore(n + 1)
  BY <1>1, <1>3, BoundStill DEF Reads
<1>6. X \in Seq(Inside \X Loops)
  <2>1. Stmt.body \in Seq(Inside)
    <3>1. plan[n + 1].kind = "on"
      BY <1>2, <1>3
    <3> QED BY <1>3, <3>1, PlanFacts DEF Reads
  <2>2. X \in [1 .. Len(Stmt.body) -> Inside \X Loops] /\ Len(Stmt.body) \in Nat
    BY <2>1, NoLoopIsLoop
  <2> HIDE DEF X
  <2> QED BY <2>2
<1> HIDE DEF X
<1>7. todo' = (X \o <<>>) \o Rest(n + 1) /\ X \o <<>> \in Seq(Inside \X Loops)
  <2>1. <<>> \in Seq(Inside \X Loops)
    OBVIOUS
  <2> DEFINE k == n + 1
             g == <<>>
  <2>2. k \in 0 .. Len(plan) /\ plan \in Plans
    BY <1>4 DEF Reads
  <2> HIDE DEF k, g
  <2>3. g \in Seq(Inside \X Loops)
    BY <2>1 DEF g
  <2>4. X \o g \in Seq(Inside \X Loops) /\ X \o (g \o Rest(k)) = (X \o g) \o Rest(k)
    BY <1>6, <2>2, <2>3, PutBefore
  <2> QED BY <1>2, <1>3, <2>4 DEF k, g
<1>8. \E g : TodoIs(n + 1, g)'
  <2>1. PICK g : g = X \o <<>>
    OBVIOUS
  <2>2. g \in Seq(Inside \X Loops) /\ todo' = g \o Rest(n + 1)
    BY <1>7, <2>1
  <2>3. TodoIs(n + 1, g)'
    BY <1>2, <1>4, <2>2, TodoIsNow
  <2> QED BY <2>3
<1> QED BY <1>2, <1>8 DEF Reads

LEMMA BindingIsRead ==
  ASSUME Reads, ReadBinding PROVE Reads'
<1>1. PICK n, f : TodoIs(n, f)
  BY DEF Reads
<1>2. CASE UNCHANGED <<plan, todo, base>>
  BY <1>2, SameReads
<1>3. CASE Readable(Stmt.value, Loop) /\ base' = [base EXCEPT ![Stmt.name] = Arg(Stmt.value, Loop)]
           /\ todo' = Tail(todo) /\ plan' = plan
  <2>1. todo # <<>> /\ Stmt.kind = "bind"
    BY DEF ReadBinding, Reading
  <2>2. n + 1 \in 1 .. Len(plan) /\ Stmt = plan[n + 1] /\ Loop = NoLoop /\ Tail(todo) = <<>> \o Rest(n + 1)
    BY <1>1, <2>1, NextOfPlan DEF Reads
  <2>3. n + 1 \in 0 .. Len(plan) /\ n \in Nat
    BY <1>1, <2>2, BoundStill DEF Reads
  <2>4. Stmt.name \in Vars /\ Stmt.value \in Arguments /\ DOMAIN plan = 1 .. Len(plan)
    <3>1. plan[n + 1].kind = "bind"
      BY <2>1, <2>2
    <3> QED BY <2>2, <3>1, PlanFacts DEF Reads
  <2>5. base' \in [Vars -> Texts \cup {Undefined}]
    BY <1>3, <2>2, <2>4, ArgTyped, NoLoopIsLoop DEF Reads
  <2>6. n + 1 \in Binds(Stmt.name)
    BY <2>1, <2>2, <2>4 DEF Binds
  <2>7. BoundBefore(n + 1)'
    <3>1. ASSUME NEW x \in Vars, base'[x] # Undefined
          PROVE  VarsFile[x] # Undefined \/ \E j \in Binds(x) : j <= n + 1
      <4>1. Binds(x) \subseteq Nat
        BY PlanFacts DEF Reads
      <4>2. CASE x = Stmt.name
        BY <2>3, <2>6, <4>2
      <4>3. CASE x # Stmt.name
        <5>1. base[x] # Undefined
          BY <1>3, <3>1, <4>3 DEF Reads
        <5>2. VarsFile[x] # Undefined \/ \E j \in Binds(x) : j <= n
          BY <1>1, <5>1 DEF TodoIs, BoundBefore
        <5> QED BY <2>3, <4>1, <5>2
      <4> QED BY <4>2, <4>3
    <3> QED BY <1>3, <3>1 DEF BoundBefore, Binds
  <2>8. TodoIs(n + 1, <<>>)'
    BY <1>3, <2>2, <2>3, <2>7 DEF TodoIs, Rest
  <2> QED BY <1>3, <2>5, <2>8 DEF Reads
<1> QED BY <1>2, <1>3 DEF ReadBinding, Refuse

LEMMA LoopIsRead ==
  ASSUME Reads, ReadFor PROVE Reads'
<1>1. PICK n, f : TodoIs(n, f)
  BY DEF Reads
<1>2. CASE UNCHANGED <<plan, todo, base>>
  BY <1>2, SameReads
<1>3. CASE ~UNCHANGED <<plan, todo, base>>
  <2> DEFINE Item(i) == Interpolate(Stmt.items[i], Loop)
             Scope(i) == [x \in DOMAIN Loop \cup {Stmt.var} |->
                            IF x = Stmt.var THEN Item(i) ELSE Loop[x]]
             Body(i) == [j \in DOMAIN Stmt.body |-> <<Stmt.body[j], Scope(i)>>]
             bodies == [i \in DOMAIN Stmt.items |-> Body(i)]
             X == FlattenSeq(bodies)
             F == Inside \X Loops
  <2>1. /\ todo # <<>> /\ Stmt.kind = "for"
        /\ \A i \in DOMAIN Stmt.items : Known(Stmt.items[i], Loop)
        /\ todo' = X \o Tail(todo) /\ UNCHANGED <<plan, base>>
    BY <1>3 DEF ReadFor, Reading, Refuse
  <2>2. PICK g \in Seq(F) : Tail(todo) = g \o Rest(n)
    BY <1>1, <2>1, NextInside DEF Reads
  <2>3. Stmt \in Inside /\ Loop \in Loops
    BY <1>1, <2>1, NextInside DEF Reads
  <2>4. Stmt.var \in Vars /\ Stmt.items \in Seq(Texts) /\ Stmt.body \in Seq(Inside)
    BY <2>1, <2>3, InsideFacts
  <2>5. ASSUME NEW i \in DOMAIN Stmt.items PROVE Body(i) \in Seq(F)
    <3>1. Item(i) \in Texts
      BY <2>1, <2>3, <2>4, InterpolateTyped DEF Reads
    <3>2. Scope(i) \in Loops
      <4>1. PICK Y \in SUBSET Vars : Loop \in [Y -> Texts]
        BY <2>3 DEF Loops
      <4>2. Scope(i) \in [Y \cup {Stmt.var} -> Texts] /\ Y \cup {Stmt.var} \in SUBSET Vars
        BY <2>4, <3>1, <4>1
      <4> HIDE DEF Scope
      <4> QED BY <4>2 DEF Loops
    <3> HIDE DEF Scope
    <3>3. Body(i) \in [1 .. Len(Stmt.body) -> F] /\ Len(Stmt.body) \in Nat
      BY <2>4, <3>2
    <3> HIDE DEF Body
    <3> QED BY <3>3
  <2> HIDE DEF Body
  <2>6. bodies \in Seq(Seq(F))
    <3>1. DOMAIN Stmt.items = 1 .. Len(Stmt.items) /\ Len(Stmt.items) \in Nat
      BY <2>4
    <3>2. bodies \in [1 .. Len(Stmt.items) -> Seq(F)]
      BY <2>5, <3>1
    <3> HIDE DEF bodies, F
    <3> QED BY <3>1, <3>2
  <2> HIDE DEF bodies
  <2>7. X \in Seq(F)
    BY <2>6, FlattenTyped
  <2> HIDE DEF X
  <2>8. n \in 0 .. Len(plan) /\ BoundBefore(n)
    BY <1>1 DEF TodoIs
  <2>9. X \o g \in Seq(F) /\ todo' = (X \o g) \o Rest(n)
    <3>1. g \in Seq(Inside \X Loops) /\ X \in Seq(Inside \X Loops) /\ plan \in Plans
      BY <2>2, <2>7 DEF Reads
    <3>2. X \o g \in Seq(Inside \X Loops) /\ X \o (g \o Rest(n)) = (X \o g) \o Rest(n)
      BY <2>8, <3>1, PutBefore
    <3> QED BY <2>1, <2>2, <3>2
  <2>10. \E G : TodoIs(n, G)'
    <3>1. PICK G : G = X \o g
      OBVIOUS
    <3>2. G \in Seq(Inside \X Loops) /\ todo' = G \o Rest(n)
      BY <2>9, <3>1
    <3>3. TodoIs(n, G)'
      BY <2>1, <2>8, <3>2, TodoIsNow
    <3> QED BY <3>3
  <2> QED BY <2>1, <2>10 DEF Reads
<1> QED BY <1>2, <1>3

(* What a call is read into.                                               *)
LEMMA ArgsAreWritten ==
  ASSUME NEW c, c.args \in Seq(Arguments), NEW p \in DOMAIN ArgsOf(c)
  PROVE  \E i \in DOMAIN c.args : ArgsOf(c)[p] = c.args[i] /\ ArgsOf(c)[p] \in Arguments
<1> DEFINE stands(i) == Params[Resolve(c.name)][i] = p
           j == CHOOSE i \in DOMAIN c.args : stands(i)
<1>1. \E i \in DOMAIN c.args : stands(i)
  BY DEF ArgsOf
<1>2. j \in DOMAIN c.args
  BY <1>1
<1>3. ArgsOf(c)[p] = c.args[j]
  BY DEF ArgsOf
<1> HIDE DEF j
<1>4. c.args[j] \in Arguments
  BY <1>2
<1> QED BY <1>2, <1>3, <1>4

LEMMA CallIsRead ==
  ASSUME base \in [Vars -> Texts \cup {Undefined}], NEW c, c.args \in Seq(Arguments),
         NEW loop \in Loops, Callable(c, loop)
  PROVE  ReadStep(StepOf(c, loop))
<1> DEFINE s == StepOf(c, loop)
           args == ArgsOf(c)
           late(p) == args[p].form \in {"str", "asset"} /\ Deferred(args[p].text)
           now(p) == args[p].form \in {"str", "asset", "raw"} /\ ~late(p)
<1>1. /\ s.written.args = args /\ s.loops = DOMAIN loop
      /\ s.refs = [p \in {q \in DOMAIN args : args[q].form = "bare"} |-> args[p].text[1][2]]
  BY DEF StepOf
<1>2. s.templates = [p \in {q \in DOMAIN args : late(q)} |-> Interpolate(args[p].text, loop)]
  BY DEF StepOf
<1>3. s.args = [p \in {q \in DOMAIN args : now(q)} |-> Arg(args[p], loop)]
  BY DEF StepOf
<1>4. s.means = [p \in DOMAIN args |->
                   IF Readable(args[p], loop) THEN Arg(args[p], loop) ELSE Undefined]
  BY DEF StepOf
<1>5. StepFields \subseteq DOMAIN s
  BY DEF StepOf, StepFields
<1> HIDE DEF s
<1>6. ASSUME NEW p \in DOMAIN args PROVE ReadAs(s, p)
  <2> DEFINE w == args[p]
             m == s.means[p]
  <2>1. PICK i \in DOMAIN c.args : w = c.args[i] /\ w \in Arguments
    BY <1>6, ArgsAreWritten
  <2>2. w.form \in {"str", "asset"} => Known(w.text, loop)
    BY <2>1 DEF Callable
  <2>3. m = IF Readable(w, loop) THEN Arg(w, loop) ELSE Undefined
    BY <1>4, <1>6
  <2> HIDE DEF args, m, late, now
  <2>4. Readable(w, loop) => m \in Texts /\ m # Undefined
    BY <2>1, <2>3, ArgTyped, ValuesAssumption
  <2>5. m \in Texts \cup {Undefined}
    BY <2>3, <2>4
  <2>6. s.written.args[p] = w
    BY <1>1
  <2>7. CASE w.form = "bare"
    <3>1. PICK x \in Vars : w.text = <<<<"name", x>>>>
      BY <2>1, <2>7 DEF Arguments
    <3>2. p \in DOMAIN s.refs /\ s.refs[p] = x
      BY <1>1, <1>6, <2>7, <3>1 DEF args
    <3>3. p \notin DOMAIN s.templates
      BY <1>2, <2>7 DEF late, args
    <3>4. m # Undefined => m = Lookup(x, loop)
      BY <2>3, <2>7, <3>1, InterpolateName DEF Arg
    <3>5. x \notin s.loops => Lookup(x, loop) = Env(x)
      BY <1>1 DEF Lookup, Env
    <3>6. w.text = <<<<"name", s.refs[p]>>>>
      BY <3>1, <3>2
    <3> HIDE DEF w
    <3> QED BY <2>1, <2>5, <2>6, <2>7, <3>2, <3>3, <3>4, <3>5, <3>6 DEF ReadAs, m
  <2>8. CASE w.form \in {"str", "asset"}
    <3>1. Readable(w, loop)
      BY <2>2, <2>8 DEF Readable
    <3>2. m = Arg(w, loop) /\ m # Undefined
      BY <2>3, <2>4, <3>1
    <3>3. p \notin DOMAIN s.refs
      BY <1>1, <2>8 DEF args
    <3>4. CASE Deferred(w.text)
      <4>1. p \in DOMAIN s.templates /\ s.templates[p] = Arg(w, loop)
        BY <1>2, <1>6, <2>8, <3>4 DEF late, args, Arg
      <4> HIDE DEF w
      <4> QED BY <2>1, <2>5, <2>6, <2>8, <3>2, <4>1 DEF ReadAs, m
    <3>5. CASE ~Deferred(w.text)
      <4>1. p \in DOMAIN s.args /\ s.args[p] = Arg(w, loop) /\ p \notin DOMAIN s.templates
        BY <1>2, <1>3, <1>6, <2>8, <3>5 DEF late, now, args
      <4> HIDE DEF w
      <4> QED BY <2>1, <2>5, <2>6, <2>8, <3>2, <3>3, <3>5, <4>1 DEF ReadAs, m
    <3> QED BY <3>4, <3>5
  <2>9. CASE w.form = "raw"
    <3>1. m = Arg(w, loop) /\ m # Undefined
      BY <2>3, <2>4, <2>9 DEF Readable
    <3>2. p \notin DOMAIN s.refs /\ p \notin DOMAIN s.templates
      BY <1>1, <1>2, <2>9 DEF late, args
    <3>3. p \in DOMAIN s.args /\ s.args[p] = Arg(w, loop)
      BY <1>3, <1>6, <2>9 DEF late, now, args
    <3> HIDE DEF w
    <3> QED BY <2>1, <2>5, <2>6, <2>9, <3>1, <3>2, <3>3 DEF ReadAs, m
  <2>10. w.form \in {"bare", "str", "asset", "raw"}
    BY <2>1 DEF Arguments
  <2> QED BY <2>7, <2>8, <2>9, <2>10
<1>7. DOMAIN s.args \subseteq DOMAIN args
  BY <1>3
<1> HIDE DEF args
<1>8. ReadStep(s)
  BY <1>1, <1>5, <1>6, <1>7 DEF ReadStep
<1> QED BY <1>8 DEF s

(* A bare name bound once keeps its value: nothing binds it again.         *)
LEMMA NameKeepsValue ==
  ASSUME Reads, ReadBinding, NEW x \in Vars, BoundOnce(x), Env(x) # Undefined
  PROVE  Env(x)' = Env(x)
<1>1. PICK n, f : TodoIs(n, f)
  BY DEF Reads
<1>2. todo # <<>> /\ Stmt.kind = "bind"
  BY DEF ReadBinding, Reading
<1>3. CASE SetVars[x] # Undefined
  BY <1>3 DEF Env
<1>4. CASE base' = base
  BY <1>4 DEF Env
<1>5. CASE SetVars[x] = Undefined /\ base' # base
  <2>1. base' = [base EXCEPT ![Stmt.name] = Arg(Stmt.value, Loop)]
    BY <1>5 DEF ReadBinding, Refuse
  <2>2. n + 1 \in 1 .. Len(plan) /\ Stmt = plan[n + 1] /\ n \in Nat
    BY <1>1, <1>2, NextOfPlan, BoundStill DEF Reads
  <2>3. n + 1 \in Binds(Stmt.name)
    BY <1>2, <2>2, PlanFacts DEF Binds, Reads
  <2>4. base[x] # Undefined
    BY <1>5 DEF Env
  <2>5. VarsFile[x] # Undefined \/ \E j \in Binds(x) : j <= n
    BY <1>1, <2>4 DEF TodoIs, BoundBefore
  <2>6. Stmt.name # x
    <3> SUFFICES ASSUME Stmt.name = x PROVE FALSE
      OBVIOUS
    <3>1. \A j \in Binds(x) : j = n + 1 /\ VarsFile[x] = Undefined
      BY <2>3 DEF BoundOnce
    <3>2. PICK j \in Binds(x) : j <= n
      BY <2>3, <2>5, <3>1
    <3>3. j = n + 1
      BY <3>1
    <3> QED BY <2>2, <3>2, <3>3
  <2>7. base'[x] = base[x]
    BY <2>1, <2>6 DEF Reads
  <2> QED BY <2>7 DEF Env
<1> QED BY <1>3, <1>4, <1>5

LEMMA StepStaysRead ==
  ASSUME NEW s, ReadStep(s), plan' = plan, base' = base \/ (Reads /\ ReadBinding)
  PROVE  ReadStep(s)'
<1>1. ASSUME NEW p \in DOMAIN s.written.args PROVE ReadAs(s, p)'
  <2> DEFINE w == s.written.args[p]
             m == s.means[p]
             x == s.refs[p]
  <2>1. ReadAs(s, p)
    BY <1>1 DEF ReadStep
  <2>2. CASE w.form # "bare"
    BY <2>1, <2>2 DEF ReadAs
  <2>3. CASE w.form = "bare"
    <3>1. x \in Vars
      <4>1. PICK y \in Vars : w.text = <<<<"name", y>>>>
        BY <2>1, <2>3 DEF ReadAs, Arguments
      <4>2. w.text = <<<<"name", x>>>>
        BY <2>1, <2>3 DEF ReadAs
      <4> QED BY <4>1, <4>2
    <3>2. BoundOnce(x)' = BoundOnce(x)
      BY DEF BoundOnce, Binds
    <3>3. m # Undefined /\ x \notin s.loops /\ BoundOnce(x) => m = Env(x)
      BY <2>1, <2>3 DEF ReadAs
    <3>4. BoundOnce(x) /\ Env(x) # Undefined => Env(x)' = Env(x)
      <4>1. CASE base' = base
        BY <4>1 DEF Env
      <4>2. CASE Reads /\ ReadBinding
        <5> HIDE DEF x
        <5> QED BY <3>1, <4>2, NameKeepsValue
      <4> QED BY <4>1, <4>2
    <3>5. m # Undefined /\ x \notin s.loops /\ BoundOnce(x)' => m = Env(x)'
      BY <3>2, <3>3, <3>4
    <3> QED BY <2>1, <2>3, <3>5 DEF ReadAs
  <2> QED BY <2>2, <2>3
<1> QED BY <1>1 DEF ReadStep

(* What reading adds to the steps.                                         *)
LEMMA CallAddsStep ==
  ASSUME PlanInv, blocks' = [blocks EXCEPT ![Len(blocks)].calls = Append(@, StepOf(Stmt, Loop))]
  PROVE  AllSteps' \subseteq AllSteps \cup {StepOf(Stmt, Loop)}
<1>1. PICK S, H : BlocksOf(blocks, S, H)
  BY DEF PlanInv
<1> DEFINE s == StepOf(Stmt, Loop)
           n == Len(blocks)
<1>2. blocks \in Seq(BlockSet(S, H)) /\ n \in Nat /\ DOMAIN blocks = 1 .. n
  BY <1>1 DEF BlocksOf
<1>3. blocks' = [blocks EXCEPT ![n].calls = Append(@, s)]
  OBVIOUS
<1> HIDE DEF s
<1>4. ASSUME NEW t \in AllSteps' PROVE t \in AllSteps \cup {s}
  <2>1. PICK b \in DOMAIN blocks' : t \in {blocks'[b].calls[i] : i \in DOMAIN blocks'[b].calls}
    BY <1>4 DEF AllSteps, Steps
  <2>2. PICK i \in DOMAIN blocks'[b].calls : t = blocks'[b].calls[i]
    BY <2>1
  <2>3. b \in DOMAIN blocks /\ blocks[b] \in BlockSet(S, H)
    BY <1>2, <1>3, <2>1
  <2>4. blocks[b].calls \in Seq(S)
    BY <2>3 DEF BlockSet
  <2>5. \A j \in DOMAIN blocks[b].calls : blocks[b].calls[j] \in AllSteps
    BY <2>3 DEF AllSteps, Steps
  <2>6. CASE b = n
    <3>1. blocks'[b].calls = Append(blocks[b].calls, s)
      BY <1>3, <2>3, <2>6 DEF BlockSet
    <3>2. (i \in DOMAIN blocks[b].calls /\ t = blocks[b].calls[i]) \/ t = s
      BY <2>2, <2>4, <3>1
    <3> QED BY <2>5, <3>2
  <2>7. CASE b # n
    <3>1. blocks'[b] = blocks[b]
      BY <1>3, <2>3, <2>7
    <3> QED BY <2>2, <2>5, <3>1
  <2> QED BY <2>6, <2>7
<1> QED BY <1>4 DEF s

LEMMA BlockAddsNone ==
  ASSUME PlanInv, ReadBlock PROVE AllSteps' \subseteq AllSteps
<1>1. PICK S, H : BlocksOf(blocks, S, H)
  BY DEF PlanInv
<1>2. blocks \in Seq(BlockSet(S, H))
  BY <1>1 DEF BlocksOf
<1> DEFINE e == [hosts |-> Stmt.hosts, calls |-> <<>>]
<1>3. blocks' = Append(blocks, e) /\ e.calls = <<>>
  BY DEF ReadBlock
<1> HIDE DEF e
<1>4. ASSUME NEW t \in AllSteps' PROVE t \in AllSteps
  <2>1. PICK b \in DOMAIN blocks' : t \in {blocks'[b].calls[i] : i \in DOMAIN blocks'[b].calls}
    BY <1>4 DEF AllSteps, Steps
  <2>2. blocks'[b] = e \/ (b \in DOMAIN blocks /\ blocks'[b] = blocks[b])
    BY <1>2, <1>3, <2>1
  <2>3. blocks'[b] # e
    BY <1>3, <2>1
  <2> QED BY <2>1, <2>2, <2>3 DEF AllSteps, Steps
<1> QED BY <1>4

(* What is read stays what it means, whatever is read next.                *)
LEMMA StepsAreRead ==
  ASSUME PlanInv, Reads, \A s \in AllSteps : ReadStep(s), ReadPlan
  PROVE  \A s \in AllSteps' : ReadStep(s)'
<1>1. plan' = plan /\ (base' = base \/ (Reads /\ ReadBinding))
  BY DEF ReadPlan, ReadLibs, ReadImport, ReadDef, ReadBinding, ReadBlock, ReadFor, ReadCall,
         EndOfPlan, Refuse
<1>2. \A s : ReadStep(s) => ReadStep(s)'
  BY <1>1, StepStaysRead
<1>3. \/ blocks' = blocks
      \/ ReadBlock
      \/ /\ Reading("call") /\ Callable(Stmt, Loop)
         /\ blocks' = [blocks EXCEPT ![Len(blocks)].calls = Append(@, StepOf(Stmt, Loop))]
  BY DEF ReadPlan, ReadLibs, ReadImport, ReadDef, ReadBinding, ReadFor, ReadCall, EndOfPlan, Refuse
<1>4. CASE AllSteps' \subseteq AllSteps
  BY <1>2, <1>4
<1>5. CASE /\ Reading("call") /\ Callable(Stmt, Loop)
           /\ blocks' = [blocks EXCEPT ![Len(blocks)].calls = Append(@, StepOf(Stmt, Loop))]
  <2>1. PICK n, f : TodoIs(n, f)
    BY DEF Reads
  <2>2. Stmt \in Inside /\ Loop \in Loops /\ Stmt.kind = "call"
    BY <1>5, <2>1, NextInside DEF Reads, Reading
  <2>3. Stmt.args \in Seq(Arguments)
    BY <2>2, InsideFacts
  <2>4. ReadStep(StepOf(Stmt, Loop))
    BY <1>5, <2>2, <2>3, CallIsRead DEF Reads
  <2>5. AllSteps' \subseteq AllSteps \cup {StepOf(Stmt, Loop)}
    BY <1>5, CallAddsStep
  <2>6. \A s \in AllSteps' : ReadStep(s)
    BY <2>4, <2>5
  <2> QED BY <1>2, <2>6
<1>6. blocks' = blocks => AllSteps' = AllSteps
  BY DEF AllSteps, Steps
<1> QED BY <1>3, <1>4, <1>5, <1>6, BlockAddsNone

LEMMA ReadsKept ==
  ASSUME Reads, ReadPlan PROVE Reads'
<1>1. CASE ReadLibs \/ EndOfPlan
  BY <1>1, SameReads DEF ReadLibs, EndOfPlan, Refuse
<1> QED BY <1>1, MoreIsRead, BlockIsRead, BindingIsRead, LoopIsRead DEF ReadPlan

-----------------------------------------------------------------------------
(* A call that is refused is wrong on every host.                          *)
LEMMA RefusedCallIsWrong ==
  ASSUME base \in [Vars -> Texts \cup {Undefined}], Stmt.args \in Seq(Arguments),
         Loop \in Loops, ~Callable(Stmt, Loop)
  PROVE  CallIsWrong(Stmt)
<1> DEFINE d == Resolve(Stmt.name)
<1> SUFFICES ASSUME d # Undefined, Len(Stmt.args) \in Required[d] .. Len(Params[d]),
                    \A x \in DOMAIN Stmt.with : Readable(Stmt.with[x], Loop)
             PROVE  CallIsWrong(Stmt)
  BY DEF CallIsWrong
<1>1. PICK i \in DOMAIN Stmt.args :
        LET w == Stmt.args[i] IN
          \/ w.form \in {"str", "asset"} /\ ~Known(w.text, Loop)
          \/ WrongTypeNow(d, Params[d][i], w, Loop)
  BY DEF Callable
<1> DEFINE w == Stmt.args[i]
           m == Arg(w, Loop)
           wrong == \A h \in Hosts : WrongFor(d, Params[d][i], Meaning(h, w, m))
<1>2. w \in Arguments
  OBVIOUS
<1>3. ~Readable(w, Loop) \/ ~Clean(w, m) \/ wrong
  <2> SUFFICES ASSUME Readable(w, Loop), Clean(w, m) PROVE wrong
    OBVIOUS
  <2>1. w.form \notin {"str", "asset"} \/ Known(w.text, Loop)
    BY DEF Readable
  <2>2. /\ Params[d][i] \in BoolParams[d] /\ m \notin Bools
        /\ w.form = "raw" \/ ~Deferred(w.text)
    BY <1>1, <2>1 DEF WrongTypeNow
  <2>3. m \in Texts
    BY <1>2, ArgTyped
  <2>4. w.text \in Texts
    BY <1>2, WrittenIsText
  <2> HIDE DEF w, m, d
  <2>5. \A h \in Hosts : Meaning(h, w, m) = m
    BY <2>2, <2>3, <2>4, MeansItself
  <2> QED BY <2>2, <2>5 DEF WrongFor
<1> HIDE DEF wrong
<1>4. \E j \in DOMAIN Stmt.args :
        \/ ~Readable(Stmt.args[j], Loop)
        \/ ~Clean(Stmt.args[j], Arg(Stmt.args[j], Loop))
        \/ \A h \in Hosts : WrongFor(d, Params[d][j], Meaning(h, Stmt.args[j], Arg(Stmt.args[j], Loop)))
  BY <1>3 DEF wrong
<1> QED BY <1>4 DEF CallIsWrong

LEMMA RefusedStepIsWrong ==
  ASSUME NEW s, ReadStep(s), RefusedArguments(s) PROVE StepIsWrong(s)
<1> DEFINE d == Resolve(s.name)
<1>1. PICK r \in Rejects[d] :
        \/ r[1] \in DOMAIN s.with /\ s.with[r[1]] = r[2]
        \/ r[1] \in DOMAIN s.args \ DOMAIN s.with /\ s.args[r[1]] = r[2]
  BY DEF RefusedArguments, PureCheckRefuses
<1>2. CASE r[1] \in DOMAIN s.with /\ s.with[r[1]] = r[2]
  <2>1. WrongFor(d, r[1], s.with[r[1]])
    BY <1>1, <1>2 DEF WrongFor
  <2> QED BY <1>2, <2>1 DEF StepIsWrong
<1>3. CASE r[1] \in DOMAIN s.args /\ s.args[r[1]] = r[2]
  <2> DEFINE p == r[1]
             w == s.written.args[p]
             m == s.means[p]
  <2>1. p \in DOMAIN s.written.args
    BY <1>3 DEF ReadStep
  <2>2. ReadAs(s, p)
    BY <2>1 DEF ReadStep
  <2>3. DOMAIN s.refs = {} /\ DOMAIN s.templates = {}
    BY DEF RefusedArguments
  <2>4. /\ w \in Arguments /\ m \in Texts /\ s.args[p] = m
        /\ w.form = "raw" \/ ~Deferred(w.text)
    BY <2>2, <2>3 DEF ReadAs
  <2>5. w.text \in Texts
    BY <2>4, WrittenIsText
  <2>6. ~Clean(w, m) \/ \A h \in Hosts : WrongFor(d, p, Meaning(h, w, m))
    <3> SUFFICES ASSUME Clean(w, m) PROVE \A h \in Hosts : WrongFor(d, p, Meaning(h, w, m))
      OBVIOUS
    <3>1. m = r[2]
      BY <1>3, <2>4
    <3> HIDE DEF w, m, d
    <3>2. \A h \in Hosts : Meaning(h, w, m) = m
      BY <2>4, <2>5, MeansItself
    <3> QED BY <1>1, <3>1, <3>2 DEF WrongFor
  <2> HIDE DEF p
  <2>7. p \in DOMAIN s.args
    BY <1>3 DEF p
  <2> QED BY <2>6, <2>7 DEF StepIsWrong
<1> QED BY <1>1, <1>2, <1>3

(* What is wrong with a plan that is refused stays wrong with it.          *)
LEMMA ReadAlike ==
  ASSUME base' = base, NEW loop
  PROVE  /\ \A x : Lookup(x, loop)' = Lookup(x, loop)
         /\ \A w : (Readable(w, loop)' <=> Readable(w, loop)) /\ Arg(w, loop)' = Arg(w, loop)
<1>1. \A x : Lookup(x, loop)' = Lookup(x, loop)
  BY DEF Lookup
<1>2. \A text : Known(text, loop)' <=> Known(text, loop)
  BY <1>1 DEF Known
<1>3. ASSUME NEW text PROVE Interpolate(text, loop)' = Interpolate(text, loop)
  <2>1. [i \in DOMAIN text |->
           IF text[i][1] = "name" THEN Lookup(text[i][2], loop)' ELSE <<text[i]>>]
        = [i \in DOMAIN text |->
             IF text[i][1] = "name" THEN Lookup(text[i][2], loop) ELSE <<text[i]>>]
    BY <1>1
  <2> QED BY <2>1 DEF Interpolate
<1>4. \A w : Readable(w, loop)' <=> Readable(w, loop)
  BY <1>2 DEF Readable
<1>5. \A w : Arg(w, loop)' = Arg(w, loop)
  BY <1>3 DEF Arg
<1> QED BY <1>1, <1>4, <1>5

LEMMA CallStaysWrong ==
  ASSUME UNCHANGED <<user, todo, base>>, CallIsWrong(Stmt) PROVE CallIsWrong(Stmt)'
<1>1. PICK c, loop : c = Stmt /\ loop = Loop
  OBVIOUS
<1>2. Stmt' = c /\ Loop' = loop
  BY <1>1 DEF Stmt, Loop
<1>3. Resolve(c.name)' = Resolve(c.name)
  BY DEF Resolve
<1> DEFINE wrong(d, R(_), A(_)) ==
      \/ d = Undefined
      \/ Len(c.args) \notin Required[d] .. Len(Params[d])
      \/ \E x \in DOMAIN c.with : ~R(c.with[x])
      \/ \E i \in DOMAIN c.args :
           \/ ~R(c.args[i])
           \/ ~Clean(c.args[i], A(c.args[i]))
           \/ \A h \in Hosts : WrongFor(d, Params[d][i], Meaning(h, c.args[i], A(c.args[i])))
<1>4. wrong(Resolve(c.name), LAMBDA w : Readable(w, loop), LAMBDA w : Arg(w, loop))
  BY <1>1 DEF CallIsWrong
<1>5. \A w : (Readable(w, loop)' <=> Readable(w, loop)) /\ Arg(w, loop)' = Arg(w, loop)
  BY ReadAlike
<1>6. wrong(Resolve(c.name)', LAMBDA w : Readable(w, loop)', LAMBDA w : Arg(w, loop)')
  BY <1>3, <1>4, <1>5
<1> QED BY <1>2, <1>6 DEF CallIsWrong

LEMMA StepStaysWrong ==
  ASSUME UNCHANGED user, NEW s, StepIsWrong(s) PROVE StepIsWrong(s)'
<1>1. Resolve(s.name)' = Resolve(s.name)
  BY DEF Resolve
<1> QED BY <1>1 DEF StepIsWrong

LEMMA RefusalStays ==
  ASSUME RefusedIsWrongEverywhere, UNCHANGED <<defVars, todo, base, blocks>>, pass' = pass
  PROVE  RefusedIsWrongEverywhere'
<1> SUFFICES ASSUME pass = "refused" PROVE RefusedIsWrongEverywhere'
  BY DEF RefusedIsWrongEverywhere
<1>1. libs' = libs /\ user' = user /\ Stmt' = Stmt /\ AllSteps' = AllSteps
  BY DEF defVars, Stmt, AllSteps, Steps
<1>2. ASSUME libs' = {}, todo' # <<>>, Stmt'.kind = "call" PROVE CallIsWrong(Stmt)'
  BY <1>1, <1>2, CallStaysWrong DEF RefusedIsWrongEverywhere
<1>3. ASSUME libs' = {}, todo' = <<>> PROVE \E s \in AllSteps' : StepIsWrong(s)'
  <2>1. PICK s \in AllSteps : StepIsWrong(s)
    BY <1>1, <1>3 DEF RefusedIsWrongEverywhere
  <2> QED BY <1>1, <2>1, StepStaysWrong
<1> QED BY <1>2, <1>3 DEF RefusedIsWrongEverywhere

LEMMA ReadRefuses ==
  ASSUME Reads, ReadPlan PROVE RefusedIsWrongEverywhere'
<1> SUFFICES ASSUME pass' = "refused" PROVE RefusedIsWrongEverywhere'
  BY DEF RefusedIsWrongEverywhere
<1>1. Refuse
  BY DEF ReadPlan, ReadLibs, ReadImport, ReadDef, ReadBinding, ReadBlock, ReadFor, ReadCall,
         EndOfPlan, Reading
<1>2. UNCHANGED <<defVars, libs, user, todo, base, blocks>>
  BY <1>1 DEF Refuse, defVars
<1>3. ASSUME libs = {}, todo # <<>>, Stmt.kind = "call" PROVE CallIsWrong(Stmt)'
  <2>1. ~Callable(Stmt, Loop)
    <3>1. ReadCall
      BY <1>1, <1>3 DEF ReadPlan, ReadLibs, ReadImport, ReadDef, ReadBinding, ReadBlock, ReadFor,
                       EndOfPlan, Reading, RegisterLib, LibsClash
    <3>2. Tail(todo) # todo
      <4>1. PICK n, f : TodoIs(n, f)
        BY DEF Reads
      <4> DEFINE U == (Inside \cup {plan[i] : i \in DOMAIN plan}) \X Loops
      <4>2. f \in Seq(U) /\ Rest(n) \in Seq(U) /\ todo = f \o Rest(n)
        BY <4>1, RestTyped DEF TodoIs, Reads
      <4> HIDE DEF U
      <4>3. todo \in Seq(U)
        BY <4>2, ConcatProperties
      <4> QED BY <1>3, <4>3, HeadTailProperties
    <3> QED BY <1>2, <3>1, <3>2 DEF ReadCall
  <2>2. PICK n, f : TodoIs(n, f)
    BY DEF Reads
  <2>3. Stmt \in Inside /\ Loop \in Loops
    BY <1>3, <2>2, NextInside DEF Reads
  <2>4. Stmt.args \in Seq(Arguments)
    BY <1>3, <2>3, InsideFacts
  <2>5. CallIsWrong(Stmt)
    BY <2>1, <2>3, <2>4, RefusedCallIsWrong DEF Reads
  <2> QED BY <1>2, <2>5, CallStaysWrong
<1>4. ~(libs = {} /\ todo = <<>>)
  BY DEF ReadPlan, ReadLibs, ReadImport, ReadDef, ReadBinding, ReadBlock, ReadFor, ReadCall,
         EndOfPlan, Reading, RegisterLib, LibsClash
<1>5. Stmt' = Stmt
  BY <1>2 DEF Stmt
<1> QED BY <1>2, <1>3, <1>4, <1>5 DEF RefusedIsWrongEverywhere

LEMMA JudgeRefuses ==
  ASSUME Sends, \A s \in AllSteps : ReadStep(s), JudgePlan PROVE RefusedIsWrongEverywhere'
<1> SUFFICES ASSUME pass' = "refused" PROVE RefusedIsWrongEverywhere'
  BY DEF RefusedIsWrongEverywhere
<1>1. pass = "read" /\ Refuse /\ \E s \in AllSteps : RefusedArguments(s)
  BY DEF JudgePlan
<1>2. UNCHANGED <<user, todo>> /\ AllSteps' = AllSteps
  BY <1>1 DEF Refuse, defVars, AllSteps, Steps
<1>3. todo' = <<>>
  BY <1>1, <1>2 DEF Sends
<1>4. PICK s \in AllSteps : RefusedArguments(s)
  BY <1>1
<1>5. StepIsWrong(s)'
  BY <1>2, <1>4, RefusedStepIsWrong, StepStaysWrong
<1> QED BY <1>2, <1>3, <1>5 DEF RefusedIsWrongEverywhere

LEMMA NothingSentYet ==
  ASSUME Sends, ReadPlan \/ JudgePlan PROVE Sends'
<1>1. pass \in {"reading", "read"} /\ sent = {} /\ sent' = {}
  BY DEF Sends, ReadPlan, ReadLibs, ReadImport, ReadDef, ReadBinding, ReadBlock, ReadFor, ReadCall,
         EndOfPlan, Reading, Refuse, JudgePlan
<1>2. pass' \in {"read", "expanding"} => todo' = <<>>
  BY DEF Sends, ReadPlan, ReadLibs, ReadImport, ReadDef, ReadBinding, ReadBlock, ReadFor, ReadCall,
         EndOfPlan, Reading, Refuse, JudgePlan
<1> QED BY <1>1, <1>2 DEF Sends

LEMMA ExpandAlike ==
  ASSUME base' = base
  PROVE  \A h, s : Resolved(h, s)' = Resolved(h, s)
<1>1. \A x : Env(x)' = Env(x)
  BY DEF Env
<1>2. ASSUME NEW h, NEW text PROVE Expand(h, text)' = Expand(h, text)
  <2>1. [i \in DOMAIN text |->
           CASE text[i][1] = "name" -> Env(text[i][2])'
             [] text[i][1] = "inv" -> Inv[h][text[i][2]]
             [] OTHER -> <<text[i]>>]
        = [i \in DOMAIN text |->
             CASE text[i][1] = "name" -> Env(text[i][2])
               [] text[i][1] = "inv" -> Inv[h][text[i][2]]
               [] OTHER -> <<text[i]>>]
    BY <1>1
  <2> QED BY <2>1 DEF Expand
<1>3. ASSUME NEW h, NEW s PROVE Resolved(h, s)' = Resolved(h, s)
  <2>1. [p \in DOMAIN s.args \cup DOMAIN s.refs \cup DOMAIN s.templates |->
           IF p \in DOMAIN s.templates THEN Expand(h, s.templates[p])'
           ELSE IF p \in DOMAIN s.refs THEN Env(s.refs[p])' ELSE s.args[p]]
        = [p \in DOMAIN s.args \cup DOMAIN s.refs \cup DOMAIN s.templates |->
             IF p \in DOMAIN s.templates THEN Expand(h, s.templates[p])
             ELSE IF p \in DOMAIN s.refs THEN Env(s.refs[p]) ELSE s.args[p]]
    BY <1>1, <1>2
  <2> QED BY <2>1 DEF Resolved
<1> QED BY <1>3

LEMMA SentStays ==
  ASSUME UNCHANGED <<defVars, base, blocks>>, NEW m, SentResolved(m)
  PROVE  SentResolved(m)'
<1>1. AllSteps' = AllSteps /\ user' = user /\ base' = base
  BY DEF AllSteps, Steps, defVars
<1>2. PICK s \in AllSteps : m.step = Resolved(m.host, s) /\ Acceptable(m.step)
  BY DEF SentResolved
<1>3. m.step = Resolved(m.host, s)'
  BY <1>1, <1>2, ExpandAlike
<1>4. Acceptable(m.step)'
  BY <1>1, <1>2 DEF Acceptable, RefusedArguments, PureCheckRefuses, Resolve
<1> QED BY <1>1, <1>2, <1>3, <1>4 DEF SentResolved

LEMMA SendsKept ==
  ASSUME Sends, NEW h \in Hosts, NEW b \in DOMAIN blocks, ExpandFor(h, b) PROVE Sends'
<1>1. UNCHANGED <<defVars, base, blocks, pass, todo>> /\ pass = "expanding"
  BY DEF ExpandFor
<1>2. ASSUME NEW m \in sent' PROVE SentResolved(m)
  <2>1. CASE m \in sent
    BY <2>1 DEF Sends
  <2>2. CASE m \notin sent
    <3>1. Expandable(h, b)
          /\ m \in {[host |-> h, block |-> b, step |-> Resolved(h, s)] : s \in Steps(b)}
      BY <1>2, <2>2 DEF ExpandFor
    <3>2. PICK s \in Steps(b) : m = [host |-> h, block |-> b, step |-> Resolved(h, s)]
      BY <3>1
    <3>3. m.host = h /\ m.step = Resolved(h, s) /\ s \in AllSteps
      BY <3>2 DEF AllSteps
    <3>4. Acceptable(Resolved(h, s))
      BY <3>1 DEF Expandable
    <3> QED BY <3>3, <3>4 DEF SentResolved
  <2> QED BY <2>1, <2>2
<1>3. \A m \in sent' : SentResolved(m)'
  BY <1>1, <1>2, SentStays
<1> QED BY <1>1, <1>3 DEF Sends

LEMMA ReadInvInit ==
  ASSUME PlanInit PROVE ReadInv
<1>1. plan \in Plans /\ base = VarsFile /\ blocks = <<>> /\ pass = "reading" /\ sent = {}
  BY DEF PlanInit
<1>2. TodoIs(0, <<>>)
  <2>1. todo = Rest(0)
    <3>1. \A i \in 1 .. Len(plan) : 0 + i = i
      OBVIOUS
    <3>2. DOMAIN plan = 1 .. Len(plan) - 0
      BY <1>1, PlanFacts
    <3> QED BY <1>1, <3>1, <3>2 DEF PlanInit, Rest
  <2>2. 0 \in 0 .. Len(plan)
    BY <1>1, PlanFacts
  <2>3. Rest(0) = <<>> \o Rest(0)
    BY <1>1, <2>2, RestTyped, ConcatEmptySeq
  <2>4. BoundBefore(0)
    BY <1>1 DEF BoundBefore
  <2> QED BY <2>1, <2>2, <2>3, <2>4 DEF TodoIs
<1>3. Reads
  BY <1>1, <1>2, ValuesAssumption DEF Reads
<1>4. AllSteps = {}
  BY <1>1 DEF AllSteps
<1> QED BY <1>1, <1>3, <1>4 DEF ReadInv, Sends, RefusedIsWrongEverywhere

LEMMA ReadInvStays ==
  ASSUME ReadInv, UNCHANGED planVars PROVE ReadInv'
<1>1. UNCHANGED <<defVars, plan, todo, base, blocks, pass, sent>>
  BY DEF planVars
<1>2. Reads' /\ RefusedIsWrongEverywhere'
  BY <1>1, SameReads, RefusalStays DEF ReadInv
<1>3. AllSteps' = AllSteps /\ \A s : ReadStep(s) => ReadStep(s)'
  BY <1>1, StepStaysRead DEF AllSteps, Steps
<1>4. Sends'
  BY <1>1, SentStays DEF ReadInv, Sends
<1> QED BY <1>2, <1>3, <1>4 DEF ReadInv

(* Each argument of a step stays what its text comes to where it stands,   *)
(* a name bound once keeps its value, what is sent was resolved and        *)
(* judged, and what is refused is wrong (parsePlan, parser.go;             *)
(* CheckArguments, argcheck.go; ResolveRefs, proto.go).                    *)
THEOREM ReadInvariant == Spec => []ReadInv
<1>1. Init => ReadInv
  BY ReadInvInit DEF Init
<1>2. ASSUME PlanInv, ReadInv, [Next]_vars PROVE ReadInv'
  <2>1. CASE Parse
    <3>1. ReadPlan
      BY <2>1 DEF Parse
    <3>2. Reads' /\ Sends' /\ RefusedIsWrongEverywhere'
      BY <1>2, <3>1, ReadsKept, NothingSentYet, ReadRefuses DEF ReadInv
    <3>3. \A s \in AllSteps' : ReadStep(s)'
      BY <1>2, <3>1, StepsAreRead DEF ReadInv
    <3> QED BY <3>2, <3>3 DEF ReadInv
  <2>2. CASE Judge
    <3>1. JudgePlan /\ UNCHANGED <<plan, todo, base, blocks>>
      BY <2>2 DEF Judge, JudgePlan, Refuse
    <3>2. Reads' /\ Sends' /\ RefusedIsWrongEverywhere'
      BY <1>2, <3>1, SameReads, NothingSentYet, JudgeRefuses DEF ReadInv
    <3>3. AllSteps' = AllSteps /\ \A s : ReadStep(s) => ReadStep(s)'
      BY <3>1, StepStaysRead DEF AllSteps, Steps
    <3> QED BY <1>2, <3>2, <3>3 DEF ReadInv
  <2>3. CASE Send
    <3>1. PICK h \in Hosts, b \in DOMAIN blocks : ExpandFor(h, b)
      BY <2>3 DEF Send, SendPlan
    <3>2. UNCHANGED <<defVars, plan, todo, base, blocks, pass>>
      BY <3>1 DEF ExpandFor
    <3>3. Reads' /\ Sends' /\ RefusedIsWrongEverywhere'
      BY <1>2, <3>1, <3>2, SameReads, SendsKept, RefusalStays DEF ReadInv
    <3>4. AllSteps' = AllSteps /\ \A s : ReadStep(s) => ReadStep(s)'
      BY <3>2, StepStaysRead DEF AllSteps, Steps
    <3> QED BY <1>2, <3>3, <3>4 DEF ReadInv
  <2>4. CASE ImportModules \/ CheckCalls \/ UNCHANGED vars
    <3>1. UNCHANGED planVars
      BY <2>4 DEF ImportModules, CheckCalls, vars
    <3> QED BY <1>2, <3>1, ReadInvStays
  <2> QED BY <1>2, <2>1, <2>2, <2>3, <2>4 DEF Next
<1> QED BY <1>1, <1>2, PlanInvariant, PTL DEF Spec

(* What a host is sent is one Arg for each argument that was written.      *)
LEMMA SentArgs ==
  ASSUME ReadInv, NEW m \in sent
  PROVE  \E s \in AllSteps :
           /\ ReadStep(s) /\ m.host \in Hosts /\ Acceptable(m.step)
           /\ m.step.written = s.written /\ m.step.means = s.means /\ m.step.loops = s.loops
           /\ DOMAIN m.step.refs = {} /\ DOMAIN m.step.templates = {}
           /\ Given(m) \subseteq DOMAIN m.step.args
           /\ \A p \in Given(m) : m.step.args[p] =
                IF p \in DOMAIN s.templates THEN Expand(m.host, s.templates[p])
                ELSE IF p \in DOMAIN s.refs THEN Env(s.refs[p]) ELSE s.args[p]
<1>1. PICK s \in AllSteps : m.step = Resolved(m.host, s) /\ Acceptable(m.step) /\ m.host \in Hosts
  BY DEF ReadInv, Sends, SentResolved
<1>2. ReadStep(s)
  BY DEF ReadInv
<1> DEFINE D == DOMAIN s.args \cup DOMAIN s.refs \cup DOMAIN s.templates
           args == [p \in D |->
                      IF p \in DOMAIN s.templates THEN Expand(m.host, s.templates[p])
                      ELSE IF p \in DOMAIN s.refs THEN Env(s.refs[p]) ELSE s.args[p]]
<1>3. m.step = [s EXCEPT !.args = args, !.refs = NoLoop, !.templates = NoLoop]
  BY <1>1 DEF Resolved
<1>4. StepFields \subseteq DOMAIN s
  BY <1>2 DEF ReadStep
<1> HIDE DEF args
<1>5. /\ m.step.written = s.written /\ m.step.means = s.means /\ m.step.loops = s.loops
      /\ m.step.args = args /\ m.step.refs = NoLoop /\ m.step.templates = NoLoop
  BY <1>3, <1>4 DEF StepFields
<1>6. \A p \in DOMAIN s.written.args : p \in D
  BY <1>2 DEF ReadStep, ReadAs
<1>7. DOMAIN NoLoop = {}
  BY DEF NoLoop
<1> QED BY <1>1, <1>2, <1>5, <1>6, <1>7 DEF Given, args

(* Whatever is replaced while the plan is read and whatever when the host  *)
(* is known, the host is sent what the plan says, read once, from top to   *)
(* bottom, for that host alone ("the two moments do not show",             *)
(* language.md:277; interpolate, parser.go; expandInventory, proto.go).    *)
THEOREM ArgumentsAreAsWritten == Spec => []ResolvedAsWritten
<1>1. ASSUME ReadInv, NEW m \in sent, NEW p \in Given(m), Plain(m, p)
      PROVE  m.step.args[p] = Meaning(m.host, Written(m, p), m.step.means[p])
  <2>1. PICK s \in AllSteps :
          /\ ReadStep(s)
          /\ m.step.written = s.written /\ m.step.means = s.means /\ m.step.loops = s.loops
          /\ m.step.args[p] =
               IF p \in DOMAIN s.templates THEN Expand(m.host, s.templates[p])
               ELSE IF p \in DOMAIN s.refs THEN Env(s.refs[p]) ELSE s.args[p]
    BY <1>1, SentArgs
  <2> DEFINE w == s.written.args[p]
             t == s.means[p]
  <2>2. ReadAs(s, p)
    BY <2>1 DEF Given, ReadStep
  <2>3. Written(m, p) = w /\ m.step.means[p] = t
    BY <2>1 DEF Written
  <2>4. /\ w \in Arguments /\ t \in Texts /\ t # Undefined /\ Clean(w, t)
        /\ w.form = "bare" => \A x \in Names(w.text) : BoundOnce(x) /\ x \notin s.loops
    BY <1>1, <2>1, <2>2, <2>3 DEF Plain, ReadAs
  <2>5. w.text \in Texts
    BY <2>4, WrittenIsText
  <2>6. CASE w.form = "bare"
    <3>1. /\ p \in DOMAIN s.refs /\ p \notin DOMAIN s.templates
          /\ w.text = <<<<"name", s.refs[p]>>>>
          /\ s.refs[p] \notin s.loops /\ BoundOnce(s.refs[p]) => t = Env(s.refs[p])
      BY <2>2, <2>4, <2>6 DEF ReadAs
    <3>2. s.refs[p] \in Names(w.text) /\ ~Deferred(w.text)
      <4>1. DOMAIN w.text = {1} /\ w.text[1] = <<"name", s.refs[p]>>
        BY <3>1
      <4> HIDE DEF w
      <4> QED BY <4>1 DEF Names, Deferred
    <3>3. m.step.args[p] = t
      BY <2>1, <2>4, <2>6, <3>1, <3>2
    <3> HIDE DEF w, t
    <3> QED BY <2>3, <2>4, <2>5, <3>2, <3>3, MeansItself
  <2>7. CASE w.form # "bare" /\ p \in DOMAIN s.templates
    <3>1. w.form # "raw" /\ m.step.args[p] = Expand(m.host, t)
      BY <2>1, <2>2, <2>7 DEF ReadAs
    <3> HIDE DEF w, t
    <3> QED BY <2>3, <2>4, <3>1, MeansExpanded
  <2>8. CASE w.form # "bare" /\ p \notin DOMAIN s.templates
    <3>1. m.step.args[p] = t /\ (w.form = "raw" \/ ~Deferred(w.text))
      BY <2>1, <2>2, <2>8 DEF ReadAs
    <3> HIDE DEF w, t
    <3> QED BY <2>3, <2>4, <2>5, <3>1, MeansItself
  <2> QED BY <2>6, <2>7, <2>8
<1>2. ReadInv => ResolvedAsWritten
  BY <1>1 DEF ResolvedAsWritten
<1> QED BY <1>2, ReadInvariant, PTL

(* A call the reading of the plan refuses is wrong on every host, and no   *)
(* host is sent a call whose arguments its def refuses ("the two passes    *)
(* differ in what they may look at, not in what they decide",              *)
(* argcheck.go:101-106; checkResolvedStep).                                *)
THEOREM PassesJudgeAlike == Spec => []CallsAreJudgedAlike
<1>1. ASSUME ReadInv PROVE NothingRefusedIsSent
  <2>1. ASSUME NEW m \in sent, NEW p \in Given(m), p \in BoolParams[Resolve(m.step.name)]
        PROVE  m.step.args[p] \in Bools
    BY <1>1, <2>1, SentArgs DEF Acceptable
  <2>2. ASSUME NEW m \in sent, NEW r \in Rejects[Resolve(m.step.name)], r[1] \in Given(m)
        PROVE  (IF r[1] \in DOMAIN m.step.with THEN m.step.with[r[1]] ELSE m.step.args[r[1]]) # r[2]
    <3>1. ~PureCheckRefuses(m.step) /\ Given(m) \subseteq DOMAIN m.step.args
      BY <1>1, SentArgs DEF Acceptable, RefusedArguments
    <3> QED BY <2>2, <3>1 DEF PureCheckRefuses
  <2> QED BY <2>1, <2>2 DEF NothingRefusedIsSent
<1>2. ReadInv => CallsAreJudgedAlike
  BY <1>1 DEF CallsAreJudgedAlike, ReadInv
<1> QED BY <1>2, ReadInvariant, PTL
=============================================================================
