----------------------------- MODULE ModuleLock -----------------------------
(***************************************************************************)
(* The modules a plan imports: readImports (project.go), ResolveLocked,    *)
(* LoadLock and SaveLock (module/lock.go), Resolve and fetch               *)
(* (module/module.go).  Several runs of shellf, `status` and `--dry-run`   *)
(* included, share one shellf.lock and one module cache, without a lock    *)
(* between them.                                                           *)
(*                                                                         *)
(* A commit is its name; the hash of what it holds is taken to be that     *)
(* name too, and Spoiled is the hash of anything else.  An import that is  *)
(* a local directory never reaches this module.                            *)
(*                                                                         *)
(* External: git.  `ls-remote` and `clone --branch` each read a tag once,  *)
(* at different moments; `clone --branch` takes no commit name.            *)
(***************************************************************************)
EXTENDS Naturals, Sequences

CONSTANTS
  Runs,      \* calls of project.Load
  Specs,     \* what the plans import: `path@version`
  Shas,      \* commits
  Version,   \* Version[s]: the commit s names itself, or None for a tag
  Projects,  \* the projects considered: [Runs -> what its plan imports]
  Tagged,    \* where the tags point at first
  None,
  Spoiled,   \* the hash of a cached module that is no commit's any more
  Torn,      \* a shellf.lock with a line that is not three fields
  MaxEvents  \* bound: tags moved, caches purged or spoiled, runs killed

ASSUME SpecialAssumption ==
  /\ None \notin Shas /\ Spoiled \notin Shas /\ None # Spoiled
  /\ None \notin [sha : Shas, hash : Shas \cup {Spoiled}]
  /\ Torn \notin [Specs -> [sha : Shas, hash : Shas \cup {Spoiled}] \cup {None}]
ASSUME ProjectsAssumption ==
  /\ Version \in [Specs -> Shas \cup {None}]
  /\ Projects \subseteq [Runs -> Seq(Specs)]
  /\ Tagged \in [Specs -> Shas]
  /\ MaxEvents \in Nat

VARIABLES
  imports,   \* imports[r]: what the plan of r imports, in order
  file,      \* shellf.lock
  cache,     \* cache[c]: the hash of the cached sources of c, or None
  tag,       \* tag[s]: where the tag of s points, or None
  at,        \* at[r]: where r stands in readImports
  next,      \* next[r]: the import r is at
  lock,      \* lock[r]: the map r has in memory
  changed,   \* changed[r]: it records something the file it read did not
  sha,       \* sha[r]: what Resolve found its import to be
  served,    \* served[r][s]: the hash of what r was given for s
  loaded,    \* history: loaded[r]: the lock as r read it
  offline,   \* history: offline[r]: r found all it imports pinned and cached,
             \*   and the cache has been left alone since
  alone,     \* history: no run has begun while another had not ended, none
             \*   was killed, and no write has failed
  events     \* how many events there have been

world == <<imports, file, cache, tag>>
history == <<loaded, offline, alone, events>>
lockVars == <<world, at, next, lock, changed, sha, served, history>>

Hash == Shas \cup {Spoiled}
Entry == [sha : Shas, hash : Hash]
Lock == [Specs -> Entry \cup {None}]
NoEntries == [s \in Specs |-> None]
Ended == {"done", "refused", "killed"}
Live(r) == at[r] \notin Ended \cup {"start"}

Pinned(l) == {s \in Specs : l[s] # None}
Wanted(r) == {imports[r][i] : i \in 1 .. Len(imports[r])}
Now(r) == imports[r][next[r]]

LockInit ==
  /\ imports \in Projects
  /\ file = NoEntries
  /\ cache = [c \in Shas |-> None]
  /\ tag = Tagged
  /\ at = [r \in Runs |-> "start"]
  /\ next = [r \in Runs |-> 1]
  /\ lock = [r \in Runs |-> NoEntries]
  /\ changed = [r \in Runs |-> FALSE]
  /\ sha = [r \in Runs |-> None]
  /\ served = [r \in Runs |-> NoEntries]
  /\ loaded = [r \in Runs |-> NoEntries]
  /\ offline = [r \in Runs |-> FALSE]
  /\ alone = TRUE
  /\ events = 0

Goto(r, place) == at' = [at EXCEPT ![r] = place]
Transition(r, from, to) == at[r] = from /\ Goto(r, to)

(* A plan without imports reads no lock.                                   *)
NoImports(r) ==
  /\ imports[r] = <<>>
  /\ Transition(r, "start", "done")
  /\ UNCHANGED <<world, next, lock, changed, sha, served, history>>

(* A missing file and an empty one are the empty lock.                     *)
LoadLock(r) ==
  /\ imports[r] # <<>>
  /\ file # Torn
  /\ Transition(r, "start", "resolve")
  /\ lock' = [lock EXCEPT ![r] = file]
  /\ loaded' = [loaded EXCEPT ![r] = file]
  /\ alone' = (alone /\ \A q \in Runs : ~Live(q))
  /\ offline' = [offline EXCEPT ![r] = \A s \in Wanted(r) :
                    file[s] # None /\ cache[file[s].sha] = file[s].hash]
  /\ UNCHANGED <<world, next, changed, sha, served, events>>

LoadTorn(r) ==
  /\ imports[r] # <<>>
  /\ file = Torn
  /\ Transition(r, "start", "refused")
  /\ UNCHANGED <<world, next, lock, changed, sha, served, history>>

(* The import is served: the next one, or the end of the loop.             *)
Serve(r, hash) ==
  /\ served' = [served EXCEPT ![r][Now(r)] = hash]
  /\ next' = [next EXCEPT ![r] = @ + 1]
  /\ Goto(r, IF next[r] < Len(imports[r]) THEN "resolve"
             ELSE IF changed'[r] THEN "save" ELSE "done")

Entered(r) == lock[r][Now(r)]

(* Slip: the tag is asked for before the cache is looked at.               *)
Slip_InCache(r) ==
  /\ Entered(r) # None
  /\ tag[Now(r)] = Entered(r).sha
  /\ cache[Entered(r).sha] # None

InCache(r) == Entered(r) # None /\ cache[Entered(r).sha] # None

(* Locked and cached: verified without the network.                        *)
ServeCached(r) ==
  /\ at[r] = "resolve" /\ InCache(r)
  /\ cache[Entered(r).sha] = Entered(r).hash
  /\ UNCHANGED <<world, lock, changed, sha, history>>
  /\ Serve(r, Entered(r).hash)

RefuseCached(r) ==
  /\ Transition(r, "resolve", "refused")
  /\ InCache(r)
  /\ cache[Entered(r).sha] # Entered(r).hash
  /\ UNCHANGED <<world, next, lock, changed, sha, served, history>>

(* Resolve: a commit is its own name, a tag is asked for.  A commit that   *)
(* is cached is not fetched.                                               *)
AskTag(r) ==
  /\ at[r] = "resolve" /\ ~InCache(r)
  /\ LET c == IF Version[Now(r)] = None THEN tag[Now(r)] ELSE Version[Now(r)] IN
       /\ c # None
       /\ sha' = [sha EXCEPT ![r] = c]
       /\ Goto(r, IF cache[c] = None THEN "clone" ELSE "read")
  /\ UNCHANGED <<world, next, lock, changed, served, history>>

(* No such tag, or no answer.                                              *)
AskFails(r) ==
  /\ Transition(r, "resolve", "refused")
  /\ ~InCache(r) /\ Version[Now(r)] = None
  /\ UNCHANGED <<world, next, lock, changed, sha, served, history>>

(* fetch: cloned aside and renamed in place whole, beside another run that *)
(* does the same.  What the tag points to by now must be what it was.      *)
Clone(r) ==
  /\ Transition(r, "clone", "read")
  /\ Version[Now(r)] = None
  /\ tag[Now(r)] = sha[r]
  /\ cache' = [cache EXCEPT ![sha[r]] = IF @ = None THEN sha[r] ELSE @]
  /\ UNCHANGED <<imports, file, tag, next, lock, changed, sha, served, history>>

(* HEAD is not the commit, the tag is gone, the network is, or the version *)
(* is a commit, which `--branch` does not take.                            *)
CloneFails(r) ==
  /\ Transition(r, "clone", "refused")
  /\ UNCHANGED <<world, next, lock, changed, sha, served, history>>

(* Slip: a locked module that was fetched again is not held to the lock.   *)
Slip_ReadUnchecked(r) ==
  /\ at[r] = "read"
  /\ cache[sha[r]] # None
  /\ IF Entered(r) = None
       THEN /\ lock' = [lock EXCEPT ![r][Now(r)] =
                          [sha |-> sha[r], hash |-> cache[sha[r]]]]
            /\ changed' = [changed EXCEPT ![r] = TRUE]
       ELSE UNCHANGED <<lock, changed>>
  /\ Serve(r, cache[sha[r]])
  /\ UNCHANGED <<world, sha, history>>

(* ResolveLocked after Resolve: recorded if the lock had nothing, else     *)
(* held to what it says.                                                   *)
ReadModule(r) ==
  /\ at[r] = "read"
  /\ cache[sha[r]] # None
  /\ LET got == [sha |-> sha[r], hash |-> cache[sha[r]]] IN
       \/ /\ Entered(r) = None
          /\ lock' = [lock EXCEPT ![r][Now(r)] = got]
          /\ changed' = [changed EXCEPT ![r] = TRUE]
       \/ /\ Entered(r) = got
          /\ UNCHANGED <<lock, changed>>
  /\ Serve(r, cache[sha[r]])
  /\ UNCHANGED <<world, sha, history>>

(* "moved", "changed since it was pinned", or the directory is gone.       *)
RefuseModule(r) ==
  /\ Transition(r, "read", "refused")
  /\ \/ cache[sha[r]] = None
     \/ /\ Entered(r) # None
        /\ Entered(r) # [sha |-> sha[r], hash |-> cache[sha[r]]]
  /\ UNCHANGED <<world, next, lock, changed, sha, served, history>>

(* SaveLock is os.WriteFile: the file is emptied, then written.            *)
Truncate(r) ==
  /\ Transition(r, "save", "write")
  /\ file' = NoEntries
  /\ UNCHANGED <<imports, cache, tag, next, lock, changed, sha, served, history>>

(* Slip: the lock is written as it was read, with this run's last import.  *)
Slip_WriteLast(r) ==
  /\ Transition(r, "write", "done")
  /\ LET last == imports[r][Len(imports[r])] IN
       file' = [loaded[r] EXCEPT ![last] = lock[r][last]]
  /\ UNCHANGED <<imports, cache, tag, next, lock, changed, sha, served, history>>

(* What another run wrote since is overwritten from the start.  Where it   *)
(* was longer its last lines stay, and a line cut in its middle makes the  *)
(* file one that LoadLock refuses.                                         *)
Write(r) ==
  /\ Transition(r, "write", "done")
  /\ \/ file' = lock[r]
     \/ file = Torn /\ UNCHANGED file
     \/ /\ file # Torn
        /\ ~(Pinned(file) \subseteq Pinned(lock[r]))
        /\ \/ file' = Torn
           \/ \E rest \in SUBSET Pinned(file) \ {Pinned(file)} :
                file' = [s \in Specs |-> IF s \in rest THEN file[s] ELSE lock[r][s]]
  /\ UNCHANGED <<imports, cache, tag, next, lock, changed, sha, served, history>>

(* A full disk: the run refuses the plan, the file stays empty.            *)
WriteFails(r) ==
  /\ events < MaxEvents
  /\ Transition(r, "write", "refused")
  /\ events' = events + 1
  /\ alone' = FALSE
  /\ UNCHANGED <<world, next, lock, changed, sha, served, loaded, offline>>

Kill(r) ==
  /\ events < MaxEvents
  /\ Live(r)
  /\ Goto(r, "killed")
  /\ events' = events + 1
  /\ alone' = FALSE
  /\ UNCHANGED <<world, next, lock, changed, sha, served, loaded, offline>>

(* External: the author moves or deletes a tag some run may still ask for. *)
MoveTag(s) ==
  /\ events < MaxEvents
  /\ \E r \in Runs : at[r] \notin Ended /\ s \in Wanted(r)
  /\ \E c \in Shas \cup {None} : c # tag[s] /\ tag' = [tag EXCEPT ![s] = c]
  /\ events' = events + 1
  /\ UNCHANGED <<imports, file, cache, at, next, lock, changed, sha, served, loaded,
                 offline, alone>>

(* External: somebody empties or edits ~/.cache/shellf/modules.            *)
TouchCache(c) ==
  /\ events < MaxEvents
  /\ cache[c] # None
  /\ \E h \in {None, Spoiled} : h # cache[c] /\ cache' = [cache EXCEPT ![c] = h]
  /\ offline' = [r \in Runs |-> FALSE]
  /\ events' = events + 1
  /\ UNCHANGED <<imports, file, tag, at, next, lock, changed, sha, served, loaded, alone>>

Import(r) ==
  \/ NoImports(r) \/ LoadLock(r) \/ LoadTorn(r) \/ ServeCached(r)
  \/ RefuseCached(r) \/ AskTag(r) \/ AskFails(r) \/ Clone(r) \/ CloneFails(r)
  \/ ReadModule(r) \/ RefuseModule(r) \/ Truncate(r) \/ Write(r)
  \/ WriteFails(r) \/ Kill(r)

World == (\E s \in Specs : MoveTag(s)) \/ (\E c \in Shas : TouchCache(c))

LockNext == (\E r \in Runs : Import(r)) \/ World

LockSpec == LockInit /\ [][LockNext]_lockVars

-----------------------------------------------------------------------------
LockTypeOK ==
  /\ imports \in [Runs -> Seq(Specs)]
  /\ file \in Lock \cup {Torn}
  /\ cache \in [Shas -> Hash \cup {None}]
  /\ tag \in [Specs -> Shas \cup {None}]
  /\ at \in [Runs -> {"start", "resolve", "clone", "read", "save", "write"} \cup Ended]
  /\ next \in [Runs -> Nat]
  /\ lock \in [Runs -> Lock]
  /\ changed \in [Runs -> BOOLEAN]
  /\ sha \in [Runs -> Shas \cup {None}]
  /\ served \in [Runs -> [Specs -> Hash \cup {None}]]
  /\ loaded \in [Runs -> Lock]
  /\ offline \in [Runs -> BOOLEAN]
  /\ alone \in BOOLEAN
  /\ events \in 0 .. MaxEvents

(* The lock is the trust anchor (lock.go:11-13): whatever tags and caches  *)
(* do meanwhile, a run is given for a module what the lock it read says,   *)
(* or what it will write into it.                                          *)
ServedAsPinned ==
  \A r \in Runs, s \in Specs :
    /\ served[r][s] # None => lock[r][s] # None /\ lock[r][s].hash = served[r][s]
    /\ loaded[r][s] # None => lock[r][s] = loaded[r][s]

(* "a moved tag whose SHA or content changed is rejected on the next run"  *)
(* (lock.go:12-13): two runs that have got past their imports were given   *)
(* the same module under the same name, however far apart they ran.        *)
MovedTagRejected ==
  \A q, r \in Runs : at[q] = "done" /\ at[r] = "done" =>
    \A s \in Specs : None \in {served[q][s], served[r][s]} \/ served[q][s] = served[r][s]

(* It holds as long as runs of one project do not overlap and none dies or *)
(* fails in its save.                                                      *)
MovedTagRejectedAlone == alone => MovedTagRejected

(* "offline after first lock" (module.go:60-61): a run that finds all it   *)
(* imports pinned and cached gets past its imports, whatever tags and the  *)
(* network do and whatever the other runs write.                           *)
OfflineAfterFirstLock == \A r \in Runs : offline[r] => at[r] # "refused"
=============================================================================
