------------------------------ MODULE EnsurePackage ----------------------------
(***************************************************************************)
(* "sampctl ensure" for a project with one dependency: from the load of    *)
(* the package and of pawn.lock, through the resolution of the dependency  *)
(* reference, the clone and the checkout of dependencies/<repo>, the       *)
(* integrity check and its recovery, to the save of pawn.lock.             *)
(*                                                                         *)
(* One step of the specification is one stage of the command.  Between two *)
(* stages the network may fail or come back, upstream may get new commits, *)
(* another project may refresh the cache they share, and the process may   *)
(* be killed.  While no command runs, the user may edit what is theirs.    *)
(***************************************************************************)
EXTENDS LockResolver

CONSTANTS Requests,     \* the ensure commands the user runs
          References,   \* the constraints the user writes in pawn.json
          Environment   \* which environment actions may happen

AllRequests ==
  {r \in [update : BOOLEAN, force : BOOLEAN, target : BOOLEAN, lockOnly : BOOLEAN] :
     (r.force \/ r.target) => r.update}

EnvironmentActions ==
  {"push", "network", "crash", "refresh_cache", "clear_cache",
   "edit_reference", "edit_vendor", "delete_vendor", "delete_lock", "share_lock"}

ASSUME RequestsAssumption    == Requests \subseteq AllRequests
ASSUME ReferencesAssumption  == References # {} /\ References \subseteq Metas
ASSUME EnvironmentAssumption == Environment \subseteq EnvironmentActions

VARIABLES
  upstream,    \* [tip, tags]: the remote repository
  online,      \* can the remote be reached?
  constraint,  \* the dependency's reference in pawn.json
  cache,       \* the shared cached repositories
  vendor,      \* dependencies/<repo>
  disk,        \* pawn.lock
  pc,          \* the stage of the running command, "idle" when none runs
  request,     \* the flags of the running command
  original,    \* the constraint to restore if the update fails
  lock,        \* the resolver's entry for the dependency
  meta,        \* the reference being installed (effectiveMeta)
  attempt,     \* 1 or 2: the retrier of ensureDependencies
  round,       \* 2 after the integrity check has made sampctl clone again
  outcome,     \* of the dependency: "none", "ensured" or "skipped"
  steady       \* history: the network is up and upstream the same since the start

remoteVars  == <<upstream, online>>
filesVars   == <<constraint, cache, vendor, disk>>
commandVars == <<pc, request, original, lock, meta, attempt, round, outcome, steady>>
vars        == <<remoteVars, filesVars, commandVars>>

NoRequest == [update |-> FALSE, force |-> FALSE, target |-> FALSE, lockOnly |-> FALSE]

InstallStages == {"repository", "update", "repair", "force", "reclone", "reupdate",
                  "verify", "restore", "record"}
SaveStages    == {"runtime", "finish", "relocked"}
Stages        == {"idle", "load", "rewrite", "refresh", "resolve", "relock"}
                 \cup InstallStages \cup SaveStages

NoLock      == [status |-> "missing", entry |-> NoEntry]
CorruptLock == [status |-> "corrupt", entry |-> NoEntry]
Saved(e)    == [status |-> "saved",   entry |-> e]

TypeOK ==
  /\ upstream \in [tip : Commits, tags : SUBSET Commits]
  /\ online \in BOOLEAN
  /\ constraint \in Metas
  /\ cache \in [CacheKeys -> CacheStates]
  /\ vendor \in Repositories
  /\ disk \in [status : {"missing", "corrupt", "saved"}, entry : Entries]
  /\ pc \in Stages
  /\ request \in AllRequests
  /\ original \in Metas
  /\ lock \in Entries
  /\ meta \in Metas
  /\ attempt \in {1, 2}
  /\ round \in {1, 2}
  /\ outcome \in {"none", "ensured", "skipped"}
  /\ steady \in BOOLEAN

Init ==
  /\ upstream \in {[tip |-> 1, tags |-> t] : t \in SUBSET {1}}
  /\ online = TRUE
  /\ constraint \in References
  /\ cache = [k \in CacheKeys |-> Missing]
  /\ vendor = NoRepository
  /\ disk = NoLock
  /\ pc = "idle"
  /\ request = NoRequest
  /\ original = Unpinned
  /\ lock = NoEntry
  /\ meta = Unpinned
  /\ attempt = 1
  /\ round = 1
  /\ outcome = "none"
  /\ steady = FALSE

--------------------------------------------------------------------------------
(* The cached repository.                                                  *)

(* Faulty variant: a clone that was cut short is taken for a repository.   *)
EnsureCachedUnvalidated(c, force) ==
  IF c # Missing /\ ~force THEN [ok |-> TRUE, cached |-> c]
  ELSE IF online THEN [ok |-> TRUE, cached |-> upstream.tip]
  ELSE [ok |-> FALSE, cached |-> Missing]

(* ensureRepoExists on a cached copy in state c, forced or not: clone what *)
(* is not a valid repository, pull when forced.  A failed pull ends in     *)
(* recoverByReclone, which removes the copy before it clones.              *)
EnsureCached(c, force) ==
  IF ValidCache(c) /\ ~force THEN [ok |-> TRUE, cached |-> c]
  ELSE IF online THEN [ok |-> TRUE, cached |-> upstream.tip]
  ELSE [ok |-> FALSE, cached |-> Missing]

Newest(tags) == CHOOSE t \in tags : \A u \in tags : u <= t

(* latestTagFromCache: the newest of the tags that came with the copy.     *)
TagsIn(c) == {t \in upstream.tags : t <= c}

(* resolveLatestTag: "tag", "untagged" or "error", and the cached copy     *)
(* afterwards.  Forced, the GitHub releases decide, else the tags of a     *)
(* copy that has just been pulled; not forced, a cached tag wins, however  *)
(* old, and GitHub is asked only when there is none.                       *)
Found(result, tag, c) == [result |-> result, tag |-> tag, cached |-> c]

ResolveLatestTag(c, force) ==
  IF ~force /\ TagsIn(c) # {} THEN Found("tag", Newest(TagsIn(c)), c)
  ELSE IF online /\ upstream.tags # {} THEN Found("tag", Newest(upstream.tags), c)
  ELSE LET e == EnsureCached(c, force)
       IN Found(IF e.ok THEN "untagged" ELSE "error", NoCommit, e.cached)

(* packageFromCachedRevision: the definition of a pinned revision is read  *)
(* from the cached copy as it is, which may be older than the tag.         *)
HasRevision(c, m) ==
  CASE m.kind = "tag"    -> m.at \in TagsIn(c)
    [] m.kind = "commit" -> m.at <= c
    [] OTHER             -> TRUE

(* refreshDependencyGraph, the dependency being the last one the walk      *)
(* handles: whatever fails for it fails the walk.                          *)
RefreshGraph(m, force) ==
  LET e == EnsureCached(cache[CacheKey(m)], force)
  IN [e EXCEPT !.ok = @ /\ HasRevision(e.cached, m)]

--------------------------------------------------------------------------------
(* The vendored repository.  A world is what one step of the command reads *)
(* and writes: did the step succeed, the vendored and the cached copies.   *)

World(ok, v, caches) == [ok |-> ok, vendor |-> v, cache |-> caches]

(* cloneRepository from the cached copy; a failed clone is cleaned up.     *)
CloneFromCache(caches, key) ==
  IF ValidCache(caches[key]) THEN World(TRUE, Clone(caches[key], key), caches)
  ELSE World(FALSE, NoRepository, caches)

(* updateRepository: pull, repair and pull again, clone again.             *)
UpdateRepository(v, caches, key) ==
  LET first  == Pull(v, caches[v.origin])
      second == Pull(RepairRepository(first.repo), caches[v.origin])
  IN IF first.ok THEN World(TRUE, first.repo, caches)
     ELSE IF second.ok THEN World(TRUE, second.repo, caches)
     ELSE CloneFromCache(caches, key)

(* Faulty variant: a missing cached copy is not cloned again.              *)
EnsureFromCacheUncached(v, caches, key, force) ==
  IF ~ValidRepository(v) THEN CloneFromCache(caches, key)
  ELSE IF force THEN UpdateRepository(v, caches, key)
  ELSE World(TRUE, v, caches)

(* EnsureDependencyFromCache: a missing cached copy is cloned, a forced    *)
(* one is pulled; then the vendored copy is cloned from it or pulled.      *)
EnsureFromCache(v, caches, key, force) ==
  LET e == IF caches[key] = Missing \/ force
           THEN EnsureCached(caches[key], force)
           ELSE [ok |-> TRUE, cached |-> caches[key]]
      after == [caches EXCEPT ![key] = e.cached]
  IN IF ~e.ok THEN World(FALSE, v, after)
     ELSE IF ~ValidRepository(v) THEN CloneFromCache(after, key)
     ELSE IF force THEN UpdateRepository(v, after, key)
     ELSE World(TRUE, v, after)

(* recloneDependency: remove, then clone from the cache.                   *)
RecloneDependency(caches, key) == EnsureFromCache(NoRepository, caches, key, FALSE)

(* The last part of updateRepoState: check out what the reference names.   *)
CheckoutReference(w, m) ==
  LET pulled == Pull(w.vendor, w.cache[w.vendor.origin])
      known  == m.at \in 1 .. pulled.repo.known
  IN CASE m.kind = "tag" ->
            IF m.at \in upstream.tags /\ m.at <= w.vendor.known
            THEN World(TRUE, Checkout(w.vendor, m.at), w.cache)
            ELSE World(FALSE, w.vendor, w.cache)
       [] m.kind = "commit" ->
            IF pulled.ok /\ known
            THEN World(TRUE, Checkout(pulled.repo, m.at), w.cache)
            ELSE World(FALSE, pulled.repo, w.cache)
       [] m.kind = "branch" ->
            IF pulled.ok
            THEN World(TRUE, Checkout(pulled.repo, pulled.repo.ref), w.cache)
            ELSE World(FALSE, pulled.repo, w.cache)
       [] OTHER -> World(pulled.ok, pulled.repo, w.cache)

(* updateRepoState: forced, the cached and the vendored copies are pulled  *)
(* first (and cloned if they have to be).                                  *)
UpdateRepoState(v, m, force) ==
  LET forced == EnsureFromCache(v, cache, CacheKey(m), TRUE)
      pulled == Pull(forced.vendor, forced.cache[forced.vendor.origin])
  IN IF ~force THEN CheckoutReference(World(TRUE, v, cache), m)
     ELSE IF ~forced.ok THEN forced
     ELSE IF ~pulled.ok THEN World(FALSE, pulled.repo, forced.cache)
     ELSE CheckoutReference(World(TRUE, pulled.repo, forced.cache), m)

--------------------------------------------------------------------------------
(* The command.                                                            *)

(* DependencyUpdateRequest.ShouldForceDependency for the direct dependency *)
(* (a target selects it by name).                                          *)
ShouldForce(m) ==
  /\ request.update
  /\ \/ request.force /\ ~request.target
     \/ IsDynamic(m)
     \/ request.force /\ IsPinnedTag(m)

Goto(stage) == pc' = stage /\ UNCHANGED <<request, original, steady>>
Keeping     == UNCHANGED <<lock, meta, attempt, round, outcome>>
Move(stage) == Goto(stage) /\ Keeping

(* The process ends, with or without an error, and its memory is gone.     *)
Exit ==
  /\ pc' = "idle"
  /\ request' = NoRequest /\ original' = Unpinned /\ steady' = FALSE
  /\ lock' = NoEntry /\ meta' = Unpinned
  /\ attempt' = 1 /\ round' = 1 /\ outcome' = "none"

(* An attempt is over: what is left of it is how it ended.                 *)
AttemptEnds(stage, try, result) ==
  /\ Goto(stage)
  /\ meta' = Unpinned /\ round' = 1
  /\ attempt' = try /\ outcome' = result

(* Faulty variant: the retry does not count.                               *)
AttemptFailsUncounted == AttemptEnds("resolve", 1, "none")

(* ensureDependencies: a failed attempt is retried once, then skipped.     *)
AttemptFails ==
  IF attempt = 1 THEN AttemptEnds("resolve", 2, "none")
                 ELSE AttemptEnds("runtime", 1, "skipped")

Start(r) ==
  /\ pc = "idle"
  /\ pc' = "load"
  /\ request' = r
  /\ original' = constraint
  /\ steady' = online
  /\ Keeping
  /\ UNCHANGED <<remoteVars, filesVars>>

(* Faulty variant: a target does not protect the lock from --force.        *)
LoadCleared ==
  LET e == RefreshGraph(constraint, FALSE)
  IN /\ pc = "load"
     /\ cache' = [cache EXCEPT ![CacheKey(constraint)] = e.cached]
     /\ IF ~e.ok \/ disk.status = "corrupt" THEN Exit
        ELSE /\ lock' = IF request.force THEN NoEntry ELSE disk.entry
             /\ Goto(IF request.lockOnly THEN "relock" ELSE "rewrite")
             /\ UNCHANGED <<meta, attempt, round, outcome>>
     /\ UNCHANGED <<remoteVars, constraint, vendor, disk>>

(* NewPackageContext caches the dependency, InitLockfileResolver loads     *)
(* pawn.lock and describeEnsureLockfile clears it for --update --force.    *)
Load ==
  LET e == RefreshGraph(constraint, FALSE)
  IN /\ pc = "load"
     /\ cache' = [cache EXCEPT ![CacheKey(constraint)] = e.cached]
     /\ IF ~e.ok \/ disk.status = "corrupt" THEN Exit
        ELSE /\ lock' = IF request.force /\ ~request.target THEN NoEntry ELSE disk.entry
             /\ Goto(IF request.lockOnly THEN "relock" ELSE "rewrite")
             /\ UNCHANGED <<meta, attempt, round, outcome>>
     /\ UNCHANGED <<remoteVars, constraint, vendor, disk>>

(* UpdateDependencyReferences rewrites the reference in pawn.json: an      *)
(* unpinned one to :latest, with --force a pinned tag to the newest one.   *)
Rewritable ==
  /\ request.update
  /\ constraint.kind = "none" \/ (request.force /\ IsPinnedTag(constraint))

Rewritten(found) ==
  CASE found.result # "tag"     -> constraint
    [] constraint.kind = "none" -> Latest
    [] OTHER                    -> AtTag(found.tag)

Rewrite ==
  LET found == ResolveLatestTag(cache["default"], TRUE)
  IN /\ pc = "rewrite"
     /\ IF Rewritable
        THEN /\ cache' = [cache EXCEPT !["default"] = found.cached]
             /\ constraint' = Rewritten(found)
             /\ IF found.result = "error" /\ request.target THEN Exit ELSE Move("refresh")
        ELSE /\ Move(IF request.update THEN "refresh" ELSE "resolve")
             /\ UNCHANGED <<cache, constraint>>
     /\ UNCHANGED <<remoteVars, vendor, disk>>

(* refreshDependencyGraph pulls the cached copy; a failure rolls the       *)
(* rewritten reference back and ends the command.                          *)
Refresh ==
  LET e == RefreshGraph(constraint, ShouldForce(constraint))
  IN /\ pc = "refresh"
     /\ cache' = [cache EXCEPT ![CacheKey(constraint)] = e.cached]
     /\ IF e.ok THEN Move("resolve") /\ UNCHANGED constraint
                ELSE Exit /\ constraint' = original
     /\ UNCHANGED <<remoteVars, vendor, disk>>

(* LockedVersion and resolveDynamicDependencyReference.                    *)
Resolve ==
  LET force  == ShouldForce(constraint)
      chosen == IF force THEN constraint ELSE GetLockedVersion(lock, constraint)
      found  == ResolveLatestTag(cache["default"], force)
      Install(m) == meta' = m /\ Goto("repository") /\ UNCHANGED <<attempt, round, outcome>>
  IN /\ pc = "resolve"
     /\ IF chosen.kind # "latest" THEN Install(chosen) /\ UNCHANGED cache
        ELSE /\ cache' = [cache EXCEPT !["default"] = found.cached]
             /\ CASE found.result = "tag"      -> Install(AtTag(found.tag))
                  [] found.result = "untagged" -> Install(Unpinned)
                  [] found.result = "error"    -> AttemptFails
     /\ UNCHANGED <<remoteVars, constraint, vendor, disk, lock>>

(* An install stage yields a world and goes on to one of two stages.       *)
Perform(w, Success, Failure) ==
  /\ vendor' = w.vendor
  /\ cache' = w.cache
  /\ IF w.ok THEN Success ELSE Failure
  /\ UNCHANGED <<remoteVars, constraint, disk, lock>>

(* removeInvalidDependencyRepo and ensureDependencyRepository.             *)
Repository ==
  /\ pc = "repository"
  /\ Perform(IF ValidRepository(vendor) THEN World(TRUE, vendor, cache)
             ELSE RecloneDependency(cache, CacheKey(meta)),
             Move("update"), AttemptFails)

(* updateRepoStateWithRecovery: update; repair and update by force; update *)
(* by force; clone again and update.                                       *)
Update ==
  /\ pc = "update"
  /\ Perform(UpdateRepoState(vendor, meta, ShouldForce(constraint)),
             Move("verify"), Move("repair"))

Repair ==
  /\ pc = "repair"
  /\ Perform(IF ValidRepository(vendor)
             THEN UpdateRepoState(RepairRepository(vendor), meta, TRUE)
             ELSE World(FALSE, vendor, cache),
             Move("verify"), Move("force"))

ForceUpdate ==
  /\ pc = "force"
  /\ Perform(UpdateRepoState(vendor, meta, TRUE), Move("verify"), Move("reclone"))

Reclone ==
  /\ pc = "reclone"
  /\ Perform(RecloneDependency(cache, CacheKey(meta)), Move("reupdate"), AttemptFails)

Reupdate ==
  /\ pc = "reupdate"
  /\ Perform(UpdateRepoState(vendor, meta, ShouldForce(constraint)),
             Move("verify"), AttemptFails)

(* verifyDependencyIntegrityWithRecovery: a mismatch is answered once by a *)
(* fresh clone and the whole update, and is an error the second time.  The *)
(* lock entry is consulted whether or not it chose the version.            *)
Verify ==
  /\ pc = "verify"
  /\ Perform(World(VerifyIntegrity(lock, vendor), vendor, cache), Move("record"),
             IF round = 1 THEN Move("restore") ELSE AttemptFails)

Restore ==
  /\ pc = "restore"
  /\ Perform(RecloneDependency(cache, CacheKey(meta)),
             Goto("update") /\ round' = 2 /\ UNCHANGED <<meta, attempt, outcome>>,
             AttemptFails)

(* Faulty variant: what a forced update installed is not recorded.         *)
RecordUnforced ==
  /\ pc = "record"
  /\ lock' = IF ShouldForce(constraint) THEN lock
             ELSE RecordResolution(lock, constraint, vendor.head)
  /\ AttemptEnds("runtime", 1, "ensured")
  /\ UNCHANGED <<remoteVars, filesVars>>

(* recordDependencyResolution and installPackageResources.  Release assets *)
(* that are not cached can be downloaded only while the network is up.     *)
Record ==
  /\ pc = "record"
  /\ lock' = RecordResolution(lock, constraint, vendor.head)
  /\ \/ AttemptEnds("runtime", 1, "ensured")
     \/ ~online /\ AttemptFails
  /\ UNCHANGED <<remoteVars, filesVars>>

(* ensureParentRuntime saves the lock once the runtime is there.  Without  *)
(* the network it may fail, which ends the command before that save.       *)
Runtime ==
  /\ pc = "runtime"
  /\ \/ disk' = Saved(lock) /\ Move("finish")
     \/ ~online /\ Exit /\ UNCHANGED disk
  /\ UNCHANGED <<remoteVars, constraint, cache, vendor>>

(* The prune, which keeps the one dependency, and the last save.           *)
Finish ==
  /\ pc \in {"finish", "relocked"}
  /\ disk' = Saved(lock)
  /\ Exit
  /\ UNCHANGED <<remoteVars, constraint, cache, vendor>>

(* UpdateLockfile (--lock-only): what resolveLockfileDependencyMeta finds  *)
(* selects the cached copy, whose HEAD is the commit recorded.             *)
Relock ==
  LET force   == ShouldForce(constraint)
      graph   == RefreshGraph(constraint, force)
      chosen  == IF force THEN constraint ELSE GetLockedVersion(lock, constraint)
      key     == CacheKey(chosen)
      c       == IF key = CacheKey(constraint) THEN graph.cached ELSE cache[key]
      asksTag == chosen.kind = "latest" \/ (force /\ IsPinnedTag(constraint))
      found   == ResolveLatestTag(c, force)
      cached  == EnsureCached(IF asksTag \/ chosen.kind = "none" THEN found.cached ELSE c, force)
      ok      == graph.ok /\ (asksTag => found.result # "error") /\ cached.ok
  IN /\ pc = "relock"
     /\ cache' = [k \in CacheKeys |->
                    IF graph.ok /\ k = key THEN cached.cached
                    ELSE IF k = CacheKey(constraint) THEN graph.cached ELSE cache[k]]
     /\ IF ok THEN /\ lock' = RecordResolution(lock, constraint, cached.cached)
                   /\ Goto("relocked")
                   /\ UNCHANGED <<meta, attempt, round, outcome>>
              ELSE Exit
     /\ UNCHANGED <<remoteVars, constraint, vendor, disk>>

Stage ==
  \/ Load \/ Rewrite \/ Refresh \/ Resolve
  \/ Repository \/ Update \/ Repair \/ ForceUpdate \/ Reclone \/ Reupdate
  \/ Verify \/ Restore \/ Record \/ Runtime \/ Finish \/ Relock

--------------------------------------------------------------------------------
(* The environment.                                                        *)

Disturb == steady' = FALSE
           /\ UNCHANGED <<pc, request, original, lock, meta, attempt, round, outcome>>

(* A new upstream commit, tagged or not, at any time.                      *)
Push ==
  /\ "push" \in Environment
  /\ upstream.tip < MaxCommit
  /\ \E tagged \in BOOLEAN :
       LET new == upstream.tip + 1
       IN upstream' = [tip |-> new, tags |-> upstream.tags \cup (IF tagged THEN {new} ELSE {})]
  /\ Disturb
  /\ UNCHANGED <<online, filesVars>>

Network ==
  /\ "network" \in Environment
  /\ online' = ~online
  /\ Disturb
  /\ UNCHANGED <<upstream, filesVars>>

(* Another project of the user pulls the cached copy both share.           *)
RefreshCache ==
  /\ "refresh_cache" \in Environment
  /\ online
  /\ \E k \in CacheKeys :
       /\ ValidCache(cache[k])
       /\ cache' = [cache EXCEPT ![k] = upstream.tip]
  /\ UNCHANGED <<remoteVars, constraint, vendor, disk, commandVars>>

(* The process is killed.  What the stage was writing may be half written. *)
HalfVendored ==
  IF pc \in InstallStages \ {"verify", "record"}
  THEN {vendor, NoRepository, BrokenRepository}
       \cup (IF ValidRepository(vendor) THEN {[vendor EXCEPT !.worktree = "edited"]} ELSE {})
  ELSE {vendor}

HalfCached ==
  LET key == CacheKey(IF pc \in InstallStages THEN meta ELSE constraint)
  IN IF pc \in {"verify", "record"} \cup SaveStages THEN {cache}
     ELSE {cache, [cache EXCEPT ![key] = Broken]}

HalfSaved == IF pc \in SaveStages THEN {disk, CorruptLock, Saved(lock)} ELSE {disk}

Crash ==
  /\ "crash" \in Environment
  /\ pc # "idle"
  /\ Exit
  /\ vendor' \in HalfVendored
  /\ cache' \in HalfCached
  /\ disk' \in HalfSaved
  /\ UNCHANGED <<remoteVars, constraint>>

(* What the user does between two commands.                                *)
EditReference ==
  /\ "edit_reference" \in Environment
  /\ constraint' \in References
  /\ UNCHANGED <<cache, vendor, disk>>

EditVendor ==
  /\ "edit_vendor" \in Environment
  /\ ValidRepository(vendor)
  /\ \E w \in {"edited", "untracked"} : vendor' = [vendor EXCEPT !.worktree = w]
  /\ UNCHANGED <<constraint, cache, disk>>

DeleteVendor ==
  /\ "delete_vendor" \in Environment
  /\ vendor' = NoRepository
  /\ UNCHANGED <<constraint, cache, disk>>

ClearCache ==
  /\ "clear_cache" \in Environment
  /\ cache' = [k \in CacheKeys |-> Missing]
  /\ UNCHANGED <<constraint, vendor, disk>>

DeleteLock ==
  /\ "delete_lock" \in Environment
  /\ disk' = NoLock
  /\ UNCHANGED <<constraint, cache, vendor>>

(* A pawn.lock written by a teammate's ensure, at another time.            *)
Resolutions(m) ==
  CASE m.kind = "latest"           -> upstream.tags
    [] m.kind \in {"tag", "commit"} -> {m.at} \cap (1 .. upstream.tip)
    [] OTHER                       -> 1 .. upstream.tip

ShareLock ==
  /\ "share_lock" \in Environment
  /\ \E c \in Resolutions(constraint) :
       disk' = Saved([constraint |-> constraint, commit |-> c])
  /\ UNCHANGED <<constraint, cache, vendor>>

User ==
  /\ pc = "idle"
  /\ EditReference \/ EditVendor \/ DeleteVendor \/ ClearCache \/ DeleteLock \/ ShareLock
  /\ UNCHANGED <<remoteVars, commandVars>>

Next ==
  \/ \E r \in Requests : Start(r)
  \/ Stage
  \/ Push \/ Network \/ RefreshCache \/ Crash \/ User

(* A running command keeps taking its steps; nothing else is promised.     *)
Spec == Init /\ [][Next]_vars /\ WF_vars(Stage)

--------------------------------------------------------------------------------
(* Properties.                                                             *)

Ensured == pc = "runtime" /\ outcome = "ensured"
Skipped == pc = "runtime" /\ outcome = "skipped"

(* Only ensure --update --force, without a target, starts from an empty    *)
(* lock (describeEnsureLockfile).                                          *)
LockCleared == request.force /\ ~request.target

(* After "successfully ensured dependency files" the lock names exactly    *)
(* the commit that dependencies/<repo> is on, whatever happened during the *)
(* update, its recovery and the retries (ensureManagedPackage).            *)
EnsuredIsLocked == Ensured => /\ ValidRepository(vendor)
                              /\ lock.commit = vendor.head
                              /\ lock.commit \in Commits

(* An entry of pawn.lock is binding: a command that did not clear the lock *)
(* reports success only with the locked commit checked out, and with no    *)
(* edited or untracked file left in the worktree.                          *)
Reproducible ==
  Ensured /\ ~LockCleared /\ disk.entry # NoEntry
    => vendor.head = disk.entry.commit /\ vendor.worktree = "clean"

(* A dependency pinned to a tag or a commit is on that tag or commit after *)
(* it was ensured, with or without a lock entry (ensure_package.go:24-25). *)
PinnedIsInstalled ==
  Ensured /\ constraint.kind \in {"tag", "commit"} => vendor.head = constraint.at

(* An undisturbed update that reports success has installed what upstream  *)
(* has now: the newest tag, or the tip if there are no tags.  (The update  *)
(* refreshes the cached copy the reference names.  A vendored repository   *)
(* cloned for a branch keeps pulling from that branch's copy instead.)     *)
UpdateInstallsNewest ==
  (/\ Ensured /\ steady /\ request.update /\ IsDynamic(constraint)
   /\ vendor.origin = CacheKey(constraint))
    => vendor.head = IF upstream.tags = {} THEN upstream.tip ELSE Newest(upstream.tags)

(* What was asked for is what is installed: the pin of pawn.json, or what  *)
(* is newest upstream when that was to be installed.                       *)
AskedIsInstalled == PinnedIsInstalled /\ UpdateInstallsNewest

(* Self-repair: whatever state the vendored and the cached copies were     *)
(* left in, an undisturbed command skips a dependency whose tag or commit  *)
(* exists only when the lock holds an entry that the request or the        *)
(* constraint is at odds with.  (A locked branch dependency is looked for  *)
(* in the cache of the default branch, which nothing repairs before.)      *)
Published(m) == /\ m.kind = "tag" => m.at \in upstream.tags
                /\ m.kind = "commit" => m.at \in 1 .. upstream.tip

SkippedOnlyForTheLock ==
  Skipped /\ steady /\ Published(constraint)
    => /\ disk.entry # NoEntry /\ ~LockCleared
       /\ \/ IsOutdated(disk.entry, constraint) \/ ShouldForce(constraint)
          \/ constraint.kind = "branch" /\ cache["default"] = Broken

(* A running command removes a valid dependencies/<repo> without putting a *)
(* new clone in its place only while the network is down, or if an earlier *)
(* crash broke a cached copy that the package graph does not look at.      *)
NoLossWhileOnline ==
  [][(ValidRepository(vendor) /\ ~ValidRepository(vendor') /\ pc' # "idle")
     => ~online \/ cache[CacheKey(meta)] = Broken]_vars

(* The commit of an entry of pawn.lock changes only by a command that      *)
(* clears the lock or only writes the lock, or by the user's own hand.     *)
LockedCommitIsStable ==
  [][(/\ pc # "idle" /\ ~LockCleared /\ ~request.lockOnly
      /\ disk.entry # NoEntry /\ disk'.status = "saved")
     => disk'.entry.commit = disk.entry.commit]_vars

(* The retries, the recovery of a failed update and the recovery of a      *)
(* failed integrity check do not chase each other: a command ends.         *)
CommandEnds == pc # "idle" ~> pc = "idle"

--------------------------------------------------------------------------------
(* What the documentation and the comments promise, and the code does not  *)
(* do: each is violated in a run of its own.                               *)

(* docs/packages.md:62: ensure --update updates direct dependencies that   *)
(* are unpinned or already use :latest.  The integrity check compares the  *)
(* update with the entry the update is about to replace, and skips it.     *)
UpdateTakesEffect ==
  steady /\ request.update /\ IsDynamic(constraint) => ~Skipped

(* resolver.go:53: "lockfile constraint changed, resolving fresh version". *)
(* The fresh version never passes the integrity check.                     *)
ChangedConstraintIsResolved ==
  steady /\ IsOutdated(disk.entry, constraint) /\ Published(constraint) => ~Skipped
================================================================================
