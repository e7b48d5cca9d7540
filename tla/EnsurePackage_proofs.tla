-------------------------- MODULE EnsurePackage_proofs -------------------------
(***************************************************************************)
(* For any number of commits, any set of ensure commands, any constraints  *)
(* and any environment: the state is well typed, what is ensured is        *)
(* locked, what is locked is reproduced, a lock entry's commit is stable,  *)
(* nothing is lost online, a dependency is skipped only because of the     *)
(* lock, what is installed is what was asked for, and a command runs out   *)
(* of stages.                                                              *)
(***************************************************************************)
EXTENDS EnsurePackage, WellFoundedInduction, TLAPS

(* A usable repository has a commit checked out and one on its branch.     *)
GoodRepositories ==
  {r \in Repositories : ValidRepository(r) => r.head \in Commits /\ r.ref \in Commits}
Caches == [CacheKeys -> CacheStates]
Worlds == [ok : BOOLEAN, vendor : GoodRepositories, cache : Caches]

(* Commits are numbers.                                                    *)
LEMMA CommitsAreNumbers ==
  /\ MaxCommit \in Nat /\ MaxCommit > 0
  /\ Commits \subseteq Nat /\ Commits \subseteq CacheStates
  /\ NoCommit \notin Commits /\ Missing \notin Commits /\ Broken \notin Commits
  /\ Missing \in CacheStates /\ Broken \in CacheStates
  /\ \A c \in CacheStates : c \in Commits \/ c = Missing \/ c = Broken
BY MaxCommitAssumption DEF MaxCommitAssumption, Commits, CacheStates, NoCommit, Missing, Broken

(* A non-empty set of commits has a newest one.                            *)
LEMMA NewestIsThere ==
  ASSUME NEW S \in SUBSET Commits, S # {}
  PROVE  Newest(S) \in S /\ \A u \in S : u <= Newest(S)
<1> DEFINE T == {MaxCommit - t : t \in S}
           R == {p \in Nat \X Nat : p[1] < p[2]}
<1>0. \A t, u \in Commits : /\ MaxCommit - t \in Nat
                            /\ MaxCommit - t <= MaxCommit - u => u <= t
  BY MaxCommitAssumption DEF MaxCommitAssumption, Commits
<1>1. T \subseteq Nat /\ T # {}
  BY <1>0
<1>2. IsWellFoundedOn(R, Nat)
  BY NatLessThanWellFounded, Zenon DEF OpToRel
<1>3. PICK x \in T : \A y \in T : ~(<<y, x>> \in R)
  <2> HIDE DEF T, R
  <2> QED BY <1>1, <1>2, WFMin
<1>4. \A y \in T : x <= y
  <2> SUFFICES ASSUME NEW y \in T PROVE x <= y
    OBVIOUS
  <2>1. x \in Nat /\ y \in Nat
    BY <1>1
  <2>2. ~(y < x)
    <3>1. y < x => <<y, x>> \in R
      BY <2>1
    <3> QED BY <1>3, <3>1
  <2> QED BY <2>1, <2>2
<1>5. PICK t \in S : x = MaxCommit - t
  OBVIOUS
<1>6. \A u \in S : u <= t
  BY <1>0, <1>4, <1>5
<1> QED BY <1>6 DEF Newest

LEMMA PullIsSound ==
  ASSUME NEW r \in GoodRepositories, NEW tip \in CacheStates
  PROVE  /\ Pull(r, tip).ok \in BOOLEAN
         /\ Pull(r, tip).repo \in GoodRepositories
         /\ ValidRepository(Pull(r, tip).repo) <=> ValidRepository(r)
         /\ Pull(r, tip).ok => tip \in Commits
BY CommitsAreNumbers DEF Pull, GoodRepositories, Repositories, ValidRepository

LEMMA CheckoutIsSound ==
  ASSUME NEW r \in GoodRepositories, NEW c \in Commits
  PROVE  /\ Checkout(r, c) \in GoodRepositories
         /\ ValidRepository(Checkout(r, c)) <=> ValidRepository(r)
BY DEF Checkout, GoodRepositories, Repositories, ValidRepository, Worktrees

LEMMA RepairIsSound ==
  ASSUME NEW r \in GoodRepositories
  PROVE  /\ RepairRepository(r) \in GoodRepositories
         /\ ValidRepository(RepairRepository(r)) <=> ValidRepository(r)
BY DEF RepairRepository, GoodRepositories, Repositories, ValidRepository, Worktrees

LEMMA ClonesAreSound ==
  /\ NoRepository \in GoodRepositories
  /\ BrokenRepository \in GoodRepositories
  /\ \A c \in Commits, k \in CacheKeys :
       Clone(c, k) \in GoodRepositories /\ ValidRepository(Clone(c, k))
BY DEF NoRepository, BrokenRepository, Clone, GoodRepositories, Repositories, ValidRepository,
       CacheKeys, Worktrees

--------------------------------------------------------------------------------
(* The operators on worlds.                                                *)

RemoteOK == upstream \in [tip : Commits, tags : SUBSET Commits] /\ online \in BOOLEAN

LEMMA CachedIsSound ==
  ASSUME RemoteOK, NEW c \in CacheStates, NEW force \in BOOLEAN
  PROVE  /\ EnsureCached(c, force).ok \in BOOLEAN
         /\ EnsureCached(c, force).cached \in CacheStates
         /\ EnsureCached(c, force).ok => EnsureCached(c, force).cached \in Commits
BY CommitsAreNumbers DEF RemoteOK, EnsureCached, ValidCache

LEMMA RefreshGraphIsSound ==
  ASSUME RemoteOK, cache \in [CacheKeys -> CacheStates], NEW m \in Metas, NEW force \in BOOLEAN
  PROVE  RefreshGraph(m, force).cached \in CacheStates
<1>1. CacheKey(m) \in CacheKeys
  BY DEF CacheKey, CacheKeys
<1>2. EnsureCached(cache[CacheKey(m)], force).cached \in CacheStates
  BY <1>1, CachedIsSound
<1>3. RefreshGraph(m, force).cached = EnsureCached(cache[CacheKey(m)], force).cached
  BY DEF RefreshGraph, EnsureCached
<1> QED BY <1>2, <1>3

LEMMA LatestTagIsSound ==
  ASSUME RemoteOK, NEW c \in CacheStates, NEW force \in BOOLEAN
  PROVE  LET found == ResolveLatestTag(c, force)
         IN /\ found.result \in {"tag", "untagged", "error"}
            /\ found.result = "tag" => found.tag \in Commits
            /\ found.cached \in CacheStates
<1>1. TagsIn(c) \subseteq Commits /\ upstream.tags \subseteq Commits
  BY DEF TagsIn, RemoteOK
<1>2. /\ TagsIn(c) # {} => Newest(TagsIn(c)) \in Commits
      /\ upstream.tags # {} => Newest(upstream.tags) \in Commits
  BY <1>1, NewestIsThere
<1>3. EnsureCached(c, force).cached \in CacheStates
  BY CachedIsSound
<1> QED BY <1>2, <1>3 DEF ResolveLatestTag, Found

LEMMA CloneFromCacheIsSound ==
  ASSUME NEW caches \in Caches, NEW key \in CacheKeys
  PROVE  /\ CloneFromCache(caches, key) \in Worlds
         /\ CloneFromCache(caches, key).ok => ValidRepository(CloneFromCache(caches, key).vendor)
BY ClonesAreSound DEF CloneFromCache, World, Worlds, Caches, ValidCache

LEMMA UpdateRepositoryIsSound ==
  ASSUME NEW v \in GoodRepositories, NEW caches \in Caches, NEW key \in CacheKeys,
         ValidRepository(v)
  PROVE  /\ UpdateRepository(v, caches, key) \in Worlds
         /\ UpdateRepository(v, caches, key).ok
              => ValidRepository(UpdateRepository(v, caches, key).vendor)
<1> DEFINE first  == Pull(v, caches[v.origin])
           second == Pull(RepairRepository(first.repo), caches[v.origin])
<1>1. caches[v.origin] \in CacheStates
  BY DEF Caches, GoodRepositories, Repositories
<1>2. /\ first.repo \in GoodRepositories /\ ValidRepository(first.repo)
      /\ first.ok \in BOOLEAN
  BY <1>1, PullIsSound
<1>3. /\ second.repo \in GoodRepositories /\ ValidRepository(second.repo)
      /\ second.ok \in BOOLEAN
  BY <1>1, <1>2, PullIsSound, RepairIsSound
<1> QED BY <1>2, <1>3, CloneFromCacheIsSound DEF UpdateRepository, World, Worlds

LEMMA EnsureFromCacheIsSound ==
  ASSUME RemoteOK, NEW v \in GoodRepositories, NEW caches \in Caches, NEW key \in CacheKeys,
         NEW force \in BOOLEAN
  PROVE  /\ EnsureFromCache(v, caches, key, force) \in Worlds
         /\ EnsureFromCache(v, caches, key, force).ok
              => ValidRepository(EnsureFromCache(v, caches, key, force).vendor)
<1> DEFINE e == IF caches[key] = Missing \/ force
                THEN EnsureCached(caches[key], force)
                ELSE [ok |-> TRUE, cached |-> caches[key]]
           after == [caches EXCEPT ![key] = e.cached]
<1>1. e.ok \in BOOLEAN /\ e.cached \in CacheStates
  BY CachedIsSound DEF Caches
<1>2. after \in Caches
  BY <1>1 DEF Caches
<1> HIDE DEF e, after
<1>3. /\ CloneFromCache(after, key) \in Worlds
      /\ CloneFromCache(after, key).ok => ValidRepository(CloneFromCache(after, key).vendor)
  BY <1>2, CloneFromCacheIsSound
<1>4. ValidRepository(v) =>
        /\ UpdateRepository(v, after, key) \in Worlds
        /\ UpdateRepository(v, after, key).ok
             => ValidRepository(UpdateRepository(v, after, key).vendor)
  BY <1>2, UpdateRepositoryIsSound
<1>5. \A b \in BOOLEAN : /\ World(b, v, after) \in Worlds
                         /\ World(b, v, after).ok = b
                         /\ World(b, v, after).vendor = v
  BY <1>2 DEF World, Worlds
<1>6. EnsureFromCache(v, caches, key, force) =
        IF ~e.ok THEN World(FALSE, v, after)
        ELSE IF ~ValidRepository(v) THEN CloneFromCache(after, key)
        ELSE IF force THEN UpdateRepository(v, after, key)
        ELSE World(TRUE, v, after)
  BY DEF EnsureFromCache, e, after
<1>7. CASE ~e.ok
  BY <1>5, <1>6, <1>7
<1>8. CASE e.ok /\ ~ValidRepository(v)
  BY <1>3, <1>6, <1>8
<1>9. CASE e.ok /\ ValidRepository(v) /\ force
  BY <1>4, <1>6, <1>9
<1>10. CASE e.ok /\ ValidRepository(v) /\ ~force
  BY <1>5, <1>6, <1>10
<1> QED BY <1>7, <1>8, <1>9, <1>10

LEMMA CheckoutReferenceIsSound ==
  ASSUME RemoteOK, NEW w \in Worlds, NEW m \in Metas, ValidRepository(w.vendor)
  PROVE  /\ CheckoutReference(w, m) \in Worlds
         /\ ValidRepository(CheckoutReference(w, m).vendor)
<1> DEFINE pulled == Pull(w.vendor, w.cache[w.vendor.origin])
<1>1. w.vendor \in GoodRepositories /\ w.cache \in Caches
  BY DEF Worlds
<1>2. w.cache[w.vendor.origin] \in CacheStates
  BY <1>1 DEF GoodRepositories, Repositories, Caches
<1>3. /\ pulled.ok \in BOOLEAN /\ pulled.repo \in GoodRepositories
      /\ ValidRepository(pulled.repo)
  BY <1>1, <1>2, PullIsSound
<1> HIDE DEF pulled
<1>4. m.at \in upstream.tags => m.at \in Commits
  BY DEF RemoteOK
<1>5. m.at \in 1 .. pulled.repo.known => m.at \in Commits
  BY <1>3, MaxCommitAssumption
     DEF MaxCommitAssumption, GoodRepositories, Repositories, Commits, NoCommit
<1>6. pulled.repo.ref \in Commits
  BY <1>3 DEF GoodRepositories
<1>7. \A c \in Commits :
        /\ Checkout(w.vendor, c) \in GoodRepositories /\ ValidRepository(Checkout(w.vendor, c))
        /\ Checkout(pulled.repo, c) \in GoodRepositories
        /\ ValidRepository(Checkout(pulled.repo, c))
  BY <1>1, <1>3, CheckoutIsSound
<1>8. \A r \in GoodRepositories, b \in BOOLEAN :
        World(b, r, w.cache) \in Worlds /\ World(b, r, w.cache).vendor = r
  BY <1>1 DEF World, Worlds
<1>9. CASE m.kind = "tag"
  BY <1>1, <1>4, <1>7, <1>8, <1>9 DEF CheckoutReference
<1>10. CASE m.kind = "commit"
  BY <1>3, <1>5, <1>7, <1>8, <1>10 DEF CheckoutReference, pulled
<1>11. CASE m.kind = "branch"
  BY <1>3, <1>6, <1>7, <1>8, <1>11 DEF CheckoutReference, pulled
<1>12. CASE m.kind \in {"none", "latest"}
  BY <1>3, <1>8, <1>12 DEF CheckoutReference, pulled
<1> QED BY <1>9, <1>10, <1>11, <1>12 DEF Metas

LEMMA UpdateRepoStateIsSound ==
  ASSUME RemoteOK, cache \in Caches,
         NEW v \in GoodRepositories, NEW m \in Metas, NEW force \in BOOLEAN,
         force \/ ValidRepository(v)
  PROVE  /\ UpdateRepoState(v, m, force) \in Worlds
         /\ UpdateRepoState(v, m, force).ok => ValidRepository(UpdateRepoState(v, m, force).vendor)
<1> DEFINE forced == EnsureFromCache(v, cache, CacheKey(m), TRUE)
           pulled == Pull(forced.vendor, forced.cache[forced.vendor.origin])
<1>1. CacheKey(m) \in CacheKeys
  BY DEF CacheKey, CacheKeys
<1>2. forced \in Worlds /\ (forced.ok => ValidRepository(forced.vendor))
  BY <1>1, EnsureFromCacheIsSound
<1>3. forced.vendor \in GoodRepositories /\ forced.cache \in Caches /\ forced.ok \in BOOLEAN
  BY <1>2 DEF Worlds
<1>4. forced.cache[forced.vendor.origin] \in CacheStates
  BY <1>3 DEF GoodRepositories, Repositories, Caches
<1>5. /\ pulled.ok \in BOOLEAN /\ pulled.repo \in GoodRepositories
      /\ ValidRepository(pulled.repo) <=> ValidRepository(forced.vendor)
  BY <1>3, <1>4, PullIsSound
<1> HIDE DEF forced, pulled
<1>6. World(TRUE, v, cache) \in Worlds /\ World(TRUE, v, cache).vendor = v
  BY DEF World, Worlds
<1>7. \A b \in BOOLEAN : /\ World(b, pulled.repo, forced.cache) \in Worlds
                         /\ World(b, pulled.repo, forced.cache).vendor = pulled.repo
                         /\ World(b, pulled.repo, forced.cache).ok = b
  BY <1>3, <1>5 DEF World, Worlds
<1>8. UpdateRepoState(v, m, force) =
        IF ~force THEN CheckoutReference(World(TRUE, v, cache), m)
        ELSE IF ~forced.ok THEN forced
        ELSE IF ~pulled.ok THEN World(FALSE, pulled.repo, forced.cache)
        ELSE CheckoutReference(World(TRUE, pulled.repo, forced.cache), m)
  BY DEF UpdateRepoState, forced, pulled
<1>9. CASE ~force
  BY <1>6, <1>8, <1>9, CheckoutReferenceIsSound
<1>10. CASE force /\ ~forced.ok
  BY <1>2, <1>8, <1>10
<1>11. CASE force /\ forced.ok /\ ~pulled.ok
  BY <1>7, <1>8, <1>11
<1>12. CASE force /\ forced.ok /\ pulled.ok
  <2>1. ValidRepository(World(TRUE, pulled.repo, forced.cache).vendor)
    BY <1>2, <1>5, <1>7, <1>12
  <2> QED BY <1>7, <1>8, <1>12, <2>1, CheckoutReferenceIsSound
<1> QED BY <1>9, <1>10, <1>11, <1>12

--------------------------------------------------------------------------------
(* The inductive invariant.                                                *)

(* The vendored copy is such a repository, if it is one at all.            *)
HeadIsKnown == vendor \in GoodRepositories

(* The stages that look into dependencies/<repo> find a repository there.  *)
WorkingCopyIsValid ==
  pc \in {"update", "reupdate", "verify", "record"} => ValidRepository(vendor)

(* What is recorded is what was verified: nothing moves HEAD in between.   *)
RecordedIsVerified == pc = "record" => VerifyIntegrity(lock, vendor)

(* An entry of pawn.lock is in memory, unchanged, until it is saved again. *)
LockIsLoaded ==
  (/\ pc \in {"rewrite", "refresh", "resolve", "runtime", "finish"} \cup InstallStages
   /\ ~LockCleared /\ disk.entry # NoEntry) => lock = disk.entry

(* Only --lock-only takes the way around the installation.                 *)
RelockIsAskedFor == pc \in {"relock", "relocked"} => request.lockOnly

IInv ==
  /\ TypeOK /\ HeadIsKnown /\ WorkingCopyIsValid /\ RecordedIsVerified
  /\ LockIsLoaded /\ RelockIsAskedFor /\ EnsuredIsLocked /\ Reproducible

CommandOK ==
  /\ request \in AllRequests /\ original \in Metas /\ lock \in Entries /\ meta \in Metas
  /\ attempt \in {1, 2} /\ round \in {1, 2} /\ outcome \in {"none", "ensured", "skipped"}
  /\ steady \in BOOLEAN

FilesOK ==
  constraint \in Metas /\ cache \in Caches /\ vendor \in GoodRepositories
  /\ disk \in [status : {"missing", "corrupt", "saved"}, entry : Entries]

LEMMA InvariantIsTyped ==
  ASSUME IInv PROVE RemoteOK /\ FilesOK /\ CommandOK /\ pc \in Stages
BY DEF IInv, TypeOK, HeadIsKnown, RemoteOK, FilesOK, CommandOK, Caches

LEMMA TypedIsTypeOK ==
  ASSUME RemoteOK', FilesOK', CommandOK', pc' \in Stages PROVE TypeOK' /\ HeadIsKnown'
BY DEF TypeOK, HeadIsKnown, RemoteOK, FilesOK, CommandOK, Caches, GoodRepositories

LEMMA ReferencesAreTyped ==
  /\ Unpinned \in Metas /\ Latest \in Metas /\ NoEntry \in Entries
  /\ \A c \in Commits : AtTag(c) \in Metas /\ AtCommit(c) \in Metas
  /\ \A e \in Entries, m \in Metas : GetLockedVersion(e, m) \in Metas
  /\ \A e \in Entries, m \in Metas, c \in {NoCommit} \cup Commits :
       RecordResolution(e, m, c) \in Entries /\ RecordResolution(e, m, c).commit = c
  /\ \A m \in Metas : CacheKey(m) \in CacheKeys /\ ShouldForce(m) \in BOOLEAN
  /\ "default" \in CacheKeys
BY DEF Unpinned, Latest, NoEntry, AtTag, AtCommit, Metas, Entries, GetLockedVersion,
       RecordResolution, CacheKey, CacheKeys, ShouldForce

(* The end of a command: whatever it left in the files.                    *)
LEMMA ExitKeeps ==
  ASSUME RemoteOK', FilesOK', Exit PROVE IInv'
<1>1. /\ pc' = "idle" /\ outcome' = "none"
      /\ CommandOK'
  BY ReferencesAreTyped DEF Exit, CommandOK, AllRequests, NoRequest
<1>2. TypeOK' /\ HeadIsKnown'
  BY <1>1, TypedIsTypeOK DEF Stages
<1>3. /\ WorkingCopyIsValid' /\ RecordedIsVerified' /\ LockIsLoaded' /\ RelockIsAskedFor'
      /\ EnsuredIsLocked' /\ Reproducible'
  BY <1>1 DEF WorkingCopyIsValid, RecordedIsVerified, LockIsLoaded, RelockIsAskedFor,
              EnsuredIsLocked, Reproducible, Ensured, InstallStages
<1> QED BY <1>2, <1>3 DEF IInv

LEMMA AttemptFailsTo ==
  ASSUME AttemptFails
  PROVE  /\ pc' \in {"resolve", "runtime"} /\ (pc' = "runtime" => outcome' = "skipped")
         /\ outcome' \in {"none", "skipped"} /\ meta' \in Metas
         /\ attempt' \in {1, 2} /\ round' = 1
         /\ UNCHANGED <<request, original, steady>>
BY ReferencesAreTyped DEF AttemptFails, AttemptEnds, Goto

(* A step between the load of the lock and the record.                     *)
LEMMA InstallKeeps ==
  ASSUME IInv, UNCHANGED <<remoteVars, disk, lock, request, original, steady>>,
         pc \in {"rewrite", "refresh", "resolve"} \cup InstallStages,
         FilesOK', meta' \in Metas, attempt' \in {1, 2}, round' \in {1, 2},
         outcome' \in {"none", "ensured", "skipped"},
         pc' \in {"refresh", "resolve", "runtime"} \cup InstallStages,
         pc' = "runtime" => outcome' = "skipped",
         pc' \in {"update", "reupdate", "verify", "record"} => ValidRepository(vendor'),
         pc' = "record" => VerifyIntegrity(lock, vendor')
  PROVE  IInv'
<1>1. RemoteOK' /\ CommandOK' /\ pc' \in Stages
  BY InvariantIsTyped DEF RemoteOK, CommandOK, remoteVars, Stages, SaveStages
<1>2. TypeOK' /\ HeadIsKnown'
  BY <1>1, TypedIsTypeOK
<1>3. WorkingCopyIsValid' /\ RecordedIsVerified'
  BY DEF WorkingCopyIsValid, RecordedIsVerified
<1>4. LockIsLoaded' /\ RelockIsAskedFor'
  BY DEF IInv, LockIsLoaded, RelockIsAskedFor, LockCleared, InstallStages
<1>5. EnsuredIsLocked' /\ Reproducible'
  BY DEF EnsuredIsLocked, Reproducible, Ensured
<1> QED BY <1>2, <1>3, <1>4, <1>5 DEF IInv

--------------------------------------------------------------------------------
(* One lemma per stage.                                                    *)

LEMMA StartKeeps ==
  ASSUME IInv, NEW r \in Requests, Start(r) PROVE IInv'
<1>1. /\ RemoteOK' /\ FilesOK' /\ CommandOK' /\ pc' = "load"
      /\ r \in AllRequests
  BY InvariantIsTyped, RequestsAssumption
     DEF RequestsAssumption, Start, Keeping, RemoteOK, FilesOK, CommandOK, remoteVars, filesVars
<1>2. TypeOK' /\ HeadIsKnown'
  BY <1>1, TypedIsTypeOK DEF Stages
<1>3. /\ WorkingCopyIsValid' /\ RecordedIsVerified' /\ LockIsLoaded' /\ RelockIsAskedFor'
      /\ EnsuredIsLocked' /\ Reproducible'
  BY <1>1 DEF WorkingCopyIsValid, RecordedIsVerified, LockIsLoaded, RelockIsAskedFor,
              EnsuredIsLocked, Reproducible, Ensured, InstallStages
<1> QED BY <1>2, <1>3 DEF IInv

LEMMA LoadKeeps ==
  ASSUME IInv, Load PROVE IInv'
<1> DEFINE e == RefreshGraph(constraint, FALSE)
<1> USE InvariantIsTyped
<1>1. e.cached \in CacheStates
  BY RefreshGraphIsSound, ReferencesAreTyped DEF FilesOK, Caches
<1>2. RemoteOK' /\ FilesOK'
  BY <1>1 DEF Load, RemoteOK, remoteVars, FilesOK, Caches
<1>3. CASE ~e.ok \/ disk.status = "corrupt"
  BY <1>2, <1>3, ExitKeeps DEF Load
<1>4. CASE ~(~e.ok \/ disk.status = "corrupt")
  <2>1. /\ lock' = IF LockCleared THEN NoEntry ELSE disk.entry
        /\ pc' \in {"relock", "rewrite"}
        /\ UNCHANGED <<request, original, steady, disk, meta, attempt, round, outcome>>
    BY <1>4 DEF Load, Goto, LockCleared
  <2>2. CommandOK' /\ pc' \in Stages
    BY <2>1, ReferencesAreTyped DEF CommandOK, FilesOK, Stages
  <2>3. TypeOK' /\ HeadIsKnown'
    BY <1>2, <2>2, TypedIsTypeOK
  <2>4. LockIsLoaded' /\ RelockIsAskedFor'
    BY <1>4, <2>1 DEF LockIsLoaded, RelockIsAskedFor, LockCleared, Load, Goto
  <2>5. WorkingCopyIsValid' /\ RecordedIsVerified' /\ EnsuredIsLocked' /\ Reproducible'
    BY <2>1 DEF WorkingCopyIsValid, RecordedIsVerified, EnsuredIsLocked, Reproducible, Ensured
  <2> QED BY <2>3, <2>4, <2>5 DEF IInv
<1> QED BY <1>3, <1>4

LEMMA RewriteKeeps ==
  ASSUME IInv, Rewrite PROVE IInv'
<1> DEFINE found == ResolveLatestTag(cache["default"], TRUE)
<1> USE InvariantIsTyped
<1>1. found.cached \in CacheStates /\ (found.result = "tag" => found.tag \in Commits)
      /\ found.result \in {"tag", "untagged", "error"}
  BY LatestTagIsSound, ReferencesAreTyped DEF FilesOK, Caches
<1>2. Rewritten(found) \in Metas
  BY <1>1, ReferencesAreTyped DEF Rewritten, FilesOK
<1> HIDE DEF found
<1>3. CASE Rewritable
  <2>1. /\ constraint' = Rewritten(found) /\ cache' = [cache EXCEPT !["default"] = found.cached]
        /\ UNCHANGED <<remoteVars, vendor, disk>>
        /\ Exit \/ Move("refresh")
    BY <1>3 DEF Rewrite, found
  <2>2. RemoteOK' /\ FilesOK'
    BY <1>1, <1>2, <2>1 DEF RemoteOK, remoteVars, FilesOK, Caches
  <2>3. CASE Exit
    BY <2>2, <2>3, ExitKeeps
  <2>4. CASE Move("refresh")
    BY <2>1, <2>2, <2>4, InstallKeeps DEF Rewrite, Move, Goto, Keeping, CommandOK, InstallStages
  <2> QED BY <2>1, <2>3, <2>4
<1>4. CASE ~Rewritable
  <2>1. /\ UNCHANGED <<remoteVars, constraint, cache, vendor, disk>>
        /\ Move("refresh") \/ Move("resolve")
    BY <1>4 DEF Rewrite
  <2>2. RemoteOK' /\ FilesOK'
    BY <2>1 DEF RemoteOK, remoteVars, FilesOK
  <2> QED BY <2>1, <2>2, InstallKeeps DEF Rewrite, Move, Goto, Keeping, CommandOK, InstallStages
<1> QED BY <1>3, <1>4

LEMMA RefreshKeeps ==
  ASSUME IInv, Refresh PROVE IInv'
<1> DEFINE e == RefreshGraph(constraint, ShouldForce(constraint))
<1> USE InvariantIsTyped
<1>1. e.cached \in CacheStates
  BY RefreshGraphIsSound, ReferencesAreTyped DEF FilesOK, Caches
<1>2. RemoteOK' /\ FilesOK'
  BY <1>1, ReferencesAreTyped DEF Refresh, RemoteOK, remoteVars, FilesOK, CommandOK, Caches
<1>3. CASE e.ok
  BY <1>2, <1>3, InstallKeeps
     DEF Refresh, Move, Goto, Keeping, CommandOK, InstallStages, remoteVars
<1>4. CASE ~e.ok
  BY <1>2, <1>4, ExitKeeps DEF Refresh
<1> QED BY <1>3, <1>4

LEMMA ResolveKeeps ==
  ASSUME IInv, Resolve PROVE IInv'
<1> DEFINE force  == ShouldForce(constraint)
           chosen == IF force THEN constraint ELSE GetLockedVersion(lock, constraint)
           found  == ResolveLatestTag(cache["default"], force)
<1> USE InvariantIsTyped
<1>1. chosen \in Metas /\ force \in BOOLEAN
  BY ReferencesAreTyped DEF FilesOK, CommandOK
<1>2. found.cached \in CacheStates /\ (found.result = "tag" => found.tag \in Commits)
      /\ found.result \in {"tag", "untagged", "error"}
  BY <1>1, LatestTagIsSound, ReferencesAreTyped DEF FilesOK, Caches
<1> HIDE DEF force, chosen, found
<1>3. /\ UNCHANGED <<remoteVars, constraint, vendor, disk, lock>> /\ pc = "resolve"
      /\ cache' = cache \/ cache' = [cache EXCEPT !["default"] = found.cached]
      /\ AttemptFails \/ /\ pc' = "repository" /\ meta' \in Metas
                         /\ UNCHANGED <<request, original, steady, attempt, round, outcome>>
  <2>1. CASE chosen.kind # "latest"
    BY <1>1, <2>1 DEF Resolve, Goto, chosen, force
  <2>2. CASE chosen.kind = "latest"
    BY <1>2, <2>2, ReferencesAreTyped DEF Resolve, Goto, chosen, found, force
  <2> QED BY <2>1, <2>2
<1>4. RemoteOK' /\ FilesOK'
  BY <1>2, <1>3 DEF RemoteOK, remoteVars, FilesOK, Caches
<1>5. CASE AttemptFails
  BY <1>3, <1>4, <1>5, AttemptFailsTo, InstallKeeps
<1>6. CASE ~AttemptFails
  BY <1>3, <1>4, <1>6, InstallKeeps DEF CommandOK, InstallStages
<1> QED BY <1>5, <1>6

(* A stage that works on dependencies/<repo> and goes on to another stage  *)
(* of the same attempt, or fails the attempt.                              *)
LEMMA WorldKeeps ==
  ASSUME IInv, NEW w \in Worlds, pc \in InstallStages,
         vendor' = w.vendor, cache' = w.cache,
         UNCHANGED <<remoteVars, constraint, disk, lock>>,
         \/ AttemptFails
         \/ /\ pc' \in InstallStages /\ round' \in {1, 2}
            /\ UNCHANGED <<request, original, steady, meta, attempt, outcome>>
            /\ pc' \in {"update", "reupdate", "verify", "record"} => ValidRepository(w.vendor)
            /\ pc' = "record" => VerifyIntegrity(lock, w.vendor)
  PROVE  IInv'
<1> USE InvariantIsTyped
<1>1. FilesOK'
  BY DEF FilesOK, Worlds
<1>2. CASE AttemptFails
  BY <1>1, <1>2, AttemptFailsTo, InstallKeeps
<1>3. CASE ~AttemptFails
  BY <1>1, <1>3, InstallKeeps DEF CommandOK, InstallStages
<1> QED BY <1>2, <1>3

LEMMA RecloneIsSound ==
  ASSUME IInv
  PROVE  LET w == RecloneDependency(cache, CacheKey(meta))
         IN w \in Worlds /\ (w.ok => ValidRepository(w.vendor))
BY InvariantIsTyped, EnsureFromCacheIsSound, ReferencesAreTyped, ClonesAreSound
   DEF RecloneDependency, FilesOK, CommandOK

LEMMA RepositoryKeeps ==
  ASSUME IInv, Repository PROVE IInv'
<1> DEFINE w == IF ValidRepository(vendor) THEN World(TRUE, vendor, cache)
                ELSE RecloneDependency(cache, CacheKey(meta))
<1>1. w \in Worlds /\ (w.ok => ValidRepository(w.vendor))
  BY InvariantIsTyped, RecloneIsSound DEF FilesOK, World, Worlds
<1>2. /\ pc = "repository" /\ vendor' = w.vendor /\ cache' = w.cache
      /\ UNCHANGED <<remoteVars, constraint, disk, lock>>
      /\ IF w.ok THEN Move("update") ELSE AttemptFails
  BY DEF Repository, Perform
<1> HIDE DEF w
<1> QED BY <1>1, <1>2, InvariantIsTyped, WorldKeeps
        DEF InstallStages, Move, Goto, Keeping, CommandOK

LEMMA UpdateIsSound ==
  ASSUME IInv, NEW force \in BOOLEAN, NEW v \in GoodRepositories, force \/ ValidRepository(v)
  PROVE  LET w == UpdateRepoState(v, meta, force)
         IN w \in Worlds /\ (w.ok => ValidRepository(w.vendor))
BY InvariantIsTyped, UpdateRepoStateIsSound DEF FilesOK, CommandOK

LEMMA UpdateKeeps ==
  ASSUME IInv, Update PROVE IInv'
<1> DEFINE w == UpdateRepoState(vendor, meta, ShouldForce(constraint))
<1>1. w \in Worlds /\ (w.ok => ValidRepository(w.vendor))
  <2>1. ValidRepository(vendor) /\ vendor \in GoodRepositories
    BY DEF IInv, WorkingCopyIsValid, HeadIsKnown, Update
  <2>2. ShouldForce(constraint) \in BOOLEAN
    BY InvariantIsTyped, ReferencesAreTyped DEF FilesOK
  <2> QED BY <2>1, <2>2, UpdateIsSound
<1>2. /\ pc = "update" /\ vendor' = w.vendor /\ cache' = w.cache
      /\ UNCHANGED <<remoteVars, constraint, disk, lock>>
      /\ IF w.ok THEN Move("verify") ELSE Move("repair")
  BY DEF Update, Perform
<1> HIDE DEF w
<1> QED BY <1>1, <1>2, InvariantIsTyped, WorldKeeps
        DEF InstallStages, Move, Goto, Keeping, CommandOK

LEMMA RepairKeeps ==
  ASSUME IInv, Repair PROVE IInv'
<1> DEFINE w == IF ValidRepository(vendor)
                THEN UpdateRepoState(RepairRepository(vendor), meta, TRUE)
                ELSE World(FALSE, vendor, cache)
<1>1. w \in Worlds /\ (w.ok => ValidRepository(w.vendor))
  <2>1. vendor \in GoodRepositories /\ RepairRepository(vendor) \in GoodRepositories
    BY RepairIsSound DEF IInv, HeadIsKnown
  <2>2. CASE ValidRepository(vendor)
    BY <2>1, <2>2, UpdateIsSound
  <2>3. CASE ~ValidRepository(vendor)
    BY <2>1, <2>3, InvariantIsTyped DEF World, Worlds, FilesOK
  <2> QED BY <2>2, <2>3
<1>2. /\ pc = "repair" /\ vendor' = w.vendor /\ cache' = w.cache
      /\ UNCHANGED <<remoteVars, constraint, disk, lock>>
      /\ IF w.ok THEN Move("verify") ELSE Move("force")
  BY DEF Repair, Perform
<1> HIDE DEF w
<1> QED BY <1>1, <1>2, InvariantIsTyped, WorldKeeps
        DEF InstallStages, Move, Goto, Keeping, CommandOK

LEMMA ForceKeeps ==
  ASSUME IInv, ForceUpdate PROVE IInv'
<1> DEFINE w == UpdateRepoState(vendor, meta, TRUE)
<1>1. w \in Worlds /\ (w.ok => ValidRepository(w.vendor))
  BY UpdateIsSound DEF IInv, HeadIsKnown
<1>2. /\ pc = "force" /\ vendor' = w.vendor /\ cache' = w.cache
      /\ UNCHANGED <<remoteVars, constraint, disk, lock>>
      /\ IF w.ok THEN Move("verify") ELSE Move("reclone")
  BY DEF ForceUpdate, Perform
<1> HIDE DEF w
<1> QED BY <1>1, <1>2, InvariantIsTyped, WorldKeeps
        DEF InstallStages, Move, Goto, Keeping, CommandOK

LEMMA RecloneKeeps ==
  ASSUME IInv, Reclone PROVE IInv'
<1> DEFINE w == RecloneDependency(cache, CacheKey(meta))
<1>1. w \in Worlds /\ (w.ok => ValidRepository(w.vendor))
  BY RecloneIsSound
<1>2. /\ pc = "reclone" /\ vendor' = w.vendor /\ cache' = w.cache
      /\ UNCHANGED <<remoteVars, constraint, disk, lock>>
      /\ IF w.ok THEN Move("reupdate") ELSE AttemptFails
  BY DEF Reclone, Perform
<1> HIDE DEF w
<1> QED BY <1>1, <1>2, InvariantIsTyped, WorldKeeps
        DEF InstallStages, Move, Goto, Keeping, CommandOK

LEMMA ReupdateKeeps ==
  ASSUME IInv, Reupdate PROVE IInv'
<1> DEFINE w == UpdateRepoState(vendor, meta, ShouldForce(constraint))
<1>1. w \in Worlds /\ (w.ok => ValidRepository(w.vendor))
  <2>1. ValidRepository(vendor) /\ vendor \in GoodRepositories
    BY DEF IInv, WorkingCopyIsValid, HeadIsKnown, Reupdate
  <2>2. ShouldForce(constraint) \in BOOLEAN
    BY InvariantIsTyped, ReferencesAreTyped DEF FilesOK
  <2> QED BY <2>1, <2>2, UpdateIsSound
<1>2. /\ pc = "reupdate" /\ vendor' = w.vendor /\ cache' = w.cache
      /\ UNCHANGED <<remoteVars, constraint, disk, lock>>
      /\ IF w.ok THEN Move("verify") ELSE AttemptFails
  BY DEF Reupdate, Perform
<1> HIDE DEF w
<1> QED BY <1>1, <1>2, InvariantIsTyped, WorldKeeps
        DEF InstallStages, Move, Goto, Keeping, CommandOK

LEMMA VerifyKeeps ==
  ASSUME IInv, Verify PROVE IInv'
<1>1. /\ World(VerifyIntegrity(lock, vendor), vendor, cache) \in Worlds
      /\ World(VerifyIntegrity(lock, vendor), vendor, cache).vendor = vendor
      /\ World(VerifyIntegrity(lock, vendor), vendor, cache).cache = cache
      /\ World(VerifyIntegrity(lock, vendor), vendor, cache).ok = VerifyIntegrity(lock, vendor)
      /\ ValidRepository(vendor)
  BY InvariantIsTyped
     DEF World, Worlds, FilesOK, VerifyIntegrity, IInv, WorkingCopyIsValid, Verify
<1>2. /\ pc = "verify" /\ UNCHANGED <<vendor, cache, remoteVars, constraint, disk, lock>>
      /\ IF VerifyIntegrity(lock, vendor) THEN Move("record")
         ELSE IF round = 1 THEN Move("restore") ELSE AttemptFails
  BY <1>1 DEF Verify, Perform
<1> QED BY <1>1, <1>2, InvariantIsTyped, WorldKeeps
        DEF InstallStages, Move, Goto, Keeping, CommandOK

LEMMA RestoreKeeps ==
  ASSUME IInv, Restore PROVE IInv'
<1> DEFINE w == RecloneDependency(cache, CacheKey(meta))
<1>1. w \in Worlds /\ (w.ok => ValidRepository(w.vendor))
  BY RecloneIsSound
<1>2. /\ pc = "restore" /\ vendor' = w.vendor /\ cache' = w.cache
      /\ UNCHANGED <<remoteVars, constraint, disk, lock>>
      /\ IF w.ok THEN Goto("update") /\ round' = 2 /\ UNCHANGED <<meta, attempt, outcome>>
                 ELSE AttemptFails
  BY DEF Restore, Perform
<1> HIDE DEF w
<1> QED BY <1>1, <1>2, WorldKeeps DEF InstallStages, Goto

(* The commit recorded is the one HEAD was verified to be on.  An entry    *)
(* that was already there is left as it is.                                *)
LEMMA RecordKeeps ==
  ASSUME IInv, Record PROVE IInv'
<1> USE InvariantIsTyped
<1>1. /\ pc = "record" /\ UNCHANGED <<remoteVars, filesVars>>
      /\ ValidRepository(vendor) /\ vendor.head \in Commits
      /\ lock' = RecordResolution(lock, constraint, vendor.head)
  BY DEF Record, IInv, WorkingCopyIsValid, HeadIsKnown, GoodRepositories
<1>2. RemoteOK' /\ FilesOK'
  BY <1>1 DEF RemoteOK, FilesOK, remoteVars, filesVars
<1>3. lock' \in Entries /\ lock'.commit = vendor.head
  <2>1. lock \in Entries /\ constraint \in Metas /\ vendor.head \in {NoCommit} \cup Commits
    BY <1>1 DEF FilesOK, CommandOK
  <2> QED BY <1>1, <2>1, ReferencesAreTyped
<1>4. lock # NoEntry => lock' = lock /\ vendor.head = lock.commit /\ vendor.worktree = "clean"
  BY <1>1 DEF IInv, RecordedIsVerified, VerifyIntegrity, RecordResolution
<1>5. (~LockCleared /\ disk.entry # NoEntry) => lock' = disk.entry /\ lock # NoEntry
  BY <1>1, <1>4 DEF IInv, LockIsLoaded, InstallStages
<1>6. /\ pc' \in {"resolve", "runtime"} /\ meta' \in Metas /\ attempt' \in {1, 2} /\ round' = 1
      /\ outcome' \in {"none", "ensured", "skipped"} /\ UNCHANGED <<request, original, steady>>
  BY AttemptFailsTo, ReferencesAreTyped DEF Record, AttemptEnds, Goto
<1>7. TypeOK' /\ HeadIsKnown'
  BY <1>2, <1>3, <1>6, TypedIsTypeOK DEF CommandOK, Stages, SaveStages
<1>8. WorkingCopyIsValid' /\ RecordedIsVerified'
  BY <1>6 DEF WorkingCopyIsValid, RecordedIsVerified
<1>9. LockIsLoaded' /\ RelockIsAskedFor'
  BY <1>1, <1>5, <1>6 DEF LockIsLoaded, RelockIsAskedFor, LockCleared, filesVars
<1>10. EnsuredIsLocked'
  BY <1>1, <1>3 DEF EnsuredIsLocked, filesVars
<1>11. Reproducible'
  BY <1>1, <1>4, <1>5, <1>6 DEF Reproducible, LockCleared, filesVars
<1> QED BY <1>7, <1>8, <1>9, <1>10, <1>11 DEF IInv

LEMMA RuntimeKeeps ==
  ASSUME IInv, Runtime PROVE IInv'
<1> USE InvariantIsTyped
<1>1. RemoteOK' /\ FilesOK'
  BY DEF Runtime, RemoteOK, remoteVars, FilesOK, CommandOK, Saved
<1>2. CASE Exit
  BY <1>1, <1>2, ExitKeeps
<1>3. CASE Move("finish")
  <2>1. CommandOK' /\ pc' = "finish" /\ lock' = lock /\ disk'.entry = lock
    BY <1>3 DEF Runtime, Exit, CommandOK, Move, Goto, Keeping, Saved
  <2>2. TypeOK' /\ HeadIsKnown'
    BY <1>1, <2>1, TypedIsTypeOK DEF Stages, SaveStages
  <2>3. /\ WorkingCopyIsValid' /\ RecordedIsVerified' /\ LockIsLoaded' /\ RelockIsAskedFor'
        /\ EnsuredIsLocked' /\ Reproducible'
    BY <2>1 DEF WorkingCopyIsValid, RecordedIsVerified, LockIsLoaded, RelockIsAskedFor,
                EnsuredIsLocked, Reproducible, Ensured, InstallStages
  <2> QED BY <2>2, <2>3 DEF IInv
<1> QED BY <1>2, <1>3 DEF Runtime

LEMMA FinishKeeps ==
  ASSUME IInv, Finish PROVE IInv'
BY InvariantIsTyped, ExitKeeps DEF Finish, RemoteOK, remoteVars, FilesOK, CommandOK, Saved

LEMMA RelockKeeps ==
  ASSUME IInv, Relock PROVE IInv'
<1> DEFINE force   == ShouldForce(constraint)
           graph   == RefreshGraph(constraint, force)
           chosen  == IF force THEN constraint ELSE GetLockedVersion(lock, constraint)
           key     == CacheKey(chosen)
           c       == IF key = CacheKey(constraint) THEN graph.cached ELSE cache[key]
           asksTag == chosen.kind = "latest" \/ (force /\ IsPinnedTag(constraint))
           found   == ResolveLatestTag(c, force)
           d       == IF asksTag \/ chosen.kind = "none" THEN found.cached ELSE c
           cached  == EnsureCached(d, force)
           ok      == graph.ok /\ (asksTag => found.result # "error") /\ cached.ok
<1> USE InvariantIsTyped
<1>1. force \in BOOLEAN /\ key \in CacheKeys
  BY ReferencesAreTyped DEF FilesOK, CommandOK
<1>2. graph.cached \in CacheStates
  BY <1>1, RefreshGraphIsSound, ReferencesAreTyped DEF FilesOK, Caches
<1>3. c \in CacheStates
  BY <1>1, <1>2 DEF FilesOK, Caches
<1>4. d \in CacheStates
  <2> HIDE DEF c, force
  <2> QED BY <1>1, <1>3, LatestTagIsSound
<1>5. cached.cached \in CacheStates /\ (cached.ok => cached.cached \in Commits)
  <2> HIDE DEF d, force
  <2> QED BY <1>1, <1>4, CachedIsSound
<1> HIDE DEF force, graph, key, c, asksTag, found, d, cached
<1>6. /\ pc = "relock" /\ UNCHANGED <<remoteVars, constraint, vendor, disk>>
      /\ cache' = [k \in CacheKeys |->
                    IF graph.ok /\ k = key THEN cached.cached
                    ELSE IF k = CacheKey(constraint) THEN graph.cached ELSE cache[k]]
      /\ IF ok THEN /\ lock' = RecordResolution(lock, constraint, cached.cached)
                    /\ Goto("relocked")
                    /\ UNCHANGED <<meta, attempt, round, outcome>>
               ELSE Exit
  BY DEF Relock, force, graph, chosen, key, c, asksTag, found, d, cached
<1>7. RemoteOK' /\ FilesOK'
  BY <1>2, <1>5, <1>6 DEF RemoteOK, remoteVars, FilesOK, Caches
<1>8. CASE ~ok
  BY <1>6, <1>7, <1>8, ExitKeeps
<1>9. CASE ok
  <2>1. CommandOK' /\ pc' = "relocked" /\ request'.lockOnly
    BY <1>5, <1>6, <1>9, ReferencesAreTyped
       DEF CommandOK, FilesOK, Goto, IInv, RelockIsAskedFor
  <2>2. TypeOK' /\ HeadIsKnown'
    BY <1>7, <2>1, TypedIsTypeOK DEF Stages, SaveStages
  <2>3. /\ WorkingCopyIsValid' /\ RecordedIsVerified' /\ LockIsLoaded' /\ RelockIsAskedFor'
        /\ EnsuredIsLocked' /\ Reproducible'
    BY <2>1 DEF WorkingCopyIsValid, RecordedIsVerified, LockIsLoaded, RelockIsAskedFor,
                EnsuredIsLocked, Reproducible, Ensured, InstallStages
  <2> QED BY <2>2, <2>3 DEF IInv
<1> QED BY <1>8, <1>9

--------------------------------------------------------------------------------
(* The environment.                                                        *)

(* A step of the world around a running command: it changes neither the    *)
(* project's files nor the command.                                        *)
LEMMA AroundKeeps ==
  ASSUME IInv, RemoteOK', cache' \in Caches, steady' \in BOOLEAN,
         UNCHANGED <<constraint, vendor, disk, pc, request, original, lock, meta,
                     attempt, round, outcome>>
  PROVE  IInv'
<1>1. TypeOK' /\ HeadIsKnown'
  BY InvariantIsTyped, TypedIsTypeOK DEF FilesOK, CommandOK
<1>2. /\ WorkingCopyIsValid' /\ RecordedIsVerified' /\ LockIsLoaded' /\ RelockIsAskedFor'
      /\ EnsuredIsLocked' /\ Reproducible'
  BY DEF IInv, WorkingCopyIsValid, RecordedIsVerified, LockIsLoaded, RelockIsAskedFor, LockCleared,
         EnsuredIsLocked, Reproducible, Ensured
<1> QED BY <1>1, <1>2 DEF IInv

LEMMA PushKeeps ==
  ASSUME IInv, Push PROVE IInv'
<1>1. upstream.tip \in Commits /\ upstream.tags \subseteq Commits /\ online \in BOOLEAN
  BY InvariantIsTyped DEF RemoteOK
<1>2. upstream.tip + 1 \in Commits
  BY <1>1, MaxCommitAssumption DEF MaxCommitAssumption, Commits, Push
<1>3. RemoteOK'
  BY <1>1, <1>2 DEF Push, RemoteOK
<1>4. cache' \in Caches
  BY InvariantIsTyped DEF FilesOK, Push, filesVars
<1> QED BY <1>3, <1>4, AroundKeeps DEF Push, Disturb, filesVars

LEMMA NetworkKeeps ==
  ASSUME IInv, Network PROVE IInv'
BY InvariantIsTyped, AroundKeeps DEF Network, Disturb, RemoteOK, FilesOK, filesVars

LEMMA RefreshCacheKeeps ==
  ASSUME IInv, RefreshCache PROVE IInv'
<1>1. RemoteOK' /\ cache' \in Caches
  BY InvariantIsTyped, CommitsAreNumbers
     DEF RefreshCache, RemoteOK, remoteVars, FilesOK, Caches
<1> QED BY <1>1, InvariantIsTyped, AroundKeeps DEF RefreshCache, commandVars, CommandOK

LEMMA CrashKeeps ==
  ASSUME IInv, Crash PROVE IInv'
<1> USE InvariantIsTyped
<1>1. vendor' \in GoodRepositories
  BY ClonesAreSound
     DEF Crash, HalfVendored, FilesOK, GoodRepositories, Repositories, Worktrees, ValidRepository
<1>2. cache' \in Caches
  BY CommitsAreNumbers, ReferencesAreTyped DEF Crash, HalfCached, FilesOK, CommandOK, Caches
<1>3. disk' \in [status : {"missing", "corrupt", "saved"}, entry : Entries]
  BY ReferencesAreTyped DEF Crash, FilesOK, CommandOK, HalfSaved, CorruptLock, Saved
<1>4. RemoteOK' /\ FilesOK'
  BY <1>1, <1>2, <1>3 DEF Crash, RemoteOK, remoteVars, FilesOK
<1> QED BY <1>4, ExitKeeps DEF Crash

LEMMA UserKeeps ==
  ASSUME IInv, User PROVE IInv'
<1> USE InvariantIsTyped
<1>1. pc = "idle" /\ UNCHANGED <<remoteVars, commandVars>>
  BY DEF User
<1>2. FilesOK'
  <2>1. CASE EditReference
    BY <2>1, ReferencesAssumption DEF ReferencesAssumption, EditReference, FilesOK
  <2>2. CASE EditVendor
    BY <2>2 DEF EditVendor, FilesOK, GoodRepositories, Repositories, Worktrees, ValidRepository
  <2>3. CASE DeleteVendor
    BY <2>3, ClonesAreSound DEF DeleteVendor, FilesOK
  <2>4. CASE ClearCache
    BY <2>4, CommitsAreNumbers DEF ClearCache, FilesOK, Caches
  <2>5. CASE DeleteLock
    BY <2>5, ReferencesAreTyped DEF DeleteLock, FilesOK, NoLock
  <2>6. CASE ShareLock
    <3>1. constraint \in Metas /\ constraint.at \in {NoCommit} \cup Commits
      BY DEF FilesOK, Metas
    <3>2. 1 .. upstream.tip \subseteq Commits
      BY MaxCommitAssumption DEF MaxCommitAssumption, RemoteOK, Commits
    <3>3. Resolutions(constraint) \subseteq Commits
      BY <3>1, <3>2 DEF Resolutions, RemoteOK, Metas
    <3>4. \A c \in Commits : [constraint |-> constraint, commit |-> c] \in Entries
      BY <3>1 DEF Entries
    <3> QED BY <2>6, <3>3, <3>4 DEF ShareLock, FilesOK, Saved
  <2> QED BY <2>1, <2>2, <2>3, <2>4, <2>5, <2>6 DEF User
<1>3. RemoteOK' /\ CommandOK' /\ pc' \in Stages
  BY <1>1 DEF RemoteOK, remoteVars, CommandOK, commandVars
<1>4. TypeOK' /\ HeadIsKnown'
  BY <1>2, <1>3, TypedIsTypeOK
<1>5. /\ WorkingCopyIsValid' /\ RecordedIsVerified' /\ LockIsLoaded' /\ RelockIsAskedFor'
      /\ EnsuredIsLocked' /\ Reproducible'
  BY <1>1 DEF commandVars, WorkingCopyIsValid, RecordedIsVerified, LockIsLoaded, RelockIsAskedFor,
              EnsuredIsLocked, Reproducible, Ensured, InstallStages
<1> QED BY <1>4, <1>5 DEF IInv

--------------------------------------------------------------------------------
(* The theorems.                                                           *)

LEMMA InitIsGood == Init => IInv
<1> SUFFICES ASSUME Init PROVE IInv
  OBVIOUS
<1>1. upstream \in [tip : Commits, tags : SUBSET Commits]
  <2>1. 1 \in Commits
    BY MaxCommitAssumption DEF MaxCommitAssumption, Commits
  <2>2. PICK t \in SUBSET {1} : upstream = [tip |-> 1, tags |-> t]
    BY DEF Init
  <2>3. t \subseteq Commits
    BY <2>1
  <2> HIDE DEF Commits
  <2> QED BY <2>1, <2>2, <2>3
<1>2. vendor \in GoodRepositories /\ vendor \in Repositories
  BY ClonesAreSound DEF Init, GoodRepositories
<1>3. cache \in [CacheKeys -> CacheStates]
  BY CommitsAreNumbers DEF Init
<1>4. disk \in [status : {"missing", "corrupt", "saved"}, entry : Entries]
  BY ReferencesAreTyped DEF Init, NoLock
<1>5. /\ pc = "idle" /\ pc \in Stages /\ request \in AllRequests /\ lock \in Entries
      /\ constraint \in Metas /\ original \in Metas /\ meta \in Metas
  BY ReferencesAreTyped, ReferencesAssumption
     DEF ReferencesAssumption, Init, Stages, AllRequests, NoRequest
<1>6. TypeOK
  BY <1>1, <1>2, <1>3, <1>4, <1>5 DEF TypeOK, Init
<1>7. /\ WorkingCopyIsValid /\ RecordedIsVerified /\ LockIsLoaded
      /\ RelockIsAskedFor /\ EnsuredIsLocked /\ Reproducible
  BY <1>5 DEF WorkingCopyIsValid, RecordedIsVerified, LockIsLoaded, RelockIsAskedFor,
              EnsuredIsLocked, Reproducible, Ensured, InstallStages
<1> QED BY <1>2, <1>6, <1>7 DEF IInv, HeadIsKnown

LEMMA NextKeeps == IInv /\ [Next]_vars => IInv'
<1> SUFFICES ASSUME IInv, [Next]_vars PROVE IInv'
  OBVIOUS
<1>1. CASE \E r \in Requests : Start(r)
  BY <1>1, StartKeeps
<1>2. CASE Stage
  BY <1>2, LoadKeeps, RewriteKeeps, RefreshKeeps, ResolveKeeps, RepositoryKeeps, UpdateKeeps,
     RepairKeeps, ForceKeeps, RecloneKeeps, ReupdateKeeps, VerifyKeeps, RestoreKeeps,
     RecordKeeps, RuntimeKeeps, FinishKeeps, RelockKeeps DEF Stage
<1>3. CASE Push \/ Network \/ RefreshCache \/ Crash \/ User
  BY <1>3, PushKeeps, NetworkKeeps, RefreshCacheKeeps, CrashKeeps, UserKeeps
<1>4. CASE UNCHANGED vars
  BY <1>4, InvariantIsTyped, AroundKeeps
     DEF vars, remoteVars, filesVars, commandVars, RemoteOK, FilesOK, CommandOK
<1> QED BY <1>1, <1>2, <1>3, <1>4 DEF Next

LEMMA IInvIsInvariant == Spec => []IInv
<1>1. Init => IInv
  BY InitIsGood
<1>2. IInv /\ [Next]_vars => IInv'
  BY NextKeeps
<1> QED BY <1>1, <1>2, PTL DEF Spec

(* The files, the command and its memory are always well formed, however   *)
(* the environment interferes: no CHOOSE of a newest tag is ever made from *)
(* no tags, and no reference names a commit that cannot exist.             *)
THEOREM EnsureTypeCorrect == Spec => []TypeOK
<1>1. IInv => TypeOK
  BY DEF IInv
<1> QED BY <1>1, IInvIsInvariant, PTL

(* A dependency reported as ensured is there, and its entry names the      *)
(* commit HEAD is on (ensureManagedPackage, recordDependencyResolution).   *)
THEOREM WhatIsEnsuredIsLocked == Spec => []EnsuredIsLocked
<1>1. IInv => EnsuredIsLocked
  BY DEF IInv
<1> QED BY <1>1, IInvIsInvariant, PTL

(* A command that keeps the lock reports a dependency as ensured only on   *)
(* the commit of its entry in pawn.lock and with a clean worktree.         *)
THEOREM EnsureIsReproducible == Spec => []Reproducible
<1>1. IInv => Reproducible
  BY DEF IInv
<1> QED BY <1>1, IInvIsInvariant, PTL

(* What a command writes into pawn.lock, finished or killed in the middle, *)
(* keeps the commit of the entry it found.                                 *)
THEOREM LockedCommitsAreStable == Spec => LockedCommitIsStable
<1> DEFINE Stable ==
      (/\ pc # "idle" /\ ~LockCleared /\ ~request.lockOnly
       /\ disk.entry # NoEntry /\ disk'.status = "saved")
        => disk'.entry.commit = disk.entry.commit
<1>1. IInv /\ [Next]_vars => Stable
  <2> SUFFICES ASSUME IInv, [Next]_vars, disk' # disk,
                      pc # "idle", ~LockCleared, ~request.lockOnly,
                      disk.entry # NoEntry, disk'.status = "saved"
               PROVE  disk'.entry = disk.entry
    OBVIOUS
  <2>1. LockIsLoaded /\ RelockIsAskedFor /\ pc \notin {"relock", "relocked"}
    BY DEF IInv, RelockIsAskedFor
  <2>2. CASE Runtime \/ Finish
    BY <2>1, <2>2 DEF Runtime, Finish, LockIsLoaded, Saved
  <2>3. CASE Crash
    BY <2>1, <2>3 DEF Crash, HalfSaved, SaveStages, CorruptLock, LockIsLoaded, Saved
  <2>4. CASE ~(Runtime \/ Finish \/ Crash)
    <3>1. ~Stage
      BY <2>4 DEF Stage, Load, Rewrite, Refresh, Resolve, Repository, Update, Repair, ForceUpdate,
                  Reclone, Reupdate, Verify, Restore, Record, Relock, Perform, filesVars
    <3>2. ~(Push \/ Network \/ RefreshCache \/ User)
      BY DEF Push, Network, RefreshCache, User, filesVars
    <3>3. ~(\E r \in Requests : Start(r)) /\ ~UNCHANGED vars
      BY DEF Start, vars, filesVars
    <3> QED BY <2>4, <3>1, <3>2, <3>3 DEF Next
  <2> QED BY <2>2, <2>3, <2>4
<1>2. IInv /\ [Next]_vars => [Stable]_vars
  BY <1>1
<1> QED BY <1>2, IInvIsInvariant, PTL DEF Spec, LockedCommitIsStable
--------------------------------------------------------------------------------
(* What is not lost.  While the network is up, every way through the       *)
(* clone, the pulls and the recovery leaves a usable copy behind.          *)

LEMMA ClonesStay ==
  ASSUME NEW v, NEW caches, NEW key, ValidRepository(v), ValidCache(caches[key])
  PROVE  /\ ValidRepository(CloneFromCache(caches, key).vendor)
         /\ ValidRepository(UpdateRepository(v, caches, key).vendor)
<1>1. ValidRepository(CloneFromCache(caches, key).vendor)
  BY DEF CloneFromCache, World, Clone, ValidRepository
<1>2. ASSUME NEW r, NEW tip, ValidRepository(r)
      PROVE  /\ ValidRepository(Pull(r, tip).repo)
             /\ ValidRepository(RepairRepository(r))
  BY <1>2 DEF Pull, RepairRepository, ValidRepository
<1> QED BY <1>1, <1>2 DEF UpdateRepository, World

(* Only an unforced clone from a broken cached copy fails.                 *)
LEMMA EnsureFromCacheStays ==
  ASSUME RemoteOK, online, NEW v \in GoodRepositories, NEW caches \in Caches,
         NEW key \in CacheKeys, NEW force \in BOOLEAN, force \/ caches[key] # Broken
  PROVE  ValidRepository(EnsureFromCache(v, caches, key, force).vendor)
<1> DEFINE e == IF caches[key] = Missing \/ force
                THEN EnsureCached(caches[key], force)
                ELSE [ok |-> TRUE, cached |-> caches[key]]
           after == [caches EXCEPT ![key] = e.cached]
<1>1. e.ok /\ ValidCache(e.cached)
  BY CommitsAreNumbers DEF EnsureCached, RemoteOK, Caches, ValidCache
<1>2. ValidCache(after[key])
  BY <1>1 DEF Caches
<1>3. EnsureFromCache(v, caches, key, force) =
        IF ~e.ok THEN World(FALSE, v, after)
        ELSE IF ~ValidRepository(v) THEN CloneFromCache(after, key)
        ELSE IF force THEN UpdateRepository(v, after, key)
        ELSE World(TRUE, v, after)
  BY DEF EnsureFromCache, e, after
<1> HIDE DEF e, after
<1>4. CASE ~ValidRepository(v)
  BY <1>1, <1>2, <1>3, <1>4 DEF CloneFromCache, World, Clone, ValidRepository
<1>5. CASE ValidRepository(v)
  BY <1>1, <1>2, <1>3, <1>5, ClonesStay DEF World
<1> QED BY <1>4, <1>5

LEMMA UpdateRepoStateStays ==
  ASSUME RemoteOK, online, cache \in Caches, NEW v \in GoodRepositories, NEW m \in Metas,
         NEW force \in BOOLEAN, ValidRepository(v)
  PROVE  ValidRepository(UpdateRepoState(v, m, force).vendor)
<1> DEFINE forced == EnsureFromCache(v, cache, CacheKey(m), TRUE)
           pulled == Pull(forced.vendor, forced.cache[forced.vendor.origin])
<1>1. CacheKey(m) \in CacheKeys
  BY DEF CacheKey, CacheKeys
<1>2. forced \in Worlds /\ ValidRepository(forced.vendor)
  BY <1>1, EnsureFromCacheIsSound, EnsureFromCacheStays
<1>3. forced.vendor \in GoodRepositories /\ forced.cache \in Caches
  BY <1>2 DEF Worlds
<1>4. forced.cache[forced.vendor.origin] \in CacheStates
  BY <1>3 DEF GoodRepositories, Repositories, Caches
<1>5. pulled.repo \in GoodRepositories /\ ValidRepository(pulled.repo)
  BY <1>2, <1>3, <1>4, PullIsSound
<1> HIDE DEF forced, pulled
<1>6. \A r \in GoodRepositories, c \in Caches, b \in BOOLEAN :
        World(b, r, c) \in Worlds /\ World(b, r, c).vendor = r
  BY DEF World, Worlds
<1>7. UpdateRepoState(v, m, force) =
        IF ~force THEN CheckoutReference(World(TRUE, v, cache), m)
        ELSE IF ~forced.ok THEN forced
        ELSE IF ~pulled.ok THEN World(FALSE, pulled.repo, forced.cache)
        ELSE CheckoutReference(World(TRUE, pulled.repo, forced.cache), m)
  BY DEF UpdateRepoState, forced, pulled
<1>8. /\ ValidRepository(CheckoutReference(World(TRUE, v, cache), m).vendor)
      /\ ValidRepository(CheckoutReference(World(TRUE, pulled.repo, forced.cache), m).vendor)
  BY <1>3, <1>5, <1>6, CheckoutReferenceIsSound
<1> QED BY <1>2, <1>3, <1>5, <1>6, <1>7, <1>8

(* A running command removes a usable dependencies/<repo> without putting  *)
(* a new clone in its place only offline, or when a crash has left a broken*)
(* cached copy.                                                            *)
THEOREM NothingIsLostOnline == Spec => NoLossWhileOnline
<1> DEFINE Kept == (ValidRepository(vendor) /\ ~ValidRepository(vendor') /\ pc' # "idle")
                     => ~online \/ cache[CacheKey(meta)] = Broken
<1>1. IInv /\ [Next]_vars => Kept
  <2> SUFFICES ASSUME IInv, [Next]_vars, ValidRepository(vendor), pc' # "idle",
                      online, cache[CacheKey(meta)] # Broken, vendor' # vendor
               PROVE  ValidRepository(vendor')
    OBVIOUS
  <2>1. /\ RemoteOK /\ cache \in Caches /\ vendor \in GoodRepositories /\ meta \in Metas
        /\ CacheKey(meta) \in CacheKeys /\ ShouldForce(constraint) \in BOOLEAN
    BY InvariantIsTyped, ReferencesAreTyped DEF FilesOK, CommandOK
  <2>2. ValidRepository(RecloneDependency(cache, CacheKey(meta)).vendor)
    BY <2>1, ClonesAreSound, EnsureFromCacheStays DEF RecloneDependency
  <2>3. \A f \in BOOLEAN : ValidRepository(UpdateRepoState(vendor, meta, f).vendor)
    BY <2>1, UpdateRepoStateStays
  <2>4. ValidRepository(UpdateRepoState(RepairRepository(vendor), meta, TRUE).vendor)
    BY <2>1, RepairIsSound, UpdateRepoStateStays
  <2>5. CASE Repository \/ Verify
    BY <2>5 DEF Repository, Verify, Perform, World
  <2>6. CASE Update \/ Reupdate \/ ForceUpdate \/ Repair
    BY <2>1, <2>3, <2>4, <2>6 DEF Update, Reupdate, ForceUpdate, Repair, Perform
  <2>7. CASE Reclone \/ Restore
    BY <2>2, <2>7 DEF Reclone, Restore, Perform
  <2>8. CASE ~(Repository \/ Verify \/ Update \/ Reupdate \/ ForceUpdate \/ Repair
               \/ Reclone \/ Restore)
    <3>1. ~Stage
      BY <2>8 DEF Stage, Load, Rewrite, Refresh, Resolve, Record, Runtime, Finish, Relock,
                  filesVars
    <3>2. ~(Push \/ Network \/ RefreshCache \/ Crash \/ User)
      BY DEF Push, Network, RefreshCache, Crash, Exit, User, filesVars, commandVars
    <3>3. ~(\E r \in Requests : Start(r)) /\ ~UNCHANGED vars
      BY DEF Start, vars, filesVars
    <3> QED BY <3>1, <3>2, <3>3 DEF Next
  <2> QED BY <2>5, <2>6, <2>7, <2>8
<1>2. IInv /\ [Next]_vars => [Kept]_vars
  BY <1>1
<1> QED BY <1>2, IInvIsInvariant, PTL DEF Spec, NoLossWhileOnline

--------------------------------------------------------------------------------
(* What the operators on worlds do to repositories none of which is newer  *)
(* than upstream.                                                          *)
OldRepository(r) == r.head <= upstream.tip /\ r.ref <= upstream.tip /\ r.known <= upstream.tip
OldCaches(c)     == \A k \in CacheKeys : c[k] <= upstream.tip
Clean(r)         == ValidRepository(r) => r.worktree = "clean"
Pinned(m)        == m.kind \in {"tag", "commit"}

LEMMA UpstreamIsNumbered ==
  ASSUME RemoteOK
  PROVE  /\ upstream.tip \in Commits /\ upstream.tip \in Int /\ upstream.tip >= 1
         /\ \A c \in CacheStates : c \in Int
         /\ Missing <= upstream.tip /\ Broken <= upstream.tip /\ NoCommit <= upstream.tip
         /\ \A c \in {NoCommit} \cup Commits : c \in Int
         /\ \A r \in GoodRepositories : r.head \in Int /\ r.ref \in Int /\ r.known \in Int
BY MaxCommitAssumption
   DEF MaxCommitAssumption, RemoteOK, Commits, CacheStates, Missing, Broken, NoCommit,
       GoodRepositories, Repositories

LEMMA PullOfOld ==
  ASSUME RemoteOK, NEW r \in GoodRepositories, OldRepository(r),
         NEW tip \in CacheStates, tip <= upstream.tip
  PROVE  LET p == Pull(r, tip)
         IN /\ OldRepository(p.repo)
            /\ p.repo.worktree = r.worktree /\ p.repo.origin = r.origin
            /\ p.ok => p.repo.head >= tip
            /\ p.ok => p.repo.head = r.head \/ p.repo.head = tip
            /\ tip \in Commits /\ r.head >= tip => p.ok /\ p.repo = r
<1>1. r.head \in Int /\ r.ref \in Int /\ r.known \in Int /\ tip \in Int
  BY UpstreamIsNumbered
<1>2. CASE tip \notin Commits
  BY <1>2 DEF Pull
<1>3. CASE tip \in Commits /\ r.head >= tip
  BY <1>3 DEF Pull
<1>4. CASE tip \in Commits /\ ~(r.head >= tip)
  <2> DEFINE q == [r EXCEPT !.head  = tip,
                            !.ref   = IF r.attached THEN tip ELSE r.ref,
                            !.known = IF r.known < tip THEN tip ELSE r.known]
  <2>1. Pull(r, tip) = [ok |-> r.worktree # "edited", repo |-> q]
    BY <1>4 DEF Pull
  <2>2. /\ q.head = tip /\ q.ref \in {tip, r.ref} /\ q.known \in {tip, r.known}
        /\ q.worktree = r.worktree /\ q.origin = r.origin
    BY DEF GoodRepositories, Repositories
  <2> HIDE DEF q
  <2> QED BY <1>1, <1>4, <2>1, <2>2 DEF OldRepository
<1> QED BY <1>2, <1>3, <1>4

LEMMA CheckoutOfOld ==
  ASSUME NEW r \in GoodRepositories, NEW c, OldRepository(r), c <= upstream.tip
  PROVE  /\ OldRepository(Checkout(r, c)) /\ Checkout(r, c).head = c
         /\ Checkout(r, c).origin = r.origin
         /\ Clean(r) => Clean(Checkout(r, c))
BY DEF Checkout, OldRepository, GoodRepositories, Repositories, Clean, ValidRepository

LEMMA OthersAreOld ==
  ASSUME RemoteOK
  PROVE  /\ OldRepository(NoRepository) /\ Clean(NoRepository)
         /\ OldRepository(BrokenRepository) /\ Clean(BrokenRepository)
         /\ \A c, k : c <= upstream.tip => /\ OldRepository(Clone(c, k)) /\ Clean(Clone(c, k))
                                           /\ Clone(c, k).head = c /\ Clone(c, k).origin = k
         /\ \A r \in GoodRepositories :
              /\ OldRepository(r) => OldRepository(RepairRepository(r))
              /\ Clean(RepairRepository(r)) /\ RepairRepository(r).origin = r.origin
BY UpstreamIsNumbered
   DEF OldRepository, Clean, NoRepository, BrokenRepository, Clone, RepairRepository,
       ValidRepository, GoodRepositories, Repositories

LEMMA CachedOfOld ==
  ASSUME RemoteOK, NEW c \in CacheStates, c <= upstream.tip, NEW force \in BOOLEAN
  PROVE  LET e == EnsureCached(c, force)
         IN /\ e.cached <= upstream.tip
            /\ online => e.ok /\ ValidCache(e.cached)
            /\ online /\ force => e.cached = upstream.tip
            /\ e.ok => ValidCache(e.cached)
            /\ ValidCache(c) /\ ~force => e.ok /\ e.cached = c
BY UpstreamIsNumbered DEF EnsureCached, ValidCache

LEMMA CloneOfOld ==
  ASSUME RemoteOK, NEW caches \in Caches, NEW key \in CacheKeys, OldCaches(caches)
  PROVE  LET w == CloneFromCache(caches, key)
         IN /\ w.cache = caches /\ OldRepository(w.vendor) /\ Clean(w.vendor)
            /\ w.ok <=> ValidCache(caches[key])
            /\ w.ok => w.vendor = Clone(caches[key], key)
BY OthersAreOld DEF CloneFromCache, World, OldCaches

LEMMA UpdateRepositoryOfOld ==
  ASSUME RemoteOK, NEW v \in GoodRepositories, OldRepository(v), ValidRepository(v),
         NEW caches \in Caches, NEW key \in CacheKeys, OldCaches(caches)
  PROVE  LET w == UpdateRepository(v, caches, key)
         IN /\ w.cache = caches /\ OldRepository(w.vendor)
            /\ Clean(v) => Clean(w.vendor)
            /\ w.ok /\ w.vendor.origin = key => w.vendor.head >= caches[key]
            /\ ValidCache(caches[key]) /\ v = Clone(caches[key], key) => w.ok /\ w.vendor = v
<1> DEFINE tip    == caches[v.origin]
           first  == Pull(v, tip)
           second == Pull(RepairRepository(first.repo), tip)
<1>1. tip \in CacheStates /\ tip <= upstream.tip
  BY DEF Caches, GoodRepositories, Repositories, OldCaches
<1>2. /\ first.repo \in GoodRepositories /\ OldRepository(first.repo)
      /\ first.repo.worktree = v.worktree /\ first.repo.origin = v.origin
      /\ first.ok => first.repo.head >= tip
  BY <1>1, PullIsSound, PullOfOld
<1>3. /\ OldRepository(second.repo) /\ Clean(second.repo) /\ second.repo.origin = v.origin
      /\ second.ok => second.repo.head >= tip
  <2>1. /\ RepairRepository(first.repo) \in GoodRepositories
        /\ OldRepository(RepairRepository(first.repo))
        /\ RepairRepository(first.repo).worktree = "clean"
        /\ RepairRepository(first.repo).origin = v.origin
    BY <1>2, OthersAreOld, RepairIsSound DEF RepairRepository, GoodRepositories, Repositories
  <2> QED BY <1>1, <2>1, PullOfOld DEF Clean
<1>4. Clean(v) => Clean(first.repo)
  BY <1>1, <1>2, PullIsSound DEF Clean
<1>5. ValidCache(caches[key]) /\ v = Clone(caches[key], key) => first.ok /\ first.repo = v
  <2> SUFFICES ASSUME ValidCache(caches[key]), v = Clone(caches[key], key)
               PROVE  first.ok /\ first.repo = v
    OBVIOUS
  <2>1. v.origin = key /\ v.head = caches[key]
    BY DEF Clone
  <2>2. tip \in Commits /\ v.head >= tip
    BY <1>1, <2>1, UpstreamIsNumbered DEF ValidCache
  <2> QED BY <1>1, <2>2, PullOfOld
<1>6. LET w == CloneFromCache(caches, key)
      IN /\ w.cache = caches /\ OldRepository(w.vendor) /\ Clean(w.vendor)
         /\ w.ok => w.vendor.head >= caches[key]
  <2>1. caches[key] \in Int /\ Clone(caches[key], key).head = caches[key]
    BY UpstreamIsNumbered DEF Caches, Clone
  <2>2. Clone(caches[key], key).head >= caches[key]
    BY <2>1
  <2> QED BY <2>2, CloneOfOld
<1>7. UpdateRepository(v, caches, key) =
        IF first.ok THEN World(TRUE, first.repo, caches)
        ELSE IF second.ok THEN World(TRUE, second.repo, caches)
        ELSE CloneFromCache(caches, key)
  BY DEF UpdateRepository
<1>8. \A r : /\ World(TRUE, r, caches).ok /\ World(TRUE, r, caches).vendor = r
             /\ World(TRUE, r, caches).cache = caches
  BY DEF World
<1>9. first.ok /\ first.repo.origin = key => first.repo.head >= caches[key]
  BY <1>2
<1>10. second.ok /\ second.repo.origin = key => second.repo.head >= caches[key]
  BY <1>3
<1> HIDE DEF first, second
<1>11. CASE first.ok
  BY <1>2, <1>4, <1>5, <1>7, <1>8, <1>9, <1>11
<1>12. CASE ~first.ok /\ second.ok
  BY <1>3, <1>5, <1>7, <1>8, <1>10, <1>12
<1>13. CASE ~first.ok /\ ~second.ok
  BY <1>5, <1>6, <1>7, <1>13
<1> QED BY <1>11, <1>12, <1>13

LEMMA EnsureFromCacheOfOld ==
  ASSUME RemoteOK, NEW v \in GoodRepositories, OldRepository(v),
         NEW caches \in Caches, OldCaches(caches), NEW key \in CacheKeys, NEW force \in BOOLEAN
  PROVE  LET w == EnsureFromCache(v, caches, key, force)
         IN /\ OldRepository(w.vendor) /\ OldCaches(w.cache)
            /\ Clean(v) => Clean(w.vendor)
            /\ \A k \in CacheKeys : k # key => w.cache[k] = caches[k]
            /\ online /\ ValidCache(caches[key]) => ValidCache(w.cache[key])
            /\ online /\ force => w.cache[key] = upstream.tip
            /\ w.ok /\ force /\ w.vendor.origin = key => w.vendor.head >= w.cache[key]
            /\ ValidCache(caches[key]) /\ ~force => w.cache = caches
            /\ online /\ force /\ v = Clone(upstream.tip, key) => w.ok /\ w.vendor = v
<1> DEFINE e == IF caches[key] = Missing \/ force
                THEN EnsureCached(caches[key], force)
                ELSE [ok |-> TRUE, cached |-> caches[key]]
           after == [caches EXCEPT ![key] = e.cached]
           w == EnsureFromCache(v, caches, key, force)
<1>1. /\ caches[key] \in CacheStates /\ caches[key] <= upstream.tip
      /\ ValidCache(caches[key]) => caches[key] # Missing
  BY CommitsAreNumbers DEF Caches, OldCaches, ValidCache
<1>2. /\ e.cached \in CacheStates /\ e.cached <= upstream.tip
      /\ online /\ force => e.ok /\ e.cached = upstream.tip
      /\ online /\ ValidCache(caches[key]) => ValidCache(e.cached)
      /\ ValidCache(caches[key]) /\ ~force => e.cached = caches[key]
  BY <1>1, CachedIsSound, CachedOfOld
<1> HIDE DEF e
<1>3. /\ after \in Caches /\ OldCaches(after) /\ after[key] = e.cached
      /\ \A k \in CacheKeys : k # key => after[k] = caches[k]
      /\ ValidCache(caches[key]) /\ ~force => after = caches
  BY <1>2 DEF Caches, OldCaches
<1> HIDE DEF after
<1>4. w = IF ~e.ok THEN World(FALSE, v, after)
          ELSE IF ~ValidRepository(v) THEN CloneFromCache(after, key)
          ELSE IF force THEN UpdateRepository(v, after, key)
          ELSE World(TRUE, v, after)
  BY DEF EnsureFromCache, e, after
<1>5. \A b \in BOOLEAN : /\ World(b, v, after).ok = b /\ World(b, v, after).vendor = v
                         /\ World(b, v, after).cache = after
  BY DEF World
<1>6. LET c == CloneFromCache(after, key)
      IN /\ c.cache = after /\ OldRepository(c.vendor) /\ Clean(c.vendor)
         /\ c.ok => c.vendor.head >= after[key]
  <2>1. after[key] \in Int /\ Clone(after[key], key).head = after[key]
    BY <1>3, UpstreamIsNumbered DEF Caches, Clone
  <2>2. Clone(after[key], key).head >= after[key]
    BY <2>1
  <2> QED BY <1>3, <2>2, CloneOfOld
<1>7. ValidRepository(v) =>
        LET u == UpdateRepository(v, after, key)
        IN /\ u.cache = after /\ OldRepository(u.vendor) /\ (Clean(v) => Clean(u.vendor))
           /\ u.ok /\ u.vendor.origin = key => u.vendor.head >= after[key]
           /\ ValidCache(after[key]) /\ v = Clone(after[key], key) => u.ok /\ u.vendor = v
  BY <1>3, UpdateRepositoryOfOld
<1>8. v = Clone(upstream.tip, key) => ValidRepository(v)
  BY DEF Clone, ValidRepository
<1>9. ValidCache(upstream.tip)
  BY UpstreamIsNumbered DEF ValidCache
<1>10. w.cache = after
  BY <1>4, <1>5, <1>6, <1>7
<1>11. OldRepository(w.vendor) /\ (Clean(v) => Clean(w.vendor))
  BY <1>4, <1>5, <1>6, <1>7
<1>12. w.ok /\ force /\ w.vendor.origin = key => w.vendor.head >= after[key]
  BY <1>4, <1>5, <1>6, <1>7
<1>13. online /\ force /\ v = Clone(upstream.tip, key) => w.ok /\ w.vendor = v
  BY <1>2, <1>3, <1>4, <1>7, <1>8, <1>9
<1> HIDE DEF w
<1> QED BY <1>2, <1>3, <1>10, <1>11, <1>12, <1>13 DEF w

(* recloneDependency fails for nothing but a broken cached copy, as long   *)
(* as there is a network.                                                  *)
LEMMA RecloneOfOld ==
  ASSUME RemoteOK, NEW caches \in Caches, OldCaches(caches), NEW key \in CacheKeys
  PROVE  LET w == RecloneDependency(caches, key)
         IN /\ OldRepository(w.vendor) /\ OldCaches(w.cache) /\ Clean(w.vendor)
            /\ \A k \in CacheKeys : k # key => w.cache[k] = caches[k]
            /\ online /\ ValidCache(caches[key]) =>
                 w.ok /\ w.cache = caches /\ w.vendor = Clone(caches[key], key)
            /\ online /\ ~w.ok => caches[key] = Broken /\ w.cache[key] = Broken
<1> DEFINE w == RecloneDependency(caches, key)
<1>1. w = EnsureFromCache(NoRepository, caches, key, FALSE)
  BY DEF RecloneDependency
<1>2. /\ NoRepository \in GoodRepositories /\ OldRepository(NoRepository) /\ Clean(NoRepository)
      /\ ~ValidRepository(NoRepository)
  BY ClonesAreSound, OthersAreOld DEF NoRepository, ValidRepository
<1>3. /\ OldRepository(w.vendor) /\ OldCaches(w.cache) /\ Clean(w.vendor)
      /\ \A k \in CacheKeys : k # key => w.cache[k] = caches[k]
  <2>1. ASSUME NEW force \in BOOLEAN
        PROVE  LET u == EnsureFromCache(NoRepository, caches, key, force)
               IN /\ OldRepository(u.vendor) /\ OldCaches(u.cache) /\ Clean(u.vendor)
                  /\ \A k \in CacheKeys : k # key => u.cache[k] = caches[k]
    BY <1>2, EnsureFromCacheOfOld
  <2> HIDE DEF w
  <2> QED BY <1>1, <2>1
<1>4. ASSUME online, ValidCache(caches[key])
      PROVE  w.ok /\ w.cache = caches /\ w.vendor = Clone(caches[key], key)
  <2>1. caches[key] # Missing
    BY <1>4, CommitsAreNumbers DEF ValidCache
  <2>2. [caches EXCEPT ![key] = caches[key]] = caches
    BY DEF Caches
  <2>3. w = CloneFromCache(caches, key)
    BY <1>1, <1>2, <2>1, <2>2 DEF EnsureFromCache
  <2> QED BY <1>4, <2>3, CloneOfOld
<1>5. ASSUME online, ~w.ok PROVE caches[key] = Broken /\ w.cache[key] = Broken
  <2>1. CASE caches[key] = Missing
    <3> DEFINE after == [caches EXCEPT ![key] = upstream.tip]
    <3>1. /\ EnsureCached(caches[key], FALSE).ok
          /\ EnsureCached(caches[key], FALSE).cached = upstream.tip
      BY <1>5, <2>1, CommitsAreNumbers DEF EnsureCached, ValidCache
    <3>2. w = CloneFromCache(after, key)
      <4> DEFINE e == EnsureCached(caches[key], FALSE)
      <4>1. e.ok /\ e.cached = upstream.tip
        BY <3>1
      <4> HIDE DEF e
      <4>2. w = IF ~e.ok THEN World(FALSE, NoRepository, [caches EXCEPT ![key] = e.cached])
                ELSE CloneFromCache([caches EXCEPT ![key] = e.cached], key)
        BY <1>1, <1>2, <2>1 DEF EnsureFromCache, e
      <4> QED BY <4>1, <4>2
    <3>3. after \in Caches /\ OldCaches(after) /\ ValidCache(after[key])
      BY UpstreamIsNumbered, CommitsAreNumbers DEF Caches, OldCaches, ValidCache
    <3> HIDE DEF after
    <3>4. w.ok
      BY <3>2, <3>3, CloneOfOld
    <3> QED BY <1>5, <3>4
  <2>2. CASE caches[key] \in Commits
    BY <1>4, <1>5, <2>2 DEF ValidCache
  <2>3. CASE caches[key] = Broken
    <3>1. caches[key] # Missing
      BY <2>3 DEF Missing, Broken
    <3>2. w = CloneFromCache([caches EXCEPT ![key] = caches[key]], key)
      BY <1>1, <1>2, <3>1 DEF EnsureFromCache
    <3>3. [caches EXCEPT ![key] = caches[key]] = caches
      BY DEF Caches
    <3>4. w.cache = caches
      BY <3>2, <3>3, CloneOfOld
    <3> QED BY <2>3, <3>4
  <2> QED BY <2>1, <2>2, <2>3, CommitsAreNumbers DEF Caches
<1> QED BY <1>3, <1>4, <1>5

LEMMA CheckoutReferenceOfOld ==
  ASSUME RemoteOK, NEW w \in Worlds, NEW m \in Metas, ValidRepository(w.vendor),
         OldRepository(w.vendor), OldCaches(w.cache)
  PROVE  LET r == CheckoutReference(w, m)
         IN /\ OldRepository(r.vendor) /\ r.cache = w.cache
            /\ Clean(w.vendor) => Clean(r.vendor)
            /\ r.ok /\ Pinned(m) => r.vendor.head = m.at
            /\ r.ok /\ m.kind = "none" => r.vendor.head >= w.cache[r.vendor.origin]
            /\ (/\ Published(m) /\ upstream.tags \subseteq 1 .. upstream.tip
                /\ w.vendor.head = upstream.tip /\ w.vendor.known = upstream.tip
                /\ w.cache[w.vendor.origin] = upstream.tip) => r.ok
<1> DEFINE tip == w.cache[w.vendor.origin]
           pulled == Pull(w.vendor, tip)
           r == CheckoutReference(w, m)
<1>1. /\ w.vendor \in GoodRepositories /\ w.cache \in Caches
      /\ tip \in CacheStates /\ tip <= upstream.tip
  BY DEF Worlds, GoodRepositories, Repositories, Caches, OldCaches
<1>2. /\ pulled.repo \in GoodRepositories /\ ValidRepository(pulled.repo)
      /\ OldRepository(pulled.repo) /\ (Clean(w.vendor) => Clean(pulled.repo))
      /\ pulled.repo.origin = w.vendor.origin
      /\ pulled.ok => pulled.repo.head >= tip
  BY <1>1, PullIsSound, PullOfOld DEF Clean
<1>3. w.vendor.head = upstream.tip /\ tip = upstream.tip => pulled.ok /\ pulled.repo = w.vendor
  BY <1>1, PullOfOld, UpstreamIsNumbered
<1>4. /\ pulled.repo.known \in Int /\ w.vendor.known \in Int /\ upstream.tip \in Int
      /\ w.vendor.known <= upstream.tip /\ pulled.repo.known <= upstream.tip
      /\ pulled.repo.ref <= upstream.tip
  BY <1>1, <1>2, UpstreamIsNumbered DEF OldRepository
<1> HIDE DEF pulled, tip
<1>5. \A b, v : /\ World(b, v, w.cache).ok = b /\ World(b, v, w.cache).vendor = v
                /\ World(b, v, w.cache).cache = w.cache
  BY DEF World
<1>6. ASSUME NEW c, c <= upstream.tip
      PROVE  /\ OldRepository(Checkout(w.vendor, c)) /\ Checkout(w.vendor, c).head = c
             /\ Clean(w.vendor) => Clean(Checkout(w.vendor, c))
             /\ OldRepository(Checkout(pulled.repo, c)) /\ Checkout(pulled.repo, c).head = c
             /\ Clean(w.vendor) => Clean(Checkout(pulled.repo, c))
  BY <1>1, <1>2, <1>6, CheckoutOfOld
<1>7. CASE m.kind = "tag"
  <2>1. r = IF m.at \in upstream.tags /\ m.at <= w.vendor.known
            THEN World(TRUE, Checkout(w.vendor, m.at), w.cache)
            ELSE World(FALSE, w.vendor, w.cache)
    BY <1>7 DEF CheckoutReference
  <2>2. m.at \in upstream.tags /\ m.at <= w.vendor.known => m.at <= upstream.tip
    <3>1. m.at \in upstream.tags => m.at \in Int
      BY UpstreamIsNumbered DEF RemoteOK
    <3> QED BY <1>4, <3>1
  <2>3. Published(m) /\ upstream.tags \subseteq 1 .. upstream.tip =>
          m.at \in upstream.tags /\ m.at <= upstream.tip
    BY <1>4, <1>7 DEF Published
  <2> HIDE DEF r
  <2>4. \/ r.ok /\ r.vendor = Checkout(w.vendor, m.at) /\ m.at <= upstream.tip
        \/ ~r.ok /\ r.vendor = w.vendor
    BY <1>5, <2>1, <2>2
  <2>5. r.cache = w.cache
    BY <1>5, <2>1
  <2>6. OldRepository(r.vendor) /\ r.cache = w.cache /\ (Clean(w.vendor) => Clean(r.vendor))
    BY <1>6, <2>4, <2>5
  <2>7. r.ok => r.vendor.head = m.at
    BY <1>6, <2>4
  <2>8. (/\ Published(m) /\ upstream.tags \subseteq 1 .. upstream.tip
         /\ w.vendor.known = upstream.tip) => r.ok
    BY <1>5, <2>1, <2>3
  <2> QED BY <1>7, <2>6, <2>7, <2>8 DEF r
<1>8. CASE m.kind = "commit"
  <2>1. r = IF pulled.ok /\ m.at \in 1 .. pulled.repo.known
            THEN World(TRUE, Checkout(pulled.repo, m.at), w.cache)
            ELSE World(FALSE, pulled.repo, w.cache)
    BY <1>8 DEF CheckoutReference, pulled, tip
  <2>2. m.at \in 1 .. pulled.repo.known => m.at <= upstream.tip
    BY <1>4
  <2>3. Published(m) => m.at \in 1 .. upstream.tip
    BY <1>8 DEF Published
  <2> HIDE DEF r
  <2>4. \/ r.ok /\ r.vendor = Checkout(pulled.repo, m.at) /\ m.at <= upstream.tip
        \/ ~r.ok /\ r.vendor = pulled.repo
    <3>1. CASE pulled.ok /\ m.at \in 1 .. pulled.repo.known
      <4>1. r = World(TRUE, Checkout(pulled.repo, m.at), w.cache)
        BY <2>1, <3>1
      <4>2. r.ok /\ r.vendor = Checkout(pulled.repo, m.at)
        BY <4>1 DEF World
      <4> QED BY <2>2, <3>1, <4>2
    <3>2. CASE ~(pulled.ok /\ m.at \in 1 .. pulled.repo.known)
      <4>1. r = World(FALSE, pulled.repo, w.cache)
        BY <2>1, <3>2
      <4> QED BY <1>5, <4>1
    <3> QED BY <3>1, <3>2
  <2>5. r.cache = w.cache
    BY <1>5, <2>1
  <2>6. OldRepository(r.vendor) /\ r.cache = w.cache /\ (Clean(w.vendor) => Clean(r.vendor))
    BY <1>2, <1>6, <2>4, <2>5
  <2>7. r.ok => r.vendor.head = m.at
    BY <1>6, <2>4
  <2>8. (/\ Published(m) /\ w.vendor.head = upstream.tip /\ w.vendor.known = upstream.tip
         /\ tip = upstream.tip) => r.ok
    BY <1>3, <1>5, <2>1, <2>3
  <2> QED BY <1>8, <2>6, <2>7, <2>8 DEF r, tip
<1>9. CASE m.kind = "branch"
  <2>1. r = IF pulled.ok THEN World(TRUE, Checkout(pulled.repo, pulled.repo.ref), w.cache)
            ELSE World(FALSE, pulled.repo, w.cache)
    BY <1>9 DEF CheckoutReference, pulled, tip
  <2> HIDE DEF r
  <2>2. r.vendor = Checkout(pulled.repo, pulled.repo.ref) \/ r.vendor = pulled.repo
    <3>1. CASE pulled.ok
      <4>1. r = World(TRUE, Checkout(pulled.repo, pulled.repo.ref), w.cache)
        BY <2>1, <3>1
      <4> QED BY <4>1 DEF World
    <3>2. CASE ~pulled.ok
      BY <1>5, <2>1, <3>2
    <3> QED BY <3>1, <3>2
  <2>3. r.cache = w.cache
    BY <1>5, <2>1
  <2>4. OldRepository(r.vendor) /\ r.cache = w.cache /\ (Clean(w.vendor) => Clean(r.vendor))
    BY <1>2, <1>4, <1>6, <2>2, <2>3
  <2>5. w.vendor.head = upstream.tip /\ tip = upstream.tip => r.ok
    BY <1>3, <1>5, <2>1
  <2> QED BY <1>9, <2>4, <2>5 DEF r, tip, Pinned
<1>10. CASE m.kind \in {"none", "latest"}
  <2>1. r = World(pulled.ok, pulled.repo, w.cache)
    BY <1>10 DEF CheckoutReference, pulled, tip
  <2> HIDE DEF r
  <2>2. r.vendor = pulled.repo /\ r.cache = w.cache /\ r.ok = pulled.ok
    BY <1>5, <2>1
  <2>3. OldRepository(r.vendor) /\ r.cache = w.cache /\ (Clean(w.vendor) => Clean(r.vendor))
    BY <1>2, <2>2
  <2>4. r.ok => r.vendor.head >= w.cache[r.vendor.origin]
    BY <1>2, <2>2 DEF tip
  <2>5. w.vendor.head = upstream.tip /\ tip = upstream.tip => r.ok
    BY <1>3, <2>2
  <2> QED BY <1>10, <2>3, <2>4, <2>5 DEF r, tip, Pinned
<1> QED BY <1>7, <1>8, <1>9, <1>10 DEF Metas

LEMMA UpdateRepoStateOfOld ==
  ASSUME RemoteOK, cache \in Caches, OldCaches(cache), NEW v \in GoodRepositories,
         OldRepository(v), NEW m \in Metas, NEW force \in BOOLEAN, force \/ ValidRepository(v)
  PROVE  LET w   == UpdateRepoState(v, m, force)
             key == CacheKey(m)
         IN /\ OldRepository(w.vendor) /\ OldCaches(w.cache)
            /\ Clean(v) => Clean(w.vendor)
            /\ \A k \in CacheKeys : k # key => w.cache[k] = cache[k]
            /\ online /\ ValidCache(cache[key]) => ValidCache(w.cache[key])
            /\ online /\ force => w.cache[key] = upstream.tip
            /\ w.ok /\ Pinned(m) => w.vendor.head = m.at
            /\ online /\ force /\ w.ok /\ m.kind = "none" /\ w.vendor.origin = key =>
                 w.vendor.head = upstream.tip
            /\ (/\ online /\ v = Clone(upstream.tip, key) /\ cache[key] = upstream.tip
                /\ upstream.tags \subseteq 1 .. upstream.tip /\ Published(m)) => w.ok
<1> DEFINE key == CacheKey(m)
           w == UpdateRepoState(v, m, force)
           forced == EnsureFromCache(v, cache, key, TRUE)
           pulled == Pull(forced.vendor, forced.cache[forced.vendor.origin])
           there  == World(TRUE, v, cache)
           again  == World(TRUE, pulled.repo, forced.cache)
           new    == Clone(upstream.tip, key)
<1>1. key \in CacheKeys
  BY DEF CacheKey, CacheKeys
<1>2. w = IF ~force THEN CheckoutReference(there, m)
          ELSE IF ~forced.ok THEN forced
          ELSE IF ~pulled.ok THEN World(FALSE, pulled.repo, forced.cache)
          ELSE CheckoutReference(again, m)
  BY DEF UpdateRepoState
<1>3. /\ there.vendor = v /\ there.cache = cache /\ there \in Worlds
  BY DEF World, Worlds
<1>4. /\ again.vendor = pulled.repo /\ again.cache = forced.cache
      /\ again = [ok |-> TRUE, vendor |-> pulled.repo, cache |-> forced.cache]
  BY DEF World
<1>5. /\ new.head = upstream.tip /\ new.known = upstream.tip
      /\ new.origin = key /\ ValidRepository(new)
  BY DEF Clone, ValidRepository
<1> HIDE DEF key, there, new
<1>6. forced \in Worlds /\ (forced.ok => ValidRepository(forced.vendor))
  BY <1>1, EnsureFromCacheIsSound
<1>7. /\ OldRepository(forced.vendor) /\ OldCaches(forced.cache)
      /\ Clean(v) => Clean(forced.vendor)
      /\ \A k \in CacheKeys : k # key => forced.cache[k] = cache[k]
      /\ online /\ ValidCache(cache[key]) => ValidCache(forced.cache[key])
      /\ online => forced.cache[key] = upstream.tip
      /\ forced.ok /\ forced.vendor.origin = key => forced.vendor.head >= forced.cache[key]
      /\ online /\ v = new => forced.ok /\ forced.vendor = v
  <2>1. ASSUME NEW f \in BOOLEAN, f
        PROVE  LET u == EnsureFromCache(v, cache, key, f)
               IN /\ OldRepository(u.vendor) /\ OldCaches(u.cache)
                  /\ Clean(v) => Clean(u.vendor)
                  /\ \A k \in CacheKeys : k # key => u.cache[k] = cache[k]
                  /\ online /\ ValidCache(cache[key]) => ValidCache(u.cache[key])
                  /\ online => u.cache[key] = upstream.tip
                  /\ u.ok /\ u.vendor.origin = key => u.vendor.head >= u.cache[key]
                  /\ online /\ v = new => u.ok /\ u.vendor = v
    <3> DEFINE u == EnsureFromCache(v, cache, key, f)
    <3>1. /\ OldRepository(u.vendor) /\ OldCaches(u.cache)
          /\ Clean(v) => Clean(u.vendor)
          /\ \A k \in CacheKeys : k # key => u.cache[k] = cache[k]
          /\ online /\ ValidCache(cache[key]) => ValidCache(u.cache[key])
          /\ online /\ f => u.cache[key] = upstream.tip
          /\ u.ok /\ f /\ u.vendor.origin = key => u.vendor.head >= u.cache[key]
          /\ online /\ f /\ v = Clone(upstream.tip, key) => u.ok /\ u.vendor = v
      BY <1>1, EnsureFromCacheOfOld
    <3> HIDE DEF u
    <3> QED BY <2>1, <3>1 DEF new, u
  <2> HIDE DEF w, pulled, again
  <2> QED BY <2>1
<1> HIDE DEF forced
<1>8. /\ forced.vendor \in GoodRepositories /\ forced.cache \in Caches
      /\ forced.cache[forced.vendor.origin] \in CacheStates
      /\ forced.cache[forced.vendor.origin] <= upstream.tip
  BY <1>6, <1>7 DEF Worlds, GoodRepositories, Repositories, Caches, OldCaches
<1>9. /\ pulled.repo \in GoodRepositories /\ OldRepository(pulled.repo)
      /\ forced.ok => ValidRepository(pulled.repo)
      /\ Clean(v) => Clean(pulled.repo)
      /\ pulled.repo.origin = forced.vendor.origin
      /\ pulled.ok => pulled.repo.head >= forced.cache[forced.vendor.origin]
  BY <1>6, <1>7, <1>8, PullIsSound, PullOfOld DEF Clean
<1>10. online /\ v = new => pulled.ok /\ pulled.repo = v
  BY <1>7, <1>8, <1>5, PullOfOld, UpstreamIsNumbered
<1> HIDE DEF pulled
<1>11. again \in Worlds
  <2>1. \A b \in BOOLEAN :
          [ok |-> b, vendor |-> pulled.repo, cache |-> forced.cache] \in Worlds
    BY <1>8, <1>9 DEF Worlds
  <2> HIDE DEF again
  <2> QED BY <1>4, <2>1
<1> HIDE DEF again
<1>12. CASE ~force
  <2> DEFINE r == CheckoutReference(there, m)
  <2>1. /\ OldRepository(r.vendor) /\ r.cache = cache
        /\ Clean(v) => Clean(r.vendor)
        /\ r.ok /\ Pinned(m) => r.vendor.head = m.at
        /\ (/\ Published(m) /\ upstream.tags \subseteq 1 .. upstream.tip
            /\ v.head = upstream.tip /\ v.known = upstream.tip
            /\ cache[v.origin] = upstream.tip) => r.ok
    BY <1>3, <1>12, CheckoutReferenceOfOld
  <2> HIDE DEF r
  <2>2. w = r
    BY <1>2, <1>12 DEF r
  <2> HIDE DEF w
  <2>3. (/\ v = new /\ cache[key] = upstream.tip
         /\ upstream.tags \subseteq 1 .. upstream.tip /\ Published(m)) => w.ok
    BY <1>5, <2>1, <2>2
  <2> QED BY <1>12, <2>1, <2>2, <2>3 DEF w, key, new
<1>13. CASE force /\ ~forced.ok
  <2>1. w = forced
    BY <1>2, <1>13
  <2> HIDE DEF w
  <2> QED BY <1>7, <1>13, <2>1 DEF w, key, new
<1>14. CASE force /\ forced.ok /\ ~pulled.ok
  <2>1. w.vendor = pulled.repo /\ w.cache = forced.cache /\ w.ok = FALSE
    BY <1>2, <1>14 DEF World
  <2> HIDE DEF w
  <2> QED BY <1>7, <1>9, <1>10, <1>14, <2>1 DEF w, key, new
<1>15. CASE force /\ forced.ok /\ pulled.ok
  <2> DEFINE r == CheckoutReference(again, m)
  <2>1. /\ OldRepository(r.vendor) /\ r.cache = forced.cache
        /\ Clean(pulled.repo) => Clean(r.vendor)
        /\ r.ok /\ Pinned(m) => r.vendor.head = m.at
        /\ r.ok /\ m.kind = "none" => r.vendor.head >= forced.cache[r.vendor.origin]
        /\ (/\ Published(m) /\ upstream.tags \subseteq 1 .. upstream.tip
            /\ pulled.repo.head = upstream.tip /\ pulled.repo.known = upstream.tip
            /\ forced.cache[pulled.repo.origin] = upstream.tip) => r.ok
    <3>1. /\ ValidRepository(again.vendor) /\ OldRepository(again.vendor)
          /\ OldCaches(again.cache)
      BY <1>4, <1>7, <1>9, <1>15
    <3>2. /\ OldRepository(r.vendor) /\ r.cache = again.cache
          /\ Clean(again.vendor) => Clean(r.vendor)
          /\ r.ok /\ Pinned(m) => r.vendor.head = m.at
          /\ r.ok /\ m.kind = "none" => r.vendor.head >= again.cache[r.vendor.origin]
          /\ (/\ Published(m) /\ upstream.tags \subseteq 1 .. upstream.tip
              /\ again.vendor.head = upstream.tip /\ again.vendor.known = upstream.tip
              /\ again.cache[again.vendor.origin] = upstream.tip) => r.ok
      BY <1>11, <3>1, CheckoutReferenceOfOld
    <3> HIDE DEF r
    <3> QED BY <1>4, <3>2
  <2>2. r \in Worlds
    BY <1>4, <1>9, <1>11, <1>15, CheckoutReferenceIsSound
  <2> HIDE DEF r
  <2>3. w = r
    BY <1>2, <1>15 DEF r
  <2> HIDE DEF w
  <2>4. (/\ online /\ v = new
         /\ upstream.tags \subseteq 1 .. upstream.tip /\ Published(m)) => w.ok
    BY <1>7, <1>10, <1>5, <2>1, <2>3
  <2>5. online /\ w.ok /\ m.kind = "none" /\ w.vendor.origin = key => w.vendor.head = upstream.tip
    <3>1. w.vendor.head \in Int /\ w.vendor.head <= upstream.tip /\ upstream.tip \in Int
      BY <2>2, <2>1, <2>3, UpstreamIsNumbered DEF Worlds, OldRepository
    <3> QED BY <1>7, <2>1, <2>3, <3>1
  <2> QED BY <1>7, <1>9, <1>15, <2>1, <2>3, <2>4, <2>5 DEF w, key, new
<1> QED BY <1>12, <1>13, <1>14, <1>15

LEMMA LatestTagOfOld ==
  ASSUME RemoteOK, NEW c \in CacheStates, c <= upstream.tip, NEW force \in BOOLEAN
  PROVE  LET found == ResolveLatestTag(c, force)
         IN /\ found.cached <= upstream.tip
            /\ online /\ ValidCache(c) => ValidCache(found.cached)
            /\ found.result = "tag" => found.tag \in upstream.tags
            /\ online => found.result # "error"
            /\ online /\ force /\ upstream.tags # {} =>
                 found.result = "tag" /\ found.tag = Newest(upstream.tags)
<1> DEFINE e == EnsureCached(c, force)
           found == ResolveLatestTag(c, force)
<1>1. e.cached <= upstream.tip /\ (online => e.ok /\ ValidCache(e.cached))
  BY CachedOfOld
<1>2. upstream.tags # {} => Newest(upstream.tags) \in upstream.tags
  BY NewestIsThere DEF RemoteOK
<1>3. TagsIn(c) # {} => Newest(TagsIn(c)) \in upstream.tags
  BY NewestIsThere DEF RemoteOK, TagsIn
<1>4. found = IF ~force /\ TagsIn(c) # {} THEN Found("tag", Newest(TagsIn(c)), c)
              ELSE IF online /\ upstream.tags # {} THEN Found("tag", Newest(upstream.tags), c)
              ELSE Found(IF e.ok THEN "untagged" ELSE "error", NoCommit, e.cached)
  BY DEF ResolveLatestTag
<1>5. \A r, t, d : /\ Found(r, t, d).result = r /\ Found(r, t, d).tag = t
                   /\ Found(r, t, d).cached = d
  BY DEF Found
<1> HIDE DEF e, found
<1>6. CASE ~force /\ TagsIn(c) # {}
  BY <1>3, <1>4, <1>5, <1>6 DEF found
<1>7. CASE ~(~force /\ TagsIn(c) # {}) /\ online /\ upstream.tags # {}
  BY <1>2, <1>4, <1>5, <1>7 DEF found
<1>8. CASE ~(~force /\ TagsIn(c) # {}) /\ ~(online /\ upstream.tags # {})
  BY <1>1, <1>4, <1>5, <1>8 DEF found
<1> QED BY <1>6, <1>7, <1>8

LEMMA RefreshGraphOfOld ==
  ASSUME RemoteOK, cache \in Caches, OldCaches(cache), NEW m \in Metas, NEW force \in BOOLEAN
  PROVE  LET e == RefreshGraph(m, force)
         IN /\ e.cached <= upstream.tip
            /\ e.ok => ValidCache(e.cached)
<1> DEFINE c == EnsureCached(cache[CacheKey(m)], force)
<1>1. cache[CacheKey(m)] \in CacheStates /\ cache[CacheKey(m)] <= upstream.tip
  BY ReferencesAreTyped DEF Caches, OldCaches
<1>2. c.cached <= upstream.tip /\ (c.ok => ValidCache(c.cached))
  BY <1>1, CachedOfOld
<1>3. /\ RefreshGraph(m, force).cached = c.cached
      /\ RefreshGraph(m, force).ok => c.ok
  BY DEF RefreshGraph, EnsureCached
<1> HIDE DEF c
<1> QED BY <1>2, <1>3

--------------------------------------------------------------------------------
(* What was asked for: the inductive invariant.                            *)

(* Nothing is newer than upstream: no copy, no tag, no entry of a lock.    *)
OldEntry(e) == e # NoEntry => e.commit \in 1 .. upstream.tip
NothingIsNewer ==
  /\ upstream.tags \subseteq 1 .. upstream.tip
  /\ OldCaches(cache) /\ OldRepository(vendor) /\ OldEntry(lock) /\ OldEntry(disk.entry)

RequestIsGiven == request \in Requests \cup {NoRequest}
SteadyIsOnline == steady => online

(* The stages between the load of the lock and the end of the attempts.    *)
Prepared == pc \in {"rewrite", "refresh", "resolve"} \cup InstallStages

(* The entry in memory is the one of pawn.lock until one is recorded, and  *)
(* an attempt that records one fails only without a network.               *)
LockIsFresh == steady /\ Prepared => lock = IF LockCleared THEN NoEntry ELSE disk.entry

(* The load of the package has left a usable copy of what it declares.     *)
CacheIsThere == steady /\ Prepared => ValidCache(cache[CacheKey(constraint)])

ChosenMeta == IF ShouldForce(constraint) THEN constraint ELSE GetLockedVersion(lock, constraint)

(* What is installed is what was chosen, or what the newest tag was then.  *)
MetaIsChosen ==
  pc \in InstallStages =>
    IF ChosenMeta.kind # "latest" THEN meta = ChosenMeta
    ELSE meta = Unpinned \/ (meta.kind = "tag" /\ meta.at \in upstream.tags)

NewestIsChosen ==
  pc \in InstallStages /\ steady /\ request.update /\ IsDynamic(constraint) =>
    IF upstream.tags = {} THEN meta.kind = "none" ELSE meta = AtTag(Newest(upstream.tags))

(* A reference is left without a version only if there is no tag.          *)
LatestIsWritten ==
  (/\ pc \in {"refresh", "resolve"} \cup InstallStages
   /\ steady /\ request.update /\ constraint.kind = "none") => upstream.tags = {}

(* What passed the update is on the commit the reference names.            *)
Installed(v) ==
  /\ Pinned(meta) => v.head = meta.at
  /\ (/\ steady /\ request.update /\ IsDynamic(constraint) /\ meta.kind = "none"
      /\ v.origin = CacheKey(meta)) => v.head = upstream.tip

MetaIsInstalled == pc \in {"verify", "record"} => Installed(vendor)

(* A clone made for the integrity check has no edited file.                *)
RestoredIsClean == round = 2 => pc \in InstallStages /\ Clean(vendor)

(* The last resort is a clone of what upstream has now.                    *)
RecloneIsNew ==
  steady => /\ pc \in {"reclone", "reupdate"} => cache[CacheKey(meta)] = upstream.tip
            /\ pc = "reupdate" => vendor = Clone(upstream.tip, CacheKey(meta))

Asked ==
  /\ NothingIsNewer /\ RequestIsGiven /\ SteadyIsOnline /\ LockIsFresh /\ CacheIsThere
  /\ MetaIsChosen /\ NewestIsChosen /\ LatestIsWritten /\ MetaIsInstalled
  /\ RestoredIsClean /\ RecloneIsNew /\ UpdateInstallsNewest /\ SkippedOnlyForTheLock

AInv == IInv /\ Asked

(* The lock is at odds with what was asked for: SkippedOnlyForTheLock.     *)
Blocked(caches) ==
  /\ disk.entry # NoEntry /\ ~LockCleared
  /\ \/ IsOutdated(disk.entry, constraint) \/ ShouldForce(constraint)
     \/ constraint.kind = "branch" /\ caches["default"] = Broken

LEMMA AskedExits ==
  ASSUME NothingIsNewer', Exit PROVE Asked'
<1>1. /\ pc' = "idle" /\ steady' = FALSE /\ round' = 1 /\ request' = NoRequest
  BY DEF Exit
<1>2. RequestIsGiven' /\ SteadyIsOnline' /\ RestoredIsClean'
  BY <1>1 DEF RequestIsGiven, SteadyIsOnline, RestoredIsClean
<1>3. LockIsFresh' /\ CacheIsThere' /\ NewestIsChosen' /\ LatestIsWritten' /\ RecloneIsNew'
  BY <1>1 DEF LockIsFresh, CacheIsThere, NewestIsChosen, LatestIsWritten, RecloneIsNew
<1>4. MetaIsChosen' /\ MetaIsInstalled'
  BY <1>1 DEF MetaIsChosen, MetaIsInstalled, InstallStages
<1>5. UpdateInstallsNewest' /\ SkippedOnlyForTheLock'
  BY <1>1 DEF UpdateInstallsNewest, SkippedOnlyForTheLock, Ensured, Skipped
<1> QED BY <1>2, <1>3, <1>4, <1>5 DEF Asked

(* An attempt fails because of the lock, or without a network.             *)
LEMMA AskedFails ==
  ASSUME AInv, pc \in {"resolve"} \cup InstallStages, AttemptFails, NothingIsNewer',
         UNCHANGED <<remoteVars, constraint, disk>>, steady => lock' = lock,
         steady => ValidCache(cache'[CacheKey(constraint)]),
         steady /\ Published(constraint) => Blocked(cache')
  PROVE  Asked'
<1>1. /\ pc' \in {"resolve", "runtime"} /\ round' = 1
      /\ pc' = "runtime" => outcome' = "skipped"
      /\ UNCHANGED <<request, original, steady, upstream, online>>
  BY AttemptFailsTo DEF remoteVars
<1>2. /\ RequestIsGiven /\ SteadyIsOnline /\ LockIsFresh /\ LatestIsWritten
  BY DEF AInv, Asked
<1>3. RequestIsGiven' /\ SteadyIsOnline' /\ RestoredIsClean'
  BY <1>1, <1>2 DEF RequestIsGiven, SteadyIsOnline, RestoredIsClean
<1>4. LockIsFresh' /\ CacheIsThere'
  BY <1>1, <1>2 DEF LockIsFresh, CacheIsThere, LockCleared, Prepared
<1>5. MetaIsChosen' /\ MetaIsInstalled' /\ NewestIsChosen' /\ RecloneIsNew'
  BY <1>1 DEF MetaIsChosen, MetaIsInstalled, NewestIsChosen, RecloneIsNew, InstallStages
<1>6. LatestIsWritten'
  BY <1>1, <1>2 DEF LatestIsWritten
<1>7. UpdateInstallsNewest' /\ SkippedOnlyForTheLock'
  BY <1>1 DEF UpdateInstallsNewest, SkippedOnlyForTheLock, Ensured, Skipped, Blocked, Published,
              LockCleared, ShouldForce
<1> QED BY <1>3, <1>4, <1>5, <1>6, <1>7 DEF Asked

(* A stage goes on to another one of the same attempt.                     *)
LEMMA AskedGoesOn ==
  ASSUME AInv, pc \in InstallStages, pc' \in InstallStages, NothingIsNewer',
         UNCHANGED <<remoteVars, constraint, disk, lock, request, original, steady, meta,
                     attempt, outcome>>,
         steady => ValidCache(cache'[CacheKey(constraint)]),
         round' = 2 => Clean(vendor'),
         pc' \in {"verify", "record"} => Installed(vendor'),
         steady /\ pc' \in {"reclone", "reupdate"} => cache'[CacheKey(meta)] = upstream.tip,
         steady /\ pc' = "reupdate" => vendor' = Clone(upstream.tip, CacheKey(meta))
  PROVE  Asked'
<1>1. /\ RequestIsGiven /\ SteadyIsOnline /\ LockIsFresh /\ LatestIsWritten
      /\ MetaIsChosen /\ NewestIsChosen
  BY DEF AInv, Asked
<1>2. RequestIsGiven' /\ SteadyIsOnline' /\ RestoredIsClean'
  BY <1>1 DEF RequestIsGiven, SteadyIsOnline, RestoredIsClean, remoteVars, Clean
<1>3. LockIsFresh' /\ CacheIsThere'
  BY <1>1 DEF LockIsFresh, CacheIsThere, LockCleared, Prepared
<1>4. ShouldForce(constraint)' = ShouldForce(constraint) /\ ChosenMeta' = ChosenMeta
  BY DEF ShouldForce, ChosenMeta
<1>5. MetaIsChosen' /\ NewestIsChosen' /\ LatestIsWritten'
  BY <1>1, <1>4 DEF MetaIsChosen, NewestIsChosen, LatestIsWritten, remoteVars
<1>6. MetaIsInstalled'
  BY DEF MetaIsInstalled, Installed, remoteVars
<1>7. RecloneIsNew'
  BY DEF RecloneIsNew, remoteVars
<1>8. UpdateInstallsNewest' /\ SkippedOnlyForTheLock'
  BY DEF UpdateInstallsNewest, SkippedOnlyForTheLock, Ensured, Skipped, InstallStages
<1> QED BY <1>2, <1>3, <1>5, <1>6, <1>7, <1>8 DEF Asked

(* What is known of the reference being installed.                         *)
LEMMA MetaOfAttempt ==
  ASSUME AInv, pc \in InstallStages, steady
  PROVE  /\ \/ CacheKey(meta) = CacheKey(constraint)
            \/ /\ constraint.kind = "branch" /\ CacheKey(meta) = "default"
               /\ disk.entry # NoEntry /\ ~LockCleared
         /\ Published(constraint) => Published(meta)
         /\ \/ meta = AtCommit(lock.commit)
            \/ lock = NoEntry \/ IsOutdated(lock, constraint) \/ ShouldForce(constraint)
<1>1. MetaIsChosen /\ NothingIsNewer /\ lock = IF LockCleared THEN NoEntry ELSE disk.entry
  BY DEF AInv, Asked, LockIsFresh, Prepared
<1>2. CASE ShouldForce(constraint)
  BY <1>1, <1>2 DEF MetaIsChosen, ChosenMeta, CacheKey, Published, Unpinned
<1>3. CASE ~ShouldForce(constraint) /\ IsOutdated(lock, constraint)
  BY <1>1, <1>3 DEF MetaIsChosen, ChosenMeta, GetLockedVersion, CacheKey, Published, Unpinned
<1>4. CASE ~ShouldForce(constraint) /\ ~IsOutdated(lock, constraint)
  <2>1. meta = AtCommit(lock.commit)
    BY <1>1, <1>4 DEF MetaIsChosen, ChosenMeta, GetLockedVersion, AtCommit
  <2>2. lock # NoEntry /\ lock.commit \in 1 .. upstream.tip
    BY <1>1, <1>4 DEF IsOutdated, NothingIsNewer, OldEntry
  <2>3. disk.entry # NoEntry /\ ~LockCleared
    BY <1>1, <2>2
  <2> QED BY <2>1, <2>2, <2>3 DEF AtCommit, CacheKey, Published
<1> QED BY <1>2, <1>3, <1>4

LEMMA AskedFacts ==
  ASSUME AInv
  PROVE  /\ RemoteOK /\ FilesOK /\ CommandOK /\ pc \in Stages
         /\ cache \in Caches /\ OldCaches(cache) /\ vendor \in GoodRepositories
         /\ OldRepository(vendor) /\ upstream.tags \subseteq 1 .. upstream.tip
         /\ OldEntry(lock) /\ OldEntry(disk.entry)
         /\ constraint \in Metas /\ meta \in Metas
         /\ CacheKey(meta) \in CacheKeys /\ CacheKey(constraint) \in CacheKeys
         /\ ShouldForce(constraint) \in BOOLEAN /\ (steady => online)
         /\ steady /\ Prepared => ValidCache(cache[CacheKey(constraint)])
BY InvariantIsTyped, ReferencesAreTyped
   DEF AInv, Asked, FilesOK, CommandOK, NothingIsNewer, SteadyIsOnline, CacheIsThere

LEMMA NothingNewer ==
  ASSUME AInv, OldCaches(cache'), OldRepository(vendor'), UNCHANGED <<remoteVars, disk, lock>>
  PROVE  NothingIsNewer'
BY AskedFacts DEF NothingIsNewer, OldCaches, OldRepository, OldEntry, remoteVars

(* The stages that clone again: they fail for a broken cached copy only.   *)
LEMMA RecloneOfAttempt ==
  ASSUME AInv, pc \in InstallStages
  PROVE  LET w == RecloneDependency(cache, CacheKey(meta))
         IN /\ OldRepository(w.vendor) /\ OldCaches(w.cache) /\ Clean(w.vendor)
            /\ steady => ValidCache(w.cache[CacheKey(constraint)])
            /\ steady /\ ValidCache(cache[CacheKey(meta)]) =>
                 w.ok /\ w.cache = cache /\ w.vendor = Clone(cache[CacheKey(meta)], CacheKey(meta))
            /\ steady /\ ~w.ok => Blocked(w.cache)
<1> DEFINE w == RecloneDependency(cache, CacheKey(meta))
<1>1. /\ OldRepository(w.vendor) /\ OldCaches(w.cache) /\ Clean(w.vendor)
      /\ \A k \in CacheKeys : k # CacheKey(meta) => w.cache[k] = cache[k]
      /\ online /\ ValidCache(cache[CacheKey(meta)]) =>
           w.ok /\ w.cache = cache /\ w.vendor = Clone(cache[CacheKey(meta)], CacheKey(meta))
      /\ online /\ ~w.ok => /\ cache[CacheKey(meta)] = Broken
                            /\ w.cache[CacheKey(meta)] = Broken
  BY AskedFacts, RecloneOfOld
<1>2. steady => online /\ ValidCache(cache[CacheKey(constraint)])
  BY AskedFacts DEF Prepared
<1>3. ~ValidCache(Broken)
  BY CommitsAreNumbers DEF ValidCache
<1> HIDE DEF w
<1>4. steady => ValidCache(w.cache[CacheKey(constraint)])
  BY <1>1, <1>2, AskedFacts
<1>5. steady /\ ~w.ok => Blocked(w.cache)
  <2> SUFFICES ASSUME steady, ~w.ok PROVE Blocked(w.cache)
    OBVIOUS
  <2>1. cache[CacheKey(meta)] = Broken /\ w.cache[CacheKey(meta)] = Broken
    BY <1>1, <1>2
  <2>2. CacheKey(meta) # CacheKey(constraint)
    BY <1>2, <1>3, <2>1
  <2> QED BY <2>1, <2>2, MetaOfAttempt DEF Blocked
<1> QED BY <1>1, <1>2, <1>4, <1>5 DEF w

LEMMA RepositoryAsks ==
  ASSUME AInv, Repository PROVE Asked'
<1> DEFINE w == IF ValidRepository(vendor) THEN World(TRUE, vendor, cache)
                ELSE RecloneDependency(cache, CacheKey(meta))
<1>1. pc = "repository" /\ pc \in InstallStages
  BY DEF Repository, InstallStages
<1>2. /\ OldRepository(w.vendor) /\ OldCaches(w.cache)
      /\ round = 2 => Clean(w.vendor)
      /\ steady => ValidCache(w.cache[CacheKey(constraint)])
      /\ steady /\ ~w.ok => Blocked(w.cache)
  <2>1. CASE ValidRepository(vendor)
    <3>1. w.vendor = vendor /\ w.cache = cache /\ w.ok
      BY <2>1 DEF World
    <3> HIDE DEF w
    <3> QED BY <1>1, <3>1, AskedFacts DEF AInv, Asked, RestoredIsClean, Prepared
  <2>2. CASE ~ValidRepository(vendor)
    <3>1. w = RecloneDependency(cache, CacheKey(meta))
      BY <2>2
    <3> HIDE DEF w
    <3> QED BY <1>1, <3>1, RecloneOfAttempt
  <2> QED BY <2>1, <2>2
<1>3. /\ vendor' = w.vendor /\ cache' = w.cache
      /\ UNCHANGED <<remoteVars, constraint, disk, lock>>
      /\ IF w.ok THEN Move("update") ELSE AttemptFails
  BY DEF Repository, Perform
<1> HIDE DEF w
<1>4. NothingIsNewer'
  BY <1>2, <1>3, NothingNewer DEF OldCaches, OldRepository, remoteVars
<1>5. CASE w.ok
  BY <1>1, <1>2, <1>3, <1>4, <1>5, AskedGoesOn
     DEF Move, Goto, Keeping, InstallStages, Clean
<1>6. CASE ~w.ok
  BY <1>1, <1>2, <1>3, <1>4, <1>6, AskedFails
<1> QED BY <1>5, <1>6

LEMMA RecloneAsks ==
  ASSUME AInv, Reclone PROVE Asked'
<1> DEFINE w == RecloneDependency(cache, CacheKey(meta))
<1>1. pc = "reclone" /\ pc \in InstallStages
  BY DEF Reclone, InstallStages
<1>2. /\ OldRepository(w.vendor) /\ OldCaches(w.cache) /\ Clean(w.vendor)
      /\ steady => ValidCache(w.cache[CacheKey(constraint)])
      /\ steady => /\ w.ok /\ w.cache[CacheKey(meta)] = upstream.tip
                   /\ w.vendor = Clone(upstream.tip, CacheKey(meta))
  <2>1. steady => cache[CacheKey(meta)] = upstream.tip /\ ValidCache(upstream.tip)
    BY <1>1, AskedFacts, UpstreamIsNumbered DEF AInv, Asked, RecloneIsNew, ValidCache
  <2> HIDE DEF w
  <2> QED BY <1>1, <2>1, RecloneOfAttempt DEF w
<1>3. /\ vendor' = w.vendor /\ cache' = w.cache
      /\ UNCHANGED <<remoteVars, constraint, disk, lock>>
      /\ IF w.ok THEN Move("reupdate") ELSE AttemptFails
  BY DEF Reclone, Perform
<1> HIDE DEF w
<1>4. NothingIsNewer'
  BY <1>2, <1>3, NothingNewer DEF OldCaches, OldRepository, remoteVars
<1>5. CASE w.ok
  BY <1>1, <1>2, <1>3, <1>4, <1>5, AskedGoesOn
     DEF Move, Goto, Keeping, InstallStages, Clean
<1>6. CASE ~w.ok
  BY <1>1, <1>2, <1>3, <1>4, <1>6, AskedFails
<1> QED BY <1>5, <1>6

LEMMA RestoreAsks ==
  ASSUME AInv, Restore PROVE Asked'
<1> DEFINE w == RecloneDependency(cache, CacheKey(meta))
<1>1. pc = "restore" /\ pc \in InstallStages
  BY DEF Restore, InstallStages
<1>2. /\ OldRepository(w.vendor) /\ OldCaches(w.cache) /\ Clean(w.vendor)
      /\ steady => ValidCache(w.cache[CacheKey(constraint)])
      /\ steady /\ ~w.ok => Blocked(w.cache)
  BY <1>1, RecloneOfAttempt
<1>3. /\ vendor' = w.vendor /\ cache' = w.cache
      /\ UNCHANGED <<remoteVars, constraint, disk, lock>>
      /\ IF w.ok THEN Goto("update") /\ round' = 2 /\ UNCHANGED <<meta, attempt, outcome>>
                 ELSE AttemptFails
  BY DEF Restore, Perform
<1> HIDE DEF w
<1>4. NothingIsNewer'
  BY <1>2, <1>3, NothingNewer DEF OldCaches, OldRepository, remoteVars
<1>5. CASE w.ok
  BY <1>1, <1>2, <1>3, <1>4, <1>5, AskedGoesOn DEF Goto, InstallStages, Clean
<1>6. CASE ~w.ok
  BY <1>1, <1>2, <1>3, <1>4, <1>6, AskedFails
<1> QED BY <1>5, <1>6

(* The stages that update what is there.                                   *)
LEMMA UpdateOfAttempt ==
  ASSUME AInv, pc \in InstallStages, NEW v \in GoodRepositories, OldRepository(v),
         NEW force \in BOOLEAN, force \/ ValidRepository(v),
         ShouldForce(constraint) => force
  PROVE  LET w == UpdateRepoState(v, meta, force)
         IN /\ OldRepository(w.vendor) /\ OldCaches(w.cache) /\ (Clean(v) => Clean(w.vendor))
            /\ steady => ValidCache(w.cache[CacheKey(constraint)])
            /\ steady /\ force => w.cache[CacheKey(meta)] = upstream.tip
            /\ w.ok => Installed(w.vendor)
            /\ (/\ steady /\ v = Clone(upstream.tip, CacheKey(meta))
                /\ cache[CacheKey(meta)] = upstream.tip /\ Published(meta)) => w.ok
<1> DEFINE w == UpdateRepoState(v, meta, force)
           key == CacheKey(meta)
<1>1. /\ OldRepository(w.vendor) /\ OldCaches(w.cache)
      /\ Clean(v) => Clean(w.vendor)
      /\ \A k \in CacheKeys : k # key => w.cache[k] = cache[k]
      /\ online /\ ValidCache(cache[key]) => ValidCache(w.cache[key])
      /\ online /\ force => w.cache[key] = upstream.tip
      /\ w.ok /\ Pinned(meta) => w.vendor.head = meta.at
      /\ online /\ force /\ w.ok /\ meta.kind = "none" /\ w.vendor.origin = key =>
           w.vendor.head = upstream.tip
      /\ (/\ online /\ v = Clone(upstream.tip, key) /\ cache[key] = upstream.tip
          /\ upstream.tags \subseteq 1 .. upstream.tip /\ Published(meta)) => w.ok
  BY AskedFacts, UpdateRepoStateOfOld
<1>2. steady => online /\ ValidCache(cache[CacheKey(constraint)])
  BY AskedFacts DEF Prepared
<1>3. steady /\ request.update /\ IsDynamic(constraint) => force
  BY DEF ShouldForce
<1> HIDE DEF w
<1>4. steady => ValidCache(w.cache[CacheKey(constraint)])
  BY <1>1, <1>2, AskedFacts
<1>5. w.ok => Installed(w.vendor)
  BY <1>1, <1>2, <1>3 DEF Installed
<1> QED BY <1>1, <1>2, <1>4, <1>5, AskedFacts DEF w

LEMMA UpdateAsks ==
  ASSUME AInv, Update PROVE Asked'
<1> DEFINE w == UpdateRepoState(vendor, meta, ShouldForce(constraint))
<1>1. pc = "update" /\ pc \in InstallStages
  BY DEF Update, InstallStages
<1>2. /\ OldRepository(w.vendor) /\ OldCaches(w.cache) /\ (Clean(vendor) => Clean(w.vendor))
      /\ steady => ValidCache(w.cache[CacheKey(constraint)])
      /\ w.ok => Installed(w.vendor)
  <2>1. ValidRepository(vendor)
    BY <1>1 DEF AInv, IInv, WorkingCopyIsValid
  <2> QED BY <1>1, <2>1, AskedFacts, UpdateOfAttempt
<1>3. /\ vendor' = w.vendor /\ cache' = w.cache
      /\ UNCHANGED <<remoteVars, constraint, disk, lock>>
      /\ IF w.ok THEN Move("verify") ELSE Move("repair")
  BY DEF Update, Perform
<1> HIDE DEF w
<1>4. NothingIsNewer'
  BY <1>2, <1>3, NothingNewer DEF OldCaches, OldRepository, remoteVars
<1>5. round = 2 => Clean(w.vendor)
  BY <1>2 DEF AInv, Asked, RestoredIsClean
<1>6. /\ UNCHANGED <<request, original, steady, meta, attempt, outcome, round>>
      /\ pc' \in InstallStages /\ pc' \in {"verify", "repair"}
      /\ pc' = "verify" => w.ok
  BY <1>3 DEF Move, Goto, Keeping, InstallStages
<1> QED BY <1>1, <1>2, <1>3, <1>4, <1>5, <1>6, AskedGoesOn DEF Clean, Installed

LEMMA RepairAsks ==
  ASSUME AInv, Repair PROVE Asked'
<1> DEFINE w == IF ValidRepository(vendor)
                THEN UpdateRepoState(RepairRepository(vendor), meta, TRUE)
                ELSE World(FALSE, vendor, cache)
<1>1. pc = "repair" /\ pc \in InstallStages
  BY DEF Repair, InstallStages
<1>2. /\ OldRepository(w.vendor) /\ OldCaches(w.cache) /\ (Clean(vendor) => Clean(w.vendor))
      /\ steady => ValidCache(w.cache[CacheKey(constraint)])
      /\ w.ok => Installed(w.vendor)
  <2>1. CASE ValidRepository(vendor)
    <3>1. /\ RepairRepository(vendor) \in GoodRepositories
          /\ OldRepository(RepairRepository(vendor)) /\ Clean(RepairRepository(vendor))
      BY AskedFacts, RepairIsSound, OthersAreOld
    <3>2. ASSUME NEW force \in BOOLEAN, force
          PROVE  LET u == UpdateRepoState(RepairRepository(vendor), meta, force)
                 IN /\ OldRepository(u.vendor) /\ OldCaches(u.cache) /\ Clean(u.vendor)
                    /\ steady => ValidCache(u.cache[CacheKey(constraint)])
                    /\ u.ok => Installed(u.vendor)
      BY <1>1, <3>1, <3>2, UpdateOfAttempt
    <3>3. w = UpdateRepoState(RepairRepository(vendor), meta, TRUE)
      BY <2>1
    <3> HIDE DEF w
    <3> QED BY <3>2, <3>3
  <2>2. CASE ~ValidRepository(vendor)
    <3>1. w.vendor = vendor /\ w.cache = cache /\ w.ok = FALSE
      BY <2>2 DEF World
    <3> HIDE DEF w
    <3> QED BY <1>1, <3>1, AskedFacts DEF Prepared
  <2> QED BY <2>1, <2>2
<1>3. /\ vendor' = w.vendor /\ cache' = w.cache
      /\ UNCHANGED <<remoteVars, constraint, disk, lock>>
      /\ IF w.ok THEN Move("verify") ELSE Move("force")
  BY DEF Repair, Perform
<1> HIDE DEF w
<1>4. NothingIsNewer'
  BY <1>2, <1>3, NothingNewer DEF OldCaches, OldRepository, remoteVars
<1>5. round = 2 => Clean(w.vendor)
  BY <1>2 DEF AInv, Asked, RestoredIsClean
<1>6. /\ UNCHANGED <<request, original, steady, meta, attempt, outcome, round>>
      /\ pc' \in InstallStages /\ pc' \in {"verify", "force"}
      /\ pc' = "verify" => w.ok
  BY <1>3 DEF Move, Goto, Keeping, InstallStages
<1> QED BY <1>1, <1>2, <1>3, <1>4, <1>5, <1>6, AskedGoesOn DEF Clean, Installed

LEMMA ForceAsks ==
  ASSUME AInv, ForceUpdate PROVE Asked'
<1> DEFINE w == UpdateRepoState(vendor, meta, TRUE)
<1>1. pc = "force" /\ pc \in InstallStages
  BY DEF ForceUpdate, InstallStages
<1>2. /\ OldRepository(w.vendor) /\ OldCaches(w.cache) /\ (Clean(vendor) => Clean(w.vendor))
      /\ steady => ValidCache(w.cache[CacheKey(constraint)])
      /\ steady => w.cache[CacheKey(meta)] = upstream.tip
      /\ w.ok => Installed(w.vendor)
  <2>1. ASSUME NEW force \in BOOLEAN, force
        PROVE  LET u == UpdateRepoState(vendor, meta, force)
               IN /\ OldRepository(u.vendor) /\ OldCaches(u.cache)
                  /\ Clean(vendor) => Clean(u.vendor)
                  /\ steady => ValidCache(u.cache[CacheKey(constraint)])
                  /\ steady => u.cache[CacheKey(meta)] = upstream.tip
                  /\ u.ok => Installed(u.vendor)
    BY <1>1, <2>1, AskedFacts, UpdateOfAttempt
  <2> QED BY <2>1
<1>3. /\ vendor' = w.vendor /\ cache' = w.cache
      /\ UNCHANGED <<remoteVars, constraint, disk, lock>>
      /\ IF w.ok THEN Move("verify") ELSE Move("reclone")
  BY DEF ForceUpdate, Perform
<1> HIDE DEF w
<1>4. NothingIsNewer'
  BY <1>2, <1>3, NothingNewer DEF OldCaches, OldRepository, remoteVars
<1>5. round = 2 => Clean(w.vendor)
  BY <1>2 DEF AInv, Asked, RestoredIsClean
<1>6. /\ UNCHANGED <<request, original, steady, meta, attempt, outcome, round>>
      /\ pc' \in InstallStages /\ pc' \in {"verify", "reclone"}
      /\ pc' = "verify" => w.ok
  BY <1>3 DEF Move, Goto, Keeping, InstallStages
<1> QED BY <1>1, <1>2, <1>3, <1>4, <1>5, <1>6, AskedGoesOn DEF Clean, Installed

LEMMA ReupdateAsks ==
  ASSUME AInv, Reupdate PROVE Asked'
<1> DEFINE w == UpdateRepoState(vendor, meta, ShouldForce(constraint))
<1>1. pc = "reupdate" /\ pc \in InstallStages
  BY DEF Reupdate, InstallStages
<1>2. /\ OldRepository(w.vendor) /\ OldCaches(w.cache) /\ (Clean(vendor) => Clean(w.vendor))
      /\ steady => ValidCache(w.cache[CacheKey(constraint)])
      /\ w.ok => Installed(w.vendor)
      /\ steady /\ Published(constraint) => w.ok
  <2>1. ValidRepository(vendor)
    BY <1>1 DEF AInv, IInv, WorkingCopyIsValid
  <2>2. /\ OldRepository(w.vendor) /\ OldCaches(w.cache) /\ (Clean(vendor) => Clean(w.vendor))
        /\ steady => ValidCache(w.cache[CacheKey(constraint)])
        /\ w.ok => Installed(w.vendor)
        /\ (/\ steady /\ vendor = Clone(upstream.tip, CacheKey(meta))
            /\ cache[CacheKey(meta)] = upstream.tip /\ Published(meta)) => w.ok
    BY <1>1, <2>1, AskedFacts, UpdateOfAttempt
  <2>3. steady => /\ vendor = Clone(upstream.tip, CacheKey(meta))
                  /\ cache[CacheKey(meta)] = upstream.tip
    BY <1>1 DEF AInv, Asked, RecloneIsNew
  <2>4. steady /\ Published(constraint) => Published(meta)
    BY <1>1, MetaOfAttempt
  <2> HIDE DEF w
  <2> QED BY <2>2, <2>3, <2>4
<1>3. /\ vendor' = w.vendor /\ cache' = w.cache
      /\ UNCHANGED <<remoteVars, constraint, disk, lock>>
      /\ IF w.ok THEN Move("verify") ELSE AttemptFails
  BY DEF Reupdate, Perform
<1> HIDE DEF w
<1>4. NothingIsNewer'
  BY <1>2, <1>3, NothingNewer DEF OldCaches, OldRepository, remoteVars
<1>5. round = 2 => Clean(w.vendor)
  BY <1>2 DEF AInv, Asked, RestoredIsClean
<1>6. CASE w.ok
  BY <1>1, <1>2, <1>3, <1>4, <1>5, <1>6, AskedGoesOn
     DEF Move, Goto, Keeping, InstallStages, Clean, Installed
<1>7. CASE ~w.ok
  BY <1>1, <1>2, <1>3, <1>4, <1>7, AskedFails
<1> QED BY <1>6, <1>7

(* The second mismatch is with an entry that did not choose the version.   *)
LEMMA VerifyAsks ==
  ASSUME AInv, Verify PROVE Asked'
<1>1. pc = "verify" /\ pc \in InstallStages
  BY DEF Verify, InstallStages
<1>2. /\ UNCHANGED <<vendor, cache, remoteVars, constraint, disk, lock>>
      /\ \/ Move("record")
         \/ Move("restore")
         \/ ~VerifyIntegrity(lock, vendor) /\ round # 1 /\ AttemptFails
  <2>1. VerifyIntegrity(lock, vendor) \in BOOLEAN
    BY DEF VerifyIntegrity, ValidRepository
  <2>2. \A b \in BOOLEAN : /\ World(b, vendor, cache).ok = b
                           /\ World(b, vendor, cache).vendor = vendor
                           /\ World(b, vendor, cache).cache = cache
    BY DEF World
  <2>3. LET w == World(VerifyIntegrity(lock, vendor), vendor, cache)
        IN /\ vendor' = w.vendor /\ cache' = w.cache
           /\ IF w.ok THEN Move("record") ELSE IF round = 1 THEN Move("restore") ELSE AttemptFails
           /\ UNCHANGED <<remoteVars, constraint, disk, lock>>
    BY DEF Verify, Perform
  <2> QED BY <2>1, <2>2, <2>3
<1>3. NothingIsNewer'
  BY <1>2, AskedFacts, NothingNewer DEF OldCaches, OldRepository, remoteVars
<1>4. /\ ValidRepository(vendor) /\ Installed(vendor) /\ (round = 2 => Clean(vendor))
      /\ steady => ValidCache(cache[CacheKey(constraint)])
  BY <1>1, AskedFacts
     DEF AInv, IInv, WorkingCopyIsValid, Asked, MetaIsInstalled, RestoredIsClean, Prepared
<1>5. CASE Move("record") \/ Move("restore")
  <2>1. /\ UNCHANGED <<request, original, steady, meta, attempt, outcome, round>>
        /\ pc' \in InstallStages /\ pc' \in {"record", "restore"}
    BY <1>5 DEF Move, Goto, Keeping, InstallStages
  <2> QED BY <1>1, <1>2, <1>3, <1>4, <2>1, AskedGoesOn DEF Clean, Installed
<1>6. CASE ~VerifyIntegrity(lock, vendor) /\ round # 1 /\ AttemptFails
  <2>1. round = 2
    BY <1>6, AskedFacts DEF CommandOK
  <2>2. lock # NoEntry /\ vendor.head # lock.commit
    BY <1>4, <1>6, <2>1 DEF VerifyIntegrity, Clean
  <2>3. meta # AtCommit(lock.commit)
    BY <1>4, <2>2 DEF Installed, Pinned, AtCommit
  <2>4. steady => Blocked(cache')
    <3> SUFFICES ASSUME steady PROVE Blocked(cache')
      OBVIOUS
    <3>1. lock = IF LockCleared THEN NoEntry ELSE disk.entry
      BY <1>1 DEF AInv, Asked, LockIsFresh, Prepared
    <3>2. IsOutdated(lock, constraint) \/ ShouldForce(constraint)
      BY <1>1, <2>2, <2>3, MetaOfAttempt
    <3> QED BY <2>2, <3>1, <3>2 DEF Blocked
  <2> QED BY <1>1, <1>2, <1>3, <1>4, <1>6, <2>4, AskedFails
<1> QED BY <1>2, <1>5, <1>6

LEMMA RecordAsks ==
  ASSUME AInv, Record PROVE Asked'
<1>1. /\ pc = "record" /\ pc \in InstallStages /\ UNCHANGED <<remoteVars, filesVars>>
      /\ lock' = RecordResolution(lock, constraint, vendor.head)
  BY DEF Record, InstallStages
<1>2. ValidRepository(vendor) /\ vendor.head \in 1 .. upstream.tip /\ Installed(vendor)
  <2>1. ValidRepository(vendor) /\ Installed(vendor)
    BY <1>1 DEF AInv, IInv, WorkingCopyIsValid, Asked, MetaIsInstalled
  <2>2. vendor.head \in Commits /\ vendor.head <= upstream.tip
    BY <2>1, AskedFacts DEF GoodRepositories, OldRepository
  <2> QED BY <2>1, <2>2, AskedFacts, UpstreamIsNumbered DEF Commits
<1>3. NothingIsNewer'
  <2>1. lock'.commit \in 1 .. upstream.tip
    BY <1>1, <1>2, AskedFacts DEF RecordResolution, OldEntry
  <2> QED BY <1>1, <2>1, AskedFacts
          DEF NothingIsNewer, OldCaches, OldRepository, OldEntry, remoteVars, filesVars
<1>4. CASE AttemptEnds("runtime", 1, "ensured")
  <2>1. /\ pc' = "runtime" /\ outcome' = "ensured" /\ round' = 1
        /\ UNCHANGED <<request, original, steady, upstream, online, constraint, vendor>>
    BY <1>1, <1>4 DEF AttemptEnds, Goto, remoteVars, filesVars
  <2>2. RequestIsGiven' /\ SteadyIsOnline' /\ RestoredIsClean'
    BY <2>1 DEF AInv, Asked, RequestIsGiven, SteadyIsOnline, RestoredIsClean
  <2>3. /\ LockIsFresh' /\ CacheIsThere' /\ MetaIsChosen' /\ NewestIsChosen' /\ LatestIsWritten'
        /\ MetaIsInstalled' /\ RecloneIsNew'
    BY <2>1 DEF LockIsFresh, CacheIsThere, Prepared, MetaIsChosen, NewestIsChosen,
                LatestIsWritten, MetaIsInstalled, RecloneIsNew, InstallStages
  <2>4. UpdateInstallsNewest'
    <3> SUFFICES ASSUME steady, request.update, IsDynamic(constraint),
                        vendor.origin = CacheKey(constraint)
                 PROVE  vendor.head = IF upstream.tags = {} THEN upstream.tip
                                      ELSE Newest(upstream.tags)
      BY <2>1 DEF UpdateInstallsNewest, Ensured
    <3>1. IF upstream.tags = {} THEN meta.kind = "none" ELSE meta = AtTag(Newest(upstream.tags))
      BY <1>1 DEF AInv, Asked, NewestIsChosen
    <3>2. CASE upstream.tags = {}
      <4>1. meta.kind = "none" /\ CacheKey(meta) = CacheKey(constraint)
        BY <3>1, <3>2 DEF CacheKey, IsDynamic
      <4> QED BY <1>2, <3>2, <4>1 DEF Installed
    <3>3. CASE upstream.tags # {}
      BY <1>2, <3>1, <3>3 DEF Installed, Pinned, AtTag
    <3> QED BY <3>2, <3>3
  <2>5. SkippedOnlyForTheLock'
    BY <2>1 DEF SkippedOnlyForTheLock, Skipped
  <2> QED BY <1>3, <2>2, <2>3, <2>4, <2>5 DEF Asked
<1>5. CASE ~online /\ AttemptFails
  BY <1>1, <1>3, <1>5, AskedFacts, AskedFails DEF filesVars
<1> QED BY <1>4, <1>5 DEF Record

--------------------------------------------------------------------------------
(* The stages before the installation and after it.                        *)

LEMMA StartAsks ==
  ASSUME AInv, NEW r \in Requests, Start(r) PROVE Asked'
<1>1. /\ pc = "idle" /\ pc' = "load" /\ request' = r /\ steady' = online
      /\ UNCHANGED <<upstream, online, cache, vendor, disk, lock, round>>
  BY DEF Start, Keeping, remoteVars, filesVars
<1>2. NothingIsNewer' /\ RequestIsGiven' /\ SteadyIsOnline' /\ RestoredIsClean'
  BY <1>1, AskedFacts, NothingNewer
     DEF NothingIsNewer, OldCaches, OldRepository, OldEntry, RequestIsGiven, SteadyIsOnline,
         RestoredIsClean, AInv, Asked, InstallStages
<1>3. /\ LockIsFresh' /\ CacheIsThere' /\ MetaIsChosen' /\ NewestIsChosen' /\ LatestIsWritten'
      /\ MetaIsInstalled' /\ RecloneIsNew' /\ UpdateInstallsNewest' /\ SkippedOnlyForTheLock'
  BY <1>1 DEF LockIsFresh, CacheIsThere, Prepared, MetaIsChosen, NewestIsChosen, LatestIsWritten,
              MetaIsInstalled, RecloneIsNew, UpdateInstallsNewest, SkippedOnlyForTheLock,
              Ensured, Skipped, InstallStages
<1> QED BY <1>2, <1>3 DEF Asked

LEMMA LoadAsks ==
  ASSUME AInv, Load PROVE Asked'
<1> DEFINE e == RefreshGraph(constraint, FALSE)
<1>1. e.cached <= upstream.tip /\ (e.ok => ValidCache(e.cached))
  <2>1. ASSUME NEW force \in BOOLEAN
        PROVE  LET g == RefreshGraph(constraint, force)
               IN g.cached <= upstream.tip /\ (g.ok => ValidCache(g.cached))
    BY AskedFacts, RefreshGraphOfOld
  <2> QED BY <2>1
<1>2. /\ pc = "load" /\ cache' = [cache EXCEPT ![CacheKey(constraint)] = e.cached]
      /\ IF ~e.ok \/ disk.status = "corrupt" THEN Exit
         ELSE /\ lock' = IF LockCleared THEN NoEntry ELSE disk.entry
              /\ Goto(IF request.lockOnly THEN "relock" ELSE "rewrite")
              /\ UNCHANGED <<meta, attempt, round, outcome>>
      /\ UNCHANGED <<upstream, online, constraint, vendor, disk>>
  BY DEF Load, LockCleared, remoteVars
<1> HIDE DEF e
<1>3. OldCaches(cache)'
  BY <1>1, <1>2, AskedFacts DEF OldCaches, Caches
<1>4. lock' = NoEntry \/ lock' = disk.entry
  BY <1>2 DEF Exit
<1>5. NothingIsNewer'
  BY <1>2, <1>3, <1>4, AskedFacts DEF NothingIsNewer, OldRepository, OldEntry
<1>6. CASE ~e.ok \/ disk.status = "corrupt"
  BY <1>2, <1>5, <1>6, AskedExits
<1>7. CASE ~(~e.ok \/ disk.status = "corrupt")
  <2>1. /\ lock' = IF LockCleared THEN NoEntry ELSE disk.entry
        /\ pc' \in {"relock", "rewrite"}
        /\ UNCHANGED <<request, original, steady, upstream, online, constraint, vendor, disk,
                       meta, attempt, round, outcome>>
        /\ ValidCache(cache'[CacheKey(constraint)])
    BY <1>1, <1>2, <1>7, AskedFacts DEF Goto, Caches
  <2>2. round = 1
    BY <1>2, AskedFacts DEF AInv, Asked, RestoredIsClean, CommandOK, InstallStages
  <2>3. RequestIsGiven' /\ SteadyIsOnline' /\ RestoredIsClean' /\ LockIsFresh' /\ CacheIsThere'
    BY <2>1, <2>2 DEF AInv, Asked, RequestIsGiven, SteadyIsOnline, RestoredIsClean, LockIsFresh,
                      CacheIsThere, LockCleared
  <2>4. /\ MetaIsChosen' /\ NewestIsChosen' /\ LatestIsWritten' /\ MetaIsInstalled'
        /\ RecloneIsNew' /\ UpdateInstallsNewest' /\ SkippedOnlyForTheLock'
    BY <2>1 DEF MetaIsChosen, NewestIsChosen, LatestIsWritten, MetaIsInstalled, RecloneIsNew,
                UpdateInstallsNewest, SkippedOnlyForTheLock, Ensured, Skipped, InstallStages
  <2> QED BY <1>5, <2>3, <2>4 DEF Asked
<1> QED BY <1>6, <1>7

(* From one stage of the preparation to the next.                          *)
LEMMA AskedMoves ==
  ASSUME AInv, pc \in {"rewrite", "refresh"}, NothingIsNewer',
         Move("refresh") \/ Move("resolve"), UNCHANGED <<remoteVars, vendor, disk>>,
         steady => ValidCache(cache'[CacheKey(constraint')]),
         steady /\ request.update /\ constraint'.kind = "none" => upstream.tags = {}
  PROVE  Asked'
<1>1. /\ pc' \in {"refresh", "resolve"}
      /\ UNCHANGED <<request, original, steady, upstream, online, disk, lock, round>>
  BY DEF Move, Goto, Keeping, remoteVars
<1>2. round = 1
  BY AskedFacts DEF AInv, Asked, RestoredIsClean, CommandOK, InstallStages
<1>3. /\ RequestIsGiven' /\ SteadyIsOnline' /\ RestoredIsClean' /\ LockIsFresh' /\ CacheIsThere'
      /\ LatestIsWritten'
  BY <1>1, <1>2 DEF AInv, Asked, RequestIsGiven, SteadyIsOnline, RestoredIsClean, LockIsFresh,
                    CacheIsThere, LockCleared, LatestIsWritten, Prepared
<1>4. /\ MetaIsChosen' /\ NewestIsChosen' /\ MetaIsInstalled'
      /\ RecloneIsNew' /\ UpdateInstallsNewest' /\ SkippedOnlyForTheLock'
  BY <1>1 DEF MetaIsChosen, NewestIsChosen, MetaIsInstalled, RecloneIsNew,
              UpdateInstallsNewest, SkippedOnlyForTheLock, Ensured, Skipped, InstallStages
<1> QED BY <1>3, <1>4 DEF Asked

LEMMA RewriteAsks ==
  ASSUME AInv, Rewrite PROVE Asked'
<1> DEFINE found == ResolveLatestTag(cache["default"], TRUE)
<1>1. /\ found.cached <= upstream.tip
      /\ online /\ ValidCache(cache["default"]) => ValidCache(found.cached)
      /\ online /\ upstream.tags # {} => found.result = "tag"
  <2>1. cache["default"] \in CacheStates /\ cache["default"] <= upstream.tip
    BY AskedFacts, ReferencesAreTyped DEF Caches, OldCaches
  <2>2. ASSUME NEW force \in BOOLEAN, force
        PROVE  LET f == ResolveLatestTag(cache["default"], force)
               IN /\ f.cached <= upstream.tip
                  /\ online /\ ValidCache(cache["default"]) => ValidCache(f.cached)
                  /\ online /\ upstream.tags # {} => f.result = "tag"
    BY <2>1, <2>2, AskedFacts, LatestTagOfOld
  <2> QED BY <2>2
<1>2. steady => online /\ ValidCache(cache[CacheKey(constraint)])
  BY AskedFacts DEF Prepared, Rewrite
<1>3. CASE Rewritable
  <2>1. /\ constraint' = Rewritten(found) /\ cache' = [cache EXCEPT !["default"] = found.cached]
        /\ UNCHANGED <<remoteVars, vendor, disk>> /\ pc = "rewrite"
        /\ Exit \/ Move("refresh")
    BY <1>3 DEF Rewrite
  <2> HIDE DEF found
  <2>2. OldCaches(cache')
    BY <1>1, <2>1, AskedFacts DEF OldCaches, Caches
  <2>3. CASE Exit
    <3>1. NothingIsNewer'
      BY <2>1, <2>2, <2>3, AskedFacts
         DEF NothingIsNewer, OldCaches, OldRepository, OldEntry, Exit, remoteVars
    <3> QED BY <2>3, <3>1, AskedExits
  <2>4. CASE Move("refresh")
    <3>1. NothingIsNewer'
      BY <2>1, <2>2, <2>4, AskedFacts, NothingNewer DEF Move, Keeping, OldRepository
    <3>2. CacheKey(constraint) = "default" /\ CacheKey(constraint') = "default"
      BY <1>3, <2>1 DEF Rewritable, IsPinnedTag, Rewritten, CacheKey, Latest, AtTag
    <3>3. steady => ValidCache(cache'[CacheKey(constraint')])
      BY <1>1, <1>2, <2>1, <3>2, AskedFacts, ReferencesAreTyped DEF Caches
    <3>4. steady /\ request.update /\ constraint'.kind = "none" => upstream.tags = {}
      BY <1>1, <1>2, <2>1 DEF Rewritten, Latest, AtTag
    <3> QED BY <2>1, <2>4, <3>1, <3>3, <3>4, AskedMoves
  <2> QED BY <2>1, <2>3, <2>4
<1>4. CASE ~Rewritable
  <2>1. /\ UNCHANGED <<remoteVars, constraint, cache, vendor, disk>> /\ pc = "rewrite"
        /\ Move("refresh") \/ Move("resolve")
    BY <1>4 DEF Rewrite
  <2>2. NothingIsNewer'
    BY <2>1, AskedFacts, NothingNewer DEF Move, Keeping, OldCaches, OldRepository
  <2>3. ~(request.update /\ constraint.kind = "none")
    BY <1>4 DEF Rewritable
  <2> QED BY <1>2, <2>1, <2>2, <2>3, AskedMoves
<1> QED BY <1>3, <1>4

LEMMA RefreshAsks ==
  ASSUME AInv, Refresh PROVE Asked'
<1> DEFINE e == RefreshGraph(constraint, ShouldForce(constraint))
<1>1. e.cached <= upstream.tip /\ (e.ok => ValidCache(e.cached))
  BY AskedFacts, RefreshGraphOfOld
<1>2. /\ pc = "refresh" /\ cache' = [cache EXCEPT ![CacheKey(constraint)] = e.cached]
      /\ IF e.ok THEN Move("resolve") /\ UNCHANGED constraint
                 ELSE Exit /\ constraint' = original
      /\ UNCHANGED <<remoteVars, vendor, disk>>
  BY DEF Refresh
<1> HIDE DEF e
<1>3. OldCaches(cache')
  BY <1>1, <1>2, AskedFacts DEF OldCaches, Caches
<1>4. CASE e.ok
  <2>1. NothingIsNewer'
    BY <1>2, <1>3, <1>4, AskedFacts, NothingNewer DEF Move, Keeping, OldRepository
  <2>2. ValidCache(cache'[CacheKey(constraint')])
    BY <1>1, <1>2, <1>4, AskedFacts DEF Caches
  <2>3. steady /\ request.update /\ constraint'.kind = "none" => upstream.tags = {}
    BY <1>2, <1>4 DEF AInv, Asked, LatestIsWritten
  <2> QED BY <1>2, <1>4, <2>1, <2>2, <2>3, AskedMoves
<1>5. CASE ~e.ok
  <2>1. NothingIsNewer'
    BY <1>2, <1>3, <1>5, AskedFacts
       DEF NothingIsNewer, OldCaches, OldRepository, OldEntry, Exit, remoteVars
  <2> QED BY <1>2, <1>5, <2>1, AskedExits
<1> QED BY <1>4, <1>5

LEMMA ResolveAsks ==
  ASSUME AInv, Resolve PROVE Asked'
<1> DEFINE force == ShouldForce(constraint)
           found == ResolveLatestTag(cache["default"], force)
<1>1. /\ found.cached <= upstream.tip
      /\ online /\ ValidCache(cache["default"]) => ValidCache(found.cached)
      /\ found.result = "tag" => found.tag \in upstream.tags
      /\ online => found.result # "error"
      /\ online /\ force /\ upstream.tags # {} =>
           found.result = "tag" /\ found.tag = Newest(upstream.tags)
      /\ found.result \in {"tag", "untagged", "error"}
  <2>1. cache["default"] \in CacheStates /\ cache["default"] <= upstream.tip
    BY AskedFacts, ReferencesAreTyped DEF Caches, OldCaches
  <2> QED BY <2>1, AskedFacts, LatestTagOfOld, LatestTagIsSound
<1>2. steady => online /\ ValidCache(cache[CacheKey(constraint)])
  BY AskedFacts DEF Prepared, Resolve
<1>3. /\ pc = "resolve" /\ UNCHANGED <<remoteVars, constraint, vendor, disk, lock>>
      /\ round = 1
  BY AskedFacts DEF Resolve, AInv, Asked, RestoredIsClean, CommandOK, InstallStages
<1>4. \/ /\ meta' = ChosenMeta /\ ChosenMeta.kind # "latest" /\ cache' = cache
         /\ Goto("repository") /\ UNCHANGED <<attempt, round, outcome>>
      \/ /\ ChosenMeta.kind = "latest"
         /\ cache' = [cache EXCEPT !["default"] = found.cached]
         /\ \/ /\ found.result = "tag" /\ meta' = AtTag(found.tag)
               /\ Goto("repository") /\ UNCHANGED <<attempt, round, outcome>>
            \/ /\ found.result = "untagged" /\ meta' = Unpinned
               /\ Goto("repository") /\ UNCHANGED <<attempt, round, outcome>>
            \/ found.result = "error" /\ AttemptFails
  <2>1. CASE ChosenMeta.kind # "latest"
    BY <2>1 DEF Resolve, ChosenMeta
  <2>2. CASE ChosenMeta.kind = "latest"
    <3>1. /\ cache' = [cache EXCEPT !["default"] = found.cached]
          /\ CASE found.result = "tag" ->
                    /\ meta' = AtTag(found.tag) /\ Goto("repository")
                    /\ UNCHANGED <<attempt, round, outcome>>
               [] found.result = "untagged" ->
                    /\ meta' = Unpinned /\ Goto("repository")
                    /\ UNCHANGED <<attempt, round, outcome>>
               [] found.result = "error" -> AttemptFails
      BY <2>2 DEF Resolve, ChosenMeta
    <3> HIDE DEF found
    <3> QED BY <1>1, <2>2, <3>1
  <2> QED BY <2>1, <2>2
<1> HIDE DEF found, force
<1>5. OldCaches(cache') /\ (steady => ValidCache(cache'[CacheKey(constraint)]))
  <2>1. CASE cache' = cache
    BY <1>2, <2>1, AskedFacts
  <2>2. CASE cache' = [cache EXCEPT !["default"] = found.cached]
    <3>1. OldCaches(cache')
      BY <1>1, <2>2, AskedFacts DEF OldCaches, Caches
    <3>2. CASE CacheKey(constraint) = "default"
      BY <1>1, <1>2, <2>2, <3>1, <3>2, AskedFacts, ReferencesAreTyped DEF Caches
    <3>3. CASE CacheKey(constraint) # "default"
      BY <1>2, <2>2, <3>1, <3>3, AskedFacts DEF Caches
    <3> QED BY <3>2, <3>3
  <2> QED BY <1>4, <2>1, <2>2
<1>6. NothingIsNewer'
  BY <1>3, <1>5, AskedFacts, NothingNewer DEF OldRepository
<1>7. CASE AttemptFails /\ found.result = "error"
  <2>1. ~steady
    BY <1>1, <1>2, <1>7
  <2> QED BY <1>3, <1>5, <1>6, <1>7, <2>1, AskedFails
<1>8. CASE /\ Goto("repository") /\ UNCHANGED <<attempt, round, outcome>>
           /\ \/ meta' = ChosenMeta /\ ChosenMeta.kind # "latest"
              \/ /\ ChosenMeta.kind = "latest"
                 /\ \/ found.result = "tag" /\ meta' = AtTag(found.tag)
                    \/ found.result = "untagged" /\ meta' = Unpinned
  <2>1. /\ pc' = "repository"
        /\ UNCHANGED <<request, original, steady, upstream, online, constraint, disk, lock, round>>
    BY <1>3, <1>8 DEF Goto, remoteVars
  <2>2. ChosenMeta' = ChosenMeta
    BY <2>1 DEF ChosenMeta, ShouldForce
  <2>3. /\ RequestIsGiven' /\ SteadyIsOnline' /\ RestoredIsClean' /\ LockIsFresh' /\ CacheIsThere'
        /\ LatestIsWritten'
    BY <1>3, <1>5, <2>1
       DEF AInv, Asked, RequestIsGiven, SteadyIsOnline, RestoredIsClean, LockIsFresh,
           CacheIsThere, LockCleared, LatestIsWritten, Prepared
  <2>4. MetaIsChosen'
    BY <1>1, <1>8, <2>1, <2>2 DEF MetaIsChosen, AtTag
  <2>5. NewestIsChosen'
    <3> SUFFICES ASSUME steady, request.update, IsDynamic(constraint)
                 PROVE  IF upstream.tags = {} THEN meta'.kind = "none"
                        ELSE meta' = AtTag(Newest(upstream.tags))
      BY <2>1 DEF NewestIsChosen
    <3>1. force /\ ChosenMeta = constraint /\ online
      BY <1>2 DEF ChosenMeta, force, ShouldForce
    <3>2. CASE ChosenMeta.kind # "latest"
      <4>1. meta' = constraint /\ constraint.kind = "none"
        BY <1>8, <3>1, <3>2 DEF IsDynamic
      <4>2. upstream.tags = {}
        BY <1>3, <4>1 DEF AInv, Asked, LatestIsWritten
      <4> QED BY <4>1, <4>2
    <3>3. CASE ChosenMeta.kind = "latest"
      BY <1>1, <1>8, <3>1, <3>3 DEF Unpinned
    <3> QED BY <3>2, <3>3
  <2>6. MetaIsInstalled' /\ RecloneIsNew' /\ UpdateInstallsNewest' /\ SkippedOnlyForTheLock'
    BY <2>1 DEF MetaIsInstalled, RecloneIsNew, UpdateInstallsNewest, SkippedOnlyForTheLock,
                Ensured, Skipped
  <2> QED BY <1>6, <2>3, <2>4, <2>5, <2>6 DEF Asked
<1> QED BY <1>4, <1>7, <1>8

LEMMA RuntimeAsks ==
  ASSUME AInv, Runtime PROVE Asked'
<1>1. /\ pc = "runtime" /\ UNCHANGED <<upstream, online, constraint, cache, vendor>>
      /\ \/ disk' = Saved(lock) /\ Move("finish")
         \/ Exit /\ disk' = disk
  BY DEF Runtime, remoteVars
<1>2. lock' = lock \/ lock' = NoEntry
  BY <1>1 DEF Exit, Move, Keeping
<1>3. disk'.entry = lock \/ disk' = disk
  BY <1>1 DEF Saved
<1>4. NothingIsNewer'
  BY <1>1, <1>2, <1>3, AskedFacts DEF NothingIsNewer, OldCaches, OldRepository, OldEntry
<1>5. CASE Exit
  BY <1>4, <1>5, AskedExits
<1>6. CASE Move("finish")
  <2>1. /\ pc' = "finish" /\ UNCHANGED <<request, steady, round>>
    BY <1>6 DEF Move, Goto, Keeping
  <2>2. RequestIsGiven' /\ SteadyIsOnline' /\ RestoredIsClean'
    BY <1>1, <2>1, AskedFacts
       DEF AInv, Asked, RequestIsGiven, SteadyIsOnline, RestoredIsClean, CommandOK, InstallStages
  <2>3. /\ LockIsFresh' /\ CacheIsThere' /\ MetaIsChosen' /\ NewestIsChosen' /\ LatestIsWritten'
        /\ MetaIsInstalled' /\ RecloneIsNew' /\ UpdateInstallsNewest' /\ SkippedOnlyForTheLock'
    BY <2>1 DEF LockIsFresh, CacheIsThere, Prepared, MetaIsChosen, NewestIsChosen,
                LatestIsWritten, MetaIsInstalled, RecloneIsNew, UpdateInstallsNewest,
                SkippedOnlyForTheLock, Ensured, Skipped, InstallStages
  <2> QED BY <1>4, <2>2, <2>3 DEF Asked
<1> QED BY <1>1, <1>5, <1>6

LEMMA FinishAsks ==
  ASSUME AInv, Finish PROVE Asked'
<1>1. /\ Exit /\ disk'.entry = lock /\ lock' = NoEntry
      /\ UNCHANGED <<upstream, online, constraint, cache, vendor>>
  BY DEF Finish, Exit, Saved, remoteVars
<1>2. NothingIsNewer'
  BY <1>1, AskedFacts DEF NothingIsNewer, OldCaches, OldRepository, OldEntry
<1> QED BY <1>1, <1>2, AskedExits

LEMMA RelockAsks ==
  ASSUME AInv, Relock PROVE Asked'
<1> DEFINE force   == ShouldForce(constraint)
           graph   == RefreshGraph(constraint, force)
           chosen  == IF force THEN constraint ELSE GetLockedVersion(lock, constraint)
           key     == CacheKey(chosen)
           c       == IF key = CacheKey(constraint) THEN graph.cached ELSE cache[key]
           asksTag == chosen.kind = "latest" \/ (force /\ IsPinnedTag(constraint))
           found   == ResolveLatestTag(c, force)
           d       == IF asksTag \/ chosen.kind = "none" THEN found.cached ELSE c
           cached  == EnsureCached(d, force)
           ok      == graph.ok /\ (asksTag => found.result # "error") /\ cached.ok
<1>1. force \in BOOLEAN /\ key \in CacheKeys
  BY AskedFacts, ReferencesAreTyped DEF FilesOK, CommandOK
<1>2. graph.cached \in CacheStates /\ graph.cached <= upstream.tip
  BY <1>1, AskedFacts, RefreshGraphIsSound, RefreshGraphOfOld DEF Caches
<1>3. c \in CacheStates /\ c <= upstream.tip
  BY <1>1, <1>2, AskedFacts DEF Caches, OldCaches
<1>4. d \in CacheStates /\ d <= upstream.tip
  <2>1. found.cached \in CacheStates /\ found.cached <= upstream.tip
    <3> HIDE DEF c, force
    <3> QED BY <1>1, <1>3, AskedFacts, LatestTagIsSound, LatestTagOfOld
  <2> HIDE DEF found, c, asksTag, chosen
  <2> QED BY <1>3, <2>1
<1>5. /\ cached.cached <= upstream.tip
      /\ cached.ok => cached.cached \in Commits
  <2> HIDE DEF d, force
  <2> QED BY <1>1, <1>4, AskedFacts, CachedIsSound, CachedOfOld
<1> HIDE DEF force, graph, key, c, asksTag, found, d, cached
<1>6. /\ pc = "relock" /\ UNCHANGED <<upstream, online, constraint, vendor, disk>>
      /\ cache' = [k \in CacheKeys |->
                    IF graph.ok /\ k = key THEN cached.cached
                    ELSE IF k = CacheKey(constraint) THEN graph.cached ELSE cache[k]]
      /\ IF ok THEN /\ lock' = RecordResolution(lock, constraint, cached.cached)
                    /\ Goto("relocked")
                    /\ UNCHANGED <<meta, attempt, round, outcome>>
               ELSE Exit
  BY DEF Relock, force, graph, chosen, key, c, asksTag, found, d, cached, remoteVars
<1>7. OldCaches(cache')
  BY <1>2, <1>5, <1>6, AskedFacts DEF OldCaches
<1>8. CASE ~ok
  <2>1. Exit /\ lock' = NoEntry
    BY <1>6, <1>8 DEF Exit
  <2>2. NothingIsNewer'
    BY <1>6, <1>7, <2>1, AskedFacts DEF NothingIsNewer, OldCaches, OldRepository, OldEntry
  <2> QED BY <2>1, <2>2, AskedExits
<1>9. CASE ok
  <2>1. /\ pc' = "relocked" /\ UNCHANGED <<request, steady, round>>
        /\ lock' = RecordResolution(lock, constraint, cached.cached)
    BY <1>6, <1>9 DEF Goto
  <2>2. cached.cached \in 1 .. upstream.tip
    BY <1>5, <1>9, AskedFacts, UpstreamIsNumbered DEF Commits
  <2>3. OldEntry(lock')
    BY <2>1, <2>2, AskedFacts DEF RecordResolution, OldEntry
  <2>4. NothingIsNewer'
    BY <1>6, <1>7, <2>3, AskedFacts DEF NothingIsNewer, OldCaches, OldRepository, OldEntry
  <2>5. RequestIsGiven' /\ SteadyIsOnline' /\ RestoredIsClean'
    BY <1>6, <2>1, AskedFacts
       DEF AInv, Asked, RequestIsGiven, SteadyIsOnline, RestoredIsClean, CommandOK, InstallStages
  <2>6. /\ LockIsFresh' /\ CacheIsThere' /\ MetaIsChosen' /\ NewestIsChosen' /\ LatestIsWritten'
        /\ MetaIsInstalled' /\ RecloneIsNew' /\ UpdateInstallsNewest' /\ SkippedOnlyForTheLock'
    BY <2>1 DEF LockIsFresh, CacheIsThere, Prepared, MetaIsChosen, NewestIsChosen,
                LatestIsWritten, MetaIsInstalled, RecloneIsNew, UpdateInstallsNewest,
                SkippedOnlyForTheLock, Ensured, Skipped, InstallStages
  <2> QED BY <2>4, <2>5, <2>6 DEF Asked
<1> QED BY <1>8, <1>9

--------------------------------------------------------------------------------
(* The environment.                                                        *)

(* Upstream and the network: a command they disturb is not steady.         *)
LEMMA AskedIsDisturbed ==
  ASSUME AInv, Disturb, UNCHANGED filesVars, NothingIsNewer', upstream.tags \subseteq upstream'.tags
  PROVE  Asked'
<1>1. /\ steady' = FALSE
      /\ UNCHANGED <<pc, request, original, lock, meta, attempt, round, outcome,
                     constraint, cache, vendor, disk>>
  BY DEF Disturb, filesVars
<1>2. RequestIsGiven' /\ SteadyIsOnline' /\ RestoredIsClean'
  BY <1>1 DEF AInv, Asked, RequestIsGiven, SteadyIsOnline, RestoredIsClean, Clean
<1>3. ChosenMeta' = ChosenMeta
  BY <1>1 DEF ChosenMeta, ShouldForce
<1>4. MetaIsChosen'
  BY <1>1, <1>3 DEF AInv, Asked, MetaIsChosen
<1>5. MetaIsInstalled'
  BY <1>1 DEF AInv, Asked, MetaIsInstalled, Installed
<1>6. /\ LockIsFresh' /\ CacheIsThere' /\ NewestIsChosen' /\ LatestIsWritten' /\ RecloneIsNew'
      /\ UpdateInstallsNewest' /\ SkippedOnlyForTheLock'
  BY <1>1 DEF LockIsFresh, CacheIsThere, NewestIsChosen, LatestIsWritten, RecloneIsNew,
              UpdateInstallsNewest, SkippedOnlyForTheLock
<1> QED BY <1>2, <1>4, <1>5, <1>6 DEF Asked

LEMMA PushAsks ==
  ASSUME AInv, Push PROVE Asked'
<1>1. PICK tagged \in BOOLEAN :
        upstream' = [tip  |-> upstream.tip + 1,
                     tags |-> upstream.tags \cup (IF tagged THEN {upstream.tip + 1} ELSE {})]
  BY DEF Push
<1>2. /\ upstream'.tip = upstream.tip + 1 /\ upstream.tags \subseteq upstream'.tags
      /\ upstream'.tags \subseteq upstream.tags \cup {upstream.tip + 1}
  BY <1>1
<1>3. upstream.tip \in Int /\ upstream.tip >= 1
  BY AskedFacts, UpstreamIsNumbered
<1>4. UNCHANGED <<constraint, cache, vendor, disk, lock>> /\ Disturb /\ UNCHANGED filesVars
  BY DEF Push, Disturb, filesVars
<1>5. 1 .. upstream.tip \subseteq 1 .. upstream'.tip /\ upstream'.tip \in 1 .. upstream'.tip
  BY <1>2, <1>3
<1>6. upstream'.tags \subseteq 1 .. upstream'.tip
  BY <1>2, <1>5, AskedFacts
<1>7. OldCaches(cache)'
  <2>1. \A k \in CacheKeys : cache[k] \in Int /\ cache[k] <= upstream.tip
    BY AskedFacts, UpstreamIsNumbered DEF Caches, OldCaches
  <2>2. \A k \in CacheKeys : cache[k] <= upstream'.tip
    BY <1>2, <1>3, <2>1
  <2> QED BY <1>4, <2>2 DEF OldCaches
<1>8. OldRepository(vendor)'
  <2>1. vendor.head \in Int /\ vendor.ref \in Int /\ vendor.known \in Int
    BY AskedFacts, UpstreamIsNumbered
  <2> QED BY <1>2, <1>3, <1>4, <2>1, AskedFacts DEF OldRepository
<1>9. OldEntry(lock)' /\ OldEntry(disk.entry)'
  BY <1>4, <1>5, AskedFacts DEF OldEntry
<1>10. NothingIsNewer'
  BY <1>6, <1>7, <1>8, <1>9 DEF NothingIsNewer
<1> QED BY <1>2, <1>4, <1>10, AskedIsDisturbed

LEMMA NetworkAsks ==
  ASSUME AInv, Network PROVE Asked'
<1>1. UNCHANGED <<upstream, constraint, cache, vendor, disk, lock>>
  BY DEF Network, Disturb, filesVars
<1>2. NothingIsNewer'
  BY <1>1 DEF AInv, Asked, NothingIsNewer, OldCaches, OldRepository, OldEntry
<1> QED BY <1>1, <1>2, AskedIsDisturbed DEF Network

(* Another project's pull, or a stuttering step: the copies that were      *)
(* usable are, and only they are newer.                                    *)
LEMMA AskedStays ==
  ASSUME AInv, UNCHANGED <<upstream, online, constraint, vendor, disk, commandVars>>,
         NEW K \in SUBSET CacheKeys, \A k \in K : ValidCache(cache[k]),
         cache' = [k \in CacheKeys |-> IF k \in K THEN upstream.tip ELSE cache[k]]
  PROVE  Asked'
<1>1. UNCHANGED <<upstream, online, constraint, vendor, disk, pc, request, original, lock, meta,
                  attempt, round, outcome, steady>>
  BY DEF commandVars
<1>2. ValidCache(upstream.tip) /\ upstream.tip <= upstream.tip /\ ~ValidCache(Broken)
  BY AskedFacts, UpstreamIsNumbered, CommitsAreNumbers DEF ValidCache
<1>3. /\ \A k \in CacheKeys : ValidCache(cache[k]) => ValidCache(cache'[k])
      /\ \A k \in CacheKeys : cache[k] = upstream.tip => cache'[k] = upstream.tip
      /\ \A k \in CacheKeys : cache[k] = Broken => cache'[k] = Broken
      /\ OldCaches(cache)'
  BY <1>1, <1>2, AskedFacts DEF OldCaches
<1>4. NothingIsNewer'
  BY <1>1, <1>3 DEF AInv, Asked, NothingIsNewer, OldRepository, OldEntry
<1>5. RequestIsGiven' /\ SteadyIsOnline' /\ RestoredIsClean' /\ LockIsFresh'
  BY <1>1 DEF AInv, Asked, RequestIsGiven, SteadyIsOnline, RestoredIsClean, Clean, LockIsFresh,
              LockCleared, Prepared
<1>6. CacheIsThere'
  BY <1>1, <1>3, AskedFacts DEF CacheIsThere, Prepared
<1>7. ChosenMeta' = ChosenMeta
  BY <1>1 DEF ChosenMeta, ShouldForce
<1>8. MetaIsChosen' /\ NewestIsChosen' /\ LatestIsWritten' /\ MetaIsInstalled'
  BY <1>1, <1>7 DEF AInv, Asked, MetaIsChosen, NewestIsChosen, LatestIsWritten, MetaIsInstalled,
                    Installed
<1>9. RecloneIsNew'
  BY <1>1, <1>3, AskedFacts DEF AInv, Asked, RecloneIsNew
<1>10. UpdateInstallsNewest'
  BY <1>1 DEF AInv, Asked, UpdateInstallsNewest, Ensured
<1>11. SkippedOnlyForTheLock'
  BY <1>1, <1>3, ReferencesAreTyped
     DEF AInv, Asked, SkippedOnlyForTheLock, Skipped, Published, LockCleared, ShouldForce
<1> QED BY <1>4, <1>5, <1>6, <1>8, <1>9, <1>10, <1>11 DEF Asked

LEMMA RefreshCacheAsks ==
  ASSUME AInv, RefreshCache PROVE Asked'
<1>1. PICK k \in CacheKeys : ValidCache(cache[k]) /\ cache' = [cache EXCEPT ![k] = upstream.tip]
  BY DEF RefreshCache
<1>2. cache' = [j \in CacheKeys |-> IF j \in {k} THEN upstream.tip ELSE cache[j]]
  BY <1>1, AskedFacts DEF Caches
<1>3. UNCHANGED <<upstream, online, constraint, vendor, disk, commandVars>>
  BY DEF RefreshCache, remoteVars
<1> QED BY <1>1, <1>2, <1>3, AskedStays

LEMMA StutteringAsks ==
  ASSUME AInv, UNCHANGED vars PROVE Asked'
<1> DEFINE K == {}
<1>1. K \in SUBSET CacheKeys /\ \A k \in K : ValidCache(cache[k])
  OBVIOUS
<1>2. cache' = [j \in CacheKeys |-> IF j \in K THEN upstream.tip ELSE cache[j]]
  BY AskedFacts DEF Caches, vars, filesVars
<1>3. UNCHANGED <<upstream, online, constraint, vendor, disk, commandVars>>
  BY DEF vars, remoteVars, filesVars
<1> HIDE DEF K
<1> QED BY <1>1, <1>2, <1>3, AskedStays

LEMMA CrashAsks ==
  ASSUME AInv, Crash PROVE Asked'
<1>1. /\ Exit /\ lock' = NoEntry /\ UNCHANGED <<upstream, online, constraint>>
      /\ vendor' \in HalfVendored /\ cache' \in HalfCached /\ disk' \in HalfSaved
  BY DEF Crash, Exit, remoteVars
<1>2. OldRepository(vendor)'
  <2>1. vendor' \in {vendor, NoRepository, BrokenRepository, [vendor EXCEPT !.worktree = "edited"]}
    BY <1>1 DEF HalfVendored
  <2>2. OldRepository([vendor EXCEPT !.worktree = "edited"])
    BY AskedFacts DEF OldRepository, GoodRepositories, Repositories
  <2> QED BY <1>1, <2>1, <2>2, AskedFacts, OthersAreOld DEF OldRepository
<1>3. OldCaches(cache)'
  <2>1. \A k \in CacheKeys : cache'[k] = cache[k] \/ cache'[k] = Broken
    BY <1>1, AskedFacts DEF HalfCached, Caches
  <2> QED BY <1>1, <2>1, AskedFacts, UpstreamIsNumbered DEF OldCaches
<1>4. disk'.entry \in {disk.entry, lock, NoEntry}
  BY <1>1 DEF HalfSaved, CorruptLock, Saved
<1>5. NothingIsNewer'
  BY <1>1, <1>2, <1>3, <1>4, AskedFacts DEF NothingIsNewer, OldEntry
<1> QED BY <1>1, <1>5, AskedExits

LEMMA UserAsks ==
  ASSUME AInv, User PROVE Asked'
<1>1. /\ pc = "idle" /\ pc' = "idle"
      /\ UNCHANGED <<upstream, online, request, lock, round, steady, commandVars>>
  BY DEF User, remoteVars, commandVars
<1>2. OldRepository(vendor)'
  <2>1. \/ vendor' = vendor \/ vendor' = NoRepository
        \/ \E t \in {"edited", "untracked"} : vendor' = [vendor EXCEPT !.worktree = t]
    BY DEF User, EditReference, EditVendor, DeleteVendor, ClearCache, DeleteLock, ShareLock
  <2>2. \A t : OldRepository([vendor EXCEPT !.worktree = t])
    BY AskedFacts DEF OldRepository, GoodRepositories, Repositories
  <2> QED BY <1>1, <2>1, <2>2, AskedFacts, OthersAreOld DEF OldRepository
<1>3. OldCaches(cache)'
  <2>1. cache' = cache \/ cache' = [k \in CacheKeys |-> Missing]
    BY DEF User, EditReference, EditVendor, DeleteVendor, ClearCache, DeleteLock, ShareLock
  <2> QED BY <1>1, <2>1, AskedFacts, UpstreamIsNumbered DEF OldCaches
<1>4. OldEntry(disk.entry)'
  <2>1. \/ disk' = disk \/ disk' = NoLock
        \/ \E c \in Resolutions(constraint) :
             disk' = Saved([constraint |-> constraint, commit |-> c])
    BY DEF User, EditReference, EditVendor, DeleteVendor, ClearCache, DeleteLock, ShareLock
  <2>2. Resolutions(constraint) \subseteq 1 .. upstream.tip
    BY AskedFacts DEF Resolutions, Metas
  <2> QED BY <1>1, <2>1, <2>2, AskedFacts DEF OldEntry, NoLock, Saved
<1>5. NothingIsNewer'
  BY <1>1, <1>2, <1>3, <1>4, AskedFacts DEF NothingIsNewer, OldEntry
<1>6. RequestIsGiven' /\ SteadyIsOnline' /\ RestoredIsClean'
  BY <1>1, AskedFacts
     DEF AInv, Asked, RequestIsGiven, SteadyIsOnline, RestoredIsClean, InstallStages
<1>7. /\ LockIsFresh' /\ CacheIsThere' /\ MetaIsChosen' /\ NewestIsChosen' /\ LatestIsWritten'
      /\ MetaIsInstalled' /\ RecloneIsNew' /\ UpdateInstallsNewest' /\ SkippedOnlyForTheLock'
  BY <1>1 DEF LockIsFresh, CacheIsThere, Prepared, MetaIsChosen, NewestIsChosen,
              LatestIsWritten, MetaIsInstalled, RecloneIsNew, UpdateInstallsNewest,
              SkippedOnlyForTheLock, Ensured, Skipped, InstallStages
<1> QED BY <1>5, <1>6, <1>7 DEF Asked

--------------------------------------------------------------------------------
(* The theorems about what was asked for.                                  *)

LEMMA InitAsks == Init => Asked
<1> SUFFICES ASSUME Init PROVE Asked
  OBVIOUS
<1>1. /\ pc = "idle" /\ request = NoRequest /\ steady = FALSE /\ round = 1 /\ lock = NoEntry
      /\ upstream.tip = 1 /\ upstream.tags \subseteq {1} /\ disk.entry = NoEntry
      /\ vendor = NoRepository /\ cache = [k \in CacheKeys |-> Missing]
  <2>1. PICK t \in SUBSET {1} : upstream = [tip |-> 1, tags |-> t]
    BY DEF Init
  <2>2. upstream.tip = 1 /\ upstream.tags \subseteq {1}
    BY <2>1
  <2> QED BY <2>2 DEF Init, NoLock
<1>2. OldCaches(cache) /\ OldRepository(vendor)
  BY <1>1 DEF OldCaches, OldRepository, NoRepository, Missing, NoCommit
<1>3. upstream.tags \subseteq 1 .. upstream.tip
  BY <1>1
<1>4. NothingIsNewer
  BY <1>1, <1>2, <1>3 DEF NothingIsNewer, OldEntry
<1>5. /\ RequestIsGiven /\ SteadyIsOnline /\ RestoredIsClean
      /\ LockIsFresh /\ CacheIsThere /\ MetaIsChosen /\ NewestIsChosen /\ LatestIsWritten
      /\ MetaIsInstalled /\ RecloneIsNew /\ UpdateInstallsNewest /\ SkippedOnlyForTheLock
  BY <1>1 DEF RequestIsGiven, SteadyIsOnline, RestoredIsClean, LockIsFresh, CacheIsThere,
              MetaIsChosen, NewestIsChosen, LatestIsWritten, MetaIsInstalled, RecloneIsNew,
              UpdateInstallsNewest, SkippedOnlyForTheLock, Ensured, Skipped, InstallStages
<1> QED BY <1>4, <1>5 DEF Asked

LEMMA NextAsks == AInv /\ [Next]_vars => AInv'
<1> SUFFICES ASSUME AInv, [Next]_vars PROVE AInv'
  OBVIOUS
<1>1. IInv'
  BY NextKeeps DEF AInv
<1>2. CASE \E r \in Requests : Start(r)
  BY <1>1, <1>2, StartAsks DEF AInv
<1>3. CASE Stage
  BY <1>1, <1>3, LoadAsks, RewriteAsks, RefreshAsks, ResolveAsks, RepositoryAsks, UpdateAsks,
     RepairAsks, ForceAsks, RecloneAsks, ReupdateAsks, VerifyAsks, RestoreAsks, RecordAsks,
     RuntimeAsks, FinishAsks, RelockAsks DEF Stage, AInv
<1>4. CASE Push \/ Network \/ RefreshCache \/ Crash \/ User
  BY <1>1, <1>4, PushAsks, NetworkAsks, RefreshCacheAsks, CrashAsks, UserAsks DEF AInv
<1>5. CASE UNCHANGED vars
  BY <1>1, <1>5, StutteringAsks DEF AInv
<1> QED BY <1>2, <1>3, <1>4, <1>5 DEF Next

LEMMA AInvIsInvariant == Spec => []AInv
<1>1. Init => AInv
  BY InitIsGood, InitAsks DEF AInv
<1>2. AInv /\ [Next]_vars => AInv'
  BY NextAsks
<1> QED BY <1>1, <1>2, PTL DEF Spec

(* The self-repair is complete: whatever state the vendored and the cached *)
(* copies were left in, an undisturbed command gives a published           *)
(* dependency up only because of the lock (updateRepoStateWithRecovery,    *)
(* verifyDependencyIntegrityWithRecovery).                                 *)
THEOREM RepairIsComplete == Spec => []SkippedOnlyForTheLock
<1>1. AInv => SkippedOnlyForTheLock
  BY DEF AInv, Asked
<1> QED BY <1>1, AInvIsInvariant, PTL

(* An undisturbed update that reports success has installed what is newest *)
(* upstream, whatever the recovery went through on the way.                *)
THEOREM UpdatesInstallNewest == Spec => []UpdateInstallsNewest
<1>1. AInv => UpdateInstallsNewest
  BY DEF AInv, Asked
<1> QED BY <1>1, AInvIsInvariant, PTL

--------------------------------------------------------------------------------
(* A pin that is ensured is installed, as long as no command writes the    *)
(* lock alone: then an entry for a pin holds the pinned commit.            *)
NoLockOnly     == \A r \in Requests : ~r.lockOnly
PinnedEntry(e) == Pinned(e.constraint) => e.commit = e.constraint.at
PInv           == NoLockOnly => PinnedEntry(lock) /\ PinnedEntry(disk.entry) /\ PinnedIsInstalled

(* What an ensured pin is on when it is recorded.                          *)
LEMMA RecordedIsPinned ==
  ASSUME AInv, Record, PinnedEntry(lock)
  PROVE  Pinned(constraint) => vendor.head = constraint.at
<1> SUFFICES ASSUME Pinned(constraint) PROVE vendor.head = constraint.at
  OBVIOUS
<1>1. pc = "record" /\ pc \in InstallStages
  BY DEF Record, InstallStages
<1>2. /\ IF ChosenMeta.kind # "latest" THEN meta = ChosenMeta
         ELSE meta = Unpinned \/ (meta.kind = "tag" /\ meta.at \in upstream.tags)
      /\ Pinned(meta) => vendor.head = meta.at
  BY <1>1 DEF AInv, Asked, MetaIsChosen, MetaIsInstalled, Installed
<1>3. CASE ShouldForce(constraint) \/ IsOutdated(lock, constraint)
  <2>1. ChosenMeta = constraint
    BY <1>3 DEF ChosenMeta, GetLockedVersion
  <2> QED BY <1>2, <2>1 DEF Pinned
<1>4. CASE ~(ShouldForce(constraint) \/ IsOutdated(lock, constraint))
  <2>1. ChosenMeta = AtCommit(lock.commit) /\ lock.constraint = constraint
    BY <1>4 DEF ChosenMeta, GetLockedVersion, IsOutdated
  <2>2. vendor.head = lock.commit
    BY <1>2, <2>1 DEF AtCommit, Pinned
  <2> QED BY <2>1, <2>2 DEF PinnedEntry
<1> QED BY <1>3, <1>4

LEMMA NextPins == AInv /\ PInv /\ [Next]_vars => PInv'
<1> SUFFICES ASSUME AInv, [Next]_vars, NoLockOnly,
                    PinnedEntry(lock), PinnedEntry(disk.entry), PinnedIsInstalled
             PROVE  PinnedEntry(lock)' /\ PinnedEntry(disk.entry)' /\ PinnedIsInstalled'
  BY DEF PInv, NoLockOnly
<1>1. PinnedEntry(NoEntry)
  BY DEF PinnedEntry, NoEntry, Unpinned, Pinned
<1>2. ~request.lockOnly
  BY DEF NoLockOnly, AInv, Asked, RequestIsGiven, NoRequest
<1>3. ASSUME lock' \in {lock, disk.entry, NoEntry}, disk'.entry \in {lock, disk.entry, NoEntry},
             ~Ensured' \/ UNCHANGED <<pc, outcome, constraint, vendor>>
      PROVE  PinnedEntry(lock)' /\ PinnedEntry(disk.entry)' /\ PinnedIsInstalled'
  BY <1>1, <1>3 DEF PinnedEntry, PinnedIsInstalled, Ensured
<1>4. CASE \E r \in Requests : Start(r)
  BY <1>3, <1>4 DEF Start, Keeping, filesVars, Ensured
<1>5. CASE Load
  BY <1>3, <1>5 DEF Load, Goto, Exit, Ensured
<1>6. CASE Rewrite \/ Refresh \/ Resolve
  <2>1. lock' \in {lock, NoEntry} /\ disk' = disk
    BY <1>6 DEF Rewrite, Refresh, Resolve, Move, Keeping, Exit
  <2>2. ~Ensured'
    <3>1. CASE Rewrite
      BY <3>1 DEF Rewrite, Move, Goto, Exit, Ensured
    <3>2. CASE Refresh
      BY <3>2 DEF Refresh, Move, Goto, Exit, Ensured
    <3>3. CASE Resolve
      <4> DEFINE force == ShouldForce(constraint)
                 found == ResolveLatestTag(cache["default"], force)
      <4>1. found.result \in {"tag", "untagged", "error"}
        BY AskedFacts, ReferencesAreTyped, LatestTagIsSound DEF Caches
      <4>2. Goto("repository") \/ AttemptFails
        <5>1. CASE ChosenMeta.kind # "latest"
          BY <3>3, <5>1 DEF Resolve, ChosenMeta
        <5>2. CASE ChosenMeta.kind = "latest"
          <6>1. (CASE found.result = "tag" -> Goto("repository")
                  [] found.result = "untagged" -> Goto("repository")
                  [] found.result = "error" -> AttemptFails)
            BY <3>3, <4>1, <5>2 DEF Resolve, ChosenMeta
          <6> HIDE DEF found
          <6> QED BY <4>1, <6>1
        <5> QED BY <5>1, <5>2
      <4> QED BY <4>2, AttemptFailsTo DEF Goto, Ensured
    <3> QED BY <1>6, <3>1, <3>2, <3>3
  <2> QED BY <1>3, <2>1, <2>2
<1>7. CASE Repository \/ Update \/ Repair \/ ForceUpdate \/ Reclone \/ Reupdate \/ Verify \/ Restore
  <2>1. lock' = lock /\ disk' = disk
    BY <1>7 DEF Repository, Update, Repair, ForceUpdate, Reclone, Reupdate, Verify, Restore,
                Perform
  <2>2. AttemptFails => ~Ensured'
    BY AttemptFailsTo DEF Ensured
  <2>3. \A stage \in InstallStages : Goto(stage) => ~Ensured'
    BY DEF Goto, Ensured, InstallStages
  <2>4. \/ AttemptFails
        \/ \E stage \in {"update", "verify", "repair", "force", "reclone", "reupdate", "restore",
                          "record"} : Goto(stage)
    <3>1. CASE Repository \/ Reclone \/ Reupdate
      BY <3>1 DEF Repository, Reclone, Reupdate, Perform, Move
    <3>2. CASE Update \/ Repair \/ ForceUpdate
      BY <3>2 DEF Update, Repair, ForceUpdate, Perform, Move
    <3>3. CASE Verify
      BY <3>3 DEF Verify, Perform, Move
    <3>4. CASE Restore
      BY <3>4 DEF Restore, Perform
    <3> QED BY <1>7, <3>1, <3>2, <3>3, <3>4
  <2>5. ~Ensured'
    BY <2>2, <2>3, <2>4 DEF InstallStages
  <2> QED BY <1>3, <2>1, <2>5
<1>8. CASE Record
  <2>1. Pinned(constraint) => vendor.head = constraint.at
    BY <1>8, RecordedIsPinned
  <2>2. lock' = RecordResolution(lock, constraint, vendor.head) /\ UNCHANGED filesVars
    BY <1>8 DEF Record
  <2>3. PinnedEntry(lock)' /\ PinnedEntry(disk.entry)'
    BY <2>1, <2>2 DEF PinnedEntry, RecordResolution, filesVars
  <2>4. PinnedIsInstalled'
    BY <2>1, <2>2 DEF PinnedIsInstalled, Pinned, filesVars
  <2> QED BY <2>3, <2>4
<1>9. CASE Runtime
  BY <1>3, <1>9 DEF Runtime, Saved, Move, Goto, Keeping, Exit, Ensured
<1>10. CASE Finish
  BY <1>3, <1>10 DEF Finish, Saved, Exit, Ensured
<1>11. CASE Relock
  BY <1>2, <1>11 DEF Relock, AInv, IInv, RelockIsAskedFor
<1>12. CASE Push \/ Network \/ RefreshCache
  BY <1>3, <1>12 DEF Push, Network, RefreshCache, Disturb, filesVars, commandVars
<1>13. CASE Crash
  <2>1. disk'.entry \in {lock, disk.entry, NoEntry}
    BY <1>13 DEF Crash, HalfSaved, CorruptLock, Saved
  <2> QED BY <1>3, <1>13, <2>1 DEF Crash, Exit, Ensured
<1>14. CASE User
  <2>1. pc = "idle" /\ UNCHANGED <<pc, lock>>
    BY <1>14 DEF User, commandVars
  <2>2. \/ disk' = disk \/ disk' = NoLock
        \/ \E c \in Resolutions(constraint) :
             disk' = Saved([constraint |-> constraint, commit |-> c])
    BY <1>14 DEF User, EditReference, EditVendor, DeleteVendor, ClearCache, DeleteLock, ShareLock
  <2>3. \A c \in Resolutions(constraint) : PinnedEntry([constraint |-> constraint, commit |-> c])
    BY DEF Resolutions, PinnedEntry, Pinned
  <2>4. PinnedEntry(disk.entry)'
    <3>1. PinnedEntry(disk'.entry)
      BY <1>1, <2>2, <2>3 DEF NoLock, Saved
    <3> QED BY <3>1 DEF PinnedEntry
  <2> QED BY <2>1, <2>4 DEF PinnedIsInstalled, Ensured, PinnedEntry
<1>15. CASE UNCHANGED vars
  BY <1>3, <1>15 DEF vars, filesVars, commandVars
<1> QED BY <1>4, <1>5, <1>6, <1>7, <1>8, <1>9, <1>10, <1>11, <1>12, <1>13, <1>14, <1>15
        DEF Next, Stage

(* What was asked for is what is installed, for any set of commands none   *)
(* of which writes the lock alone: a pin is on its tag or commit, and an   *)
(* undisturbed update is on what is newest (ensureManagedPackage).         *)
THEOREM WhatIsAskedIsInstalled == NoLockOnly /\ Spec => []AskedIsInstalled
<1>1. Init => PInv
  BY DEF Init, PInv, NoLock, NoEntry, Unpinned, PinnedEntry, Pinned, PinnedIsInstalled, Ensured
<1>2. AInv /\ PInv /\ [Next]_vars => PInv'
  BY NextPins
<1>3. AInv /\ PInv /\ NoLockOnly => AskedIsInstalled
  BY DEF AInv, Asked, PInv, AskedIsInstalled
<1>4. NoLockOnly /\ [Next]_vars => NoLockOnly'
  BY DEF NoLockOnly
<1> QED BY <1>1, <1>2, <1>3, <1>4, AInvIsInvariant, PTL DEF Spec

--------------------------------------------------------------------------------
(* Why a command ends.  What is left of it is counted: a second attempt    *)
(* starts lower than the first one, and so does the update after a fresh   *)
(* clone.  The steps of a stage count down from there.                     *)

Left(stage, try, turn) ==
  LET tries  == IF try = 1 THEN 16 ELSE 0
      rounds == IF turn = 1 THEN 7 ELSE 0
  IN CASE stage = "load"                   -> 37
       [] stage = "rewrite"                -> 36
       [] stage = "refresh"                -> 35
       [] stage = "resolve"                -> 18 + tries
       [] stage = "repository"             -> 17 + tries
       [] stage = "restore"                -> 10 + tries
       [] stage = "update"                 -> 9 + rounds + tries
       [] stage = "repair"                 -> 8 + rounds + tries
       [] stage = "force"                  -> 7 + rounds + tries
       [] stage = "reclone"                -> 6 + rounds + tries
       [] stage = "reupdate"               -> 5 + rounds + tries
       [] stage = "verify"                 -> 4 + rounds + tries
       [] stage = "record"                 -> 3 + tries
       [] stage \in {"runtime", "relock"}  -> 2
       [] stage \in {"finish", "relocked"} -> 1
       [] OTHER                            -> 0

StagesLeft == Left(pc, attempt, round)

StagesRunOut ==
  [][/\ StagesLeft \in 0 .. 37
     /\ Stage => StagesLeft' < StagesLeft
     /\ pc # "idle" => StagesLeft' <= StagesLeft]_vars

(* The count, stage by stage.                                              *)
LEMMA LeftOf ==
  ASSUME NEW try \in {1, 2}, NEW turn \in {1, 2}
  PROVE  LET tries  == IF try = 1 THEN 16 ELSE 0
             rounds == IF turn = 1 THEN 7 ELSE 0
         IN /\ Left("load", try, turn) = 37
            /\ Left("rewrite", try, turn) = 36
            /\ Left("refresh", try, turn) = 35
            /\ Left("resolve", try, turn) = 18 + tries
            /\ Left("repository", try, turn) = 17 + tries
            /\ Left("restore", try, turn) = 10 + tries
            /\ Left("update", try, turn) = 9 + rounds + tries
            /\ Left("repair", try, turn) = 8 + rounds + tries
            /\ Left("force", try, turn) = 7 + rounds + tries
            /\ Left("reclone", try, turn) = 6 + rounds + tries
            /\ Left("reupdate", try, turn) = 5 + rounds + tries
            /\ Left("verify", try, turn) = 4 + rounds + tries
            /\ Left("record", try, turn) = 3 + tries
            /\ Left("runtime", try, turn) = 2 /\ Left("relock", try, turn) = 2
            /\ Left("finish", try, turn) = 1 /\ Left("relocked", try, turn) = 1
            /\ Left("idle", try, turn) = 0
BY DEF Left

LEMMA StagesAreCounted ==
  ASSUME NEW stage \in Stages, NEW try \in {1, 2}, NEW turn \in {1, 2}
  PROVE  Left(stage, try, turn) \in 0 .. 37
BY LeftOf DEF Stages, InstallStages, SaveStages

(* A failed attempt goes below what a first attempt has left anywhere.     *)
LEMMA RetryIsBelow ==
  ASSUME attempt \in {1, 2}, round \in {1, 2}, AttemptFails,
         pc \in InstallStages \cup {"resolve", "record"}
  PROVE  StagesLeft' < StagesLeft
<1>1. pc \in {"resolve", "repository", "restore", "update", "repair", "force", "reclone",
              "reupdate", "verify", "record"}
  BY DEF InstallStages
<1>2. CASE attempt = 1
  <2>1. pc' = "resolve" /\ attempt' = 2 /\ round' = 1
    BY <1>2 DEF AttemptFails, AttemptEnds, Goto
  <2> QED BY <1>1, <1>2, <2>1, LeftOf DEF StagesLeft
<1>3. CASE attempt = 2
  <2>1. pc' = "runtime" /\ attempt' = 1 /\ round' = 1
    BY <1>3 DEF AttemptFails, AttemptEnds, Goto
  <2> QED BY <1>1, <1>3, <2>1, LeftOf DEF StagesLeft
<1> QED BY <1>2, <1>3

LEMMA ExitIsTheEnd ==
  ASSUME Exit
  PROVE  StagesLeft' = 0
BY LeftOf DEF Exit, StagesLeft

(* Every stage leaves less to do than it found.                             *)
LEMMA StageIsBelow ==
  ASSUME TypeOK, Stage
  PROVE  StagesLeft' < StagesLeft
<1>0. attempt \in {1, 2} /\ round \in {1, 2}
  BY DEF TypeOK
<1>1. CASE Load
  <2>1. Exit \/ (pc' \in {"relock", "rewrite"} /\ UNCHANGED <<attempt, round>>)
    BY <1>1 DEF Load, Goto
  <2> QED BY <1>0, <1>1, <2>1, ExitIsTheEnd, LeftOf DEF Load, StagesLeft
<1>2. CASE Rewrite
  <2>1. Exit \/ (pc' \in {"refresh", "resolve"} /\ UNCHANGED <<attempt, round>>)
    BY <1>2 DEF Rewrite, Move, Goto, Keeping
  <2> QED BY <1>0, <1>2, <2>1, ExitIsTheEnd, LeftOf DEF Rewrite, StagesLeft
<1>3. CASE Refresh
  <2>1. Exit \/ (pc' = "resolve" /\ UNCHANGED <<attempt, round>>)
    BY <1>3 DEF Refresh, Move, Goto, Keeping
  <2> QED BY <1>0, <1>3, <2>1, ExitIsTheEnd, LeftOf DEF Refresh, StagesLeft
<1>4. CASE Resolve
  <2>1. ResolveLatestTag(cache["default"], ShouldForce(constraint)).result \in {"tag", "untagged", "error"}
    BY DEF ResolveLatestTag, Found
  <2>2. AttemptFails \/ (pc' = "repository" /\ UNCHANGED <<attempt, round>>)
    BY <1>4, <2>1 DEF Resolve, Goto
  <2> QED BY <1>0, <1>4, <2>2, RetryIsBelow, LeftOf DEF Resolve, StagesLeft
<1>5. CASE Repository
  <2>1. AttemptFails \/ (pc' = "update" /\ UNCHANGED <<attempt, round>>)
    BY <1>5 DEF Repository, Perform, Move, Goto, Keeping
  <2> QED BY <1>0, <1>5, <2>1, RetryIsBelow, LeftOf DEF Repository, StagesLeft, InstallStages
<1>6. CASE Update
  <2>1. pc' \in {"verify", "repair"} /\ UNCHANGED <<attempt, round>>
    BY <1>6 DEF Update, Perform, Move, Goto, Keeping
  <2> QED BY <1>0, <1>6, <2>1, LeftOf DEF Update, StagesLeft
<1>7. CASE Repair
  <2>1. pc' \in {"verify", "force"} /\ UNCHANGED <<attempt, round>>
    BY <1>7 DEF Repair, Perform, Move, Goto, Keeping
  <2> QED BY <1>0, <1>7, <2>1, LeftOf DEF Repair, StagesLeft
<1>8. CASE ForceUpdate
  <2>1. pc' \in {"verify", "reclone"} /\ UNCHANGED <<attempt, round>>
    BY <1>8 DEF ForceUpdate, Perform, Move, Goto, Keeping
  <2> QED BY <1>0, <1>8, <2>1, LeftOf DEF ForceUpdate, StagesLeft
<1>9. CASE Reclone
  <2>1. AttemptFails \/ (pc' = "reupdate" /\ UNCHANGED <<attempt, round>>)
    BY <1>9 DEF Reclone, Perform, Move, Goto, Keeping
  <2> QED BY <1>0, <1>9, <2>1, RetryIsBelow, LeftOf DEF Reclone, StagesLeft, InstallStages
<1>10. CASE Reupdate
  <2>1. AttemptFails \/ (pc' = "verify" /\ UNCHANGED <<attempt, round>>)
    BY <1>10 DEF Reupdate, Perform, Move, Goto, Keeping
  <2> QED BY <1>0, <1>10, <2>1, RetryIsBelow, LeftOf DEF Reupdate, StagesLeft, InstallStages
<1>11. CASE Verify
  <2>1. \/ AttemptFails
        \/ pc' = "record" /\ UNCHANGED <<attempt, round>>
        \/ pc' = "restore" /\ round = 1 /\ UNCHANGED <<attempt, round>>
    BY <1>11 DEF Verify, Perform, Move, Goto, Keeping
  <2> QED BY <1>0, <1>11, <2>1, RetryIsBelow, LeftOf DEF Verify, StagesLeft, InstallStages
<1>12. CASE Restore
  <2>1. AttemptFails \/ (pc' = "update" /\ round' = 2 /\ attempt' = attempt)
    BY <1>12 DEF Restore, Perform, Goto
  <2> QED BY <1>0, <1>12, <2>1, RetryIsBelow, LeftOf DEF Restore, StagesLeft, InstallStages
<1>13. CASE Record
  <2>1. AttemptFails \/ (pc' = "runtime" /\ attempt' = 1 /\ round' = 1)
    BY <1>13 DEF Record, AttemptEnds, Goto
  <2> QED BY <1>0, <1>13, <2>1, RetryIsBelow, LeftOf DEF Record, StagesLeft
<1>14. CASE Runtime
  <2>1. Exit \/ (pc' = "finish" /\ UNCHANGED <<attempt, round>>)
    BY <1>14 DEF Runtime, Move, Goto, Keeping
  <2> QED BY <1>0, <1>14, <2>1, ExitIsTheEnd, LeftOf DEF Runtime, StagesLeft
<1>15. CASE Finish
  BY <1>0, <1>15, ExitIsTheEnd, LeftOf DEF Finish, StagesLeft
<1>16. CASE Relock
  <2>1. Exit \/ (pc' = "relocked" /\ UNCHANGED <<attempt, round>>)
    BY <1>16 DEF Relock, Goto
  <2> QED BY <1>0, <1>16, <2>1, ExitIsTheEnd, LeftOf DEF Relock, StagesLeft
<1> QED
  BY <1>1, <1>2, <1>3, <1>4, <1>5, <1>6, <1>7, <1>8, <1>9, <1>10, <1>11, <1>12, <1>13, <1>14,
     <1>15, <1>16 DEF Stage

(* A command takes at most 37 stages: the retry of ensureDependencies, the *)
(* recovery of updateRepoStateWithRecovery and the second clone of         *)
(* verifyDependencyIntegrityWithRecovery do not chase each other, and      *)
(* nothing the environment does gives a running command more to do.        *)
THEOREM CommandRunsOut == Spec => StagesRunOut
<1> DEFINE Counted == /\ StagesLeft \in 0 .. 37
                      /\ Stage => StagesLeft' < StagesLeft
                      /\ pc # "idle" => StagesLeft' <= StagesLeft
<1>1. IInv /\ [Next]_vars => [Counted]_vars
  <2> SUFFICES ASSUME IInv, Next PROVE Counted
    BY DEF Counted
  <2>1. TypeOK
    BY DEF IInv
  <2>2. StagesLeft \in 0 .. 37
    BY <2>1, StagesAreCounted DEF TypeOK, StagesLeft
  <2>3. Stage => StagesLeft' < StagesLeft
    BY <2>1, StageIsBelow
  <2>4. ASSUME pc # "idle" PROVE StagesLeft' <= StagesLeft
    <3>1. CASE Stage
      <4>1. StagesLeft' \in Int
        <5>1. IInv'
          BY NextKeeps
        <5>2. pc' \in Stages /\ attempt' \in {1, 2} /\ round' \in {1, 2}
          BY <5>1 DEF IInv, TypeOK
        <5>3. Left(pc', attempt', round') \in 0 .. 37
          BY <5>2, StagesAreCounted
        <5> QED BY <5>3 DEF StagesLeft
      <4> QED BY <2>2, <2>3, <3>1, <4>1
    <3>2. CASE Crash
      BY <2>2, <3>2, ExitIsTheEnd DEF Crash
    <3>3. CASE Push \/ Network \/ RefreshCache
      BY <2>2, <3>3 DEF Push, Network, RefreshCache, Disturb, StagesLeft, commandVars
    <3> QED BY <2>4, <3>1, <3>2, <3>3 DEF Next, Start, User
  <2> QED BY <2>2, <2>3, <2>4
<1> QED BY <1>1, IInvIsInvariant, PTL DEF Spec, StagesRunOut
================================================================================
