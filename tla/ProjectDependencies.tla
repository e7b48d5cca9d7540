-------------------------- MODULE ProjectDependencies --------------------------
(***************************************************************************)
(* The dependencies of a project as a whole: what pawn.json declares, what *)
(* the packages declare in turn, the copies in dependencies/ and the       *)
(* entries of pawn.lock, under "sampctl ensure", "install" and "uninstall".*)
(*                                                                         *)
(* EnsurePackage follows one dependency stage by stage; here a dependency  *)
(* is ensured in one step, and the commands go from one to the next.       *)
(* Versions are numbers, each with a tag; what a package declares may      *)
(* change with its version.  Two packages may have the same repository     *)
(* name under different users, and so the same directory.                  *)
(***************************************************************************)
EXTENDS Integers, Sequences, FiniteSets, Functions

CONSTANTS
  Packages,    \* the repositories, user/repo
  Name,        \* the name of each, which is its directory in dependencies/
  MaxVersion,  \* versions of a package
  MaxChanges,  \* how often the world around the commands changes
  Needs,       \* what each version of each package declares
  Broken,      \* the versions whose definition cannot be parsed
  Manifests,   \* what the user may write into pawn.json
  Requests,    \* the commands the user may give
  None,        \* no package, no entry
  Torn         \* a file that was cut short

Versions == 1 .. MaxVersion
Names    == Range(Name)

(* user/repo, with pin 0, or user/repo:tag.                                *)
Unpinned   == 0
References == [package : Packages, pin : {Unpinned} \cup Versions]

(* An entry keeps the reference it was made for and a commit, which is     *)
(* that of a version of one particular package.                            *)
Installations == [package : Packages \cup {None}, at : {0} \cup Versions]
Entries == [pin : {Unpinned} \cup Versions, package : Packages, at : Versions]
Locks   == [Packages -> Entries \cup {None}]
NoLock  == [p \in Packages |-> None]

ASSUME VersionsAssumption == MaxVersion \in Nat \ {0}
ASSUME ChangesAssumption  == MaxChanges \in Nat
ASSUME PackagesAssumption ==
  /\ IsFiniteSet(Packages) /\ DOMAIN Name = Packages
  /\ Needs \in [Packages -> [Versions -> Seq(References)]]
  /\ Broken \subseteq Packages \X Versions
  /\ None \notin Packages \cup Entries \cup Installations /\ Torn \notin Locks \cup {None}
ASSUME UserAssumption ==
  /\ Manifests \subseteq Seq(References)
  /\ \A q \in Requests : /\ q.command \in {"ensure", "install", "uninstall"}
                         /\ q.targets \in Seq(References)

VARIABLES
  published,  \* the newest version of each package
  online,     \* can GitHub be reached?
  writable,   \* can pawn.json and pawn.lock be written?
  cached,     \* the HEAD of each cached repository, 0 when there is none
  vendor,     \* dependencies/<name>
  declared,   \* pawn.json, a list of references
  disk,       \* pawn.lock
  pc,         \* the stage of the command, "idle" when none runs
  request,    \* the command
  mine,       \* the definition in memory
  todo,       \* what the loop of the stage has still to go through
  flat,       \* AllDependencies
  visited,    \* the names the walk has been to
  failed,     \* errInner: did the last step of the walk fail?
  lock,       \* the lock in memory
  skipped,    \* the packages that could not be ensured
  result,     \* of the last command: "none", "done" or "failed"
  started,    \* history: [declared, disk, calm, writable], the project at the start
              \* of the command, whether nothing around has changed since, and
              \* whether its files could be written all the time
  last,       \* history: the version of each package pawn.json declares that was
              \* there after the last ensure, unless it was to change since
  changes     \* how often the world has changed

worldVars   == <<published, online, writable, cached>>
projectVars == <<vendor, declared, disk>>
walkVars    == <<flat, visited, failed>>
commandVars == <<pc, request, mine, todo, walkVars, lock, skipped, result, started>>
vars        == <<worldVars, projectVars, commandVars, last, changes>>

(* at: the version that is checked out; seen: the newest the clone has.    *)
NoCopy == [package |-> None, at |-> 0, seen |-> 0]
Copies == {NoCopy} \cup [package : Packages, at : Versions, seen : Versions]

(* The project when a command starts.                                      *)
Beginnings == [declared : Seq(References), disk : Locks \cup {Torn},
               calm : BOOLEAN, writable : BOOLEAN]

Stages == {"idle", "load", "choose", "graph", "ensure", "runtime", "prune",
           "remove", "write", "save"}

TypeOK ==
  /\ published \in [Packages -> Versions]
  /\ online \in BOOLEAN /\ writable \in BOOLEAN
  /\ cached \in [Packages -> 0 .. MaxVersion]
  /\ vendor \in [Names -> Copies]
  /\ declared \in Seq(References) \cup {Torn}
  /\ disk \in Locks \cup {Torn}
  /\ pc \in Stages
  /\ request \in Requests \cup {None}
  /\ mine \in Seq(References) /\ todo \in Seq(References) /\ flat \in Seq(References)
  /\ visited \subseteq Names
  /\ failed \in BOOLEAN
  /\ lock \in Locks
  /\ skipped \subseteq Packages
  /\ result \in {"none", "done", "failed"}
  /\ started \in Beginnings
  /\ last \in [Packages -> Installations \cup {None}]
  /\ changes \in 0 .. MaxChanges

Unstarted == [declared |-> <<>>, disk |-> NoLock, calm |-> FALSE, writable |-> FALSE]

Init ==
  /\ published = [p \in Packages |-> 1]
  /\ online = TRUE /\ writable = TRUE
  /\ cached = [p \in Packages |-> 0]
  /\ vendor = [n \in Names |-> NoCopy]
  /\ declared \in Manifests
  /\ disk = NoLock
  /\ pc = "idle" /\ request = None /\ mine = <<>> /\ todo = <<>>
  /\ flat = <<>> /\ visited = {} /\ failed = FALSE
  /\ lock = NoLock /\ skipped = {} /\ result = "none"
  /\ started = Unstarted
  /\ last = [p \in Packages |-> None]
  /\ changes = 0

--------------------------------------------------------------------------------
(* Repositories.  A state of the files of a package p is its copy in       *)
(* dependencies/, the HEAD of the cached repository, and whether the last  *)
(* operation on them succeeded.                                            *)

State(ok, copy, head) == [ok |-> ok, copy |-> copy, head |-> head]

Max2(m, n) == IF m < n THEN n ELSE m

(* ensureRepoExists on the cached repository: clone what is missing, pull  *)
(* when forced; without the network the recovery of the pull removes it.   *)
Fetched(p, head, force) ==
  IF head # 0 /\ ~force THEN head ELSE IF online THEN published[p] ELSE 0

(* cloneDependencyFromCache.                                               *)
Cloned(p, head) ==
  LET h == Fetched(p, head, FALSE)
  IN IF h = 0 THEN State(FALSE, NoCopy, 0)
     ELSE State(TRUE, [package |-> p, at |-> h, seen |-> h], h)

(* A pull brings a copy up to the cached repository it was once cloned     *)
(* from, which is that of another package after a change of the user.      *)
Pulled(s, p) ==
  LET tip == IF s.copy.package = p THEN s.head ELSE cached[s.copy.package]
  IN IF tip = 0 THEN [s EXCEPT !.ok = FALSE]
     ELSE IF s.copy.at >= tip THEN [s EXCEPT !.ok = TRUE]
     ELSE State(TRUE, [s.copy EXCEPT !.at = tip, !.seen = Max2(@, tip)], s.head)

(* What is to be checked out: a tag, a commit of the lock, or the tip.     *)
AtTip            == [kind |-> "tip"]
AtTag(v)         == [kind |-> "tag", at |-> v]
AtCommit(e)      == [kind |-> "commit", package |-> e.package, at |-> e.at]

(* updateRepoState after its forced pull.  A tag is looked up by name only.*)
Missing(s, want) == \/ want.kind = "commit" /\ want.package # s.copy.package
                    \/ want.at > s.copy.seen
CheckOut(s, want) ==
  IF want.kind = "tip" \/ ~s.ok THEN s
  ELSE IF Missing(s, want) THEN [s EXCEPT !.ok = FALSE]
  ELSE [s EXCEPT !.copy.at = want.at]
CheckedOut(s, p, want) ==
  CheckOut(IF want.kind = "tag" THEN [s EXCEPT !.ok = TRUE] ELSE Pulled(s, p), want)

(* EnsureDependencyFromCache, forced: a copy that cannot be pulled is      *)
(* cloned again.                                                           *)
Refreshed(s, p) ==
  LET h == Fetched(p, s.head, TRUE)
      r == Pulled([s EXCEPT !.head = h], p)
  IN IF h = 0 THEN State(FALSE, s.copy, 0) ELSE IF r.ok THEN r ELSE Cloned(p, h)

UpdateRepoState(s, p, want, force) ==
  LET r == Refreshed(s, p)
  IN IF ~force THEN CheckedOut(s, p, want)
     ELSE IF r.ok THEN CheckedOut(r, p, want) ELSE r

(* updateRepoStateWithRecovery: once more with force, then on a new clone. *)
OnClone(clone, p, want, force) ==
  IF clone.ok THEN UpdateRepoState(clone, p, want, force) ELSE clone
Recovered(second, p, want, force) ==
  IF second.ok THEN second ELSE OnClone(Cloned(p, second.head), p, want, force)
UpdateWithRecovery(s, p, want, force) ==
  LET first == UpdateRepoState(s, p, want, force)
  IN IF first.ok THEN first
     ELSE Recovered(UpdateRepoState(first, p, want, TRUE), p, want, force)

(* Resolver.GetLockedVersion.                                              *)
Wanted(r, force) ==
  LET e == lock[r.package]
  IN IF ~force /\ e # None /\ e.pin = r.pin THEN AtCommit(e)
     ELSE IF r.pin = Unpinned THEN AtTip ELSE AtTag(r.pin)

(* verifyLockedDependencyIntegrity.                                        *)
Verified(s, p) == lock[p] # None => lock[p].package = s.copy.package /\ lock[p].at = s.copy.at

(* ensureManagedPackage up to the record of the resolution: what is not    *)
(* the locked commit is cloned again, once.                                *)
Reinstalled(clone, p, want, force) ==
  LET again == UpdateWithRecovery(clone, p, want, force)
  IN IF clone.ok THEN [again EXCEPT !.ok = @ /\ Verified(again, p)] ELSE clone
Settled(updated, p, want, force) ==
  IF ~updated.ok \/ Verified(updated, p) THEN updated
  ELSE Reinstalled(Cloned(p, updated.head), p, want, force)
Attempt(r, force, s) ==
  LET p     == r.package
      want  == Wanted(r, force)
      there == IF s.copy = NoCopy THEN Cloned(p, s.head) ELSE [s EXCEPT !.ok = TRUE]
  IN IF there.ok THEN Settled(UpdateWithRecovery(there, p, want, force), p, want, force)
     ELSE there

(* The retrier of ensureDependencies: two attempts.                        *)
Retried(first, r, force) == IF first.ok THEN first ELSE Attempt(r, force, first)
Ensured(r, force) ==
  Retried(Attempt(r, force, State(TRUE, vendor[Name[r.package]], cached[r.package])), r, force)

(* Resolver.RecordResolution.                                              *)
Recorded(e, r, copy) ==
  IF e # None /\ e.package = copy.package /\ e.at = copy.at THEN e
  ELSE [pin |-> r.pin, package |-> copy.package, at |-> copy.at]

--------------------------------------------------------------------------------
(* The commands.                                                           *)

Start(q) ==
  /\ pc = "idle" /\ declared # Torn
  /\ pc' = "load"
  /\ request' = q
  /\ mine' = declared /\ todo' = declared
  /\ flat' = <<>> /\ visited' = {} /\ failed' = FALSE
  /\ lock' = NoLock /\ skipped' = {} /\ result' = "none"
  /\ started' = [declared |-> declared, disk |-> disk, calm |-> online, writable |-> writable]
  /\ UNCHANGED <<worldVars, projectVars, last, changes>>

Goto(stage) == pc' = stage /\ UNCHANGED <<request, started, result>>

(* The process ends.  What it did is looked at in the properties below.    *)
End(outcome) ==
  /\ pc' = "idle" /\ result' = outcome
  /\ todo' = <<>> /\ visited' = {} /\ failed' = FALSE /\ lock' = NoLock
  /\ UNCHANGED <<request, mine, flat, skipped, started>>

(* The next reference the walk comes to, none of that name being visited.  *)
Walking(r) ==
  /\ pc \in {"load", "graph"}
  /\ todo # <<>> /\ r = Head(todo)

SkipVisited(r) ==
  /\ Walking(r) /\ Name[r.package] \in visited
  /\ todo' = Tail(todo)
  /\ failed' = FALSE
  /\ Goto(pc)
  /\ UNCHANGED <<worldVars, projectVars, mine, flat, visited, lock, skipped>>

(* The version whose definition packageFromCachedRevision reads, if the    *)
(* cached repository, whose HEAD is given, has it.                         *)
Revision(r, head) == IF r.pin = Unpinned THEN head ELSE r.pin

(* refreshDependencyGraph at one package: cached, listed, its definition   *)
(* read, its name marked, and the recursion into what it declares.         *)
Defined(r, head) == /\ head # 0 /\ Revision(r, head) <= head
                    /\ <<r.package, Revision(r, head)>> \notin Broken
Visit(r) ==
  LET head == Fetched(r.package, cached[r.package], FALSE)
  IN /\ Walking(r) /\ Name[r.package] \notin visited
     /\ cached' = [cached EXCEPT ![r.package] = head]
     /\ flat' = IF head = 0 THEN flat ELSE Append(flat, r)
     /\ IF Defined(r, head)
        THEN /\ visited' = visited \cup {Name[r.package]}
             /\ todo' = Needs[r.package][Revision(r, head)] \o Tail(todo)
             /\ failed' = FALSE
        ELSE /\ todo' = Tail(todo)
             /\ failed' = TRUE
             /\ UNCHANGED visited
     /\ Goto(pc)
     /\ UNCHANGED <<published, online, writable, projectVars, mine, lock, skipped>>

(* Faulty variant: a plain ensure starts from an empty lock.               *)
LoadedCleared ==
  /\ pc = "load" /\ todo = <<>>
  /\ IF failed \/ (request.command # "uninstall" /\ disk = Torn) THEN End("failed")
     ELSE /\ Goto(CASE request.command = "ensure"    -> "ensure"
                    [] request.command = "install"   -> "choose"
                    [] request.command = "uninstall" -> "remove")
          /\ todo' = IF request.command = "ensure" THEN flat ELSE request.targets
          /\ lock' = IF disk = Torn \/ request.command = "ensure" THEN NoLock ELSE disk
          /\ UNCHANGED <<mine, walkVars, skipped>>
  /\ UNCHANGED <<worldVars, projectVars>>

(* The package is loaded, and the lock with it, unless it is torn.         *)
Loaded ==
  /\ pc = "load" /\ todo = <<>>
  /\ IF failed \/ (request.command # "uninstall" /\ disk = Torn) THEN End("failed")
     ELSE /\ Goto(CASE request.command = "ensure"    -> "ensure"
                    [] request.command = "install"   -> "choose"
                    [] request.command = "uninstall" -> "remove")
          /\ todo' = IF request.command = "ensure" THEN flat ELSE request.targets
          /\ lock' = IF disk = Torn THEN NoLock ELSE disk
          /\ UNCHANGED <<mine, walkVars, skipped>>
  /\ UNCHANGED <<worldVars, projectVars>>

(* Faulty variant: every target is written to pawn.json at once.           *)
ChooseWriting ==
  /\ pc = "choose" /\ todo # <<>>
  /\ LET t == Head(todo)
         r == IF t.pin = Unpinned THEN [t EXCEPT !.pin = published[t.package]] ELSE t
     IN IF t.pin = Unpinned /\ ~online THEN End("failed") /\ UNCHANGED declared
        ELSE IF r \in Range(mine)
        THEN /\ Goto("save")
             /\ UNCHANGED <<declared, mine, todo, walkVars, lock, skipped>>
        ELSE /\ mine' = Append(mine, r)
             /\ declared' = mine'
             /\ todo' = Tail(todo)
             /\ Goto("choose")
             /\ UNCHANGED <<walkVars, lock, skipped>>
  /\ UNCHANGED <<worldVars, vendor, disk>>

(* Install: a target without a version gets the newest tag; one that is    *)
(* there already ends the installation, without an error.                  *)
Choose ==
  /\ pc = "choose" /\ todo # <<>>
  /\ LET t == Head(todo)
         r == IF t.pin = Unpinned THEN [t EXCEPT !.pin = published[t.package]] ELSE t
     IN IF t.pin = Unpinned /\ ~online THEN End("failed")
        ELSE IF r \in Range(mine)
        THEN Goto("save") /\ UNCHANGED <<mine, todo, walkVars, lock, skipped>>
        ELSE /\ mine' = Append(mine, r)
             /\ todo' = Tail(todo)
             /\ Goto("choose")
             /\ UNCHANGED <<walkVars, lock, skipped>>
  /\ UNCHANGED <<worldVars, projectVars>>

Chosen ==
  /\ pc = "choose" /\ todo = <<>>
  /\ Goto("graph")
  /\ todo' = mine
  /\ flat' = <<>> /\ visited' = {} /\ failed' = FALSE
  /\ UNCHANGED <<worldVars, projectVars, mine, lock, skipped>>

Flattened ==
  /\ pc = "graph" /\ todo = <<>>
  /\ IF failed THEN End("failed")
     ELSE /\ Goto("ensure")
          /\ todo' = flat
          /\ UNCHANGED <<mine, walkVars, lock, skipped>>
  /\ UNCHANGED <<worldVars, projectVars>>

(* One dependency of ensureDependencies; install forces all of them.  Its  *)
(* resources are installed last, when its entry is recorded: they may not  *)
(* be had offline, or its definition may not be readable.                  *)
Resourceful(p) == online /\ \A v \in Versions : <<p, v>> \notin Broken

EnsureNext ==
  /\ pc = "ensure" /\ todo # <<>>
  /\ LET r == Head(todo)
         p == r.package
     IN \E s \in {Ensured(r, request.command = "install")} :
        /\ vendor' = [vendor EXCEPT ![Name[p]] = s.copy]
        /\ cached' = [cached EXCEPT ![p] = s.head]
        /\ IF s.ok
           THEN /\ lock' = [lock EXCEPT ![p] = Recorded(@, r, s.copy)]
                /\ skipped' \in {skipped} \cup (IF Resourceful(p) THEN {} ELSE {skipped \cup {p}})
           ELSE /\ skipped' = skipped \cup {p}
                /\ UNCHANGED lock
  /\ todo' = Tail(todo)
  /\ Goto("ensure")
  /\ UNCHANGED <<published, online, writable, declared, disk, mine, walkVars>>

EnsuredAll ==
  /\ pc = "ensure" /\ todo = <<>>
  /\ Goto("runtime")
  /\ UNCHANGED <<worldVars, projectVars, mine, todo, walkVars, lock, skipped>>

(* lockfile.Save writes pawn.lock in place, unless nothing is modified.    *)
SaveLock  == (writable \/ lock = disk) /\ disk' = lock
SaveFails == ~writable /\ disk' \in {disk, Torn}

(* ensureParentRuntime: the runtime files may not be had offline; else the *)
(* lock is saved with them, or a warning says that it is not.              *)
Runtime ==
  /\ pc = "runtime"
  /\ \/ ~online /\ End("failed") /\ UNCHANGED disk
     \/ /\ SaveLock \/ SaveFails
        /\ Goto(IF request.command = "install" THEN "write" ELSE "prune")
        /\ UNCHANGED <<mine, todo, walkVars, lock, skipped>>
  /\ UNCHANGED <<worldVars, vendor, declared>>

PackagesOf(refs) == {r.package : r \in Range(refs)}

(* What the definition at the HEAD of the cached repository declares.      *)
AtHead(p) == IF cached[p] = 0 THEN {} ELSE PackagesOf(Needs[p][cached[p]])

(* Faulty variant: the walk starts below the project.                      *)
CurrentBelow(refs) ==
  LET reach[n \in 0 .. Cardinality(Packages)] ==
        IF n = 0 THEN UNION {AtHead(p) : p \in PackagesOf(refs)}
        ELSE reach[n - 1] \cup UNION {AtHead(p) : p \in reach[n - 1]}
  IN reach[Cardinality(Packages)]

(* currentLockfileDependencies: whatever the definitions at the HEAD of    *)
(* the cached repositories declare, over and over, from pawn.json on.      *)
Current(refs) ==
  LET reach[n \in 0 .. Cardinality(Packages)] ==
        IF n = 0 THEN PackagesOf(refs)
        ELSE reach[n - 1] \cup UNION {AtHead(p) : p \in reach[n - 1]}
  IN reach[Cardinality(Packages)]

(* Faulty variant: entries are compared by the name of their repository.   *)
PruneByName ==
  /\ pc = "prune"
  /\ lock' = [p \in Packages |->
                IF \E q \in Current(mine) : Name[q] = Name[p] THEN lock[p] ELSE None]
  /\ Goto("save")
  /\ UNCHANGED <<worldVars, projectVars, mine, todo, walkVars, skipped>>

(* The walk of currentLockfileDependencies fails at a definition it cannot *)
(* read.  The lock has been saved by then.                                 *)
Unreadable(p) == <<p, cached[p]>> \in Broken

(* pruneLockfileDependencies.                                              *)
Prune ==
  /\ pc = "prune"
  /\ IF \E p \in Current(mine) : Unreadable(p) THEN End("failed")
     ELSE /\ lock' = [p \in Packages |-> IF p \in Current(mine) THEN lock[p] ELSE None]
          /\ Goto("save")
          /\ UNCHANGED <<mine, todo, walkVars, skipped>>
  /\ UNCHANGED <<worldVars, projectVars>>

(* The first occurrence of a reference is taken out of a list.             *)
Without(refs, r) ==
  IF r \notin Range(refs) THEN refs
  ELSE LET i == CHOOSE j \in DOMAIN refs : refs[j] = r /\ \A k \in 1 .. j - 1 : refs[k] # r
       IN SubSeq(refs, 1, i - 1) \o SubSeq(refs, i + 1, Len(refs))

(* Uninstall: what is not there is only warned about.                      *)
Remove ==
  /\ pc = "remove"
  /\ IF todo = <<>> THEN Goto("write") /\ UNCHANGED <<mine, todo>>
     ELSE Goto("remove") /\ mine' = Without(mine, Head(todo)) /\ todo' = Tail(todo)
  /\ UNCHANGED <<worldVars, projectVars, walkVars, lock, skipped>>

(* WriteDefinition, in place: what cannot be written may be cut short, and *)
(* the command fails.  Uninstall leaves the lock and dependencies/ alone.  *)
Write ==
  /\ pc = "write"
  /\ IF writable
     THEN /\ declared' = mine
          /\ last' = [p \in Packages |-> None]
          /\ IF request.command = "uninstall" THEN End("done")
             ELSE Goto("save") /\ UNCHANGED <<mine, todo, walkVars, lock, skipped>>
     ELSE declared' \in {declared, Torn} /\ End("failed") /\ UNCHANGED last
  /\ UNCHANGED <<worldVars, vendor, disk>>

(* Two packages of one name reach the list only if the definition of the   *)
(* first could not be read: the second then moves the copy of the first.   *)
Alone(p) == \A r \in Range(flat) : Name[r.package] = Name[p] => r.package = p

(* What is installed for a reference of pawn.json the command dealt with.  *)
Direct        == {r \in Range(mine) : r \in Range(flat) /\ r.package \notin skipped}
InstalledAs(p) == LET copy == vendor[Name[p]] IN [package |-> copy.package, at |-> copy.at]

(* The last save; that it fails is an error of ensure, and only a warning  *)
(* of install.                                                             *)
Save ==
  /\ pc = "save"
  /\ \/ /\ SaveLock /\ End("done")
        /\ last' = IF request.command = "ensure"
                   THEN [p \in Packages |-> IF p \in {r.package : r \in Direct} /\ Alone(p)
                                            THEN InstalledAs(p) ELSE last[p]]
                   ELSE last
     \/ /\ SaveFails /\ UNCHANGED last
        /\ End(IF request.command = "ensure" THEN "failed" ELSE "done")
  /\ UNCHANGED <<worldVars, vendor, declared>>

Between ==
  \/ \E r \in References : SkipVisited(r) \/ Visit(r)
  \/ Loaded \/ Choose \/ Chosen \/ Flattened \/ EnsureNext \/ EnsuredAll
  \/ Runtime \/ Prune \/ Remove

Command == /\ (Between /\ UNCHANGED last) \/ Write \/ Save
           /\ UNCHANGED changes

--------------------------------------------------------------------------------
(* The environment.                                                        *)

Disturb ==
  /\ started' = [started EXCEPT !.calm = FALSE]
  /\ UNCHANGED <<pc, request, mine, todo, walkVars, lock, skipped, result, last>>

Publish(p) ==
  /\ published[p] < MaxVersion
  /\ published' = [published EXCEPT ![p] = @ + 1]
  /\ Disturb
  /\ UNCHANGED <<online, writable, cached, projectVars>>

Network ==
  /\ online' = ~online
  /\ Disturb
  /\ UNCHANGED <<published, writable, cached, projectVars>>

(* The disk fills up, the files become read-only, or are so no more.       *)
Permissions ==
  /\ writable' = ~writable
  /\ started' = [started EXCEPT !.calm = FALSE, !.writable = FALSE]
  /\ UNCHANGED <<pc, request, mine, todo, walkVars, lock, skipped, result, last>>
  /\ UNCHANGED <<published, online, cached, projectVars>>

(* Another project of the user refreshes a cached repository.              *)
RefreshCache(p) ==
  /\ online /\ cached[p] \notin {0, published[p]}
  /\ cached' = [cached EXCEPT ![p] = published[p]]
  /\ Disturb
  /\ UNCHANGED <<published, online, writable, projectVars>>

(* The files are the user's while no command runs.  A new checkout of the  *)
(* project, on another machine, comes with pawn.json and pawn.lock alone.  *)
Nothing ==
  /\ pc' = "idle" /\ request' = None /\ mine' = <<>> /\ todo' = <<>>
  /\ flat' = <<>> /\ visited' = {} /\ failed' = FALSE
  /\ lock' = NoLock /\ skipped' = {} /\ result' = "none"
  /\ started' = Unstarted

UserTurn == pc = "idle" /\ Nothing

Forget == last' = [p \in Packages |-> None]

Edit ==
  /\ UserTurn /\ Forget
  /\ declared' \in Manifests
  /\ UNCHANGED <<worldVars, vendor, disk>>

DeleteLock ==
  /\ UserTurn /\ Forget
  /\ disk = Torn /\ disk' = NoLock
  /\ UNCHANGED <<worldVars, vendor, declared>>

NewCheckout ==
  /\ UserTurn
  /\ vendor' = [n \in Names |-> NoCopy]
  /\ cached' = [p \in Packages |-> 0]
  /\ UNCHANGED <<published, online, writable, declared, disk, last>>

(* The command is killed, maybe in the middle of a write.                  *)
Crash ==
  /\ pc # "idle"
  /\ declared' \in {declared} \cup (IF pc = "write" THEN {Torn} ELSE {})
  /\ disk' \in {disk} \cup (IF pc \in {"runtime", "save"} THEN {Torn} ELSE {})
  /\ Nothing
  /\ UNCHANGED <<worldVars, vendor, last>>

Environment ==
  /\ changes < MaxChanges
  /\ changes' = changes + 1
  /\ \/ \E p \in Packages : Publish(p) \/ RefreshCache(p)
     \/ Network \/ Permissions \/ Edit \/ DeleteLock \/ NewCheckout \/ Crash

Next == (\E q \in Requests : Start(q)) \/ Command \/ Environment

Spec == Init /\ [][Next]_vars /\ WF_vars(Command)

--------------------------------------------------------------------------------
(* Properties.                                                             *)

Finished(command) == pc = "idle" /\ result = "done" /\ request.command = command

(* A lock that has the version of each dependency the command dealt with.  *)
TellsDirect(l) ==
  \A r \in Direct : Alone(r.package) =>
    /\ l[r.package] # None
    /\ InstalledAs(r.package) = [package |-> l[r.package].package, at |-> l[r.package].at]

(* After ensure each dependency pawn.json declares, unless it was skipped, *)
(* has an entry in pawn.lock, and the entry is the version that is there.  *)
DirectIsLocked == Finished("ensure") => disk # Torn /\ TellsDirect(disk)

(* After ensure no entry is left over from what was uninstalled, from what *)
(* a package has ceased to need, or from an install that was cut short:    *)
(* every entry is in the least set that is closed under what is declared,  *)
(* by the cached repositories as they are if none was refreshed since.     *)
Closed(S) == \A p \in S : AtHead(p) \subseteq S
LockIsNeeded ==
  Finished("ensure") /\ started.calm =>
    \A S \in SUBSET Packages :
      PackagesOf(declared) \subseteq S /\ Closed(S) => {p \in Packages : disk[p] # None} \subseteq S

(* A command that fails, at whatever stage, has declared nothing; and the  *)
(* pawn.lock it leaves is the one it found, or, since the lock is saved    *)
(* with the runtime, before the definitions are read once more and before  *)
(* pawn.json is written, one that has the version of every dependency the  *)
(* command installed: never a part of them.  Only a file that could not be *)
(* written is cut short.                                                   *)
FailureKeepsProject ==
  pc = "idle" /\ result = "failed" =>
    /\ declared = started.declared \/ (declared = Torn /\ ~started.writable)
    /\ \/ disk = started.disk
       \/ disk = Torn /\ ~started.writable
       \/ disk # Torn /\ TellsDirect(disk)

(* From one ensure to the next, with new versions, refreshed caches, lost  *)
(* networks, crashes and new checkouts in between, a dependency pawn.json  *)
(* declares, alone of its name, stays on its version until the user or     *)
(* install changes it.                                                     *)
DirectIsStable ==
  [][\A p \in Packages : last[p] # None /\ last'[p] # None => last'[p] = last[p]]_vars

(* Refuted: ensure, online, with a readable lock and only published tags   *)
(* in pawn.json, installs "what's listed in your package definition"       *)
(* (docs/packages.md:54) and does not fail.                                *)
ListedIsInstallable ==
  pc = "idle" /\ result = "failed" /\ request.command = "ensure" /\ started.calm /\ started.writable =>
    started.disk = Torn \/ \E r \in Range(mine) : r.pin > published[r.package]

================================================================================
