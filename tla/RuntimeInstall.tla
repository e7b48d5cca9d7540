------------------------------ MODULE RuntimeInstall ---------------------------
(***************************************************************************)
(* The installation of the server files: the list of runtimes, the cached  *)
(* archives, the staging directory that all projects share, the files in   *)
(* the directory the server runs in, and their record in pawn.lock.        *)
(*                                                                         *)
(* Three commands install a runtime.  "ensure" (ensureParentRuntime)       *)
(* records what it installed in pawn.lock; "run" (runtime.Ensure) installs *)
(* in the same place and records nothing; "try", which runs a package that *)
(* is not local, unpacks the server in <cache>/runtime/<version> first.    *)
(* One step is one file or one stage of a command; a command may be killed *)
(* between any two of them, and fail where the code reports a failure.     *)
(***************************************************************************)
EXTENDS Naturals

CONSTANTS Names,      \* the runtime versions users write in pawn.json
          Releases,   \* what the archives contain
          Files,      \* paths of the files of all releases
          Ships,      \* [Releases -> SUBSET Files]
          Named,      \* [Names -> SUBSET Releases]: what a name stands for, over time
          Layouts,    \* what pawn.json says of the runtime's type and directory
          MaxFaults   \* bound: faults and edits of a behaviour

Marks == {"absent", "torn", "bad", "edited"}

ASSUME NamesAssumption  == Named \in [Names -> (SUBSET Releases) \ {{}}]
ASSUME ShipsAssumption  == Ships \in [Releases -> (SUBSET Files) \ {{}}]
ASSUME MarksAssumption  == Marks \cap Releases = {}
ASSUME LayoutsAssumption == Layouts \subseteq [typed : BOOLEAN, separate : BOOLEAN] /\ Layouts # {}
ASSUME FaultsAssumption == MaxFaults \in Nat

Contents  == Releases \cup Marks       \* of one file; "absent" is no file
FileSets  == [Files -> Contents]
NoFiles   == [f \in Files |-> "absent"]
Present(files) == {f \in Files : files[f] # "absent"}

Commands == {"ensure", "run", "try"}
Stages   == {"idle", "stage", "list", "cached", "download", "checksum", "unpack",
             "manifest", "inspect", "remove", "copy", "plugins", "record"}

VARIABLES
  name, layout, \* pawn.json's runtime version; [typed, separate]: does it state a
              \* runtime_type, does it set a runtime_dir?
  published,  \* [Names -> Releases]: what the list on the network says
  list,       \* [fresh, names]: runtimes.json in the cache
  archive,    \* [Names -> [Releases -> {"absent", "good", "bad"}]]
  staged,     \* [Names -> FileSets]: runtime_staging/<platform>/<version>
  manifest,   \* [Names -> [status, files]]: the manifest in the staging directory
  home,       \* FileSets: the files in the directory a local runtime runs in
  shared,     \* FileSets: <cache>/runtime/<version>, while a "try" uses it
  lock,       \* [status, name, files]: the runtime recorded in pawn.lock
  command, pc, unpackTo, todo, info, result,
  faults,     \* counts what the bound MaxFaults limits
  excused,    \* history: something outside the code made this command fail
  slipped,    \* history: an archive that never passed its checksum was kept
  unrecorded  \* history: files put in home that no pawn.lock has recorded yet

cacheVars   == <<list, archive, staged, manifest, shared>>
commandVars == <<command, pc, unpackTo, todo, info, result>>
historyVars == <<faults, excused, slipped, unrecorded>>
vars == <<name, layout, published, cacheVars, home, lock, commandVars, historyVars>>

NoRuntime      == [status |-> "none", name |-> CHOOSE n \in Names : TRUE, files |-> NoFiles]
NoManifest     == [status |-> "none", files |-> NoFiles]
Written(files) == [status |-> "written", files |-> files]

Release == list.names[name]             \* FindPackage

(* All variables have their types; what is still to be unpacked is in the  *)
(* archive, what is still to be copied in the staging manifest.            *)
TypeOK ==
  /\ name \in Names
  /\ layout \in Layouts
  /\ published \in [Names -> Releases]
  /\ list \in [fresh : BOOLEAN, names : [Names -> Releases]]
  /\ archive \in [Names -> [Releases -> {"absent", "good", "bad"}]]
  /\ staged \in [Names -> FileSets]
  /\ manifest \in [Names -> [status : {"none", "torn", "written"}, files : FileSets]]
  /\ home \in FileSets
  /\ shared \in FileSets
  /\ lock \in [status : {"none", "torn", "written"}, name : Names, files : FileSets]
  /\ command \in Commands
  /\ pc \in Stages
  /\ unpackTo \in {"staged", "shared"}
  /\ todo \subseteq Files
  /\ pc = "unpack" => todo \subseteq Ships[Release]
  /\ pc = "copy" => todo \subseteq Present(info)
  /\ info \in FileSets
  /\ result \in {"none", "ok", "failed"}
  /\ faults \in 0..MaxFaults
  /\ excused \in BOOLEAN
  /\ slipped \in BOOLEAN
  /\ unrecorded \subseteq Files

Init ==
  /\ name \in Names
  /\ layout \in Layouts
  /\ published \in {p \in [Names -> Releases] : \A n \in Names : p[n] \in Named[n]}
  /\ list = [fresh |-> FALSE, names |-> published]
  /\ archive = [n \in Names |-> [r \in Releases |-> "absent"]]
  /\ staged = [n \in Names |-> NoFiles]
  /\ manifest = [n \in Names |-> NoManifest]
  /\ home = NoFiles
  /\ shared = NoFiles
  /\ lock = NoRuntime
  /\ command = "ensure" /\ pc = "idle" /\ unpackTo = "staged"
  /\ todo = {} /\ info = NoFiles /\ result = "none"
  /\ faults = 0 /\ excused = FALSE /\ slipped = FALSE /\ unrecorded = {}

--------------------------------------------------------------------------------
Place   == IF command = "try" THEN shared ELSE home   \* cfg.WorkingDir

Goto(stage) == pc' = stage
Fault       == faults < MaxFaults /\ faults' = faults + 1

(* The process ends: with an error, with success, or killed.               *)
End(verdict) ==
  /\ Goto("idle") /\ result' = verdict
  /\ todo' = {} /\ info' = NoFiles /\ unpackTo' = "staged"
  /\ UNCHANGED command
Fail == End("failed")

(* verifyRuntimeManifest: every listed file is there with its size and     *)
(* hash; files that are not listed do not matter.                          *)
Verified(files, directory) == \A f \in Present(files) : directory[f] = files[f]

Staged(n) == manifest[n].status = "written" /\ Verified(manifest[n].files, staged[n])

(* What earlier runs left in the shared directory: nothing, or a release,  *)
(* that of an alias which has moved on since, perhaps.                     *)
ReleaseFiles(r) == [f \in Files |-> IF f \in Ships[r] THEN r ELSE "absent"]
Leftovers == {NoFiles} \cup {ReleaseFiles(r) : r \in Releases}

Begin(c) ==
  /\ pc = "idle"
  /\ command' = c
  /\ excused' = FALSE
  /\ UNCHANGED <<info, todo>>
  /\ result' = "none"
  \* the ensure command cannot start without a readable pawn.lock
  /\ c = "ensure" => lock.status # "torn"
  /\ unpackTo' = IF c = "try" THEN "shared" ELSE "staged"
  /\ Goto(IF c = "try" THEN "list" ELSE "stage")
  /\ shared' \in (IF c = "try" THEN Leftovers ELSE {NoFiles})
  /\ UNCHANGED <<name, layout, published, list, archive, staged, manifest, home, lock,
                 faults, slipped, unrecorded>>

(* Faulty variant: the manifest need only be there.                        *)
UseStageUnverified ==
  /\ pc = "stage" /\ manifest[name].status # "none"
  /\ info' = manifest[name].files
  /\ Goto("inspect")
  /\ UNCHANGED <<name, layout, published, cacheVars, home, lock, command, unpackTo,
                 todo, result, historyVars>>

(* ensureStagedRuntime: a staging directory that its manifest vouches for  *)
(* is used, any other one is emptied and filled again.                     *)
UseStage ==
  /\ pc = "stage" /\ Staged(name)
  /\ info' = manifest[name].files
  /\ Goto("inspect")
  /\ UNCHANGED <<name, layout, published, cacheVars, home, lock, command, unpackTo,
                 todo, result, historyVars>>

CleanStage ==
  /\ pc = "stage" /\ ~Staged(name)
  /\ staged' = [staged EXCEPT ![name] = NoFiles]
  /\ manifest' = [manifest EXCEPT ![name] = NoManifest]
  /\ unpackTo' = "staged"
  /\ Goto("list")
  /\ UNCHANGED <<name, layout, published, list, archive, shared, home, lock, command,
                 todo, info, result, historyVars>>

(* A list younger than a week is read, an older one is downloaded again    *)
(* and replaced; there is no falling back to the old one.                  *)
GetOrRefreshJSON(old, new) == IF old.fresh THEN old ELSE [fresh |-> TRUE, names |-> new]

(* GetRuntimeList, and in it the version.                                  *)
FindPackage ==
  /\ pc = "list"
  /\ list' = GetOrRefreshJSON(list, published)
  /\ Goto("cached")
  /\ UNCHANGED <<name, layout, published, archive, staged, manifest, shared, home,
                 lock, command, unpackTo, todo, info, result, historyVars>>

(* FromCache: the archive is unpacked without a look at its checksum.      *)
Cached == archive[name][Release] # "absent"
FromCache ==
  /\ pc = "cached"
  /\ IF Cached
     THEN Goto("unpack") /\ todo' = Ships[Release]
     ELSE Goto("download") /\ UNCHANGED todo
  /\ UNCHANGED <<name, layout, published, cacheVars, home, lock, command, unpackTo,
                 info, result, historyVars>>

(* A file that is downloaded has a name of its own until it is whole.      *)
WriteFromReaderAtomic(content) == archive' = [archive EXCEPT ![name][Release] = content]

(* FromNet: the file appears in the cache, then its MD5 is compared.       *)
Download ==
  /\ pc = "download"
  /\ \E c \in {"good", "bad"} :
       /\ WriteFromReaderAtomic(c)
       /\ excused' = (excused \/ c = "bad")
  /\ Goto("checksum")
  /\ UNCHANGED <<name, layout, published, list, staged, manifest, shared, home, lock,
                 command, unpackTo, todo, info, result, faults, slipped, unrecorded>>

(* The network may be down whenever the list or an archive is wanted.      *)
DownloadFails ==
  /\ pc = "download" \/ (pc = "list" /\ ~list.fresh)
  /\ excused' = TRUE
  /\ Fail
  /\ UNCHANGED <<name, layout, published, cacheVars, home, lock, faults, slipped,
                 unrecorded>>

(* Faulty variant: an archive that failed the comparison stays.            *)
MatchesChecksumKept ==
  /\ pc = "checksum"
  /\ IF archive[name][Release] = "good"
     THEN /\ Goto("unpack") /\ todo' = Ships[Release]
          /\ UNCHANGED <<command, unpackTo, info, result>>
     ELSE Fail
  /\ UNCHANGED <<name, layout, published, cacheVars, home, lock, historyVars>>

(* FromNet removes an archive that is not what the list says it is.        *)
MatchesChecksum ==
  /\ pc = "checksum"
  /\ IF archive[name][Release] = "good"
     THEN /\ Goto("unpack") /\ todo' = Ships[Release]
          /\ UNCHANGED <<archive, command, unpackTo, info, result>>
     ELSE /\ archive' = [archive EXCEPT ![name][Release] = "absent"]
          /\ Fail
  /\ UNCHANGED <<name, layout, published, list, staged, manifest, shared, home, lock,
                 historyVars>>

(* Untar and Unzip write file after file into the destination.             *)
Unpacked(content, f) ==
  IF unpackTo = "staged"
  THEN staged' = [staged EXCEPT ![name][f] = content] /\ UNCHANGED shared
  ELSE shared' = [shared EXCEPT ![f] = content] /\ UNCHANGED staged

Unpack(f) ==
  /\ pc = "unpack" /\ f \in todo
  /\ Unpacked(IF archive[name][Release] = "good" THEN Release ELSE "bad", f)
  /\ todo' = todo \ {f}
  /\ UNCHANGED <<name, layout, published, list, archive, manifest, home, lock, command,
                 pc, unpackTo, info, result, historyVars>>

(* What is not the right archive need not be an archive: the extraction    *)
(* fails, and the file stays in the cache.                                 *)
UnpackFails ==
  /\ pc = "unpack" /\ archive[name][Release] = "bad"
  /\ Fail
  /\ UNCHANGED <<name, layout, published, cacheVars, home, lock, historyVars>>

(* PrepareRuntimeDirectory is followed by runtime.Ensure in the same place.*)
UnpackEnds ==
  /\ pc = "unpack" /\ todo = {}
  /\ Goto(IF unpackTo = "staged" THEN "manifest" ELSE "stage")
  /\ UNCHANGED <<name, layout, published, cacheVars, home, lock, command, unpackTo,
                 todo, info, result, historyVars>>

(* buildRuntimeManifest hashes what is there, whatever it is.              *)
WriteManifest ==
  /\ pc = "manifest"
  /\ manifest' = [manifest EXCEPT ![name] = Written(staged[name])]
  /\ info' = staged[name]
  /\ Goto("inspect")
  /\ UNCHANGED <<name, layout, published, list, archive, staged, shared, home, lock,
                 command, unpackTo, todo, result, historyVars>>

--------------------------------------------------------------------------------
(* EnsureBinariesContext.                                                  *)

(* loadInstalledRuntimeManifest looks for pawn.lock in the working         *)
(* directory: with a runtime_dir, or in the shared directory, it finds none*)
Existing ==
  IF command = "try" \/ layout.separate THEN NoRuntime ELSE lock

(* Faulty variant: the version is not compared.                            *)
MatchesAnyRuntime(record) == record.status = "written"

(* matchesRuntime.  The manifest has the effective runtime type, pawn.lock *)
(* the one of pawn.json, which is empty unless it is stated there.         *)
MatchesRuntime(record) == record.name = name /\ layout.typed

UpToDate ==
  \/ /\ Existing.status = "written"
     /\ MatchesRuntime(Existing)
     /\ Verified(Existing.files, Place)
  \/ /\ Existing.status = "none"
     /\ Verified(info, Place)

(* Faulty variant: the files of the previous runtime stay where they are.  *)
InspectInPlace ==
  /\ pc = "inspect"
  /\ IF UpToDate THEN Goto("plugins") /\ UNCHANGED todo
     ELSE Goto("copy") /\ todo' = Present(info)
  /\ UNCHANGED <<name, layout, published, cacheVars, home, lock, command, unpackTo,
                 info, result, historyVars>>

Inspect ==
  /\ pc = "inspect"
  /\ \/ UpToDate /\ Goto("plugins") /\ UNCHANGED todo
     \/ /\ ~UpToDate /\ Existing.status = "written"
        /\ Goto("remove") /\ todo' = Present(Existing.files)
     \/ /\ ~UpToDate /\ Existing.status # "written"
        /\ Goto("copy") /\ todo' = Present(info)
  /\ UNCHANGED <<name, layout, published, cacheVars, home, lock, command, unpackTo,
                 info, result, historyVars>>

(* removeRuntimeFiles; only a runtime with a record is ever removed, and   *)
(* only home has records.                                                  *)
RemoveFile(f) ==
  /\ pc = "remove" /\ f \in todo
  /\ home' = [home EXCEPT ![f] = "absent"]
  /\ unrecorded' = unrecorded \ {f}
  /\ todo' = todo \ {f}
  /\ UNCHANGED <<name, layout, published, cacheVars, lock, command, pc, unpackTo,
                 info, result, faults, excused, slipped>>

(* An error stops the removal, not the installation: it is only printed.   *)
(* What stays has lost its record with the next save of pawn.lock.         *)
RemoveEnds ==
  /\ pc = "remove"
  /\ \/ todo = {} /\ UNCHANGED <<faults, unrecorded>>
     \/ /\ todo # {} /\ Fault
        /\ unrecorded' = unrecorded \cup (todo \cap Present(home))
  /\ todo' = Present(info)
  /\ Goto("copy")
  /\ UNCHANGED <<name, layout, published, cacheVars, home, lock, command, unpackTo,
                 info, result, excused, slipped>>

PutInPlace(f, content) ==
  IF command = "try"
  THEN /\ shared' = [shared EXCEPT ![f] = content]
       /\ UNCHANGED <<home, unrecorded>>
  ELSE /\ home' = [home EXCEPT ![f] = content]
       /\ unrecorded' = unrecorded \cup {f}
       /\ UNCHANGED shared

(* Faulty variant: only what is missing is copied.                         *)
CopyMissingFile(f) ==
  /\ pc = "copy" /\ f \in todo
  /\ PutInPlace(f, IF Place[f] = "absent" THEN staged[name][f] ELSE Place[f])
  /\ todo' = todo \ {f}
  /\ UNCHANGED <<name, layout, published, list, archive, staged, manifest, lock,
                 command, pc, unpackTo, info, result, faults, excused, slipped>>

(* copyRuntimeFiles truncates and rewrites file after file.                *)
CopyFile(f) ==
  /\ pc = "copy" /\ f \in todo
  /\ PutInPlace(f, staged[name][f])
  /\ todo' = todo \ {f}
  /\ UNCHANGED <<name, layout, published, list, archive, staged, manifest, lock,
                 command, pc, unpackTo, info, result, faults, excused, slipped>>

(* A file that is in use cannot be opened, a full disk leaves half of it.  *)
CopyFails(f) ==
  /\ pc = "copy" /\ f \in todo
  /\ Fault /\ excused' = TRUE
  /\ \/ UNCHANGED <<home, shared, unrecorded>>
     \/ PutInPlace(f, "torn")
  /\ Fail
  /\ UNCHANGED <<name, layout, published, list, archive, staged, manifest, lock, slipped>>

CopyEnds ==
  /\ pc = "copy" /\ todo = {}
  /\ Goto("plugins")
  /\ UNCHANGED <<name, layout, published, cacheVars, home, lock, command, unpackTo,
                 todo, info, result, historyVars>>

(* EnsurePlugins, and EnsureScripts in runtime.Ensure: what they report    *)
(* comes before the record.                                                *)
EnsurePlugins ==
  /\ pc = "plugins"
  /\ IF command = "ensure"
     THEN Goto("record") /\ UNCHANGED <<result, todo, info, unpackTo, command>>
     ELSE End("ok")
  /\ UNCHANGED <<name, layout, published, cacheVars, home, lock, historyVars>>

EnsurePluginsFails ==
  /\ pc = "plugins"
  /\ Fault /\ excused' = TRUE
  /\ Fail
  /\ UNCHANGED <<name, layout, published, cacheVars, home, lock, slipped, unrecorded>>

(* What pawn.lock says of the runtime: its version and every file of the   *)
(* manifest, with its hash.                                                *)
SetRuntime(n, files) == [status |-> "written", name |-> n, files |-> files]

(* recordRuntimeToLockfile and SaveLockfile, whose failure is a warning.   *)
Record ==
  /\ pc = "record"
  /\ \/ /\ lock' = SetRuntime(name, info)
        /\ unrecorded' = unrecorded \ Present(info)
        /\ UNCHANGED <<faults, excused>>
     \/ /\ Fault /\ excused' = TRUE
        /\ UNCHANGED <<lock, unrecorded>>
  /\ End("ok")
  /\ UNCHANGED <<name, layout, published, cacheVars, home, slipped>>

--------------------------------------------------------------------------------
(* The environment.                                                        *)

(* The process is killed: the file it was writing is left half written,    *)
(* the archives are renamed into place and are not.                        *)
Torn(f) ==
  CASE pc = "unpack" -> Unpacked("torn", f) /\ UNCHANGED <<home, unrecorded>>
    [] pc = "copy"   -> PutInPlace(f, "torn") /\ UNCHANGED staged
    [] OTHER         -> UNCHANGED <<staged, shared, home, unrecorded>>

Crash ==
  /\ pc # "idle"
  /\ Fault
  /\ \/ UNCHANGED <<staged, shared, home, lock, unrecorded>>
     \/ (\E f \in todo : Torn(f)) /\ UNCHANGED lock
     \/ /\ pc = "record"
        /\ lock' = [NoRuntime EXCEPT !.status = "torn"]
        /\ unrecorded' = unrecorded \cup Present(home)
        /\ UNCHANGED <<staged, shared, home>>
  /\ manifest' = IF pc = "manifest"
                 THEN [manifest EXCEPT ![name] = [status |-> "torn", files |-> NoFiles]]
                 ELSE manifest
  /\ slipped' = (slipped \/ (pc = "checksum" /\ archive[name][Release] = "bad"))
  /\ excused' = TRUE
  /\ End("none")
  /\ UNCHANGED <<name, layout, published, list, archive>>

(* While no command runs the user edits pawn.json, a file of the server,   *)
(* or pawn.lock, and clears the cache.  A verdict is about what a command  *)
(* left, so it does not outlive an edit.                                   *)
Idle(changed) == pc = "idle" /\ changed /\ result' = "none"

SwitchRuntime(n) ==
  /\ Idle(n # name)
  /\ name' = n
  /\ UNCHANGED <<layout, published, cacheVars, home, lock, command, pc, unpackTo, todo,
                 info, historyVars>>

EditFile(f, content) ==
  /\ Idle(home[f] \notin {"absent", content}) /\ Fault
  /\ home' = [home EXCEPT ![f] = content]
  /\ UNCHANGED <<name, layout, published, cacheVars, lock, command, pc, unpackTo, todo,
                 info, excused, slipped, unrecorded>>

(* Without a readable record every file is one that no lock vouches for.   *)
DeleteLock ==
  /\ Idle(lock.status # "none") /\ Fault
  /\ lock' = NoRuntime
  /\ unrecorded' = unrecorded \cup Present(home)
  /\ UNCHANGED <<name, layout, published, cacheVars, home, command, pc, unpackTo, todo,
                 info, excused, slipped>>

ClearCache ==
  /\ Idle(\E n \in Names : staged[n] # NoFiles) /\ Fault
  /\ list' = [list EXCEPT !.fresh = FALSE]
  /\ archive' = [n \in Names |-> [r \in Releases |-> "absent"]]
  /\ staged' = [n \in Names |-> NoFiles]
  /\ manifest' = [n \in Names |-> NoManifest]
  /\ UNCHANGED <<name, layout, published, shared, home, lock, command, pc, unpackTo, todo,
                 info, excused, slipped, unrecorded>>

(* A week passes; an alias moves on to another release.                    *)
ListAges ==
  /\ Idle(list.fresh)
  /\ list' = [list EXCEPT !.fresh = FALSE]
  /\ UNCHANGED <<name, layout, published, archive, staged, manifest, shared, home, lock,
                 command, pc, unpackTo, todo, info, historyVars>>

Publish(n, r) ==
  /\ r \in Named[n] \ {published[n]}
  /\ published' = [published EXCEPT ![n] = r]
  /\ UNCHANGED <<name, layout, cacheVars, home, lock, commandVars, historyVars>>

Step ==
  \/ UseStage \/ CleanStage \/ FindPackage \/ FromCache \/ Download \/ DownloadFails
  \/ MatchesChecksum \/ UnpackFails \/ UnpackEnds \/ WriteManifest
  \/ Inspect \/ RemoveEnds \/ CopyEnds
  \/ EnsurePlugins \/ EnsurePluginsFails \/ Record
  \/ \E f \in Files : Unpack(f) \/ RemoveFile(f) \/ CopyFile(f) \/ CopyFails(f)

Next ==
  \/ Step
  \/ \E c \in Commands : Begin(c)
  \/ Crash \/ DeleteLock \/ ClearCache \/ ListAges
  \/ \E n \in Names : SwitchRuntime(n) \/ \E r \in Releases : Publish(n, r)
  \/ \E f \in Files, content \in {"absent", "edited"} : EditFile(f, content)

Spec == Init /\ [][Next]_vars /\ WF_vars(Step)
--------------------------------------------------------------------------------
(* What is put in place has been staged whole: from the moment a command   *)
(* looks at the installed files to its end, the staging directory holds    *)
(* every file it will copy (ensureStagedRuntime before removeRuntimeFiles).*)
Installing == pc \in {"inspect", "remove", "copy", "plugins", "record"}
ReplacementIsReady ==
  Installing => Staged(name) /\ manifest[name].files = info /\ Present(info) # {}

(* After a successful command the server directory holds all files of one  *)
(* release its version stands for, whatever was there before: files of     *)
(* another version, edits, or what an earlier command left half done.  The *)
(* exception is an archive kept by a process killed before its checksum:   *)
(* FromCache takes it for good.                                            *)
InstalledIsGenuine ==
  result = "ok" /\ ~slipped =>
    \E r \in Named[name] : \A f \in Ships[r] : Place[f] = r

(* A command that nothing outside disturbed succeeds: no state an earlier  *)
(* one leaves in the cache, the project or pawn.lock makes it fail.        *)
FailureHasACause == result = "failed" => excused \/ slipped

OneRelease(n) == \A r, s \in Named[n] : r = s

(* pawn.lock tells the truth after "ensure": the files it lists are there  *)
(* with the content it gives.  (A stated runtime_type makes an installation*)
(* that matches the old record stay, and the lock then gets the manifest   *)
(* of the staging directory, which may be of a later release, or of another*)
(* archive than the one a process killed before its checksum has left.)    *)
LockIsTrue ==
  /\ result = "ok" /\ command = "ensure" /\ ~excused
  /\ layout.typed => OneRelease(name) /\ ~slipped
  => lock.name = name /\ Verified(lock.files, home)

(* Every file put in the server directory is listed in pawn.lock or was    *)
(* put there by a command that recorded nothing: a change of version       *)
(* removes the first and forgets the second.                               *)
AllIsRecorded ==
  pc = "idle" /\ ~layout.separate /\ (layout.typed => \A n \in Names : OneRelease(n)) =>
    Present(home) \subseteq unrecorded \cup Present(lock.files)

(* "runtime binaries already up to date": a command does not touch an      *)
(* installation that is complete.                                          *)
Complete == \E r \in Named[name] : home = ReleaseFiles(r)
CompleteIsLeftAlone ==
  [][pc = "inspect" /\ command # "try" /\ Complete => pc' # "remove"]_vars
================================================================================
