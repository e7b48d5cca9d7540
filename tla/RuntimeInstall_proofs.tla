-------------------------- MODULE RuntimeInstall_proofs ------------------------
(***************************************************************************)
(* For any set of runtimes, releases and files, any number of faults: the  *)
(* state is well typed, nothing is removed before its replacement is ready,*)
(* a successful command has installed one release completely, and every    *)
(* failure has a cause outside the code.                                   *)
(***************************************************************************)
EXTENDS RuntimeInstall, TLAPS

LEMMA ReleaseIsRelease ==
  ASSUME TypeOK
  PROVE  /\ name \in Names /\ Release \in Releases /\ Release \in Contents
         /\ Ships[Release] \subseteq Files /\ Ships[Release] # {}
<1>1. name \in Names /\ Release \in Releases
  <2>1. list.names \in [Names -> Releases] /\ name \in Names
    BY DEF TypeOK
  <2> QED BY <2>1 DEF Release
<1>2. Ships[Release] \in (SUBSET Files) \ {{}}
  BY <1>1, ShipsAssumption DEF ShipsAssumption
<1> QED BY <1>1, <1>2 DEF Contents

LEMMA NoFilesType == NoFiles \in FileSets
BY DEF NoFiles, FileSets, Contents, Marks

LEMMA LeftoversType == Leftovers \subseteq FileSets
BY NoFilesType DEF Leftovers, ReleaseFiles, FileSets, Contents, Marks

LEMMA NoRuntimeType ==
  ASSUME NEW n \in Names
  PROVE  NoRuntime \in [status : {"none", "torn", "written"}, name : Names, files : FileSets]
<1>1. (CHOOSE m \in Names : TRUE) \in Names
  OBVIOUS
<1> QED BY <1>1, NoFilesType DEF NoRuntime

LEMMA InitTypeOK == Init => TypeOK
<1> SUFFICES ASSUME Init PROVE TypeOK
  OBVIOUS
<1> USE DEF Init
<1>1. NoRuntime \in [status : {"none", "torn", "written"}, name : Names, files : FileSets]
  BY NoRuntimeType
<1>2. published \in [Names -> Releases]
  OBVIOUS
<1>3. /\ archive \in [Names -> [Releases -> {"absent", "good", "bad"}]]
      /\ staged \in [Names -> FileSets]
      /\ manifest \in [Names -> [status : {"none", "torn", "written"}, files : FileSets]]
  BY NoFilesType DEF NoManifest
<1>4. /\ command \in Commands /\ pc \in Stages /\ unpackTo \in {"staged", "shared"}
      /\ todo \subseteq Files /\ pc # "unpack" /\ pc # "copy" /\ info \in FileSets
      /\ result \in {"none", "ok", "failed"} /\ unrecorded \subseteq Files
  BY NoFilesType DEF Commands, Stages
<1>5. faults \in 0..MaxFaults
  BY FaultsAssumption DEF FaultsAssumption
<1>8. excused \in BOOLEAN /\ slipped \in BOOLEAN
  BY Zenon
<1>6. list \in [fresh : BOOLEAN, names : [Names -> Releases]] /\ home \in FileSets /\ shared \in FileSets
  BY <1>2, NoFilesType
<1>7. name \in Names /\ layout \in Layouts
  OBVIOUS
<1> QED BY <1>1, <1>2, <1>3, <1>4, <1>5, <1>6, <1>7, <1>8, Zenon DEF TypeOK

(* Writing one file keeps a set of files one.                              *)
LEMMA PutType ==
  ASSUME NEW files \in FileSets, NEW f \in Files, NEW c \in Contents
  PROVE  [files EXCEPT ![f] = c] \in FileSets
BY DEF FileSets

LEMMA UnpackedType ==
  ASSUME TypeOK, NEW f \in Files, NEW c \in Contents, Unpacked(c, f)
  PROVE  staged' \in [Names -> FileSets] /\ shared' \in FileSets
<1>1. staged[name] \in FileSets /\ name \in Names /\ staged \in [Names -> FileSets] /\ shared \in FileSets
  BY DEF TypeOK
<1>2. [staged[name] EXCEPT ![f] = c] \in FileSets /\ [shared EXCEPT ![f] = c] \in FileSets
  BY <1>1, PutType
<1>3. [staged EXCEPT ![name][f] = c] = [staged EXCEPT ![name] = [staged[name] EXCEPT ![f] = c]]
  BY <1>1
<1> QED BY <1>1, <1>2, <1>3 DEF Unpacked

LEMMA PutInPlaceType ==
  ASSUME TypeOK, NEW f \in Files, NEW c \in Contents, PutInPlace(f, c)
  PROVE  home' \in FileSets /\ shared' \in FileSets /\ unrecorded' \subseteq Files
BY PutType DEF TypeOK, PutInPlace

LEMMA FaultType ==
  ASSUME TypeOK, Fault PROVE faults' \in 0..MaxFaults
BY FaultsAssumption DEF TypeOK, Fault, FaultsAssumption

LEMMA EndType ==
  ASSUME NEW v \in {"none", "ok", "failed"}, TypeOK, End(v)
  PROVE  /\ pc' = "idle" /\ result' = v /\ todo' = {} /\ info' \in FileSets
         /\ unpackTo' = "staged" /\ command' = command
BY NoFilesType DEF End, Goto

(* Every step keeps the types.                                             *)
LEMMA StepTypeOK == TypeOK /\ Step => TypeOK'
<1> SUFFICES ASSUME TypeOK, Step PROVE TypeOK'
  OBVIOUS
<1>0. /\ name \in Names /\ Release \in Releases /\ Release \in Contents
      /\ Ships[Release] \subseteq Files
  BY ReleaseIsRelease
<1>1. CASE UseStage
  BY <1>1 DEF UseStage, TypeOK, Goto, Stages, cacheVars, historyVars
<1>2. CASE CleanStage
  <2>1. NoManifest \in [status : {"none", "torn", "written"}, files : FileSets] /\ NoFiles \in FileSets
    BY NoFilesType DEF NoManifest
  <2>2. /\ staged' \in [Names -> FileSets]
        /\ manifest' \in [Names -> [status : {"none", "torn", "written"}, files : FileSets]]
    BY <1>2, <2>1 DEF CleanStage, TypeOK
  <2> QED BY <1>2, <2>2 DEF CleanStage, TypeOK, Goto, Stages, historyVars
<1>3. CASE FindPackage
  <2>1. list' \in [fresh : BOOLEAN, names : [Names -> Releases]]
    BY <1>3 DEF FindPackage, GetOrRefreshJSON, TypeOK
  <2> QED BY <1>3, <2>1 DEF FindPackage, TypeOK, Goto, Stages, historyVars
<1>4. CASE FromCache
  <2>1. Release' = Release
    BY <1>4 DEF FromCache, cacheVars, Release
  <2>2. todo' \subseteq Files /\ pc' \in {"unpack", "download"} /\ (pc' = "unpack" => todo' = Ships[Release])
    BY <1>0, <1>4 DEF FromCache, Goto, TypeOK
  <2> QED BY <1>4, <2>1, <2>2 DEF FromCache, TypeOK, Stages, cacheVars, historyVars
<1>5. CASE Download
  <2>1. /\ archive' \in [Names -> [Releases -> {"absent", "good", "bad"}]]
        /\ excused' \in BOOLEAN
    BY <1>0, <1>5 DEF Download, WriteFromReaderAtomic, TypeOK
  <2> QED BY <1>5, <2>1 DEF Download, TypeOK, Goto, Stages
<1>6. CASE DownloadFails
  <2>1. /\ pc' = "idle" /\ result' = "failed" /\ todo' = {} /\ info' \in FileSets
        /\ unpackTo' = "staged" /\ command' = command
    BY <1>6, EndType DEF DownloadFails, Fail
  <2> QED BY <1>6, <2>1 DEF DownloadFails, TypeOK, Stages, cacheVars
<1>7. CASE MatchesChecksum
  <2>1. CASE archive[name][Release] = "good"
    <3>1. Release' = Release
      BY <1>7 DEF MatchesChecksum, Release
    <3>2. pc' = "unpack" /\ todo' = Ships[Release]
      BY <1>7, <2>1 DEF MatchesChecksum, Goto
    <3> QED BY <1>0, <1>7, <2>1, <3>1, <3>2 DEF MatchesChecksum, TypeOK, Stages, historyVars
  <2>2. CASE archive[name][Release] # "good"
    <3>1. /\ pc' = "idle" /\ result' = "failed" /\ todo' = {} /\ info' \in FileSets
          /\ unpackTo' = "staged" /\ command' = command
      BY <1>7, <2>2, EndType DEF MatchesChecksum, Fail
    <3>2. archive' \in [Names -> [Releases -> {"absent", "good", "bad"}]]
      <4>1. archive' = [archive EXCEPT ![name][Release] = "absent"]
        BY <1>7, <2>2 DEF MatchesChecksum
      <4>2. archive \in [Names -> [Releases -> {"absent", "good", "bad"}]]
        BY DEF TypeOK
      <4> QED BY <1>0, <4>1, <4>2
    <3>3. UNCHANGED <<name, layout, published, list, staged, manifest, shared, home, lock,
                      faults, excused, slipped, unrecorded>>
      BY <1>7 DEF MatchesChecksum, historyVars
    <3> QED BY <3>1, <3>2, <3>3 DEF TypeOK, Stages
  <2> QED BY <2>1, <2>2
<1>8. CASE UnpackFails
  <2>1. /\ pc' = "idle" /\ result' = "failed" /\ todo' = {} /\ info' \in FileSets
        /\ unpackTo' = "staged" /\ command' = command
    BY <1>8, EndType DEF UnpackFails, Fail
  <2> QED BY <1>8, <2>1 DEF UnpackFails, TypeOK, Stages, cacheVars, historyVars
<1>9. CASE UnpackEnds
  BY <1>9 DEF UnpackEnds, TypeOK, Goto, Stages, cacheVars, historyVars
<1>10. CASE WriteManifest
  <2>1. /\ info' \in FileSets
        /\ manifest' \in [Names -> [status : {"none", "torn", "written"}, files : FileSets]]
    BY <1>0, <1>10 DEF WriteManifest, Written, TypeOK
  <2> QED BY <1>10, <2>1 DEF WriteManifest, TypeOK, Goto, Stages, historyVars
<1>11. CASE Inspect
  <2>0. Existing.files \in FileSets /\ info \in FileSets
    BY <1>0, NoRuntimeType DEF Existing, TypeOK
  <2>1. /\ pc' \in Stages /\ pc' # "unpack" /\ todo' \subseteq Files
        /\ pc' = "copy" => todo' = Present(info)
    BY <1>11, <2>0 DEF Inspect, TypeOK, Goto, Stages, Present
  <2> QED BY <1>11, <2>1 DEF Inspect, TypeOK, cacheVars, historyVars
<1>12. CASE RemoveEnds
  <2>1. unrecorded' \subseteq Files
    BY <1>12 DEF RemoveEnds, TypeOK
  <2>2. faults' \in 0..MaxFaults
    BY <1>12, FaultType DEF RemoveEnds, TypeOK
  <2>3. pc' = "copy" /\ todo' = Present(info) /\ todo' \subseteq Files
    BY <1>12 DEF RemoveEnds, Goto, Present
  <2> QED BY <1>12, <2>1, <2>2, <2>3 DEF RemoveEnds, TypeOK, Stages, cacheVars
<1>13. CASE CopyEnds
  BY <1>13 DEF CopyEnds, TypeOK, Goto, Stages, cacheVars, historyVars
<1>14. CASE EnsurePlugins
  <2>1. CASE command = "ensure"
    BY <1>14, <2>1 DEF EnsurePlugins, TypeOK, Goto, Stages, cacheVars, historyVars
  <2>2. CASE command # "ensure"
    <3>1. /\ pc' = "idle" /\ result' = "ok" /\ todo' = {} /\ info' \in FileSets
          /\ unpackTo' = "staged" /\ command' = command
      BY <1>14, <2>2, EndType DEF EnsurePlugins
    <3> QED BY <1>14, <3>1 DEF EnsurePlugins, TypeOK, Stages, cacheVars, historyVars
  <2> QED BY <2>1, <2>2
<1>15. CASE EnsurePluginsFails
  <2>1. /\ pc' = "idle" /\ result' = "failed" /\ todo' = {} /\ info' \in FileSets
        /\ unpackTo' = "staged" /\ command' = command
    BY <1>15, EndType DEF EnsurePluginsFails, Fail
  <2>2. faults' \in 0..MaxFaults
    BY <1>15, FaultType DEF EnsurePluginsFails
  <2> QED BY <1>15, <2>1, <2>2 DEF EnsurePluginsFails, TypeOK, Stages, cacheVars
<1>16. CASE Record
  <2>1. /\ pc' = "idle" /\ result' = "ok" /\ todo' = {} /\ info' \in FileSets
        /\ unpackTo' = "staged" /\ command' = command
    BY <1>16, EndType DEF Record
  <2>2. /\ lock' \in [status : {"none", "torn", "written"}, name : Names, files : FileSets]
        /\ unrecorded' \subseteq Files /\ faults' \in 0..MaxFaults
    BY <1>16, FaultType DEF Record, SetRuntime, TypeOK
  <2>3. excused' \in BOOLEAN
    BY <1>16, Zenon DEF Record, TypeOK
  <2> QED BY <1>16, <2>1, <2>2, <2>3 DEF Record, TypeOK, Stages, cacheVars
<1>17. ASSUME NEW f \in Files, Unpack(f) \/ RemoveFile(f) \/ CopyFile(f) \/ CopyFails(f)
       PROVE  TypeOK'
  <2>1. CASE Unpack(f)
    <3>1. staged' \in [Names -> FileSets] /\ shared' \in FileSets
      BY <1>0, <2>1, UnpackedType DEF Unpack, Contents, Marks
    <3>2. Release' = Release
      BY <2>1 DEF Unpack, Release
    <3> QED BY <2>1, <3>1, <3>2 DEF Unpack, TypeOK, Stages, historyVars
  <2>2. CASE RemoveFile(f)
    <3>1. home' \in FileSets
      BY <2>2, PutType DEF RemoveFile, TypeOK, Contents, Marks
    <3> QED BY <2>2, <3>1 DEF RemoveFile, TypeOK, cacheVars
  <2>3. CASE CopyFile(f)
    <3>1. staged[name][f] \in Contents
      BY <1>0 DEF TypeOK, FileSets
    <3>2. home' \in FileSets /\ shared' \in FileSets /\ unrecorded' \subseteq Files
      BY <2>3, <3>1, PutInPlaceType DEF CopyFile
    <3> QED BY <2>3, <3>2 DEF CopyFile, TypeOK
  <2>4. CASE CopyFails(f)
    <3>1. /\ pc' = "idle" /\ result' = "failed" /\ todo' = {} /\ info' \in FileSets
          /\ unpackTo' = "staged" /\ command' = command
      BY <2>4, EndType DEF CopyFails, Fail
    <3>2. faults' \in 0..MaxFaults
      BY <2>4, FaultType DEF CopyFails
    <3>3. "torn" \in Contents
      BY DEF Contents, Marks
    <3>4. home' \in FileSets /\ shared' \in FileSets /\ unrecorded' \subseteq Files
      BY <2>4, <3>3, PutInPlaceType DEF CopyFails, TypeOK
    <3> QED BY <2>4, <3>1, <3>2, <3>4 DEF CopyFails, TypeOK, Stages
  <2> QED BY <1>17, <2>1, <2>2, <2>3, <2>4
<1> QED BY <1>1, <1>2, <1>3, <1>4, <1>5, <1>6, <1>7, <1>8, <1>9, <1>10, <1>11, <1>12,
           <1>13, <1>14, <1>15, <1>16, <1>17 DEF Step

LEMMA NextTypeOK == TypeOK /\ [Next]_vars => TypeOK'
<1> SUFFICES ASSUME TypeOK, [Next]_vars PROVE TypeOK'
  OBVIOUS
<1>0. name \in Names /\ Release \in Releases /\ Release \in Contents
  BY ReleaseIsRelease
<1>1. CASE Step
  BY <1>1, StepTypeOK
<1>2. ASSUME NEW c \in Commands, Begin(c) PROVE TypeOK'
  <2>1. shared' \in FileSets
    BY <1>2, LeftoversType, NoFilesType DEF Begin
  <2>2. pc' \in Stages /\ pc' # "unpack" /\ pc' # "copy" /\ unpackTo' \in {"staged", "shared"}
    BY <1>2 DEF Begin, Goto, Stages
  <2> QED BY <1>2, <2>1, <2>2 DEF Begin, TypeOK
<1>3. CASE Crash
  <2>1. /\ pc' = "idle" /\ result' = "none" /\ todo' = {} /\ info' \in FileSets
        /\ unpackTo' = "staged" /\ command' = command
    BY <1>3, EndType DEF Crash
  <2>2. faults' \in 0..MaxFaults
    BY <1>3, FaultType DEF Crash
  <2>3. /\ staged' \in [Names -> FileSets] /\ shared' \in FileSets /\ home' \in FileSets
        /\ unrecorded' \subseteq Files
        /\ lock' \in [status : {"none", "torn", "written"}, name : Names, files : FileSets]
    <3>1. CASE UNCHANGED <<staged, shared, home, lock, unrecorded>>
      BY <3>1 DEF TypeOK
    <3>2. ASSUME NEW f \in todo, Torn(f), UNCHANGED lock
          PROVE  /\ staged' \in [Names -> FileSets] /\ shared' \in FileSets
                 /\ home' \in FileSets /\ unrecorded' \subseteq Files /\ lock' = lock
      <4>1. f \in Files /\ "torn" \in Contents
        BY DEF TypeOK, Contents, Marks
      <4>2. CASE pc = "unpack"
        <5>1. Unpacked("torn", f) /\ UNCHANGED <<home, unrecorded>>
          BY <3>2, <4>2 DEF Torn
        <5> QED BY <3>2, <4>1, <5>1, UnpackedType DEF TypeOK
      <4>3. CASE pc = "copy"
        <5>1. PutInPlace(f, "torn") /\ UNCHANGED staged
          BY <3>2, <4>3 DEF Torn
        <5> QED BY <3>2, <4>1, <5>1, PutInPlaceType DEF TypeOK
      <4>4. CASE pc # "unpack" /\ pc # "copy"
        BY <3>2, <4>4 DEF Torn, TypeOK
      <4> QED BY <4>2, <4>3, <4>4
    <3>3. CASE /\ lock' = [NoRuntime EXCEPT !.status = "torn"]
               /\ unrecorded' = unrecorded \cup Present(home)
               /\ UNCHANGED <<staged, shared, home>>
      BY <1>0, <3>3, NoRuntimeType DEF TypeOK, Present
    <3>4. lock \in [status : {"none", "torn", "written"}, name : Names, files : FileSets]
      BY DEF TypeOK
    <3> QED BY <1>3, <3>1, <3>2, <3>3, <3>4 DEF Crash
  <2>4. manifest' \in [Names -> [status : {"none", "torn", "written"}, files : FileSets]]
    BY <1>0, <1>3, NoFilesType DEF Crash, TypeOK
  <2>5. slipped' \in BOOLEAN /\ excused' = TRUE /\ UNCHANGED <<name, layout, published, list, archive>>
    BY <1>3 DEF Crash
  <2> QED BY <2>1, <2>2, <2>3, <2>4, <2>5 DEF TypeOK, Stages
<1>4. CASE DeleteLock
  <2>1. lock' \in [status : {"none", "torn", "written"}, name : Names, files : FileSets]
    BY <1>0, <1>4, NoRuntimeType DEF DeleteLock
  <2>2. faults' \in 0..MaxFaults
    BY <1>4, FaultType DEF DeleteLock
  <2> QED BY <1>4, <2>1, <2>2 DEF DeleteLock, Idle, TypeOK, Present, cacheVars
<1>5. CASE ClearCache
  <2>1. /\ list' \in [fresh : BOOLEAN, names : [Names -> Releases]]
        /\ list'.names = list.names
    BY <1>5 DEF ClearCache, TypeOK
  <2>2. /\ archive' \in [Names -> [Releases -> {"absent", "good", "bad"}]]
        /\ staged' \in [Names -> FileSets]
        /\ manifest' \in [Names -> [status : {"none", "torn", "written"}, files : FileSets]]
    BY <1>5, NoFilesType DEF ClearCache, NoManifest
  <2>3. faults' \in 0..MaxFaults
    BY <1>5, FaultType DEF ClearCache
  <2> QED BY <1>5, <2>1, <2>2, <2>3 DEF ClearCache, Idle, TypeOK
<1>6. CASE ListAges
  <2>1. list' \in [fresh : BOOLEAN, names : [Names -> Releases]]
    BY <1>6 DEF ListAges, TypeOK
  <2> QED BY <1>6, <2>1 DEF ListAges, Idle, TypeOK, historyVars
<1>7. ASSUME NEW n \in Names, SwitchRuntime(n) PROVE TypeOK'
  BY <1>7 DEF SwitchRuntime, Idle, TypeOK, cacheVars, historyVars
<1>8. ASSUME NEW n \in Names, NEW r \in Releases, Publish(n, r) PROVE TypeOK'
  <2>1. Release' = Release
    BY <1>8 DEF Publish, cacheVars, Release
  <2>2. published' \in [Names -> Releases]
    BY <1>8 DEF Publish, TypeOK
  <2> QED BY <1>8, <2>1, <2>2 DEF Publish, TypeOK, cacheVars, commandVars, historyVars
<1>9. ASSUME NEW f \in Files, NEW c \in {"absent", "edited"}, EditFile(f, c) PROVE TypeOK'
  <2>1. home' \in FileSets
    BY <1>9, PutType DEF EditFile, TypeOK, Contents, Marks
  <2>2. faults' \in 0..MaxFaults
    BY <1>9, FaultType DEF EditFile
  <2> QED BY <1>9, <2>1, <2>2 DEF EditFile, Idle, TypeOK, cacheVars
<1>10. CASE UNCHANGED vars
  BY <1>10 DEF vars, cacheVars, commandVars, historyVars, TypeOK, Release, Present
<1> QED BY <1>1, <1>2, <1>3, <1>4, <1>5, <1>6, <1>7, <1>8, <1>9, <1>10 DEF Next

(* The files, the archives, the record and the stages of a command stay    *)
(* well formed: what is to be unpacked is in the archive, what is to be    *)
(* copied is in the manifest of the staging directory.                     *)
THEOREM RuntimeTypeCorrect == Spec => []TypeOK
BY InitTypeOK, NextTypeOK, PTL DEF Spec

--------------------------------------------------------------------------------
(* The inductive invariant: where the content of each set of files comes   *)
(* from, from the list over the archive, the staging directory and its     *)
(* manifest to the place the server runs in and its record.                *)
Genuine(n, files) == \E r \in Named[n] : \A f \in Ships[r] : files[f] = r

NamesAreNamed == \A n \in Names : published[n] \in Named[n] /\ list.names[n] \in Named[n]

OnlyNewArchivesAreBad ==
  ~slipped => \A n \in Names, r \in Releases :
                archive[n][r] = "bad" => pc = "checksum" /\ n = name /\ r = Release

BadArchivesAreExcused ==
  pc = "checksum" => \/ archive[name][Release] = "good"
                     \/ archive[name][Release] = "bad" /\ excused

UnpackedIsGenuine ==
  pc = "unpack" =>
    /\ archive[name][Release] # "absent"
    /\ unpackTo = "staged" =>
         \A f \in Ships[Release] \ todo :
           staged[name][f] # "absent" /\ (~slipped => staged[name][f] = Release)

StagedIsGenuine ==
  pc = "manifest" => Present(staged[name]) # {} /\ (~slipped => Genuine(name, staged[name]))

ManifestsAreGenuine ==
  \A n \in Names : manifest[n].status = "written" =>
    Present(manifest[n].files) # {} /\ (~slipped => Genuine(n, manifest[n].files))

LockIsGenuine == lock.status = "written" /\ ~slipped => Genuine(lock.name, lock.files)

CopiedIsTheManifest ==
  pc = "copy" => \A f \in Present(info) \ todo : Place[f] = info[f]

PlaceIsGenuine == pc \in {"plugins", "record"} /\ ~slipped => Genuine(name, Place)

VerdictIsLast == pc # "idle" => result = "none"

IInv == /\ TypeOK
        /\ NamesAreNamed /\ OnlyNewArchivesAreBad /\ BadArchivesAreExcused
        /\ UnpackedIsGenuine /\ StagedIsGenuine /\ ManifestsAreGenuine /\ LockIsGenuine
        /\ ReplacementIsReady /\ CopiedIsTheManifest /\ PlaceIsGenuine
        /\ VerdictIsLast /\ InstalledIsGenuine /\ FailureHasACause

(* Every step of a command keeps the invariant: what a directory holds     *)
(* when it agrees with a genuine manifest is genuine too.                  *)
LEMMA VerifiedIsGenuine ==
  ASSUME NEW n \in Names, NEW files, NEW directory, Genuine(n, files), Verified(files, directory)
  PROVE  Genuine(n, directory)
<1>1. PICK r \in Named[n] : \A f \in Ships[r] : files[f] = r
  BY DEF Genuine
<1>2. r \in Releases /\ Ships[r] \subseteq Files /\ r # "absent"
  <2>1. Named[n] \in (SUBSET Releases) \ {{}}
    BY NamesAssumption DEF NamesAssumption
  <2>2. r \in Releases
    BY <2>1
  <2>3. Ships[r] \in (SUBSET Files) \ {{}}
    BY <2>2, ShipsAssumption DEF ShipsAssumption
  <2> QED BY <2>2, <2>3, MarksAssumption DEF MarksAssumption, Marks
<1>3. \A f \in Ships[r] : directory[f] = r
  BY <1>1, <1>2 DEF Verified, Present
<1> QED BY <1>3 DEF Genuine

LEMMA InstallingIsGenuine ==
  ASSUME IInv, Installing, ~slipped PROVE Genuine(name, info)
BY DEF IInv, TypeOK, ReplacementIsReady, ManifestsAreGenuine, Staged

LEMMA StepKeeps == IInv /\ Step => IInv'
<1> SUFFICES ASSUME IInv, Step PROVE IInv'
  OBVIOUS
<1>0. TypeOK /\ TypeOK'
  BY StepTypeOK DEF IInv
<1> USE <1>0 DEF IInv, Goto, End, Fail, Fault, Release, Place, cacheVars, commandVars, historyVars
<1>1. CASE UseStage
  <2>1. /\ NamesAreNamed' /\ OnlyNewArchivesAreBad' /\ BadArchivesAreExcused'
        /\ UnpackedIsGenuine' /\ StagedIsGenuine' /\ ManifestsAreGenuine'
        /\ LockIsGenuine'
    BY <1>1 DEF
      UseStage, NamesAreNamed, OnlyNewArchivesAreBad, BadArchivesAreExcused,
      UnpackedIsGenuine, StagedIsGenuine, ManifestsAreGenuine, LockIsGenuine,
      Installing, Present, Verified, Staged, Genuine
  <2>2. /\ CopiedIsTheManifest' /\ PlaceIsGenuine' /\ VerdictIsLast'
        /\ InstalledIsGenuine' /\ FailureHasACause'
    BY <1>1 DEF
      UseStage, CopiedIsTheManifest, PlaceIsGenuine, VerdictIsLast,
      InstalledIsGenuine, FailureHasACause, Installing, Present, Verified,
      Staged, Genuine
  <2>3. ReplacementIsReady'
    BY <1>1 DEF UseStage, ReplacementIsReady, ManifestsAreGenuine, Installing, Staged, Verified, TypeOK
  <2> QED BY <2>1, <2>2, <2>3
<1>2. CASE CleanStage
  <2>1. /\ NamesAreNamed' /\ OnlyNewArchivesAreBad' /\ BadArchivesAreExcused'
        /\ UnpackedIsGenuine' /\ StagedIsGenuine' /\ LockIsGenuine'
    BY <1>2 DEF
      CleanStage, NamesAreNamed, OnlyNewArchivesAreBad,
      BadArchivesAreExcused, UnpackedIsGenuine, StagedIsGenuine,
      LockIsGenuine, Installing, Present, Verified, Staged, Genuine
  <2>2. /\ ReplacementIsReady' /\ CopiedIsTheManifest' /\ PlaceIsGenuine'
        /\ VerdictIsLast' /\ InstalledIsGenuine' /\ FailureHasACause'
    BY <1>2 DEF
      CleanStage, ReplacementIsReady, CopiedIsTheManifest, PlaceIsGenuine,
      VerdictIsLast, InstalledIsGenuine, FailureHasACause, Installing,
      Present, Verified, Staged, Genuine
  <2>3. ManifestsAreGenuine'
    BY <1>2 DEF CleanStage, ManifestsAreGenuine, NoManifest, TypeOK
  <2> QED BY <2>1, <2>2, <2>3
<1>3. CASE FindPackage
  <2>1. /\ OnlyNewArchivesAreBad' /\ BadArchivesAreExcused'
        /\ UnpackedIsGenuine' /\ StagedIsGenuine' /\ ManifestsAreGenuine'
        /\ LockIsGenuine'
    BY <1>3 DEF
      FindPackage, OnlyNewArchivesAreBad, BadArchivesAreExcused,
      UnpackedIsGenuine, StagedIsGenuine, ManifestsAreGenuine, LockIsGenuine,
      Installing, Present, Verified, Staged, Genuine
  <2>2. /\ ReplacementIsReady' /\ CopiedIsTheManifest' /\ PlaceIsGenuine'
        /\ VerdictIsLast' /\ InstalledIsGenuine' /\ FailureHasACause'
    BY <1>3 DEF
      FindPackage, ReplacementIsReady, CopiedIsTheManifest, PlaceIsGenuine,
      VerdictIsLast, InstalledIsGenuine, FailureHasACause, Installing,
      Present, Verified, Staged, Genuine
  <2>3. NamesAreNamed'
    BY <1>3 DEF FindPackage, NamesAreNamed, GetOrRefreshJSON
  <2> QED BY <2>1, <2>2, <2>3
<1>4. CASE FromCache
  <2>1. /\ NamesAreNamed' /\ OnlyNewArchivesAreBad' /\ BadArchivesAreExcused'
        /\ StagedIsGenuine' /\ ManifestsAreGenuine' /\ LockIsGenuine'
    BY <1>4 DEF
      FromCache, NamesAreNamed, OnlyNewArchivesAreBad, BadArchivesAreExcused,
      StagedIsGenuine, ManifestsAreGenuine, LockIsGenuine, Installing,
      Present, Verified, Staged, Genuine
  <2>2. /\ ReplacementIsReady' /\ CopiedIsTheManifest' /\ PlaceIsGenuine'
        /\ VerdictIsLast' /\ InstalledIsGenuine' /\ FailureHasACause'
    BY <1>4 DEF
      FromCache, ReplacementIsReady, CopiedIsTheManifest, PlaceIsGenuine,
      VerdictIsLast, InstalledIsGenuine, FailureHasACause, Installing,
      Present, Verified, Staged, Genuine
  <2>3. UnpackedIsGenuine'
    BY <1>4 DEF FromCache, Cached, UnpackedIsGenuine
  <2> QED BY <2>1, <2>2, <2>3
<1>5. CASE Download
  <2>1. /\ NamesAreNamed' /\ UnpackedIsGenuine' /\ StagedIsGenuine'
        /\ ManifestsAreGenuine' /\ LockIsGenuine'
    BY <1>5 DEF
      Download, NamesAreNamed, UnpackedIsGenuine, StagedIsGenuine,
      ManifestsAreGenuine, LockIsGenuine, Installing, Present, Verified,
      Staged, Genuine
  <2>2. /\ ReplacementIsReady' /\ CopiedIsTheManifest' /\ PlaceIsGenuine'
        /\ VerdictIsLast' /\ InstalledIsGenuine' /\ FailureHasACause'
    BY <1>5 DEF
      Download, ReplacementIsReady, CopiedIsTheManifest, PlaceIsGenuine,
      VerdictIsLast, InstalledIsGenuine, FailureHasACause, Installing,
      Present, Verified, Staged, Genuine
  <2>3. OnlyNewArchivesAreBad'
    BY <1>5 DEF Download, WriteFromReaderAtomic, OnlyNewArchivesAreBad, TypeOK
  <2>4. BadArchivesAreExcused'
    <3>1. PICK c \in {"good", "bad"} :
            /\ archive' = [archive EXCEPT ![name][Release] = c]
            /\ excused' = (excused \/ c = "bad")
      BY <1>5 DEF Download, WriteFromReaderAtomic
    <3>2. name' = name /\ list' = list
      BY <1>5 DEF Download
    <3>3. archive'[name'][Release'] = c
      BY <3>1, <3>2, ReleaseIsRelease DEF TypeOK
    <3>4. c = "bad" => excused'
      BY <3>1, Zenon
    <3> QED BY <3>3, <3>4 DEF BadArchivesAreExcused
  <2> QED BY <2>1, <2>2, <2>3, <2>4
<1>6. CASE DownloadFails
  <2>1. /\ NamesAreNamed' /\ OnlyNewArchivesAreBad' /\ BadArchivesAreExcused'
        /\ UnpackedIsGenuine' /\ StagedIsGenuine' /\ ManifestsAreGenuine'
        /\ LockIsGenuine'
    BY <1>6 DEF
      DownloadFails, NamesAreNamed, OnlyNewArchivesAreBad,
      BadArchivesAreExcused, UnpackedIsGenuine, StagedIsGenuine,
      ManifestsAreGenuine, LockIsGenuine, Installing, Present, Verified,
      Staged, Genuine
  <2>2. /\ ReplacementIsReady' /\ CopiedIsTheManifest' /\ PlaceIsGenuine'
        /\ VerdictIsLast' /\ InstalledIsGenuine' /\ FailureHasACause'
    BY <1>6 DEF
      DownloadFails, ReplacementIsReady, CopiedIsTheManifest, PlaceIsGenuine,
      VerdictIsLast, InstalledIsGenuine, FailureHasACause, Installing,
      Present, Verified, Staged, Genuine
  <2> QED BY <2>1, <2>2
<1>7. CASE MatchesChecksum
  <2>1. /\ NamesAreNamed' /\ BadArchivesAreExcused' /\ UnpackedIsGenuine'
        /\ StagedIsGenuine' /\ ManifestsAreGenuine' /\ LockIsGenuine'
    BY <1>7 DEF
      MatchesChecksum, NamesAreNamed, BadArchivesAreExcused,
      UnpackedIsGenuine, StagedIsGenuine, ManifestsAreGenuine, LockIsGenuine,
      Installing, Present, Verified, Staged, Genuine
  <2>2. /\ ReplacementIsReady' /\ CopiedIsTheManifest' /\ PlaceIsGenuine'
        /\ VerdictIsLast' /\ InstalledIsGenuine'
    BY <1>7 DEF
      MatchesChecksum, ReplacementIsReady, CopiedIsTheManifest,
      PlaceIsGenuine, VerdictIsLast, InstalledIsGenuine, Installing, Present,
      Verified, Staged, Genuine
  <2>3. OnlyNewArchivesAreBad'
    BY <1>7, ReleaseIsRelease DEF MatchesChecksum, OnlyNewArchivesAreBad, TypeOK
  <2>4. FailureHasACause'
    <3>1. CASE archive[name][Release] = "good"
      BY <1>7, <3>1 DEF MatchesChecksum, FailureHasACause
    <3>2. CASE archive[name][Release] # "good"
      <4>1. excused
        BY <1>7, <3>2 DEF MatchesChecksum, BadArchivesAreExcused
      <4>2. excused' = excused
        BY <1>7 DEF MatchesChecksum
      <4> QED BY <4>1, <4>2 DEF FailureHasACause
    <3> QED BY <3>1, <3>2
  <2> QED BY <2>1, <2>2, <2>3, <2>4
<1>8. CASE UnpackFails
  <2>1. /\ NamesAreNamed' /\ OnlyNewArchivesAreBad' /\ BadArchivesAreExcused'
        /\ UnpackedIsGenuine' /\ StagedIsGenuine' /\ ManifestsAreGenuine'
        /\ LockIsGenuine'
    BY <1>8 DEF
      UnpackFails, NamesAreNamed, OnlyNewArchivesAreBad,
      BadArchivesAreExcused, UnpackedIsGenuine, StagedIsGenuine,
      ManifestsAreGenuine, LockIsGenuine, Installing, Present, Verified,
      Staged, Genuine
  <2>2. /\ ReplacementIsReady' /\ CopiedIsTheManifest' /\ PlaceIsGenuine'
        /\ VerdictIsLast' /\ InstalledIsGenuine'
    BY <1>8 DEF
      UnpackFails, ReplacementIsReady, CopiedIsTheManifest, PlaceIsGenuine,
      VerdictIsLast, InstalledIsGenuine, Installing, Present, Verified,
      Staged, Genuine
  <2>3. FailureHasACause'
    BY <1>8, ReleaseIsRelease DEF UnpackFails, FailureHasACause, OnlyNewArchivesAreBad
  <2> QED BY <2>1, <2>2, <2>3
<1>9. CASE UnpackEnds
  <2>1. /\ NamesAreNamed' /\ OnlyNewArchivesAreBad' /\ BadArchivesAreExcused'
        /\ UnpackedIsGenuine' /\ ManifestsAreGenuine' /\ LockIsGenuine'
    BY <1>9 DEF
      UnpackEnds, NamesAreNamed, OnlyNewArchivesAreBad,
      BadArchivesAreExcused, UnpackedIsGenuine, ManifestsAreGenuine,
      LockIsGenuine, Installing, Present, Verified, Staged, Genuine
  <2>2. /\ ReplacementIsReady' /\ CopiedIsTheManifest' /\ PlaceIsGenuine'
        /\ VerdictIsLast' /\ InstalledIsGenuine' /\ FailureHasACause'
    BY <1>9 DEF
      UnpackEnds, ReplacementIsReady, CopiedIsTheManifest, PlaceIsGenuine,
      VerdictIsLast, InstalledIsGenuine, FailureHasACause, Installing,
      Present, Verified, Staged, Genuine
  <2>3. StagedIsGenuine'
    BY <1>9, ReleaseIsRelease DEF UnpackEnds, StagedIsGenuine, UnpackedIsGenuine, NamesAreNamed, Genuine, Present
  <2> QED BY <2>1, <2>2, <2>3
<1>10. CASE WriteManifest
  <2>1. /\ NamesAreNamed' /\ OnlyNewArchivesAreBad' /\ BadArchivesAreExcused'
        /\ UnpackedIsGenuine' /\ StagedIsGenuine' /\ LockIsGenuine'
    BY <1>10 DEF
      WriteManifest, NamesAreNamed, OnlyNewArchivesAreBad,
      BadArchivesAreExcused, UnpackedIsGenuine, StagedIsGenuine,
      LockIsGenuine, Installing, Present, Verified, Staged, Genuine
  <2>2. /\ CopiedIsTheManifest' /\ PlaceIsGenuine' /\ VerdictIsLast'
        /\ InstalledIsGenuine' /\ FailureHasACause'
    BY <1>10 DEF
      WriteManifest, CopiedIsTheManifest, PlaceIsGenuine, VerdictIsLast,
      InstalledIsGenuine, FailureHasACause, Installing, Present, Verified,
      Staged, Genuine
  <2>3. ManifestsAreGenuine'
    <3>1. manifest' = [manifest EXCEPT ![name] = Written(staged[name])] /\ slipped' = slipped
      BY <1>10 DEF WriteManifest
    <3>2. \A n \in Names : manifest'[n] = IF n = name THEN Written(staged[name]) ELSE manifest[n]
      BY <3>1 DEF TypeOK
    <3>3. Present(staged[name]) # {} /\ (~slipped => Genuine(name, staged[name]))
      BY <1>10 DEF WriteManifest, StagedIsGenuine
    <3>4. SUFFICES ASSUME NEW n \in Names, manifest'[n].status = "written"
                   PROVE  /\ Present(manifest'[n].files) # {}
                          /\ ~slipped => Genuine(n, manifest'[n].files)
      BY <3>1 DEF ManifestsAreGenuine, Genuine, Present
    <3>5. CASE n = name
      BY <3>2, <3>3, <3>5 DEF Written
    <3>6. CASE n # name
      BY <3>2, <3>4, <3>6 DEF ManifestsAreGenuine
    <3> QED BY <3>5, <3>6
  <2>4. ReplacementIsReady'
    BY <1>10 DEF WriteManifest, ReplacementIsReady, StagedIsGenuine, Installing, Written, Staged, Verified, TypeOK
  <2> QED BY <2>1, <2>2, <2>3, <2>4
<1>11. CASE Inspect
  <2>1. /\ NamesAreNamed' /\ OnlyNewArchivesAreBad' /\ BadArchivesAreExcused'
        /\ UnpackedIsGenuine' /\ StagedIsGenuine' /\ ManifestsAreGenuine'
        /\ LockIsGenuine'
    BY <1>11 DEF
      Inspect, NamesAreNamed, OnlyNewArchivesAreBad, BadArchivesAreExcused,
      UnpackedIsGenuine, StagedIsGenuine, ManifestsAreGenuine, LockIsGenuine,
      Installing, Present, Verified, Staged, Genuine
  <2>2. /\ ReplacementIsReady' /\ CopiedIsTheManifest' /\ VerdictIsLast'
        /\ InstalledIsGenuine' /\ FailureHasACause'
    BY <1>11 DEF
      Inspect, ReplacementIsReady, CopiedIsTheManifest, VerdictIsLast,
      InstalledIsGenuine, FailureHasACause, Installing, Present, Verified,
      Staged, Genuine
  <2>3. PlaceIsGenuine'
    <3>1. SUFFICES ASSUME UpToDate, ~slipped PROVE Genuine(name, Place)
      BY <1>11 DEF Inspect, PlaceIsGenuine, Genuine, Place
    <3>2. CASE /\ Existing.status = "written" /\ MatchesRuntime(Existing)
               /\ Verified(Existing.files, Place)
      <4>1. Existing = lock /\ lock.name = name
        BY <3>2 DEF Existing, NoRuntime, MatchesRuntime
      <4>2. Genuine(name, lock.files) /\ Verified(lock.files, Place)
        BY <3>1, <3>2, <4>1 DEF LockIsGenuine
      <4> QED BY <4>2, VerifiedIsGenuine DEF TypeOK
    <3>3. CASE Verified(info, Place)
      BY <1>11, <3>1, <3>3, InstallingIsGenuine, VerifiedIsGenuine DEF Inspect, Installing, TypeOK
    <3> QED BY <3>1, <3>2, <3>3 DEF UpToDate
  <2> QED BY <2>1, <2>2, <2>3
<1>12. CASE RemoveEnds
  <2>1. /\ NamesAreNamed' /\ OnlyNewArchivesAreBad' /\ BadArchivesAreExcused'
        /\ UnpackedIsGenuine' /\ StagedIsGenuine' /\ ManifestsAreGenuine'
        /\ LockIsGenuine'
    BY <1>12 DEF
      RemoveEnds, NamesAreNamed, OnlyNewArchivesAreBad,
      BadArchivesAreExcused, UnpackedIsGenuine, StagedIsGenuine,
      ManifestsAreGenuine, LockIsGenuine, Installing, Present, Verified,
      Staged, Genuine
  <2>2. /\ ReplacementIsReady' /\ CopiedIsTheManifest' /\ PlaceIsGenuine'
        /\ VerdictIsLast' /\ InstalledIsGenuine' /\ FailureHasACause'
    BY <1>12 DEF
      RemoveEnds, ReplacementIsReady, CopiedIsTheManifest, PlaceIsGenuine,
      VerdictIsLast, InstalledIsGenuine, FailureHasACause, Installing,
      Present, Verified, Staged, Genuine
  <2> QED BY <2>1, <2>2
<1>13. CASE CopyEnds
  <2>1. /\ NamesAreNamed' /\ OnlyNewArchivesAreBad' /\ BadArchivesAreExcused'
        /\ UnpackedIsGenuine' /\ StagedIsGenuine' /\ ManifestsAreGenuine'
        /\ LockIsGenuine'
    BY <1>13 DEF
      CopyEnds, NamesAreNamed, OnlyNewArchivesAreBad, BadArchivesAreExcused,
      UnpackedIsGenuine, StagedIsGenuine, ManifestsAreGenuine, LockIsGenuine,
      Installing, Present, Verified, Staged, Genuine
  <2>2. /\ ReplacementIsReady' /\ CopiedIsTheManifest' /\ VerdictIsLast'
        /\ InstalledIsGenuine' /\ FailureHasACause'
    BY <1>13 DEF
      CopyEnds, ReplacementIsReady, CopiedIsTheManifest, VerdictIsLast,
      InstalledIsGenuine, FailureHasACause, Installing, Present, Verified,
      Staged, Genuine
  <2>3. PlaceIsGenuine'
    <3>1. SUFFICES ASSUME ~slipped PROVE Genuine(name, Place)
      BY <1>13 DEF CopyEnds, PlaceIsGenuine, Genuine, Place
    <3>2. Verified(info, Place)
      BY <1>13 DEF CopyEnds, CopiedIsTheManifest, Verified
    <3> QED BY <1>13, <3>1, <3>2, InstallingIsGenuine, VerifiedIsGenuine DEF CopyEnds, Installing, TypeOK
  <2> QED BY <2>1, <2>2, <2>3
<1>14. CASE EnsurePlugins
  <2>1. /\ NamesAreNamed' /\ OnlyNewArchivesAreBad' /\ BadArchivesAreExcused'
        /\ UnpackedIsGenuine' /\ StagedIsGenuine' /\ ManifestsAreGenuine'
        /\ LockIsGenuine'
    BY <1>14 DEF
      EnsurePlugins, NamesAreNamed, OnlyNewArchivesAreBad,
      BadArchivesAreExcused, UnpackedIsGenuine, StagedIsGenuine,
      ManifestsAreGenuine, LockIsGenuine, Installing, Present, Verified,
      Staged, Genuine
  <2>2. /\ ReplacementIsReady' /\ CopiedIsTheManifest' /\ PlaceIsGenuine'
        /\ VerdictIsLast' /\ FailureHasACause'
    BY <1>14 DEF
      EnsurePlugins, ReplacementIsReady, CopiedIsTheManifest, PlaceIsGenuine,
      VerdictIsLast, FailureHasACause, Installing, Present, Verified, Staged,
      Genuine
  <2>3. InstalledIsGenuine'
    BY <1>14 DEF EnsurePlugins, InstalledIsGenuine, PlaceIsGenuine, Genuine, Place
  <2> QED BY <2>1, <2>2, <2>3
<1>15. CASE EnsurePluginsFails
  <2>1. /\ NamesAreNamed' /\ OnlyNewArchivesAreBad' /\ BadArchivesAreExcused'
        /\ UnpackedIsGenuine' /\ StagedIsGenuine' /\ ManifestsAreGenuine'
        /\ LockIsGenuine'
    BY <1>15 DEF
      EnsurePluginsFails, NamesAreNamed, OnlyNewArchivesAreBad,
      BadArchivesAreExcused, UnpackedIsGenuine, StagedIsGenuine,
      ManifestsAreGenuine, LockIsGenuine, Installing, Present, Verified,
      Staged, Genuine
  <2>2. /\ ReplacementIsReady' /\ CopiedIsTheManifest' /\ PlaceIsGenuine'
        /\ VerdictIsLast' /\ InstalledIsGenuine' /\ FailureHasACause'
    BY <1>15 DEF
      EnsurePluginsFails, ReplacementIsReady, CopiedIsTheManifest,
      PlaceIsGenuine, VerdictIsLast, InstalledIsGenuine, FailureHasACause,
      Installing, Present, Verified, Staged, Genuine
  <2> QED BY <2>1, <2>2
<1>16. CASE Record
  <2>1. /\ NamesAreNamed' /\ OnlyNewArchivesAreBad' /\ BadArchivesAreExcused'
        /\ UnpackedIsGenuine' /\ StagedIsGenuine' /\ ManifestsAreGenuine'
    BY <1>16 DEF
      Record, NamesAreNamed, OnlyNewArchivesAreBad, BadArchivesAreExcused,
      UnpackedIsGenuine, StagedIsGenuine, ManifestsAreGenuine, Installing,
      Present, Verified, Staged, Genuine
  <2>2. /\ ReplacementIsReady' /\ CopiedIsTheManifest' /\ PlaceIsGenuine'
        /\ VerdictIsLast' /\ FailureHasACause'
    BY <1>16 DEF
      Record, ReplacementIsReady, CopiedIsTheManifest, PlaceIsGenuine,
      VerdictIsLast, FailureHasACause, Installing, Present, Verified, Staged,
      Genuine
  <2>3. LockIsGenuine'
    <3>1. SUFFICES ASSUME lock'.status = "written", ~slipped
                   PROVE  Genuine(lock'.name, lock'.files)
      BY <1>16 DEF Record, LockIsGenuine, Genuine
    <3>2. CASE lock' = lock
      BY <3>1, <3>2 DEF LockIsGenuine
    <3>3. CASE lock' = SetRuntime(name, info)
      BY <1>16, <3>1, <3>3, InstallingIsGenuine DEF Record, SetRuntime, Installing
    <3> QED BY <1>16, <3>2, <3>3 DEF Record
  <2>4. InstalledIsGenuine'
    BY <1>16 DEF Record, InstalledIsGenuine, PlaceIsGenuine, Genuine, Place
  <2> QED BY <2>1, <2>2, <2>3, <2>4
<1>17. ASSUME NEW f \in Files, Unpack(f) \/ RemoveFile(f) \/ CopyFile(f) \/ CopyFails(f)
       PROVE  IInv'
  <2>1. CASE Unpack(f)
    <3>1. /\ NamesAreNamed' /\ OnlyNewArchivesAreBad'
          /\ BadArchivesAreExcused' /\ StagedIsGenuine'
          /\ ManifestsAreGenuine' /\ LockIsGenuine'
      BY <2>1 DEF
        Unpack, NamesAreNamed, OnlyNewArchivesAreBad, BadArchivesAreExcused,
        StagedIsGenuine, ManifestsAreGenuine, LockIsGenuine, Unpacked,
        PutInPlace, Installing, Present, Verified, Staged, Genuine
    <3>2. /\ ReplacementIsReady' /\ CopiedIsTheManifest' /\ PlaceIsGenuine'
          /\ VerdictIsLast' /\ InstalledIsGenuine' /\ FailureHasACause'
      BY <2>1 DEF
        Unpack, ReplacementIsReady, CopiedIsTheManifest, PlaceIsGenuine,
        VerdictIsLast, InstalledIsGenuine, FailureHasACause, Unpacked,
        PutInPlace, Installing, Present, Verified, Staged, Genuine
    <3>3. UnpackedIsGenuine'
      <4>1. SUFFICES ASSUME unpackTo = "staged", NEW g \in Ships[Release] \ (todo \ {f})
                     PROVE  /\ staged'[name][g] # "absent"
                            /\ ~slipped => staged'[name][g] = Release
        BY <2>1 DEF Unpack, UnpackedIsGenuine
      <4>2. staged' = [staged EXCEPT ![name][f] = IF archive[name][Release] = "good"
                                                  THEN Release ELSE "bad"]
        BY <2>1, <4>1 DEF Unpack, Unpacked
      <4>3. name \in Names /\ Release \in Releases /\ Release # "absent" /\ g \in Files
        BY ReleaseIsRelease, MarksAssumption DEF MarksAssumption, Marks
      <4>4. ~slipped => archive[name][Release] = "good"
        BY <2>1, <4>3 DEF Unpack, UnpackedIsGenuine, OnlyNewArchivesAreBad, TypeOK
      <4>5. staged'[name][g] = IF g # f THEN staged[name][g]
                               ELSE IF archive[name][Release] = "good" THEN Release ELSE "bad"
        BY <4>2, <4>3 DEF TypeOK, FileSets
      <4>6. CASE g = f
        BY <4>3, <4>4, <4>5, <4>6
      <4>7. CASE g # f
        BY <2>1, <4>1, <4>3, <4>5, <4>7 DEF Unpack, UnpackedIsGenuine
      <4> QED BY <4>6, <4>7
    <3> QED BY <3>1, <3>2, <3>3
  <2>2. CASE RemoveFile(f)
    <3>1. /\ NamesAreNamed' /\ OnlyNewArchivesAreBad'
          /\ BadArchivesAreExcused' /\ UnpackedIsGenuine' /\ StagedIsGenuine'
          /\ ManifestsAreGenuine' /\ LockIsGenuine'
      BY <2>2 DEF
        RemoveFile, NamesAreNamed, OnlyNewArchivesAreBad,
        BadArchivesAreExcused, UnpackedIsGenuine, StagedIsGenuine,
        ManifestsAreGenuine, LockIsGenuine, Unpacked, PutInPlace, Installing,
        Present, Verified, Staged, Genuine
    <3>2. /\ ReplacementIsReady' /\ CopiedIsTheManifest' /\ PlaceIsGenuine'
          /\ VerdictIsLast' /\ InstalledIsGenuine' /\ FailureHasACause'
      BY <2>2 DEF
        RemoveFile, ReplacementIsReady, CopiedIsTheManifest, PlaceIsGenuine,
        VerdictIsLast, InstalledIsGenuine, FailureHasACause, Unpacked,
        PutInPlace, Installing, Present, Verified, Staged, Genuine
    <3> QED BY <3>1, <3>2
  <2>3. CASE CopyFile(f)
    <3>1. /\ NamesAreNamed' /\ OnlyNewArchivesAreBad'
          /\ BadArchivesAreExcused' /\ UnpackedIsGenuine' /\ StagedIsGenuine'
          /\ ManifestsAreGenuine' /\ LockIsGenuine'
      BY <2>3 DEF
        CopyFile, NamesAreNamed, OnlyNewArchivesAreBad,
        BadArchivesAreExcused, UnpackedIsGenuine, StagedIsGenuine,
        ManifestsAreGenuine, LockIsGenuine, Unpacked, PutInPlace, Installing,
        Present, Verified, Staged, Genuine
    <3>2. /\ ReplacementIsReady' /\ PlaceIsGenuine' /\ VerdictIsLast'
          /\ InstalledIsGenuine' /\ FailureHasACause'
      BY <2>3 DEF
        CopyFile, ReplacementIsReady, PlaceIsGenuine, VerdictIsLast,
        InstalledIsGenuine, FailureHasACause, Unpacked, PutInPlace,
        Installing, Present, Verified, Staged, Genuine
    <3>3. CopiedIsTheManifest'
      <4>1. Present(info) \subseteq Files /\ f \in Present(info)
        BY <2>3 DEF CopyFile, TypeOK, Present
      <4>2. staged[name][f] = info[f]
        BY <2>3, <4>1 DEF CopyFile, ReplacementIsReady, Installing, Staged, Verified
      <4>3. \A g \in Files : Place'[g] = IF g = f THEN info[f] ELSE Place[g]
        BY <2>3, <4>2 DEF CopyFile, PutInPlace, TypeOK, FileSets
      <4> QED BY <2>3, <4>1, <4>3 DEF CopyFile, CopiedIsTheManifest
    <3> QED BY <3>1, <3>2, <3>3
  <2>4. CASE CopyFails(f)
    <3>1. /\ NamesAreNamed' /\ OnlyNewArchivesAreBad'
          /\ BadArchivesAreExcused' /\ UnpackedIsGenuine' /\ StagedIsGenuine'
          /\ ManifestsAreGenuine' /\ LockIsGenuine'
      BY <2>4 DEF
        CopyFails, NamesAreNamed, OnlyNewArchivesAreBad,
        BadArchivesAreExcused, UnpackedIsGenuine, StagedIsGenuine,
        ManifestsAreGenuine, LockIsGenuine, Unpacked, PutInPlace, Installing,
        Present, Verified, Staged, Genuine
    <3>2. /\ ReplacementIsReady' /\ CopiedIsTheManifest' /\ PlaceIsGenuine'
          /\ VerdictIsLast' /\ InstalledIsGenuine' /\ FailureHasACause'
      BY <2>4 DEF
        CopyFails, ReplacementIsReady, CopiedIsTheManifest, PlaceIsGenuine,
        VerdictIsLast, InstalledIsGenuine, FailureHasACause, Unpacked,
        PutInPlace, Installing, Present, Verified, Staged, Genuine
    <3> QED BY <3>1, <3>2
  <2> QED BY <1>17, <2>1, <2>2, <2>3, <2>4
<1> QED BY <1>1, <1>2, <1>3, <1>4, <1>5, <1>6, <1>7, <1>8, <1>9, <1>10, <1>11, <1>12,
           <1>13, <1>14, <1>15, <1>16, <1>17 DEF Step

(* The invariant holds at the start ...                                    *)
LEMMA InitKeeps == Init => IInv
<1> SUFFICES ASSUME Init PROVE IInv
  OBVIOUS
<1>1. TypeOK
  BY InitTypeOK
<1>2. NamesAreNamed /\ OnlyNewArchivesAreBad /\ ManifestsAreGenuine /\ LockIsGenuine
  BY DEF Init, NamesAreNamed, OnlyNewArchivesAreBad, ManifestsAreGenuine, LockIsGenuine,
         NoManifest, NoRuntime
<1>3. /\ BadArchivesAreExcused /\ UnpackedIsGenuine /\ StagedIsGenuine
      /\ ReplacementIsReady /\ CopiedIsTheManifest /\ PlaceIsGenuine
      /\ VerdictIsLast /\ InstalledIsGenuine /\ FailureHasACause
  BY DEF Init, BadArchivesAreExcused, UnpackedIsGenuine, StagedIsGenuine,
         ReplacementIsReady, CopiedIsTheManifest, PlaceIsGenuine, VerdictIsLast,
         InstalledIsGenuine, FailureHasACause, Installing
<1> QED BY <1>1, <1>2, <1>3 DEF IInv

(* ... and nothing that happens between the steps breaks it: a command     *)
(* begins, a process is killed, the user edits files, an alias moves on.   *)
LEMMA NextKeeps == IInv /\ [Next]_vars => IInv'
<1> SUFFICES ASSUME IInv, [Next]_vars PROVE IInv'
  OBVIOUS
<1>0. TypeOK /\ TypeOK'
  BY NextTypeOK DEF IInv
<1>1. CASE Step
  BY <1>1, StepKeeps
<1> USE <1>0 DEF IInv, Goto, End, Fault, Idle, Release, Place, Installing, cacheVars, commandVars, historyVars
<1>2. ASSUME NEW c \in Commands, Begin(c) PROVE IInv'
  <2>1. /\ NamesAreNamed' /\ OnlyNewArchivesAreBad'
       /\ BadArchivesAreExcused' /\ UnpackedIsGenuine'
       /\ StagedIsGenuine' /\ ManifestsAreGenuine' /\ LockIsGenuine'
    BY <1>2 DEF
      Begin, NamesAreNamed, OnlyNewArchivesAreBad,
      BadArchivesAreExcused, UnpackedIsGenuine, StagedIsGenuine,
      ManifestsAreGenuine, LockIsGenuine, Genuine, Present, Staged,
      Verified
  <2>2. /\ ReplacementIsReady' /\ CopiedIsTheManifest' /\ PlaceIsGenuine'
       /\ VerdictIsLast' /\ InstalledIsGenuine' /\ FailureHasACause'
    BY <1>2 DEF
      Begin, ReplacementIsReady, CopiedIsTheManifest, PlaceIsGenuine,
      VerdictIsLast, InstalledIsGenuine, FailureHasACause, Genuine,
      Present, Staged, Verified
  <2> QED BY <2>1, <2>2
<1>3. CASE Crash
  <2>1. /\ NamesAreNamed' /\ BadArchivesAreExcused' /\ UnpackedIsGenuine'
       /\ StagedIsGenuine'
    BY <1>3 DEF
      Crash, NamesAreNamed, BadArchivesAreExcused, UnpackedIsGenuine,
      StagedIsGenuine, Genuine, Present, Staged, Verified
  <2>2. /\ ReplacementIsReady' /\ CopiedIsTheManifest' /\ PlaceIsGenuine'
       /\ VerdictIsLast' /\ InstalledIsGenuine' /\ FailureHasACause'
    BY <1>3 DEF
      Crash, ReplacementIsReady, CopiedIsTheManifest, PlaceIsGenuine,
      VerdictIsLast, InstalledIsGenuine, FailureHasACause, Genuine,
      Present, Staged, Verified
  <2>3. OnlyNewArchivesAreBad'
    <3>1. SUFFICES ASSUME ~slipped', NEW n \in Names, NEW r \in Releases, archive'[n][r] = "bad"
                   PROVE  FALSE
      BY DEF OnlyNewArchivesAreBad
    <3>2. ~slipped /\ ~(pc = "checksum" /\ archive[name][Release] = "bad") /\ archive' = archive
      BY <1>3, <3>1 DEF Crash
    <3> QED BY <3>1, <3>2 DEF OnlyNewArchivesAreBad
  <2>4. ManifestsAreGenuine'
    <3>1. ~slipped' => ~slipped
      BY <1>3 DEF Crash
    <3>2. \A n \in Names : manifest'[n].status = "written" => manifest'[n] = manifest[n]
      BY <1>3 DEF Crash, TypeOK
    <3> QED BY <3>1, <3>2 DEF ManifestsAreGenuine, Genuine, Present
  <2>5. LockIsGenuine'
    <3>1. (~slipped' => ~slipped) /\ (lock' = lock \/ lock'.status = "torn")
      <4>1. [NoRuntime EXCEPT !.status = "torn"].status = "torn"
        BY DEF NoRuntime
      <4> QED BY <1>3, <4>1 DEF Crash
    <3> QED BY <3>1 DEF LockIsGenuine, Genuine
  <2> QED BY <2>1, <2>2, <2>3, <2>4, <2>5
<1>4. CASE DeleteLock
  <2>1. /\ NamesAreNamed' /\ OnlyNewArchivesAreBad'
       /\ BadArchivesAreExcused' /\ UnpackedIsGenuine'
       /\ StagedIsGenuine' /\ ManifestsAreGenuine' /\ LockIsGenuine'
    BY <1>4 DEF
      DeleteLock, NamesAreNamed, OnlyNewArchivesAreBad,
      BadArchivesAreExcused, UnpackedIsGenuine, StagedIsGenuine,
      ManifestsAreGenuine, LockIsGenuine, Genuine, Present, Staged,
      Verified, NoRuntime
  <2>2. /\ ReplacementIsReady' /\ CopiedIsTheManifest' /\ PlaceIsGenuine'
       /\ VerdictIsLast' /\ InstalledIsGenuine' /\ FailureHasACause'
    BY <1>4 DEF
      DeleteLock, ReplacementIsReady, CopiedIsTheManifest,
      PlaceIsGenuine, VerdictIsLast, InstalledIsGenuine,
      FailureHasACause, Genuine, Present, Staged, Verified, NoRuntime
  <2> QED BY <2>1, <2>2
<1>5. CASE ClearCache
  <2>1. /\ BadArchivesAreExcused' /\ UnpackedIsGenuine'
       /\ StagedIsGenuine' /\ LockIsGenuine'
    BY <1>5 DEF
      ClearCache, BadArchivesAreExcused, UnpackedIsGenuine,
      StagedIsGenuine, LockIsGenuine, Genuine, Present, Staged,
      Verified, NoManifest
  <2>2. /\ ReplacementIsReady' /\ CopiedIsTheManifest' /\ PlaceIsGenuine'
       /\ VerdictIsLast' /\ InstalledIsGenuine' /\ FailureHasACause'
    BY <1>5 DEF
      ClearCache, ReplacementIsReady, CopiedIsTheManifest,
      PlaceIsGenuine, VerdictIsLast, InstalledIsGenuine,
      FailureHasACause, Genuine, Present, Staged, Verified, NoManifest
  <2>3. ManifestsAreGenuine'
    BY <1>5 DEF ClearCache, ManifestsAreGenuine, NoManifest
  <2>4. NamesAreNamed'
    <3>1. list'.names = list.names /\ published' = published
      BY <1>5 DEF ClearCache, TypeOK
    <3> QED BY <3>1 DEF NamesAreNamed
  <2>5. OnlyNewArchivesAreBad'
    BY <1>5 DEF ClearCache, OnlyNewArchivesAreBad
  <2> QED BY <2>1, <2>2, <2>3, <2>4, <2>5
<1>6. CASE ListAges
  <2>1. /\ OnlyNewArchivesAreBad' /\ BadArchivesAreExcused'
       /\ UnpackedIsGenuine' /\ StagedIsGenuine' /\ ManifestsAreGenuine'
       /\ LockIsGenuine'
    BY <1>6 DEF
      ListAges, OnlyNewArchivesAreBad, BadArchivesAreExcused,
      UnpackedIsGenuine, StagedIsGenuine, ManifestsAreGenuine,
      LockIsGenuine, Genuine, Present, Staged, Verified
  <2>2. /\ ReplacementIsReady' /\ CopiedIsTheManifest' /\ PlaceIsGenuine'
       /\ VerdictIsLast' /\ InstalledIsGenuine' /\ FailureHasACause'
    BY <1>6 DEF
      ListAges, ReplacementIsReady, CopiedIsTheManifest, PlaceIsGenuine,
      VerdictIsLast, InstalledIsGenuine, FailureHasACause, Genuine,
      Present, Staged, Verified
  <2>3. NamesAreNamed'
    <3>1. list'.names = list.names /\ published' = published
      BY <1>6 DEF ListAges, TypeOK
    <3> QED BY <3>1 DEF NamesAreNamed
  <2> QED BY <2>1, <2>2, <2>3
<1>7. ASSUME NEW n \in Names, SwitchRuntime(n) PROVE IInv'
  <2>1. /\ NamesAreNamed' /\ OnlyNewArchivesAreBad'
       /\ BadArchivesAreExcused' /\ UnpackedIsGenuine'
       /\ StagedIsGenuine' /\ ManifestsAreGenuine' /\ LockIsGenuine'
    BY <1>7 DEF
      SwitchRuntime, NamesAreNamed, OnlyNewArchivesAreBad,
      BadArchivesAreExcused, UnpackedIsGenuine, StagedIsGenuine,
      ManifestsAreGenuine, LockIsGenuine, Genuine, Present, Staged,
      Verified
  <2>2. /\ ReplacementIsReady' /\ CopiedIsTheManifest' /\ PlaceIsGenuine'
       /\ VerdictIsLast' /\ InstalledIsGenuine' /\ FailureHasACause'
    BY <1>7 DEF
      SwitchRuntime, ReplacementIsReady, CopiedIsTheManifest,
      PlaceIsGenuine, VerdictIsLast, InstalledIsGenuine,
      FailureHasACause, Genuine, Present, Staged, Verified
  <2> QED BY <2>1, <2>2
<1>8. ASSUME NEW n \in Names, NEW r \in Releases, Publish(n, r) PROVE IInv'
  <2>1. /\ OnlyNewArchivesAreBad' /\ BadArchivesAreExcused'
       /\ UnpackedIsGenuine' /\ StagedIsGenuine' /\ ManifestsAreGenuine'
       /\ LockIsGenuine'
    BY <1>8 DEF
      Publish, OnlyNewArchivesAreBad, BadArchivesAreExcused,
      UnpackedIsGenuine, StagedIsGenuine, ManifestsAreGenuine,
      LockIsGenuine, Genuine, Present, Staged, Verified
  <2>2. /\ ReplacementIsReady' /\ CopiedIsTheManifest' /\ PlaceIsGenuine'
       /\ VerdictIsLast' /\ InstalledIsGenuine' /\ FailureHasACause'
    BY <1>8 DEF
      Publish, ReplacementIsReady, CopiedIsTheManifest, PlaceIsGenuine,
      VerdictIsLast, InstalledIsGenuine, FailureHasACause, Genuine,
      Present, Staged, Verified
  <2>3. NamesAreNamed'
    <3>1. published' = [published EXCEPT ![n] = r] /\ r \in Named[n] /\ list' = list
      BY <1>8 DEF Publish
    <3> QED BY <3>1 DEF NamesAreNamed, TypeOK
  <2> QED BY <2>1, <2>2, <2>3
<1>9. ASSUME NEW f \in Files, NEW x \in {"absent", "edited"}, EditFile(f, x) PROVE IInv'
  <2>1. /\ NamesAreNamed' /\ OnlyNewArchivesAreBad'
       /\ BadArchivesAreExcused' /\ UnpackedIsGenuine'
       /\ StagedIsGenuine' /\ ManifestsAreGenuine' /\ LockIsGenuine'
    BY <1>9 DEF
      EditFile, NamesAreNamed, OnlyNewArchivesAreBad,
      BadArchivesAreExcused, UnpackedIsGenuine, StagedIsGenuine,
      ManifestsAreGenuine, LockIsGenuine, Genuine, Present, Staged,
      Verified
  <2>2. /\ ReplacementIsReady' /\ CopiedIsTheManifest' /\ PlaceIsGenuine'
       /\ VerdictIsLast' /\ InstalledIsGenuine' /\ FailureHasACause'
    BY <1>9 DEF
      EditFile, ReplacementIsReady, CopiedIsTheManifest, PlaceIsGenuine,
      VerdictIsLast, InstalledIsGenuine, FailureHasACause, Genuine,
      Present, Staged, Verified
  <2> QED BY <2>1, <2>2
<1>10. CASE UNCHANGED vars
  <2>1. /\ NamesAreNamed' /\ OnlyNewArchivesAreBad'
       /\ BadArchivesAreExcused' /\ UnpackedIsGenuine'
       /\ StagedIsGenuine' /\ ManifestsAreGenuine' /\ LockIsGenuine'
    BY <1>10 DEF
      vars, NamesAreNamed, OnlyNewArchivesAreBad, BadArchivesAreExcused,
      UnpackedIsGenuine, StagedIsGenuine, ManifestsAreGenuine,
      LockIsGenuine, Genuine, Present, Staged, Verified
  <2>2. /\ ReplacementIsReady' /\ CopiedIsTheManifest' /\ PlaceIsGenuine'
       /\ VerdictIsLast' /\ InstalledIsGenuine' /\ FailureHasACause'
    BY <1>10 DEF
      vars, ReplacementIsReady, CopiedIsTheManifest, PlaceIsGenuine,
      VerdictIsLast, InstalledIsGenuine, FailureHasACause, Genuine,
      Present, Staged, Verified
  <2> QED BY <2>1, <2>2
<1> QED BY <1>1, <1>2, <1>3, <1>4, <1>5, <1>6, <1>7, <1>8, <1>9, <1>10 DEF Next

(* Whatever was staged, unpacked, locked or copied is genuine at every     *)
(* step, unless a process died between unpacking and checksum.              *)
THEOREM RuntimeInvariant == Spec => []IInv
BY InitKeeps, NextKeeps, PTL DEF Spec

(* Nothing is removed or copied before its replacement is staged whole,    *)
(* with a manifest that agrees with the staged files.                      *)
THEOREM RuntimeReplacementIsReady == Spec => []ReplacementIsReady
<1>1. IInv => ReplacementIsReady
  BY DEF IInv
<1> QED BY <1>1, RuntimeInvariant, PTL

(* After a successful command the server directory holds one release the   *)
(* version stands for, completely.                                         *)
THEOREM RuntimeInstalledIsGenuine == Spec => []InstalledIsGenuine
<1>1. IInv => InstalledIsGenuine
  BY DEF IInv
<1> QED BY <1>1, RuntimeInvariant, PTL

(* No state of the cache, of the project or of pawn.lock makes a command   *)
(* fail by itself.                                                         *)
THEOREM RuntimeFailureHasACause == Spec => []FailureHasACause
<1>1. IInv => FailureHasACause
  BY DEF IInv
<1> QED BY <1>1, RuntimeInvariant, PTL

--------------------------------------------------------------------------------
(* The record.  Which files there are is known even of a bad archive: a    *)
(* staging directory is filled from nothing with the files of one release, *)
(* so its manifest and the lock that is made from it name just these.      *)
Whole(n, files) == \E r \in Named[n] : Present(files) = Ships[r]

UnpackedIsWhole ==
  /\ pc \in {"list", "cached", "download", "checksum"} /\ unpackTo = "staged" =>
       Present(staged[name]) = {}
  /\ pc = "unpack" /\ unpackTo = "staged" => Present(staged[name]) = Ships[Release] \ todo
  /\ pc = "manifest" => Whole(name, staged[name])

ManifestsAreWhole ==
  \A n \in Names : manifest[n].status = "written" => Whole(n, manifest[n].files)

LockIsWhole ==
  IF lock.status = "written" THEN Whole(lock.name, lock.files) ELSE Present(lock.files) = {}

(* What is copied, or found in place, agrees with the manifest: after a    *)
(* comparison with the record instead, only if record and manifest cannot  *)
(* be of different releases.                                               *)
PlaceIsTheManifest ==
  pc \in {"plugins", "record"} /\ (layout.typed => OneRelease(name) /\ ~slipped) =>
    Verified(info, Place)

(* The files of the old record are removed, or counted as unrecorded, by   *)
(* the time the new ones are copied, so that the new record misses none.   *)
HomeIsRecorded ==
  ~layout.separate /\ (layout.typed => \A n \in Names : OneRelease(n)) =>
    /\ Present(home) \subseteq unrecorded \cup Present(lock.files)
    /\ command # "try" =>
         /\ pc = "remove" => Present(home) \subseteq unrecorded \cup todo
         /\ pc = "copy" => Present(home) \subseteq unrecorded
         /\ pc \in {"plugins", "record"} =>
              Present(home) \subseteq unrecorded \cup Present(info)

OnlyEnsureRecords == pc = "record" => command = "ensure"

RInv == /\ OnlyEnsureRecords /\ UnpackedIsWhole /\ ManifestsAreWhole /\ LockIsWhole
        /\ PlaceIsTheManifest /\ HomeIsRecorded /\ LockIsTrue

LEMMA NoFilesArePresent == Present(NoFiles) = {}
BY DEF Present, NoFiles

(* A name that always stood for one release has it in the record and in    *)
(* the manifest, and a place that agrees with one agrees with the other.   *)
LEMMA OneReleaseAgrees ==
  ASSUME NEW n \in Names, NEW record, NEW files, NEW directory, OneRelease(n),
         Genuine(n, record), Genuine(n, files), Whole(n, files),
         Verified(record, directory)
  PROVE  Verified(files, directory)
<1>1. PICK r \in Named[n] : \A f \in Ships[r] : files[f] = r
  BY DEF Genuine
<1>2. Present(files) = Ships[r]
  BY <1>1 DEF Whole, OneRelease
<1>3. Genuine(n, directory)
  BY VerifiedIsGenuine
<1>4. \A f \in Ships[r] : directory[f] = r
  BY <1>1, <1>3 DEF Genuine, OneRelease
<1> QED BY <1>1, <1>2, <1>4 DEF Verified

LEMMA InstallingIsWhole ==
  ASSUME IInv, RInv, Installing PROVE Whole(name, info)
BY DEF IInv, RInv, TypeOK, ReplacementIsReady, ManifestsAreWhole, Staged

(* A file that gets a content becomes present, one that loses it absent.   *)
LEMMA PresentAfter ==
  ASSUME NEW files \in FileSets, NEW f \in Files, NEW content \in Contents
  PROVE  Present([files EXCEPT ![f] = content]) =
           IF content = "absent" THEN Present(files) \ {f} ELSE Present(files) \cup {f}
BY DEF Present, FileSets

LEMMA RecordInit == Init => RInv
BY NoFilesArePresent DEF Init, RInv, OnlyEnsureRecords, UnpackedIsWhole, ManifestsAreWhole, LockIsWhole, PlaceIsTheManifest,
   HomeIsRecorded, LockIsTrue, NoManifest, NoRuntime

(* No action loses track of a file or gives the manifest a release of its  *)
(* own.                                                                    *)
LEMMA RecordKeeps == IInv /\ RInv /\ [Next]_vars => RInv'
<1> SUFFICES ASSUME IInv, RInv, [Next]_vars PROVE RInv'
  OBVIOUS
<1>0. TypeOK /\ TypeOK'
  BY NextTypeOK DEF IInv
<1> USE <1>0 DEF RInv, Whole, Present, Verified, Goto, End, Fail, Fault, Idle, Release, Place, cacheVars, commandVars, historyVars
<1>1. CASE UseStage
  <2>1. OnlyEnsureRecords' /\ UnpackedIsWhole' /\ ManifestsAreWhole' /\ LockIsWhole'
    BY <1>1 DEF UseStage, OnlyEnsureRecords, UnpackedIsWhole, ManifestsAreWhole, LockIsWhole
  <2>2. PlaceIsTheManifest' /\ HomeIsRecorded' /\ LockIsTrue'
    BY <1>1 DEF UseStage, PlaceIsTheManifest, HomeIsRecorded, LockIsTrue
  <2> QED BY <2>1, <2>2
<1>2. CASE CleanStage
  <2>1. OnlyEnsureRecords' /\ ManifestsAreWhole' /\ LockIsWhole' /\ PlaceIsTheManifest'
    BY <1>2 DEF CleanStage, OnlyEnsureRecords, ManifestsAreWhole, LockIsWhole,
       PlaceIsTheManifest, NoManifest, NoFiles
  <2>2. HomeIsRecorded' /\ LockIsTrue'
    BY <1>2 DEF CleanStage, HomeIsRecorded, LockIsTrue, NoManifest, NoFiles
  <2>3. UnpackedIsWhole'
    <3>1. pc' = "list" /\ staged'[name'] = NoFiles
      BY <1>2 DEF CleanStage, TypeOK
    <3> QED BY <3>1, NoFilesArePresent DEF UnpackedIsWhole
  <2> QED BY <2>1, <2>2, <2>3
<1>3. CASE FindPackage
  <2>1. OnlyEnsureRecords' /\ UnpackedIsWhole' /\ ManifestsAreWhole' /\ LockIsWhole'
    BY <1>3 DEF FindPackage, OnlyEnsureRecords, UnpackedIsWhole, ManifestsAreWhole,
       LockIsWhole, GetOrRefreshJSON
  <2>2. PlaceIsTheManifest' /\ HomeIsRecorded' /\ LockIsTrue'
    BY <1>3 DEF FindPackage, PlaceIsTheManifest, HomeIsRecorded, LockIsTrue,
       GetOrRefreshJSON
  <2> QED BY <2>1, <2>2
<1>4. CASE FromCache
  <2>1. OnlyEnsureRecords' /\ UnpackedIsWhole' /\ ManifestsAreWhole' /\ LockIsWhole'
    BY <1>4 DEF FromCache, OnlyEnsureRecords, UnpackedIsWhole, ManifestsAreWhole,
       LockIsWhole, Cached
  <2>2. PlaceIsTheManifest' /\ HomeIsRecorded' /\ LockIsTrue'
    BY <1>4 DEF FromCache, PlaceIsTheManifest, HomeIsRecorded, LockIsTrue, Cached
  <2> QED BY <2>1, <2>2
<1>5. CASE Download
  <2>1. OnlyEnsureRecords' /\ UnpackedIsWhole' /\ ManifestsAreWhole' /\ LockIsWhole'
    BY <1>5 DEF Download, OnlyEnsureRecords, UnpackedIsWhole, ManifestsAreWhole,
       LockIsWhole, WriteFromReaderAtomic
  <2>2. PlaceIsTheManifest' /\ HomeIsRecorded' /\ LockIsTrue'
    BY <1>5 DEF Download, PlaceIsTheManifest, HomeIsRecorded, LockIsTrue,
       WriteFromReaderAtomic
  <2> QED BY <2>1, <2>2
<1>6. CASE DownloadFails
  <2>1. OnlyEnsureRecords' /\ UnpackedIsWhole' /\ ManifestsAreWhole' /\ LockIsWhole'
    BY <1>6 DEF DownloadFails, OnlyEnsureRecords, UnpackedIsWhole, ManifestsAreWhole,
       LockIsWhole
  <2>2. PlaceIsTheManifest' /\ HomeIsRecorded' /\ LockIsTrue'
    BY <1>6 DEF DownloadFails, PlaceIsTheManifest, HomeIsRecorded, LockIsTrue
  <2> QED BY <2>1, <2>2
<1>7. CASE MatchesChecksum
  <2>1. OnlyEnsureRecords' /\ UnpackedIsWhole' /\ ManifestsAreWhole' /\ LockIsWhole'
    BY <1>7 DEF MatchesChecksum, OnlyEnsureRecords, UnpackedIsWhole, ManifestsAreWhole,
       LockIsWhole
  <2>2. PlaceIsTheManifest' /\ HomeIsRecorded' /\ LockIsTrue'
    BY <1>7 DEF MatchesChecksum, PlaceIsTheManifest, HomeIsRecorded, LockIsTrue
  <2> QED BY <2>1, <2>2
<1>8. CASE UnpackFails
  <2>1. OnlyEnsureRecords' /\ UnpackedIsWhole' /\ ManifestsAreWhole' /\ LockIsWhole'
    BY <1>8 DEF UnpackFails, OnlyEnsureRecords, UnpackedIsWhole, ManifestsAreWhole,
       LockIsWhole
  <2>2. PlaceIsTheManifest' /\ HomeIsRecorded' /\ LockIsTrue'
    BY <1>8 DEF UnpackFails, PlaceIsTheManifest, HomeIsRecorded, LockIsTrue
  <2> QED BY <2>1, <2>2
<1>9. CASE UnpackEnds
  <2>1. OnlyEnsureRecords' /\ ManifestsAreWhole' /\ LockIsWhole' /\ PlaceIsTheManifest'
    BY <1>9 DEF UnpackEnds, OnlyEnsureRecords, ManifestsAreWhole, LockIsWhole,
       PlaceIsTheManifest
  <2>2. HomeIsRecorded' /\ LockIsTrue'
    BY <1>9 DEF UnpackEnds, HomeIsRecorded, LockIsTrue
  <2>3. UnpackedIsWhole'
    <3>1. unpackTo = "staged" => Whole(name, staged[name])
      <4>1. unpackTo = "staged" => Present(staged[name]) = Ships[Release]
        BY <1>9 DEF UnpackEnds, UnpackedIsWhole
      <4>2. Release \in Named[name]
        BY DEF IInv, NamesAreNamed, TypeOK
      <4> QED BY <4>1, <4>2
    <3> QED BY <1>9, <3>1 DEF UnpackEnds, UnpackedIsWhole
  <2> QED BY <2>1, <2>2, <2>3
<1>10. CASE WriteManifest
  <2>1. OnlyEnsureRecords' /\ UnpackedIsWhole' /\ LockIsWhole' /\ PlaceIsTheManifest'
    BY <1>10 DEF WriteManifest, OnlyEnsureRecords, UnpackedIsWhole, LockIsWhole,
       PlaceIsTheManifest
  <2>2. HomeIsRecorded' /\ LockIsTrue'
    BY <1>10 DEF WriteManifest, HomeIsRecorded, LockIsTrue
  <2>3. ManifestsAreWhole'
    <3>1. \A n \in Names :
            manifest'[n] = IF n = name THEN Written(staged[name]) ELSE manifest[n]
      BY <1>10 DEF WriteManifest, TypeOK
    <3>2. Whole(name, staged[name])
      BY <1>10 DEF WriteManifest, UnpackedIsWhole
    <3> QED BY <3>1, <3>2 DEF ManifestsAreWhole, Written
  <2> QED BY <2>1, <2>2, <2>3
<1>11. CASE Inspect
  <2>1. OnlyEnsureRecords' /\ UnpackedIsWhole' /\ ManifestsAreWhole' /\ LockIsWhole'
    BY <1>11 DEF Inspect, OnlyEnsureRecords, UnpackedIsWhole, ManifestsAreWhole, LockIsWhole
  <2>2. LockIsTrue'
    BY <1>11 DEF Inspect, LockIsTrue
  <2>3. PlaceIsTheManifest'
    <3>1. SUFFICES ASSUME UpToDate, layout.typed => OneRelease(name) /\ ~slipped
                   PROVE  Verified(info, Place)
      BY <1>11 DEF Inspect, PlaceIsTheManifest
    <3>2. CASE Verified(info, Place)
      BY <3>2
    <3>3. CASE /\ Existing.status = "written" /\ MatchesRuntime(Existing)
               /\ Verified(Existing.files, Place)
      <4>1. Existing = lock /\ lock.name = name /\ OneRelease(name) /\ ~slipped
        BY <3>1, <3>3 DEF Existing, NoRuntime, MatchesRuntime
      <4>2. Genuine(name, lock.files)
        BY <3>3, <4>1 DEF IInv, LockIsGenuine
      <4>3. Genuine(name, info) /\ Whole(name, info)
        BY <1>11, <4>1, InstallingIsGenuine, InstallingIsWhole DEF Inspect, Installing, RInv
      <4>4. name \in Names /\ Verified(lock.files, Place)
        BY <3>3, <4>1 DEF TypeOK
      <4> HIDE DEF Whole, Verified, Present, Place
      <4> QED BY <4>1, <4>2, <4>3, <4>4, OneReleaseAgrees
    <3> QED BY <3>1, <3>2, <3>3 DEF UpToDate
  <2>4. HomeIsRecorded'
    <3>1. SUFFICES ASSUME ~layout.separate, layout.typed => \A n \in Names : OneRelease(n),
                          command # "try"
                   PROVE  /\ pc' = "remove" => Present(home) \subseteq unrecorded \cup todo'
                          /\ pc' = "copy" => Present(home) \subseteq unrecorded
                          /\ pc' = "plugins" => Present(home) \subseteq unrecorded \cup Present(info)
      BY <1>11 DEF Inspect, HomeIsRecorded
    <3>2. Existing = lock /\ Present(home) \subseteq unrecorded \cup Present(lock.files)
      BY <3>1 DEF Existing, HomeIsRecorded
    <3>3. CASE lock.status # "written"
      BY <1>11, <3>2, <3>3 DEF Inspect, LockIsWhole
    <3>4. CASE lock.status = "written" /\ ~UpToDate
      BY <1>11, <3>2, <3>4 DEF Inspect
    <3>5. CASE lock.status = "written" /\ UpToDate
      <4>1. lock.name = name /\ OneRelease(name)
        BY <3>1, <3>2, <3>5 DEF UpToDate, MatchesRuntime, TypeOK
      <4>2. Whole(name, lock.files) /\ Whole(name, info)
        BY <1>11, <3>5, <4>1, InstallingIsWhole DEF LockIsWhole, Inspect, Installing, RInv
      <4>3. Present(lock.files) = Present(info)
        BY <4>1, <4>2 DEF Whole, OneRelease
      <4> QED BY <1>11, <3>2, <3>5, <4>3 DEF Inspect
    <3> QED BY <3>3, <3>4, <3>5
  <2> QED BY <2>1, <2>2, <2>3, <2>4
<1>12. CASE RemoveEnds
  <2>1. OnlyEnsureRecords' /\ UnpackedIsWhole' /\ ManifestsAreWhole' /\ LockIsWhole'
    BY <1>12 DEF RemoveEnds, OnlyEnsureRecords, UnpackedIsWhole, ManifestsAreWhole,
       LockIsWhole
  <2>2. PlaceIsTheManifest' /\ HomeIsRecorded' /\ LockIsTrue'
    BY <1>12 DEF RemoveEnds, PlaceIsTheManifest, HomeIsRecorded, LockIsTrue
  <2> QED BY <2>1, <2>2
<1>13. CASE CopyEnds
  <2>1. OnlyEnsureRecords' /\ UnpackedIsWhole' /\ ManifestsAreWhole' /\ LockIsWhole'
    BY <1>13 DEF CopyEnds, OnlyEnsureRecords, UnpackedIsWhole, ManifestsAreWhole,
       LockIsWhole
  <2>2. HomeIsRecorded' /\ LockIsTrue'
    BY <1>13 DEF CopyEnds, HomeIsRecorded, LockIsTrue
  <2>3. PlaceIsTheManifest'
    BY <1>13 DEF CopyEnds, PlaceIsTheManifest, IInv, CopiedIsTheManifest
  <2> QED BY <2>1, <2>2, <2>3
<1>14. CASE EnsurePlugins
  <2>1. OnlyEnsureRecords' /\ UnpackedIsWhole' /\ ManifestsAreWhole' /\ LockIsWhole'
    BY <1>14 DEF EnsurePlugins, OnlyEnsureRecords, UnpackedIsWhole, ManifestsAreWhole,
       LockIsWhole
  <2>2. PlaceIsTheManifest' /\ HomeIsRecorded' /\ LockIsTrue'
    BY <1>14 DEF EnsurePlugins, PlaceIsTheManifest, HomeIsRecorded, LockIsTrue
  <2> QED BY <2>1, <2>2
<1>15. CASE EnsurePluginsFails
  <2>1. OnlyEnsureRecords' /\ UnpackedIsWhole' /\ ManifestsAreWhole' /\ LockIsWhole'
    BY <1>15 DEF EnsurePluginsFails, OnlyEnsureRecords, UnpackedIsWhole, ManifestsAreWhole,
       LockIsWhole
  <2>2. PlaceIsTheManifest' /\ HomeIsRecorded' /\ LockIsTrue'
    BY <1>15 DEF EnsurePluginsFails, PlaceIsTheManifest, HomeIsRecorded, LockIsTrue
  <2> QED BY <2>1, <2>2
<1>16. CASE Record
  <2>1. OnlyEnsureRecords' /\ UnpackedIsWhole' /\ ManifestsAreWhole' /\ PlaceIsTheManifest'
    BY <1>16 DEF Record, OnlyEnsureRecords, UnpackedIsWhole, ManifestsAreWhole,
       PlaceIsTheManifest
  <2>2. LockIsWhole'
    <3>1. CASE lock' = lock
      BY <3>1 DEF LockIsWhole
    <3>2. CASE lock' = SetRuntime(name, info)
      BY <1>16, <3>2, InstallingIsWhole DEF Record, LockIsWhole, SetRuntime, Installing, RInv
    <3> QED BY <1>16, <3>1, <3>2 DEF Record
  <2>3. HomeIsRecorded'
    <3>1. CASE UNCHANGED <<lock, unrecorded>>
      BY <1>16, <3>1 DEF Record, HomeIsRecorded
    <3>2. CASE /\ lock' = SetRuntime(name, info)
               /\ unrecorded' = unrecorded \ Present(info)
      <4>1. /\ pc = "record" /\ command = "ensure" /\ pc' = "idle"
            /\ UNCHANGED <<home, layout>> /\ lock'.files = info
        BY <1>16, <3>2 DEF Record, OnlyEnsureRecords, SetRuntime
      <4> QED BY <3>2, <4>1 DEF HomeIsRecorded
    <3> QED BY <1>16, <3>1, <3>2 DEF Record
  <2>4. LockIsTrue'
    <3>1. SUFFICES ASSUME ~excused', layout.typed => OneRelease(name) /\ ~slipped,
                          command = "ensure"
                   PROVE  lock'.name = name /\ Verified(lock'.files, home)
      BY <1>16 DEF Record, LockIsTrue
    <3>2. lock' = SetRuntime(name, info)
      BY <1>16, <3>1 DEF Record
    <3>3. Verified(info, home)
      BY <1>16, <3>1 DEF Record, PlaceIsTheManifest
    <3> QED BY <3>2, <3>3 DEF SetRuntime
  <2> QED BY <2>1, <2>2, <2>3, <2>4
<1>17. ASSUME NEW f \in Files, Unpack(f) PROVE RInv'
  <2>1. OnlyEnsureRecords' /\ ManifestsAreWhole' /\ LockIsWhole' /\ PlaceIsTheManifest'
    BY <1>17 DEF Unpack, OnlyEnsureRecords, ManifestsAreWhole, LockIsWhole,
       PlaceIsTheManifest, Unpacked
  <2>2. HomeIsRecorded' /\ LockIsTrue'
    BY <1>17 DEF Unpack, HomeIsRecorded, LockIsTrue, Unpacked
  <2>3. UnpackedIsWhole'
    <3>1. CASE unpackTo # "staged"
      BY <1>17, <3>1 DEF Unpack, UnpackedIsWhole
    <3>2. CASE unpackTo = "staged"
      <4>1. PICK x \in Contents \ {"absent"} : staged' = [staged EXCEPT ![name][f] = x]
        BY <1>17, <3>2, ReleaseIsRelease, MarksAssumption
           DEF Unpack, Unpacked, Contents, Marks, MarksAssumption
      <4>2. staged'[name] = [staged[name] EXCEPT ![f] = x] /\ staged[name] \in FileSets
        BY <4>1 DEF TypeOK
      <4>3. Present(staged'[name]) = Present(staged[name]) \cup {f}
        BY <4>1, <4>2, PresentAfter
      <4>4. /\ pc = "unpack" /\ f \in todo /\ todo \subseteq Ships[Release]
            /\ todo' = todo \ {f} /\ UNCHANGED <<pc, name, list>>
        BY <1>17 DEF Unpack, TypeOK
      <4> QED BY <3>2, <4>3, <4>4 DEF UnpackedIsWhole
    <3> QED BY <3>1, <3>2
  <2> QED BY <2>1, <2>2, <2>3
<1>18. ASSUME NEW f \in Files, RemoveFile(f) PROVE RInv'
  <2>1. OnlyEnsureRecords' /\ UnpackedIsWhole' /\ ManifestsAreWhole' /\ LockIsWhole'
    BY <1>18 DEF RemoveFile, OnlyEnsureRecords, UnpackedIsWhole, ManifestsAreWhole,
       LockIsWhole
  <2>2. PlaceIsTheManifest'
    BY <1>18 DEF RemoveFile, PlaceIsTheManifest
  <2>3. HomeIsRecorded'
    <3>1. Present(home') = Present(home) \ {f}
      <4>1. home \in FileSets /\ home' = [home EXCEPT ![f] = "absent"] /\ "absent" \in Contents
        BY <1>18 DEF RemoveFile, TypeOK, Contents, Marks
      <4> HIDE DEF Present
      <4> QED BY <4>1, PresentAfter
    <3>2. /\ pc = "remove" /\ unrecorded' = unrecorded \ {f} /\ todo' = todo \ {f}
          /\ UNCHANGED <<layout, lock, command, pc>>
      BY <1>18 DEF RemoveFile
    <3> QED BY <3>1, <3>2 DEF HomeIsRecorded
  <2>4. LockIsTrue'
    BY <1>18 DEF RemoveFile, LockIsTrue, IInv, VerdictIsLast
  <2> QED BY <2>1, <2>2, <2>3, <2>4
<1>19. ASSUME NEW f \in Files, CopyFile(f) PROVE RInv'
  <2>1. OnlyEnsureRecords' /\ UnpackedIsWhole' /\ ManifestsAreWhole' /\ LockIsWhole'
    BY <1>19 DEF CopyFile, OnlyEnsureRecords, UnpackedIsWhole, ManifestsAreWhole,
       LockIsWhole, PutInPlace
  <2>2. PlaceIsTheManifest'
    BY <1>19 DEF CopyFile, PlaceIsTheManifest, PutInPlace
  <2>3. HomeIsRecorded'
    <3>1. /\ pc = "copy" /\ UNCHANGED <<layout, lock, command, pc>>
          /\ IF command = "try" THEN UNCHANGED <<home, unrecorded>>
             ELSE /\ Present(home') \subseteq Present(home) \cup {f}
                  /\ unrecorded' = unrecorded \cup {f}
      BY <1>19 DEF CopyFile, PutInPlace, TypeOK, FileSets
    <3> QED BY <3>1 DEF HomeIsRecorded
  <2>4. LockIsTrue'
    BY <1>19 DEF CopyFile, LockIsTrue, IInv, VerdictIsLast
  <2> QED BY <2>1, <2>2, <2>3, <2>4
<1>20. ASSUME NEW f \in Files, CopyFails(f) PROVE RInv'
  <2>1. OnlyEnsureRecords' /\ UnpackedIsWhole' /\ ManifestsAreWhole' /\ LockIsWhole'
    BY <1>20 DEF CopyFails, OnlyEnsureRecords, UnpackedIsWhole, ManifestsAreWhole,
       LockIsWhole, PutInPlace
  <2>2. PlaceIsTheManifest' /\ LockIsTrue'
    BY <1>20 DEF CopyFails, PlaceIsTheManifest, LockIsTrue, PutInPlace
  <2>3. HomeIsRecorded'
    <3>1. /\ pc' = "idle" /\ UNCHANGED <<layout, lock>>
          /\ \/ UNCHANGED <<home, unrecorded>>
             \/ /\ Present(home') \subseteq Present(home) \cup {f}
                /\ unrecorded' = unrecorded \cup {f}
      BY <1>20 DEF CopyFails, PutInPlace, TypeOK, FileSets
    <3> QED BY <3>1 DEF HomeIsRecorded
  <2> QED BY <2>1, <2>2, <2>3
<1>21. ASSUME NEW c \in Commands, Begin(c) PROVE RInv'
  <2>1. OnlyEnsureRecords' /\ UnpackedIsWhole' /\ ManifestsAreWhole' /\ LockIsWhole'
    BY <1>21 DEF Begin, OnlyEnsureRecords, UnpackedIsWhole, ManifestsAreWhole, LockIsWhole
  <2>2. PlaceIsTheManifest' /\ HomeIsRecorded' /\ LockIsTrue'
    BY <1>21 DEF Begin, PlaceIsTheManifest, HomeIsRecorded, LockIsTrue
  <2> QED BY <2>1, <2>2
<1>22. CASE Crash
  <2>1. OnlyEnsureRecords' /\ UnpackedIsWhole' /\ ManifestsAreWhole' /\ PlaceIsTheManifest'
    BY <1>22 DEF Crash, OnlyEnsureRecords, UnpackedIsWhole, ManifestsAreWhole,
       PlaceIsTheManifest, NoRuntime, NoFiles
  <2>2. LockIsTrue'
    BY <1>22 DEF Crash, LockIsTrue, NoRuntime, NoFiles
  <2>3. LockIsWhole'
    <3>1. CASE lock' = lock
      BY <3>1 DEF LockIsWhole
    <3>2. CASE lock' = [NoRuntime EXCEPT !.status = "torn"]
      <4>1. lock'.status = "torn" /\ lock'.files = NoFiles
        BY <3>2 DEF NoRuntime
      <4> QED BY <4>1, NoFilesArePresent DEF LockIsWhole
    <3> QED BY <1>22, <3>1, <3>2 DEF Crash
  <2>4. HomeIsRecorded'
    <3>1. pc' = "idle" /\ layout' = layout
      BY <1>22 DEF Crash
    <3>2. ASSUME NEW f \in Files, PutInPlace(f, "torn")
          PROVE  \/ UNCHANGED <<home, unrecorded>>
                 \/ /\ Present(home') \subseteq Present(home) \cup {f}
                    /\ unrecorded' = unrecorded \cup {f}
      BY <3>2 DEF PutInPlace, TypeOK, FileSets
    <3>3. CASE (\E f \in todo : Torn(f)) /\ UNCHANGED lock
      <4>1. PICK f \in todo : Torn(f)
        BY <3>3
      <4>2. f \in Files
        BY <4>1 DEF TypeOK
      <4>3. UNCHANGED <<home, unrecorded>> \/ PutInPlace(f, "torn")
        BY <4>1 DEF Torn
      <4> QED BY <3>1, <3>2, <3>3, <4>2, <4>3 DEF HomeIsRecorded
    <3>4. CASE UNCHANGED <<home, lock, unrecorded>>
      BY <3>1, <3>4 DEF HomeIsRecorded
    <3>5. CASE unrecorded' = unrecorded \cup Present(home) /\ home' = home
      BY <3>1, <3>5 DEF HomeIsRecorded
    <3> QED BY <1>22, <3>3, <3>4, <3>5 DEF Crash
  <2> QED BY <2>1, <2>2, <2>3, <2>4
<1>23. CASE DeleteLock
  <2>1. OnlyEnsureRecords' /\ UnpackedIsWhole' /\ ManifestsAreWhole' /\ LockIsWhole'
    BY <1>23 DEF DeleteLock, OnlyEnsureRecords, UnpackedIsWhole, ManifestsAreWhole,
       LockIsWhole, NoRuntime, NoFiles
  <2>2. PlaceIsTheManifest' /\ HomeIsRecorded' /\ LockIsTrue'
    BY <1>23 DEF DeleteLock, PlaceIsTheManifest, HomeIsRecorded, LockIsTrue, NoRuntime,
       NoFiles
  <2> QED BY <2>1, <2>2
<1>24. CASE ClearCache
  <2>1. OnlyEnsureRecords' /\ UnpackedIsWhole' /\ ManifestsAreWhole' /\ LockIsWhole'
    BY <1>24 DEF ClearCache, OnlyEnsureRecords, UnpackedIsWhole, ManifestsAreWhole,
       LockIsWhole, NoManifest
  <2>2. PlaceIsTheManifest' /\ HomeIsRecorded' /\ LockIsTrue'
    BY <1>24 DEF ClearCache, PlaceIsTheManifest, HomeIsRecorded, LockIsTrue, NoManifest
  <2> QED BY <2>1, <2>2
<1>25. CASE ListAges
  <2>1. OnlyEnsureRecords' /\ UnpackedIsWhole' /\ ManifestsAreWhole' /\ LockIsWhole'
    BY <1>25 DEF ListAges, OnlyEnsureRecords, UnpackedIsWhole, ManifestsAreWhole,
       LockIsWhole
  <2>2. PlaceIsTheManifest' /\ HomeIsRecorded' /\ LockIsTrue'
    BY <1>25 DEF ListAges, PlaceIsTheManifest, HomeIsRecorded, LockIsTrue
  <2> QED BY <2>1, <2>2
<1>26. ASSUME NEW n \in Names, SwitchRuntime(n) PROVE RInv'
  <2>1. OnlyEnsureRecords' /\ UnpackedIsWhole' /\ ManifestsAreWhole' /\ LockIsWhole'
    BY <1>26 DEF SwitchRuntime, OnlyEnsureRecords, UnpackedIsWhole, ManifestsAreWhole,
       LockIsWhole
  <2>2. PlaceIsTheManifest' /\ HomeIsRecorded' /\ LockIsTrue'
    BY <1>26 DEF SwitchRuntime, PlaceIsTheManifest, HomeIsRecorded, LockIsTrue
  <2> QED BY <2>1, <2>2
<1>27. ASSUME NEW n \in Names, NEW r \in Releases, Publish(n, r) PROVE RInv'
  <2>1. OnlyEnsureRecords' /\ UnpackedIsWhole' /\ ManifestsAreWhole' /\ LockIsWhole'
    BY <1>27 DEF Publish, OnlyEnsureRecords, UnpackedIsWhole, ManifestsAreWhole, LockIsWhole
  <2>2. PlaceIsTheManifest' /\ HomeIsRecorded' /\ LockIsTrue'
    BY <1>27 DEF Publish, PlaceIsTheManifest, HomeIsRecorded, LockIsTrue
  <2> QED BY <2>1, <2>2
<1>28. ASSUME NEW f \in Files, NEW x \in {"absent", "edited"}, EditFile(f, x) PROVE RInv'
  <2>1. OnlyEnsureRecords' /\ UnpackedIsWhole' /\ ManifestsAreWhole' /\ LockIsWhole'
    BY <1>28 DEF EditFile, OnlyEnsureRecords, UnpackedIsWhole, ManifestsAreWhole,
       LockIsWhole
  <2>2. PlaceIsTheManifest' /\ HomeIsRecorded' /\ LockIsTrue'
    BY <1>28 DEF EditFile, PlaceIsTheManifest, HomeIsRecorded, LockIsTrue
  <2> QED BY <2>1, <2>2
<1>29. CASE UNCHANGED vars
  <2>1. OnlyEnsureRecords' /\ UnpackedIsWhole' /\ ManifestsAreWhole' /\ LockIsWhole'
    BY <1>29 DEF vars, OnlyEnsureRecords, UnpackedIsWhole, ManifestsAreWhole, LockIsWhole
  <2>2. PlaceIsTheManifest' /\ HomeIsRecorded' /\ LockIsTrue'
    BY <1>29 DEF vars, PlaceIsTheManifest, HomeIsRecorded, LockIsTrue
  <2> QED BY <2>1, <2>2
<1> QED BY <1>1, <1>2, <1>3, <1>4, <1>5, <1>6, <1>7, <1>8, <1>9, <1>10, <1>11, <1>12, <1>13,
           <1>14, <1>15, <1>16, <1>17, <1>18, <1>19, <1>20, <1>21, <1>22, <1>23, <1>24,
           <1>25, <1>26, <1>27, <1>28, <1>29 DEF Next, Step

THEOREM RecordInvariant == Spec => []RInv
BY RuntimeInvariant, RecordInit, RecordKeeps, PTL DEF Spec

(* After an undisturbed "ensure", pawn.lock names the version of pawn.json *)
(* and files that are there with the content it gives.                     *)
THEOREM RuntimeLockIsTrue == Spec => []LockIsTrue
<1>1. RInv => LockIsTrue
  BY DEF RInv
<1> QED BY <1>1, RecordInvariant, PTL

(* No file stays in the server directory that neither pawn.lock nor a      *)
(* command that recorded nothing accounts for.                             *)
THEOREM RuntimeAllIsRecorded == Spec => []AllIsRecorded
<1>1. RInv => AllIsRecorded
  BY DEF RInv, HomeIsRecorded, AllIsRecorded
<1> QED BY <1>1, RecordInvariant, PTL

================================================================================
