-------------------------- MODULE PluginResources_proofs -----------------------
(***************************************************************************)
(* For any number of releases, any files and any number of faults: an      *)
(* asset in the directory of a tag is of that release, a successful        *)
(* "ensure" has unpacked the release that pawn.lock names unless it went   *)
(* on without the include files, and no command takes steps for ever.      *)
(***************************************************************************)
EXTENDS PluginResources, FiniteSetTheorems, WellFoundedInduction, TLAPS

LEMMA ReleaseFacts ==
  /\ None \notin Releases /\ Releases \subseteq Contents /\ None \in Contents
  /\ Edited \in Contents /\ Torn \in Contents /\ Releases \subseteq Nat
  /\ \A r \in Releases : r <= Newest /\ (r # Newest => r + 1 \in Releases)
  /\ 1 \in Releases /\ 1 \in 1..MaxAttempts /\ 0 \in 0..MaxFaults
BY NewestAssumption, AttemptsAssumption
   DEF NewestAssumption, AttemptsAssumption, None, Releases, Contents, Edited, Torn

(* A non-empty set of releases has a newest one: the distance to the last  *)
(* release there will be has a least value.                                *)
LEMMA NewestIsOne ==
  ASSUME NEW S \in SUBSET Releases, S # {} PROVE NewestOf(S) \in S
<1> DEFINE D == {Newest - q : q \in S}
           L == {p \in Nat \X Nat : p[1] < p[2]}
<1>1. \A q \in Releases : q \in Nat /\ Newest - q \in Nat
  BY NewestAssumption DEF NewestAssumption, Releases
<1>2. D \subseteq Nat /\ D # {}
  BY <1>1
<1>3. PICK d \in D : \A e \in D : ~(<<e, d>> \in L)
  <2>1. IsWellFoundedOn(L, Nat)
    BY NatLessThanWellFounded, Zenon DEF OpToRel
  <2> HIDE DEF D, L
  <2> QED BY <1>2, <2>1, WFMin
<1>4. PICK q \in S : d = Newest - q
  BY <1>3
<1>5. ASSUME NEW p \in S PROVE p <= q
  <2>1. Newest - p \in D /\ d \in Nat /\ Newest - p \in Nat
    BY <1>1, <1>2
  <2>2. ~(Newest - p < d)
    BY <1>3, <2>1
  <2> QED BY <1>1, <1>4, <2>1, <2>2, NewestAssumption DEF NewestAssumption
<1> QED BY <1>5 DEF NewestOf

LEMMA AssetTypes ==
  /\ NoAsset \in Asset /\ \A r \in Releases : Of(r) \in Asset
BY DEF NoAsset, Of, Asset

LEMMA WantedType ==
  ASSUME TypeOK PROVE Wanted \in {None} \cup Releases /\ (Pinned => Wanted = reference.tag)
BY DEF TypeOK, Wanted, Pinned, References

(* What the cache has for a release is of the release that asset[] says,   *)
(* for a tag that of its own directory.                                    *)
LEMMA CachedType ==
  ASSUME TypeOK, NEW r \in {None} \cup Releases
  PROVE  /\ Cached(r) \in {None} \cup Releases
         /\ r # None => Cached(r) \in {None, asset[r].content}
<1>1. Fresh \subseteq Releases
  BY DEF Fresh
<1>2. Fresh # {} => NewestOf(Fresh) \in Releases
  BY <1>1, NewestIsOne
<1>3. \A q \in Releases : asset[q].content \in {None} \cup Releases
  BY DEF TypeOK, Asset
<1>4. unnamed.content \in {None} \cup Releases
  BY DEF TypeOK, Asset
<1> QED BY <1>2, <1>3, <1>4 DEF Cached

LEMMA FaultType ==
  ASSUME TypeOK, Fault PROVE faults' \in 0..MaxFaults
BY AttemptsAssumption DEF TypeOK, Fault, AttemptsAssumption

LEMMA EndType ==
  ASSUME NEW v \in {"none", "ok", "failed"}, TypeOK, End(v)
  PROVE  /\ pc' = "idle" /\ result' = v /\ pass' = "includes" /\ attempt' \in 1..MaxAttempts
         /\ todo' \subseteq Files /\ chosen' = None /\ resolved' = None
         /\ again' = FALSE /\ missed' = missed
         /\ command' = command /\ noCache' = noCache
BY ReleaseFacts DEF End, Goto

(* What fails ends the command, or begins the second attempt or the pass   *)
(* for the plugin.                                                         *)
LEMMA AttemptType ==
  ASSUME TypeOK, AttemptFails
  PROVE  /\ pc' \in {"idle", "resolve", "lookup"} /\ result' \in {"none", "ok", "failed"}
         /\ pass' \in Passes /\ attempt' \in 1..MaxAttempts /\ todo' \subseteq Files
         /\ chosen' = None /\ resolved' \in {None} \cup Releases
         /\ again' \in BOOLEAN /\ missed' \in BOOLEAN
         /\ command' = command /\ noCache' = noCache
BY ReleaseFacts DEF AttemptFails, TriesAgain, GoesWithout, End, Goto, TypeOK, Passes

LEMMA UsingType ==
  ASSUME TypeOK, NEW c \in Releases, Using(c)
  PROVE  pc' = "unpack" /\ chosen' = c /\ chosen' # None /\ todo' \subseteq Files
BY ReleaseFacts DEF Using, Goto, Unpacks, Files

LEMMA PutType ==
  ASSUME TypeOK, NEW f \in Files, NEW c \in Contents, Put(f, c)
  PROVE  /\ resources' \in [Includes \cup Settings -> Contents]
         /\ working' \in [Plugins \cup Settings -> Contents]
BY DEF TypeOK, Put

LEMMA InitTypeOK == Init => TypeOK
<1> SUFFICES ASSUME Init PROVE TypeOK
  OBVIOUS
<1> USE ReleaseFacts DEF Init
<1>1. /\ published \in Releases /\ reference \in References /\ defined \in {"repo", "official"}
      /\ head \in {None} \cup Releases /\ locked = None /\ resolved = None
  OBVIOUS
<1>2. asset \in [Releases -> Asset] /\ unnamed \in Asset
  BY AssetTypes
<1>3. /\ resources \in [Includes \cup Settings -> Contents]
      /\ working \in [Plugins \cup Settings -> Contents]
  OBVIOUS
<1>4. /\ noCache \in BOOLEAN /\ ready \in BOOLEAN /\ mixed \in BOOLEAN
      /\ again \in BOOLEAN /\ missed \in BOOLEAN
  BY Zenon
<1>5. /\ command \in Commands /\ pc = "idle" /\ pass \in Passes
      /\ attempt \in 1..MaxAttempts /\ todo \subseteq Files
      /\ result \in {"none", "ok", "failed"} /\ chosen = None /\ other = None
      /\ faults \in 0..MaxFaults
  BY DEF Commands, Stages, Passes
<1> QED BY <1>1, <1>2, <1>3, <1>4, <1>5 DEF TypeOK, Stages

LEMMA NextTypeOK == TypeOK /\ [Next]_vars => TypeOK'
<1> SUFFICES ASSUME TypeOK, [Next]_vars PROVE TypeOK'
  OBVIOUS
<1> USE DEF Goto, projectVars, cacheVars, commandVars, controlVars, skipVars
<1>1. CASE Resolve
  <2>1. reference' \in References /\ Updated \in References
    BY <1>1 DEF Resolve, Updated, TypeOK, References
  <2>2. resolved' \in {None} \cup Releases
    <3>1. Updated.tag \in Releases
      BY <2>1 DEF References
    <3> QED BY <1>1, <3>1 DEF Resolve, TypeOK
  <2>3. head' \in {None} \cup Releases
    BY <1>1 DEF Resolve, TypeOK
  <2> QED BY <1>1, <2>1, <2>2, <2>3 DEF Resolve, TypeOK, Stages
<1>2. CASE ResolveFails
  <2>1. AttemptFails
    BY <1>2 DEF ResolveFails
  <2>2. reference' \in References
    BY <1>2 DEF ResolveFails, Updated, TypeOK, References
  <2> QED BY <1>2, <2>1, <2>2, AttemptType DEF ResolveFails, TypeOK, Stages
<1>3. CASE PluginFromCache
  <2>1. head # None => head \in Releases
    BY DEF TypeOK
  <2>2. Cached(Wanted) # None => Cached(Wanted) \in Releases
    BY WantedType, CachedType
  <2>3. /\ pc' \in Stages /\ (pc' \in {"download", "move", "unpack"} => chosen' # None)
        /\ chosen' \in {None} \cup Releases /\ todo' \subseteq Files
    BY <1>3, <2>1, <2>2, UsingType DEF PluginFromCache, TypeOK, Stages
  <2>4. UNCHANGED <<published, projectVars, locked, cacheVars, resources, working, command,
                    noCache, pass, attempt, result, skipVars, resolved, other, faults, ready,
                    mixed>>
    BY <1>3 DEF PluginFromCache
  <2> QED BY <2>3, <2>4 DEF TypeOK
<1>4. CASE RemoteDefinition
  BY <1>4 DEF RemoteDefinition, TypeOK, Stages
<1>5. CASE NoRemoteDefinition
  <2>1. AttemptFails
    BY <1>5 DEF NoRemoteDefinition
  <2> QED BY <1>5, <2>1, AttemptType DEF NoRemoteDefinition, TypeOK, Stages
<1>6. CASE Ensure
  <2>1. Cached(Wanted) # None => Cached(Wanted) \in Releases
    BY WantedType, CachedType
  <2>2. /\ pc' \in Stages /\ (pc' \in {"download", "move", "unpack"} => chosen' # None)
        /\ chosen' \in {None} \cup Releases /\ todo' \subseteq Files
    BY <1>6, <2>1, UsingType, WantedType, ReleaseFacts DEF Ensure, TypeOK, Stages
  <2>3. UNCHANGED <<published, projectVars, locked, cacheVars, resources, working, command,
                    noCache, pass, attempt, result, skipVars, resolved, other, faults, ready,
                    mixed>>
    BY <1>6 DEF Ensure
  <2> QED BY <2>2, <2>3 DEF TypeOK
<1>7. CASE Download
  <2>1. CASE Wanted # None
    <3>1. asset' \in [Releases -> Asset] /\ UNCHANGED <<unnamed, mixed>>
      BY <1>7, <2>1, WantedType, AssetTypes DEF Download, TypeOK
    <3>2. pc' = "unpack" /\ chosen' \in Releases /\ chosen' # None /\ todo' \subseteq Files
      BY <1>7, <2>1, WantedType, UsingType, ReleaseFacts DEF Download, TypeOK
    <3> QED BY <1>7, <3>1, <3>2, ReleaseFacts DEF Download, TypeOK, Stages
  <2>2. CASE Wanted = None
    <3>1. unnamed' \in Asset
      BY <1>7, <2>2, AssetTypes, ReleaseFacts DEF Download, TypeOK
    <3>2. mixed' \in BOOLEAN
      BY <1>7, <2>2, Zenon DEF Download
    <3>3. pc' = "move" /\ UNCHANGED <<asset, chosen, todo>>
      BY <1>7, <2>2 DEF Download
    <3> QED BY <1>7, <3>1, <3>2, <3>3, ReleaseFacts DEF Download, TypeOK, Stages
  <2> QED BY <2>1, <2>2
<1>8. CASE Retry
  <2>1. attempt' \in 1..MaxAttempts
    BY <1>8, AttemptsAssumption DEF Retry, TypeOK, AttemptsAssumption
  <2> QED BY <1>8, <2>1 DEF Retry, TypeOK
<1>9. CASE DownloadFails
  <2>1. AttemptFails
    BY <1>9 DEF DownloadFails
  <2> QED BY <1>9, <2>1, AttemptType DEF DownloadFails, TypeOK, Stages
<1>10. CASE Move
  <2>1. CASE unnamed.content = None
    <3>1. AttemptFails
      BY <1>10, <2>1 DEF Move
    <3> QED BY <1>10, <2>1, <3>1, AttemptType DEF Move, TypeOK, Stages
  <2>2. CASE unnamed.content # None
    <3>1. unnamed.content \in Releases
      BY <2>2 DEF TypeOK, Asset
    <3>2. pc' = "unpack" /\ chosen' \in Releases /\ chosen' # None /\ todo' \subseteq Files
      BY <1>10, <2>2, <3>1, UsingType DEF Move
    <3>3. asset' \in [Releases -> Asset] /\ unnamed' \in Asset
      BY <1>10, <2>2, AssetTypes DEF Move, TypeOK
    <3> QED BY <1>10, <2>2, <3>2, <3>3 DEF Move, TypeOK, Stages
  <2> QED BY <2>1, <2>2
<1>11. ASSUME NEW f \in Files, Unpack(f) PROVE TypeOK'
  <2>1. /\ resources' \in [Includes \cup Settings -> Contents]
        /\ working' \in [Plugins \cup Settings -> Contents]
    BY <1>11, PutType, ReleaseFacts DEF Unpack, TypeOK
  <2> QED BY <1>11, <2>1 DEF Unpack, TypeOK
<1>12. CASE UnpackEnds
  <2>1. CASE pass = "includes"
    BY <1>12, <2>1 DEF UnpackEnds, TypeOK, Stages, Passes
  <2>2. CASE pass # "includes"
    <3>1. /\ pc' = "idle" /\ result' = "ok" /\ pass' = "includes"
          /\ attempt' \in 1..MaxAttempts /\ todo' \subseteq Files /\ chosen' = None
          /\ resolved' = None /\ again' = FALSE /\ missed' = missed
          /\ command' = command /\ noCache' = noCache
      BY <1>12, <2>2, EndType DEF UnpackEnds
    <3>2. locked' \in {None} \cup Releases
      BY <1>12, <2>2 DEF UnpackEnds, TypeOK
    <3> QED BY <1>12, <3>1, <3>2 DEF UnpackEnds, TypeOK, Stages, Passes
  <2> QED BY <2>1, <2>2
<1>13. ASSUME NEW c \in Commands, NEW skip \in BOOLEAN, Begin(c, skip) PROVE TypeOK'
  <2>1. ready' \in BOOLEAN
    BY <1>13, Zenon DEF Begin, Sufficient
  <2>2. noCache' \in BOOLEAN
    BY <1>13 DEF Begin
  <2> QED BY <1>13, <2>1, <2>2 DEF Begin, TypeOK, Stages, Passes
<1>14. ASSUME NEW r \in Releases, OtherPins(r) PROVE TypeOK'
  <2>1. asset' \in [Releases -> Asset]
    BY <1>14, AssetTypes DEF OtherPins, TypeOK
  <2> QED BY <1>14, <2>1 DEF OtherPins, TypeOK
<1>15. ASSUME NEW r \in Releases, EditReference(r) PROVE TypeOK'
  <2>1. reference' \in References /\ faults' \in 0..MaxFaults
    BY <1>15, FaultType DEF EditReference, Idle, TypeOK, References
  <2> QED BY <1>15, <2>1 DEF EditReference, Idle, TypeOK
<1>16. CASE OtherDownloads
  <2>1. unnamed' \in Asset /\ other' \in Releases
    BY <1>16, AssetTypes DEF OtherDownloads, TypeOK
  <2>2. mixed' \in BOOLEAN
    BY <1>16, Zenon DEF OtherDownloads
  <2> QED BY <1>16, <2>1, <2>2 DEF OtherDownloads, TypeOK
<1>17. CASE OtherMoves
  <2>1. asset' \in [Releases -> Asset] /\ unnamed' \in Asset
    BY <1>17, AssetTypes DEF OtherMoves, TypeOK
  <2> QED BY <1>17, <2>1 DEF OtherMoves, TypeOK
<1>18. ASSUME NEW v \in {"none", "failed"}, Crash(v) PROVE TypeOK'
  <2>1. /\ pc' = "idle" /\ result' = v /\ pass' = "includes"
        /\ attempt' \in 1..MaxAttempts /\ todo' \subseteq Files /\ chosen' = None
        /\ resolved' = None /\ again' = FALSE /\ missed' = missed
        /\ command' = command /\ noCache' = noCache
    BY <1>18, EndType DEF Crash
  <2>2. /\ resources' \in [Includes \cup Settings -> Contents]
        /\ working' \in [Plugins \cup Settings -> Contents]
    BY <1>18, PutType, ReleaseFacts DEF Crash, TypeOK
  <2>3. faults' \in 0..MaxFaults
    BY <1>18, FaultType DEF Crash
  <2> QED BY <1>18, <2>1, <2>2, <2>3 DEF Crash, TypeOK, Stages, Passes
<1>19. CASE Publish
  <2>1. published' \in Releases
    BY <1>19, ReleaseFacts DEF Publish, TypeOK
  <2> QED BY <1>19, <2>1 DEF Publish, TypeOK
<1>20. CASE WeekPasses
  <2>1. asset' \in [Releases -> Asset] /\ unnamed' \in Asset
    BY <1>20 DEF WeekPasses, TypeOK, Asset
  <2>2. faults' \in 0..MaxFaults
    BY <1>20, FaultType DEF WeekPasses, Idle
  <2> QED BY <1>20, <2>1, <2>2 DEF WeekPasses, Idle, TypeOK
<1>21. ASSUME NEW f \in Settings, EditSettings(f) PROVE TypeOK'
  <2>1. working' \in [Plugins \cup Settings -> Contents]
    BY <1>21, ReleaseFacts DEF EditSettings, TypeOK
  <2>2. faults' \in 0..MaxFaults
    BY <1>21, FaultType DEF EditSettings, Idle
  <2> QED BY <1>21, <2>1, <2>2 DEF EditSettings, Idle, TypeOK
<1>22. CASE UpdateFails
  <2>1. /\ pc' = "idle" /\ result' = "failed" /\ pass' = "includes"
        /\ attempt' \in 1..MaxAttempts /\ todo' \subseteq Files /\ chosen' = None
        /\ resolved' = None /\ again' = FALSE /\ missed' = missed
        /\ command' = command /\ noCache' = noCache
    BY <1>22, EndType DEF UpdateFails
  <2> QED BY <1>22, <2>1 DEF UpdateFails, TypeOK, Stages, Passes
<1>23. CASE ResourceDefinition
  <2>1. CASE AttemptFails
    BY <1>23, <2>1, AttemptType DEF ResourceDefinition, TypeOK, Stages
  <2>2. CASE ~AttemptFails
    <3>1. /\ pc' = "lookup" /\ pass' \in {pass, "plugins"} /\ again' \in {again, FALSE}
          /\ missed' \in {missed, TRUE}
          /\ UNCHANGED <<attempt, todo, chosen, command, noCache, result, resolved>>
      BY <1>23, <2>2 DEF ResourceDefinition, GoesWithout
    <3>2. again' \in BOOLEAN /\ missed' \in BOOLEAN
      BY <3>1 DEF TypeOK
    <3> QED BY <1>23, <3>1, <3>2 DEF ResourceDefinition, TypeOK, Stages, Passes
  <2> QED BY <2>1, <2>2
<1>24. ASSUME NEW f \in Files, UnpackFails(f) PROVE TypeOK'
  <2>1. /\ resources' \in [Includes \cup Settings -> Contents]
        /\ working' \in [Plugins \cup Settings -> Contents]
    BY <1>24, PutType, ReleaseFacts DEF UnpackFails
  <2>2. faults' \in 0..MaxFaults
    BY <1>24, FaultType DEF UnpackFails
  <2> QED BY <1>24, <2>1, <2>2, AttemptType DEF UnpackFails, TypeOK, Stages
<1>25. CASE UNCHANGED vars
  BY <1>25 DEF vars, TypeOK
<1> QED BY <1>1, <1>2, <1>3, <1>4, <1>5, <1>6, <1>7, <1>8, <1>9, <1>10, <1>11,
    <1>12, <1>13, <1>14, <1>15, <1>16, <1>17, <1>18, <1>19, <1>20, <1>21, <1>22,
    <1>23, <1>24, <1>25 DEF Next, Step

(* Releases, files and stages are what their names say; no download is     *)
(* tried more often than fromNetMaxAttempts, nothing that is no release is *)
(* unpacked.                                                               *)
THEOREM PluginTypeCorrect == Spec => []TypeOK
BY InitTypeOK, NextTypeOK, PTL DEF Spec

--------------------------------------------------------------------------------
(* The inductive invariant: whose asset is in "latest", which release the  *)
(* command wants, and what it has unpacked of it so far.                   *)
LatestIsShared ==
  /\ pc = "move" /\ other # None => mixed
  /\ pc = "move" /\ ~mixed => unnamed.content \in {None, chosen}
  /\ other # None /\ ~mixed => unnamed.content \in {None, other}

Resolving == pc \in {"idle", "resolve"}

VersionIsResolved ==
  ~Resolving /\ command # "run" /\ ~missed =>
    resolved # None /\ (Pinned => resolved = reference.tag)

VerdictIsLast == result # "none" => pc = "idle"

DownloadIsWanted == pc \in {"download", "move"} /\ Wanted # None => chosen = Wanted

MoveIsUnnamed == pc = "move" => Wanted = None

RunMakesOnePass ==
  /\ pass = "plugins" \/ command # "run" \/ Resolving
  /\ Resolving \/ pc = "resources" => pass = "includes"
  /\ pc \in {"resolve", "resources"} => command # "run"

MissedIsPast == missed /\ pc # "idle" => pass = "plugins"

UnpackedIsWanted ==
  pc = "unpack" /\ head = None /\ ~mixed /\ Wanted # None => chosen = Wanted

IncludesAreUnpacked ==
  ~Resolving /\ command # "run" /\ head = None /\ ~mixed /\ ~missed =>
    /\ pass = "plugins" => \A f \in Includes \ Ignored : resources[f] = resolved
    /\ pass = "includes" /\ pc = "unpack" =>
         \A f \in (Includes \ Ignored) \ todo : resources[f] = resolved

PluginsAreUnpacked ==
  pass = "plugins" /\ pc = "unpack" /\ head = None /\ ~mixed /\ Pinned =>
    \A f \in Plugins \ todo : working[f] = reference.tag

IInv == /\ TypeOK
        /\ LatestIsShared /\ AssetsAreGenuine
        /\ VersionIsResolved /\ VerdictIsLast /\ DownloadIsWanted /\ MoveIsUnnamed
        /\ RunMakesOnePass /\ MissedIsPast
        /\ UnpackedIsWanted /\ IncludesAreUnpacked /\ PluginsAreUnpacked /\ InstalledIsLocked

LEMMA InitKeeps == Init => IInv
<1> SUFFICES ASSUME Init PROVE IInv
  OBVIOUS
<1>1. TypeOK
  BY InitTypeOK
<1>2. LatestIsShared /\ AssetsAreGenuine
  BY DEF Init, LatestIsShared, AssetsAreGenuine, NoAsset
<1>3. /\ VersionIsResolved /\ VerdictIsLast /\ DownloadIsWanted /\ MoveIsUnnamed
      /\ RunMakesOnePass /\ MissedIsPast
  BY DEF Init, VersionIsResolved, VerdictIsLast, DownloadIsWanted, MoveIsUnnamed,
         RunMakesOnePass, MissedIsPast, Resolving
<1>4. UnpackedIsWanted /\ IncludesAreUnpacked /\ PluginsAreUnpacked /\ InstalledIsLocked
  BY DEF Init, UnpackedIsWanted, IncludesAreUnpacked, PluginsAreUnpacked, InstalledIsLocked,
         Resolving
<1> QED BY <1>1, <1>2, <1>3, <1>4 DEF IInv

(* An asset the cache gives for a tag is of that tag.                      *)
LEMMA CachedIsGenuine ==
  ASSUME TypeOK, AssetsAreGenuine, ~mixed, NEW r \in Releases
  PROVE  Cached(r) \in {None, r}
BY CachedType, ReleaseFacts DEF AssetsAreGenuine

(* A failed attempt: the command has ended, begins again or goes on        *)
(* without the include files, with nothing of them left to tell.           *)
LEMMA AttemptKeeps ==
  ASSUME IInv, AttemptFails, pc # "idle"
  PROVE  /\ VersionIsResolved' /\ VerdictIsLast' /\ DownloadIsWanted' /\ MoveIsUnnamed'
         /\ RunMakesOnePass' /\ MissedIsPast'
         /\ UnpackedIsWanted' /\ IncludesAreUnpacked' /\ PluginsAreUnpacked'
         /\ InstalledIsLocked'
<1> USE DEF Resolving
<1>1. \/ pc' = "idle" /\ result' = "failed" /\ pass' = "includes"
      \/ /\ pc' = "resolve" /\ result' = "none" /\ pass' = "includes" /\ ~missed'
         /\ command' # "run"
      \/ pc' = "lookup" /\ result' = "none" /\ pass' = "plugins" /\ missed'
  <2>1. result = "none" /\ pass \in Passes
    BY DEF IInv, VerdictIsLast, TypeOK
  <2>2. pass = "includes" => ~missed /\ command # "run"
    BY DEF IInv, MissedIsPast, RunMakesOnePass
  <2> QED BY <2>1, <2>2 DEF AttemptFails, TriesAgain, GoesWithout, End, Goto
<1> QED BY <1>1 DEF VersionIsResolved, VerdictIsLast, DownloadIsWanted, MoveIsUnnamed,
    RunMakesOnePass, MissedIsPast, UnpackedIsWanted, IncludesAreUnpacked, PluginsAreUnpacked,
    InstalledIsLocked

LEMMA NextKeeps == IInv /\ [Next]_vars => IInv'
<1> SUFFICES ASSUME IInv, [Next]_vars PROVE IInv'
  OBVIOUS
<1>0. TypeOK /\ TypeOK'
  BY NextTypeOK DEF IInv
<1> USE <1>0 DEF IInv, Goto, Resolving, projectVars, cacheVars, commandVars, controlVars, skipVars
<1>1. CASE Resolve
  <2>1. /\ LatestIsShared' /\ AssetsAreGenuine'
    BY <1>1 DEF
      Resolve, LatestIsShared, AssetsAreGenuine
  <2>2. /\ VerdictIsLast' /\ DownloadIsWanted' /\ MoveIsUnnamed' /\ RunMakesOnePass'
        /\ MissedIsPast'
    BY <1>1 DEF Resolve, VerdictIsLast, DownloadIsWanted, MoveIsUnnamed, RunMakesOnePass,
                MissedIsPast
  <2>3. VersionIsResolved'
    <3>1. reference'.kind = reference.kind /\ reference'.tag \in Releases
      BY <1>0, <1>1 DEF Resolve, Updated, TypeOK, References
    <3>2. Pinned' = Pinned /\ published \in Releases
      BY <3>1 DEF Pinned, TypeOK
    <3>3. resolved' = IF Pinned THEN reference'.tag
                     ELSE IF resolved # None /\ command # "update" THEN resolved ELSE published
      BY <1>1 DEF Resolve
    <3> QED BY <3>1, <3>2, <3>3, ReleaseFacts DEF VersionIsResolved
  <2>4. UnpackedIsWanted'
    BY <1>1 DEF Resolve, UnpackedIsWanted
  <2>5. IncludesAreUnpacked'
    BY <1>1 DEF Resolve, IncludesAreUnpacked, RunMakesOnePass
  <2>6. PluginsAreUnpacked'
    BY <1>1 DEF Resolve, PluginsAreUnpacked
  <2>7. InstalledIsLocked'
    BY <1>1 DEF Resolve, InstalledIsLocked, VerdictIsLast
  <2> QED BY <2>1, <2>2, <2>3, <2>4, <2>5, <2>6, <2>7
<1>2. CASE ResolveFails
  <2>1. AttemptFails /\ pc # "idle"
    BY <1>2 DEF ResolveFails
  <2>2. LatestIsShared' /\ AssetsAreGenuine'
    BY <1>2, <2>1, AttemptType DEF ResolveFails, LatestIsShared, AssetsAreGenuine
  <2> QED BY <2>1, <2>2, AttemptKeeps
<1>3. CASE PluginFromCache
  <2>1. /\ LatestIsShared' /\ AssetsAreGenuine'
    BY <1>3 DEF
      PluginFromCache, Using, Unpacks, LatestIsShared, AssetsAreGenuine
  <2>2. /\ VersionIsResolved' /\ VerdictIsLast' /\ DownloadIsWanted'
       /\ MoveIsUnnamed' /\ RunMakesOnePass' /\ MissedIsPast'
    BY <1>3, WantedType DEF
      PluginFromCache, Using, Unpacks, VersionIsResolved, VerdictIsLast,
      DownloadIsWanted, MoveIsUnnamed, RunMakesOnePass, MissedIsPast, Wanted, Pinned
  <2>3. /\ UnpackedIsWanted' /\ IncludesAreUnpacked'
       /\ PluginsAreUnpacked' /\ InstalledIsLocked'
    BY <1>3, WantedType, CachedIsGenuine DEF
      PluginFromCache, Using, Unpacks, UnpackedIsWanted, IncludesAreUnpacked,
      PluginsAreUnpacked, InstalledIsLocked, Wanted, Pinned
  <2> QED BY <2>1, <2>2, <2>3
<1>4. CASE RemoteDefinition
  <2>1. /\ LatestIsShared' /\ AssetsAreGenuine'
    BY <1>4 DEF
      RemoteDefinition, LatestIsShared, AssetsAreGenuine
  <2>2. /\ VersionIsResolved' /\ VerdictIsLast' /\ DownloadIsWanted'
       /\ MoveIsUnnamed' /\ RunMakesOnePass' /\ MissedIsPast'
    BY <1>4, WantedType DEF
      RemoteDefinition, VersionIsResolved, VerdictIsLast, DownloadIsWanted,
      MoveIsUnnamed, RunMakesOnePass, MissedIsPast, Wanted, Pinned
  <2>3. /\ UnpackedIsWanted' /\ IncludesAreUnpacked'
       /\ PluginsAreUnpacked' /\ InstalledIsLocked'
    BY <1>4 DEF
      RemoteDefinition, UnpackedIsWanted, IncludesAreUnpacked,
      PluginsAreUnpacked, InstalledIsLocked, Wanted, Pinned
  <2> QED BY <2>1, <2>2, <2>3
<1>5. CASE NoRemoteDefinition
  <2>1. AttemptFails /\ pc # "idle"
    BY <1>5 DEF NoRemoteDefinition
  <2>2. LatestIsShared' /\ AssetsAreGenuine'
    BY <1>5, <2>1, AttemptType DEF NoRemoteDefinition, LatestIsShared, AssetsAreGenuine
  <2> QED BY <2>1, <2>2, AttemptKeeps
<1>6. CASE Ensure
  <2>1. /\ LatestIsShared' /\ AssetsAreGenuine'
    BY <1>6 DEF
      Ensure, Using, Unpacks, LatestIsShared, AssetsAreGenuine
  <2>2. /\ VersionIsResolved' /\ VerdictIsLast' /\ DownloadIsWanted'
       /\ MoveIsUnnamed' /\ RunMakesOnePass' /\ MissedIsPast'
    BY <1>6, WantedType DEF
      Ensure, Using, Unpacks, VersionIsResolved, VerdictIsLast,
      DownloadIsWanted, MoveIsUnnamed, RunMakesOnePass, MissedIsPast, Wanted, Pinned
  <2>3. /\ UnpackedIsWanted' /\ IncludesAreUnpacked'
       /\ PluginsAreUnpacked' /\ InstalledIsLocked'
    BY <1>6, WantedType, CachedIsGenuine DEF
      Ensure, Using, Unpacks, UnpackedIsWanted, IncludesAreUnpacked,
      PluginsAreUnpacked, InstalledIsLocked, Wanted, Pinned
  <2> QED BY <2>1, <2>2, <2>3
<1>7. CASE Download
  <2>1. LatestIsShared'
    <3>1. chosen \in Releases /\ chosen # None
      BY <1>7, ReleaseFacts DEF Download, TypeOK
    <3>2. CASE Wanted # None
      <4>1. /\ asset' = [asset EXCEPT ![chosen] = Of(chosen)]
            /\ UNCHANGED <<unnamed, mixed, other>> /\ pc' = "unpack"
        BY <1>7, <3>2 DEF Download, Using
      <4> QED BY <4>1 DEF LatestIsShared
    <3>3. CASE Wanted = None
      <4>1. /\ unnamed' = Of(chosen) /\ chosen' = chosen /\ other' = other
            /\ mixed' = (mixed \/ other # None)
        BY <1>7, <3>3 DEF Download
      <4>2. other # None => mixed'
        BY <4>1, Zenon
      <4> QED BY <4>1, <4>2 DEF LatestIsShared, Of
    <3> QED BY <3>2, <3>3
  <2>2. AssetsAreGenuine'
    <3>1. chosen \in Releases /\ chosen # None
      BY <1>7, ReleaseFacts DEF Download, TypeOK
    <3>2. CASE Wanted # None
      <4>1. /\ asset' = [asset EXCEPT ![chosen] = Of(chosen)]
            /\ UNCHANGED <<unnamed, mixed, other>> /\ pc' = "unpack"
        BY <1>7, <3>2 DEF Download, Using
      <4>2. \A r \in Releases : asset'[r].content = IF r = chosen THEN r ELSE asset[r].content
        BY <3>1, <4>1 DEF Of, TypeOK
      <4> QED BY <4>1, <4>2 DEF AssetsAreGenuine
    <3>3. CASE Wanted = None
      <4>1. asset' = asset /\ mixed' = (mixed \/ other # None)
        BY <1>7, <3>3 DEF Download
      <4>2. ~mixed' => ~mixed
        BY <4>1, Zenon
      <4> QED BY <4>1, <4>2 DEF AssetsAreGenuine
    <3> QED BY <3>2, <3>3
  <2>3. /\ VersionIsResolved' /\ VerdictIsLast' /\ DownloadIsWanted'
       /\ MoveIsUnnamed' /\ RunMakesOnePass' /\ MissedIsPast'
    BY <1>7, WantedType, ReleaseFacts DEF
      Download, Using, Unpacks, Of, VersionIsResolved, VerdictIsLast,
      DownloadIsWanted, MoveIsUnnamed, RunMakesOnePass, MissedIsPast, Wanted, Pinned
  <2>4. UnpackedIsWanted'
    <3>1. CASE Wanted # None
      <4>1. /\ chosen' = chosen /\ todo' = Unpacks /\ chosen = Wanted /\ mixed' = mixed
            /\ UNCHANGED <<reference, head, pass, command, resolved, resources, working>>
        BY <1>7, <3>1 DEF Download, Using, DownloadIsWanted
      <4> QED BY <4>1 DEF UnpackedIsWanted, Wanted, Pinned
    <3>2. CASE Wanted = None
      <4>1. /\ pc' = "move" /\ mixed' = (mixed \/ other # None)
            /\ UNCHANGED <<reference, head, pass, command, resolved, resources, working>>
        BY <1>7, <3>2 DEF Download
      <4>2. ~mixed' => ~mixed
        BY <4>1, Zenon
      <4> QED BY <4>1 DEF UnpackedIsWanted
    <3> QED BY <3>1, <3>2
  <2>5. IncludesAreUnpacked'
    <3>1. CASE Wanted # None
      <4>1. /\ chosen' = chosen /\ todo' = Unpacks /\ chosen = Wanted /\ mixed' = mixed
            /\ UNCHANGED <<reference, head, pass, command, resolved, resources, working>>
        BY <1>7, <3>1 DEF Download, Using, DownloadIsWanted
      <4> QED BY <1>7, <4>1 DEF Download, IncludesAreUnpacked, Unpacks
    <3>2. CASE Wanted = None
      <4>1. /\ pc' = "move" /\ mixed' = (mixed \/ other # None)
            /\ UNCHANGED <<reference, head, pass, command, resolved, resources, working>>
        BY <1>7, <3>2 DEF Download
      <4>2. ~mixed' => ~mixed
        BY <4>1, Zenon
      <4> QED BY <1>7, <4>1, <4>2 DEF Download, IncludesAreUnpacked
    <3> QED BY <3>1, <3>2
  <2>6. PluginsAreUnpacked'
    <3>1. CASE Wanted # None
      <4>1. /\ chosen' = chosen /\ todo' = Unpacks /\ chosen = Wanted /\ mixed' = mixed
            /\ UNCHANGED <<reference, head, pass, command, resolved, resources, working>>
        BY <1>7, <3>1 DEF Download, Using, DownloadIsWanted
      <4> QED BY <4>1 DEF PluginsAreUnpacked, Unpacks
    <3>2. CASE Wanted = None
      <4>1. /\ pc' = "move" /\ mixed' = (mixed \/ other # None)
            /\ UNCHANGED <<reference, head, pass, command, resolved, resources, working>>
        BY <1>7, <3>2 DEF Download
      <4>2. ~mixed' => ~mixed
        BY <4>1, Zenon
      <4> QED BY <4>1 DEF PluginsAreUnpacked
    <3> QED BY <3>1, <3>2
  <2>7. InstalledIsLocked'
    BY <1>7 DEF Download, InstalledIsLocked, VerdictIsLast
  <2> QED BY <2>1, <2>2, <2>3, <2>4, <2>5, <2>6, <2>7
<1>8. CASE Retry
  <2>1. /\ LatestIsShared' /\ AssetsAreGenuine'
    BY <1>8 DEF
      Retry, LatestIsShared, AssetsAreGenuine
  <2>2. /\ VersionIsResolved' /\ VerdictIsLast' /\ DownloadIsWanted'
       /\ MoveIsUnnamed' /\ RunMakesOnePass' /\ MissedIsPast'
    BY <1>8, WantedType DEF
      Retry, VersionIsResolved, VerdictIsLast, DownloadIsWanted,
      MoveIsUnnamed, RunMakesOnePass, MissedIsPast, Wanted, Pinned
  <2>3. /\ UnpackedIsWanted' /\ IncludesAreUnpacked'
       /\ PluginsAreUnpacked' /\ InstalledIsLocked'
    BY <1>8 DEF
      Retry, UnpackedIsWanted, IncludesAreUnpacked, PluginsAreUnpacked,
      InstalledIsLocked, Wanted, Pinned
  <2> QED BY <2>1, <2>2, <2>3
<1>9. CASE DownloadFails
  <2>1. AttemptFails /\ pc # "idle"
    BY <1>9 DEF DownloadFails
  <2>2. LatestIsShared' /\ AssetsAreGenuine'
    BY <1>9, <2>1, AttemptType DEF DownloadFails, LatestIsShared, AssetsAreGenuine
  <2> QED BY <2>1, <2>2, AttemptKeeps
<1>10. CASE Move
  <2>1. CASE unnamed.content = None
    <3>1. AttemptFails /\ pc # "idle"
      BY <1>10, <2>1 DEF Move
    <3>2. LatestIsShared' /\ AssetsAreGenuine'
      BY <1>10, <2>1, <3>1, AttemptType DEF Move, LatestIsShared, AssetsAreGenuine
    <3> QED BY <3>1, <3>2, AttemptKeeps
  <2>2. CASE unnamed.content # None
    <3>1. LatestIsShared'
      BY <1>10, <2>2 DEF Move, LatestIsShared, End, Using, NoAsset
    <3>2. AssetsAreGenuine'
      <4>1. chosen \in Releases
        BY <1>10, <2>2 DEF Move, TypeOK
      <4>2. \/ asset' = asset
            \/ asset' = [asset EXCEPT ![chosen] = unnamed]
        BY <1>10, <2>2 DEF Move
      <4>3. \A r \in Releases : asset'[r] = asset[r] \/ (r = chosen /\ asset'[r] = unnamed)
        BY <4>1, <4>2 DEF TypeOK
      <4>4. mixed' = mixed /\ (~mixed => unnamed.content \in {None, chosen})
        BY <1>10, <2>2 DEF Move, LatestIsShared
      <4> QED BY <4>3, <4>4 DEF AssetsAreGenuine
    <3>3. /\ VersionIsResolved' /\ VerdictIsLast' /\ DownloadIsWanted'
         /\ MoveIsUnnamed' /\ RunMakesOnePass' /\ MissedIsPast'
      BY <1>10, <2>2, WantedType DEF
        Move, Using, End, NoAsset, Unpacks, VersionIsResolved, VerdictIsLast,
        DownloadIsWanted, MoveIsUnnamed, RunMakesOnePass, MissedIsPast, Wanted, Pinned
    <3>4. UnpackedIsWanted'
      BY <1>10, <2>2 DEF Move, End, Using, UnpackedIsWanted, MoveIsUnnamed, Wanted, Pinned
    <3>5. IncludesAreUnpacked'
      <4>1. Wanted = None
        BY <1>10, <2>2 DEF Move, MoveIsUnnamed
      <4>2. command # "run" => pass = "plugins"
        BY <1>10, <2>2, <4>1, ReleaseFacts DEF Move, VersionIsResolved, MissedIsPast, Wanted, TypeOK, Passes
      <4> QED BY <1>10, <2>2, <4>2 DEF Move, End, Using, IncludesAreUnpacked
    <3>6. PluginsAreUnpacked'
      BY <1>10, <2>2, WantedType, ReleaseFacts DEF Move, End, Using, PluginsAreUnpacked, MoveIsUnnamed, Pinned, TypeOK, References
    <3>7. InstalledIsLocked'
      BY <1>10, <2>2 DEF Move, End, Using, InstalledIsLocked, VerdictIsLast
    <3> QED BY <3>1, <3>2, <3>3, <3>4, <3>5, <3>6, <3>7
  <2> QED BY <2>1, <2>2
<1>11. ASSUME NEW f \in Files, Unpack(f) PROVE IInv'
  <2>1. /\ LatestIsShared' /\ AssetsAreGenuine'
    BY <1>11 DEF
      Unpack, Put, LatestIsShared, AssetsAreGenuine
  <2>2. /\ VersionIsResolved' /\ VerdictIsLast' /\ DownloadIsWanted'
       /\ MoveIsUnnamed' /\ RunMakesOnePass' /\ MissedIsPast'
    BY <1>11, WantedType DEF
      Unpack, Put, VersionIsResolved, VerdictIsLast, DownloadIsWanted,
      MoveIsUnnamed, RunMakesOnePass, MissedIsPast, Wanted, Pinned
  <2>3. UnpackedIsWanted'
    BY <1>11 DEF Unpack, UnpackedIsWanted, Wanted, Pinned
  <2>4. IncludesAreUnpacked'
    <3>1. CASE pass = "plugins"
      BY <1>11, <3>1 DEF Unpack, Put, IncludesAreUnpacked
    <3>2. CASE pass = "includes"
      <4>1. SUFFICES ASSUME command # "run", head = None, ~mixed, ~missed,
                            NEW g \in (Includes \ Ignored) \ (todo \ {f})
                     PROVE  resources'[g] = resolved
        BY <1>11, <3>2 DEF Unpack, IncludesAreUnpacked
      <4>2. chosen = resolved
        BY <1>11, <3>2, <4>1, ReleaseFacts DEF Unpack, UnpackedIsWanted, VersionIsResolved, Wanted
      <4>3. CASE g = f
        BY <1>11, <3>2, <4>2, <4>3 DEF Unpack, Put, TypeOK
      <4>4. CASE g # f
        <5>1. resources'[g] = resources[g]
          BY <1>11, <3>2, <4>4 DEF Unpack, Put, TypeOK
        <5> QED BY <1>11, <3>2, <4>1, <4>4, <5>1 DEF Unpack, IncludesAreUnpacked
      <4> QED BY <4>3, <4>4
    <3> QED BY <3>1, <3>2 DEF TypeOK, Passes
  <2>5. PluginsAreUnpacked'
    <3>1. SUFFICES ASSUME pass = "plugins", head = None, ~mixed, Pinned,
                          NEW g \in Plugins \ (todo \ {f})
                   PROVE  working'[g] = reference.tag
      BY <1>11 DEF Unpack, PluginsAreUnpacked, Pinned
    <3>2. working' = [working EXCEPT ![f] = chosen] /\ chosen = reference.tag
      BY <1>11, <3>1, WantedType, ReleaseFacts
         DEF Unpack, Put, UnpackedIsWanted, TypeOK, References
    <3>3. working'[g] = IF g = f THEN chosen ELSE working[g]
      BY <3>2 DEF TypeOK
    <3> QED BY <1>11, <3>1, <3>2, <3>3 DEF Unpack, PluginsAreUnpacked
  <2>6. InstalledIsLocked'
    BY <1>11 DEF Unpack, InstalledIsLocked, VerdictIsLast
  <2> QED BY <2>1, <2>2, <2>3, <2>4, <2>5, <2>6
<1>12. CASE UnpackEnds
  <2>1. /\ LatestIsShared' /\ AssetsAreGenuine'
    BY <1>12 DEF
      UnpackEnds, End, LatestIsShared, AssetsAreGenuine
  <2>2. /\ VersionIsResolved' /\ VerdictIsLast' /\ DownloadIsWanted'
       /\ MoveIsUnnamed' /\ RunMakesOnePass' /\ MissedIsPast'
    BY <1>12, WantedType DEF
      UnpackEnds, End, VersionIsResolved, VerdictIsLast, DownloadIsWanted,
      MoveIsUnnamed, RunMakesOnePass, MissedIsPast, Wanted, Pinned
  <2>3. UnpackedIsWanted'
    BY <1>12 DEF UnpackEnds, End, UnpackedIsWanted
  <2>4. IncludesAreUnpacked'
    BY <1>12 DEF UnpackEnds, End, IncludesAreUnpacked
  <2>5. PluginsAreUnpacked'
    BY <1>12 DEF UnpackEnds, End, PluginsAreUnpacked
  <2>6. InstalledIsLocked'
    <3>1. CASE pass = "includes"
      BY <1>12, <3>1 DEF UnpackEnds, InstalledIsLocked, VerdictIsLast
    <3>2. CASE pass = "plugins"
      <4>1. SUFFICES ASSUME command # "run", head = None, ~mixed
                     PROVE  /\ Pinned => \A f \in Plugins : working[f] = reference.tag
                            /\ ~missed =>
                                 /\ \A f \in Includes \ Ignored : resources[f] = resolved
                                 /\ Pinned => resolved = reference.tag
        BY <1>12, <3>2 DEF UnpackEnds, End, InstalledIsLocked, Pinned
      <4>2. ~missed => \A f \in Includes \ Ignored : resources[f] = resolved
        BY <1>12, <3>2, <4>1 DEF UnpackEnds, IncludesAreUnpacked
      <4>3. Pinned => /\ ~missed => resolved = reference.tag
                      /\ \A f \in Plugins : working[f] = reference.tag
        BY <1>12, <3>2, <4>1 DEF UnpackEnds, VersionIsResolved, PluginsAreUnpacked
      <4> QED BY <4>2, <4>3
    <3> QED BY <3>1, <3>2 DEF TypeOK, Passes
  <2> QED BY <2>1, <2>2, <2>3, <2>4, <2>5, <2>6
<1>13. ASSUME NEW c \in Commands, NEW skip \in BOOLEAN, Begin(c, skip) PROVE IInv'
  <2>1. /\ LatestIsShared' /\ AssetsAreGenuine'
    BY <1>13 DEF
      Begin, LatestIsShared, AssetsAreGenuine
  <2>2. /\ VersionIsResolved' /\ VerdictIsLast' /\ DownloadIsWanted'
       /\ MoveIsUnnamed' /\ RunMakesOnePass' /\ MissedIsPast'
    BY <1>13, WantedType DEF
      Begin, VersionIsResolved, VerdictIsLast, DownloadIsWanted,
      MoveIsUnnamed, RunMakesOnePass, MissedIsPast, Wanted, Pinned
  <2>3. /\ UnpackedIsWanted' /\ IncludesAreUnpacked'
       /\ PluginsAreUnpacked' /\ InstalledIsLocked'
    BY <1>13 DEF
      Begin, UnpackedIsWanted, IncludesAreUnpacked, PluginsAreUnpacked,
      InstalledIsLocked, Wanted, Pinned
  <2> QED BY <2>1, <2>2, <2>3
<1>14. ASSUME NEW r \in Releases, OtherPins(r) PROVE IInv'
  <2>1. /\ LatestIsShared' /\ AssetsAreGenuine'
    BY <1>14 DEF
      OtherPins, Of, LatestIsShared, AssetsAreGenuine
  <2>2. /\ VersionIsResolved' /\ VerdictIsLast' /\ DownloadIsWanted'
       /\ MoveIsUnnamed' /\ RunMakesOnePass' /\ MissedIsPast'
    BY <1>14, WantedType DEF
      OtherPins, Of, VersionIsResolved, VerdictIsLast, DownloadIsWanted,
      MoveIsUnnamed, RunMakesOnePass, MissedIsPast, Wanted, Pinned
  <2>3. /\ UnpackedIsWanted' /\ IncludesAreUnpacked'
       /\ PluginsAreUnpacked' /\ InstalledIsLocked'
    BY <1>14 DEF
      OtherPins, Of, UnpackedIsWanted, IncludesAreUnpacked,
      PluginsAreUnpacked, InstalledIsLocked, Wanted, Pinned
  <2> QED BY <2>1, <2>2, <2>3
<1>15. ASSUME NEW r \in Releases, EditReference(r) PROVE IInv'
  <2>1. /\ LatestIsShared' /\ AssetsAreGenuine'
    BY <1>15 DEF
      EditReference, Idle, LatestIsShared, AssetsAreGenuine
  <2>2. /\ VersionIsResolved' /\ VerdictIsLast' /\ DownloadIsWanted'
       /\ MoveIsUnnamed' /\ RunMakesOnePass' /\ MissedIsPast'
    BY <1>15, WantedType DEF
      EditReference, Idle, VersionIsResolved, VerdictIsLast, DownloadIsWanted,
      MoveIsUnnamed, RunMakesOnePass, MissedIsPast, Wanted, Pinned
  <2>3. /\ UnpackedIsWanted' /\ IncludesAreUnpacked'
       /\ PluginsAreUnpacked' /\ InstalledIsLocked'
    BY <1>15 DEF
      EditReference, Idle, UnpackedIsWanted, IncludesAreUnpacked,
      PluginsAreUnpacked, InstalledIsLocked, Wanted, Pinned
  <2> QED BY <2>1, <2>2, <2>3
<1>16. CASE OtherDownloads
  <2>1. /\ LatestIsShared' /\ AssetsAreGenuine'
    BY <1>16 DEF
      OtherDownloads, Of, LatestIsShared, AssetsAreGenuine
  <2>2. /\ VersionIsResolved' /\ VerdictIsLast' /\ DownloadIsWanted'
       /\ MoveIsUnnamed' /\ RunMakesOnePass' /\ MissedIsPast'
    BY <1>16, WantedType DEF
      OtherDownloads, Of, VersionIsResolved, VerdictIsLast, DownloadIsWanted,
      MoveIsUnnamed, RunMakesOnePass, MissedIsPast, Wanted, Pinned
  <2>3. /\ UnpackedIsWanted' /\ IncludesAreUnpacked'
       /\ PluginsAreUnpacked' /\ InstalledIsLocked'
    BY <1>16 DEF
      OtherDownloads, Of, UnpackedIsWanted, IncludesAreUnpacked,
      PluginsAreUnpacked, InstalledIsLocked, Wanted, Pinned
  <2> QED BY <2>1, <2>2, <2>3
<1>17. CASE OtherMoves
  <2>1. LatestIsShared'
    BY <1>17 DEF OtherMoves, LatestIsShared, NoAsset
  <2>2. AssetsAreGenuine'
    <3>1. other \in Releases
      BY <1>17 DEF OtherMoves, TypeOK
    <3>2. asset' = asset \/ asset' = [asset EXCEPT ![other] = unnamed]
      BY <1>17 DEF OtherMoves
    <3>3. \A r \in Releases : asset'[r] = asset[r] \/ (r = other /\ asset'[r] = unnamed)
      BY <3>1, <3>2 DEF TypeOK
    <3>4. mixed' = mixed /\ (~mixed => unnamed.content \in {None, other})
      BY <1>17 DEF OtherMoves, LatestIsShared
    <3> QED BY <3>3, <3>4 DEF AssetsAreGenuine
  <2>3. /\ VersionIsResolved' /\ VerdictIsLast' /\ DownloadIsWanted'
       /\ MoveIsUnnamed' /\ RunMakesOnePass' /\ MissedIsPast'
    BY <1>17, WantedType DEF
      OtherMoves, NoAsset, VersionIsResolved, VerdictIsLast, DownloadIsWanted,
      MoveIsUnnamed, RunMakesOnePass, MissedIsPast, Wanted, Pinned
  <2>4. /\ UnpackedIsWanted' /\ IncludesAreUnpacked'
       /\ PluginsAreUnpacked' /\ InstalledIsLocked'
    BY <1>17 DEF
      OtherMoves, NoAsset, UnpackedIsWanted, IncludesAreUnpacked,
      PluginsAreUnpacked, InstalledIsLocked, Wanted, Pinned
  <2> QED BY <2>1, <2>2, <2>3, <2>4
<1>18. ASSUME NEW v \in {"none", "failed"}, Crash(v) PROVE IInv'
  <2>1. /\ LatestIsShared' /\ AssetsAreGenuine'
    BY <1>18 DEF
      Crash, End, Put, LatestIsShared, AssetsAreGenuine
  <2>2. /\ VersionIsResolved' /\ VerdictIsLast' /\ DownloadIsWanted'
       /\ MoveIsUnnamed' /\ RunMakesOnePass' /\ MissedIsPast'
    BY <1>18, WantedType DEF
      Crash, End, Put, VersionIsResolved, VerdictIsLast, DownloadIsWanted,
      MoveIsUnnamed, RunMakesOnePass, MissedIsPast, Wanted, Pinned
  <2>3. /\ UnpackedIsWanted' /\ IncludesAreUnpacked'
       /\ PluginsAreUnpacked' /\ InstalledIsLocked'
    BY <1>18 DEF
      Crash, End, Put, UnpackedIsWanted, IncludesAreUnpacked,
      PluginsAreUnpacked, InstalledIsLocked, Wanted, Pinned
  <2> QED BY <2>1, <2>2, <2>3
<1>19. CASE Publish
  <2>1. /\ LatestIsShared' /\ AssetsAreGenuine'
    BY <1>19 DEF
      Publish, LatestIsShared, AssetsAreGenuine
  <2>2. /\ VersionIsResolved' /\ VerdictIsLast' /\ DownloadIsWanted'
       /\ MoveIsUnnamed' /\ RunMakesOnePass' /\ MissedIsPast'
    BY <1>19, WantedType DEF
      Publish, VersionIsResolved, VerdictIsLast, DownloadIsWanted,
      MoveIsUnnamed, RunMakesOnePass, MissedIsPast, Wanted, Pinned
  <2>3. /\ UnpackedIsWanted' /\ IncludesAreUnpacked'
       /\ PluginsAreUnpacked' /\ InstalledIsLocked'
    BY <1>19 DEF
      Publish, UnpackedIsWanted, IncludesAreUnpacked, PluginsAreUnpacked,
      InstalledIsLocked, Wanted, Pinned
  <2> QED BY <2>1, <2>2, <2>3
<1>20. CASE WeekPasses
  <2>1. LatestIsShared'
    <3>1. unnamed'.content = unnamed.content
      BY <1>20 DEF WeekPasses, TypeOK, Asset
    <3> QED BY <1>20, <3>1 DEF WeekPasses, Idle, LatestIsShared
  <2>2. AssetsAreGenuine'
    <3>1. \A r \in Releases : asset'[r].content = asset[r].content
      BY <1>20 DEF WeekPasses, TypeOK, Asset
    <3> QED BY <1>20, <3>1 DEF WeekPasses, AssetsAreGenuine
  <2>3. /\ VersionIsResolved' /\ VerdictIsLast' /\ DownloadIsWanted'
       /\ MoveIsUnnamed' /\ RunMakesOnePass' /\ MissedIsPast'
    BY <1>20, WantedType DEF
      WeekPasses, Idle, VersionIsResolved, VerdictIsLast, DownloadIsWanted,
      MoveIsUnnamed, RunMakesOnePass, MissedIsPast, Wanted, Pinned
  <2>4. /\ UnpackedIsWanted' /\ IncludesAreUnpacked'
       /\ PluginsAreUnpacked' /\ InstalledIsLocked'
    BY <1>20 DEF
      WeekPasses, Idle, UnpackedIsWanted, IncludesAreUnpacked,
      PluginsAreUnpacked, InstalledIsLocked, Wanted, Pinned
  <2> QED BY <2>1, <2>2, <2>3, <2>4
<1>21. ASSUME NEW f \in Settings, EditSettings(f) PROVE IInv'
  <2>1. /\ LatestIsShared' /\ AssetsAreGenuine'
    BY <1>21 DEF
      EditSettings, Idle, LatestIsShared, AssetsAreGenuine
  <2>2. /\ VersionIsResolved' /\ VerdictIsLast' /\ DownloadIsWanted'
       /\ MoveIsUnnamed' /\ RunMakesOnePass' /\ MissedIsPast'
    BY <1>21, WantedType DEF
      EditSettings, Idle, VersionIsResolved, VerdictIsLast, DownloadIsWanted,
      MoveIsUnnamed, RunMakesOnePass, MissedIsPast, Wanted, Pinned
  <2>3. /\ UnpackedIsWanted' /\ IncludesAreUnpacked'
       /\ PluginsAreUnpacked' /\ InstalledIsLocked'
    BY <1>21 DEF
      EditSettings, Idle, UnpackedIsWanted, IncludesAreUnpacked,
      PluginsAreUnpacked, InstalledIsLocked, Wanted, Pinned
  <2> QED BY <2>1, <2>2, <2>3
<1>22. CASE UpdateFails
  <2>1. LatestIsShared' /\ AssetsAreGenuine'
    BY <1>22 DEF UpdateFails, End, LatestIsShared, AssetsAreGenuine
  <2>2. /\ VersionIsResolved' /\ VerdictIsLast' /\ DownloadIsWanted'
        /\ MoveIsUnnamed' /\ RunMakesOnePass' /\ MissedIsPast'
    BY <1>22 DEF UpdateFails, End, VersionIsResolved, VerdictIsLast, DownloadIsWanted,
                 MoveIsUnnamed, RunMakesOnePass, MissedIsPast
  <2>3. /\ UnpackedIsWanted' /\ IncludesAreUnpacked'
        /\ PluginsAreUnpacked' /\ InstalledIsLocked'
    BY <1>22 DEF UpdateFails, End, UnpackedIsWanted, IncludesAreUnpacked,
                 PluginsAreUnpacked, InstalledIsLocked
  <2> QED BY <2>1, <2>2, <2>3
<1>23. CASE ResourceDefinition
  <2>0. pc = "resources" /\ pass = "includes" /\ command # "run" /\ ~missed
    BY <1>23 DEF ResourceDefinition, RunMakesOnePass, MissedIsPast
  <2>1. LatestIsShared' /\ AssetsAreGenuine'
    BY <1>23, AttemptType DEF ResourceDefinition, GoesWithout, LatestIsShared, AssetsAreGenuine
  <2>2. CASE AttemptFails
    BY <2>0, <2>1, <2>2, AttemptKeeps
  <2>3. CASE ~AttemptFails
    <3>1. /\ pc' = "lookup" /\ result' = result
          /\ \/ pass' = "includes" /\ missed' = missed
             \/ pass' = "plugins" /\ missed'
          /\ UNCHANGED <<reference, locked, head, resources, working, command, resolved, mixed>>
      BY <1>23, <2>0, <2>3 DEF ResourceDefinition, GoesWithout
    <3>2. /\ VersionIsResolved' /\ VerdictIsLast' /\ DownloadIsWanted'
          /\ MoveIsUnnamed' /\ RunMakesOnePass' /\ MissedIsPast'
      BY <2>0, <3>1 DEF VersionIsResolved, VerdictIsLast, DownloadIsWanted,
         MoveIsUnnamed, RunMakesOnePass, MissedIsPast, Pinned
    <3>3. /\ UnpackedIsWanted' /\ IncludesAreUnpacked'
          /\ PluginsAreUnpacked' /\ InstalledIsLocked'
      BY <2>0, <3>1 DEF UnpackedIsWanted, IncludesAreUnpacked, PluginsAreUnpacked,
         InstalledIsLocked, VerdictIsLast
    <3> QED BY <2>1, <3>2, <3>3
  <2> QED BY <2>2, <2>3
<1>24. ASSUME NEW f \in Files, UnpackFails(f) PROVE IInv'
  <2>1. AttemptFails /\ pc # "idle"
    BY <1>24 DEF UnpackFails
  <2>2. LatestIsShared' /\ AssetsAreGenuine'
    BY <1>24, <2>1, AttemptType DEF UnpackFails, LatestIsShared, AssetsAreGenuine
  <2> QED BY <2>1, <2>2, AttemptKeeps
<1>25. CASE UNCHANGED vars
  BY <1>25 DEF vars,
    LatestIsShared, AssetsAreGenuine, VersionIsResolved, VerdictIsLast,
    DownloadIsWanted, MoveIsUnnamed, RunMakesOnePass, MissedIsPast, UnpackedIsWanted,
    IncludesAreUnpacked, PluginsAreUnpacked, InstalledIsLocked, Wanted, Pinned
<1> QED BY <1>1, <1>2, <1>3, <1>4, <1>5, <1>6, <1>7, <1>8, <1>9, <1>10, <1>11,
    <1>12, <1>13, <1>14, <1>15, <1>16, <1>17, <1>18, <1>19, <1>20, <1>21, <1>22,
    <1>23, <1>24, <1>25
    DEF Next, Step

(* At every step of a pass, what was downloaded, moved and unpacked so     *)
(* far is the asset the command wants.                                     *)
THEOREM PluginInvariant == Spec => []IInv
BY InitKeeps, NextKeeps, PTL DEF Spec

(* What is in the directory of a tag is the asset of that tag, unless two  *)
(* commands were in "latest" at the same time.                             *)
THEOREM PluginAssetsAreGenuine == Spec => []AssetsAreGenuine
<1>1. IInv => AssetsAreGenuine
  BY DEF IInv
<1> QED BY <1>1, PluginInvariant, PTL

(* After "ensure" the plugin of a pinned reference is of its release, and  *)
(* the include files are of the release in pawn.lock unless the command    *)
(* went on without them.                                                   *)
THEOREM PluginInstalledIsLocked == Spec => []InstalledIsLocked
<1>1. IInv => InstalledIsLocked
  BY DEF IInv
<1> QED BY <1>1, PluginInvariant, PTL

--------------------------------------------------------------------------------
(* What a command found in the cache when it started stays there until it  *)
(* ends, and is all it looks for: a fresh asset is one that was downloaded *)
(* whole, and the file another command moves away was so too.              *)
FreshIsThere ==
  /\ \A r \in Releases : asset[r].fresh => asset[r].content # None
  /\ other # None => unnamed.fresh \/ unnamed.content = None

StaysReady ==
  ready /\ pc # "idle" =>
    /\ defined = "repo" /\ ~noCache
    /\ head # None \/ (Pinned /\ asset[reference.tag].fresh)
    /\ command # "run" => /\ command = "ensure" /\ resolved # None
                          /\ Pinned => resolved = reference.tag
    /\ pc \in {"resolve", "resources", "lookup", "unpack"}
    /\ pc = "resolve" => command # "run"

CacheInv == FreshIsThere /\ StaysReady /\ CacheIsEnough

LEMMA InitIsEnough == Init => CacheInv
BY DEF Init, CacheInv, FreshIsThere, StaysReady, CacheIsEnough, NoAsset

(* A step that fails is one that looked outside the cache.                 *)
LEMMA FailIsNotReady ==
  ASSUME CacheInv, ~ready', asset' = asset, other' = other, unnamed' = unnamed
  PROVE CacheInv'
BY DEF CacheInv, FreshIsThere, StaysReady, CacheIsEnough

LEMMA NextIsEnough ==
  ASSUME TypeOK, VerdictIsLast, CacheInv, [Next]_vars PROVE CacheInv'
<1> USE DEF CacheInv, FreshIsThere, StaysReady, CacheIsEnough, VerdictIsLast, Pinned, Goto,
            projectVars, cacheVars, commandVars, controlVars, skipVars
<1>0. /\ reference.tag \in Releases /\ None \notin Releases
      /\ \A r \in Releases : Of(r).fresh /\ Of(r).content # None
  BY ReleaseFacts DEF TypeOK, References, Of
<1>1. CASE Resolve
  BY <1>0, <1>1 DEF Resolve, Updated
<1>2. CASE ResolveFails
  BY <1>2, FailIsNotReady DEF ResolveFails
<1>3. CASE PluginFromCache
  <2>1. CASE ready
    <3>1. /\ Wanted = reference.tag \/ head # None
          /\ head = None => Cached(Wanted) # None
      BY <1>0, <1>3, <2>1 DEF PluginFromCache, Wanted, Cached
    <3>2. pc' = "unpack"
      BY <1>0, <1>3, <2>1, <3>1 DEF PluginFromCache, Using
    <3> QED BY <1>3, <2>1, <3>2 DEF PluginFromCache
  <2>2. CASE ~ready
    BY <1>3, <2>2 DEF PluginFromCache
  <2> QED BY <2>1, <2>2 DEF TypeOK
<1>4. CASE RemoteDefinition
  BY <1>4 DEF RemoteDefinition
<1>5. CASE NoRemoteDefinition
  BY <1>5, FailIsNotReady DEF NoRemoteDefinition
<1>6. CASE Ensure
  BY <1>6 DEF Ensure
<1>7. CASE Download
  <2>1. chosen \in Releases /\ ~ready
    BY <1>7 DEF Download, TypeOK
  <2> QED BY <1>0, <1>7, <2>1 DEF Download, TypeOK
<1>8. CASE Retry
  BY <1>8 DEF Retry
<1>9. CASE DownloadFails
  BY <1>9, FailIsNotReady DEF DownloadFails
<1>10. CASE Move
  <2>1. ~ready' /\ ~(ready /\ pc # "idle")
    BY <1>10 DEF Move
  <2>2. /\ \A r \in Releases : asset'[r].fresh => asset'[r].content # None
        /\ other' # None => unnamed'.fresh \/ unnamed'.content = None
    BY <1>10 DEF Move, TypeOK, NoAsset
  <2> QED BY <2>1, <2>2
<1>11. ASSUME NEW f \in Files, Unpack(f) PROVE CacheInv'
  BY <1>11 DEF Unpack
<1>12. CASE UnpackEnds
  BY <1>12 DEF UnpackEnds, End
<1>13. ASSUME NEW c \in Commands, NEW skip \in BOOLEAN, Begin(c, skip) PROVE CacheInv'
  BY <1>13 DEF Begin, Sufficient
<1>14. ASSUME NEW r \in Releases, OtherPins(r) PROVE CacheInv'
  BY <1>0, <1>14 DEF OtherPins, TypeOK
<1>15. CASE OtherDownloads
  BY <1>0, <1>15 DEF OtherDownloads, TypeOK
<1>16. CASE OtherMoves
  BY <1>0, <1>16 DEF OtherMoves, TypeOK, NoAsset
<1>17. ASSUME NEW v \in {"none", "failed"}, Crash(v) PROVE CacheInv'
  BY <1>17 DEF Crash, End
<1>18. CASE Publish
  BY <1>18 DEF Publish
<1>19. CASE WeekPasses
  <2>1. \A r \in Releases : asset'[r].fresh = FALSE
    BY <1>19 DEF WeekPasses, TypeOK, Asset
  <2> QED BY <1>19, <2>1 DEF WeekPasses, Idle
<1>20. ASSUME NEW f \in Settings, EditSettings(f) PROVE CacheInv'
  BY <1>20 DEF EditSettings, Idle
<1>21. ASSUME NEW r \in Releases, EditReference(r) PROVE CacheInv'
  BY <1>21 DEF EditReference, Idle
<1>22. CASE UpdateFails
  BY <1>22, FailIsNotReady DEF UpdateFails
<1>23. CASE ResourceDefinition
  <2>1. CASE ready
    BY <1>23, <2>1 DEF ResourceDefinition
  <2>2. CASE ~ready
    BY <1>23, <2>2, FailIsNotReady DEF ResourceDefinition
  <2> QED BY <2>1, <2>2 DEF TypeOK
<1>24. ASSUME NEW f \in Files, UnpackFails(f) PROVE CacheInv'
  BY <1>24, FailIsNotReady DEF UnpackFails
<1>25. CASE UNCHANGED vars
  BY <1>25 DEF vars
<1> QED BY <1>1, <1>2, <1>3, <1>4, <1>5, <1>6, <1>7, <1>8, <1>9, <1>10, <1>11, <1>12, <1>13,
           <1>14, <1>15, <1>16, <1>17, <1>18, <1>19, <1>20, <1>21, <1>22, <1>23, <1>24, <1>25
           DEF Next, Step

(* A command that finds lock, definition and asset in the cache does not   *)
(* fail, whatever other commands do to the cache meanwhile.                *)
THEOREM PluginCacheIsEnough == Spec => []CacheIsEnough
<1>1. IInv => TypeOK /\ VerdictIsLast
  BY DEF IInv
<1>2. (TypeOK /\ VerdictIsLast) /\ CacheInv /\ [Next]_vars => CacheInv'
  BY NextIsEnough
<1>3. CacheInv => CacheIsEnough
  BY DEF CacheInv
<1> QED BY <1>1, <1>2, <1>3, InitIsEnough, PluginInvariant, PTL DEF Spec

--------------------------------------------------------------------------------
(* Why a command ends.  The stages of a pass follow one another, there are *)
(* at most two attempts at the pass for the include files, the pass for    *)
(* the plugin follows, and what a stage does again it does a bounded       *)
(* number of times.                                                        *)

StagesLeft ==
  LET includes == IF pass = "includes" THEN 6 + (IF again THEN 0 ELSE 8) ELSE 0
  IN CASE pc = "resolve"    -> 8 + includes
       [] pc = "resources"  -> 7 + includes
       [] pc = "lookup"     -> 6 + includes
       [] pc = "definition" -> 5 + includes
       [] pc = "asset"      -> 4 + includes
       [] pc = "download"   -> 3 + includes
       [] pc = "move"       -> 2 + includes
       [] pc = "unpack"     -> 1 + includes
       [] OTHER             -> 0

(* The files still to unpack, or the attempts still to make.               *)
StageLeft == IF pc = "unpack" THEN Cardinality(todo) ELSE MaxAttempts - attempt

GetsShorter == \/ StagesLeft' < StagesLeft
               \/ StagesLeft' = StagesLeft /\ StageLeft' < StageLeft

CommandGetsShorter ==
  [][/\ StagesLeft \in 0 .. 22 /\ StageLeft \in Nat
     /\ Step => GetsShorter]_vars

LEMMA StagesAreCounted ==
  ASSUME TypeOK PROVE StagesLeft \in 0 .. 22
<1>1. pc \in {"idle", "resolve", "resources", "lookup", "definition", "asset", "download",
                "move", "unpack"}
  BY DEF TypeOK, Stages
<1> QED BY <1>1 DEF StagesLeft

LEMMA StageIsCounted ==
  ASSUME TypeOK, IsFiniteSet(Files) PROVE StageLeft \in Nat
<1>1. MaxAttempts - attempt \in Nat
  BY AttemptsAssumption DEF AttemptsAssumption, TypeOK
<1>2. IsFiniteSet(todo)
  BY FS_Subset DEF TypeOK
<1> QED BY <1>1, <1>2, FS_CardinalityType DEF StageLeft

(* The end of a command leaves no stages.                                  *)
LEMMA EndIsShorter ==
  ASSUME TypeOK, NEW verdict, End(verdict), pc # "idle" PROVE GetsShorter
<1>1. pc \in {"resolve", "resources", "lookup", "definition", "asset", "download", "move",
                "unpack"}
  BY DEF TypeOK, Stages
<1>2. StagesLeft' = 0
  BY DEF End, Goto, StagesLeft
<1>3. StagesLeft > 0
  BY <1>1 DEF StagesLeft
<1> QED BY <1>2, <1>3 DEF GetsShorter

(* An attempt that fails leaves those of the next one, or of the plugin.   *)
LEMMA AttemptIsShorter ==
  ASSUME TypeOK, AttemptFails, pc # "idle"
  PROVE  GetsShorter
<1>1. pc \in {"resolve", "resources", "lookup", "definition", "asset", "download", "move",
                "unpack"}
  BY DEF TypeOK, Stages
<1>2. CASE pass = "plugins"
  BY <1>2, EndIsShorter DEF AttemptFails
<1>3. CASE pass = "includes"
  <2>1. StagesLeft > 6 /\ (~again => StagesLeft > 14)
    BY <1>1, <1>3 DEF StagesLeft
  <2>2. \/ ~again /\ again' /\ pc' = "resolve" /\ pass' = "includes"
        \/ pc' = "lookup" /\ pass' = "plugins"
    BY <1>3 DEF AttemptFails, TriesAgain, GoesWithout, Goto
  <2>3. \/ ~again /\ StagesLeft' = 14
        \/ StagesLeft' = 6
    BY <2>2 DEF StagesLeft
  <2> QED BY <2>1, <2>3 DEF GetsShorter
<1> QED BY <1>2, <1>3 DEF TypeOK, Passes

(* Every step of a command.                                                *)
LEMMA StepIsShorter ==
  ASSUME TypeOK, IsFiniteSet(Files), Step PROVE GetsShorter
<1>1. CASE ResolveFails \/ NoRemoteDefinition \/ DownloadFails
  <2>1. AttemptFails /\ pc # "idle"
    BY <1>1 DEF ResolveFails, NoRemoteDefinition, DownloadFails
  <2> QED BY <2>1, AttemptIsShorter
<1>2. CASE Resolve
  <2>1. pc = "resolve" /\ pc' = "resources" /\ pass' = pass /\ again' = again
    BY <1>2 DEF Resolve, Goto, skipVars
  <2> QED BY <2>1 DEF GetsShorter, StagesLeft
<1>3. CASE PluginFromCache
  <2>1. pc = "lookup" /\ pc' \in {"unpack", "definition"} /\ pass' = pass /\ again' = again
    BY <1>3 DEF PluginFromCache, Using, Goto, skipVars
  <2> QED BY <2>1 DEF GetsShorter, StagesLeft
<1>4. CASE RemoteDefinition
  <2>1. pc = "definition" /\ pc' = "asset" /\ pass' = pass /\ again' = again
    BY <1>4 DEF RemoteDefinition, Goto, skipVars
  <2> QED BY <2>1 DEF GetsShorter, StagesLeft
<1>5. CASE Ensure
  <2>1. pc = "asset" /\ pc' \in {"unpack", "download"} /\ pass' = pass /\ again' = again
    BY <1>5 DEF Ensure, Using, Goto, skipVars
  <2> QED BY <2>1 DEF GetsShorter, StagesLeft
<1>6. CASE Download
  <2>1. pc = "download" /\ pc' \in {"unpack", "move"} /\ pass' = pass /\ again' = again
    BY <1>6 DEF Download, Using, Goto, skipVars
  <2> QED BY <2>1 DEF GetsShorter, StagesLeft
<1>7. CASE Move
  <2>1. CASE unnamed.content = None
    BY <1>7, <2>1, AttemptIsShorter DEF Move
  <2>2. CASE unnamed.content # None
    <3>1. pc = "move" /\ pc' = "unpack" /\ pass' = pass /\ again' = again
      BY <1>7, <2>2 DEF Move, Using, Goto, skipVars
    <3> QED BY <3>1 DEF GetsShorter, StagesLeft
  <2> QED BY <2>1, <2>2
<1>8. CASE Retry
  <2>1. /\ pc = "download" /\ pc' = pc /\ pass' = pass /\ again' = again
        /\ attempt' = attempt + 1 /\ attempt \in Nat /\ MaxAttempts \in Nat
    BY <1>8, AttemptsAssumption DEF Retry, TypeOK, AttemptsAssumption, skipVars
  <2>2. StagesLeft' = StagesLeft
    BY <2>1 DEF StagesLeft
  <2>3. StageLeft' < StageLeft
    BY <2>1 DEF StageLeft
  <2> QED BY <2>2, <2>3 DEF GetsShorter
<1>9. ASSUME NEW f \in Files, Unpack(f) PROVE GetsShorter
  <2>1. /\ pc = "unpack" /\ pc' = pc /\ pass' = pass /\ again' = again
        /\ todo' = todo \ {f} /\ f \in todo
    BY <1>9 DEF Unpack, skipVars
  <2>2. IsFiniteSet(todo)
    BY FS_Subset DEF TypeOK
  <2>3. Cardinality(todo) \in Nat /\ Cardinality(todo') = Cardinality(todo) - 1
    BY <2>1, <2>2, FS_RemoveElement, FS_CardinalityType
  <2>4. StageLeft' < StageLeft
    BY <2>1, <2>3 DEF StageLeft
  <2>5. StagesLeft' = StagesLeft
    BY <2>1 DEF StagesLeft
  <2> QED BY <2>4, <2>5 DEF GetsShorter
<1>10. CASE UnpackEnds
  <2>1. CASE pass = "includes"
    <3>1. pc = "unpack" /\ pc' = "lookup" /\ pass' = "plugins"
      BY <1>10, <2>1 DEF UnpackEnds, Goto
    <3> QED BY <2>1, <3>1 DEF GetsShorter, StagesLeft
  <2>2. CASE pass # "includes"
    BY <1>10, <2>2, EndIsShorter DEF UnpackEnds
  <2> QED BY <2>1, <2>2
<1>11. CASE UpdateFails
  BY <1>11, EndIsShorter DEF UpdateFails
<1>12. CASE ResourceDefinition
  <2>1. CASE AttemptFails
    BY <1>12, <2>1, AttemptIsShorter DEF ResourceDefinition
  <2>2. CASE ~AttemptFails
    <3>1. /\ pc = "resources" /\ pc' = "lookup"
          /\ (pass' = pass /\ again' = again) \/ pass' = "plugins"
      BY <1>12, <2>2 DEF ResourceDefinition, GoesWithout, Goto, skipVars
    <3> QED BY <3>1 DEF GetsShorter, StagesLeft
  <2> QED BY <2>1, <2>2
<1> QED BY <1>1, <1>2, <1>3, <1>4, <1>5, <1>6, <1>7, <1>8, <1>9, <1>10, <1>11, <1>12 DEF Step

(* A command ends after a bounded number of stages, each of which does     *)
(* what it does again at most as often as it has files or downloads left:   *)
(* the pause and the retry of FromNetWithClient are no way around.         *)
THEOREM PluginCommandRunsOut == IsFiniteSet(Files) /\ Spec => CommandGetsShorter
<1>1. IsFiniteSet(Files) /\ TypeOK =>
        StagesLeft \in 0 .. 22 /\ StageLeft \in Nat /\ (Step => GetsShorter)
  BY StagesAreCounted, StageIsCounted, StepIsShorter
<1>2. IsFiniteSet(Files) => IsFiniteSet(Files)'
  BY DEF Files
<1> QED BY <1>1, <1>2, PluginTypeCorrect, PTL DEF CommandGetsShorter
================================================================================
