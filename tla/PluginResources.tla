----------------------------- MODULE PluginResources ---------------------------
(***************************************************************************)
(* The release assets of one dependency that brings a plugin: which        *)
(* release "ensure" and "run" take, the cache of assets that all projects  *)
(* and all running commands share, and what is unpacked where.             *)
(*                                                                         *)
(* "ensure" makes two passes.  ensurePackage resolves the dependency,      *)
(* records it in the lock and unpacks its include files into               *)
(* dependencies/.resources, at the version the lock has; when it fails it  *)
(* is tried once more, then skipped with a warning.  EnsurePlugins then    *)
(* unpacks the plugin into the directory the server runs in, at the        *)
(* version pawn.json has, and a failure of it is one of the command.       *)
(* "run" makes the second pass only.                                       *)
(* Releases are numbers, in the order of their versions.                   *)
(***************************************************************************)
EXTENDS Naturals, FiniteSets

CONSTANTS Newest,       \* the last release there will be
          Includes, Plugins, Settings,   \* files an archive has for each purpose
          Ignored,      \* files extract_ignore_patterns match
          MaxAttempts,  \* fromNetMaxAttempts
          MaxFaults     \* bound: crashes, edits and weeks of a behaviour

Files    == Includes \cup Plugins \cup Settings
Releases == 1..Newest
None     == 0              \* no release, no file, no version
Edited   == Newest + 1     \* a file the user has written
Torn     == Newest + 2     \* a file written in part
Contents == 0..Torn

ASSUME NewestAssumption   == Newest \in Nat \ {0}
ASSUME AttemptsAssumption == MaxAttempts \in Nat \ {0} /\ MaxFaults \in Nat

References == [kind : {"tag", "untagged", "latest"}, tag : Releases]
Commands   == {"ensure", "update", "run"}
Passes     == {"includes", "plugins"}
Asset      == [content : {None} \cup Releases, fresh : BOOLEAN]
NoAsset    == [content |-> None, fresh |-> FALSE]
Of(r)      == [content |-> r, fresh |-> TRUE]

VARIABLES
  published,   \* the newest release on GitHub
  reference,   \* of the dependency in pawn.json
  defined,     \* where a definition with its resources is: "repo", "official"
  head,        \* the release whose files the cached clone holds, if it holds any
  locked,      \* pawn.lock: the release resolved
  asset,       \* [Releases -> Asset]: the cache, one directory per tag
  unnamed,     \* the asset in the directory "latest"
  resources,   \* dependencies/.resources: [Includes \cup Settings -> Contents]
  working,     \* the server's directory: [Plugins \cup Settings -> Contents]
  command, noCache, pc, pass, attempt, todo, result,
  again,       \* the first of the two attempts at the include files has failed
  resolved,    \* the lock in memory
  chosen,      \* the release a download brings, then the content to unpack
  other,       \* another sampctl: the release it has put into "latest"
  faults,
  ready,       \* history: the command started with all it needs in the cache
  missed,      \* history: the command goes on without the include files
  mixed        \* history: two commands were in "latest" at the same time

projectVars == <<reference, defined>>
cacheVars   == <<head, asset, unnamed>>
skipVars    == <<again, missed>>
commandVars == <<command, noCache, pc, pass, attempt, todo, skipVars, resolved, chosen>>
controlVars == <<commandVars, result>>
vars == <<published, projectVars, locked, cacheVars, resources, working, controlVars,
          other, faults, ready, mixed>>

Stages == {"idle", "resolve", "resources", "lookup", "definition", "asset", "download",
           "move", "unpack"}

(* Types; what is fetched or unpacked is a release, and no download is     *)
(* tried more often than fromNetMaxAttempts.                               *)
TypeOK ==
  /\ published \in Releases
  /\ reference \in References /\ defined \in {"repo", "official"}
  /\ head \in {None} \cup Releases
  /\ locked \in {None} \cup Releases /\ resolved \in {None} \cup Releases
  /\ asset \in [Releases -> Asset] /\ unnamed \in Asset
  /\ resources \in [Includes \cup Settings -> Contents]
  /\ working \in [Plugins \cup Settings -> Contents]
  /\ command \in Commands /\ noCache \in BOOLEAN
  /\ pc \in Stages /\ pass \in Passes
  /\ attempt \in 1..MaxAttempts
  /\ todo \subseteq Files
  /\ result \in {"none", "ok", "failed"}
  /\ chosen \in {None} \cup Releases
  /\ pc \in {"download", "move", "unpack"} => chosen # None
  /\ other \in {None} \cup Releases
  /\ faults \in 0..MaxFaults
  /\ again \in BOOLEAN
  /\ ready \in BOOLEAN /\ missed \in BOOLEAN /\ mixed \in BOOLEAN

Init ==
  /\ published \in Releases
  /\ reference \in {r \in References : r.tag <= published /\ (r.kind # "tag" => r.tag = 1)}
  /\ defined \in {"repo", "official"}
  /\ head \in {None, 1} /\ (defined = "official" => head = None)
  /\ locked = None /\ resolved = None
  /\ asset = [r \in Releases |-> NoAsset] /\ unnamed = NoAsset
  /\ resources = [f \in Includes \cup Settings |-> None]
  /\ working = [f \in Plugins \cup Settings |-> None]
  /\ command = "ensure" /\ noCache = FALSE /\ pc = "idle" /\ pass = "includes"
  /\ attempt = 1 /\ todo = {} /\ result = "none" /\ chosen = None /\ other = None
  /\ again = FALSE /\ faults = 0 /\ ready = FALSE /\ missed = FALSE /\ mixed = FALSE

--------------------------------------------------------------------------------
Goto(stage) == pc' = stage
Fault       == faults < MaxFaults /\ faults' = faults + 1

(* The command ends; the lock is saved by a successful "ensure" only.      *)
End(verdict) ==
  /\ Goto("idle") /\ result' = verdict
  /\ pass' = "includes" /\ attempt' = 1 /\ todo' = {} /\ chosen' = None
  /\ again' = FALSE /\ resolved' = None
  /\ UNCHANGED <<command, noCache, missed>>

(* ensureDependencies: an ensurePackage that fails is tried once more,     *)
(* from its first step; then the dependency is skipped with a warning, and *)
(* the entry it may have recorded stays.  A plugin that fails fails all.   *)
TriesAgain == /\ ~again /\ again' = TRUE
              /\ Goto("resolve")
              /\ UNCHANGED <<pass, missed>>

GoesWithout == /\ missed' = TRUE
               /\ pass' = "plugins" /\ Goto("lookup")
               /\ again' = FALSE

AttemptFails ==
  \/ pass = "plugins" /\ End("failed")
  \/ /\ pass = "includes"
     /\ TriesAgain \/ (again /\ GoesWithout)
     /\ attempt' = 1 /\ todo' = {} /\ chosen' = None
     /\ UNCHANGED <<command, noCache, result, resolved>>

(* Which release a pass asks for; None stands for "latest".                *)
Pinned == reference.kind = "tag"

(* Faulty variant: a tag of pawn.json gives way to the lock's.             *)
WantedLocked ==
  IF pass = "includes" THEN IF locked # None THEN locked ELSE resolved
  ELSE IF Pinned THEN reference.tag ELSE None

(* resourceDependencyMeta for the include files; the plugin's reference is *)
(* the one AllPlugins got from pawn.json.                                  *)
Wanted == IF Pinned THEN reference.tag ELSE IF pass = "includes" THEN resolved ELSE None

Unpacks == IF pass = "includes" THEN Includes \cup Settings ELSE Plugins \cup Settings

(* GitHubReleaseResource.Cached: the asset in a tag's own directory; for   *)
(* "latest" the one in "latest", else of the newest tag that has one, if   *)
(* none is older than a week.                                              *)
Fresh == {q \in Releases : asset[q].fresh}
NewestOf(S) == CHOOSE q \in S : \A p \in S : p <= q
Cached(r) ==
  IF r # None THEN IF asset[r].fresh THEN asset[r].content ELSE None
  ELSE IF unnamed.fresh THEN unnamed.content
  ELSE IF Fresh = {} THEN None ELSE asset[NewestOf(Fresh)].content

Using(content) == Goto("unpack") /\ chosen' = content /\ todo' = Unpacks

Sufficient(c, skip) ==
  /\ defined = "repo" /\ ~skip
  /\ head # None \/ (Pinned /\ asset[reference.tag].fresh)
  /\ c # "run" => c = "ensure" /\ locked # None /\ (Pinned => locked = reference.tag)

Begin(c, skip) ==
  /\ pc = "idle" /\ (skip => c = "run")
  /\ command' = c /\ noCache' = skip
  /\ pass' = IF c = "run" THEN "plugins" ELSE "includes"
  /\ Goto(IF c = "run" THEN "lookup" ELSE "resolve")
  /\ resolved' = IF c = "ensure" THEN locked ELSE None
  /\ result' = "none" /\ missed' = FALSE
  /\ ready' = Sufficient(c, skip)
  /\ UNCHANGED <<published, projectVars, locked, cacheVars, resources, working, attempt,
                 todo, again, chosen, other, faults, mixed>>

(* --update moves a pinned reference of pawn.json on, before the first     *)
(* attempt.                                                                *)
Updated == IF command = "update" /\ Pinned /\ ~again
           THEN [reference EXCEPT !.tag = published] ELSE reference

(* ensureManagedPackage up to the record: the release of the lock in       *)
(* memory, which --update has emptied, or the newest one, which needs the  *)
(* network; --update pulls the cached clone.                               *)
Resolve ==
  LET update == command = "update"
  IN /\ pc = "resolve"
     /\ reference' = Updated
     /\ resolved' = IF Pinned THEN Updated.tag
                    ELSE IF resolved # None /\ ~update THEN resolved ELSE published
     /\ head' = IF update /\ head # None THEN published ELSE head
     /\ Goto("resources")
     /\ UNCHANGED <<published, defined, locked, asset, unnamed, resources, working,
                    command, noCache, pass, attempt, todo, result, skipVars, chosen,
                    other, faults, ready, mixed>>

ResolveFails ==
  /\ pc = "resolve"
  /\ command = "update" \/ resolved = None \/ (Pinned /\ resolved # reference.tag)
  /\ reference' = Updated
  /\ AttemptFails
  /\ UNCHANGED <<published, defined, locked, cacheVars, resources, working, other, faults,
                 ready, mixed>>

(* UpdateDependencyReferences looks the tags up before any attempt.        *)
UpdateFails ==
  /\ pc = "resolve" /\ command = "update" /\ ~again /\ Pinned
  /\ End("failed")
  /\ UNCHANGED <<published, projectVars, locked, cacheVars, resources, working, other,
                 faults, ready, mixed>>

(* resourcePackageDefinition: the definition of the clone, of the checked  *)
(* out copy, or the official one.  Without a network that last one is an   *)
(* error or, after a directory that was read and has none, an empty        *)
(* definition without resources.                                           *)
ResourceDefinition ==
  /\ pc = "resources"
  /\ \/ Goto("lookup") /\ UNCHANGED <<pass, attempt, todo, skipVars, chosen, command,
                                      noCache, result, resolved>>
     \/ /\ defined = "official"
        /\ GoesWithout
        /\ UNCHANGED <<attempt, todo, chosen, command, noCache, result, resolved>>
     \/ defined = "official" /\ AttemptFails
  /\ UNCHANGED <<published, projectVars, locked, cacheVars, resources, working, other,
                 faults, ready, mixed>>

(* Faulty variant: the cache is asked only when the network has failed.    *)
PluginFromNetFirst ==
  /\ pc = "lookup" /\ Goto("definition")
  /\ UNCHANGED <<chosen, todo>>
  /\ UNCHANGED <<published, projectVars, locked, cacheVars, resources, working, command,
                 noCache, pass, attempt, result, skipVars, resolved, other, faults, ready,
                 mixed>>

(* PluginFromCache: a file of the cached clone whose name matches, else    *)
(* the asset of the very tag; a reference without one looks in a directory *)
(* that is never written.                                                  *)
PluginFromCache ==
  LET skipped == (noCache /\ pass = "plugins") \/ defined = "official"
      tagged  == Wanted # None \/ reference.kind = "latest"
  IN /\ pc = "lookup"
     /\ CASE ~skipped /\ head # None -> Using(head)
          [] ~skipped /\ head = None /\ tagged /\ Cached(Wanted) # None -> Using(Cached(Wanted))
          [] OTHER -> Goto("definition") /\ UNCHANGED <<chosen, todo>>
     /\ UNCHANGED <<published, projectVars, locked, cacheVars, resources, working, command,
                    noCache, pass, attempt, result, skipVars, resolved, other, faults, ready,
                 mixed>>

(* GetRemotePackage: the definition of the very reference in the           *)
(* repository, which has none called "latest", or the official one.        *)
RemoteDefinition ==
  /\ pc = "definition"
  /\ defined = "official" \/ Wanted # None \/ reference.kind = "untagged"
  /\ Goto("asset")
  /\ UNCHANGED <<published, projectVars, locked, cacheVars, resources, working, command,
                 noCache, pass, attempt, todo, result, skipVars, resolved, chosen, other,
                 faults, ready, mixed>>

NoRemoteDefinition ==
  /\ pc = "definition"
  /\ AttemptFails
  /\ UNCHANGED <<published, projectVars, locked, cacheVars, resources, working, other,
                 faults, ready, mixed>>

(* GitHubReleaseResource.Ensure: a fresh asset is used (and dated today),  *)
(* else the release is looked up.                                          *)
Ensure ==
  /\ pc = "asset"
  /\ IF Cached(Wanted) # None
     THEN Using(Cached(Wanted))
     ELSE /\ chosen' = (IF Wanted # None THEN Wanted ELSE published)
          /\ Goto("download") /\ UNCHANGED todo
  /\ UNCHANGED <<published, projectVars, locked, cacheVars, resources, working, command,
                 noCache, pass, attempt, result, skipVars, resolved, other, faults, ready,
                 mixed>>

(* ReleaseAssetByPattern: the file appears whole under its final name.     *)
Download ==
  /\ pc = "download"
  /\ attempt' = 1
  /\ IF Wanted # None
     THEN /\ asset' = [asset EXCEPT ![chosen] = Of(chosen)]
          /\ Using(chosen)
          /\ UNCHANGED <<unnamed, mixed>>
     ELSE /\ unnamed' = Of(chosen)
          /\ mixed' = (mixed \/ other # None)
          /\ Goto("move") /\ UNCHANGED <<asset, chosen, todo>>
  /\ UNCHANGED <<published, projectVars, locked, head, resources, working, command,
                 noCache, pass, result, skipVars, resolved, other, faults, ready>>

(* Faulty variant: a retry starts the download afresh, without counting.   *)
RetryAfresh ==
  /\ pc = "download" /\ Goto("asset")
  /\ UNCHANGED <<published, projectVars, locked, cacheVars, resources, working, command,
                 noCache, pass, attempt, todo, result, skipVars, resolved, chosen, other,
                 faults, ready, mixed>>

(* FromNetWithClient: a transport error, a busy server or a failed write   *)
(* is tried again after a pause.                                           *)
Retry ==
  /\ pc = "download" /\ attempt < MaxAttempts
  /\ attempt' = attempt + 1
  /\ UNCHANGED <<published, projectVars, locked, cacheVars, resources, working, command,
                 noCache, pc, pass, todo, result, skipVars, resolved, chosen, other, faults,
                 ready, mixed>>

(* The last attempt, a status that no attempt will change, or the release  *)
(* lookup itself.                                                          *)
DownloadFails ==
  /\ pc \in {"asset", "download"}
  /\ AttemptFails
  /\ UNCHANGED <<published, projectVars, locked, cacheVars, resources, working, other,
                 faults, ready, mixed>>

(* Faulty variant: the directory is named for the newest release of now.   *)
MoveToNewest ==
  /\ pc = "move" /\ unnamed.content # None
  /\ asset' = [asset EXCEPT ![published] = unnamed]
  /\ unnamed' = NoAsset
  /\ Using(unnamed.content)
  /\ UNCHANGED <<published, projectVars, locked, head, resources, working, command,
                 noCache, pass, attempt, result, skipVars, resolved, other, faults, ready,
                 mixed>>

(* The file in "latest" goes to the directory of the tag that was listed.  *)
(* If another command has moved it away, renaming fails.                   *)
Move ==
  /\ pc = "move"
  /\ IF unnamed.content = None THEN AttemptFails /\ UNCHANGED <<asset, unnamed>>
     ELSE /\ asset' = [asset EXCEPT ![chosen] = unnamed]
          /\ unnamed' = NoAsset
          /\ Using(unnamed.content)
          /\ UNCHANGED <<command, noCache, pass, attempt, result, skipVars, resolved>>
  /\ UNCHANGED <<published, projectVars, locked, head, resources, working, other, faults,
                 ready, mixed>>

Put(f, content) ==
  IF pass = "includes"
  THEN resources' = [resources EXCEPT ![f] = content] /\ UNCHANGED working
  ELSE working' = [working EXCEPT ![f] = content] /\ UNCHANGED resources

(* UntarWithIgnore, UnzipWithIgnore: file after file is overwritten; only  *)
(* the pass for include files hands the ignore patterns on.                *)
Unpack(f) ==
  /\ pc = "unpack" /\ f \in todo
  /\ IF pass = "includes" /\ f \in Ignored /\ resources[f] # None
     THEN UNCHANGED <<resources, working>>
     ELSE Put(f, chosen)
  /\ todo' = todo \ {f}
  /\ UNCHANGED <<published, projectVars, locked, cacheVars, command, noCache, pc, pass,
                 attempt, result, skipVars, resolved, chosen, other, faults, ready, mixed>>

(* The disk is full while a file is unpacked.                              *)
UnpackFails(f) ==
  /\ pc = "unpack" /\ f \in todo /\ Fault
  /\ Put(f, Torn) /\ ready' = FALSE
  /\ AttemptFails
  /\ UNCHANGED <<published, projectVars, locked, cacheVars, other, mixed>>

(* After the include files of "ensure" comes the plugin.                   *)
UnpackEnds ==
  /\ pc = "unpack" /\ todo = {}
  /\ IF pass = "includes"
     THEN /\ pass' = "plugins" /\ Goto("lookup") /\ chosen' = None /\ again' = FALSE
          /\ UNCHANGED <<locked, command, noCache, attempt, todo, result, missed, resolved>>
     ELSE /\ locked' = IF command = "run" THEN locked ELSE resolved
          /\ End("ok")
  /\ UNCHANGED <<published, projectVars, cacheVars, resources, working, other, faults,
                 ready, mixed>>

--------------------------------------------------------------------------------
(* Another sampctl, at work on another project: it pins some release, or   *)
(* wants the newest.                                                       *)
OtherPins(r) ==
  /\ r <= published
  /\ asset' = [asset EXCEPT ![r] = Of(r)]
  /\ UNCHANGED <<published, projectVars, locked, head, unnamed, resources, working,
                 controlVars, other, faults, ready, mixed>>

OtherDownloads ==
  /\ other = None /\ Cached(None) = None
  /\ other' = published /\ unnamed' = Of(published)
  /\ mixed' = (mixed \/ pc = "move")
  /\ UNCHANGED <<published, projectVars, locked, head, asset, resources, working,
                 controlVars, faults, ready>>

OtherMoves ==
  /\ other # None
  /\ IF unnamed.content = None THEN UNCHANGED <<asset, unnamed>>
     ELSE asset' = [asset EXCEPT ![other] = unnamed] /\ unnamed' = NoAsset
  /\ other' = None
  /\ UNCHANGED <<published, projectVars, locked, head, resources, working, controlVars,
                 faults, ready, mixed>>

(* A command is killed, perhaps while it unpacks a file, or interrupted,   *)
(* which cancels its context: nothing is tried again.                      *)
Crash(verdict) ==
  /\ pc # "idle" /\ Fault
  /\ \/ UNCHANGED <<resources, working>>
     \/ verdict = "none" /\ pc = "unpack" /\ \E f \in todo : Put(f, Torn)
  /\ End(verdict) /\ ready' = FALSE
  /\ UNCHANGED <<published, projectVars, locked, cacheVars, other, mixed>>

(* Between two commands; the verdict of the last one does not outlive it.  *)
Idle(changed) == pc = "idle" /\ changed /\ Fault /\ result' = "none"

Publish ==
  /\ published < Newest
  /\ published' = published + 1
  /\ UNCHANGED <<projectVars, locked, cacheVars, resources, working, controlVars, other,
                 faults, ready, mixed>>

WeekPasses ==
  /\ Idle(other = None)
  /\ asset' = [r \in Releases |-> [asset[r] EXCEPT !.fresh = FALSE]]
  /\ unnamed' = [unnamed EXCEPT !.fresh = FALSE]
  /\ UNCHANGED <<published, projectVars, locked, head, resources, working, commandVars,
                 other, ready, mixed>>

EditSettings(f) ==
  /\ Idle(working[f] \in Releases)
  /\ working' = [working EXCEPT ![f] = Edited]
  /\ UNCHANGED <<published, projectVars, locked, cacheVars, resources, commandVars, other,
                 ready, mixed>>

EditReference(r) ==
  /\ Idle(r # reference.tag /\ Pinned /\ r <= published)
  /\ reference' = [reference EXCEPT !.tag = r]
  /\ UNCHANGED <<published, defined, locked, cacheVars, resources, working, commandVars,
                 other, ready, mixed>>

Step ==
  \/ Resolve \/ ResolveFails \/ UpdateFails \/ ResourceDefinition
  \/ PluginFromCache \/ RemoteDefinition \/ NoRemoteDefinition
  \/ Ensure \/ Download \/ Retry \/ DownloadFails \/ Move
  \/ (\E f \in Files : Unpack(f)) \/ UnpackEnds

Next ==
  \/ Step
  \/ \E c \in Commands, skip \in BOOLEAN : Begin(c, skip)
  \/ (\E r \in Releases : OtherPins(r) \/ EditReference(r))
  \/ OtherDownloads \/ OtherMoves
  \/ Crash("none") \/ Crash("failed") \/ Publish \/ WeekPasses
  \/ (\E f \in Settings : EditSettings(f)) \/ \E f \in Files : UnpackFails(f)

Spec == Init /\ [][Next]_vars /\ WF_vars(Step)
--------------------------------------------------------------------------------
(* An asset in the directory of a tag is of that release, whatever other   *)
(* commands did and wherever they were killed: what is in "latest" ends in *)
(* the directory of its own tag.  Two commands that are in "latest" at the *)
(* same time may break this: the file has one name for all releases.       *)
AssetsAreGenuine == ~mixed => \A r \in Releases : asset[r].content \in {None, r}

(* After a successful "ensure" or update the plugin of a pinned reference  *)
(* is of that release, and so are the include files and the entry of       *)
(* pawn.lock; whatever the reference, the include files are of the release *)
(* that pawn.lock names, whatever was unpacked before.  The exceptions:    *)
(* include files the command went on without, after two attempts and a     *)
(* warning or for want of a definition (pawn.lock may then name a release  *)
(* that was never unpacked); a file the user asked to keep; and a          *)
(* repository that holds the binaries itself, from whose HEAD they are     *)
(* then taken.                                                             *)
InstalledIsLocked ==
  result = "ok" /\ command # "run" /\ head = None /\ ~mixed =>
    /\ Pinned => \A f \in Plugins : working[f] = reference.tag
    /\ ~missed => /\ \A f \in Includes \ Ignored : resources[f] = locked
                  /\ Pinned => locked = reference.tag

(* The cache is enough: a command that found the lock, the definition and  *)
(* the asset of a pinned reference in place does not need the network: it  *)
(* neither fails nor goes on without include files.                        *)
CacheIsEnough == result = "failed" \/ missed => ~ready

(* docs/plugin-resources.md: a file that matches extract_ignore_patterns   *)
(* and exists is not overwritten.                                          *)
IgnoredIsKept ==
  [][\A f \in Settings \cap Ignored : working[f] = Edited => working'[f] = Edited]_vars

(* Every command ends, however often a download is interrupted.            *)
CommandEnds == pc # "idle" ~> pc = "idle"
================================================================================
