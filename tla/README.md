# A TLA+ verification of sampctl

sampctl is a package manager, build tool and server runner for the Pawn language (SA-MP and open.mp
game servers), written in Go. This directory models the parts of it whose correctness depends on the
order of things (what is written before what fails, which goroutine is first, what another process
or the user did in between), model-checks them on small instances with TLC and proves the central
invariants for every instance with TLAPS.

Paths below are relative to `src/src/pkg`, the Go packages of sampctl, unless they start with
`src/`.

## 1. The system

| component | state | operations | what is hard |
|---|---|---|---|
| Dependency installation (`package/pkgcontext/ensure*.go`, `dependency_repo.go`, `cache.go`) | `pawn.json`, `dependencies/<repo>`, shared cached clones | `sampctl ensure` and every `build` or `run` that ensures | nested recovery, retries, partial failure, crashes, shared cache |
| Installing and removing (`install.go`, `uninstall.go`) | `pawn.json`, `pawn.lock` | `sampctl install`, `uninstall` | two files written at different stages, several targets, skipped dependencies |
| `pawn.lock` (`package/lockfile`) | one entry per dependency (constraint, commit, integrity), the runtime's files, the last build | load, look up, verify, record, prune, save | entries that outlive the constraint, the update or the package they belong to; a file written in place |
| Dependency updates (`dependency_update.go`, `lockfile_update.go`) | the references in `pawn.json` | `ensure --update [--force] [dep]`, `--lock-only` | rewrite before the refresh, rollback by hand |
| Git repositories (go-git, `repo_validation.go`) | HEAD, branch, worktree, remote | clone, pull, checkout, repair | detached HEAD, dirty worktrees, clones that were cut short |
| Dependency graph (`cache.go`) | flattened list of dependencies, visited names, cached clones | `refreshDependencyGraph` | cycles, a shared error, a visited set keyed by name, forced pulls in the middle of the walk |
| Dependency resources (`ensure_resources.go`, `runtime/ensure_plugins.go`, `infrastructure/resource`) | cached release assets, `dependencies/.resources`, plugins of the server | two passes of an ensure or run | an asset directory called "latest" that everybody shares, versions read from the lock in one pass and from `pawn.json` in the other |
| Runtime installation (`runtime/ensure.go`, `manifest.go`, `download.go`) | list of runtimes, archives, staging directory, files of the server, their record in `pawn.lock` | install a runtime version for ensure, run, or a package that is not local | files of an older version, crash between copy and record, an archive verified after it was kept |
| One-shot build (`pkgcontext/build.go`, `build/compiler`, `build/compiler.go`) | build number, compiler in the cache, `.amx`, `pawn.lock` | `sampctl build`, and the build in front of `run` | a compiler process and the goroutine that parses its output, verdict from parsed problems, which configuration is built and which recorded |
| Runtime execution (`runtime/run.go`, `run_posix.go`) | server process, pseudo-terminal, pipe, channels | `sampctl run`, the container and watch modes on top of it | four goroutines, unbuffered channels, signals, cancellation |
| Watch mode (`build.go`, `watch_helpers.go`, `run.go` of pkgcontext) | debouncer, compiler goroutine, watched server | `build --watch`, `run --watch` | two event loops that block each other, edits that arrive at any time |
| Configuration of the runtime, containers, templates and releases, command line | files | one request each | text conversion, prompts, calls of external services |

How they interact: a command loads the package (`NewPackageContext`), which caches every dependency
and flattens the graph; loads `pawn.lock` (`InitLockfileResolver`); may rewrite `pawn.json`
(`UpdateDependencyReferences`); installs the dependencies one after the other
(`ensureDependencies`), each with the help of the cached clone, the vendored clone and the lock
entry, and with the include files of its release; installs the runtime and the plugins and saves the
lock (`ensureParentRuntime`, `EnsureProject`). A build then calls the compiler and records its
result in the lock; a run stages the program, starts the server and relays its output. Watch mode
does both in a loop, as two goroutines with a channel between them. Commands of different projects
share the cache directory and nothing else.

What makes each correct:

* ensure: what is reported as ensured is what is locked, pinned or newest; a lock entry is binding
  until the user says otherwise; a failure leaves a state the next command repairs.
* install and uninstall: a command that fails has declared nothing, and never leaves a part of what
  it installed in the lock; what is declared is locked, and nothing else stays locked.
* graph: one revision per repository name, nothing left out that is declared and has not failed, an
  end.
* resources: what lies in the directory of a release is of that release, and what is unpacked is
  what is locked, unless a warning says that it was skipped.
* runtime installation: the files are exactly those of the version that was asked for, whatever was
  there before, and the record of them is true.
* build: success means that the program was made from what was asked for, the record never pairs one
  build with the output of another, and failure has a cause.
* execution: output is complete and in order, nothing but the reader of the input outlives the run,
  an exit status tells the truth, and a run ends.
* watch: no edit the watcher hears of is lost, builds do not overlap, the server runs what was built,
  a signal ends it.

## 2. The modules

    GitRepository                pure operators: a repository and what go-git does to it
      `-- LockResolver           pure operators: references, entries, integrity
            `-- EnsurePackage    one dependency, stage by stage
                  |-- MCEnsurePackage        instances for TLC
                  `-- EnsurePackage_proofs   theorems
    ProjectDependencies          all dependencies: ensure, install, uninstall
      |-- MCProjectDependencies
      `-- ProjectDependencies_proofs
    DependencyReferences         what definitions can declare
      |-- DependencyClosure      abstract: the graph without an order
      `-- DependencyGraph        the walk, shown to implement DependencyClosure
            |-- MCDependencyGraph
            `-- DependencyGraph_proofs
    PluginResources              the release assets of a dependency
    RuntimeInstall               the files of the server
    PackageBuild                 build, and the build of run
    RuntimeExecution             the goroutines of executeRuntime
      each with an MC module and a _proofs module
    WatchMode                    BuildWatch and RunWatch together
      `-- WatchMode_proofs

### GitRepository, LockResolver, EnsurePackage

One project with one git dependency. Upstream is a linear history `1 .. MaxCommit`, some of whose
commits carry a tag; a tag is represented by its commit. A cached copy is its HEAD alone; a vendored
copy has a HEAD, a branch, the newest fetched commit, a worktree (`clean`, `edited`, `untracked`)
and the cached copy its remote points at. The lock is one entry, in memory (`lock`) and on disk
(`disk`).

| state | code |
|---|---|
| `constraint` | the reference in `pawn.json` |
| `cache["default"]`, `cache["branch"]` | the two directories `DependencyMeta.CachePath` can name |
| `vendor` | `dependencies/<repo>` |
| `disk`, `lock` | `pawn.lock`, `Resolver.lockfile` |
| `meta` | `effectiveMeta` of `ensureManagedPackage` |
| `attempt`, `round` | the retrier of `ensureDependencies`; whether the integrity check has recovered once |
| `steady` | history: no push and no network change since the command started |

One action is one stage of the command (`pc`): `Load` (package and lock), `Rewrite`
(`UpdateDependencyReferences`), `Refresh` (`refreshDependencyGraph`), `Resolve` (`LockedVersion`,
`resolveDynamicDependencyReference`), `Repository`, `Update`, `Repair`, `ForceUpdate`, `Reclone`,
`Reupdate` (`updateRepoStateWithRecovery`), `Verify` and `Restore`
(`verifyDependencyIntegrityWithRecovery`), `Record`, `Runtime`, `Finish`, and `Relock` for
`--lock-only`. Between two stages upstream may get a commit, the network may fail, another project
may pull the shared cache, or the process may be killed with half of a clone or of `pawn.lock`
written. Between two commands the user may edit the constraint, edit or delete files, clear the
cache, or receive a teammate's `pawn.lock`.

### ProjectDependencies

What EnsurePackage cannot show: several packages, of which two may have one repository name and so
one directory, over one `pawn.lock`. A dependency is ensured in one step (`Ensured`: two attempts,
each with clone, checkout, recovery and integrity check, as functions on the copy and the cached
HEAD), and the commands go from one to the next. What a package declares is `Needs`, by version.

| state | code |
|---|---|
| `declared`, `mine` | `pawn.json`; `pcx.Package.Dependencies` in memory |
| `flat`, `visited`, `failed` | `AllDependencies`, the visited map and `errInner` of the walk |
| `vendor`, `cached` | `dependencies/<name>`, HEAD of the cached repositories |
| `disk`, `lock` | `pawn.lock`; `Resolver.lockfile` |
| `skipped` | the dependencies `ensureDependencies` only warns about |
| `started`, `last` | history: the project at the start of the command; what the last ensure installed |

Stages: `load` (the walk and the lock), `choose` (targets of an install get the newest tag), `graph`
(the walk over the new list), `ensure`, `runtime` (which saves the lock), `prune`
(`currentLockfileDependencies`, which fails at a definition it cannot read, and
`pruneLockfileDependencies`), `remove`, `write` (`WriteDefinition`), `save`. `Broken` are the
versions whose definition cannot be parsed: a walk goes past them, the resources of such a dependency
cannot be installed, and the prune fails. Around it packages are published, other projects refresh
the cache, the network fails, the files of the project cannot be written (`Permissions`; a save that
fails may cut the file short, and is a warning where the code only warns), the user edits `pawn.json`
or checks the project out anew, and a command is killed, maybe in the middle of a write.

### DependencyReferences, DependencyClosure, DependencyGraph

`refreshDependencyGraph` over any number of packages. What a package declares is a function from
readable sources (a package at its default branch or at a tag) to sequences of references; it is
chosen from the constant `Definitions` and stays during a walk, as the walk reads cached copies.
`Project` is the user's own package. `RepoName` gives two users' packages the same name.

| state | code |
|---|---|
| `path`, `position` | the recursion and the index of `range subPackageDepStrings` in each of its calls |
| `visited` | the sources that put their name into `visited` |
| `found` | `AllDependencies` |
| `failed` | `errInner != nil` |
| `cached` | packages with a valid repository in the cache |
| `missed` | history: the references that failed |

A step handles one reference of the loop: `SkipInvalid`, `Collect` (`handleURLSchemeCaching`),
`SkipVisited`, `Lose` (clone or forced pull and its recovery failed), `ListUnread` (cached and
listed, but its definition cannot be read), `Visit` (listed, marked, gone into), or `Leave`. Any
access to the network may fail and the process may be killed between any two steps. `ShouldForce` is
the whole decision of `ShouldForceDependency`, with its targets.

`DependencyClosure` is what the walk promises without an order: from the project on, definitions are
opened, one per name; when the graph is complete every declared reference of an opened definition is
accounted for (opened in this or another revision of that name, listed for its URL scheme, or known
to have failed). The refinement maps `opened` to `visited`, `found` to the set of the list and
`status` to `walk`.

The other modules look at the same function for one dependency (`Refresh` of EnsurePackage) and with
versions that are published during a walk (`Visit` of ProjectDependencies).

### PluginResources

One dependency that brings a plugin. Releases are numbers; an archive has include files, plugin
files and other files (`Settings`). `asset[r]` is the cache directory of the tag of `r`, `unnamed`
the one called "latest", `resources` is `dependencies/.resources` and `working` the directory of the
server.

`Begin` starts an ensure, an update or a run. An ensure or update first makes the pass over the
include files: `Resolve` finds the release, of the lock or the newest, and records it;
`ResourceDefinition` finds the definition, or an empty one without resources. A pass that fails
anywhere (`AttemptFails`) is made once more from its first step, and then the command goes on without
the include files (`GoesWithout`, history variable `missed`): the entry it has recorded stays. In the
pass over the plugin files a failure is one of the command. `PluginFromCache` and `RemoteDefinition`
find the definition that lists the plugin;
`Ensure`, `Download`, `Retry` and `Move` are `GitHubReleaseResource.Ensure` with its retried
download and the move from "latest" to the directory of the tag; `Unpack` puts one file in place.
Another sampctl process works in the same cache (`OtherPins`, `OtherDownloads`, `OtherMoves`),
releases are published, lists grow old, the user edits `pawn.json` and the other files, and the
command is killed anywhere.

### RuntimeInstall

The installation of the server, by three commands: ensure (`ensureParentRuntime`, which records it
in `pawn.lock`), run (`runtime.Ensure`, which does not) and a run of a package that is not local.
Contents of a file are the release it comes from, or that it is absent, cut short, of a bad archive,
or edited.

| state | code |
|---|---|
| `list`, `published` | `runtimes.json` in the cache; what the network says (a name may be an alias that moves) |
| `archive`, `staged`, `manifest` | downloaded archives; `runtime_staging/<platform>/<version>` and its manifest |
| `home`, `shared` | the files of a local runtime; `<cache>/runtime/<version>` |
| `lock` | the runtime section of `pawn.lock` |
| `layout` | whether `pawn.json` states a runtime type and a `runtime_dir` |
| `excused`, `slipped`, `unrecorded` | history: an outside cause to fail; an archive kept before its checksum; files no lock lists |

Stages: `stage`, `list`, `cached`, `download`, `checksum`, `unpack`, `manifest`
(`ensureStagedRuntime`), `inspect` (`matchesRuntime` and the verification of what is there),
`remove`, `copy` (one file a step), `plugins`, `record`.

### PackageBuild

`Build` of pkgcontext and the command around it, also in front of a run. Texts of the source
are model values with a quality (clean, warnings, errors, a fatal error, a line longer than the
scanner's buffer). `Layout` says which build configurations `pawn.json` has and which have an output
of their own. Stages: the include file of constants (`Prepare`), ensure, build number, list of
compilers, compiler package (unpacked part by part), pre-build commands, the compiler and the parser
goroutine (`ReadLine`, `CompilerEnds`), build number saved, post-build commands, `Verdict`,
`RecordBuild`, and for a run `StageOutput` and `EnsureRuntime`. The user may interrupt or kill the
command, or edit the source at any time; `made` is the program the compiler of this command made.
`RecordFails` is a record of which a part fails: the hash, the save, or the save in the middle of the
file; the build succeeds with a warning (`warned`). With a `pawn.lock` that cannot be read nothing is
recorded at all. `elsewhere` is `--dir`, with which the output to hash is looked for in the directory
the command was started in. `--no-lock` is the command without the last stage, and not modelled.

### RuntimeExecution

The goroutines of `executeRuntime`: `main`, `runner` (`runBinary`, `platformRun`), `copier`
(`io.Copy` from the terminal to the pipe), `reader` (`readBinaryOutput`) and `feeder`, the goroutine
that copies the input of sampctl to the terminal and that nobody joins (`FeedEnds` when its input
ends). Lines are members of a set of kinds, one of which (`"long"`) is the beginning of a line that
does not fit the scanner's buffer and ends the reader. A send over the unbuffered `streamCh` is one step with its receive; an `io.Pipe`
write lasts until the reader has read all of it, in pieces of any length; the terminal has a
capacity. The three run modes, signals, cancellation and an output that cannot be written are
inputs. `RunOptions.Recover` is FALSE in every caller (`pkgcontext/run.go`), so the crash loop of
`evaluateRunResult` is unreachable and left out.

### WatchMode

`BuildWatch` and `RunWatch` with the debouncer, the compiler goroutines, the result channel, the
unbuffered channel `Trigger`, and the watched server. The sources are the number of edits made to
them; a build, the `.amx` and the server are the edit they contain. `seen` is the newest edit the
watcher had an event for: it adds the directories that exist when the watch begins, below the one of
the entry, and filters by extension and operation, so that an `Edit` may go unnoticed. `amx` is
`Package.Output`, which `RunWatch` stages; a build with an output of its own (`ownOutput`) does not
write it. A copy that fails leaves no server. RuntimeExecution and PackageBuild show when a run of the
server or a compiler does not return any more; here `ServerHangs` and `CompilerHangs` may happen at
any time.

## 3. The runs

| run | bounds | shows |
|---|---|---|
| `ensure_package` | 2 commits, 5 constraints, 4 requests, every environment action; 756 thousand states | six properties of ensure, below |
| `ensure_branch` | 2 commits, a branch constraint, plain, forced and lock-only requests; 116 thousand states | every command ends |
| `project_dependencies` | a library, its fork of the same name and a package that the first version of the library needs and the second does not; 4 contents of `pawn.json`, 4 requests, 3 changes of the world (new releases, edits, files that cannot be written), one release with a definition that cannot be read; 3.7 million states | install, ensure, uninstall and edits over one lock |
| `dependency_graph` | 4 packages, two of one name; 72 project definitions over 2 upstream graphs (cycles, forks, unreadable revisions, shared packages), 4 requests; 28 thousand states | refinement of the closure, names, cache, termination |
| `plugin_resources` | 2 releases, one file of each kind, 2 attempts of a download, 1 fault; 1.8 million states | assets, what is unpacked, the use of the cache, termination |
| `runtime_install` | 2 versions, one of them an alias of either of 2 releases with different files, 3 layouts, 1 fault; 1.9 million states | the server's files and their record |
| `package_build` | 4 texts, 2 build names, 6 layouts, 7 requests, a compiler of 2 files, 1 fault; 598 thousand states | verdict, program, record, termination |
| `runtime_execution` | 3 modes, terminal of 2 lines, outputs of up to 4 lines; 647 thousand states | output, joins and verdicts |
| `watch_mode` | 3 edits, both commands; 283 thousand states | edits, builds, server, signals |
| `ensure_update`, `project_stuck`, `runtime_reinstalled` | as above | a documented promise the code breaks (section 6) |

**Ensure.** `EnsuredIsLocked`: what is reported is what is recorded. `Reproducible`: an entry is
binding, with a clean worktree. `AskedIsInstalled`: a pinned tag or commit is what is checked out,
and an undisturbed update that succeeds installed the newest. `SkippedOnlyForTheLock`: self-repair,
since whatever state the copies are in, an undisturbed command skips the dependency only if the lock
is at odds with the request. `NoLossWhileOnline`: a valid copy is removed without replacement only
offline. `LockedCommitIsStable`: a commit in `pawn.lock` changes only by the commands meant to
change it. `CommandEnds`: recovery in recovery in a retry comes to an end.

**Project.** `DirectIsLocked`: after ensure a declared dependency that was not skipped has an entry,
and the entry is what is checked out (of whichever package, when a fork took the place of another).
`LockIsNeeded`: after an undisturbed ensure every entry belongs to the least set closed under what
is declared, so that nothing is left of what was uninstalled or half installed.
`FailureKeepsProject`: a command that fails has declared nothing, and the `pawn.lock` it leaves is
the one it found or one with the versions of all it installed, never of a part of them; the lock is
saved with the runtime, and the prune and the write of `pawn.json` may fail after that. Only a file
that could not be written is cut short.
`DirectIsStable`: from one ensure to the next, across publications, caches, crashes and new
checkouts, a declared dependency that is alone of its name stays on its version until the user or an
install changes it.

**Graph.** `ImplementsClosure`; `OneRevisionPerName` (`dependencies/<repo>` is one directory);
`OpenedIsCached` (a later forced pull never takes away what the walk has gone into);
`OnlyRefreshedCopiesAreLost` (a shared copy is removed only by an update that was to refresh it);
`WalkEnds`.

**Resources.** `AssetsAreGenuine`: what is in the directory of a tag is of that release.
`InstalledIsLocked`: after an ensure the include files are of the locked release, unless the command
has warned that it goes without them, and for a pinned reference the plugin is of that release too.
`CacheIsEnough`: a command that finds everything in the cache neither needs the network nor goes
without include files. `CommandEnds`. The history variable `mixed` excepts two processes that are in
the directory "latest" at the same time, which do mix releases.

**Runtime installation.** `ReplacementIsReady`: nothing is removed before its replacement is staged
whole. `InstalledIsGenuine`: after a success the directory holds all files of one release of the
wanted version. `FailureHasACause`: no state an earlier command left makes one fail. `LockIsTrue`:
what the lock lists is there. `AllIsRecorded`: every file that was put there is listed, or was put
by a command that records nothing, so that a change of version can remove it. The history variable
`slipped` excepts archives whose process was killed before their checksum: `FromCache` never looks
at it again.

**Build.** `SuccessIsTrue`, `ForcedRunIsBuilt` (`run --forceBuild` runs what was just made),
`FailureHasACause`; `LockedBuildIsTheOutput` (the lock has the configuration and the hash of what was
made or, after a warning, what it had before, no hash, or a part of the file: never one build with
the output of another); `CommandEnds`, except at a line longer than the 64 KiB
of the scanner, where the parser stops, the compiler blocks in its write, and the build waits for
the compiler for ever.

**Execution.** `OutputInOrder`, `OutputIsComplete` (compared with a reference fold over what the
server printed, up to the line that ends the reader), `OnlyInputIsLeft` (of all a run has started
only the goroutine that reads the user's input may be at work after it), `SuccessIsEarned`,
`RunReturns`. This one says that a run whose server has ended or never started returns, whoever
interrupts it, unless one of two waits is for ever: output of the server that nobody reads
(`OutputWaits`: after an interruption, or at a line longer than 64 KiB, without any interruption), or
a second termination that nobody takes (`TerminationWaits`). `sampctl run` cancels its context at
every ^C (`src/src/commands/context.go:11`), which `OutputIsComplete` therefore excludes.

**Watch mode.** `BuildsAnswerEdits`, `RunningIsTrue`, `ServerIsFresh` (for builds that write the
output of the package), `EveryEditIsBuilt` (for edits the watcher has an event for) and
`SignalEndsWatch`, both unless a compiler or the run of a server hangs.

`TypeOK` is in no run: TLAPS proves it in every module that has one (section 5).

Why the bounds are enough. Every rule of ensure compares two commits at most (the locked one and the
installed one, the cached tip and the upstream tip), so an older and a newer commit show every
order; three repeat the same comparisons. An environment action may happen any number of times
there; in ProjectDependencies, where a command takes a dozen steps, three changes are what it takes
to publish a version, kill a command and start anew, or to edit, publish and refresh. Two packages
of one name and a package whose need for another changes with its version are the cases in which the
lock, the directory and the list can part. In the graph a conflict needs two references to one name
on different levels, and an error needs one reference after the one that fails; two references per
definition give both, and a cycle through the project, through two packages and into a package
itself. In RuntimeInstall the two releases share a file and each has one of its own, so that a
change of version has something to remove, to replace and to add; one fault may hit any of the
commands, of which there are any number. In PluginResources the second attempt of a download is the
last. In PackageBuild the layouts have each configuration field on and off in a package where it
matters. In RuntimeExecution the circle of waits needs one line in each of scanner, pipe and
terminal, and filters look at most one line back; a line that is too long comes with and without a
line behind it. In WatchMode the three edits can be spread over a
running build, the debounce timer and a blocked trigger at the same time.

Every property is also run against a faulty variant of a definition (the definitions marked "Faulty
variant" in the modules) and is violated there.

Deadlock is checked where the environment always has a step or a command to start. It is not checked
in RuntimeExecution and WatchMode, which end (there, liveness properties say that they end where
they should), and in ProjectDependencies, whose changes are bounded: when they are used up while
`pawn.json` is cut short, no command starts.

## 4. Fairness

* EnsurePackage, ProjectDependencies, PluginResources, RuntimeInstall, PackageBuild: weak fairness
  of the steps of the command: a process that runs goes on. Nothing is promised of the network,
  upstream, other processes, the user, or of the next command. A download that is interrupted is
  retried `MaxAttempts` times, as in the code. The compiler is taken to end once its output is read.
* DependencyGraph: weak fairness of the walk's steps. Which outcome a step has is not promised.
* RuntimeExecution: weak fairness per goroutine and for the rendezvous over `streamCh`. The server
  need not print or end, and the input need not end.
* WatchMode: weak fairness of the goroutines; strong fairness of the signal cases of the two
  `select` statements, because Go chooses uniformly among ready cases and so does not pass over a
  ready one for ever. The run of a cancelled server ends or hangs, and a compiler that does not hang
  ends: which of the two happens is not promised. Edits are finite (`MaxEdits`): a source that changes
  for ever restarts the debounce timer for ever, and is never built.

## 5. The proofs

`EnsurePackage_proofs`, for every `MaxCommit > 0`, every set of requests, every non-empty set of
constraints and every environment: `EnsureTypeCorrect`, `WhatIsEnsuredIsLocked`,
`EnsureIsReproducible`, `LockedCommitsAreStable`, `NothingIsLostOnline`, `RepairIsComplete`,
`UpdatesInstallNewest`, `WhatIsAskedIsInstalled`, `CommandRunsOut`.

*Argument.* The stages are compositions of operators on "worlds" (success, vendored copy, cached
copies). Lemmas up to `UpdateRepoStateIsSound` show that each yields a well-formed world, and a
usable vendored copy if it succeeds; `NewestIsThere` shows that a newest tag exists (from the
well-foundedness of the naturals, by counting down from `MaxCommit`). The properties are not
inductive: they speak of the end of an attempt. `IInv` adds what has to be carried there:

* `HeadIsKnown`: a usable copy has a commit checked out;
* `WorkingCopyIsValid`: the stages that look into the copy find one;
* `RecordedIsVerified`: from `Verify` to `Record` nothing moves HEAD or the entry;
* `LockIsLoaded`: the entry in memory is the one on disk from load to save, unless the command
  cleared it. This is the part that fails if a retry or a half-failed record changed an entry:
  `RecordResolution` keeps one whose commit was verified;
* `RelockIsAskedFor`: only `--lock-only` reaches the save that replaces commits.

There is one lemma per action; `InstallKeeps`, `WorldKeeps`, `ExitKeeps` and `AroundKeeps` hold what
the actions share. `LockedCommitsAreStable` is an action property proved from `IInv`: only
`Runtime`, `Finish` and a crash during them write the file. `NothingIsLostOnline` is another: with the
network up a forced refresh of the cached copy yields a clone, and the only way to lose the vendored
one is an unforced clone from a broken cached copy (`EnsureFromCacheStays`).

What was asked for needs a second invariant, `AInv`, which relates the copies to upstream:

* `NothingIsNewer`: no copy, tag or entry is ahead of upstream. This is what makes a tag or a commit
  that exists one that a fresh copy holds, and it rests on a lemma for each operator (`...OfOld`);
* `MetaIsChosen`, `NewestIsChosen`, `LatestIsWritten`: which version the stages install, and that for
  an undisturbed update it is the newest;
* `MetaIsInstalled`: what passed the update is on the commit that version names;
* `LockIsFresh`, `CacheIsThere`: an undisturbed attempt finds the entry of `pawn.lock` and a usable
  cached copy;
* `RecloneIsNew`, `RestoredIsClean`: the last resort of the recovery is a clone of what upstream has
  now, and the clone made for the integrity check has no edited file.

`RepairIsComplete` is then a statement about the two places where an undisturbed attempt can still
fail: the checkout in a fresh clone (`Reupdate`), which fails only for a version that is not
there, and the integrity check of a clean copy, which fails only for an entry of another commit. Both
leave the lock as the only cause. `WhatIsAskedIsInstalled` has the hypothesis `NoLockOnly`: after
`ensure --lock-only` an entry of a pinned reference may hold another commit (section 6, point 5), and
without that command `PInv` shows that it never does. `UpdatesInstallNewest`, its other half, needs no
hypothesis.

`CommandRunsOut` is the part of `CommandEnds` that needs no ENABLED: `StagesLeft`, a number up to 37,
goes down with every stage and is raised by nothing the environment does. A second attempt starts
below what the first has left anywhere, and so does the update after the second clone.

`ProjectDependencies_proofs`, for any packages, declarations, contents of `pawn.json` and requests:
`ProjectTypeCorrect`, `ProjectFailureKeepsProject`, `ProjectDirectIsLocked`,
`ProjectLockIsNeeded`, `ProjectDirectIsStable`. `NothingIsWritten` is the first strengthening: up to
the runtime step both files are what they were when the command started. A failure after that step
finds the versions of all that was installed in the lock, by `Progress` below. Type correctness needs what the operations on repositories leave: lemmas up to
`EnsuredType` show that only without network and cached repository a copy can be gone.

It and the other three follow from `Sound`: `MineIsDeclared` (an ensure has the list of `pawn.json` in
memory), `LastIsKept` (what the last ensure installed matches its entry, on disk and in memory, unless
the file is cut short), `Progress` (each dependency of the list is still to come, or was skipped, or
has the entry of its copy) and `Pruned` (after the prune every entry is in every closed set that
holds what is declared, and so in the least one). The proof has corrected the model: with two
packages of one name in the flattened list, which takes a definition of the first that cannot be
read, the second moves the copy of the first, and "stays on its version" is false for that
directory. `DirectIsStable` now speaks of packages that are `Alone` with their name.

`DependencyGraph_proofs`, for every set of packages, every naming, all definitions (cyclic or not)
and all requests: `GraphTypeCorrect`, `OneOwnerPerName`, `CyclesAreCut`, `OpenedStaysCached`,
`OthersKeepTheirCopies`, the refinement `WalkImplementsClosure`, and, for finitely many
definitions, `WalkRunsOut`. The invariants have to say what
the call stack knows:

* `WalkShape`: the recursion is in some source exactly while there is a walk, the project is marked,
  and an idle walk holds nothing;
* `PathIsVisited`: what the recursion is in has its name marked;
* `LoopsAreOrderly`: no loop has passed its end, and only visited sources have started one;
* `PassedIsSettled`: every reference a loop has passed is accounted for. With the loops of what has
  been left at their end, this is what lets `Leave` of the project map to `Finish`.

`WalkRunsOut`: every step goes down in the lexicographic order of the definitions not opened yet, the
depth of the recursion and what its innermost loop has left. That order is well-founded
(`ShorterIsWellFounded`), so no walk takes infinitely many steps.

`PluginResources_proofs`, for any number of releases, files and attempts: `PluginTypeCorrect`,
`PluginAssetsAreGenuine`, `PluginInstalledIsLocked`, `PluginCacheIsEnough`. `LatestIsShared` and `MoveIsUnnamed` say what
may be in the directory "latest" and under which tag it ends; `VersionIsResolved`,
`DownloadIsWanted` and `UnpackedIsWanted` carry the release that is wanted from the lock to the
file; `IncludesAreUnpacked` and `PluginsAreUnpacked` say what the passes have done so far, `MissedIsPast`
that what is skipped is the first pass, and `RunMakesOnePass` that a run makes the second only. `FreshIsThere` says that an asset taken for fresh
is one that was downloaded whole, `StaysReady` that what a command found in the cache at its start is
there until its end. `PluginCommandRunsOut` orders the steps of a command, for finitely many files, by
the stages left and, within one, the files to unpack or the attempts to make.

`RuntimeInstall_proofs`, for any names, aliases, releases and files: `RuntimeTypeCorrect`,
`RuntimeReplacementIsReady`, `RuntimeInstalledIsGenuine`, `RuntimeFailureHasACause`,
`RuntimeLockIsTrue`, `RuntimeAllIsRecorded`. The argument
follows a content on its way: `OnlyNewArchivesAreBad`, `UnpackedIsGenuine`, `StagedIsGenuine`,
`ManifestsAreGenuine` (also `LockIsGenuine`, for the comparison that leaves an installation alone),
`CopiedIsTheManifest`, `PlaceIsGenuine`; `BadArchivesAreExcused` and `VerdictIsLast` are for
failures. The last two theorems rest on a second invariant, `RInv`: which files there are is known
even of a bad archive (`UnpackedIsWhole`, `ManifestsAreWhole`, `LockIsWhole`), what is found in place
agrees with the manifest (`PlaceIsTheManifest`), and the files of the old record are gone or counted
as unrecorded by the time the new ones are copied (`HomeIsRecorded`).

`PackageBuild_proofs`, for any texts, names, layouts and requests: `BuildTypeCorrect`,
`BuildSuccessIsTrue`, `BuildForcedRunIsBuilt`, `BuildFailureHasACause`, `BuildLockedIsTheOutput`.
`ProblemsAreSeen` says that what the compiler has said so far and has still to say is what is wrong
with the text, so that an empty list at the end means a program (`OutputIsMade`), and
`ProblemsAreReal` the converse; `StagedIsOutput` carries it to the server. `BuildCommandRunsOut`
orders the steps in the same way as for the plugins, and `BuildIsStuckOnlyAtLongLines` shows that the
exception in `CommandEnds` is the only one.

`RuntimeExecution_proofs`, for every capacity of the terminal and all outputs:
`ExecutionTypeCorrect`, `ExecutionLeavesOnlyInput`, `ExecutionSuccessIsEarned`, from `Joined` (which
goroutines have ended when `main` goes on), `LinesWereSent` and `TerminationsAreEarned` (a
termination without an error, in the channel or received, comes from a server that ended well or
from the line that ends the run). `ExecutionOutputInOrder` and `ExecutionOutputIsComplete` compare
what was printed with `Replay`, the recursive function that filters what the server has sent.
`ReplayIsShown` proves its equation, by a least number for which it would have no solution. `Underway`
says where each line is (scanner, pipe, terminal, in this order); `Relayed` that the reader's filter
is the one of `Replay` at the lines that have left the scanner, and that `main` lacks at most the line
in the channel; `Drained` that a reader that is done without the end of the run has nothing left
between it and the server. `ScanShows` says what the scanner's last line adds to the fold, also when
it is the one the reader ends at.

`WatchMode_proofs`, for every `MaxEdits`: `WatchTypeCorrect`, `OneBuild`, `FlagIsTrue`,
`EditsAreAnsweredOnce`, `RestartedIsFresh`. The first four come from `IInv` and
`SeenWasMade` (no event without an edit). `IInv` adds `TriggerIsIdle`: while `BuildWatch` waits in the
send over `Trigger`, `buildRunning` is already FALSE and no build is at work; this is why a build
started right after the send cannot overlap another. `RestartedIsFresh` needs `EditsGoOn` (the .amx
is of an edit the sources had, a build at work reads a later one, an accepted build that writes the
output of the package is not newer than it) and `StagedIsAlone` (no other server runs between the copy and the start).

Every invariant and every action property of a passing run is a theorem. Only model-checked are the
liveness properties (`CommandEnds` of three modules, `WalkEnds`, `RunReturns`, `EveryEditIsBuilt`,
`SignalEndsWatch`): the step from fairness needs ENABLED, which is out of the prover's reach. For
`CommandEnds` and `WalkEnds` the orders above show the other half, that a command or a walk which
goes on taking steps ends; that it can always take one is what TLC checks. `RunReturns` and the
properties of watch mode depend on what the server, the user and the scheduler do and have no such
order. Where a proof needs induction, it takes a least counterexample from the well-foundedness of
the naturals.

The assumptions are the named ASSUMEs of the modules: the shape of the constants and nothing else. Of
the hypotheses in theorems, `NoLockOnly` restricts the commands; the finiteness of files, compiler
parts and definitions says that they exist.

## 6. Where code and documentation disagree

Checked by a run that expects the violation:

1. `ensure --update` does not update a dependency that has a lock entry of an older commit
   (`ensure_update`; `src/docs/packages.md:62`).
2. A tag that was published after the shared cached copy was cloned cannot be installed: its
   definition is looked up in the old copy, nothing refreshes it, and every command of the project
   fails (`project_stuck`; `src/docs/packages.md:54`).
3. A complete and unchanged server directory is removed and copied again by every command, because
   the lock records the stated runtime type and is compared with the effective one
   (`runtime_reinstalled`; `runtime/ensure.go:19`).

Further promises that TLC refutes in the same models, with the configuration that shows it:

4. A constraint edited in `pawn.json` is not resolved freshly (`EnsureEdited.cfg`;
   `lockfile/resolver.go:53`).
5. `ensure --lock-only` locks the HEAD of the cached copy instead of the pinned tag
   (`EnsureLockOnly.cfg`; `pkgcontext/ensure_package.go:24-25`).
6. An interrupted run does not return while output is in flight (`RuntimeInterrupted.cfg`;
   `runtime/run_posix_test.go:131-132`).
7. Failed y_testing tests can be a success (`RuntimeVerdict.cfg`; `src/docs/testing.md:35`).
8. A dependency that cannot be cloned or read is reported only if it is the last one handled
   (`GraphMissed.cfg`; `pkgcontext/cache.go:35-36`).
9. A revision declared in the project loses against one declared by a dependency listed before it
   (`GraphDirect.cfg`; `src/docs/migrating-samp-to-openmp.md:37-39`).
10. `extract_ignore_patterns` do not protect files of plugins: `EnsurePlugins` does not pass them on
    (`PluginSettings.cfg`; `src/docs/plugin-resources.md:39` and `:134`).
11. The configuration recorded for a build without a name is "default", not the first one, which is
    built (`BuildRecorded.cfg`; `src/src/commands/package_build.go:97`,
    `package/pawnpackage/package.go:259-261`).
12. `run --watch` of a configuration with an output of its own restarts the server with the output
    of the package, which its builds do not write (`WatchOutput.cfg`; `src/docs/testing.md:13`).

Points 1 and 4 are the exceptions written into `SkippedOnlyForTheLock`, point 5 is why
`AskedIsInstalled` is checked without `--lock-only`. Also false, and therefore not claimed: that an
entry of a dependency of a dependency is never pruned (the prune reads the definitions at HEAD, the
walk those at the pinned revisions); that an install declares all its targets (it stops, with
success, at one that is there already); that a fork declared in `pawn.json` is what gets installed
(the copy of the other package is reused).

The models also show, in the exceptions their properties need: bundled binaries are taken from HEAD
of the cached repository, whatever release is locked; the plugin follows `pawn.json` where the
includes follow the lock; "latest" may be a cached release that another project downloaded; with a
`runtime_dir` the record of the files is read in one directory and written in another, so files of
an older version stay; a compiler or a build number that was cut short is used for good; `run` of a
configuration with an output of its own looks for the output of the package; a dependency whose
include files cannot be had is skipped with a warning, and `pawn.lock` names a release that was never
unpacked; with `--dir` the hash of a build is of a file in the current directory, or there is none; a
server that prints a line longer than 64 KiB makes `run` hang, and a compiler `build`; in
`run --watch` either ends the watch for good, also for a signal. The goroutine that reads the input
for a server outlives it, and the first input after a restart goes to the wrong one.

## 7. Not modelled

* Generation of `server.cfg` and `config.json` (`runtime/config*`): a pure conversion of settings to
  text, without state or an order of steps; what it yields is formatting.
* Project creation, templates and releases (`package/rook`): prompts, git commands and GitHub calls
  in one straight line, without recovery, and nothing a later command reads back.
* Container runs: they build the arguments of one container and delegate to the Docker daemon. The
  Windows variant of `platformRun`.
* Command line and global configuration: flags, and one read and one write of a JSON file.
* Dependencies by a local path or a URL scheme other than in the walk; branch and commit references
  in the graph (as revisions they behave like tags), the lists of plugins and include paths.
* Matching of resources to platforms and their deduplication; plugins by a local path; resources of
  several dependencies at once.
* Authentication and the SSH fall-back: they end in a clone that works or not.
* `EnsureScripts` (it only reads) and file permissions; Docker builds; wording, formatting and the
  parsing of definitions.
* A `.amx` that is copied while the compiler writes it; the error value `RunWatch` returns.
* Without a caller outside tests: `EnsureFromURL`, `EnsureFromLocal`, `HTTPResource`,
  `LocalResource`, `GitResource`, the cleaning of the resource manager's cache.

External are go-git, GitHub, the file system, the terminal, the compiler and the server: modelled by
what the code relies on.

## 8. Plan

What the project set out to model is there: the graph, the ensure of one and of several
dependencies, install and uninstall, resources, runtime installation, build, execution and watch
mode. What would add most next:

1. An abstract specification of a lock (a map from dependency to commit that only cleared, pruned or
   re-locked entries leave), implemented by EnsurePackage and by ProjectDependencies.
2. Orders like those of `CommandRunsOut` for RuntimeInstall and ProjectDependencies.
3. Local and URL-scheme dependencies in ProjectDependencies; two projects that ensure at the same
   time.
