------------------------------ MODULE PackageBuild -----------------------------
(***************************************************************************)
(* "sampctl build" and the build that "sampctl run" makes first: which     *)
(* build configuration is taken, the files written on the way (the include *)
(* file of constants, the build number, the compiler unpacked into the     *)
(* cache), the compiler process and the goroutine that reads its output,   *)
(* what is reported, what pawn.lock records and what the server then runs. *)
(*                                                                         *)
(* Texts of the source are model values; Quality says what the compiler    *)
(* thinks of each.                                                         *)
(***************************************************************************)
EXTENDS Naturals, Sequences

CONSTANTS Texts,       \* texts the source may have
          Quality,     \* [Texts -> {"clean", "warns", "errors", "fatal", "endless"}]
          Names,       \* names of "builds" in pawn.json, and names a user asks for
          First(_),    \* the first build of a list, given as a set
          Layouts,     \* definitions of packages to look at
          Requests,    \* arguments users give: subset of Options
          Parts,       \* files of the compiler that compilers.json names
          None,        \* no file, no record, no name
          Torn,        \* a file written in part
          Foreign,     \* a file of the same name in another directory
          MaxNumber,   \* bound: the highest build number
          MaxFaults    \* bound: crashes, interrupts, edits, weeks of a behaviour

(* pawn.json: the names of "builds", those with an output of their own,    *)
(* whether "build" is there, whether the problems go to a file, whether    *)
(* the compiler is at a path of the user's, whether the server runs in a    *)
(* runtime_dir of its own, and whether everything it names exists once.    *)
Layout == [builds : SUBSET Names, own : SUBSET Names, base : BOOLEAN, quiet : BOOLEAN,
           custom : BOOLEAN, local : BOOLEAN, sound : BOOLEAN]

ASSUME QualityAssumption ==
  Quality \in [Texts -> {"clean", "warns", "errors", "fatal", "endless"}]
ASSUME LayoutsAssumption == Layouts \subseteq Layout
ASSUME NamesAssumption   == /\ None \notin Names \cup Texts \cup {Torn}
                            /\ {"build", "preset"} \cap Names = {}
ASSUME FirstAssumption   == \A s \in (SUBSET Names) \ {{}} : First(s) \in s
ASSUME BoundsAssumption  == MaxNumber \in Nat \ {0} /\ MaxFaults \in Nat

Configs  == Names \cup {"build", "preset"}    \* "build" of pawn.json; the default
Programs == [text : Texts, config : Configs, defines : Configs]
Outputs  == {"package", "own"}
Amx      == Programs \cup {None, Torn}
Numbers  == 0..MaxNumber
Hashes   == Amx \cup {Foreign}
Records  == [config : Configs, hash : Hashes]
Options  == [name : Names \cup {None}, ensure : BOOLEAN, force : BOOLEAN, dry : BOOLEAN,
             numbered : BOOLEAN, elsewhere : BOOLEAN]   \* --dir, from another directory

ASSUME RequestsAssumption == Requests \subseteq Options
ASSUME ProgramsAssumption == None \notin Programs \cup {"ok", "failed"}

VARIABLES
  layout, text,  \* pawn.json and the source
  include,       \* sampctl_build_file.inc: the configuration whose constants it has
  deps,          \* whether dependencies/ has them all
  list,          \* compilers.json in the cache: None, "stale", "fresh"
  archive,       \* whether the compiler's release asset is in the cache
  toolchain,     \* the compiler unpacked: [Parts -> {None, Torn, "whole"}]
  amx,           \* the outputs on disk
  number,        \* the file --buildFile names
  staged,        \* the gamemode in the server's directory
  lock,          \* pawn.lock: the configuration and the hash of the output, if recorded
  command, options, pc, config, counted, result,
  todo,          \* parts still to unpack
  output,        \* lines the compiler has still to print
  reading,       \* whether the parser goroutine reads
  problems,      \* what the parser found
  faults,
  previous,      \* history: pawn.lock when the command started
  warned,        \* history: a warning was printed that pawn.lock or a hash has failed
  made,          \* history: what the compiler of this command works on
  excused        \* history: a disk, the network or a user gave cause to fail

projectVars == <<layout, text, deps>>
cacheVars   == <<list, archive, toolchain>>
processVars == <<output, reading, problems>>
historyVars == <<previous, warned>>
commandVars == <<command, options, config, counted, historyVars>>
vars == <<projectVars, include, cacheVars, amx, number, staged, lock, commandVars, pc,
          result, todo, processVars, faults, made, excused>>

Stages == {"idle", "prepare", "ensure", "number", "list", "compiler", "unpack", "includes",
           "prebuild", "start", "compile", "save", "postbuild", "verdict", "record",
           "stage", "runtime"}

(* Types; what a command goes on with after the compiler has ended is all  *)
(* that the compiler printed.                                              *)
TypeOK ==
  /\ layout \in Layouts /\ text \in Texts /\ deps \in BOOLEAN
  /\ include \in Configs \cup {None}
  /\ list \in {None, "stale", "fresh"} /\ archive \in BOOLEAN
  /\ toolchain \in [Parts -> {None, Torn, "whole"}]
  /\ amx \in [Outputs -> Amx] /\ staged \in Amx
  /\ number \in Numbers \cup {None, Torn}
  /\ lock \in Records \cup {None, Torn} /\ previous \in Records \cup {None, Torn}
  /\ warned \in BOOLEAN
  /\ command \in {"build", "run"} /\ options \in Options
  /\ pc \in Stages /\ config \in Configs /\ counted \in Numbers
  /\ result \in {None, "ok", "failed"}
  /\ todo \subseteq Parts
  /\ output \in Seq({"warning", "error", "fatal", "long"}) /\ reading \in BOOLEAN
  /\ problems \subseteq {"warning", "error", "fatal"}
  /\ faults \in 0..MaxFaults
  /\ made \in Programs \cup {None} /\ excused \in BOOLEAN
  /\ pc # "compile" => output = << >>

Init ==
  /\ layout \in Layouts /\ text \in Texts
  /\ deps \in BOOLEAN /\ list = None /\ archive = FALSE
  /\ toolchain = [p \in Parts |-> IF layout.custom THEN "whole" ELSE None]
  /\ include = None /\ amx = [o \in Outputs |-> None] /\ number = None /\ staged = None
  /\ lock = None /\ previous = None /\ warned = FALSE
  /\ command = "build" /\ pc = "idle" /\ config = "preset" /\ counted = 0
  /\ options = [name |-> None, ensure |-> FALSE, force |-> FALSE, dry |-> FALSE,
                numbered |-> FALSE, elsewhere |-> FALSE]
  /\ result = None /\ todo = {} /\ output = << >> /\ reading = TRUE /\ problems = {}
  /\ faults = 0 /\ made = None /\ excused = FALSE

--------------------------------------------------------------------------------
Goto(from, to) == pc = from /\ pc' = to

(* GetBuildConfig, selectConfig: without a name "build" of pawn.json, else *)
(* the first of "builds"; a name nobody knows gives "build" or the default.*)
GetBuildConfig(name) ==
  CASE name = None /\ layout.base                      -> "build"
    [] name = None /\ ~layout.base /\ layout.builds # {} -> First(layout.builds)
    [] name \in layout.builds                          -> name
    [] OTHER -> IF layout.base THEN "build" ELSE "preset"

OutputOf(c) == IF c \in layout.own THEN "own" ELSE "package"

(* The command returns.                                                    *)
End(verdict) ==
  /\ pc' = "idle" /\ result' = verdict
  /\ todo' = {} /\ output' = << >> /\ reading' = TRUE /\ problems' = {}

Fail(cause) ==
  /\ End("failed") /\ excused' = (excused \/ cause)
  /\ UNCHANGED <<projectVars, include, cacheVars, amx, number, staged, lock, commandVars,
                 faults, made>>

(* Faulty variant: an output that is there is always run.                  *)
MissingBuilds(c, o) == c = "build" \/ amx["package"] = None

(* RunPrepare builds if there is no output or --forceBuild is given.       *)
Builds(c, o) == c = "build" \/ amx["package"] = None \/ o.force

(* A pawn.lock that cannot be read leaves "build" without a resolver, and  *)
(* with a warning.                                                         *)
Begin(c, o) ==
  /\ pc = "idle"
  /\ c = "run" => ~o.dry
  /\ number \in Numbers /\ o.numbered => number < MaxNumber
  /\ command' = c /\ options' = o
  /\ pc' = IF Builds(c, o) THEN "prepare" ELSE "verdict"
  /\ result' = None /\ made' = None /\ excused' = FALSE
  /\ previous' = lock /\ warned' = (c = "build" /\ lock = Torn)
  /\ UNCHANGED <<projectVars, include, cacheVars, amx, number, staged, lock, config,
                 counted, todo, processVars, faults>>

(* buildPrepare, ensureBuildFile: the configuration and the include file   *)
(* of its constants, before the dependencies are looked at.                *)
Prepare ==
  /\ Goto("prepare", IF options.ensure THEN "ensure" ELSE "number")
  /\ config' = GetBuildConfig(options.name)
  /\ include' = config'
  /\ UNCHANGED <<projectVars, cacheVars, amx, number, staged, lock, command, options,
                 counted, historyVars, result, todo, processVars, faults, made, excused>>

PrepareFails == pc = "prepare" /\ ~layout.sound /\ Fail(FALSE)

EnsureDependencies ==
  /\ Goto("ensure", "number")
  /\ deps' = TRUE
  /\ UNCHANGED <<layout, text, include, cacheVars, amx, number, staged, lock, commandVars,
                 result, todo, processVars, faults, made, excused>>

EnsureFails == pc = "ensure" /\ Fail(TRUE)

(* readInt: a file that is not there is made; one that holds no number     *)
(* ends the build.                                                         *)
ReadNumber ==
  /\ pc = "number"
  /\ IF options.numbered /\ number = Torn THEN Fail(FALSE)
     ELSE /\ pc' = "list"
          /\ number'  = IF options.numbered /\ number = None THEN 0 ELSE number
          /\ counted' = IF options.numbered THEN number' ELSE 0
          /\ UNCHANGED <<projectVars, include, cacheVars, amx, staged, lock, command,
                         options, config, historyVars, result, todo, processVars, faults, made,
                         excused>>

(* Faulty variant: a list that cannot be renewed is not used.              *)
GetCompilerListNow ==
  /\ pc = "list"
  /\ \/ /\ layout.custom \/ list = "fresh"
        /\ pc' = IF layout.custom THEN "includes" ELSE "compiler"
        /\ UNCHANGED <<projectVars, include, cacheVars, amx, number, staged, lock,
                       commandVars, result, todo, processVars, faults, made, excused>>
     \/ ~layout.custom /\ list # "fresh" /\ Fail(FALSE)

(* GetCompilerList: a week old, it is renewed; if that fails, the old one  *)
(* will do.  resolveCompilerBinary takes a compiler at a path as it is.    *)
GetCompilerList ==
  /\ pc = "list"
  /\ \/ /\ layout.custom /\ pc' = "includes" /\ UNCHANGED list
     \/ /\ ~layout.custom /\ list = "fresh" /\ pc' = "compiler" /\ UNCHANGED list
     \/ /\ ~layout.custom /\ list # "fresh" /\ pc' = "compiler"
        /\ list' = "fresh" \/ (list' = list /\ list = "stale")
  /\ UNCHANGED <<projectVars, include, archive, toolchain, amx, number, staged, lock,
                 commandVars, result, todo, processVars, faults, made, excused>>

NoCompilerList == pc = "list" /\ ~layout.custom /\ list = None /\ Fail(TRUE)

(* GetCompilerPackage: what is unpacked is used if every file is there;    *)
(* else the asset in the cache is unpacked, else it is downloaded.         *)
GetCompilerPackage ==
  /\ pc = "compiler"
  /\ IF \A p \in Parts : toolchain[p] # None
     THEN pc' = "includes" /\ UNCHANGED <<archive, todo>>
     ELSE pc' = "unpack" /\ archive' = TRUE /\ todo' = Parts
  /\ UNCHANGED <<projectVars, include, list, toolchain, amx, number, staged, lock,
                 commandVars, result, processVars, faults, made, excused>>

NoCompilerPackage ==
  /\ pc = "compiler" /\ ~archive /\ (\E p \in Parts : toolchain[p] = None)
  /\ Fail(TRUE)

UnpackPart(p) ==
  /\ pc = "unpack" /\ p \in todo
  /\ toolchain' = [toolchain EXCEPT ![p] = "whole"]
  /\ todo' = todo \ {p}
  /\ pc' = IF todo' = {} THEN "includes" ELSE pc
  /\ UNCHANGED <<projectVars, include, list, archive, amx, number, staged, lock,
                 commandVars, result, processVars, faults, made, excused>>

(* prepareIOPaths, buildIncludeArgs: the input and every include path must *)
(* exist, and no two paths may have a file of the same name.  --dryRun     *)
(* stops here.                                                             *)
PrepareCommand ==
  /\ pc = "includes"
  /\ IF ~deps \/ ~layout.sound THEN Fail(FALSE)
     ELSE IF options.dry
     THEN End("ok") /\ UNCHANGED <<projectVars, include, cacheVars, amx, number, staged,
                                   lock, commandVars, faults, made, excused>>
     ELSE /\ pc' = "prebuild"
          /\ UNCHANGED <<projectVars, include, cacheVars, amx, number, staged, lock,
                         commandVars, result, todo, processVars, faults, made, excused>>

(* RunPreBuildCommands, RunPostBuildCommands: the first that fails ends    *)
(* the build.                                                              *)
RunCommands(from, to) ==
  /\ Goto(from, to)
  /\ UNCHANGED <<projectVars, include, cacheVars, amx, number, staged, lock, commandVars,
                 result, todo, processVars, faults, made, excused>>

RunCommandsFails == pc \in {"prebuild", "postbuild"} /\ Fail(TRUE)

(* What the compiler prints; nothing if the problems go to a file.         *)
Lines(q) == CASE q = "clean"   -> << >>
              [] q = "warns"   -> <<"warning">>
              [] q = "errors"  -> <<"warning", "error">>
              [] q = "fatal"   -> <<"warning", "fatal">>
              [] q = "endless" -> <<"warning", "long", "error">>

(* CompileWithCommand starts the compiler and the goroutine that reads.    *)
StartCompiler ==
  /\ pc = "start"
  /\ IF \E p \in Parts : toolchain[p] = Torn THEN Fail(FALSE)
     ELSE /\ pc' = "compile"
          /\ made' = [text |-> text, config |-> config, defines |-> include]
          /\ output' = IF layout.quiet THEN << >> ELSE Lines(Quality[text])
          /\ reading' = TRUE /\ problems' = {}
          /\ UNCHANGED <<projectVars, include, cacheVars, amx, number, staged, lock,
                         commandVars, result, todo, faults, excused>>

(* Faulty variant: the parser returns at a fatal problem.                  *)
ReadLineUntilFatal ==
  /\ pc = "compile" /\ output # << >> /\ reading
  /\ reading' = (Head(output) # "fatal")
  /\ output'  = IF Head(output) = "fatal" THEN output ELSE Tail(output)
  /\ problems' = problems \cup {Head(output)}
  /\ UNCHANGED <<projectVars, include, cacheVars, amx, number, staged, lock, commandVars,
                 pc, result, todo, faults, made, excused>>

(* compilerOutputParser.Run: the pipe has no room of its own, so a line is *)
(* printed when it is read.  At a line that does not fit its buffer the    *)
(* scanner gives up, the goroutine ends and nobody reads any more.         *)
ReadLine ==
  /\ pc = "compile" /\ output # << >> /\ reading
  /\ IF Head(output) = "long"
     THEN reading' = FALSE /\ UNCHANGED <<output, problems>>
     ELSE output' = Tail(output) /\ problems' = problems \cup {Head(output)} /\ UNCHANGED reading
  /\ UNCHANGED <<projectVars, include, cacheVars, amx, number, staged, lock, commandVars,
                 pc, result, todo, faults, made, excused>>

Compiles(q) == q \in {"clean", "warns"}

(* The compiler ends once all it printed was read; only a text without     *)
(* errors gives an output.  Exit status 1 is no error of the build.        *)
CompilerEnds ==
  /\ Goto("compile", "save") /\ output = << >>
  /\ amx' = IF Compiles(Quality[made.text]) THEN [amx EXCEPT ![OutputOf(config)] = made]
            ELSE amx
  /\ UNCHANGED <<projectVars, include, cacheVars, number, staged, lock, commandVars,
                 result, todo, processVars, faults, made, excused>>

(* writeBuildNumber, also after a compile with errors; that the file could *)
(* not be written is only printed.                                         *)
SaveNumber ==
  /\ Goto("save", "postbuild")
  /\ number' = IF options.numbered THEN counted + 1 ELSE number
  /\ UNCHANGED <<projectVars, include, cacheVars, amx, staged, lock, commandVars, result,
                 todo, processVars, faults, made, excused>>

SaveNumberFails ==
  /\ Goto("save", "postbuild") /\ options.numbered
  /\ faults < MaxFaults /\ faults' = faults + 1
  /\ number' \in {number, Torn}
  /\ UNCHANGED <<projectVars, include, cacheVars, amx, staged, lock, commandVars, result,
                 todo, processVars, made, excused>>

(* Faulty variant: IsValid, which looks for errors and not for fatal ones. *)
VerdictOnErrors ==
  /\ pc = "verdict"
  /\ IF "error" \in problems THEN Fail(FALSE)
     ELSE /\ pc' = IF command = "build" THEN "record" ELSE "stage"
          /\ UNCHANGED <<projectVars, include, cacheVars, amx, number, staged, lock,
                         commandVars, result, todo, processVars, faults, made, excused>>

(* packageBuild and RunPrepare on the problems of the build: nothing above *)
(* a warning may be among them.                                            *)
Verdict ==
  /\ pc = "verdict"
  /\ IF problems \cap {"error", "fatal"} # {} THEN Fail(FALSE)
     ELSE /\ pc' = CASE command = "build" -> "record"
                     [] command = "run" /\ layout.local -> "runtime"
                     [] OTHER -> "stage"
          /\ UNCHANGED <<projectVars, include, cacheVars, amx, number, staged, lock,
                         commandVars, result, todo, processVars, faults, made, excused>>

(* The hash of the package's output, which is looked for in the current    *)
(* directory and not in the project's.                                     *)
OutputHash == IF options.elsewhere THEN {None, Foreign} ELSE {amx["package"]}

(* Faulty variant: the name the user gave is forgotten.                    *)
RecordDefault ==
  /\ pc = "record"
  /\ \E h \in OutputHash : lock' = [config |-> GetBuildConfig("default"), hash |-> h]
  /\ End("ok")
  /\ UNCHANGED <<projectVars, include, cacheVars, amx, number, staged, commandVars, faults,
                 made, excused>>

(* RecordBuildToLockfile, SaveLockfile: the configuration is looked up     *)
(* once more, by then under the name "default" if none was given.  Nothing *)
(* is recorded without a resolver.                                         *)
Recorded(h) ==
  [config |-> GetBuildConfig(IF options.name = None THEN "default" ELSE options.name),
   hash   |-> h]

RecordBuild ==
  /\ pc = "record"
  /\ IF lock = Torn THEN UNCHANGED lock ELSE \E h \in OutputHash : lock' = Recorded(h)
  /\ End("ok")
  /\ UNCHANGED <<projectVars, include, cacheVars, amx, number, staged, commandVars, faults,
                 made, excused>>

(* An output that cannot be hashed, a pawn.lock that cannot be written or  *)
(* is written in part: a warning, and the build is successful.             *)
RecordFails ==
  /\ pc = "record" /\ lock # Torn
  /\ faults < MaxFaults /\ faults' = faults + 1
  /\ lock' \in {lock, Torn, Recorded(None)}
  /\ warned' = TRUE
  /\ End("ok")
  /\ UNCHANGED <<projectVars, include, cacheVars, amx, number, staged, command, options,
                 config, counted, previous, made, excused>>

(* prepareTemporaryRuntime, copyOutputToLocalRuntime: the package's output *)
(* is copied, before the runtime is ensured or after it; Run follows.      *)
StageOutput ==
  /\ pc = "stage"
  /\ IF amx["package"] = None THEN Fail(FALSE)
     ELSE /\ staged' = amx["package"]
          /\ IF layout.local THEN End("ok")
             ELSE pc' = "runtime" /\ UNCHANGED <<result, todo, processVars>>
          /\ UNCHANGED <<projectVars, include, cacheVars, amx, number, lock, commandVars,
                         faults, made, excused>>

EnsureRuntime ==
  /\ pc = "runtime"
  /\ IF layout.local THEN pc' = "stage" /\ UNCHANGED <<result, todo, processVars>>
     ELSE End("ok")
  /\ UNCHANGED <<projectVars, include, cacheVars, amx, number, staged, lock, commandVars,
                 faults, made, excused>>

EnsureRuntimeFails == pc = "runtime" /\ Fail(TRUE)

--------------------------------------------------------------------------------
Stuck == pc = "compile" /\ ~reading

(* sampctl is killed; what it was writing is torn.  "build" also writes    *)
(* pawn.lock, when it has ensured the runtime and when it records.         *)
Crash ==
  /\ pc # "idle" /\ faults < MaxFaults /\ faults' = faults + 1
  /\ \/ UNCHANGED <<toolchain, amx, number, lock>>
     \/ /\ pc = "unpack" /\ \E p \in todo : toolchain' = [toolchain EXCEPT ![p] = Torn]
        /\ UNCHANGED <<amx, number, lock>>
     \/ /\ pc = "compile" /\ amx' = [amx EXCEPT ![OutputOf(config)] = Torn]
        /\ UNCHANGED <<toolchain, number, lock>>
     \/ /\ pc = "save" /\ options.numbered /\ number' = Torn
        /\ UNCHANGED <<toolchain, amx, lock>>
     \/ /\ pc \in {"ensure", "record"} /\ command = "build" /\ lock' = Torn
        /\ UNCHANGED <<toolchain, amx, number>>
  /\ End(None)
  /\ UNCHANGED <<projectVars, include, list, archive, staged, commandVars, made, excused>>

(* An interrupt cancels the context: a child process is killed and the     *)
(* command fails, unless it waits for a pipe that nobody reads.            *)
Interrupt ==
  /\ pc \in {"ensure", "list", "compiler", "prebuild", "compile", "postbuild", "runtime"}
  /\ ~Stuck
  /\ faults < MaxFaults /\ faults' = faults + 1
  /\ End("failed") /\ excused' = TRUE
  /\ UNCHANGED <<projectVars, include, cacheVars, amx, number, staged, lock, commandVars,
                 made>>

(* What a user can do about a command that is stuck.                       *)
Kill ==
  /\ Stuck /\ End(None)
  /\ UNCHANGED <<projectVars, include, cacheVars, amx, number, staged, lock, commandVars,
                 faults, made, excused>>

EditSource(t) ==
  /\ t # text /\ faults < MaxFaults /\ faults' = faults + 1
  /\ text' = t
  /\ UNCHANGED <<layout, deps, include, cacheVars, amx, number, staged, lock, commandVars,
                 pc, result, todo, processVars, made, excused>>

WeekPasses ==
  /\ list = "fresh" /\ faults < MaxFaults /\ faults' = faults + 1
  /\ list' = "stale"
  /\ UNCHANGED <<projectVars, include, archive, toolchain, amx, number, staged, lock,
                 commandVars, pc, result, todo, processVars, made, excused>>

Step ==
  \/ Prepare \/ PrepareFails \/ EnsureDependencies \/ EnsureFails \/ ReadNumber
  \/ GetCompilerList \/ NoCompilerList \/ GetCompilerPackage \/ NoCompilerPackage
  \/ (\E p \in Parts : UnpackPart(p)) \/ PrepareCommand
  \/ RunCommands("prebuild", "start") \/ RunCommands("postbuild", "verdict")
  \/ RunCommandsFails \/ StartCompiler \/ ReadLine \/ CompilerEnds
  \/ SaveNumber \/ SaveNumberFails \/ Verdict \/ RecordBuild \/ RecordFails \/ StageOutput
  \/ EnsureRuntime \/ EnsureRuntimeFails

Next ==
  \/ Step \/ Crash \/ Interrupt \/ Kill \/ WeekPasses
  \/ \E t \in Texts : EditSource(t)
  \/ \E c \in {"build", "run"}, o \in Requests : Begin(c, o)

Spec == Init /\ [][Next]_vars /\ WF_vars(Step)
--------------------------------------------------------------------------------
(* A build that is reported successful has left, where its configuration   *)
(* puts it, the program made of a text without errors, with the constants  *)
(* of that configuration.  Where the problems go to a file of their own    *)
(* (the compiler's -e) nobody sees them, and this is not promised.         *)
SuccessIsTrue ==
  result = "ok" /\ command = "build" /\ ~options.dry /\ ~layout.quiet =>
    /\ made = [text |-> made.text, config |-> GetBuildConfig(options.name),
               defines |-> GetBuildConfig(options.name)]
    /\ Compiles(Quality[made.text])
    /\ amx[OutputOf(made.config)] = made

(* "run --forceBuild" runs the program that was just made, if the          *)
(* configuration has no output of its own.                                 *)
ForcedRunIsBuilt ==
  result = "ok" /\ command = "run" /\ options.force /\ ~layout.quiet
    /\ OutputOf(GetBuildConfig(options.name)) = "package" => staged = made

(* A build does not fail without a cause: a text with errors, missing or   *)
(* contradictory files, the network at a time when something had to be     *)
(* fetched, the user's own commands or interrupt, a "run" of a             *)
(* configuration with an output of its own; or, for good, a compiler or a  *)
(* build number that an earlier command left in part.                      *)
FailureHasACause ==
  result = "failed" =>
    \/ excused \/ ~layout.sound \/ ~deps \/ number = Torn
    \/ command = "run" /\ OutputOf(GetBuildConfig(options.name)) # "package"
    \/ \E p \in Parts : toolchain[p] = Torn
    \/ made # None /\ ~Compiles(Quality[made.text])

(* What a successful build leaves in pawn.lock is never one build's        *)
(* configuration with another one's output: it is the configuration and    *)
(* the hash of what was made, or, after a warning, what was there before,  *)
(* a file cut short or a record without a hash.  The exceptions: a build   *)
(* without a name that is recorded under one that means another, an output *)
(* of its own, and --dir, with which the hash may be of a file that is no  *)
(* output of this package.                                                 *)
LockedBuildIsTheOutput ==
  result = "ok" /\ command = "build" /\ ~options.dry /\ ~layout.quiet
    /\ OutputOf(made.config) = "package"
    /\ (options.name = None => GetBuildConfig("default") = GetBuildConfig(None)) =>
       \/ lock = [config |-> made.config, hash |-> made]
       \/ warned /\ lock \in {previous, Torn, [config |-> made.config, hash |-> None]}
       \/ options.elsewhere /\ \E h \in {None, Foreign} :
                                 lock = [config |-> made.config, hash |-> h]

(* GetBuildConfig: without a name it is the first build; so that is the    *)
(* one whose compiler pawn.lock records, if it is written.                 *)
RecordedConfigIsTheBuilt ==
  result = "ok" /\ command = "build" /\ ~options.dry /\ ~warned => lock.config = made.config

(* Every command ends, except at an output line longer than the parser's   *)
(* buffer: there not even an interrupt helps.                              *)
CommandEnds == pc # "idle" ~> pc = "idle" \/ (Stuck /\ Head(output) = "long")
================================================================================
