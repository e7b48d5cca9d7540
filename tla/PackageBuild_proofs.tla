--------------------------- MODULE PackageBuild_proofs -------------------------
(***************************************************************************)
(* For any texts, names, layouts and requests, and any number of faults: a *)
(* build that is reported successful has left the program of a text        *)
(* without errors, a forced run starts the program it has just made,       *)
(* pawn.lock records it, a command that fails has a cause, and none takes  *)
(* steps for ever.                                                         *)
(***************************************************************************)
EXTENDS PackageBuild, FiniteSetTheorems, TLAPS

LEMMA BoundFacts ==
  /\ MaxNumber \in Nat /\ 0 < MaxNumber /\ MaxFaults \in Nat
  /\ 0 \in Numbers /\ 0 \in 0..MaxFaults
  /\ \A n \in Numbers : n < MaxNumber => n + 1 \in Numbers
BY BoundsAssumption DEF BoundsAssumption, Numbers

LEMMA LayoutType ==
  ASSUME TypeOK
  PROVE  /\ layout.builds \in SUBSET Names /\ layout.base \in BOOLEAN
         /\ layout.quiet \in BOOLEAN /\ layout.local \in BOOLEAN /\ layout.sound \in BOOLEAN
BY LayoutsAssumption DEF TypeOK, LayoutsAssumption, Layout

LEMMA ConfigType ==
  ASSUME TypeOK, NEW n PROVE GetBuildConfig(n) \in Configs
<1>1. layout.builds # {} => First(layout.builds) \in Names
  BY LayoutType, FirstAssumption DEF FirstAssumption
<1> QED BY <1>1, LayoutType, NamesAssumption DEF NamesAssumption, GetBuildConfig, Configs

LEMMA OutputType == \A c : OutputOf(c) \in Outputs
BY DEF OutputOf, Outputs

LEMMA FaultType ==
  ASSUME TypeOK, faults < MaxFaults PROVE faults + 1 \in 0..MaxFaults
BY BoundFacts DEF TypeOK

LEMMA LinesType ==
  ASSUME NEW t \in Texts
  PROVE  Lines(Quality[t]) \in Seq({"warning", "error", "fatal", "long"})
<1> DEFINE L == {"warning", "error", "fatal", "long"}
<1>1. Quality[t] \in {"clean", "warns", "errors", "fatal", "endless"}
  BY QualityAssumption DEF QualityAssumption
<1>2. /\ << >> \in Seq(L) /\ <<"warning">> \in Seq(L) /\ <<"warning", "error">> \in Seq(L)
      /\ <<"warning", "fatal">> \in Seq(L) /\ <<"warning", "long", "error">> \in Seq(L)
  OBVIOUS
<1> QED BY <1>1, <1>2 DEF Lines

--------------------------------------------------------------------------------
(* The inductive invariant.  What a command works on is what the user asked*)
(* for; the problems the parser has found, with those still in the pipe,   *)
(* are those of the text that was compiled; and the output is the one made.*)
Before == {"ensure", "number", "list", "compiler", "unpack", "includes", "prebuild", "start"}
After  == {"save", "postbuild", "verdict", "record", "stage", "runtime"}
Bad    == {"error", "fatal"}
Asked  == GetBuildConfig(options.name)

ResultIsLast == pc # "idle" => result = None

CountIsBounded ==
  /\ pc \in {"prepare", "ensure", "number"} /\ options.numbered =>
       (number \in Numbers => number < MaxNumber)
  /\ pc \in (Before \ {"ensure", "number"}) \cup {"compile", "save"} /\ options.numbered =>
       counted < MaxNumber

CommandsHaveStages ==
  /\ pc = "record" => command = "build"
  /\ pc \in {"stage", "runtime"} => command = "run"
  /\ command = "run" => ~options.dry

ConfigIsAsked == pc \in Before => config = Asked /\ include = Asked

MadeIsAsked ==
  made # None =>
    /\ pc \in After \cup {"compile", "idle"}
    /\ config = Asked /\ made.config = Asked /\ made.defines = Asked

BuildsAreMade ==
  /\ pc \in {"compile", "save", "postbuild"} => made # None
  /\ pc \in After /\ (command = "build" \/ options.force) => made # None
  /\ pc \in After /\ made = None => amx["package"] # None

ProblemsAreReal ==
  /\ problems # {} => pc \in After \cup {"compile"}
  /\ problems \cap Bad # {} => made # None /\ ~Compiles(Quality[made.text])
  /\ \A i \in 1..Len(output) : output[i] \in Bad => ~Compiles(Quality[made.text])

ProblemsAreSeen ==
  made # None /\ ~layout.quiet /\ ~Compiles(Quality[made.text]) =>
    /\ pc = "compile" =>
         problems \cap Bad # {} \/ \E i \in 1..Len(output) : output[i] \in Bad
    /\ pc \in {"save", "postbuild", "verdict"} => problems \cap Bad # {}
    /\ pc \notin {"record", "stage", "runtime"}

LockIsRead ==
  pc # "idle" => previous = lock /\ (command = "build" /\ lock = Torn => warned)

OutputIsMade ==
  made # None /\ pc \in After /\ Compiles(Quality[made.text]) => amx[OutputOf(config)] = made

StagedIsOutput == pc = "runtime" /\ ~layout.local => staged = amx["package"] /\ staged # None

IInv == /\ TypeOK
        /\ ResultIsLast /\ CountIsBounded /\ CommandsHaveStages /\ ConfigIsAsked
        /\ MadeIsAsked /\ BuildsAreMade /\ ProblemsAreReal /\ ProblemsAreSeen
        /\ OutputIsMade /\ StagedIsOutput /\ LockIsRead
        /\ SuccessIsTrue /\ ForcedRunIsBuilt /\ LockedBuildIsTheOutput /\ FailureHasACause

LEMMA ResultsAreNot == None # "ok" /\ None # "failed"
BY ProgramsAssumption DEF ProgramsAssumption

(* The compiler prints a problem above a warning exactly for the texts     *)
(* that do not compile.                                                    *)
LEMMA LinesAreReal ==
  ASSUME NEW t \in Texts
  PROVE  (\E i \in 1..Len(Lines(Quality[t])) : Lines(Quality[t])[i] \in Bad)
           <=> ~Compiles(Quality[t])
<1>1. Quality[t] \in {"clean", "warns", "errors", "fatal", "endless"}
  BY QualityAssumption DEF QualityAssumption
<1>2. CASE Quality[t] = "clean"
  BY <1>2 DEF Lines, Compiles, Bad
<1>3. CASE Quality[t] = "warns"
  BY <1>3 DEF Lines, Compiles, Bad
<1>4. CASE Quality[t] \in {"errors", "fatal"}
  <2>1. Len(Lines(Quality[t])) = 2 /\ Lines(Quality[t])[2] \in Bad
    BY <1>4 DEF Lines, Bad
  <2> QED BY <1>4, <2>1 DEF Compiles
<1>5. CASE Quality[t] = "endless"
  <2>1. Len(Lines(Quality[t])) = 3 /\ Lines(Quality[t])[3] \in Bad
    BY <1>5 DEF Lines, Bad
  <2> QED BY <1>5, <2>1 DEF Compiles
<1> QED BY <1>1, <1>2, <1>3, <1>4, <1>5

LEMMA InitKeeps == Init => IInv
<1> SUFFICES ASSUME Init PROVE IInv
  OBVIOUS
<1>1. TypeOK
  <2>1. /\ layout \in Layouts /\ text \in Texts
        /\ include \in Configs \cup {None} /\ list \in {None, "stale", "fresh"}
        /\ toolchain \in [Parts -> {None, Torn, "whole"}]
        /\ amx \in [Outputs -> Amx] /\ staged \in Amx
        /\ number \in Numbers \cup {None, Torn} /\ lock = None /\ previous = None
    BY DEF Init, Amx
  <2>2. /\ deps \in BOOLEAN /\ archive \in BOOLEAN /\ reading \in BOOLEAN
        /\ excused \in BOOLEAN /\ warned \in BOOLEAN
    BY Zenon DEF Init
  <2>3. options \in Options
    BY DEF Init, Options
  <2>4. /\ command \in {"build", "run"} /\ pc \in Stages /\ config \in Configs
        /\ counted \in Numbers /\ result = None /\ todo \subseteq Parts
        /\ output \in Seq({"warning", "error", "fatal", "long"}) /\ output = << >>
        /\ problems \subseteq {"warning", "error", "fatal"} /\ faults \in 0..MaxFaults
        /\ made = None
    BY BoundFacts DEF Init, Stages, Configs
  <2> QED BY <2>1, <2>2, <2>3, <2>4 DEF TypeOK
<1>2. /\ ResultIsLast /\ CountIsBounded /\ CommandsHaveStages /\ ConfigIsAsked
      /\ MadeIsAsked /\ BuildsAreMade /\ ProblemsAreReal /\ ProblemsAreSeen
      /\ OutputIsMade /\ StagedIsOutput /\ LockIsRead
  BY DEF Init, LockIsRead, ResultIsLast, CountIsBounded, CommandsHaveStages, ConfigIsAsked,
         MadeIsAsked, BuildsAreMade, ProblemsAreReal, ProblemsAreSeen, OutputIsMade, StagedIsOutput,
         Before, After
<1>3. result = None
  BY DEF Init
<1>4. /\ SuccessIsTrue /\ ForcedRunIsBuilt /\ LockedBuildIsTheOutput /\ FailureHasACause
  BY <1>3, ResultsAreNot DEF SuccessIsTrue, ForcedRunIsBuilt, LockedBuildIsTheOutput,
     FailureHasACause
<1> QED BY <1>1, <1>2, <1>4 DEF IInv

LEMMA EndType ==
  ASSUME NEW v, End(v)
  PROVE  /\ pc' = "idle" /\ result' = v /\ todo' = {} /\ output' = << >>
         /\ reading' \in BOOLEAN /\ problems' = {}
BY DEF End

LEMMA FailType ==
  ASSUME TypeOK, NEW c \in BOOLEAN, Fail(c) PROVE TypeOK'
<1>1. /\ pc' = "idle" /\ result' = "failed" /\ todo' = {} /\ output' = << >>
      /\ reading' \in BOOLEAN /\ problems' = {}
  BY EndType DEF Fail
<1>2. excused' \in BOOLEAN
  BY DEF Fail, TypeOK
<1> QED BY <1>1, <1>2
        DEF Fail, TypeOK, Stages, projectVars, cacheVars, processVars, commandVars, historyVars

LEMMA NextTypeOK == IInv /\ [Next]_vars => TypeOK'
<1> SUFFICES ASSUME IInv, [Next]_vars PROVE TypeOK'
  OBVIOUS
<1> USE DEF IInv, Goto, projectVars, cacheVars, processVars, commandVars, historyVars
<1>1. CASE Prepare
  <2>1. config' \in Configs /\ include' \in Configs
    BY <1>1, ConfigType DEF Prepare
  <2> QED BY <1>1, <2>1 DEF Prepare, TypeOK, Stages
<1>2. CASE PrepareFails
  BY <1>2, FailType DEF PrepareFails
<1>3. CASE EnsureDependencies
  BY <1>3 DEF EnsureDependencies, TypeOK, Stages
<1>4. CASE EnsureFails
  BY <1>4, FailType DEF EnsureFails
<1>5. CASE ReadNumber
  <2>1. CASE options.numbered /\ number = Torn
    BY <1>5, <2>1, FailType DEF ReadNumber
  <2>2. CASE ~(options.numbered /\ number = Torn)
    <3>1. number' \in Numbers \cup {None, Torn} /\ counted' \in Numbers
      BY <1>5, <2>2, BoundFacts DEF ReadNumber, TypeOK
    <3>2. /\ pc = "number" /\ pc' = "list"
          /\ UNCHANGED <<projectVars, include, cacheVars, amx, staged, lock, command,
                         options, config, historyVars, result, todo, processVars, faults, made,
                         excused>>
      BY <1>5, <2>2 DEF ReadNumber
    <3> QED BY <3>1, <3>2 DEF TypeOK, Stages
  <2> QED BY <2>1, <2>2
<1>6. CASE GetCompilerList
  BY <1>6 DEF GetCompilerList, TypeOK, Stages
<1>7. CASE NoCompilerList
  BY <1>7, FailType DEF NoCompilerList
<1>8. CASE GetCompilerPackage
  <2>1. todo' \subseteq Parts /\ archive' \in BOOLEAN /\ pc' \in {"includes", "unpack"}
    BY <1>8 DEF GetCompilerPackage, TypeOK
  <2> QED BY <1>8, <2>1 DEF GetCompilerPackage, TypeOK, Stages
<1>9. CASE NoCompilerPackage
  BY <1>9, FailType DEF NoCompilerPackage
<1>10. ASSUME NEW p \in Parts, UnpackPart(p) PROVE TypeOK'
  <2>1. toolchain' \in [Parts -> {None, Torn, "whole"}] /\ todo' \subseteq Parts
    BY <1>10 DEF UnpackPart, TypeOK
  <2> QED BY <1>10, <2>1 DEF UnpackPart, TypeOK, Stages
<1>11. CASE PrepareCommand
  <2>1. CASE ~deps \/ ~layout.sound
    BY <1>11, <2>1, FailType DEF PrepareCommand
  <2>2. CASE ~(~deps \/ ~layout.sound) /\ options.dry
    <3>1. End("ok")
      BY <1>11, <2>2 DEF PrepareCommand
    <3>2. /\ pc' = "idle" /\ result' = "ok" /\ todo' = {} /\ output' = << >>
          /\ reading' \in BOOLEAN /\ problems' = {}
      BY <3>1, EndType
    <3> QED BY <1>11, <2>2, <3>2 DEF PrepareCommand, TypeOK, Stages
  <2>3. CASE ~(~deps \/ ~layout.sound) /\ ~options.dry
    <3>1. /\ pc = "includes" /\ pc' = "prebuild"
          /\ UNCHANGED <<projectVars, include, cacheVars, amx, number, staged, lock, commandVars,
                         result, todo, processVars, faults, made, excused>>
      BY <1>11, <2>3, Zenon DEF PrepareCommand
    <3> QED BY <3>1 DEF TypeOK, Stages
  <2> QED BY <2>1, <2>2, <2>3
<1>12. CASE RunCommands("prebuild", "start")
  BY <1>12 DEF RunCommands, TypeOK, Stages
<1>13. CASE RunCommands("postbuild", "verdict")
  BY <1>13 DEF RunCommands, TypeOK, Stages
<1>14. CASE RunCommandsFails
  BY <1>14, FailType DEF RunCommandsFails
<1>15. CASE StartCompiler
  <2>1. CASE \E p \in Parts : toolchain[p] = Torn
    BY <1>15, <2>1, FailType DEF StartCompiler
  <2>2. CASE ~(\E p \in Parts : toolchain[p] = Torn)
    <3>1. include \in Configs
      BY <1>15, ConfigType DEF StartCompiler, ConfigIsAsked, Before, Asked
    <3>2. made' \in Programs
      BY <1>15, <2>2, <3>1 DEF StartCompiler, TypeOK, Programs
    <3>3. output' \in Seq({"warning", "error", "fatal", "long"})
      BY <1>15, <2>2, LinesType DEF StartCompiler, TypeOK
    <3> QED BY <1>15, <2>2, <3>2, <3>3 DEF StartCompiler, TypeOK, Stages
  <2> QED BY <2>1, <2>2
<1>16. CASE ReadLine
  <2>1. /\ Head(output) \in {"warning", "error", "fatal", "long"}
        /\ Tail(output) \in Seq({"warning", "error", "fatal", "long"})
    BY <1>16 DEF ReadLine, TypeOK
  <2>2. /\ output' \in Seq({"warning", "error", "fatal", "long"}) /\ reading' \in BOOLEAN
        /\ problems' \subseteq {"warning", "error", "fatal"}
    BY <1>16, <2>1 DEF ReadLine, TypeOK
  <2> QED BY <1>16, <2>2 DEF ReadLine, TypeOK
<1>17. CASE CompilerEnds
  <2>1. amx' \in [Outputs -> Amx]
    BY <1>17, OutputType DEF CompilerEnds, TypeOK, Amx
  <2> QED BY <1>17, <2>1 DEF CompilerEnds, TypeOK, Stages
<1>18. CASE SaveNumber
  <2>1. number' \in Numbers \cup {None, Torn}
    BY <1>18, BoundFacts DEF SaveNumber, TypeOK, CountIsBounded
  <2> QED BY <1>18, <2>1 DEF SaveNumber, TypeOK, Stages
<1>19. CASE SaveNumberFails
  <2>1. faults' \in 0..MaxFaults
    BY <1>19, FaultType DEF SaveNumberFails
  <2> QED BY <1>19, <2>1 DEF SaveNumberFails, TypeOK, Stages
<1>20. CASE Verdict
  <2>1. CASE problems \cap Bad # {}
    BY <1>20, <2>1, FailType DEF Verdict, Bad
  <2>2. CASE problems \cap Bad = {}
    <3>1. pc' \in {"record", "runtime", "stage"}
      BY <1>20, <2>2, LayoutType DEF Verdict, Bad, TypeOK
    <3>2. UNCHANGED <<projectVars, include, cacheVars, amx, number, staged, lock,
                      commandVars, result, todo, processVars, faults, made, excused>>
      BY <1>20, <2>2 DEF Verdict, Bad
    <3>3. pc' # "compile" => output' = << >>
      BY <1>20, <3>2 DEF Verdict, TypeOK
    <3> QED BY <3>1, <3>2, <3>3 DEF TypeOK, Stages
  <2> QED BY <2>1, <2>2
<1>21. CASE RecordBuild
  <2>1. lock' \in Records \cup {None, Torn}
    <3>1. amx["package"] \in Amx
      BY DEF TypeOK, Outputs
    <3>2. \A h \in OutputHash : h \in Hashes
      BY <3>1 DEF OutputHash, Hashes, Amx
    <3>3. \A h \in Hashes : Recorded(h) \in Records
      BY ConfigType DEF Recorded, Records
    <3>4. CASE lock = Torn
      BY <1>21, <3>4 DEF RecordBuild
    <3>5. CASE lock # Torn
      <4>1. PICK h \in OutputHash : lock' = Recorded(h)
        BY <1>21, <3>5 DEF RecordBuild
      <4> QED BY <3>2, <3>3, <4>1
    <3> QED BY <3>4, <3>5
  <2>2. /\ pc' = "idle" /\ result' = "ok" /\ todo' = {} /\ output' = << >>
        /\ reading' \in BOOLEAN /\ problems' = {}
    BY <1>21, EndType DEF RecordBuild
  <2> QED BY <1>21, <2>1, <2>2 DEF RecordBuild, TypeOK, Stages
<1>22. CASE StageOutput
  <2>1. CASE amx["package"] = None
    BY <1>22, <2>1, FailType DEF StageOutput
  <2>2. CASE amx["package"] # None
    <3>1. staged' \in Amx
      BY <1>22, <2>2 DEF StageOutput, TypeOK, Outputs
    <3>2. CASE layout.local
      <4>1. /\ pc' = "idle" /\ result' = "ok" /\ todo' = {} /\ output' = << >>
            /\ reading' \in BOOLEAN /\ problems' = {}
        BY <1>22, <2>2, <3>2, EndType DEF StageOutput
      <4> QED BY <1>22, <2>2, <3>1, <4>1 DEF StageOutput, TypeOK, Stages
    <3>3. CASE ~layout.local
      <4>1. /\ pc = "stage" /\ pc' = "runtime"
            /\ UNCHANGED <<result, todo, processVars, projectVars, include, cacheVars, amx,
                           number, lock, commandVars, faults, made, excused>>
        BY <1>22, <2>2, <3>3 DEF StageOutput
      <4> QED BY <3>1, <4>1 DEF TypeOK, Stages
    <3> QED BY <3>2, <3>3
  <2> QED BY <2>1, <2>2
<1>23. CASE EnsureRuntime
  <2>1. CASE layout.local
    <3>1. pc' = "stage" /\ UNCHANGED <<result, todo, processVars>> /\ pc = "runtime"
      BY <1>23, <2>1 DEF EnsureRuntime
    <3>2. UNCHANGED <<projectVars, include, cacheVars, amx, number, staged, lock, commandVars,
                      faults, made, excused>>
      BY <1>23 DEF EnsureRuntime
    <3> QED BY <3>1, <3>2 DEF TypeOK, Stages
  <2>2. CASE ~layout.local
    <3>1. /\ pc' = "idle" /\ result' = "ok" /\ todo' = {} /\ output' = << >>
          /\ reading' \in BOOLEAN /\ problems' = {}
      BY <1>23, <2>2, EndType, LayoutType DEF EnsureRuntime
    <3> QED BY <1>23, <3>1 DEF EnsureRuntime, TypeOK, Stages
  <2> QED BY <2>1, <2>2
<1>24. CASE EnsureRuntimeFails
  BY <1>24, FailType DEF EnsureRuntimeFails
<1>25. CASE Crash
  <2>1. toolchain' \in [Parts -> {None, Torn, "whole"}]
    BY <1>25 DEF Crash, TypeOK
  <2>2. amx' \in [Outputs -> Amx]
    BY <1>25, OutputType DEF Crash, TypeOK, Amx
  <2>3. /\ number' \in Numbers \cup {None, Torn} /\ faults' \in 0..MaxFaults
        /\ lock' \in Records \cup {None, Torn}
    BY <1>25, FaultType DEF Crash, TypeOK
  <2>4. /\ pc' = "idle" /\ result' = None /\ todo' = {} /\ output' = << >>
        /\ reading' \in BOOLEAN /\ problems' = {}
    BY <1>25, EndType DEF Crash
  <2> QED BY <1>25, <2>1, <2>2, <2>3, <2>4 DEF Crash, TypeOK, Stages
<1>26. CASE Interrupt
  <2>1. /\ pc' = "idle" /\ result' = "failed" /\ todo' = {} /\ output' = << >>
        /\ reading' \in BOOLEAN /\ problems' = {}
    BY <1>26, EndType DEF Interrupt
  <2>2. faults' \in 0..MaxFaults /\ excused' \in BOOLEAN
    BY <1>26, FaultType DEF Interrupt
  <2> QED BY <1>26, <2>1, <2>2 DEF Interrupt, TypeOK, Stages
<1>27. CASE Kill
  <2>1. /\ pc' = "idle" /\ result' = None /\ todo' = {} /\ output' = << >>
        /\ reading' \in BOOLEAN /\ problems' = {}
    BY <1>27, EndType DEF Kill
  <2> QED BY <1>27, <2>1 DEF Kill, TypeOK, Stages
<1>28. CASE WeekPasses
  <2>1. faults' \in 0..MaxFaults
    BY <1>28, FaultType DEF WeekPasses
  <2> QED BY <1>28, <2>1 DEF WeekPasses, TypeOK
<1>29. ASSUME NEW t \in Texts, EditSource(t) PROVE TypeOK'
  <2>1. faults' \in 0..MaxFaults
    BY <1>29, FaultType DEF EditSource
  <2> QED BY <1>29, <2>1 DEF EditSource, TypeOK
<1>30. ASSUME NEW c \in {"build", "run"}, NEW o \in Requests, Begin(c, o) PROVE TypeOK'
  <2>1. o \in Options
    BY RequestsAssumption DEF RequestsAssumption
  <2>2. pc' \in {"prepare", "verdict"}
    BY <1>30 DEF Begin
  <2>3. excused' \in BOOLEAN
    BY <1>30 DEF Begin
  <2> QED BY <1>30, <2>1, <2>2, <2>3 DEF Begin, TypeOK, Stages
<1>31. CASE RecordFails
  <2>1. lock' \in Records \cup {None, Torn}
    <3>1. Recorded(None) \in Records
      BY ConfigType DEF Recorded, Records, Hashes, Amx
    <3> QED BY <1>31, <3>1 DEF RecordFails, TypeOK
  <2>2. /\ pc' = "idle" /\ result' = "ok" /\ todo' = {} /\ output' = << >>
        /\ reading' \in BOOLEAN /\ problems' = {}
    BY <1>31, EndType DEF RecordFails
  <2>3. faults' \in 0..MaxFaults /\ warned' \in BOOLEAN
    BY <1>31, FaultType DEF RecordFails
  <2> QED BY <1>31, <2>1, <2>2, <2>3 DEF RecordFails, TypeOK, Stages
<1>32. CASE UNCHANGED vars
  BY <1>32 DEF vars, TypeOK
<1> QED BY <1>1, <1>2, <1>3, <1>4, <1>5, <1>6, <1>7, <1>8, <1>9, <1>10, <1>11,
    <1>12, <1>13, <1>14, <1>15, <1>16, <1>17, <1>18, <1>19, <1>20, <1>21, <1>22,
    <1>23, <1>24, <1>25, <1>26, <1>27, <1>28, <1>29, <1>30, <1>31, <1>32 DEF Next, Step

(* What a command has read of pawn.lock is there until it writes it, at    *)
(* its end.                                                                *)
LEMMA NextLockIsRead == IInv /\ [Next]_vars => LockIsRead'
<1> SUFFICES ASSUME IInv, [Next]_vars, pc' # "idle"
             PROVE  previous' = lock' /\ (command' = "build" /\ lock' = Torn => warned')
  BY DEF LockIsRead
<1>1. CASE pc # "idle" /\ UNCHANGED <<lock, previous, warned, command>>
  BY <1>1 DEF IInv, LockIsRead
<1>2. ASSUME NEW c \in {"build", "run"}, NEW o \in Requests, Begin(c, o)
      PROVE  previous' = lock' /\ (command' = "build" /\ lock' = Torn => warned')
  BY <1>2 DEF Begin
<1>3. ASSUME NEW v, End(v) PROVE FALSE
  BY <1>3 DEF End
<1>4. CASE Crash \/ Interrupt \/ Kill
  BY <1>3, <1>4 DEF Crash, Interrupt, Kill
<1>5. CASE WeekPasses \/ (\E t \in Texts : EditSource(t)) \/ UNCHANGED vars
  BY <1>1, <1>5 DEF WeekPasses, EditSource, vars, commandVars, historyVars
<1>6. CASE Step
  <2>1. \A c : ~Fail(c)
    BY <1>3 DEF Fail
  <2>2. pc # "idle" /\ UNCHANGED <<lock, previous, warned, command>>
    BY <1>3, <1>6, <2>1 DEF Step, Prepare, PrepareFails, EnsureDependencies, EnsureFails,
       ReadNumber, GetCompilerList, NoCompilerList, GetCompilerPackage, NoCompilerPackage,
       UnpackPart, PrepareCommand, RunCommands, RunCommandsFails, StartCompiler, ReadLine,
       CompilerEnds, SaveNumber, SaveNumberFails, Verdict, RecordBuild, RecordFails,
       StageOutput, EnsureRuntime, EnsureRuntimeFails, Goto, commandVars, historyVars
  <2> QED BY <1>1, <2>2
<1> QED BY <1>2, <1>4, <1>5, <1>6 DEF Next

LEMMA NextKeeps == IInv /\ [Next]_vars => IInv'
<1> SUFFICES ASSUME IInv, [Next]_vars PROVE IInv'
  OBVIOUS
<1>0. TypeOK /\ TypeOK' /\ LockIsRead'
  BY NextTypeOK, NextLockIsRead DEF IInv
<1> USE <1>0 DEF IInv, Goto, projectVars, cacheVars, processVars, commandVars, historyVars,
                 Before, After
<1>1. CASE Prepare
  <2>1. /\ ResultIsLast' /\ CountIsBounded' /\ CommandsHaveStages'
    BY <1>1, ResultsAreNot DEF
      Prepare, ResultIsLast, CountIsBounded, CommandsHaveStages
  <2>2. /\ ConfigIsAsked' /\ MadeIsAsked' /\ BuildsAreMade'
    BY <1>1 DEF
      Prepare, ConfigIsAsked, MadeIsAsked, BuildsAreMade, Asked,
      GetBuildConfig
  <2>3. /\ ProblemsAreReal' /\ ProblemsAreSeen'
    BY <1>1 DEF
      Prepare, ProblemsAreReal, ProblemsAreSeen, Bad
  <2>4. /\ OutputIsMade' /\ StagedIsOutput'
    BY <1>1 DEF
      Prepare, OutputIsMade, StagedIsOutput, Asked, OutputOf
  <2>5. /\ SuccessIsTrue' /\ ForcedRunIsBuilt' /\ LockedBuildIsTheOutput'
    BY <1>1, ResultsAreNot DEF
      Prepare, SuccessIsTrue, ForcedRunIsBuilt, LockedBuildIsTheOutput, Asked,
      GetBuildConfig, OutputOf
  <2>6. /\ FailureHasACause'
    BY <1>1, ResultsAreNot DEF
      Prepare, FailureHasACause, Asked, GetBuildConfig, OutputOf
  <2> QED BY <2>1, <2>2, <2>3, <2>4, <2>5, <2>6
<1>2. CASE PrepareFails
  <2>1. /\ ResultIsLast' /\ CountIsBounded' /\ CommandsHaveStages'
    BY <1>2, ResultsAreNot DEF
      PrepareFails, Fail, End, ResultIsLast, CountIsBounded,
      CommandsHaveStages
  <2>2. /\ ConfigIsAsked' /\ MadeIsAsked' /\ BuildsAreMade'
    BY <1>2 DEF
      PrepareFails, Fail, End, ConfigIsAsked, MadeIsAsked, BuildsAreMade,
      Asked, GetBuildConfig
  <2>3. /\ ProblemsAreReal' /\ ProblemsAreSeen'
    BY <1>2 DEF
      PrepareFails, Fail, End, ProblemsAreReal, ProblemsAreSeen, Bad
  <2>4. /\ OutputIsMade' /\ StagedIsOutput'
    BY <1>2 DEF
      PrepareFails, Fail, End, OutputIsMade, StagedIsOutput, Asked, OutputOf
  <2>5. /\ SuccessIsTrue' /\ ForcedRunIsBuilt' /\ LockedBuildIsTheOutput'
    BY <1>2, ResultsAreNot DEF
      PrepareFails, Fail, End, SuccessIsTrue, ForcedRunIsBuilt,
      LockedBuildIsTheOutput, Asked, GetBuildConfig, OutputOf
  <2>6. /\ FailureHasACause'
    BY <1>2, ResultsAreNot DEF
      PrepareFails, Fail, End, FailureHasACause, Asked, GetBuildConfig,
      OutputOf
  <2> QED BY <2>1, <2>2, <2>3, <2>4, <2>5, <2>6
<1>3. CASE EnsureDependencies
  <2>1. /\ ResultIsLast' /\ CountIsBounded' /\ CommandsHaveStages'
    BY <1>3, ResultsAreNot DEF
      EnsureDependencies, ResultIsLast, CountIsBounded, CommandsHaveStages
  <2>2. /\ ConfigIsAsked' /\ MadeIsAsked' /\ BuildsAreMade'
    BY <1>3 DEF
      EnsureDependencies, ConfigIsAsked, MadeIsAsked, BuildsAreMade, Asked,
      GetBuildConfig
  <2>3. /\ ProblemsAreReal' /\ ProblemsAreSeen'
    BY <1>3 DEF
      EnsureDependencies, ProblemsAreReal, ProblemsAreSeen, Bad
  <2>4. /\ OutputIsMade' /\ StagedIsOutput'
    BY <1>3 DEF
      EnsureDependencies, OutputIsMade, StagedIsOutput, Asked, OutputOf
  <2>5. /\ SuccessIsTrue' /\ ForcedRunIsBuilt' /\ LockedBuildIsTheOutput'
    BY <1>3, ResultsAreNot DEF
      EnsureDependencies, SuccessIsTrue, ForcedRunIsBuilt,
      LockedBuildIsTheOutput, Asked, GetBuildConfig, OutputOf
  <2>6. FailureHasACause'
    <3>1. result' = None
      BY <1>3 DEF EnsureDependencies, ResultIsLast
    <3> QED BY <3>1, ResultsAreNot DEF FailureHasACause
  <2> QED BY <2>1, <2>2, <2>3, <2>4, <2>5, <2>6
<1>4. CASE EnsureFails
  <2>1. /\ ResultIsLast' /\ CountIsBounded' /\ CommandsHaveStages'
    BY <1>4, ResultsAreNot DEF
      EnsureFails, Fail, End, ResultIsLast, CountIsBounded, CommandsHaveStages
  <2>2. /\ ConfigIsAsked' /\ MadeIsAsked' /\ BuildsAreMade'
    BY <1>4 DEF
      EnsureFails, Fail, End, ConfigIsAsked, MadeIsAsked, BuildsAreMade,
      Asked, GetBuildConfig
  <2>3. /\ ProblemsAreReal' /\ ProblemsAreSeen'
    BY <1>4 DEF
      EnsureFails, Fail, End, ProblemsAreReal, ProblemsAreSeen, Bad
  <2>4. /\ OutputIsMade' /\ StagedIsOutput'
    BY <1>4 DEF
      EnsureFails, Fail, End, OutputIsMade, StagedIsOutput, Asked, OutputOf
  <2>5. /\ SuccessIsTrue' /\ ForcedRunIsBuilt' /\ LockedBuildIsTheOutput'
    BY <1>4, ResultsAreNot DEF
      EnsureFails, Fail, End, SuccessIsTrue, ForcedRunIsBuilt,
      LockedBuildIsTheOutput, Asked, GetBuildConfig, OutputOf
  <2>6. /\ FailureHasACause'
    BY <1>4, ResultsAreNot DEF
      EnsureFails, Fail, End, FailureHasACause, Asked, GetBuildConfig,
      OutputOf
  <2> QED BY <2>1, <2>2, <2>3, <2>4, <2>5, <2>6
<1>5. CASE ReadNumber
  <2>1. /\ ResultIsLast' /\ CommandsHaveStages'
    BY <1>5, ResultsAreNot DEF
      ReadNumber, Fail, End, ResultIsLast, CommandsHaveStages
  <2>2. CountIsBounded'
    <3>1. CASE options.numbered /\ number = Torn
      BY <1>5, <3>1 DEF ReadNumber, Fail, End, CountIsBounded
    <3>2. CASE options.numbered /\ number # Torn
      <4>1. counted' < MaxNumber
        BY <1>5, <3>2, BoundFacts DEF ReadNumber, CountIsBounded, TypeOK
      <4> QED BY <1>5, <3>2, <4>1 DEF ReadNumber, CountIsBounded
    <3>3. CASE ~options.numbered
      BY <1>5, <3>3 DEF ReadNumber, CountIsBounded
    <3> QED BY <3>1, <3>2, <3>3
  <2>3. /\ ConfigIsAsked' /\ MadeIsAsked' /\ BuildsAreMade'
    BY <1>5 DEF
      ReadNumber, Fail, End, ConfigIsAsked, MadeIsAsked, BuildsAreMade, Asked,
      GetBuildConfig
  <2>4. /\ ProblemsAreReal' /\ ProblemsAreSeen'
    BY <1>5 DEF
      ReadNumber, Fail, End, ProblemsAreReal, ProblemsAreSeen, Bad
  <2>5. /\ OutputIsMade' /\ StagedIsOutput'
    BY <1>5 DEF
      ReadNumber, Fail, End, OutputIsMade, StagedIsOutput, Asked, OutputOf
  <2>6. /\ SuccessIsTrue' /\ ForcedRunIsBuilt' /\ LockedBuildIsTheOutput'
    BY <1>5, ResultsAreNot DEF
      ReadNumber, Fail, End, SuccessIsTrue, ForcedRunIsBuilt,
      LockedBuildIsTheOutput, Asked, GetBuildConfig, OutputOf
  <2>7. /\ FailureHasACause'
    BY <1>5, ResultsAreNot DEF
      ReadNumber, Fail, End, FailureHasACause, Asked, GetBuildConfig, OutputOf
  <2> QED BY <2>1, <2>2, <2>3, <2>4, <2>5, <2>6, <2>7
<1>6. CASE GetCompilerList
  <2>1. /\ ResultIsLast' /\ CountIsBounded' /\ CommandsHaveStages'
    BY <1>6, ResultsAreNot DEF
      GetCompilerList, ResultIsLast, CountIsBounded, CommandsHaveStages
  <2>2. /\ ConfigIsAsked' /\ MadeIsAsked' /\ BuildsAreMade'
    BY <1>6 DEF
      GetCompilerList, ConfigIsAsked, MadeIsAsked, BuildsAreMade, Asked,
      GetBuildConfig
  <2>3. /\ ProblemsAreReal' /\ ProblemsAreSeen'
    BY <1>6 DEF
      GetCompilerList, ProblemsAreReal, ProblemsAreSeen, Bad
  <2>4. /\ OutputIsMade' /\ StagedIsOutput'
    BY <1>6 DEF
      GetCompilerList, OutputIsMade, StagedIsOutput, Asked, OutputOf
  <2>5. /\ SuccessIsTrue' /\ ForcedRunIsBuilt' /\ LockedBuildIsTheOutput'
    BY <1>6, ResultsAreNot DEF
      GetCompilerList, SuccessIsTrue, ForcedRunIsBuilt,
      LockedBuildIsTheOutput, Asked, GetBuildConfig, OutputOf
  <2>6. /\ FailureHasACause'
    BY <1>6, ResultsAreNot DEF
      GetCompilerList, FailureHasACause, Asked, GetBuildConfig, OutputOf
  <2> QED BY <2>1, <2>2, <2>3, <2>4, <2>5, <2>6
<1>7. CASE NoCompilerList
  <2>1. /\ ResultIsLast' /\ CountIsBounded' /\ CommandsHaveStages'
    BY <1>7, ResultsAreNot DEF
      NoCompilerList, Fail, End, ResultIsLast, CountIsBounded,
      CommandsHaveStages
  <2>2. /\ ConfigIsAsked' /\ MadeIsAsked' /\ BuildsAreMade'
    BY <1>7 DEF
      NoCompilerList, Fail, End, ConfigIsAsked, MadeIsAsked, BuildsAreMade,
      Asked, GetBuildConfig
  <2>3. /\ ProblemsAreReal' /\ ProblemsAreSeen'
    BY <1>7 DEF
      NoCompilerList, Fail, End, ProblemsAreReal, ProblemsAreSeen, Bad
  <2>4. /\ OutputIsMade' /\ StagedIsOutput'
    BY <1>7 DEF
      NoCompilerList, Fail, End, OutputIsMade, StagedIsOutput, Asked, OutputOf
  <2>5. /\ SuccessIsTrue' /\ ForcedRunIsBuilt' /\ LockedBuildIsTheOutput'
    BY <1>7, ResultsAreNot DEF
      NoCompilerList, Fail, End, SuccessIsTrue, ForcedRunIsBuilt,
      LockedBuildIsTheOutput, Asked, GetBuildConfig, OutputOf
  <2>6. /\ FailureHasACause'
    BY <1>7, ResultsAreNot DEF
      NoCompilerList, Fail, End, FailureHasACause, Asked, GetBuildConfig,
      OutputOf
  <2> QED BY <2>1, <2>2, <2>3, <2>4, <2>5, <2>6
<1>8. CASE GetCompilerPackage
  <2>1. /\ ResultIsLast' /\ CountIsBounded' /\ CommandsHaveStages'
    BY <1>8, ResultsAreNot DEF
      GetCompilerPackage, ResultIsLast, CountIsBounded, CommandsHaveStages
  <2>2. /\ ConfigIsAsked' /\ MadeIsAsked' /\ BuildsAreMade'
    BY <1>8 DEF
      GetCompilerPackage, ConfigIsAsked, MadeIsAsked, BuildsAreMade, Asked,
      GetBuildConfig
  <2>3. /\ ProblemsAreReal' /\ ProblemsAreSeen'
    BY <1>8 DEF
      GetCompilerPackage, ProblemsAreReal, ProblemsAreSeen, Bad
  <2>4. /\ OutputIsMade' /\ StagedIsOutput'
    BY <1>8 DEF
      GetCompilerPackage, OutputIsMade, StagedIsOutput, Asked, OutputOf
  <2>5. /\ SuccessIsTrue' /\ ForcedRunIsBuilt' /\ LockedBuildIsTheOutput'
    BY <1>8, ResultsAreNot DEF
      GetCompilerPackage, SuccessIsTrue, ForcedRunIsBuilt,
      LockedBuildIsTheOutput, Asked, GetBuildConfig, OutputOf
  <2>6. /\ FailureHasACause'
    BY <1>8, ResultsAreNot DEF
      GetCompilerPackage, FailureHasACause, Asked, GetBuildConfig, OutputOf
  <2> QED BY <2>1, <2>2, <2>3, <2>4, <2>5, <2>6
<1>9. CASE NoCompilerPackage
  <2>1. /\ ResultIsLast' /\ CountIsBounded' /\ CommandsHaveStages'
    BY <1>9, ResultsAreNot DEF
      NoCompilerPackage, Fail, End, ResultIsLast, CountIsBounded,
      CommandsHaveStages
  <2>2. /\ ConfigIsAsked' /\ MadeIsAsked' /\ BuildsAreMade'
    BY <1>9 DEF
      NoCompilerPackage, Fail, End, ConfigIsAsked, MadeIsAsked, BuildsAreMade,
      Asked, GetBuildConfig
  <2>3. /\ ProblemsAreReal' /\ ProblemsAreSeen'
    BY <1>9 DEF
      NoCompilerPackage, Fail, End, ProblemsAreReal, ProblemsAreSeen, Bad
  <2>4. /\ OutputIsMade' /\ StagedIsOutput'
    BY <1>9 DEF
      NoCompilerPackage, Fail, End, OutputIsMade, StagedIsOutput, Asked,
      OutputOf
  <2>5. /\ SuccessIsTrue' /\ ForcedRunIsBuilt' /\ LockedBuildIsTheOutput'
    BY <1>9, ResultsAreNot DEF
      NoCompilerPackage, Fail, End, SuccessIsTrue, ForcedRunIsBuilt,
      LockedBuildIsTheOutput, Asked, GetBuildConfig, OutputOf
  <2>6. /\ FailureHasACause'
    BY <1>9, ResultsAreNot DEF
      NoCompilerPackage, Fail, End, FailureHasACause, Asked, GetBuildConfig,
      OutputOf
  <2> QED BY <2>1, <2>2, <2>3, <2>4, <2>5, <2>6
<1>10. ASSUME NEW p \in Parts, UnpackPart(p) PROVE IInv'
  <2>1. /\ ResultIsLast' /\ CountIsBounded' /\ CommandsHaveStages'
    BY <1>10, ResultsAreNot DEF
      UnpackPart, ResultIsLast, CountIsBounded, CommandsHaveStages
  <2>2. /\ ConfigIsAsked' /\ MadeIsAsked' /\ BuildsAreMade'
    BY <1>10 DEF
      UnpackPart, ConfigIsAsked, MadeIsAsked, BuildsAreMade, Asked,
      GetBuildConfig
  <2>3. /\ ProblemsAreReal' /\ ProblemsAreSeen'
    BY <1>10 DEF
      UnpackPart, ProblemsAreReal, ProblemsAreSeen, Bad
  <2>4. /\ OutputIsMade' /\ StagedIsOutput'
    BY <1>10 DEF
      UnpackPart, OutputIsMade, StagedIsOutput, Asked, OutputOf
  <2>5. /\ SuccessIsTrue' /\ ForcedRunIsBuilt' /\ LockedBuildIsTheOutput'
    BY <1>10, ResultsAreNot DEF
      UnpackPart, SuccessIsTrue, ForcedRunIsBuilt, LockedBuildIsTheOutput,
      Asked, GetBuildConfig, OutputOf
  <2>6. FailureHasACause'
    <3>1. result' = None
      BY <1>10 DEF UnpackPart, ResultIsLast
    <3> QED BY <3>1, ResultsAreNot DEF FailureHasACause
  <2> QED BY <2>1, <2>2, <2>3, <2>4, <2>5, <2>6
<1>11. CASE PrepareCommand
  <2>1. /\ ResultIsLast' /\ CountIsBounded' /\ CommandsHaveStages'
    BY <1>11, ResultsAreNot DEF
      PrepareCommand, Fail, End, ResultIsLast, CountIsBounded,
      CommandsHaveStages
  <2>2. /\ ConfigIsAsked' /\ MadeIsAsked' /\ BuildsAreMade'
    BY <1>11 DEF
      PrepareCommand, Fail, End, ConfigIsAsked, MadeIsAsked, BuildsAreMade,
      Asked, GetBuildConfig
  <2>3. /\ ProblemsAreReal' /\ ProblemsAreSeen'
    BY <1>11 DEF
      PrepareCommand, Fail, End, ProblemsAreReal, ProblemsAreSeen, Bad
  <2>4. /\ OutputIsMade' /\ StagedIsOutput'
    BY <1>11 DEF
      PrepareCommand, Fail, End, OutputIsMade, StagedIsOutput, Asked, OutputOf
  <2>5. SuccessIsTrue'
    <3>1. result' = "ok" => command' = "build" /\ options'.dry
      BY <1>11, ResultsAreNot DEF PrepareCommand, Fail, End, ResultIsLast, CommandsHaveStages, TypeOK
    <3> QED BY <3>1 DEF SuccessIsTrue
  <2>6. ForcedRunIsBuilt'
    <3>1. result' = "ok" => command' = "build" /\ options'.dry
      BY <1>11, ResultsAreNot DEF PrepareCommand, Fail, End, ResultIsLast, CommandsHaveStages, TypeOK
    <3> QED BY <3>1 DEF ForcedRunIsBuilt
  <2>7. LockedBuildIsTheOutput'
    <3>1. result' = "ok" => command' = "build" /\ options'.dry
      BY <1>11, ResultsAreNot DEF PrepareCommand, Fail, End, ResultIsLast, CommandsHaveStages, TypeOK
    <3> QED BY <3>1 DEF LockedBuildIsTheOutput
  <2>8. /\ FailureHasACause'
    BY <1>11, ResultsAreNot DEF
      PrepareCommand, Fail, End, FailureHasACause, Asked, GetBuildConfig,
      OutputOf
  <2> QED BY <2>1, <2>2, <2>3, <2>4, <2>5, <2>6, <2>7, <2>8
<1>12. CASE RunCommands("prebuild", "start")
  <2>1. /\ ResultIsLast' /\ CountIsBounded' /\ CommandsHaveStages'
    BY <1>12, ResultsAreNot DEF
      RunCommands, ResultIsLast, CountIsBounded, CommandsHaveStages
  <2>2. /\ ConfigIsAsked' /\ MadeIsAsked' /\ BuildsAreMade'
    BY <1>12 DEF
      RunCommands, ConfigIsAsked, MadeIsAsked, BuildsAreMade, Asked,
      GetBuildConfig
  <2>3. /\ ProblemsAreReal' /\ ProblemsAreSeen'
    BY <1>12 DEF
      RunCommands, ProblemsAreReal, ProblemsAreSeen, Bad
  <2>4. /\ OutputIsMade' /\ StagedIsOutput'
    BY <1>12 DEF
      RunCommands, OutputIsMade, StagedIsOutput, Asked, OutputOf
  <2>5. /\ SuccessIsTrue' /\ ForcedRunIsBuilt' /\ LockedBuildIsTheOutput'
    BY <1>12, ResultsAreNot DEF
      RunCommands, SuccessIsTrue, ForcedRunIsBuilt, LockedBuildIsTheOutput,
      Asked, GetBuildConfig, OutputOf
  <2>6. /\ FailureHasACause'
    BY <1>12, ResultsAreNot DEF
      RunCommands, FailureHasACause, Asked, GetBuildConfig, OutputOf
  <2> QED BY <2>1, <2>2, <2>3, <2>4, <2>5, <2>6
<1>13. CASE RunCommands("postbuild", "verdict")
  <2>1. /\ ResultIsLast' /\ CountIsBounded' /\ CommandsHaveStages'
    BY <1>13, ResultsAreNot DEF
      RunCommands, ResultIsLast, CountIsBounded, CommandsHaveStages
  <2>2. /\ ConfigIsAsked' /\ MadeIsAsked' /\ BuildsAreMade'
    BY <1>13 DEF
      RunCommands, ConfigIsAsked, MadeIsAsked, BuildsAreMade, Asked,
      GetBuildConfig
  <2>3. /\ ProblemsAreReal' /\ ProblemsAreSeen'
    BY <1>13 DEF
      RunCommands, ProblemsAreReal, ProblemsAreSeen, Bad
  <2>4. /\ OutputIsMade' /\ StagedIsOutput'
    BY <1>13 DEF
      RunCommands, OutputIsMade, StagedIsOutput, Asked, OutputOf
  <2>5. /\ SuccessIsTrue' /\ ForcedRunIsBuilt' /\ LockedBuildIsTheOutput'
    BY <1>13, ResultsAreNot DEF
      RunCommands, SuccessIsTrue, ForcedRunIsBuilt, LockedBuildIsTheOutput,
      Asked, GetBuildConfig, OutputOf
  <2>6. /\ FailureHasACause'
    BY <1>13, ResultsAreNot DEF
      RunCommands, FailureHasACause, Asked, GetBuildConfig, OutputOf
  <2> QED BY <2>1, <2>2, <2>3, <2>4, <2>5, <2>6
<1>14. CASE RunCommandsFails
  <2>1. /\ ResultIsLast' /\ CountIsBounded' /\ CommandsHaveStages'
    BY <1>14, ResultsAreNot DEF
      RunCommandsFails, Fail, End, ResultIsLast, CountIsBounded,
      CommandsHaveStages
  <2>2. /\ ConfigIsAsked' /\ MadeIsAsked' /\ BuildsAreMade'
    BY <1>14 DEF
      RunCommandsFails, Fail, End, ConfigIsAsked, MadeIsAsked, BuildsAreMade,
      Asked, GetBuildConfig
  <2>3. /\ ProblemsAreReal' /\ ProblemsAreSeen'
    BY <1>14 DEF
      RunCommandsFails, Fail, End, ProblemsAreReal, ProblemsAreSeen, Bad
  <2>4. /\ OutputIsMade' /\ StagedIsOutput'
    BY <1>14 DEF
      RunCommandsFails, Fail, End, OutputIsMade, StagedIsOutput, Asked,
      OutputOf
  <2>5. /\ SuccessIsTrue' /\ ForcedRunIsBuilt' /\ LockedBuildIsTheOutput'
    BY <1>14, ResultsAreNot DEF
      RunCommandsFails, Fail, End, SuccessIsTrue, ForcedRunIsBuilt,
      LockedBuildIsTheOutput, Asked, GetBuildConfig, OutputOf
  <2>6. /\ FailureHasACause'
    BY <1>14, ResultsAreNot DEF
      RunCommandsFails, Fail, End, FailureHasACause, Asked, GetBuildConfig,
      OutputOf
  <2> QED BY <2>1, <2>2, <2>3, <2>4, <2>5, <2>6
<1>15. CASE StartCompiler
  <2>1. /\ ResultIsLast' /\ CountIsBounded' /\ CommandsHaveStages'
    BY <1>15, ResultsAreNot DEF
      StartCompiler, Fail, End, ResultIsLast, CountIsBounded,
      CommandsHaveStages
  <2>2. ConfigIsAsked'
    <3>1. CASE \E p \in Parts : toolchain[p] = Torn
      BY <1>15, <3>1 DEF StartCompiler, Fail, End, ConfigIsAsked
    <3>2. CASE ~(\E p \in Parts : toolchain[p] = Torn)
      BY <1>15, <3>2 DEF StartCompiler, ConfigIsAsked
    <3> QED BY <3>1, <3>2
  <2>3. MadeIsAsked'
    <3>1. CASE \E p \in Parts : toolchain[p] = Torn
      BY <1>15, <3>1 DEF StartCompiler, Fail, End, MadeIsAsked, Asked, GetBuildConfig
    <3>2. CASE ~(\E p \in Parts : toolchain[p] = Torn)
      <4>1. Asked' = Asked /\ config = Asked /\ include = Asked /\ config' = config
        BY <1>15, <3>2 DEF StartCompiler, ConfigIsAsked, Asked, GetBuildConfig
      <4>2. made' = [text |-> text, config |-> config, defines |-> include] /\ pc' = "compile"
        BY <1>15, <3>2 DEF StartCompiler
      <4> QED BY <4>1, <4>2 DEF MadeIsAsked
    <3> QED BY <3>1, <3>2
  <2>4. BuildsAreMade'
    <3>1. CASE \E p \in Parts : toolchain[p] = Torn
      BY <1>15, <3>1 DEF StartCompiler, Fail, End, BuildsAreMade
    <3>2. CASE ~(\E p \in Parts : toolchain[p] = Torn)
      <4>1. made' \in Programs
        BY <1>15, <3>2, ConfigType DEF StartCompiler, ConfigIsAsked, Asked, TypeOK, Programs
      <4>2. pc' = "compile"
        BY <1>15, <3>2 DEF StartCompiler
      <4> QED BY <4>1, <4>2, ProgramsAssumption DEF ProgramsAssumption, BuildsAreMade
    <3> QED BY <3>1, <3>2
  <2>5. ProblemsAreReal'
    <3>1. CASE \E p \in Parts : toolchain[p] = Torn
      BY <1>15, <3>1 DEF StartCompiler, Fail, End, ProblemsAreReal, Bad
    <3>2. CASE ~(\E p \in Parts : toolchain[p] = Torn)
      <4>1. /\ pc' = "compile" /\ problems' = {} /\ made'.text = text /\ text \in Texts
            /\ output' = IF layout.quiet THEN << >> ELSE Lines(Quality[text])
        BY <1>15, <3>2 DEF StartCompiler, TypeOK
      <4>2. ASSUME NEW i \in 1..Len(output'), output'[i] \in Bad
            PROVE  ~Compiles(Quality[text])
        BY <4>1, <4>2, LayoutType, LinesAreReal
      <4> QED BY <4>1, <4>2 DEF ProblemsAreReal, Bad
    <3> QED BY <3>1, <3>2
  <2>6. ProblemsAreSeen'
    <3>1. CASE \E p \in Parts : toolchain[p] = Torn
      BY <1>15, <3>1 DEF StartCompiler, Fail, End, ProblemsAreSeen, Bad
    <3>2. CASE ~(\E p \in Parts : toolchain[p] = Torn)
      <4>1. /\ pc' = "compile" /\ made'.text = text /\ text \in Texts /\ layout' = layout
            /\ ~layout.quiet => output' = Lines(Quality[text])
        BY <1>15, <3>2 DEF StartCompiler, TypeOK
      <4>2. ~layout.quiet /\ ~Compiles(Quality[text]) =>
              \E i \in 1..Len(output') : output'[i] \in Bad
        BY <4>1, LinesAreReal
      <4> QED BY <4>1, <4>2 DEF ProblemsAreSeen
    <3> QED BY <3>1, <3>2
  <2>7. /\ StagedIsOutput'
    BY <1>15 DEF
      StartCompiler, Fail, End, StagedIsOutput, Asked, OutputOf
  <2>8. OutputIsMade'
    <3>1. CASE \E p \in Parts : toolchain[p] = Torn
      BY <1>15, <3>1 DEF StartCompiler, Fail, End, OutputIsMade
    <3>2. CASE ~(\E p \in Parts : toolchain[p] = Torn)
      BY <1>15, <3>2 DEF StartCompiler, OutputIsMade
    <3> QED BY <3>1, <3>2
  <2>9. SuccessIsTrue'
    <3>1. result' # "ok"
      BY <1>15, ResultsAreNot DEF StartCompiler, Fail, End, ResultIsLast
    <3> QED BY <3>1 DEF SuccessIsTrue
  <2>10. ForcedRunIsBuilt'
    <3>1. result' # "ok"
      BY <1>15, ResultsAreNot DEF StartCompiler, Fail, End, ResultIsLast
    <3> QED BY <3>1 DEF ForcedRunIsBuilt
  <2>11. LockedBuildIsTheOutput'
    <3>1. result' # "ok"
      BY <1>15, ResultsAreNot DEF StartCompiler, Fail, End, ResultIsLast
    <3> QED BY <3>1 DEF LockedBuildIsTheOutput
  <2>12. FailureHasACause'
    <3>1. CASE \E p \in Parts : toolchain[p] = Torn
      BY <1>15, <3>1 DEF StartCompiler, Fail, FailureHasACause
    <3>2. CASE ~(\E p \in Parts : toolchain[p] = Torn)
      BY <1>15, <3>2, ResultsAreNot DEF StartCompiler, ResultIsLast, FailureHasACause
    <3> QED BY <3>1, <3>2
  <2> QED BY <2>1, <2>2, <2>3, <2>4, <2>5, <2>6, <2>7, <2>8, <2>9, <2>10, <2>11, <2>12
<1>16. CASE ReadLine
  <2>1. /\ ResultIsLast' /\ CountIsBounded' /\ CommandsHaveStages'
    BY <1>16, ResultsAreNot DEF
      ReadLine, ResultIsLast, CountIsBounded, CommandsHaveStages
  <2>2. /\ ConfigIsAsked' /\ MadeIsAsked' /\ BuildsAreMade'
    BY <1>16 DEF
      ReadLine, ConfigIsAsked, MadeIsAsked, BuildsAreMade, Asked,
      GetBuildConfig
  <2>3. ProblemsAreReal'
    <3>1. CASE Head(output) = "long"
      BY <1>16, <3>1 DEF ReadLine, ProblemsAreReal
    <3>2. CASE Head(output) # "long"
      <4>1. /\ output \in Seq({"warning", "error", "fatal", "long"}) /\ output # << >>
            /\ output' = Tail(output) /\ problems' = problems \cup {Head(output)}
            /\ pc = "compile" /\ pc' = pc /\ made' = made
        BY <1>16, <3>2 DEF ReadLine, TypeOK
      <4>2. Head(output) \in Bad => ~Compiles(Quality[made.text])
        BY <4>1 DEF ProblemsAreReal
      <4>3. \A i \in 1..Len(output') : i + 1 \in 1..Len(output) /\ output'[i] = output[i + 1]
        BY <4>1
      <4> QED BY <4>1, <4>2, <4>3 DEF ProblemsAreReal, BuildsAreMade
    <3> QED BY <3>1, <3>2
  <2>4. ProblemsAreSeen'
    <3>1. CASE Head(output) = "long"
      BY <1>16, <3>1 DEF ReadLine, ProblemsAreSeen
    <3>2. CASE Head(output) # "long"
      <4>1. /\ output \in Seq({"warning", "error", "fatal", "long"}) /\ output # << >>
            /\ output' = Tail(output) /\ problems' = problems \cup {Head(output)}
            /\ pc = "compile" /\ pc' = pc /\ made' = made /\ layout' = layout
        BY <1>16, <3>2 DEF ReadLine, TypeOK
      <4>2. \A i \in 1..Len(output) :
              IF i = 1 THEN output[i] = Head(output)
              ELSE i - 1 \in 1..Len(output') /\ output'[i - 1] = output[i]
        BY <4>1
      <4> QED BY <4>1, <4>2 DEF ProblemsAreSeen
    <3> QED BY <3>1, <3>2
  <2>5. /\ OutputIsMade' /\ StagedIsOutput'
    BY <1>16 DEF
      ReadLine, OutputIsMade, StagedIsOutput, Asked, OutputOf
  <2>6. /\ SuccessIsTrue' /\ ForcedRunIsBuilt' /\ LockedBuildIsTheOutput'
    BY <1>16, ResultsAreNot DEF
      ReadLine, SuccessIsTrue, ForcedRunIsBuilt, LockedBuildIsTheOutput,
      Asked, GetBuildConfig, OutputOf
  <2>7. /\ FailureHasACause'
    BY <1>16, ResultsAreNot DEF
      ReadLine, FailureHasACause, Asked, GetBuildConfig, OutputOf
  <2> QED BY <2>1, <2>2, <2>3, <2>4, <2>5, <2>6, <2>7
<1>17. CASE CompilerEnds
  <2>1. /\ ResultIsLast' /\ CountIsBounded' /\ CommandsHaveStages'
    BY <1>17, ResultsAreNot DEF
      CompilerEnds, ResultIsLast, CountIsBounded, CommandsHaveStages
  <2>2. /\ ConfigIsAsked' /\ MadeIsAsked' /\ BuildsAreMade'
    BY <1>17 DEF
      CompilerEnds, ConfigIsAsked, MadeIsAsked, BuildsAreMade, Asked,
      GetBuildConfig
  <2>3. /\ ProblemsAreReal'
    BY <1>17 DEF
      CompilerEnds, ProblemsAreReal, Bad
  <2>4. ProblemsAreSeen'
    BY <1>17 DEF CompilerEnds, ProblemsAreSeen, Bad
  <2>5. OutputIsMade'
    <3>1. amx \in [Outputs -> Amx] /\ OutputOf(config) \in Outputs
      BY OutputType DEF TypeOK
    <3>2. Compiles(Quality[made.text]) => amx'[OutputOf(config)] = made
      BY <1>17, <3>1 DEF CompilerEnds
    <3> QED BY <1>17, <3>2 DEF CompilerEnds, OutputIsMade, OutputOf
  <2>6. StagedIsOutput'
    BY <1>17 DEF CompilerEnds, StagedIsOutput
  <2>7. /\ SuccessIsTrue' /\ ForcedRunIsBuilt' /\ LockedBuildIsTheOutput'
    BY <1>17, ResultsAreNot DEF
      CompilerEnds, SuccessIsTrue, ForcedRunIsBuilt, LockedBuildIsTheOutput,
      Asked, GetBuildConfig, OutputOf
  <2>8. /\ FailureHasACause'
    BY <1>17, ResultsAreNot DEF
      CompilerEnds, FailureHasACause, Asked, GetBuildConfig, OutputOf
  <2> QED BY <2>1, <2>2, <2>3, <2>4, <2>5, <2>6, <2>7, <2>8
<1>18. CASE SaveNumber
  <2>1. /\ ResultIsLast' /\ CountIsBounded' /\ CommandsHaveStages'
    BY <1>18, ResultsAreNot DEF
      SaveNumber, ResultIsLast, CountIsBounded, CommandsHaveStages
  <2>2. /\ ConfigIsAsked' /\ MadeIsAsked' /\ BuildsAreMade'
    BY <1>18 DEF
      SaveNumber, ConfigIsAsked, MadeIsAsked, BuildsAreMade, Asked,
      GetBuildConfig
  <2>3. /\ ProblemsAreReal' /\ ProblemsAreSeen'
    BY <1>18 DEF
      SaveNumber, ProblemsAreReal, ProblemsAreSeen, Bad
  <2>4. /\ OutputIsMade' /\ StagedIsOutput'
    BY <1>18 DEF
      SaveNumber, OutputIsMade, StagedIsOutput, Asked, OutputOf
  <2>5. /\ SuccessIsTrue' /\ ForcedRunIsBuilt' /\ LockedBuildIsTheOutput'
    BY <1>18, ResultsAreNot DEF
      SaveNumber, SuccessIsTrue, ForcedRunIsBuilt, LockedBuildIsTheOutput,
      Asked, GetBuildConfig, OutputOf
  <2>6. FailureHasACause'
    <3>1. result' = None
      BY <1>18 DEF SaveNumber, ResultIsLast
    <3> QED BY <3>1, ResultsAreNot DEF FailureHasACause
  <2> QED BY <2>1, <2>2, <2>3, <2>4, <2>5, <2>6
<1>19. CASE SaveNumberFails
  <2>1. /\ ResultIsLast' /\ CountIsBounded' /\ CommandsHaveStages'
    BY <1>19, ResultsAreNot DEF
      SaveNumberFails, ResultIsLast, CountIsBounded, CommandsHaveStages
  <2>2. /\ ConfigIsAsked' /\ MadeIsAsked' /\ BuildsAreMade'
    BY <1>19 DEF
      SaveNumberFails, ConfigIsAsked, MadeIsAsked, BuildsAreMade, Asked,
      GetBuildConfig
  <2>3. /\ ProblemsAreReal' /\ ProblemsAreSeen'
    BY <1>19 DEF
      SaveNumberFails, ProblemsAreReal, ProblemsAreSeen, Bad
  <2>4. /\ OutputIsMade' /\ StagedIsOutput'
    BY <1>19 DEF
      SaveNumberFails, OutputIsMade, StagedIsOutput, Asked, OutputOf
  <2>5. /\ SuccessIsTrue' /\ ForcedRunIsBuilt' /\ LockedBuildIsTheOutput'
    BY <1>19, ResultsAreNot DEF
      SaveNumberFails, SuccessIsTrue, ForcedRunIsBuilt,
      LockedBuildIsTheOutput, Asked, GetBuildConfig, OutputOf
  <2>6. /\ FailureHasACause'
    BY <1>19, ResultsAreNot DEF
      SaveNumberFails, FailureHasACause, Asked, GetBuildConfig, OutputOf
  <2> QED BY <2>1, <2>2, <2>3, <2>4, <2>5, <2>6
<1>20. CASE Verdict
  <2>1. ResultIsLast'
    BY <1>20 DEF Verdict, Fail, End, ResultIsLast
  <2>2. CountIsBounded'
    BY <1>20, LayoutType DEF Verdict, Fail, End, CountIsBounded, TypeOK
  <2>3. CommandsHaveStages'
    BY <1>20, LayoutType DEF Verdict, Fail, End, CommandsHaveStages, TypeOK
  <2>4. /\ ConfigIsAsked' /\ MadeIsAsked' /\ BuildsAreMade'
    BY <1>20 DEF
      Verdict, Fail, End, ConfigIsAsked, MadeIsAsked, BuildsAreMade, Asked,
      GetBuildConfig
  <2>5. /\ ProblemsAreReal' /\ ProblemsAreSeen'
    BY <1>20 DEF
      Verdict, Fail, End, ProblemsAreReal, ProblemsAreSeen, Bad
  <2>6. /\ OutputIsMade' /\ StagedIsOutput'
    BY <1>20 DEF
      Verdict, Fail, End, OutputIsMade, StagedIsOutput, Asked, OutputOf
  <2>7. /\ SuccessIsTrue' /\ ForcedRunIsBuilt' /\ LockedBuildIsTheOutput'
    BY <1>20, ResultsAreNot DEF
      Verdict, Fail, End, SuccessIsTrue, ForcedRunIsBuilt,
      LockedBuildIsTheOutput, Asked, GetBuildConfig, OutputOf
  <2>8. FailureHasACause'
    <3>1. CASE problems \cap Bad # {}
      BY <1>20, <3>1 DEF Verdict, Fail, ProblemsAreReal, FailureHasACause
    <3>2. CASE problems \cap Bad = {}
      <4>1. result' = None
        BY <1>20, <3>2 DEF Verdict, ResultIsLast, Bad
      <4> QED BY <4>1, ResultsAreNot DEF FailureHasACause
    <3> QED BY <3>1, <3>2
  <2> QED BY <2>1, <2>2, <2>3, <2>4, <2>5, <2>6, <2>7, <2>8
<1>21. CASE RecordBuild
  <2>1. /\ ResultIsLast' /\ CountIsBounded' /\ CommandsHaveStages'
    BY <1>21, ResultsAreNot DEF
      RecordBuild, End, ResultIsLast, CountIsBounded, CommandsHaveStages
  <2>2. /\ ConfigIsAsked' /\ MadeIsAsked' /\ BuildsAreMade'
    BY <1>21 DEF
      RecordBuild, End, ConfigIsAsked, MadeIsAsked, BuildsAreMade, Asked,
      GetBuildConfig
  <2>3. /\ ProblemsAreReal' /\ ProblemsAreSeen'
    BY <1>21 DEF
      RecordBuild, End, ProblemsAreReal, ProblemsAreSeen, Bad
  <2>4. /\ OutputIsMade' /\ StagedIsOutput'
    BY <1>21 DEF
      RecordBuild, End, OutputIsMade, StagedIsOutput, Asked, OutputOf
  <2>5. SuccessIsTrue'
    <3>1. SUFFICES ASSUME ~layout.quiet
                   PROVE  /\ made = [text |-> made.text, config |-> Asked, defines |-> Asked]
                          /\ Compiles(Quality[made.text])
                          /\ amx[OutputOf(made.config)] = made
      BY <1>21 DEF RecordBuild, SuccessIsTrue, Asked, GetBuildConfig, OutputOf
    <3>2. made \in Programs /\ config = Asked /\ made.config = Asked /\ made.defines = Asked
      BY <1>21, <3>1 DEF RecordBuild, BuildsAreMade, MadeIsAsked, CommandsHaveStages, TypeOK
    <3>3. Compiles(Quality[made.text])
      BY <1>21, <3>1, <3>2, ProgramsAssumption
         DEF RecordBuild, ProblemsAreSeen, ProgramsAssumption
    <3>4. amx[OutputOf(made.config)] = made
      BY <1>21, <3>2, <3>3, ProgramsAssumption
         DEF RecordBuild, OutputIsMade, ProgramsAssumption
    <3> QED BY <3>2, <3>3, <3>4 DEF Programs
  <2>6. ForcedRunIsBuilt'
    <3>1. command' = "build"
      BY <1>21 DEF RecordBuild, CommandsHaveStages
    <3> QED BY <3>1 DEF ForcedRunIsBuilt
  <2>7. LockedBuildIsTheOutput'
    <3>1. SUFFICES ASSUME ~layout.quiet, OutputOf(made.config) = "package",
                          options.name = None => GetBuildConfig("default") = GetBuildConfig(None)
                   PROVE  \/ lock' = [config |-> made.config, hash |-> made]
                          \/ warned /\ lock' = Torn
                          \/ options.elsewhere /\ \E h \in {None, Foreign} :
                               lock' = [config |-> made.config, hash |-> h]
      BY <1>21 DEF RecordBuild, LockedBuildIsTheOutput, GetBuildConfig, OutputOf
    <3>2. made # None /\ config = Asked /\ made.config = Asked
      BY <1>21 DEF RecordBuild, BuildsAreMade, MadeIsAsked, CommandsHaveStages
    <3>3. Compiles(Quality[made.text])
      BY <1>21, <3>1, <3>2 DEF RecordBuild, ProblemsAreSeen
    <3>4. amx["package"] = made
      BY <1>21, <3>1, <3>2, <3>3 DEF RecordBuild, OutputIsMade
    <3>5. CASE lock = Torn
      BY <1>21, <3>5 DEF RecordBuild, LockIsRead, CommandsHaveStages
    <3>6. CASE lock # Torn
      <4>1. PICK h \in OutputHash : lock' = [config |-> Asked, hash |-> h]
        BY <1>21, <3>1, <3>6 DEF RecordBuild, Recorded, Asked
      <4> QED BY <3>2, <3>4, <4>1 DEF OutputHash
    <3> QED BY <3>5, <3>6
  <2>8. /\ FailureHasACause'
    BY <1>21, ResultsAreNot DEF
      RecordBuild, End, FailureHasACause, Asked, GetBuildConfig, OutputOf
  <2> QED BY <2>1, <2>2, <2>3, <2>4, <2>5, <2>6, <2>7, <2>8
<1>22. CASE StageOutput
  <2>1. /\ ResultIsLast' /\ CountIsBounded' /\ CommandsHaveStages'
    BY <1>22, ResultsAreNot DEF
      StageOutput, Fail, End, ResultIsLast, CountIsBounded, CommandsHaveStages
  <2>2. /\ ConfigIsAsked' /\ MadeIsAsked' /\ BuildsAreMade'
    BY <1>22 DEF
      StageOutput, Fail, End, ConfigIsAsked, MadeIsAsked, BuildsAreMade,
      Asked, GetBuildConfig
  <2>3. /\ ProblemsAreReal' /\ ProblemsAreSeen'
    BY <1>22 DEF
      StageOutput, Fail, End, ProblemsAreReal, ProblemsAreSeen, Bad
  <2>4. /\ OutputIsMade' /\ StagedIsOutput'
    BY <1>22 DEF
      StageOutput, Fail, End, OutputIsMade, StagedIsOutput, Asked, OutputOf
  <2>5. SuccessIsTrue'
    <3>1. command' = "run"
      BY <1>22 DEF StageOutput, Fail, CommandsHaveStages
    <3> QED BY <3>1 DEF SuccessIsTrue
  <2>6. ForcedRunIsBuilt'
    <3>1. SUFFICES ASSUME result' = "ok", options.force, ~layout.quiet,
                          OutputOf(Asked) = "package"
                   PROVE  staged' = made'
      BY <1>22 DEF StageOutput, Fail, ForcedRunIsBuilt, Asked, GetBuildConfig, OutputOf
    <3>2. amx["package"] # None /\ staged' = amx["package"] /\ made' = made
      BY <1>22, <3>1 DEF StageOutput, Fail, End
    <3>3. made # None /\ Compiles(Quality[made.text]) /\ config = Asked
      BY <1>22, <3>1 DEF StageOutput, BuildsAreMade, ProblemsAreSeen, MadeIsAsked
    <3> QED BY <1>22, <3>1, <3>2, <3>3 DEF StageOutput, OutputIsMade
  <2>7. LockedBuildIsTheOutput'
    <3>1. command' = "run"
      BY <1>22 DEF StageOutput, Fail, CommandsHaveStages
    <3> QED BY <3>1 DEF LockedBuildIsTheOutput
  <2>8. FailureHasACause'
    <3>1. CASE amx["package"] = None
      <4>1. made # None /\ config = Asked /\ command = "run"
        BY <1>22, <3>1 DEF StageOutput, BuildsAreMade, MadeIsAsked, CommandsHaveStages
      <4>2. OutputOf(Asked) # "package" \/ ~Compiles(Quality[made.text])
        BY <1>22, <3>1, <4>1 DEF StageOutput, OutputIsMade
      <4> QED BY <1>22, <3>1, <4>1, <4>2
              DEF StageOutput, Fail, FailureHasACause, Asked, GetBuildConfig, OutputOf
    <3>2. CASE amx["package"] # None
      <4>1. result' # "failed"
        BY <1>22, <3>2, ResultsAreNot DEF StageOutput, End, ResultIsLast
      <4> QED BY <4>1 DEF FailureHasACause
    <3> QED BY <3>1, <3>2
  <2> QED BY <2>1, <2>2, <2>3, <2>4, <2>5, <2>6, <2>7, <2>8
<1>23. CASE EnsureRuntime
  <2>1. /\ ResultIsLast' /\ CountIsBounded' /\ CommandsHaveStages'
    BY <1>23, ResultsAreNot DEF
      EnsureRuntime, End, ResultIsLast, CountIsBounded, CommandsHaveStages
  <2>2. /\ ConfigIsAsked' /\ MadeIsAsked' /\ BuildsAreMade'
    BY <1>23 DEF
      EnsureRuntime, End, ConfigIsAsked, MadeIsAsked, BuildsAreMade, Asked,
      GetBuildConfig
  <2>3. /\ ProblemsAreReal' /\ ProblemsAreSeen'
    BY <1>23 DEF
      EnsureRuntime, End, ProblemsAreReal, ProblemsAreSeen, Bad
  <2>4. /\ OutputIsMade' /\ StagedIsOutput'
    BY <1>23 DEF
      EnsureRuntime, End, OutputIsMade, StagedIsOutput, Asked, OutputOf
  <2>5. SuccessIsTrue'
    <3>1. command' = "run"
      BY <1>23 DEF EnsureRuntime, Fail, CommandsHaveStages
    <3> QED BY <3>1 DEF SuccessIsTrue
  <2>6. ForcedRunIsBuilt'
    <3>1. SUFFICES ASSUME result' = "ok", options.force, ~layout.quiet,
                          OutputOf(Asked) = "package"
                   PROVE  staged' = made'
      BY <1>23 DEF EnsureRuntime, ForcedRunIsBuilt, Asked, GetBuildConfig, OutputOf
    <3>2. ~layout.local /\ staged' = staged /\ made' = made
      BY <1>23, <3>1, ResultsAreNot DEF EnsureRuntime, ResultIsLast
    <3>3. made # None /\ Compiles(Quality[made.text]) /\ config = Asked
      BY <1>23, <3>1 DEF EnsureRuntime, BuildsAreMade, ProblemsAreSeen, MadeIsAsked
    <3> QED BY <1>23, <3>1, <3>2, <3>3 DEF EnsureRuntime, OutputIsMade, StagedIsOutput
  <2>7. LockedBuildIsTheOutput'
    <3>1. command' = "run"
      BY <1>23 DEF EnsureRuntime, Fail, CommandsHaveStages
    <3> QED BY <3>1 DEF LockedBuildIsTheOutput
  <2>8. /\ FailureHasACause'
    BY <1>23, ResultsAreNot DEF
      EnsureRuntime, End, FailureHasACause, Asked, GetBuildConfig, OutputOf
  <2> QED BY <2>1, <2>2, <2>3, <2>4, <2>5, <2>6, <2>7, <2>8
<1>24. CASE EnsureRuntimeFails
  <2>1. /\ ResultIsLast' /\ CountIsBounded' /\ CommandsHaveStages'
    BY <1>24, ResultsAreNot DEF
      EnsureRuntimeFails, Fail, End, ResultIsLast, CountIsBounded,
      CommandsHaveStages
  <2>2. /\ ConfigIsAsked' /\ MadeIsAsked' /\ BuildsAreMade'
    BY <1>24 DEF
      EnsureRuntimeFails, Fail, End, ConfigIsAsked, MadeIsAsked,
      BuildsAreMade, Asked, GetBuildConfig
  <2>3. /\ ProblemsAreReal' /\ ProblemsAreSeen'
    BY <1>24 DEF
      EnsureRuntimeFails, Fail, End, ProblemsAreReal, ProblemsAreSeen, Bad
  <2>4. /\ OutputIsMade' /\ StagedIsOutput'
    BY <1>24 DEF
      EnsureRuntimeFails, Fail, End, OutputIsMade, StagedIsOutput, Asked,
      OutputOf
  <2>5. /\ SuccessIsTrue' /\ ForcedRunIsBuilt' /\ LockedBuildIsTheOutput'
    BY <1>24, ResultsAreNot DEF
      EnsureRuntimeFails, Fail, End, SuccessIsTrue, ForcedRunIsBuilt,
      LockedBuildIsTheOutput, Asked, GetBuildConfig, OutputOf
  <2>6. /\ FailureHasACause'
    BY <1>24, ResultsAreNot DEF
      EnsureRuntimeFails, Fail, End, FailureHasACause, Asked, GetBuildConfig,
      OutputOf
  <2> QED BY <2>1, <2>2, <2>3, <2>4, <2>5, <2>6
<1>25. CASE Crash
  <2>1. /\ ResultIsLast' /\ CountIsBounded' /\ CommandsHaveStages'
    BY <1>25, ResultsAreNot DEF
      Crash, End, ResultIsLast, CountIsBounded, CommandsHaveStages
  <2>2. /\ ConfigIsAsked' /\ MadeIsAsked' /\ BuildsAreMade'
    BY <1>25 DEF
      Crash, End, ConfigIsAsked, MadeIsAsked, BuildsAreMade, Asked,
      GetBuildConfig
  <2>3. /\ ProblemsAreReal' /\ ProblemsAreSeen'
    BY <1>25 DEF
      Crash, End, ProblemsAreReal, ProblemsAreSeen, Bad
  <2>4. /\ OutputIsMade' /\ StagedIsOutput'
    BY <1>25 DEF
      Crash, End, OutputIsMade, StagedIsOutput, Asked, OutputOf
  <2>5. /\ SuccessIsTrue' /\ ForcedRunIsBuilt' /\ LockedBuildIsTheOutput'
    BY <1>25, ResultsAreNot DEF
      Crash, End, SuccessIsTrue, ForcedRunIsBuilt, LockedBuildIsTheOutput,
      Asked, GetBuildConfig, OutputOf
  <2>6. /\ FailureHasACause'
    BY <1>25, ResultsAreNot DEF
      Crash, End, FailureHasACause, Asked, GetBuildConfig, OutputOf
  <2> QED BY <2>1, <2>2, <2>3, <2>4, <2>5, <2>6
<1>26. CASE Interrupt
  <2>1. /\ ResultIsLast' /\ CountIsBounded' /\ CommandsHaveStages'
    BY <1>26, ResultsAreNot DEF
      Interrupt, End, ResultIsLast, CountIsBounded, CommandsHaveStages
  <2>2. /\ ConfigIsAsked' /\ MadeIsAsked' /\ BuildsAreMade'
    BY <1>26 DEF
      Interrupt, End, ConfigIsAsked, MadeIsAsked, BuildsAreMade, Asked,
      GetBuildConfig
  <2>3. /\ ProblemsAreReal' /\ ProblemsAreSeen'
    BY <1>26 DEF
      Interrupt, End, ProblemsAreReal, ProblemsAreSeen, Bad
  <2>4. /\ OutputIsMade' /\ StagedIsOutput'
    BY <1>26 DEF
      Interrupt, End, OutputIsMade, StagedIsOutput, Asked, OutputOf
  <2>5. /\ SuccessIsTrue' /\ ForcedRunIsBuilt' /\ LockedBuildIsTheOutput'
    BY <1>26, ResultsAreNot DEF
      Interrupt, End, SuccessIsTrue, ForcedRunIsBuilt, LockedBuildIsTheOutput,
      Asked, GetBuildConfig, OutputOf
  <2>6. /\ FailureHasACause'
    BY <1>26, ResultsAreNot DEF
      Interrupt, End, FailureHasACause, Asked, GetBuildConfig, OutputOf
  <2> QED BY <2>1, <2>2, <2>3, <2>4, <2>5, <2>6
<1>27. CASE Kill
  <2>1. /\ ResultIsLast' /\ CountIsBounded' /\ CommandsHaveStages'
    BY <1>27, ResultsAreNot DEF
      Kill, End, Stuck, ResultIsLast, CountIsBounded, CommandsHaveStages
  <2>2. /\ ConfigIsAsked' /\ MadeIsAsked' /\ BuildsAreMade'
    BY <1>27 DEF
      Kill, End, Stuck, ConfigIsAsked, MadeIsAsked, BuildsAreMade, Asked,
      GetBuildConfig
  <2>3. /\ ProblemsAreReal' /\ ProblemsAreSeen'
    BY <1>27 DEF
      Kill, End, Stuck, ProblemsAreReal, ProblemsAreSeen, Bad
  <2>4. /\ OutputIsMade' /\ StagedIsOutput'
    BY <1>27 DEF
      Kill, End, Stuck, OutputIsMade, StagedIsOutput, Asked, OutputOf
  <2>5. /\ SuccessIsTrue' /\ ForcedRunIsBuilt' /\ LockedBuildIsTheOutput'
    BY <1>27, ResultsAreNot DEF
      Kill, End, Stuck, SuccessIsTrue, ForcedRunIsBuilt,
      LockedBuildIsTheOutput, Asked, GetBuildConfig, OutputOf
  <2>6. /\ FailureHasACause'
    BY <1>27, ResultsAreNot DEF
      Kill, End, Stuck, FailureHasACause, Asked, GetBuildConfig, OutputOf
  <2> QED BY <2>1, <2>2, <2>3, <2>4, <2>5, <2>6
<1>28. CASE WeekPasses
  <2>1. /\ ResultIsLast' /\ CountIsBounded' /\ CommandsHaveStages'
    BY <1>28, ResultsAreNot DEF
      WeekPasses, ResultIsLast, CountIsBounded, CommandsHaveStages
  <2>2. /\ ConfigIsAsked' /\ MadeIsAsked' /\ BuildsAreMade'
    BY <1>28 DEF
      WeekPasses, ConfigIsAsked, MadeIsAsked, BuildsAreMade, Asked,
      GetBuildConfig
  <2>3. /\ ProblemsAreReal' /\ ProblemsAreSeen'
    BY <1>28 DEF
      WeekPasses, ProblemsAreReal, ProblemsAreSeen, Bad
  <2>4. /\ OutputIsMade' /\ StagedIsOutput'
    BY <1>28 DEF
      WeekPasses, OutputIsMade, StagedIsOutput, Asked, OutputOf
  <2>5. /\ SuccessIsTrue' /\ ForcedRunIsBuilt' /\ LockedBuildIsTheOutput'
    BY <1>28, ResultsAreNot DEF
      WeekPasses, SuccessIsTrue, ForcedRunIsBuilt, LockedBuildIsTheOutput,
      Asked, GetBuildConfig, OutputOf
  <2>6. /\ FailureHasACause'
    BY <1>28, ResultsAreNot DEF
      WeekPasses, FailureHasACause, Asked, GetBuildConfig, OutputOf
  <2> QED BY <2>1, <2>2, <2>3, <2>4, <2>5, <2>6
<1>29. ASSUME NEW t \in Texts, EditSource(t) PROVE IInv'
  <2>1. /\ ResultIsLast' /\ CountIsBounded' /\ CommandsHaveStages'
    BY <1>29, ResultsAreNot DEF
      EditSource, ResultIsLast, CountIsBounded, CommandsHaveStages
  <2>2. /\ ConfigIsAsked' /\ MadeIsAsked' /\ BuildsAreMade'
    BY <1>29 DEF
      EditSource, ConfigIsAsked, MadeIsAsked, BuildsAreMade, Asked,
      GetBuildConfig
  <2>3. /\ ProblemsAreReal' /\ ProblemsAreSeen'
    BY <1>29 DEF
      EditSource, ProblemsAreReal, ProblemsAreSeen, Bad
  <2>4. /\ OutputIsMade' /\ StagedIsOutput'
    BY <1>29 DEF
      EditSource, OutputIsMade, StagedIsOutput, Asked, OutputOf
  <2>5. /\ SuccessIsTrue' /\ ForcedRunIsBuilt' /\ LockedBuildIsTheOutput'
    BY <1>29, ResultsAreNot DEF
      EditSource, SuccessIsTrue, ForcedRunIsBuilt, LockedBuildIsTheOutput,
      Asked, GetBuildConfig, OutputOf
  <2>6. /\ FailureHasACause'
    BY <1>29, ResultsAreNot DEF
      EditSource, FailureHasACause, Asked, GetBuildConfig, OutputOf
  <2> QED BY <2>1, <2>2, <2>3, <2>4, <2>5, <2>6
<1>30. ASSUME NEW c \in {"build", "run"}, NEW o \in Requests, Begin(c, o) PROVE IInv'
  <2>1. /\ ResultIsLast' /\ CountIsBounded' /\ CommandsHaveStages'
    BY <1>30, ResultsAreNot DEF
      Begin, Builds, ResultIsLast, CountIsBounded, CommandsHaveStages
  <2>2. /\ ConfigIsAsked' /\ MadeIsAsked' /\ BuildsAreMade'
    BY <1>30 DEF
      Begin, Builds, ConfigIsAsked, MadeIsAsked, BuildsAreMade, Asked,
      GetBuildConfig
  <2>3. ProblemsAreReal'
    <3>1. pc = "idle" /\ problems = {} /\ output = << >>
      BY <1>30 DEF Begin, ProblemsAreReal, TypeOK
    <3> QED BY <1>30, <3>1 DEF Begin, ProblemsAreReal, Bad
  <2>4. ProblemsAreSeen'
    BY <1>30 DEF Begin, ProblemsAreSeen
  <2>5. /\ OutputIsMade' /\ StagedIsOutput'
    BY <1>30 DEF
      Begin, Builds, OutputIsMade, StagedIsOutput, Asked, OutputOf
  <2>6. /\ SuccessIsTrue' /\ ForcedRunIsBuilt' /\ LockedBuildIsTheOutput'
    BY <1>30, ResultsAreNot DEF
      Begin, Builds, SuccessIsTrue, ForcedRunIsBuilt, LockedBuildIsTheOutput,
      Asked, GetBuildConfig, OutputOf
  <2>7. /\ FailureHasACause'
    BY <1>30, ResultsAreNot DEF
      Begin, Builds, FailureHasACause, Asked, GetBuildConfig, OutputOf
  <2> QED BY <2>1, <2>2, <2>3, <2>4, <2>5, <2>6, <2>7
<1>31. CASE RecordFails
  <2>1. /\ ResultIsLast' /\ CountIsBounded' /\ CommandsHaveStages'
    BY <1>31, ResultsAreNot DEF
      RecordFails, End, ResultIsLast, CountIsBounded, CommandsHaveStages
  <2>2. /\ ConfigIsAsked' /\ MadeIsAsked' /\ BuildsAreMade'
    BY <1>31 DEF
      RecordFails, End, ConfigIsAsked, MadeIsAsked, BuildsAreMade, Asked,
      GetBuildConfig
  <2>3. /\ ProblemsAreReal' /\ ProblemsAreSeen'
    BY <1>31 DEF
      RecordFails, End, ProblemsAreReal, ProblemsAreSeen, Bad
  <2>4. /\ OutputIsMade' /\ StagedIsOutput'
    BY <1>31 DEF
      RecordFails, End, OutputIsMade, StagedIsOutput, Asked, OutputOf
  <2>5. SuccessIsTrue'
    <3>1. SUFFICES ASSUME ~layout.quiet
                   PROVE  /\ made = [text |-> made.text, config |-> Asked, defines |-> Asked]
                          /\ Compiles(Quality[made.text])
                          /\ amx[OutputOf(made.config)] = made
      BY <1>31 DEF RecordFails, SuccessIsTrue, Asked, GetBuildConfig, OutputOf
    <3>2. made \in Programs /\ config = Asked /\ made.config = Asked /\ made.defines = Asked
      BY <1>31, <3>1 DEF RecordFails, BuildsAreMade, MadeIsAsked, CommandsHaveStages, TypeOK
    <3>3. Compiles(Quality[made.text])
      BY <1>31, <3>1, <3>2, ProgramsAssumption
         DEF RecordFails, ProblemsAreSeen, ProgramsAssumption
    <3>4. amx[OutputOf(made.config)] = made
      BY <1>31, <3>2, <3>3, ProgramsAssumption
         DEF RecordFails, OutputIsMade, ProgramsAssumption
    <3> QED BY <3>2, <3>3, <3>4 DEF Programs
  <2>6. ForcedRunIsBuilt'
    <3>1. command' = "build"
      BY <1>31 DEF RecordFails, CommandsHaveStages
    <3> QED BY <3>1 DEF ForcedRunIsBuilt
  <2>7. LockedBuildIsTheOutput'
    <3>1. SUFFICES ASSUME ~layout.quiet, OutputOf(made.config) = "package",
                          options.name = None => GetBuildConfig("default") = GetBuildConfig(None)
                   PROVE  lock' \in {previous, Torn, [config |-> made.config, hash |-> None]}
      BY <1>31 DEF RecordFails, LockedBuildIsTheOutput, GetBuildConfig, OutputOf
    <3>2. made.config = Asked
      BY <1>31 DEF RecordFails, BuildsAreMade, MadeIsAsked, CommandsHaveStages
    <3>3. Recorded(None) = [config |-> made.config, hash |-> None]
      BY <3>1, <3>2 DEF Recorded, Asked
    <3> QED BY <1>31, <3>3 DEF RecordFails, LockIsRead
  <2>8. /\ FailureHasACause'
    BY <1>31, ResultsAreNot DEF
      RecordFails, End, FailureHasACause, Asked, GetBuildConfig, OutputOf
  <2> QED BY <2>1, <2>2, <2>3, <2>4, <2>5, <2>6, <2>7, <2>8
<1>32. CASE UNCHANGED vars
  BY <1>32 DEF vars,
    ResultIsLast, CountIsBounded, CommandsHaveStages, ConfigIsAsked,
    MadeIsAsked, BuildsAreMade, ProblemsAreReal, ProblemsAreSeen,
    OutputIsMade, StagedIsOutput, SuccessIsTrue, ForcedRunIsBuilt,
    LockedBuildIsTheOutput, FailureHasACause, Asked, GetBuildConfig, OutputOf,
    Bad
<1> QED BY <1>1, <1>2, <1>3, <1>4, <1>5, <1>6, <1>7, <1>8, <1>9, <1>10, <1>11,
    <1>12, <1>13, <1>14, <1>15, <1>16, <1>17, <1>18, <1>19, <1>20, <1>21, <1>22,
    <1>23, <1>24, <1>25, <1>26, <1>27, <1>28, <1>29, <1>30, <1>31, <1>32 DEF Next, Step

(* At every step of a command, the problems read and the lines still to be *)
(* read tell the truth of the compiled text, and the output is its build.  *)
THEOREM BuildInvariant == Spec => []IInv
BY InitKeeps, NextKeeps, PTL DEF Spec

(* Texts, configurations, files and problems are what their names say; the *)
(* build number stays below its bound, and only a running compiler has     *)
(* lines to print.                                                         *)
THEOREM BuildTypeCorrect == Spec => []TypeOK
<1>1. IInv => TypeOK
  BY DEF IInv
<1> QED BY <1>1, BuildInvariant, PTL

(* A build reported successful has left the program of a text without      *)
(* errors, of the configuration asked for and with its constants, where    *)
(* that configuration puts it.                                             *)
THEOREM BuildSuccessIsTrue == Spec => []SuccessIsTrue
<1>1. IInv => SuccessIsTrue
  BY DEF IInv
<1> QED BY <1>1, BuildInvariant, PTL

(* "run --forceBuild" runs the program it has just made.                   *)
THEOREM BuildForcedRunIsBuilt == Spec => []ForcedRunIsBuilt
<1>1. IInv => ForcedRunIsBuilt
  BY DEF IInv
<1> QED BY <1>1, BuildInvariant, PTL

(* pawn.lock has the configuration of the last build with the hash of what *)
(* it made; after a warning what it had before, a record without a hash or *)
(* part of one: never one build's configuration with another's output.     *)
THEOREM BuildLockedIsTheOutput == Spec => []LockedBuildIsTheOutput
<1>1. IInv => LockedBuildIsTheOutput
  BY DEF IInv
<1> QED BY <1>1, BuildInvariant, PTL

(* A command fails only for a cause the user, the network, the source or   *)
(* a torn file of an earlier command has given.                            *)
THEOREM BuildFailureHasACause == Spec => []FailureHasACause
<1>1. IInv => FailureHasACause
  BY DEF IInv
<1> QED BY <1>1, BuildInvariant, PTL

--------------------------------------------------------------------------------
(* Why a command ends, unless it is stuck.  A local runtime is ensured     *)
(* before the output is copied, a temporary one after it.                  *)

StagesLeft ==
  CASE pc = "prepare"   -> 16
    [] pc = "ensure"    -> 15
    [] pc = "number"    -> 14
    [] pc = "list"      -> 13
    [] pc = "compiler"  -> 12
    [] pc = "unpack"    -> 11
    [] pc = "includes"  -> 10
    [] pc = "prebuild"  -> 9
    [] pc = "start"     -> 8
    [] pc = "compile"   -> 7
    [] pc = "save"      -> 6
    [] pc = "postbuild" -> 5
    [] pc = "verdict"   -> 4
    [] pc = "record"    -> 1
    [] pc = "stage"     -> IF layout.local THEN 1 ELSE 2
    [] pc = "runtime"   -> IF layout.local THEN 2 ELSE 1
    [] OTHER            -> 0

(* The parts still to unpack; the lines still to read, and the end of the  *)
(* reading.                                                                *)
StageLeft == CASE pc = "unpack"  -> Cardinality(todo)
               [] pc = "compile" -> Len(output) + (IF reading THEN 1 ELSE 0)
               [] OTHER          -> 0

GetsShorter == \/ StagesLeft' < StagesLeft
               \/ StagesLeft' = StagesLeft /\ StageLeft' < StageLeft

CommandGetsShorter ==
  [][/\ StagesLeft \in 0 .. 16 /\ StageLeft \in Nat
     /\ Step => GetsShorter]_vars

LEMMA StagesAreCounted ==
  ASSUME TypeOK PROVE StagesLeft \in 0 .. 16
BY DEF TypeOK, Stages, StagesLeft

LEMMA StageIsCounted ==
  ASSUME TypeOK, IsFiniteSet(Parts) PROVE StageLeft \in Nat
<1>1. IsFiniteSet(todo)
  BY FS_Subset DEF TypeOK
<1>2. Cardinality(todo) \in Nat
  BY <1>1, FS_CardinalityType
<1>3. Len(output) + (IF reading THEN 1 ELSE 0) \in Nat
  BY DEF TypeOK
<1> QED BY <1>2, <1>3 DEF StageLeft

(* The end of a command leaves no stages.                                  *)
LEMMA EndIsShorter ==
  ASSUME TypeOK, NEW verdict, End(verdict), pc # "idle" PROVE GetsShorter
<1>1. StagesLeft' = 0
  BY DEF End, StagesLeft
<1>2. StagesLeft > 0
  BY DEF TypeOK, Stages, StagesLeft
<1> QED BY <1>1, <1>2 DEF GetsShorter

(* A step to a later stage.                                                *)
LEMMA PreparationIsShorter ==
  ASSUME Prepare \/ EnsureDependencies \/ GetCompilerList \/ RunCommands("prebuild", "start")
         \/ RunCommands("postbuild", "verdict") \/ CompilerEnds \/ SaveNumber \/ SaveNumberFails
  PROVE  GetsShorter
<1>1. CASE Prepare
  <2>1. pc = "prepare" /\ pc' \in {"ensure", "number"}
    BY <1>1 DEF Prepare, Goto
  <2> QED BY <2>1 DEF GetsShorter, StagesLeft
<1>2. CASE EnsureDependencies
  <2>1. pc = "ensure" /\ pc' = "number"
    BY <1>2 DEF EnsureDependencies, Goto
  <2> QED BY <2>1 DEF GetsShorter, StagesLeft
<1>3. CASE GetCompilerList
  <2>1. pc = "list" /\ pc' \in {"includes", "compiler"}
    BY <1>3 DEF GetCompilerList
  <2> QED BY <2>1 DEF GetsShorter, StagesLeft
<1>4. CASE RunCommands("prebuild", "start") \/ RunCommands("postbuild", "verdict")
  <2>1. (pc = "prebuild" /\ pc' = "start") \/ (pc = "postbuild" /\ pc' = "verdict")
    BY <1>4 DEF RunCommands, Goto
  <2> QED BY <2>1 DEF GetsShorter, StagesLeft
<1>5. CASE CompilerEnds
  <2>1. pc = "compile" /\ pc' = "save"
    BY <1>5 DEF CompilerEnds, Goto
  <2> QED BY <2>1 DEF GetsShorter, StagesLeft
<1>6. CASE SaveNumber \/ SaveNumberFails
  <2>1. pc = "save" /\ pc' = "postbuild"
    BY <1>6 DEF SaveNumber, SaveNumberFails, Goto
  <2> QED BY <2>1 DEF GetsShorter, StagesLeft
<1> QED BY <1>1, <1>2, <1>3, <1>4, <1>5, <1>6

(* A step to a later stage, or to the end of the command.                  *)
LEMMA DecisionIsShorter ==
  ASSUME TypeOK, ReadNumber \/ GetCompilerPackage \/ PrepareCommand \/ StartCompiler \/ Verdict
                 \/ RecordBuild \/ RecordFails \/ StageOutput \/ EnsureRuntime
  PROVE  GetsShorter
<1>1. CASE ReadNumber
  <2>1. pc = "number" /\ (End("failed") \/ pc' = "list")
    BY <1>1 DEF ReadNumber, Fail
  <2> QED BY <2>1, EndIsShorter DEF GetsShorter, StagesLeft
<1>2. CASE GetCompilerPackage
  <2>1. pc = "compiler" /\ pc' \in {"includes", "unpack"}
    BY <1>2 DEF GetCompilerPackage
  <2> QED BY <2>1 DEF GetsShorter, StagesLeft
<1>3. CASE PrepareCommand
  <2>1. pc = "includes" /\ (End("failed") \/ End("ok") \/ pc' = "prebuild")
    BY <1>3 DEF PrepareCommand, Fail
  <2> QED BY <2>1, EndIsShorter DEF GetsShorter, StagesLeft
<1>4. CASE StartCompiler
  <2>1. pc = "start" /\ (End("failed") \/ pc' = "compile")
    BY <1>4 DEF StartCompiler, Fail
  <2> QED BY <2>1, EndIsShorter DEF GetsShorter, StagesLeft
<1>5. CASE Verdict
  <2>1. pc = "verdict" /\ (End("failed") \/ pc' \in {"record", "runtime", "stage"})
    BY <1>5 DEF Verdict, Fail
  <2> QED BY <2>1, EndIsShorter DEF GetsShorter, StagesLeft
<1>6. CASE RecordBuild \/ RecordFails
  <2>1. pc = "record" /\ End("ok")
    BY <1>6 DEF RecordBuild, RecordFails
  <2> QED BY <2>1, EndIsShorter
<1>7. CASE StageOutput
  <2>1. /\ pc = "stage"
        /\ End("failed") \/ End("ok") \/ (~layout.local /\ pc' = "runtime" /\ layout' = layout)
    BY <1>7 DEF StageOutput, Fail, projectVars
  <2> QED BY <2>1, EndIsShorter DEF GetsShorter, StagesLeft
<1>8. CASE EnsureRuntime
  <2>1. /\ pc = "runtime"
        /\ End("ok") \/ (layout.local /\ pc' = "stage" /\ layout' = layout)
    BY <1>8 DEF EnsureRuntime, projectVars
  <2> QED BY <2>1, EndIsShorter DEF GetsShorter, StagesLeft
<1> QED BY <1>1, <1>2, <1>3, <1>4, <1>5, <1>6, <1>7, <1>8

(* A step within the stages that repeat one.                               *)
LEMMA UnpackIsShorter ==
  ASSUME TypeOK, IsFiniteSet(Parts), NEW p \in Parts, UnpackPart(p) PROVE GetsShorter
<1>1. pc = "unpack" /\ p \in todo /\ todo' = todo \ {p} /\ pc' \in {"includes", "unpack"}
  BY DEF UnpackPart
<1>2. IsFiniteSet(todo)
  BY FS_Subset DEF TypeOK
<1>3. Cardinality(todo) \in Nat /\ Cardinality(todo') = Cardinality(todo) - 1
  BY <1>1, <1>2, FS_RemoveElement, FS_CardinalityType
<1>4. CASE pc' = "includes"
  BY <1>1, <1>4 DEF GetsShorter, StagesLeft
<1>5. CASE pc' = "unpack"
  BY <1>1, <1>3, <1>5 DEF GetsShorter, StagesLeft, StageLeft
<1> QED BY <1>1, <1>4, <1>5

LEMMA ReadIsShorter ==
  ASSUME TypeOK, ReadLine PROVE GetsShorter
<1>1. /\ pc = "compile" /\ pc' = pc /\ output # << >> /\ reading
      /\ \/ output' = output /\ ~reading'
         \/ output' = Tail(output) /\ reading' = reading
  BY DEF ReadLine
<1>2. StagesLeft' = StagesLeft
  BY <1>1 DEF StagesLeft
<1>3. Len(Tail(output)) = Len(output) - 1 /\ Len(output) \in Nat
  BY <1>1 DEF TypeOK
<1>4. StageLeft = Len(output) + 1
  BY <1>1 DEF StageLeft
<1>5. CASE output' = output /\ ~reading'
  <2>1. StageLeft' = Len(output') + 0
    BY <1>1, <1>5, Zenon DEF StageLeft
  <2>2. StageLeft' = Len(output)
    BY <1>3, <1>5, <2>1
  <2> QED BY <1>2, <1>3, <1>4, <2>2 DEF GetsShorter
<1>6. CASE output' = Tail(output) /\ reading' = reading
  <2>1. StageLeft' = Len(output)
    BY <1>1, <1>3, <1>6 DEF StageLeft
  <2> QED BY <1>2, <1>3, <1>4, <2>1 DEF GetsShorter
<1> QED BY <1>1, <1>5, <1>6

LEMMA StepIsShorter ==
  ASSUME TypeOK, IsFiniteSet(Parts), Step PROVE GetsShorter
<1>1. CASE PrepareFails \/ EnsureFails \/ NoCompilerList \/ NoCompilerPackage \/ RunCommandsFails
           \/ EnsureRuntimeFails
  <2>1. End("failed") /\ pc # "idle"
    BY <1>1 DEF PrepareFails, EnsureFails, NoCompilerList, NoCompilerPackage, RunCommandsFails,
                EnsureRuntimeFails, Fail
  <2> QED BY <2>1, EndIsShorter
<1> QED
  BY <1>1, PreparationIsShorter, DecisionIsShorter, UnpackIsShorter, ReadIsShorter DEF Step

(* A build or a run takes at most 16 stages, and unpacks and reads no more *)
(* than there is: whatever fails, no step is repeated for ever             *)
(* (packageBuild, RunPrepare and what they call).                          *)
THEOREM BuildCommandRunsOut == IsFiniteSet(Parts) /\ Spec => CommandGetsShorter
<1>1. IsFiniteSet(Parts) /\ TypeOK =>
        StagesLeft \in 0 .. 16 /\ StageLeft \in Nat /\ (Step => GetsShorter)
  BY StagesAreCounted, StageIsCounted, StepIsShorter
<1>2. IsFiniteSet(Parts) => IsFiniteSet(Parts)'
  OBVIOUS
<1> QED BY <1>1, <1>2, BuildTypeCorrect, PTL DEF CommandGetsShorter

(* A command waits for ever only at a line that does not fit the buffer of *)
(* compilerOutputParser.Run: the reader never stops before the end else.   *)
StuckAtLongLine == Stuck => output # << >> /\ Head(output) = "long"

THEOREM BuildIsStuckOnlyAtLongLines == Spec => []StuckAtLongLine
<1>1. Init => StuckAtLongLine
  BY DEF Init, StuckAtLongLine, Stuck
<1>2. StuckAtLongLine /\ [Next]_vars => StuckAtLongLine'
  <2> SUFFICES ASSUME StuckAtLongLine, [Next]_vars, pc' = "compile", ~reading'
               PROVE  output' # << >> /\ Head(output') = "long"
    BY DEF StuckAtLongLine, Stuck
  <2> USE DEF StuckAtLongLine, Stuck
  <2>1. ~StartCompiler /\ ~(\E v \in {"ok", "failed", None} : End(v))
    BY DEF StartCompiler, End, Fail
  <2>2. CASE ReadLine
    BY <2>2 DEF ReadLine
  <2>3. CASE pc' = pc /\ UNCHANGED processVars
    BY <2>3 DEF processVars
  <2>4. CASE ~ReadLine /\ ~(pc' = pc /\ UNCHANGED processVars)
    <3>1. ~(Crash \/ Interrupt \/ Kill \/ WeekPasses \/ (\E t \in Texts : EditSource(t))
            \/ UNCHANGED vars)
      BY <2>1, <2>4 DEF Crash, Interrupt, Kill, WeekPasses, EditSource, vars
    <3>2. ~(\E c \in {"build", "run"}, o \in Requests : Begin(c, o))
      BY DEF Begin
    <3>3. ~Step
      BY <2>1, <2>4 DEF Step, Prepare, PrepareFails, EnsureDependencies, EnsureFails, ReadNumber,
         GetCompilerList, NoCompilerList, GetCompilerPackage, NoCompilerPackage, UnpackPart,
         PrepareCommand, RunCommands, RunCommandsFails, CompilerEnds, SaveNumber,
         SaveNumberFails, Verdict, RecordBuild, RecordFails, StageOutput, EnsureRuntime,
         EnsureRuntimeFails, Goto, Fail
    <3> QED BY <3>1, <3>2, <3>3 DEF Next
  <2> QED BY <2>2, <2>3, <2>4
<1> QED BY <1>1, <1>2, PTL DEF Spec
================================================================================
