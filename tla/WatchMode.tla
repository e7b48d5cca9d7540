------------------------------- MODULE WatchMode -------------------------------
(***************************************************************************)
(* "sampctl build --watch" and "sampctl run --watch": BuildWatch           *)
(* (pkgcontext/build.go) compiles the package whenever a source file has   *)
(* changed, and RunWatch (pkgcontext/run.go) stops the server, copies the  *)
(* new .amx and starts the server again whenever BuildWatch hands it the   *)
(* result of a build over the unbuffered channel Trigger.                  *)
(*                                                                         *)
(* The sources are represented by the number of edits made to them; a      *)
(* build, the .amx and the server by the edit they contain.  A server run  *)
(* or a compiler that does not return any more (RuntimeExecution and       *)
(* PackageBuild show when) is "hung" here.                                 *)
(***************************************************************************)
EXTENDS Integers, Sequences

CONSTANTS MaxEdits,  \* bound: the edits of the sources
          Commands   \* subset of {"build", "run"}

ASSUME MaxEditsAssumption == MaxEdits \in Nat
ASSUME CommandsAssumption == Commands \subseteq {"build", "run"}

VARIABLES
  command,      \* which of the two commands runs
  ownOutput,    \* has the build an output other than Package.Output?
  source,       \* the edits made so far
  seen,         \* history: the newest edit the watcher had an event for
  notified,     \* has the watcher an event for BuildWatch?
  pending,      \* watchDebouncer.pendingEvent is not empty
  timer,        \* watchDebouncer.ch: "off" (nil) or "armed"
  buildRunning, \* BuildWatch's flag
  buildNumber,  \* the number of the newest build
  builds,       \* the compiler goroutines
  resultCh,     \* their results, a channel of capacity 1
  finished,     \* the result BuildWatch is about to hand to RunWatch
  buildFile,    \* the number in options.BuildFile
  taken,        \* history: the newest edit a finished build contained
  loop,         \* where BuildWatch is
  amx,          \* the edit Package.Output contains
  server,       \* the watched runtime
  delivered,    \* history: the edit of the newest build RunWatch accepted
  watch,        \* where RunWatch is
  compilerHung, \* a compiler goroutine does not return any more
  interrupted   \* SIGINT: both loops' signal channels and the context

sourceVars == <<command, ownOutput, source, seen>>
buildVars  == <<notified, pending, timer, buildRunning, buildNumber, builds, resultCh,
                finished, buildFile, taken, loop, amx>>
runVars    == <<server, delivered, watch>>
worldVars  == <<compilerHung, interrupted>>
vars == <<sourceVars, buildVars, runVars, worldVars>>

Edits   == 0 .. MaxEdits
Unread  == -1
Numbers == 0 .. MaxEdits + 1

Builds  == [number : Numbers, edit : Edits \cup {Unread}, cancelled : BOOLEAN]
Results == [number : Numbers, edit : Edits, verdict : {"good", "problems", "error"}]

NoServer == [state |-> "none", edit |-> 0, cancelled |-> FALSE]

TypeOK ==
  /\ command \in Commands /\ ownOutput \in BOOLEAN
  /\ source \in Edits /\ seen \in Edits
  /\ notified \in BOOLEAN /\ pending \in BOOLEAN
  /\ buildRunning \in BOOLEAN /\ interrupted \in BOOLEAN /\ compilerHung \in BOOLEAN
  /\ timer \in {"off", "armed"}
  /\ buildNumber \in Numbers /\ buildFile \in Numbers
  /\ builds \subseteq Builds
  /\ resultCh \in Seq(Results) /\ Len(resultCh) <= 1
  /\ finished \in Seq(Results) /\ Len(finished) <= 1
  /\ taken \in Edits /\ amx \in Edits /\ delivered \in Edits
  /\ loop \in {"selecting", "triggering", "stopped"}
  /\ server \in [state : {"none", "running", "ended", "hung"}, edit : Edits, cancelled : BOOLEAN]
  /\ watch \in {"selecting", "stopping", "staging", "ending", "returned"}

(* RunPrepare has built the package; BuildWatch's first step is a build.   *)
Init ==
  /\ command \in Commands /\ ownOutput \in BOOLEAN
  /\ source = 0 /\ seen = 0
  /\ notified = FALSE /\ pending = FALSE /\ timer = "off"
  /\ buildRunning = TRUE /\ buildNumber = 1
  /\ builds = {[number |-> 1, edit |-> Unread, cancelled |-> FALSE]}
  /\ resultCh = <<>> /\ finished = <<>> /\ buildFile = 0
  /\ taken = 0 /\ amx = 0 /\ delivered = 0
  /\ loop = "selecting"
  /\ server = NoServer
  /\ watch = "selecting"
  /\ compilerHung = FALSE /\ interrupted = FALSE

--------------------------------------------------------------------------------
(* The user.                                                               *)

(* An edit of a .pwn or .inc file that is written in a directory which was *)
(* below the one of the entry when the watch began is an event for         *)
(* BuildWatch; the watcher never hears of the others, of an include in a   *)
(* directory that is new or elsewhere, and a rename is filtered out.       *)
Edit ==
  /\ source < MaxEdits
  /\ source' = source + 1
  /\ \/ seen' = source + 1 /\ notified' = TRUE
     \/ UNCHANGED <<seen, notified>>
  /\ UNCHANGED <<command, ownOutput, pending, timer, buildRunning, buildNumber, builds, resultCh,
                 finished, buildFile, taken, loop, amx, runVars, worldVars>>

Interrupt ==
  /\ ~interrupted /\ interrupted' = TRUE
  /\ UNCHANGED <<sourceVars, buildVars, runVars, compilerHung>>

--------------------------------------------------------------------------------
(* BuildWatch and its compiler goroutines.                                 *)

(* startBuild: cancel the context of the build before, start a new one.    *)
StartBuild ==
  /\ buildRunning' = TRUE
  /\ buildNumber' = buildNumber + 1
  /\ builds' = {[b EXCEPT !.cancelled = TRUE] : b \in builds}
               \cup {[number |-> buildNumber + 1, edit |-> Unread, cancelled |-> FALSE]}
  /\ pending' = FALSE

(* The compiler reads the sources, then writes the .amx and the result.    *)
ReadSource ==
  /\ \E b \in {b \in builds : b.edit = Unread} :
       builds' = (builds \ {b}) \cup {[b EXCEPT !.edit = source]}
  /\ UNCHANGED <<sourceVars, notified, pending, timer, buildRunning, buildNumber, resultCh,
                 finished, buildFile, taken, loop, amx, runVars, worldVars>>

(* What is compiled goes to config.Output: the output of the package, if   *)
(* the build has none of its own.                                          *)
Compiled(e) == amx' = IF ownOutput THEN amx ELSE e

(* "problems": the compiler wrote no .amx.  "error": it was killed or a    *)
(* pre-build command failed, or a post-build command failed after it.      *)
Outcome(b) ==
  \/ ~b.cancelled /\ ~interrupted /\ Compiled(b.edit)
     /\ resultCh' = <<[number |-> b.number, edit |-> b.edit, verdict |-> "good"]>>
  \/ ~b.cancelled /\ ~interrupted /\ UNCHANGED amx
     /\ resultCh' = <<[number |-> b.number, edit |-> b.edit, verdict |-> "problems"]>>
  \/ (Compiled(b.edit) \/ UNCHANGED amx)
     /\ resultCh' = <<[number |-> b.number, edit |-> b.edit, verdict |-> "error"]>>

FinishBuild ==
  /\ resultCh = <<>> /\ ~compilerHung
  /\ \E b \in {b \in builds : b.edit # Unread} : builds' = builds \ {b} /\ Outcome(b)
  /\ UNCHANGED <<sourceVars, notified, pending, timer, buildRunning, buildNumber, finished,
                 buildFile, taken, loop, runVars, worldVars>>

(* CompileWithCommand waits for ever at a line longer than the parser's    *)
(* buffer, also when its context is cancelled.                             *)
CompilerHangs ==
  /\ builds # {} /\ ~compilerHung /\ compilerHung' = TRUE
  /\ UNCHANGED <<sourceVars, buildVars, runVars, interrupted>>

(* An event of the watcher: watchDebouncer.Queue.                          *)
TakeEvent ==
  /\ loop = "selecting" /\ notified
  /\ notified' = FALSE /\ pending' = TRUE /\ timer' = "armed"
  /\ UNCHANGED <<sourceVars, buildRunning, buildNumber, builds, resultCh, finished, buildFile,
                 taken, loop, amx, runVars, worldVars>>

(* Faulty variant of OnTimerFired: it forgets the event when a build runs. *)
TimerForgets ==
  /\ loop = "selecting" /\ timer = "armed"
  /\ timer' = "off"
  /\ IF pending /\ ~buildRunning THEN StartBuild
     ELSE pending' = FALSE /\ UNCHANGED <<buildRunning, buildNumber, builds>>
  /\ UNCHANGED <<sourceVars, notified, resultCh, finished, buildFile, taken, loop, amx,
                 runVars, worldVars>>

(* OnTimerFired: while a build runs, the event stays pending.              *)
TimerFires ==
  /\ loop = "selecting" /\ timer = "armed"
  /\ timer' = "off"
  /\ IF pending /\ ~buildRunning THEN StartBuild
     ELSE UNCHANGED <<pending, buildRunning, buildNumber, builds>>
  /\ UNCHANGED <<sourceVars, notified, resultCh, finished, buildFile, taken, loop, amx,
                 runVars, worldVars>>

(* Faulty variants: the event stays pending; the flag stays set.           *)
PopPendingAgain ==
  IF timer = "off" /\ pending
  THEN /\ buildRunning' = TRUE /\ buildNumber' = buildNumber + 1 /\ UNCHANGED pending
       /\ builds' = builds \cup {[number |-> buildNumber + 1, edit |-> Unread, cancelled |-> FALSE]}
  ELSE buildRunning' = FALSE /\ UNCHANGED <<pending, buildNumber, builds>>
PopPendingStill ==
  IF timer = "off" /\ pending THEN StartBuild
  ELSE UNCHANGED <<buildRunning, pending, buildNumber, builds>>

(* The end of the resultCh case: a pending event whose timer has fired     *)
(* starts the next build.                                                  *)
PopPending ==
  IF timer = "off" /\ pending THEN StartBuild
  ELSE buildRunning' = FALSE /\ UNCHANGED <<pending, buildNumber, builds>>

TakeResult ==
  /\ loop = "selecting" /\ resultCh # <<>>
  /\ LET r == Head(resultCh)
     IN /\ resultCh' = <<>> /\ taken' = r.edit
        /\ IF r.verdict # "error" /\ command = "run"
           THEN /\ loop' = "triggering" /\ finished' = <<r>> /\ buildRunning' = FALSE
                /\ UNCHANGED <<pending, buildNumber, builds, buildFile>>
           ELSE /\ buildFile' = IF r.verdict = "error" THEN buildFile ELSE r.number
                /\ PopPending
                /\ UNCHANGED <<loop, finished>>
  /\ UNCHANGED <<sourceVars, notified, timer, amx, runVars, worldVars>>

(* Faulty variant: "break" leaves the select only, not the loop.           *)
BuildWatchGoesOn ==
  /\ loop = "selecting" /\ interrupted
  /\ builds' = {[b EXCEPT !.cancelled = TRUE] : b \in builds}
  /\ UNCHANGED <<sourceVars, notified, pending, timer, buildRunning, buildNumber, resultCh,
                 finished, buildFile, taken, loop, amx, runVars, worldVars>>

BuildWatchStops ==
  /\ loop = "selecting" /\ interrupted
  /\ loop' = "stopped"
  /\ builds' = {[b EXCEPT !.cancelled = TRUE] : b \in builds}
  /\ UNCHANGED <<sourceVars, notified, pending, timer, buildRunning, buildNumber, resultCh,
                 finished, buildFile, taken, amx, runVars, worldVars>>

--------------------------------------------------------------------------------
(* RunWatch and the server.                                                *)

(* BuildWatch sends over Trigger as RunWatch receives, then writes the     *)
(* build file and goes on.                                                 *)
Trigger ==
  /\ loop = "triggering" /\ watch = "selecting"
  /\ LET r == Head(finished)
     IN /\ buildFile' = r.number
        /\ IF r.verdict = "good" THEN watch' = "stopping" /\ delivered' = r.edit
                                 ELSE UNCHANGED <<watch, delivered>>
  /\ loop' = "selecting" /\ finished' = <<>>
  /\ PopPending
  /\ UNCHANGED <<sourceVars, notified, timer, resultCh, taken, amx, server, worldVars>>

(* watchedRuntime.Stop: cancel the run, then wait for it.                  *)
CancelServer ==
  /\ watch \in {"stopping", "ending"} /\ server.state = "running" /\ ~server.cancelled
  /\ server' = [server EXCEPT !.cancelled = TRUE]
  /\ UNCHANGED <<sourceVars, buildVars, delivered, watch, worldVars>>

(* executeRuntime returns after the server has ended, by itself or because *)
(* it was cancelled, ...                                                   *)
ServerEnds ==
  /\ server.state = "running"
  /\ server' = [server EXCEPT !.state = "ended"]
  /\ UNCHANGED <<sourceVars, buildVars, delivered, watch, worldVars>>

(* ... or it does not, with output in flight or at a line that is too long.*)
ServerHangs ==
  /\ server.state = "running"
  /\ server' = [server EXCEPT !.state = "hung"]
  /\ UNCHANGED <<sourceVars, buildVars, delivered, watch, worldVars>>

AwaitServer ==
  /\ watch \in {"stopping", "ending"} /\ server.state \notin {"running", "hung"}
  /\ server' = NoServer
  /\ watch' = IF watch = "stopping" THEN "staging" ELSE "returned"
  /\ UNCHANGED <<sourceVars, buildVars, delivered, worldVars>>

(* Faulty variant: the server is started from the copy it has already.     *)
StageNothing ==
  /\ watch = "staging"
  /\ server' = [state |-> "running", edit |-> 0, cancelled |-> FALSE]
  /\ watch' = "selecting"
  /\ UNCHANGED <<sourceVars, buildVars, delivered, worldVars>>

(* stageRuntimeOutput copies Package.Output to where the server loads it   *)
(* from, then watchedRuntime.Restart starts the server; after a copy that  *)
(* failed there is none.                                                   *)
Stage ==
  /\ watch = "staging"
  /\ \/ server' = [state |-> "running", edit |-> amx, cancelled |-> FALSE]
     \/ UNCHANGED server
  /\ watch' = "selecting"
  /\ UNCHANGED <<sourceVars, buildVars, delivered, worldVars>>

RunWatchStops ==
  /\ command = "run" /\ watch = "selecting"
  /\ interrupted \/ loop = "stopped"
  /\ watch' = "ending"
  /\ UNCHANGED <<sourceVars, buildVars, server, delivered, worldVars>>

Compiler   == ReadSource \/ FinishBuild \/ CompilerHangs
Server     == ServerEnds \/ ServerHangs
BuildWatch == TakeEvent \/ TimerFires \/ TakeResult \/ BuildWatchStops
RunWatch   == CancelServer \/ AwaitServer \/ Stage \/ RunWatchStops

Next == Edit \/ Interrupt \/ Compiler \/ BuildWatch \/ Trigger \/ RunWatch \/ Server

(* The goroutines go on, a select, which chooses at random, does not pass  *)
(* over a ready case forever, and a server that was cancelled ends or      *)
(* hangs.                                                                  *)
ServerObeys == (server.cancelled \/ interrupted) /\ Server

Fairness ==
  /\ WF_vars(ReadSource) /\ WF_vars(FinishBuild)
  /\ WF_vars(TakeEvent) /\ WF_vars(TimerFires) /\ WF_vars(TakeResult) /\ SF_vars(BuildWatchStops)
  /\ WF_vars(Trigger) /\ WF_vars(CancelServer \/ AwaitServer \/ Stage) /\ SF_vars(RunWatchStops)
  /\ WF_vars(ServerObeys)

Spec == Init /\ [][Next]_vars /\ Fairness

--------------------------------------------------------------------------------
(* Properties.                                                             *)

(* Two compilers never write the same .amx: a build that is started, by    *)
(* the timer or by the result before it, finds no other one at work.       *)
OneBuildAtATime ==
  /\ \A b, c \in builds : b = c
  /\ builds = {} \/ resultCh = <<>>

(* Every build but the first answers an event of its own: events that come *)
(* in while one is pending are merged, and none is answered twice.         *)
BuildsAnswerEdits ==
  /\ buildNumber <= seen + 1
  /\ pending \/ notified => buildNumber <= seen
  /\ pending /\ notified => buildNumber < seen

(* The flag that decides whether an event starts a build or stays pending  *)
(* is the truth: set exactly while a build is at work or its result waits. *)
RunningIsTrue == buildRunning = (builds # {} \/ resultCh # <<>>)

ServerRuns == server.state \in {"running", "hung"}

(* After "run --watch" has accepted a build, the server it starts contains *)
(* at least the edits of that build, even if the next build has already    *)
(* replaced the .amx, provided the build writes the output of the package. *)
ServerIsFresh ==
  watch = "selecting" /\ ServerRuns /\ ~ownOutput => server.edit >= delivered

(* No edit the watcher has an event for is lost: each is seen in the end by*)
(* a build, successful or not, also one that arrives while a build runs,   *)
(* while the timer waits or while RunWatch is busy stopping the server,    *)
(* unless a compiler or the server it stops does not return any more.      *)
EveryEditIsBuilt ==
  \A e \in 1 .. MaxEdits :
    (seen >= e) ~> (taken >= e \/ interrupted \/ compilerHung \/ server.state = "hung")

(* A signal ends both commands, and the server with them, also while a     *)
(* compiler hangs or BuildWatch waits for RunWatch, unless the run of the  *)
(* server does not return.                                                 *)
SignalEndsWatch ==
  interrupted ~> IF command = "run"
                 THEN (watch = "returned" /\ server.state # "running") \/ server.state = "hung"
                 ELSE loop = "stopped"

--------------------------------------------------------------------------------
(* What the documentation promises, and the code does not do: violated in  *)
(* a run of its own.                                                       *)

(* docs/testing.md:13: "Rebuild + restart the runtime on changes".  The    *)
(* runtime is restarted, but with Package.Output, which a build that has an*)
(* output of its own does not write.                                       *)
RestartedIsBuilt ==
  watch = "selecting" /\ ServerRuns => server.edit >= delivered
================================================================================
