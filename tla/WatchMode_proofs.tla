---------------------------- MODULE WatchMode_proofs ---------------------------
(***************************************************************************)
(* For any number of edits: the watcher's state is well typed, at most one *)
(* compiler is at work, the flag buildRunning says so, no build is started *)
(* without an event of its own, and the server has the edits of the last   *)
(* build that was accepted, if that writes the output of the package.      *)
(***************************************************************************)
EXTENDS WatchMode, TLAPS

(* While BuildWatch waits for RunWatch to take a result, no build runs and *)
(* that result is at hand.                                                 *)
TriggerIsIdle ==
  loop = "triggering" => buildRunning = FALSE /\ Len(finished) = 1

IInv == TypeOK /\ OneBuildAtATime /\ RunningIsTrue /\ BuildsAnswerEdits /\ TriggerIsIdle

(* The watcher has no event for an edit that was not made.                 *)
SeenWasMade == seen <= source

(* Numbers stay in range as long as every build has an edit of its own.    *)
LEMMA NumberIsInRange ==
  ASSUME IInv PROVE buildNumber \in Nat /\ seen \in Nat /\ seen <= MaxEdits
BY MaxEditsAssumption DEF MaxEditsAssumption, IInv, TypeOK, Numbers, Edits

LEMMA NextNumber ==
  ASSUME NEW n \in Nat, NEW m \in Nat, m <= MaxEdits, n <= m
  PROVE  n + 1 \in Numbers /\ n + 1 <= m + 1 /\ (n < m => n + 1 <= m)
BY MaxEditsAssumption DEF MaxEditsAssumption, Numbers

(* The answer to a pending event, if no build is at work: it is the only   *)
(* build, and the invariant holds of it.                                   *)
LEMMA StartBuildKeeps ==
  ASSUME IInv, StartBuild, pending, builds = {}, resultCh' = <<>>,
         seen' = seen, notified' = notified
  PROVE  /\ buildRunning' = TRUE /\ pending' = FALSE
         /\ buildNumber' \in Numbers /\ builds' \subseteq Builds
         /\ OneBuildAtATime' /\ RunningIsTrue' /\ BuildsAnswerEdits'
<1>1. buildNumber <= seen /\ (notified => buildNumber < seen)
  BY Zenon DEF IInv, BuildsAnswerEdits
<1>2. /\ buildNumber + 1 \in Numbers /\ buildNumber + 1 <= seen + 1
      /\ notified => buildNumber + 1 <= seen
  BY <1>1, NumberIsInRange, NextNumber, Zenon
<1>3. builds' = {[number |-> buildNumber + 1, edit |-> Unread, cancelled |-> FALSE]}
  BY DEF StartBuild
<1>4. builds' \subseteq Builds
  BY <1>2, <1>3 DEF Builds, Unread
<1>5. buildRunning' = TRUE /\ pending' = FALSE /\ buildNumber' = buildNumber + 1
  BY DEF StartBuild
<1>6. OneBuildAtATime'
  BY <1>3 DEF OneBuildAtATime
<1>7. RunningIsTrue'
  BY <1>3, <1>5 DEF RunningIsTrue
<1>8. BuildsAnswerEdits'
  BY <1>2, <1>5, Zenon DEF BuildsAnswerEdits
<1> QED BY <1>2, <1>4, <1>5, <1>6, <1>7, <1>8

(* A loop that is done with a result starts the pending build or is idle.  *)
LEMMA PopPendingKeeps ==
  ASSUME IInv, PopPending, builds = {}, resultCh' = <<>>,
         seen' = seen, notified' = notified
  PROVE  /\ buildRunning' \in BOOLEAN /\ pending' \in BOOLEAN
         /\ buildNumber' \in Numbers /\ builds' \subseteq Builds
         /\ OneBuildAtATime' /\ RunningIsTrue' /\ BuildsAnswerEdits'
<1>1. CASE timer = "off" /\ pending
  <2>1. StartBuild
    BY <1>1, Zenon DEF PopPending
  <2> QED BY <1>1, <2>1, StartBuildKeeps, Zenon
<1>2. CASE ~(timer = "off" /\ pending)
  <2>1. buildRunning' = FALSE /\ pending' = pending /\ buildNumber' = buildNumber /\ builds' = builds
    BY <1>2, Zenon DEF PopPending
  <2>2. buildNumber' \in Numbers /\ pending' \in BOOLEAN /\ builds' \subseteq Builds
    BY <2>1 DEF IInv, TypeOK
  <2>3. OneBuildAtATime' /\ RunningIsTrue'
    BY <2>1 DEF OneBuildAtATime, RunningIsTrue
  <2>4. BuildsAnswerEdits'
    BY <2>1, Zenon DEF IInv, BuildsAnswerEdits
  <2> QED BY <2>1, <2>2, <2>3, <2>4
<1> QED BY <1>1, <1>2

LEMMA InitIsGood == Init => IInv
<1> USE MaxEditsAssumption, CommandsAssumption DEF MaxEditsAssumption, CommandsAssumption
<1> SUFFICES ASSUME Init PROVE IInv
  OBVIOUS
<1>1. TypeOK
  <2>1. {[number |-> 1, edit |-> Unread, cancelled |-> FALSE]} \subseteq Builds
    BY DEF Builds, Numbers, Unread
  <2>2. NoServer \in [state : {"none", "running", "ended", "hung"}, edit : Edits, cancelled : BOOLEAN]
    BY DEF NoServer, Edits
  <2>3. resultCh = <<>> /\ finished = <<>>
    BY DEF Init
  <2>4. /\ resultCh \in Seq(Results) /\ Len(resultCh) <= 1
        /\ finished \in Seq(Results) /\ Len(finished) <= 1
    BY <2>3
  <2>5. /\ notified \in BOOLEAN /\ pending \in BOOLEAN
        /\ buildRunning \in BOOLEAN /\ interrupted \in BOOLEAN
        /\ compilerHung \in BOOLEAN /\ ownOutput \in BOOLEAN
    BY Zenon DEF Init
  <2>6. /\ command \in Commands /\ source \in Edits /\ seen \in Edits /\ timer \in {"off", "armed"}
        /\ buildNumber \in Numbers /\ buildFile \in Numbers
        /\ taken \in Edits /\ amx \in Edits /\ delivered \in Edits
        /\ loop \in {"selecting", "triggering", "stopped"}
        /\ watch \in {"selecting", "stopping", "staging", "ending", "returned"}
    BY DEF Init, Numbers, Edits
  <2> QED BY <2>1, <2>2, <2>4, <2>5, <2>6 DEF Init, TypeOK
<1>2. OneBuildAtATime /\ RunningIsTrue
  BY DEF Init, OneBuildAtATime, RunningIsTrue
<1>3. BuildsAnswerEdits /\ TriggerIsIdle
  BY DEF Init, BuildsAnswerEdits, TriggerIsIdle
<1> QED BY <1>1, <1>2, <1>3 DEF IInv

LEMMA NextSeen == TypeOK /\ SeenWasMade /\ [Next]_vars => SeenWasMade'
<1> SUFFICES ASSUME TypeOK, SeenWasMade, [Next]_vars PROVE SeenWasMade'
  OBVIOUS
<1>1. Edit \/ UNCHANGED <<seen, source>>
  BY DEF Next, Compiler, Server, BuildWatch, RunWatch, vars, sourceVars, Interrupt, ReadSource,
         FinishBuild, CompilerHangs, TakeEvent, TimerFires, TakeResult, BuildWatchStops, Trigger,
         CancelServer, ServerEnds, ServerHangs, AwaitServer, Stage, RunWatchStops
<1>2. source \in Nat /\ seen \in Nat
  BY MaxEditsAssumption DEF TypeOK, Edits, MaxEditsAssumption
<1> QED BY <1>1, <1>2 DEF Edit, SeenWasMade

LEMMA NextKeeps == IInv /\ SeenWasMade /\ [Next]_vars => IInv'
<1> SUFFICES ASSUME IInv, SeenWasMade, [Next]_vars PROVE IInv'
  OBVIOUS
<1> USE DEF IInv, worldVars
<1>1. CASE Edit
  <2>1. source' \in Edits /\ source' = source + 1
    BY <1>1, MaxEditsAssumption DEF Edit, TypeOK, Edits, MaxEditsAssumption
  <2>2. (seen' = source' /\ notified' = TRUE) \/ UNCHANGED <<seen, notified>>
    BY <1>1 DEF Edit
  <2>3. seen' \in Edits /\ notified' \in BOOLEAN
    BY <2>1, <2>2, Zenon DEF TypeOK
  <2>4. TypeOK'
    <3>1. UNCHANGED <<command, ownOutput, pending, timer, buildRunning, buildNumber, builds, resultCh,
             finished, buildFile, taken, loop, amx, server, delivered, watch, compilerHung, interrupted>>
      BY <1>1 DEF Edit, runVars
    <3>2. interrupted' \in BOOLEAN /\ compilerHung' \in BOOLEAN /\ ownOutput' \in BOOLEAN
          /\ pending' \in BOOLEAN /\ buildRunning' \in BOOLEAN
      BY <3>1, Zenon DEF TypeOK
    <3> QED BY <2>1, <2>3, <3>1, <3>2 DEF TypeOK
  <2>5. buildNumber \in Nat /\ source \in Nat /\ seen \in Nat
    BY NumberIsInRange, MaxEditsAssumption DEF TypeOK, Edits, MaxEditsAssumption
  <2>6. BuildsAnswerEdits'
    <3>1. buildNumber' = buildNumber /\ pending' = pending
      BY <1>1 DEF Edit
    <3>2. CASE UNCHANGED <<seen, notified>>
      BY <3>1, <3>2, Zenon DEF BuildsAnswerEdits
    <3>3. CASE seen' = source' /\ notified' = TRUE
      <4>1. buildNumber <= seen + 1 /\ (pending => buildNumber <= seen) /\ seen <= source
        BY Zenon DEF BuildsAnswerEdits, SeenWasMade
      <4>2. /\ buildNumber <= seen + 1 => buildNumber <= (source + 1) + 1 /\ buildNumber <= source + 1
            /\ buildNumber <= seen => buildNumber < source + 1
        BY <2>5, <4>1
      <4> QED BY <2>1, <3>1, <3>3, <4>1, <4>2, Zenon DEF BuildsAnswerEdits
    <3> QED BY <2>2, <3>2, <3>3
  <2>7. OneBuildAtATime' /\ RunningIsTrue' /\ TriggerIsIdle'
    BY <1>1 DEF Edit, OneBuildAtATime, RunningIsTrue, TriggerIsIdle
  <2> QED BY <2>4, <2>6, <2>7
<1>2. CASE Interrupt
  BY <1>2 DEF Interrupt, TypeOK, OneBuildAtATime, RunningIsTrue, BuildsAnswerEdits, TriggerIsIdle,
              sourceVars, buildVars, runVars
<1>3. CASE ReadSource
  <2> PICK b \in builds : /\ b.edit = Unread
                          /\ builds' = (builds \ {b}) \cup {[b EXCEPT !.edit = source]}
    BY <1>3 DEF ReadSource
  <2>1. [b EXCEPT !.edit = source] \in Builds
    BY DEF TypeOK, Builds
  <2>2. TypeOK'
    BY <1>3, <2>1 DEF ReadSource, TypeOK, sourceVars, runVars
  <2>3. builds' = {[b EXCEPT !.edit = source]}
    BY DEF OneBuildAtATime
  <2>4. OneBuildAtATime' /\ RunningIsTrue'
    BY <1>3, <2>3 DEF ReadSource, OneBuildAtATime, RunningIsTrue
  <2>5. BuildsAnswerEdits' /\ TriggerIsIdle'
    BY <1>3 DEF ReadSource, BuildsAnswerEdits, TriggerIsIdle, sourceVars
  <2> QED BY <2>2, <2>4, <2>5
<1>4. CASE FinishBuild
  <2> PICK b \in builds : b.edit # Unread /\ builds' = builds \ {b} /\ Outcome(b)
    BY <1>4 DEF FinishBuild
  <2>1. b.number \in Numbers /\ b.edit \in Edits
    BY DEF TypeOK, Builds
  <2>2. \E v \in {"good", "problems", "error"} :
          resultCh' = <<[number |-> b.number, edit |-> b.edit, verdict |-> v]>>
    BY DEF Outcome
  <2>3. resultCh' \in Seq(Results) /\ Len(resultCh') <= 1 /\ resultCh' # <<>>
    BY <2>1, <2>2 DEF Results
  <2>4. amx' \in Edits
    BY <2>1 DEF Outcome, Compiled, TypeOK
  <2>5. TypeOK'
    BY <1>4, <2>3, <2>4 DEF FinishBuild, TypeOK, sourceVars, runVars
  <2>6. builds' = {}
    BY DEF OneBuildAtATime
  <2>7. OneBuildAtATime' /\ RunningIsTrue'
    BY <1>4, <2>3, <2>6 DEF FinishBuild, OneBuildAtATime, RunningIsTrue
  <2>8. BuildsAnswerEdits' /\ TriggerIsIdle'
    BY <1>4 DEF FinishBuild, BuildsAnswerEdits, TriggerIsIdle, sourceVars
  <2> QED BY <2>5, <2>7, <2>8
<1>5. CASE TakeEvent
  BY <1>5 DEF TakeEvent, TypeOK, OneBuildAtATime, RunningIsTrue, BuildsAnswerEdits, TriggerIsIdle,
              sourceVars, runVars
<1>6. CASE TimerFires
  <2>1. CASE pending /\ ~buildRunning
    <3>1. StartBuild /\ builds = {} /\ resultCh' = <<>> /\ seen' = seen /\ notified' = notified
      BY <1>6, <2>1, Zenon DEF TimerFires, RunningIsTrue, sourceVars
    <3>2. /\ buildRunning' = TRUE /\ pending' = FALSE
          /\ buildNumber' \in Numbers /\ builds' \subseteq Builds
          /\ OneBuildAtATime' /\ RunningIsTrue' /\ BuildsAnswerEdits'
      BY <2>1, <3>1, StartBuildKeeps, Zenon
    <3>3. TypeOK'
      BY <1>6, <3>2 DEF TimerFires, TypeOK, sourceVars, runVars
    <3>4. TriggerIsIdle'
      BY <1>6 DEF TimerFires, TriggerIsIdle
    <3> QED BY <3>2, <3>3, <3>4
  <2>2. CASE ~(pending /\ ~buildRunning)
    <3>1. timer' = "off" /\ UNCHANGED <<sourceVars, notified, pending, buildRunning, buildNumber,
             builds, resultCh, finished, buildFile, taken, loop, amx, runVars, worldVars>>
      BY <1>6, <2>2, Zenon DEF TimerFires
    <3> QED BY <3>1 DEF TypeOK, OneBuildAtATime, RunningIsTrue, BuildsAnswerEdits, TriggerIsIdle,
                        sourceVars, runVars
  <2> QED BY <2>1, <2>2
<1>7. CASE TakeResult
  <2> DEFINE r == Head(resultCh)
  <2>1. r \in Results /\ <<r>> \in Seq(Results) /\ Len(<<r>>) = 1
    BY <1>7 DEF TakeResult, TypeOK
  <2>2. r.edit \in Edits /\ r.number \in Numbers
    BY <2>1 DEF Results
  <2>3. /\ resultCh' = <<>> /\ taken' = r.edit /\ loop = "selecting"
        /\ UNCHANGED <<sourceVars, notified, timer, amx, runVars, worldVars>>
    BY <1>7 DEF TakeResult
  <2>4. builds = {} /\ seen' = seen
    BY <1>7, <2>3 DEF TakeResult, OneBuildAtATime, sourceVars
  <2>5. <<>> \in Seq(Results) /\ Len(<<>>) <= 1
    OBVIOUS
  <2>6. CASE r.verdict # "error" /\ command = "run"
    <3>1. /\ loop' = "triggering" /\ finished' = <<r>> /\ buildRunning' = FALSE
          /\ UNCHANGED <<pending, buildNumber, builds, buildFile>>
      BY <1>7, <2>6 DEF TakeResult
    <3>2. finished' \in Seq(Results) /\ Len(finished') = 1
      BY <2>1, <3>1
    <3>3. TypeOK'
      <4>1. /\ loop' = "triggering" /\ buildRunning' \in BOOLEAN
            /\ pending' \in BOOLEAN /\ buildNumber' \in Numbers /\ builds' \subseteq Builds
            /\ buildFile' \in Numbers
        BY <3>1 DEF TypeOK
      <4>2. taken' \in Edits /\ resultCh' \in Seq(Results) /\ Len(resultCh') <= 1
        BY <2>2, <2>3, <2>5
      <4>3. UNCHANGED <<sourceVars, notified, timer, amx, runVars, worldVars>>
        BY <2>3
      <4> QED BY <3>2, <4>1, <4>2, <4>3 DEF TypeOK, sourceVars, runVars
    <3>4. OneBuildAtATime' /\ RunningIsTrue'
      BY <2>3, <2>4, <3>1 DEF OneBuildAtATime, RunningIsTrue
    <3>5. BuildsAnswerEdits'
      BY <2>3, <2>4, <3>1, Zenon DEF BuildsAnswerEdits
    <3>6. TriggerIsIdle'
      BY <3>1, <3>2 DEF TriggerIsIdle
    <3> QED BY <3>3, <3>4, <3>5, <3>6
  <2>7. CASE ~(r.verdict # "error" /\ command = "run")
    <3>1. /\ buildFile' = IF r.verdict = "error" THEN buildFile ELSE r.number
          /\ PopPending /\ UNCHANGED <<loop, finished>>
      BY <1>7, <2>7 DEF TakeResult
    <3>2. /\ buildRunning' \in BOOLEAN /\ pending' \in BOOLEAN
          /\ buildNumber' \in Numbers /\ builds' \subseteq Builds
          /\ OneBuildAtATime' /\ RunningIsTrue' /\ BuildsAnswerEdits'
      BY <2>3, <2>4, <3>1, PopPendingKeeps
    <3>3. TypeOK'
      BY <2>2, <2>3, <2>5, <3>1, <3>2 DEF TypeOK, sourceVars, runVars
    <3>4. TriggerIsIdle'
      BY <2>3, <3>1 DEF TriggerIsIdle
    <3> QED BY <3>2, <3>3, <3>4
  <2> QED BY <2>6, <2>7
<1>8. CASE BuildWatchStops
  <2> DEFINE Cancelled(b) == [b EXCEPT !.cancelled = TRUE]
  <2>1. builds' = {Cancelled(b) : b \in builds}
    BY <1>8 DEF BuildWatchStops
  <2>2. \A b \in builds : Cancelled(b) \in Builds
    BY DEF TypeOK, Builds
  <2>3. TypeOK'
    BY <1>8, <2>1, <2>2 DEF BuildWatchStops, TypeOK, sourceVars, runVars
  <2>4. builds' = {} <=> builds = {}
    BY <2>1
  <2>5. \A b, c \in builds' : b = c
    BY <2>1 DEF OneBuildAtATime
  <2>6. OneBuildAtATime' /\ RunningIsTrue'
    BY <1>8, <2>4, <2>5 DEF BuildWatchStops, OneBuildAtATime, RunningIsTrue
  <2>7. BuildsAnswerEdits' /\ TriggerIsIdle'
    BY <1>8 DEF BuildWatchStops, BuildsAnswerEdits, TriggerIsIdle, sourceVars
  <2> QED BY <2>3, <2>6, <2>7
<1>9. CASE Trigger
  <2> DEFINE r == Head(finished)
  <2>1. r \in Results
    <3>1. finished \in Seq(Results) /\ Len(finished) = 1
      BY <1>9 DEF Trigger, TypeOK, TriggerIsIdle
    <3> QED BY <3>1
  <2>2. r.edit \in Edits /\ r.number \in Numbers
    BY <2>1 DEF Results
  <2>3. /\ buildFile' = r.number /\ loop' = "selecting" /\ finished' = <<>> /\ PopPending
        /\ UNCHANGED <<sourceVars, notified, timer, resultCh, taken, amx, server, worldVars>>
        /\ watch' \in {watch, "stopping"} /\ delivered' \in {delivered, r.edit}
    BY <1>9 DEF Trigger
  <2>4. buildRunning = FALSE
    BY <1>9 DEF Trigger, TriggerIsIdle
  <2>5. builds = {} /\ resultCh' = <<>> /\ seen' = seen
    BY <2>3, <2>4 DEF RunningIsTrue, sourceVars
  <2>6. /\ buildRunning' \in BOOLEAN /\ pending' \in BOOLEAN
        /\ buildNumber' \in Numbers /\ builds' \subseteq Builds
        /\ OneBuildAtATime' /\ RunningIsTrue' /\ BuildsAnswerEdits'
    BY <2>3, <2>5, PopPendingKeeps
  <2>7. <<>> \in Seq(Results) /\ Len(<<>>) <= 1
    OBVIOUS
  <2>8. TypeOK'
    BY <2>2, <2>3, <2>6, <2>7 DEF TypeOK, sourceVars
  <2>9. TriggerIsIdle'
    BY <2>3 DEF TriggerIsIdle
  <2> QED BY <2>6, <2>8, <2>9
<1>10. CASE CancelServer
  BY <1>10 DEF CancelServer, TypeOK, OneBuildAtATime, RunningIsTrue, BuildsAnswerEdits, TriggerIsIdle,
              sourceVars, buildVars
<1>11. CASE AwaitServer
  <2>1. server' \in [state : {"none", "running", "ended", "hung"}, edit : Edits, cancelled : BOOLEAN]
    BY <1>11, MaxEditsAssumption DEF AwaitServer, NoServer, Edits, MaxEditsAssumption
  <2>2. TypeOK'
    BY <1>11, <2>1 DEF AwaitServer, TypeOK, sourceVars, buildVars
  <2> QED BY <1>11, <2>2 DEF AwaitServer, OneBuildAtATime, RunningIsTrue, BuildsAnswerEdits, TriggerIsIdle,
                             sourceVars, buildVars
<1>12. CASE Stage
  <2>1. server' \in [state : {"none", "running", "ended", "hung"}, edit : Edits, cancelled : BOOLEAN]
    <3>1. /\ server' = server \/ server' = [state |-> "running", edit |-> amx, cancelled |-> FALSE]
          /\ amx \in Edits
      BY <1>12 DEF Stage, TypeOK
    <3>2. [state |-> "running", edit |-> amx, cancelled |-> FALSE]
            \in [state : {"none", "running", "ended", "hung"}, edit : Edits, cancelled : BOOLEAN]
      BY <3>1
    <3> QED BY <3>1, <3>2 DEF TypeOK
  <2>2. TypeOK'
    BY <1>12, <2>1 DEF Stage, TypeOK, sourceVars, buildVars
  <2> QED BY <1>12, <2>2 DEF Stage, OneBuildAtATime, RunningIsTrue, BuildsAnswerEdits, TriggerIsIdle,
                             sourceVars, buildVars
<1>13. CASE RunWatchStops
  BY <1>13 DEF RunWatchStops, TypeOK, OneBuildAtATime, RunningIsTrue, BuildsAnswerEdits, TriggerIsIdle,
              sourceVars, buildVars
<1>14. CASE ServerEnds
  BY <1>14 DEF ServerEnds, TypeOK, OneBuildAtATime, RunningIsTrue, BuildsAnswerEdits, TriggerIsIdle,
              sourceVars, buildVars
<1>16. CASE CompilerHangs
  BY <1>16 DEF CompilerHangs, TypeOK, OneBuildAtATime, RunningIsTrue, BuildsAnswerEdits, TriggerIsIdle,
              sourceVars, buildVars, runVars
<1>17. CASE ServerHangs
  BY <1>17 DEF ServerHangs, TypeOK, OneBuildAtATime, RunningIsTrue, BuildsAnswerEdits, TriggerIsIdle,
              sourceVars, buildVars
<1>15. CASE UNCHANGED vars
  BY <1>15 DEF TypeOK, OneBuildAtATime, RunningIsTrue, BuildsAnswerEdits, TriggerIsIdle,
              vars, sourceVars, buildVars, runVars
<1> QED BY <1>1, <1>2, <1>3, <1>4, <1>5, <1>6, <1>7, <1>8, <1>9, <1>10, <1>11, <1>12, <1>13,
           <1>14, <1>15, <1>16, <1>17 DEF Next, Compiler, Server, BuildWatch, RunWatch

LEMMA IInvIsInvariant == Spec => []IInv
<1>1. Init => IInv /\ SeenWasMade
  BY InitIsGood DEF Init, SeenWasMade
<1>2. IInv /\ SeenWasMade /\ [Next]_vars => (IInv /\ SeenWasMade)'
  BY NextKeeps, NextSeen DEF IInv
<1> QED BY <1>1, <1>2, PTL DEF Spec

(* The state of the watchers is well typed, for any number of edits.       *)
THEOREM WatchTypeCorrect == Spec => []TypeOK
<1>1. IInv => TypeOK
  BY DEF IInv
<1> QED BY <1>1, IInvIsInvariant, PTL

(* Whatever the order of events, timers and results, startBuild (build.go) *)
(* never meets a build that is still at work on the same .amx.             *)
THEOREM OneBuild == Spec => []OneBuildAtATime
<1>1. IInv => OneBuildAtATime
  BY DEF IInv
<1> QED BY <1>1, IInvIsInvariant, PTL

(* The flag OnTimerFired looks at says whether a build is at work.         *)
THEOREM FlagIsTrue == Spec => []RunningIsTrue
<1>1. IInv => RunningIsTrue
  BY DEF IInv
<1> QED BY <1>1, IInvIsInvariant, PTL

(* The debouncer merges the events of the edits that are seen and answers  *)
(* none of them twice.                                                     *)
THEOREM EditsAreAnsweredOnce == Spec => []BuildsAnswerEdits
<1>1. IInv => BuildsAnswerEdits
  BY DEF IInv
<1> QED BY <1>1, IInvIsInvariant, PTL

--------------------------------------------------------------------------------
(* Edits only go on: the .amx is of an edit the sources have had, the next *)
(* build reads a later one, and a build that is accepted is not newer than *)
(* the .amx, if that is what it wrote.  A server is started only after the *)
(* one before it has ended.                                                *)
Good(results) ==
  results # <<>> /\ Head(results).verdict = "good" /\ ~ownOutput => Head(results).edit <= amx

EditsGoOn ==
  /\ amx <= source /\ (~ownOutput => delivered <= amx)
  /\ \A b \in builds : b.edit # Unread => amx <= b.edit /\ b.edit <= source
  /\ Good(resultCh) /\ Good(finished)

StagedIsAlone == watch = "staging" => ~ServerRuns

LEMMA EditFacts ==
  ASSUME TypeOK
  PROVE  /\ source \in Nat /\ amx \in Nat /\ delivered \in Nat
         /\ \A b \in builds : b.edit \in Nat \cup {Unread}
BY MaxEditsAssumption DEF TypeOK, Edits, Builds, MaxEditsAssumption

LEMMA StartBuildGoesOn ==
  ASSUME TypeOK, EditsGoOn, StartBuild \/ UNCHANGED builds, amx' = amx, source' = source
  PROVE  \A b \in builds' : b.edit # Unread => amx' <= b.edit /\ b.edit <= source'
<1>1. CASE UNCHANGED builds
  BY <1>1 DEF EditsGoOn
<1>2. CASE StartBuild
  <2> SUFFICES ASSUME NEW c \in builds', c.edit # Unread
               PROVE  amx' <= c.edit /\ c.edit <= source'
    OBVIOUS
  <2>1. c # [number |-> buildNumber + 1, edit |-> Unread, cancelled |-> FALSE]
    OBVIOUS
  <2>2. PICK b \in builds : c = [b EXCEPT !.cancelled = TRUE]
    BY <1>2, <2>1 DEF StartBuild
  <2>3. c.edit = b.edit
    BY <2>2 DEF TypeOK, Builds
  <2> QED BY <2>3 DEF EditsGoOn
<1> QED BY <1>1, <1>2

LEMMA PopPendingStarts == PopPending => StartBuild \/ UNCHANGED builds
BY DEF PopPending

LEMMA InitIsFresh == Init => EditsGoOn /\ StagedIsAlone /\ ServerIsFresh
BY DEF Init, EditsGoOn, Good, StagedIsAlone, ServerIsFresh, ServerRuns, NoServer

LEMMA NextIsFresh ==
  ASSUME IInv, IInv', EditsGoOn, StagedIsAlone, ServerIsFresh, [Next]_vars
  PROVE  EditsGoOn' /\ StagedIsAlone' /\ ServerIsFresh'
<1>0. /\ TypeOK /\ OneBuildAtATime /\ ownOutput \in BOOLEAN
      /\ source \in Nat /\ amx \in Nat /\ delivered \in Nat
      /\ \A b \in builds : b.edit \in Nat \cup {Unread}
  BY EditFacts DEF IInv, TypeOK
<1> USE <1>0 DEF ServerRuns, worldVars
<1>1. CASE Edit
  BY <1>1 DEF Edit, EditsGoOn, Good, StagedIsAlone, ServerIsFresh, runVars
<1>2. CASE Interrupt
  BY <1>2 DEF Interrupt, EditsGoOn, Good, StagedIsAlone, ServerIsFresh, sourceVars, buildVars,
              runVars
<1>3. CASE ReadSource
  <2> PICK b \in builds : builds' = (builds \ {b}) \cup {[b EXCEPT !.edit = source]}
    BY <1>3 DEF ReadSource
  <2>1. [b EXCEPT !.edit = source].edit = source
    BY DEF TypeOK, Builds
  <2>2. UNCHANGED <<source, ownOutput, amx, delivered, resultCh, finished, watch, server>>
    BY <1>3 DEF ReadSource, sourceVars, runVars
  <2>3. ASSUME NEW c \in builds', c.edit # Unread
        PROVE  amx <= c.edit /\ c.edit <= source
    <3>1. CASE c \in builds
      BY <2>3, <3>1 DEF EditsGoOn
    <3>2. CASE c = [b EXCEPT !.edit = source]
      BY <2>1, <3>2 DEF EditsGoOn
    <3> QED BY <3>1, <3>2
  <2> QED BY <2>2, <2>3 DEF EditsGoOn, Good, StagedIsAlone, ServerIsFresh
<1>4. CASE FinishBuild
  <2> PICK b \in builds : b.edit # Unread /\ builds' = builds \ {b} /\ Outcome(b)
    BY <1>4 DEF FinishBuild
  <2>1. b.edit \in Nat /\ amx <= b.edit /\ b.edit <= source
    BY DEF EditsGoOn
  <2>2. amx' \in {amx, b.edit} /\ amx <= amx' /\ amx' <= source /\ ownOutput' = ownOutput
    BY <1>4, <2>1 DEF FinishBuild, Outcome, Compiled, EditsGoOn, sourceVars
  <2>3. builds' = {}
    BY DEF OneBuildAtATime
  <2>4. Good(resultCh)'
    BY <2>1, <2>2 DEF Outcome, Compiled, Good
  <2>5. Good(finished)'
    <3>1. finished' = finished /\ finished \in Seq(Results)
      BY <1>4 DEF FinishBuild, TypeOK
    <3>2. finished # <<>> => Head(finished) \in Results
      BY <3>1
    <3>3. finished # <<>> => Head(finished).edit \in Nat
      BY <3>2, MaxEditsAssumption DEF Results, Edits, MaxEditsAssumption
    <3> QED BY <2>1, <2>2, <3>1, <3>3 DEF Good, EditsGoOn
  <2>6. UNCHANGED <<source, delivered, watch, server>>
    BY <1>4 DEF FinishBuild, sourceVars, runVars
  <2> QED BY <2>1, <2>2, <2>3, <2>4, <2>5, <2>6 DEF EditsGoOn, StagedIsAlone, ServerIsFresh
<1>5. CASE TakeEvent
  BY <1>5 DEF TakeEvent, EditsGoOn, Good, StagedIsAlone, ServerIsFresh, sourceVars, runVars
<1>6. CASE TimerFires
  <2>1. /\ StartBuild \/ UNCHANGED builds
        /\ UNCHANGED <<source, ownOutput, amx, resultCh, finished, delivered, watch, server>>
    BY <1>6 DEF TimerFires, sourceVars, runVars
  <2>2. \A b \in builds' : b.edit # Unread => amx' <= b.edit /\ b.edit <= source'
    BY <2>1, StartBuildGoesOn
  <2> QED BY <2>1, <2>2 DEF EditsGoOn, Good, StagedIsAlone, ServerIsFresh
<1>7. CASE TakeResult
  <2>1. /\ PopPending \/ UNCHANGED builds
        /\ resultCh' = <<>> /\ finished' \in {finished, <<Head(resultCh)>>}
        /\ UNCHANGED <<source, ownOutput, amx, delivered, watch, server>> /\ resultCh # <<>>
    BY <1>7 DEF TakeResult, sourceVars, runVars
  <2>2. \A b \in builds' : b.edit # Unread => amx' <= b.edit /\ b.edit <= source'
    BY <2>1, StartBuildGoesOn, PopPendingStarts
  <2>3. Good(resultCh)' /\ Good(finished)'
    BY <2>1 DEF EditsGoOn, Good
  <2> QED BY <2>1, <2>2, <2>3 DEF EditsGoOn, StagedIsAlone, ServerIsFresh
<1>8. CASE BuildWatchStops
  <2>1. ASSUME NEW c \in builds', c.edit # Unread PROVE amx <= c.edit /\ c.edit <= source
    <3>1. PICK b \in builds : c = [b EXCEPT !.cancelled = TRUE]
      BY <1>8 DEF BuildWatchStops
    <3>2. c.edit = b.edit
      BY <3>1 DEF TypeOK, Builds
    <3> QED BY <2>1, <3>2 DEF EditsGoOn
  <2> QED BY <1>8, <2>1 DEF BuildWatchStops, EditsGoOn, Good, StagedIsAlone, ServerIsFresh,
                            sourceVars, runVars
<1>9. CASE Trigger
  <2>1. /\ PopPending /\ finished' = <<>> /\ watch = "selecting"
        /\ UNCHANGED <<source, ownOutput, amx, resultCh, server>>
        /\ \/ Head(finished).verdict = "good" /\ watch' = "stopping" /\ delivered' = Head(finished).edit
           \/ UNCHANGED <<watch, delivered>>
    BY <1>9 DEF Trigger, sourceVars
  <2>2. \A b \in builds' : b.edit # Unread => amx' <= b.edit /\ b.edit <= source'
    BY <2>1, StartBuildGoesOn, PopPendingStarts
  <2>3. finished # <<>>
    BY <1>9 DEF Trigger, IInv, TriggerIsIdle
  <2>4. ~ownOutput => delivered' <= amx
    BY <2>1, <2>3 DEF EditsGoOn, Good
  <2> QED BY <2>1, <2>2, <2>4 DEF EditsGoOn, Good, StagedIsAlone, ServerIsFresh
<1>10. CASE CancelServer
  BY <1>10 DEF CancelServer, EditsGoOn, Good, StagedIsAlone, ServerIsFresh, sourceVars, buildVars
<1>11. CASE AwaitServer
  BY <1>11 DEF AwaitServer, NoServer, EditsGoOn, Good, StagedIsAlone, ServerIsFresh, sourceVars,
               buildVars
<1>12. CASE Stage
  BY <1>12 DEF Stage, EditsGoOn, Good, StagedIsAlone, ServerIsFresh, sourceVars, buildVars
<1>13. CASE RunWatchStops
  BY <1>13 DEF RunWatchStops, EditsGoOn, Good, StagedIsAlone, ServerIsFresh, sourceVars, buildVars
<1>14. CASE ServerEnds
  BY <1>14 DEF ServerEnds, EditsGoOn, Good, StagedIsAlone, ServerIsFresh, sourceVars, buildVars,
               TypeOK
<1>16. CASE CompilerHangs
  BY <1>16 DEF CompilerHangs, EditsGoOn, Good, StagedIsAlone, ServerIsFresh, sourceVars, buildVars,
               runVars
<1>17. CASE ServerHangs
  BY <1>17 DEF ServerHangs, EditsGoOn, Good, StagedIsAlone, ServerIsFresh, sourceVars, buildVars,
               TypeOK
<1>15. CASE UNCHANGED vars
  BY <1>15 DEF vars, EditsGoOn, Good, StagedIsAlone, ServerIsFresh, sourceVars, buildVars, runVars
<1> QED BY <1>1, <1>2, <1>3, <1>4, <1>5, <1>6, <1>7, <1>8, <1>9, <1>10, <1>11, <1>12, <1>13,
           <1>14, <1>15, <1>16, <1>17 DEF Next, Compiler, Server, BuildWatch, RunWatch

(* The server that runs while RunWatch waits for builds has at least the   *)
(* edits of the last build it accepted, whatever was built meanwhile, if   *)
(* the build writes Package.Output, which is what stageRuntimeOutput copies*)
THEOREM RestartedIsFresh == Spec => []ServerIsFresh
<1>1. Init => EditsGoOn /\ StagedIsAlone /\ ServerIsFresh
  BY InitIsFresh
<1>2. IInv /\ IInv' /\ (EditsGoOn /\ StagedIsAlone /\ ServerIsFresh) /\ [Next]_vars
        => (EditsGoOn /\ StagedIsAlone /\ ServerIsFresh)'
  BY NextIsFresh
<1> QED BY <1>1, <1>2, IInvIsInvariant, PTL DEF Spec
================================================================================
