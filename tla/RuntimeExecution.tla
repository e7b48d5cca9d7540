---------------------------- MODULE RuntimeExecution ---------------------------
(***************************************************************************)
(* executeRuntime (pkg/runtime/run.go): sampctl runs the game server in a  *)
(* pseudo-terminal and relays what it prints.  Five goroutines take part:  *)
(*                                                                         *)
(*   main    waits for a line, a signal, a termination or the context, then*)
(*           stops the server, joins the others and returns                *)
(*   runner  runBinary and platformRun: starts the server and waits for it *)
(*   copier  io.Copy from the pseudo-terminal into an io.Pipe              *)
(*   reader  readBinaryOutput: scans the pipe's lines, filters them by run *)
(*           mode and recognises the line that ends the run                *)
(*   feeder  io.Copy from the user's input into the pseudo-terminal; nobody*)
(*           waits for it                                                  *)
(*                                                                         *)
(* streamCh is unbuffered: a send is one step with its receive.  An        *)
(* io.Pipe holds no data: the copier waits until the reader has read all   *)
(* it wrote.  RunOptions.Recover is FALSE, as in every caller of Run.      *)
(* A "long" line is the first 64 KiB of a line, which fill the scanner's   *)
(* buffer; what follows it in the output is the rest of that line.         *)
(***************************************************************************)
EXTENDS Integers, Sequences, SequencesExt

CONSTANTS Modes,        \* the run modes
          Outputs,      \* what the server may print, as sequences of lines
          PtyCapacity,  \* the lines the pseudo-terminal holds
          Environment   \* which interruptions may happen

AllModes      == {"server", "main", "y_testing"}
Lines         == {"boot", "preamble", "blank", "text", "main_end", "tests_passed", "tests_failed",
                   "long"}
Interruptions == {"signal", "cancel", "output_error"}

ASSUME ModesAssumption       == Modes \subseteq AllModes
ASSUME OutputsAssumption     == \A o \in Outputs : o \in Seq(Lines)
ASSUME PtyAssumption         == PtyCapacity \in Nat \ {0}
ASSUME EnvironmentAssumption == Environment \subseteq Interruptions

VARIABLES
  mode,       \* cfg.Mode
  script,     \* the lines the server has yet to print
  sent,       \* history: the lines the server has printed
  server,     \* the server process
  pty,        \* lines in the pseudo-terminal
  chunk,      \* lines of the copier's pipe write that are not read yet
  scanned,    \* lines in the scanner's buffer
  filter,     \* outputModeState
  line,       \* the line the reader is about to send
  reader, copier, runner, main,  \* where each goroutine is
  runnerTerm, \* the termination the runner is about to send
  readerTerm, \* the termination the reader is about to send
  termCh,     \* the channel of terminations, of capacity 1
  tracked,    \* has onStart stored the process in the tracker?
  pipeClosed, \* has main closed the pipe's writer?
  signalled,  \* is a signal in sigCh?
  cancelled,  \* is runCtx done?
  writable,   \* can the output still be written to?
  feeder,     \* where the goroutine that copies the user's input is
  term,       \* the termination main acts on
  printed     \* the lines main has written to the output

serverVars == <<mode, script, sent, server, pty>>
readerVars == <<scanned, filter, line, reader, readerTerm>>
runnerVars == <<chunk, copier, runner, runnerTerm, tracked>>
mainVars   == <<main, term, printed, pipeClosed>>
worldVars  == <<signalled, cancelled, writable, feeder>>
vars == <<serverVars, readerVars, runnerVars, mainVars, worldVars, termCh>>

Errors == {"none", "signal", "context", "output", "tests", "server"}
Terminations == [err : Errors, exit : BOOLEAN]
NoTermination == [err |-> "none", exit |-> FALSE]
Nothing == "nothing"

Ended == server \in {"exited", "failed", "killed"}

TypeOK ==
  /\ mode \in Modes
  /\ script \in Seq(Lines) /\ sent \in Seq(Lines)
  /\ server \in {"none", "running", "exited", "failed", "killed"}
  /\ pty \in Seq(Lines) /\ Len(pty) <= PtyCapacity
  /\ chunk \in Seq(Lines) /\ scanned \in Seq(Lines) /\ printed \in Seq(Lines)
  /\ filter \in [preamble : BOOLEAN, space : BOOLEAN]
  /\ line \in Lines \cup {Nothing} /\ (reader = "sending" => line \in Lines)
  /\ reader \in {"reading", "sending", "terminating", "done"}
  /\ copier \in {"off", "copying", "done"} /\ feeder \in {"off", "reading", "done"}
  /\ runner \in {"starting", "registering", "waiting", "sending", "done"}
  /\ main \in {"waiting", "stopping", "joining", "flushing", "returned"}
  /\ runnerTerm \in Terminations /\ readerTerm \in Terminations /\ term \in Terminations
  /\ termCh \in Seq(Terminations) /\ Len(termCh) <= 1
  /\ tracked \in BOOLEAN /\ pipeClosed \in BOOLEAN
  /\ signalled \in BOOLEAN /\ cancelled \in BOOLEAN /\ writable \in BOOLEAN

Init ==
  /\ mode \in Modes
  /\ script \in Outputs
  /\ sent = <<>> /\ printed = <<>>
  /\ server = "none" /\ pty = <<>> /\ chunk = <<>> /\ scanned = <<>>
  /\ filter = [preamble |-> mode \in {"main", "y_testing"}, space |-> FALSE]
  /\ line = Nothing
  /\ reader = "reading" /\ copier = "off" /\ feeder = "off"
  /\ runner = "starting" /\ main = "waiting"
  /\ runnerTerm = NoTermination /\ readerTerm = NoTermination /\ term = NoTermination
  /\ termCh = <<>>
  /\ tracked = FALSE /\ pipeClosed = FALSE
  /\ signalled = FALSE /\ cancelled = FALSE /\ writable = TRUE

--------------------------------------------------------------------------------
(* processOutputLine: what the reader does with a line.                    *)

(* shouldSkipPreambleLine: skip up to the preamble line and the line after.*)
Skips(f, l)       == l = "preamble" \/ f.space \/ f.preamble
FilterAfter(f, l) ==
  IF l = "preamble" THEN [preamble |-> FALSE, space |-> TRUE]
  ELSE IF f.space THEN [f EXCEPT !.space = FALSE] ELSE f

Filtering == mode # "server"
Skipped(f, l) == Filtering /\ Skips(f, l)

(* The termination a line stands for in this mode, if any.                 *)
EndOf(l) ==
  CASE mode = "main" /\ l = "main_end"          -> [err |-> "none", exit |-> TRUE]
    [] mode = "y_testing" /\ l = "tests_passed" -> [err |-> "none", exit |-> TRUE]
    [] mode = "y_testing" /\ l = "tests_failed" -> [err |-> "tests", exit |-> TRUE]
    [] OTHER -> NoTermination

--------------------------------------------------------------------------------
(* The server, and the interruptions.                                      *)

ServerPrints ==
  /\ server = "running" /\ script # <<>> /\ Len(pty) < PtyCapacity
  /\ pty' = Append(pty, Head(script)) /\ sent' = Append(sent, Head(script))
  /\ script' = Tail(script)
  /\ UNCHANGED <<mode, server, readerVars, runnerVars, mainVars, worldVars, termCh>>

ServerEnds ==
  /\ server = "running"
  /\ server' \in {"exited", "failed"}
  /\ UNCHANGED <<mode, script, sent, pty, readerVars, runnerVars, mainVars, worldVars, termCh>>

Interrupt ==
  /\ main # "returned"
  /\ \/ "signal" \in Environment /\ signalled' = TRUE /\ UNCHANGED <<cancelled, writable>>
     \/ "cancel" \in Environment /\ cancelled' = TRUE /\ UNCHANGED <<signalled, writable>>
     \/ "output_error" \in Environment /\ writable' = FALSE /\ UNCHANGED <<signalled, cancelled>>
  /\ UNCHANGED <<feeder, serverVars, readerVars, runnerVars, mainVars, termCh>>

--------------------------------------------------------------------------------
(* The runner and the copier.                                              *)

(* pty.Start; with the context done, or without a binary, there is no      *)
(* process.                                                                *)
StartServer ==
  /\ runner = "starting"
  /\ \/ /\ ~cancelled
        /\ server' = "running" /\ runner' = "registering" /\ UNCHANGED runnerTerm
     \/ /\ runner' = "sending"
        /\ runnerTerm' = [err |-> "server", exit |-> FALSE] /\ UNCHANGED server
  /\ UNCHANGED <<mode, script, sent, pty, chunk, copier, tracked,
                 readerVars, mainVars, worldVars, termCh>>

Register ==
  /\ runner = "registering"
  /\ tracked' = TRUE /\ runner' = "waiting"
  /\ copier' = "copying" /\ feeder' = "reading"
  /\ UNCHANGED <<chunk, runnerTerm, signalled, cancelled, writable,
                 serverVars, readerVars, mainVars, termCh>>

(* The feeder waits for the user's input.  It ends when there is none, or  *)
(* when it has read some and the terminal has been closed meanwhile, after *)
(* the run or in the next one: closing the terminal does not end its read. *)
FeedEnds ==
  /\ feeder = "reading"
  /\ feeder' = "done"
  /\ UNCHANGED <<signalled, cancelled, writable,
                 serverVars, readerVars, runnerVars, mainVars, termCh>>

(* exec.CommandContext kills the process when the context is done.         *)
ContextKill ==
  /\ cancelled /\ server = "running"
  /\ server' = "killed"
  /\ UNCHANGED <<mode, script, sent, pty, readerVars, runnerVars, mainVars, worldVars, termCh>>

(* Faulty variant: the copier does not wait until its write has been read. *)
CopyAhead ==
  /\ copier = "copying"
  /\ \E n \in 1 .. Len(pty) :
       /\ chunk' = SubSeq(pty, 1, n)
       /\ pty' = SubSeq(pty, n + 1, Len(pty))
  /\ UNCHANGED <<mode, script, sent, server, copier, runner, runnerTerm, tracked,
                 readerVars, mainVars, worldVars, termCh>>

Copy ==
  /\ copier = "copying" /\ chunk = <<>>
  /\ \E n \in 1 .. Len(pty) :
       /\ chunk' = SubSeq(pty, 1, n)
       /\ pty' = SubSeq(pty, n + 1, Len(pty))
  /\ UNCHANGED <<mode, script, sent, server, copier, runner, runnerTerm, tracked,
                 readerVars, mainVars, worldVars, termCh>>

CopyEnds ==
  /\ copier = "copying" /\ chunk = <<>> /\ pty = <<>> /\ Ended
  /\ copier' = "done"
  /\ UNCHANGED <<chunk, runner, runnerTerm, tracked, serverVars, readerVars, mainVars,
                 worldVars, termCh>>

(* Faulty variants: the output that is still on its way is not waited for; *)
(* how the server ended is not looked at.                                  *)
WaitUncopied ==
  /\ runner = "waiting" /\ Ended
  /\ runner' = "sending"
  /\ runnerTerm' = [err |-> IF server = "exited" THEN "none" ELSE "server", exit |-> FALSE]
  /\ UNCHANGED <<chunk, copier, tracked, serverVars, readerVars, mainVars, worldVars, termCh>>

WaitUnevaluated ==
  /\ runner = "waiting" /\ Ended /\ copier = "done"
  /\ runner' = "sending" /\ UNCHANGED runnerTerm
  /\ UNCHANGED <<chunk, copier, tracked, serverVars, readerVars, mainVars, worldVars, termCh>>

(* <-cmdErrCh, <-wrErrCh and evaluateRunResult.                            *)
Wait ==
  /\ runner = "waiting" /\ Ended /\ copier = "done"
  /\ runner' = "sending"
  /\ runnerTerm' = [err |-> IF server = "exited" THEN "none" ELSE "server", exit |-> FALSE]
  /\ UNCHANGED <<chunk, copier, tracked, serverVars, readerVars, mainVars, worldVars, termCh>>

(* sendTermination: into the channel, or not at all once the context is    *)
(* done.                                                                   *)
SendTermination(t) == \/ termCh = <<>> /\ termCh' = <<t>>
                      \/ cancelled /\ UNCHANGED termCh

RunnerSends ==
  /\ runner = "sending"
  /\ SendTermination(runnerTerm)
  /\ runner' = "done"
  /\ UNCHANGED <<chunk, copier, runnerTerm, tracked, serverVars, readerVars, mainVars, worldVars>>

--------------------------------------------------------------------------------
(* The reader.                                                             *)

(* One Read of the pipe fills the scanner's buffer.                        *)
Read ==
  /\ reader = "reading" /\ scanned = <<>>
  /\ \E n \in 1 .. Len(chunk) :
       /\ scanned' = SubSeq(chunk, 1, n)
       /\ chunk' = SubSeq(chunk, n + 1, Len(chunk))
  /\ UNCHANGED <<filter, line, reader, readerTerm, copier, runner, runnerTerm, tracked,
                 serverVars, mainVars, worldVars, termCh>>

ReadEnds ==
  /\ reader = "reading" /\ scanned = <<>> /\ chunk = <<>> /\ pipeClosed
  /\ reader' = "done"
  /\ UNCHANGED <<scanned, filter, line, readerTerm, runnerVars, serverVars, mainVars,
                 worldVars, termCh>>

(* A scanned line is skipped, ends the run or is sent to main; at a long   *)
(* one the scanner fails and the reader ends, whatever the mode.           *)
Scan ==
  /\ reader = "reading" /\ scanned # <<>>
  /\ scanned' = Tail(scanned)
  /\ filter' = FilterAfter(filter, Head(scanned))
  /\ \/ /\ Head(scanned) = "long"
        /\ reader' = "done" /\ UNCHANGED <<line, readerTerm>>
     \/ /\ Head(scanned) # "long" /\ Skipped(filter, Head(scanned))
        /\ UNCHANGED <<line, reader, readerTerm>>
     \/ /\ ~Skipped(filter, Head(scanned)) /\ EndOf(Head(scanned)).exit
        /\ readerTerm' = EndOf(Head(scanned)) /\ reader' = "terminating" /\ UNCHANGED line
     \/ /\ Head(scanned) # "long"
        /\ ~Skipped(filter, Head(scanned)) /\ ~EndOf(Head(scanned)).exit
        /\ line' = Head(scanned) /\ reader' = "sending" /\ UNCHANGED readerTerm
  /\ UNCHANGED <<runnerVars, serverVars, mainVars, worldVars, termCh>>

(* sendOutputLine gives up when the context is done.                       *)
GiveUp ==
  /\ reader = "sending" /\ cancelled
  /\ reader' = "done"
  /\ UNCHANGED <<scanned, filter, line, readerTerm, runnerVars, serverVars, mainVars,
                 worldVars, termCh>>

ReaderSends ==
  /\ reader = "terminating"
  /\ SendTermination(readerTerm)
  /\ reader' = "done"
  /\ UNCHANGED <<scanned, filter, line, readerTerm, runnerVars, serverVars, mainVars, worldVars>>

--------------------------------------------------------------------------------
(* main.                                                                   *)

Terminate(t) == term' = t /\ main' = "stopping"

(* One line over streamCh, written to the output.                          *)
Receive ==
  /\ main = "waiting" /\ reader = "sending"
  /\ reader' = "reading" /\ line' = Nothing
  /\ IF writable THEN printed' = Append(printed, line) /\ UNCHANGED <<main, term>>
     ELSE Terminate([err |-> "output", exit |-> FALSE]) /\ UNCHANGED printed
  /\ UNCHANGED <<scanned, filter, readerTerm, pipeClosed, runnerVars, serverVars, worldVars, termCh>>

TakeSignal ==
  /\ main = "waiting" /\ signalled
  /\ signalled' = FALSE
  /\ Terminate([err |-> "signal", exit |-> FALSE])
  /\ UNCHANGED <<printed, pipeClosed, cancelled, writable, feeder, readerVars, runnerVars, serverVars, termCh>>

TakeTermination ==
  /\ main = "waiting" /\ termCh # <<>>
  /\ Terminate(Head(termCh))
  /\ termCh' = <<>>
  /\ UNCHANGED <<printed, pipeClosed, readerVars, runnerVars, serverVars, worldVars>>

TakeContext ==
  /\ main = "waiting" /\ cancelled
  /\ Terminate([err |-> "context", exit |-> FALSE])
  /\ UNCHANGED <<printed, pipeClosed, readerVars, runnerVars, serverVars, worldVars, termCh>>

(* shouldKillTrackedProcess and killTrackedProcess.                        *)
ShouldKill(t) == t.exit \/ t.err \in {"signal", "context", "output"}

Stop ==
  /\ main = "stopping"
  /\ server' = IF ShouldKill(term) /\ tracked /\ server = "running" THEN "killed" ELSE server
  /\ main' = "joining"
  /\ UNCHANGED <<mode, script, sent, pty, term, printed, pipeClosed,
                 readerVars, runnerVars, worldVars, termCh>>

(* Faulty variants: main does not wait for the runner; the pipe stays open.*)
JoinAtOnce ==
  /\ main = "joining"
  /\ pipeClosed' = TRUE /\ main' = "flushing"
  /\ UNCHANGED <<term, printed, readerVars, runnerVars, serverVars, worldVars, termCh>>
JoinUnclosed ==
  /\ main = "joining" /\ runner = "done"
  /\ main' = "flushing"
  /\ UNCHANGED <<pipeClosed, term, printed, readerVars, runnerVars, serverVars, worldVars, termCh>>

Join ==
  /\ main = "joining" /\ runner = "done"
  /\ pipeClosed' = TRUE /\ main' = "flushing"
  /\ UNCHANGED <<term, printed, readerVars, runnerVars, serverVars, worldVars, termCh>>

(* flushRuntimeOutput: after a write error the lines are only drained.     *)
Flush ==
  /\ main = "flushing" /\ reader = "sending"
  /\ reader' = "reading" /\ line' = Nothing
  /\ IF writable THEN printed' = Append(printed, line) /\ UNCHANGED term
     ELSE /\ term' = IF term.err = "none" THEN [term EXCEPT !.err = "output"] ELSE term
          /\ UNCHANGED printed
  /\ UNCHANGED <<main, scanned, filter, readerTerm, pipeClosed, runnerVars, serverVars,
                 worldVars, termCh>>

Return ==
  /\ main = "flushing" /\ reader = "done"
  /\ main' = "returned"
  /\ UNCHANGED <<term, printed, pipeClosed, readerVars, runnerVars, serverVars, worldVars, termCh>>

RunnerNext == StartServer \/ Register \/ ContextKill \/ Wait \/ RunnerSends
CopierNext == Copy \/ CopyEnds
ReaderNext == Read \/ ReadEnds \/ Scan \/ GiveUp \/ ReaderSends
MainNext   == TakeSignal \/ TakeTermination \/ TakeContext \/ Stop \/ Join \/ Return
LineNext   == Receive \/ Flush

Next == ServerPrints \/ ServerEnds \/ Interrupt \/ FeedEnds \/ RunnerNext \/ CopierNext \/ ReaderNext \/ MainNext \/ LineNext

(* Every goroutine that can go on does.  The server need not print, nor    *)
(* end by itself, and the user need not type.                              *)
Fairness == /\ WF_vars(RunnerNext) /\ WF_vars(CopierNext)
            /\ WF_vars(ReaderNext) /\ WF_vars(MainNext) /\ WF_vars(LineNext)

Spec == Init /\ [][Next]_vars /\ Fairness

--------------------------------------------------------------------------------
(* Properties.                                                             *)

(* What a run shows for the lines the server has printed: the filter after *)
(* a line, whether one of them ended the reader, and the lines shown, up to*)
(* the one that ended it.                                                  *)
NothingShown == [filter |-> [preamble |-> Filtering, space |-> FALSE], over |-> FALSE, lines |-> <<>>]

EndsReader(f, l) == l = "long" \/ (~Skipped(f, l) /\ EndOf(l).exit)

Show(shown, l) ==
  [ filter |-> FilterAfter(shown.filter, l),
    over   |-> shown.over \/ EndsReader(shown.filter, l),
    lines  |-> IF shown.over \/ EndsReader(shown.filter, l) \/ Skipped(shown.filter, l)
               THEN shown.lines ELSE Append(shown.lines, l) ]

(* Show over the lines of sent; Replay[n] is what comes of the first n.    *)
Replay ==
  LET after[n \in 0 .. Len(sent)] ==
        IF n = 0 THEN NothingShown ELSE Show(after[n - 1], sent[n])
  IN  after

Shown == Replay[Len(sent)].lines

(* Through the terminal, the pipe, the scanner, the channel and the final  *)
(* flush, no line is lost, doubled or overtaken: the user sees a prefix of *)
(* what the mode shows (readBinaryOutput, waitForRuntimeTermination).      *)
OutputInOrder == IsPrefix(printed, Shown)

(* When executeRuntime returns, all output of the server is shown, also    *)
(* what was still on its way when the server ended or was stopped: all up  *)
(* to the line that ended the reader, the verdict of the tests, the end of *)
(* main or a line longer than the scanner's buffer.  A context that is     *)
(* done is an exception: "sampctl run" cancels it at every ^C.             *)
OutputIsComplete == main = "returned" /\ writable /\ ~cancelled => printed = Shown

(* What is at work for a run outside of main.                              *)
AtWork == { w \in {"server", "runner", "copier", "reader", "feeder"} :
              \/ w = "server" /\ server = "running"
              \/ w = "runner" /\ runner # "done"
              \/ w = "copier" /\ copier = "copying"
              \/ w = "reader" /\ reader # "done"
              \/ w = "feeder" /\ feeder = "reading" }

(* When executeRuntime has returned, at most the goroutine that waits for  *)
(* the user's input is left of what it started (run_posix.go:63 joins it   *)
(* nowhere): neither the server nor one that copies or reads its output.   *)
OnlyInputIsLeft == main = "returned" => AtWork \subseteq {"feeder"}

(* A run reported as a success either ended well or printed the line its   *)
(* mode waits for; a kill or a crash never passes for one.                 *)
SuccessIsEarned ==
  main = "returned" /\ term.err = "none"
    => server = "exited" \/ \E i \in 1 .. Len(sent) : EndOf(sent[i]).exit

(* Output of the server waits for a reader that has ended, at the line of  *)
(* a verdict, a line that is too long or a cancellation, or for one whose  *)
(* line main takes no more: the copier waits in its write, the runner for  *)
(* the copier and main for the runner.                                     *)
OutputWaits == /\ pty # <<>> \/ chunk # <<>>
               /\ reader = "done" \/ (reader = "sending" /\ main # "waiting")

(* A second termination waits for a channel main takes nothing from.       *)
TerminationWaits == /\ termCh # <<>> /\ main # "waiting"
                    /\ runner = "sending" \/ reader = "terminating"

(* executeRuntime returns once the server has ended or could not be        *)
(* started, whoever interrupts it and whatever was printed, unless one of  *)
(* these two waits is for ever: the unbuffered channel, the pipe and the   *)
(* joins wait in no other circle.                                          *)
RunReturns ==
  (Ended \/ runner = "sending")
    ~> (main = "returned" \/ [](OutputWaits \/ TerminationWaits))

--------------------------------------------------------------------------------
(* What the documentation and the tests promise, and the code does not do: *)
(* each is violated in a run of its own.                                   *)

(* run_posix_test.go:132: a run whose server is up ends after SIGINT.  It  *)
(* does not if output of the server is still in the terminal: main, which  *)
(* waits for the runner, receives no line any more.                        *)
InterruptedRunReturns == (main = "stopping" /\ tracked) ~> main = "returned"

(* docs/testing.md:35: "y_testing: exit with success/failure based on      *)
(* y_testing results".  A server that exits after its tests races its own  *)
(* verdict for the channel of terminations.                                *)
FailedTestsFailTheRun ==
  (/\ main = "returned" /\ mode = "y_testing" /\ server = "exited"
   /\ \E i, j \in 1 .. Len(sent) : i + 1 < j /\ sent[i] = "preamble" /\ sent[j] = "tests_failed")
    => term.err # "none"
================================================================================
