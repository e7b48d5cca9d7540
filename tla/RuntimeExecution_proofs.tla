------------------------- MODULE RuntimeExecution_proofs ------------------------
(***************************************************************************)
(* For any outputs of the server, any size of the pseudo-terminal and any  *)
(* interruptions: when executeRuntime has returned, at most the goroutine  *)
(* that waits for the user's input is left of what it started; what it     *)
(* reports as a success has been earned; and what the user has seen is what*)
(* the server printed, in order and up to the line that ended the reader.  *)
(***************************************************************************)
EXTENDS RuntimeExecution, SequenceTheorems, WellFoundedInduction, TLAPS

(* The lines of a sequence, and what moving lines on keeps of them.        *)
Elems(q) == {q[i] : i \in 1 .. Len(q)}

LEMMA AppendElems ==
  ASSUME NEW S, NEW q \in Seq(S), NEW e \in S
  PROVE  /\ Append(q, e) \in Seq(S) /\ Len(Append(q, e)) = Len(q) + 1
         /\ Elems(Append(q, e)) = Elems(q) \cup {e}
<1>1. /\ Append(q, e) \in Seq(S) /\ Len(Append(q, e)) = Len(q) + 1
      /\ \A i \in 1 .. Len(q) : Append(q, e)[i] = q[i]
      /\ Append(q, e)[Len(q) + 1] = e
  BY AppendProperties
<1>2. Len(q) \in Nat
  BY LenProperties
<1>3. \A i : i \in 1 .. Len(q) + 1 <=> i \in 1 .. Len(q) \/ i = Len(q) + 1
  BY <1>2
<1>4. Elems(Append(q, e)) \subseteq Elems(q) \cup {e}
  BY <1>1, <1>3 DEF Elems
<1>5. Elems(q) \cup {e} \subseteq Elems(Append(q, e))
  BY <1>1, <1>3 DEF Elems
<1> QED BY <1>1, <1>4, <1>5

LEMMA TailElems ==
  ASSUME NEW S, NEW q \in Seq(S), q # <<>>
  PROVE  /\ Head(q) \in S /\ Head(q) \in Elems(q)
         /\ Tail(q) \in Seq(S) /\ Elems(Tail(q)) \subseteq Elems(q)
<1>1. /\ Head(q) \in S /\ Tail(q) \in Seq(S) /\ Head(q) = q[1]
      /\ Len(Tail(q)) = Len(q) - 1 /\ \A i \in 1 .. Len(Tail(q)) : Tail(q)[i] = q[i + 1]
  BY HeadTailProperties
<1>2. Len(q) \in Nat /\ Len(q) # 0
  BY LenProperties, EmptySeq
<1>3. 1 \in 1 .. Len(q) /\ \A i \in 1 .. Len(q) - 1 : i + 1 \in 1 .. Len(q)
  BY <1>2
<1> QED BY <1>1, <1>3 DEF Elems

LEMMA SplitElems ==
  ASSUME NEW S, NEW q \in Seq(S), NEW n \in 1 .. Len(q)
  PROVE  /\ SubSeq(q, 1, n) \in Seq(S) /\ Elems(SubSeq(q, 1, n)) \subseteq Elems(q)
         /\ SubSeq(q, n + 1, Len(q)) \in Seq(S)
         /\ Len(SubSeq(q, n + 1, Len(q))) <= Len(q)
         /\ Elems(SubSeq(q, n + 1, Len(q))) \subseteq Elems(q)
<1>1. Len(q) \in Nat
  BY LenProperties
<1>2. ASSUME NEW m \in 1 .. Len(q) + 1, NEW k \in 0 .. Len(q)
      PROVE  /\ SubSeq(q, m, k) \in Seq(S) /\ Len(SubSeq(q, m, k)) <= Len(q)
             /\ Elems(SubSeq(q, m, k)) \subseteq Elems(q)
  <2>1. /\ SubSeq(q, m, k) \in Seq(S)
        /\ Len(SubSeq(q, m, k)) = IF m <= k THEN k - m + 1 ELSE 0
        /\ \A i \in 1 .. k - m + 1 : SubSeq(q, m, k)[i] = q[m + i - 1]
    BY <1>1, SubSeqProperties
  <2>2. \A i \in 1 .. Len(SubSeq(q, m, k)) : i \in 1 .. k - m + 1 /\ m + i - 1 \in 1 .. Len(q)
    BY <1>1, <2>1
  <2>3. Elems(SubSeq(q, m, k)) \subseteq Elems(q)
    BY <2>1, <2>2 DEF Elems
  <2> QED BY <1>1, <2>1, <2>3
<1>3. 1 \in 1 .. Len(q) + 1 /\ n \in 0 .. Len(q) /\ n + 1 \in 1 .. Len(q) + 1 /\ Len(q) \in 0 .. Len(q)
  BY <1>1
<1> QED BY <1>2, <1>3

(* Terminations, and what a line makes of the filter, are well typed.      *)
LEMMA TerminationTypes ==
  /\ NoTermination \in Terminations
  /\ \A e \in Errors : \A b \in BOOLEAN : [err |-> e, exit |-> b] \in Terminations
  /\ \A l : EndOf(l) \in Terminations
BY DEF NoTermination, Terminations, Errors, EndOf

LEMMA FilterType ==
  ASSUME NEW f \in [preamble : BOOLEAN, space : BOOLEAN], NEW l
  PROVE  FilterAfter(f, l) \in [preamble : BOOLEAN, space : BOOLEAN]
BY DEF FilterAfter

LEMMA SendType ==
  ASSUME TypeOK, NEW t \in Terminations, SendTermination(t)
  PROVE  termCh' \in Seq(Terminations) /\ Len(termCh') <= 1
<1>1. CASE termCh' = <<t>>
  <2>1. <<t>> \in Seq(Terminations) /\ Len(<<t>>) = 1
    OBVIOUS
  <2> QED BY <1>1, <2>1
<1>2. CASE UNCHANGED termCh
  BY <1>2 DEF TypeOK
<1> QED BY <1>1, <1>2 DEF SendTermination

LEMMA InitTypeOK == Init => TypeOK
<1> SUFFICES ASSUME Init PROVE TypeOK
  OBVIOUS
<1>1. script \in Seq(Lines)
  BY OutputsAssumption DEF Init, OutputsAssumption
<1>2. \A S : <<>> \in Seq(S)
  BY EmptySeq
<1>3. Len(<<>>) = 0
  OBVIOUS
<1>4. Len(pty) <= PtyCapacity /\ Len(termCh) <= 1
  BY <1>3, PtyAssumption DEF Init, PtyAssumption
<1>5. filter \in [preamble : BOOLEAN, space : BOOLEAN]
  BY DEF Init
<1>6. /\ tracked \in BOOLEAN /\ pipeClosed \in BOOLEAN
      /\ signalled \in BOOLEAN /\ cancelled \in BOOLEAN /\ writable \in BOOLEAN
  BY Zenon DEF Init
<1>7. /\ mode \in Modes /\ server = "none" /\ line = Nothing
      /\ reader = "reading" /\ copier = "off" /\ feeder = "off"
      /\ runner = "starting" /\ main = "waiting"
      /\ runnerTerm \in Terminations /\ readerTerm \in Terminations /\ term \in Terminations
  BY TerminationTypes DEF Init
<1>8. /\ sent \in Seq(Lines) /\ printed \in Seq(Lines) /\ pty \in Seq(Lines)
      /\ chunk \in Seq(Lines) /\ scanned \in Seq(Lines) /\ termCh \in Seq(Terminations)
  BY <1>2 DEF Init
<1> QED BY <1>1, <1>4, <1>5, <1>6, <1>7, <1>8 DEF TypeOK

(* Every step of each of the four goroutines keeps the types.              *)
LEMMA NextTypeOK == TypeOK /\ [Next]_vars => TypeOK'
<1> SUFFICES ASSUME TypeOK, [Next]_vars PROVE TypeOK'
  OBVIOUS
<1> USE DEF serverVars, readerVars, runnerVars, mainVars, worldVars
<1>1. CASE ServerPrints
  <2>1. Head(script) \in Lines /\ Tail(script) \in Seq(Lines)
    BY <1>1, TailElems DEF ServerPrints, TypeOK
  <2>2. /\ Append(pty, Head(script)) \in Seq(Lines)
        /\ Len(Append(pty, Head(script))) = Len(pty) + 1
        /\ Append(sent, Head(script)) \in Seq(Lines)
    BY <2>1, AppendElems DEF TypeOK
  <2>3. Len(pty) + 1 <= PtyCapacity
    BY <1>1, PtyAssumption, LenProperties DEF ServerPrints, TypeOK, PtyAssumption
  <2> QED BY <1>1, <2>1, <2>2, <2>3 DEF ServerPrints, TypeOK
<1>2. CASE ServerEnds
  BY <1>2 DEF ServerEnds, TypeOK
<1>3. CASE Interrupt
  <2>1. signalled' \in BOOLEAN /\ cancelled' \in BOOLEAN /\ writable' \in BOOLEAN
    BY <1>3, Zenon DEF Interrupt, TypeOK
  <2> QED BY <1>3, <2>1 DEF Interrupt, TypeOK
<1>4. CASE StartServer
  <2>1. runnerTerm' \in Terminations
    BY <1>4, TerminationTypes DEF StartServer, TypeOK, Errors
  <2> QED BY <1>4, <2>1 DEF StartServer, TypeOK
<1>5. CASE Register
  BY <1>5 DEF Register, TypeOK
<1>6. CASE ContextKill
  BY <1>6 DEF ContextKill, TypeOK
<1>7. CASE Wait
  <2>1. runnerTerm' \in Terminations
    BY <1>7, TerminationTypes DEF Wait, Errors
  <2> QED BY <1>7, <2>1 DEF Wait, TypeOK
<1>8. CASE RunnerSends
  <2>1. termCh' \in Seq(Terminations) /\ Len(termCh') <= 1
    BY <1>8, SendType DEF RunnerSends, TypeOK
  <2> QED BY <1>8, <2>1 DEF RunnerSends, TypeOK
<1>9. CASE Copy
  <2>1. chunk' \in Seq(Lines) /\ pty' \in Seq(Lines) /\ Len(pty') <= Len(pty)
    BY <1>9, SplitElems DEF Copy, TypeOK
  <2>2. Len(pty') <= PtyCapacity
    BY <2>1, PtyAssumption, LenProperties DEF TypeOK, PtyAssumption
  <2> QED BY <1>9, <2>1, <2>2 DEF Copy, TypeOK
<1>10. CASE CopyEnds
  BY <1>10 DEF CopyEnds, TypeOK
<1>11. CASE Read
  <2>1. chunk' \in Seq(Lines) /\ scanned' \in Seq(Lines)
    BY <1>11, SplitElems DEF Read, TypeOK
  <2> QED BY <1>11, <2>1 DEF Read, TypeOK
<1>12. CASE ReadEnds
  BY <1>12 DEF ReadEnds, TypeOK
<1>13. CASE Scan
  <2>1. Head(scanned) \in Lines /\ Tail(scanned) \in Seq(Lines)
    BY <1>13, TailElems DEF Scan, TypeOK
  <2>2. filter' \in [preamble : BOOLEAN, space : BOOLEAN]
    BY <1>13, FilterType DEF Scan, TypeOK
  <2>3. /\ readerTerm' \in Terminations /\ line' \in Lines \cup {Nothing}
        /\ reader' = "sending" => line' \in Lines
    BY <1>13, <2>1, TerminationTypes DEF Scan, TypeOK
  <2>4. reader' \in {"reading", "sending", "terminating", "done"}
    BY <1>13 DEF Scan, TypeOK
  <2>5. UNCHANGED <<runnerVars, serverVars, mainVars, worldVars, termCh>> /\ scanned' = Tail(scanned)
    BY <1>13 DEF Scan
  <2> QED BY <2>1, <2>2, <2>3, <2>4, <2>5 DEF TypeOK
<1>14. CASE GiveUp
  BY <1>14 DEF GiveUp, TypeOK
<1>15. CASE ReaderSends
  <2>1. termCh' \in Seq(Terminations) /\ Len(termCh') <= 1
    BY <1>15, SendType DEF ReaderSends, TypeOK
  <2> QED BY <1>15, <2>1 DEF ReaderSends, TypeOK
<1>16. CASE TakeSignal
  <2>1. term' \in Terminations /\ main' = "stopping" /\ signalled' \in BOOLEAN
    BY <1>16, TerminationTypes DEF TakeSignal, Terminate, Errors
  <2> QED BY <1>16, <2>1 DEF TakeSignal, TypeOK
<1>17. CASE TakeTermination
  <2>1. Head(termCh) \in Terminations
    BY <1>17, HeadTailProperties DEF TakeTermination, TypeOK
  <2>2. termCh' \in Seq(Terminations) /\ Len(termCh') <= 1
    <3>1. termCh' = <<>>
      BY <1>17 DEF TakeTermination
    <3>2. <<>> \in Seq(Terminations) /\ Len(<<>>) = 0
      BY EmptySeq
    <3> QED BY <3>1, <3>2
  <2> QED BY <1>17, <2>1, <2>2 DEF TakeTermination, Terminate, TypeOK
<1>18. CASE TakeContext
  <2>1. term' \in Terminations /\ main' = "stopping"
    BY <1>18, TerminationTypes DEF TakeContext, Terminate, Errors
  <2> QED BY <1>18, <2>1 DEF TakeContext, TypeOK
<1>19. CASE Stop
  BY <1>19 DEF Stop, TypeOK
<1>20. CASE Join
  BY <1>20 DEF Join, TypeOK
<1>21. CASE Return
  BY <1>21 DEF Return, TypeOK
<1>22. CASE Receive
  <2>0. line \in Lines \cup {Nothing} /\ [err |-> "output", exit |-> FALSE] \in Terminations
    BY TerminationTypes DEF TypeOK, Errors
  <2>1. line \in Lines
    BY <1>22 DEF Receive, TypeOK
  <2>2. Append(printed, line) \in Seq(Lines)
    BY <2>1, AppendElems DEF TypeOK
  <2>3. /\ reader' = "reading" /\ line' = Nothing /\ printed' \in Seq(Lines)
        /\ main' \in {"waiting", "stopping"} /\ term' \in Terminations
    BY <1>22, <2>0, <2>2 DEF Receive, Terminate, TypeOK
  <2>4. UNCHANGED <<scanned, filter, readerTerm, pipeClosed, runnerVars, serverVars, worldVars, termCh>>
    BY <1>22 DEF Receive
  <2> QED BY <2>3, <2>4 DEF TypeOK
<1>23. CASE Flush
  <2>1. Append(printed, line) \in Seq(Lines)
    BY <1>23, AppendElems DEF Flush, TypeOK
  <2>2. term' \in Terminations
    BY <1>23 DEF Flush, TypeOK, Terminations, Errors
  <2>3. reader' = "reading" /\ line' = Nothing /\ printed' \in Seq(Lines)
    BY <1>23, <2>1 DEF Flush, TypeOK
  <2>4. UNCHANGED <<main, scanned, filter, readerTerm, pipeClosed, runnerVars, serverVars,
                    worldVars, termCh>>
    BY <1>23 DEF Flush
  <2> QED BY <2>2, <2>3, <2>4 DEF TypeOK
<1>24. CASE UNCHANGED vars
  BY <1>24 DEF vars, TypeOK
<1>25. CASE FeedEnds
  BY <1>25 DEF FeedEnds, TypeOK
<1> QED BY <1>1, <1>2, <1>3, <1>4, <1>5, <1>6, <1>7, <1>8, <1>9, <1>10, <1>11, <1>12, <1>13, <1>14, <1>15, <1>16, <1>17, <1>18, <1>19, <1>20, <1>21, <1>22, <1>23, <1>24, <1>25
    DEF Next, RunnerNext, CopierNext, ReaderNext, MainNext, LineNext

(* Lines, states, terminations are what their names say in every behaviour:*)
(* the terminal and the channel of terminations keep within their bounds.  *)
THEOREM ExecutionTypeCorrect == Spec => []TypeOK
BY InitTypeOK, NextTypeOK, PTL DEF Spec

--------------------------------------------------------------------------------
(* Who may still be at work: the runner leaves the server and the copier   *)
(* only when they are done, and main the runner and the reader.            *)
Joined ==
  /\ runner = "starting" => server = "none"
  /\ copier = "copying" => runner = "waiting"
  /\ server = "running" => runner \in {"registering", "waiting"}
  /\ main \in {"flushing", "returned"} => runner = "done"
  /\ main = "returned" => reader = "done"

LEMMA InitJoined == Init => Joined
BY DEF Init, Joined

LEMMA NextJoined == TypeOK /\ Joined /\ [Next]_vars => Joined'
<1> SUFFICES ASSUME TypeOK, Joined, [Next]_vars PROVE Joined'
  OBVIOUS
<1> USE DEF Joined, serverVars, readerVars, runnerVars, mainVars, worldVars
<1>1. CASE ServerPrints
  BY <1>1 DEF ServerPrints
<1>2. CASE ServerEnds
  BY <1>2 DEF ServerEnds
<1>3. CASE Interrupt
  BY <1>3 DEF Interrupt
<1>4. CASE StartServer
  BY <1>4 DEF StartServer
<1>5. CASE Register
  BY <1>5 DEF Register
<1>6. CASE ContextKill
  BY <1>6 DEF ContextKill
<1>7. CASE Wait
  BY <1>7 DEF Wait, Ended
<1>8. CASE RunnerSends
  BY <1>8 DEF RunnerSends, SendTermination
<1>9. CASE Copy
  BY <1>9 DEF Copy
<1>10. CASE CopyEnds
  BY <1>10 DEF CopyEnds, Ended
<1>11. CASE Read
  BY <1>11 DEF Read
<1>12. CASE ReadEnds
  BY <1>12 DEF ReadEnds
<1>13. CASE Scan
  BY <1>13 DEF Scan
<1>14. CASE GiveUp
  BY <1>14 DEF GiveUp
<1>15. CASE ReaderSends
  BY <1>15 DEF ReaderSends, SendTermination
<1>16. CASE TakeSignal
  BY <1>16 DEF TakeSignal, Terminate
<1>17. CASE TakeTermination
  BY <1>17 DEF TakeTermination, Terminate
<1>18. CASE TakeContext
  BY <1>18 DEF TakeContext, Terminate
<1>19. CASE Stop
  BY <1>19 DEF Stop
<1>20. CASE Join
  BY <1>20 DEF Join
<1>21. CASE Return
  BY <1>21 DEF Return
<1>22. CASE Receive
  BY <1>22 DEF Receive, Terminate
<1>23. CASE Flush
  BY <1>23 DEF Flush
<1>24. CASE UNCHANGED vars
  BY <1>24 DEF vars
<1>25. CASE FeedEnds
  BY <1>25 DEF FeedEnds
<1> QED BY <1>1, <1>2, <1>3, <1>4, <1>5, <1>6, <1>7, <1>8, <1>9, <1>10, <1>11, <1>12, <1>13, <1>14, <1>15, <1>16, <1>17, <1>18, <1>19, <1>20, <1>21, <1>22, <1>23, <1>24, <1>25
    DEF Next, RunnerNext, CopierNext, ReaderNext, MainNext, LineNext

(* When executeRuntime has returned, neither the server nor a goroutine    *)
(* that runs it, copies or reads its output is left: only the one that     *)
(* waits for the user's input may be.                                      *)
THEOREM ExecutionLeavesOnlyInput == Spec => []OnlyInputIsLeft
<1>1. Joined => OnlyInputIsLeft
  BY DEF Joined, OnlyInputIsLeft, AtWork
<1>2. Spec => [](TypeOK /\ Joined)
  BY InitTypeOK, NextTypeOK, InitJoined, NextJoined, PTL DEF Spec
<1> QED BY <1>1, <1>2, PTL

--------------------------------------------------------------------------------
(* A termination without an error has its reason from the start, on its    *)
(* way from the runner or the reader through the channel to main.          *)
EndSeen   == \E l \in Elems(sent) : EndOf(l).exit
Reason    == server = "exited" \/ EndSeen
Earned(t) == t.err = "none" => Reason

LinesWereSent ==
  Elems(pty) \subseteq Elems(sent) /\ Elems(chunk) \subseteq Elems(sent)
    /\ Elems(scanned) \subseteq Elems(sent)

TerminationsAreEarned ==
  /\ runner = "sending" => Earned(runnerTerm)
  /\ reader = "terminating" => EndSeen
  /\ \A t \in Elems(termCh) : Earned(t)
  /\ main # "waiting" => Earned(term)

IInv == TypeOK /\ Joined /\ LinesWereSent /\ TerminationsAreEarned

LEMMA NoElems == Elems(<<>>) = {}
BY DEF Elems

LEMMA InitEarned == Init => LinesWereSent /\ TerminationsAreEarned
BY NoElems DEF Init, LinesWereSent, TerminationsAreEarned

(* What the server has printed stays printed, and an exit is for good.     *)
LEMMA ReasonStays ==
  ASSUME IInv, [Next]_vars
  PROVE  /\ mode' = mode /\ Elems(sent) \subseteq Elems(sent')
         /\ EndSeen => EndSeen'
         /\ Reason => Reason'
<1> USE DEF IInv, serverVars, readerVars, runnerVars, mainVars, worldVars
<1>1. mode' = mode /\ (sent' = sent \/ ServerPrints)
  BY DEF Next, RunnerNext, CopierNext, ReaderNext, MainNext, LineNext, vars,
     ServerPrints, ServerEnds, Interrupt, FeedEnds, StartServer, Register,
     ContextKill, Wait, RunnerSends, Copy, CopyEnds, Read, ReadEnds,
     Scan, GiveUp, ReaderSends, TakeSignal, TakeTermination,
     TakeContext, Stop, Join, Return, Receive, Flush, SendTermination,
     Terminate
<1>2. Elems(sent) \subseteq Elems(sent')
  <2>1. CASE ServerPrints
    <3>1. Head(script) \in Lines
      BY <2>1, TailElems DEF ServerPrints, TypeOK
    <3> QED BY <2>1, <3>1, AppendElems DEF ServerPrints, TypeOK
  <2> QED BY <1>1, <2>1
<1>3. server = "exited" => server' = "exited"
  BY DEF Joined, Next, RunnerNext, CopierNext, ReaderNext, MainNext, LineNext, vars,
     ServerPrints, ServerEnds, Interrupt, FeedEnds, StartServer, Register,
     ContextKill, Wait, RunnerSends, Copy, CopyEnds, Read, ReadEnds,
     Scan, GiveUp, ReaderSends, TakeSignal, TakeTermination,
     TakeContext, Stop, Join, Return, Receive, Flush, SendTermination,
     Terminate
<1>4. EndSeen => EndSeen'
  BY <1>1, <1>2 DEF EndSeen, EndOf
<1> QED BY <1>1, <1>2, <1>3, <1>4 DEF Reason

(* sendTermination keeps the channel's terminations earned.                *)
LEMMA SendEarned ==
  ASSUME TypeOK, NEW t \in Terminations, SendTermination(t)
  PROVE  Elems(termCh') \subseteq Elems(termCh) \cup {t}
<1>1. Elems(<<t>>) = {t}
  BY DEF Elems
<1> QED BY <1>1 DEF SendTermination

LEMMA NextEarned ==
  ASSUME IInv, [Next]_vars PROVE LinesWereSent' /\ TerminationsAreEarned'
<1>0. /\ mode' = mode /\ Elems(sent) \subseteq Elems(sent')
      /\ EndSeen => EndSeen'
      /\ Reason => Reason'
  BY ReasonStays
<1> USE DEF IInv, serverVars, readerVars, runnerVars, mainVars, worldVars, Earned
<1>1. CASE ServerPrints
  <2>1. LinesWereSent'
    <3>1. Head(script) \in Lines
      BY <1>1, TailElems DEF ServerPrints, TypeOK
    <3>2. /\ Elems(pty') = Elems(pty) \cup {Head(script)}
          /\ Elems(sent') = Elems(sent) \cup {Head(script)}
      BY <1>1, <3>1, AppendElems DEF ServerPrints, TypeOK
    <3> QED BY <1>1, <3>2 DEF ServerPrints, LinesWereSent
  <2>2. TerminationsAreEarned'
    BY <1>0, <1>1 DEF ServerPrints, TerminationsAreEarned
  <2> QED BY <2>1, <2>2
<1>2. CASE ServerEnds
  <2>1. LinesWereSent'
    BY <1>0, <1>2 DEF ServerEnds, LinesWereSent
  <2>2. TerminationsAreEarned'
    BY <1>0, <1>2 DEF ServerEnds, TerminationsAreEarned
  <2> QED BY <2>1, <2>2
<1>3. CASE Interrupt
  <2>1. LinesWereSent'
    BY <1>0, <1>3 DEF Interrupt, LinesWereSent
  <2>2. TerminationsAreEarned'
    BY <1>0, <1>3 DEF Interrupt, TerminationsAreEarned
  <2> QED BY <2>1, <2>2
<1>4. CASE StartServer
  <2>1. LinesWereSent'
    BY <1>0, <1>4 DEF StartServer, LinesWereSent
  <2>2. TerminationsAreEarned'
    <3>1. runner' = "sending" => runnerTerm'.err # "none"
      BY <1>4 DEF StartServer
    <3> QED BY <1>0, <1>4, <3>1 DEF StartServer, TerminationsAreEarned
  <2> QED BY <2>1, <2>2
<1>5. CASE Register
  <2>1. LinesWereSent'
    BY <1>0, <1>5 DEF Register, LinesWereSent
  <2>2. TerminationsAreEarned'
    BY <1>0, <1>5 DEF Register, TerminationsAreEarned
  <2> QED BY <2>1, <2>2
<1>6. CASE ContextKill
  <2>1. LinesWereSent'
    BY <1>0, <1>6 DEF ContextKill, LinesWereSent
  <2>2. TerminationsAreEarned'
    BY <1>0, <1>6 DEF ContextKill, TerminationsAreEarned
  <2> QED BY <2>1, <2>2
<1>7. CASE Wait
  <2>1. LinesWereSent'
    BY <1>0, <1>7 DEF Wait, LinesWereSent
  <2>2. TerminationsAreEarned'
    <3>1. runnerTerm'.err = "none" => server = "exited"
      BY <1>7 DEF Wait
    <3> QED BY <1>0, <1>7, <3>1 DEF Wait, TerminationsAreEarned, Reason
  <2> QED BY <2>1, <2>2
<1>8. CASE RunnerSends
  <2>1. LinesWereSent'
    BY <1>0, <1>8 DEF RunnerSends, LinesWereSent
  <2>2. TerminationsAreEarned'
    <3>1. Elems(termCh') \subseteq Elems(termCh) \cup {runnerTerm}
      BY <1>8, SendEarned DEF RunnerSends, TypeOK
    <3> QED BY <1>0, <1>8, <3>1 DEF RunnerSends, TerminationsAreEarned
  <2> QED BY <2>1, <2>2
<1>9. CASE Copy
  <2>1. LinesWereSent'
    <3>1. Elems(chunk') \subseteq Elems(pty) /\ Elems(pty') \subseteq Elems(pty)
      BY <1>9, SplitElems DEF Copy, TypeOK
    <3> QED BY <1>9, <3>1 DEF Copy, LinesWereSent
  <2>2. TerminationsAreEarned'
    BY <1>0, <1>9 DEF Copy, TerminationsAreEarned
  <2> QED BY <2>1, <2>2
<1>10. CASE CopyEnds
  <2>1. LinesWereSent'
    BY <1>0, <1>10 DEF CopyEnds, LinesWereSent
  <2>2. TerminationsAreEarned'
    BY <1>0, <1>10 DEF CopyEnds, TerminationsAreEarned
  <2> QED BY <2>1, <2>2
<1>11. CASE Read
  <2>1. LinesWereSent'
    <3>1. Elems(scanned') \subseteq Elems(chunk) /\ Elems(chunk') \subseteq Elems(chunk)
      BY <1>11, SplitElems DEF Read, TypeOK
    <3> QED BY <1>11, <3>1 DEF Read, LinesWereSent
  <2>2. TerminationsAreEarned'
    BY <1>0, <1>11 DEF Read, TerminationsAreEarned
  <2> QED BY <2>1, <2>2
<1>12. CASE ReadEnds
  <2>1. LinesWereSent'
    BY <1>0, <1>12 DEF ReadEnds, LinesWereSent
  <2>2. TerminationsAreEarned'
    BY <1>0, <1>12 DEF ReadEnds, TerminationsAreEarned
  <2> QED BY <2>1, <2>2
<1>13. CASE Scan
  <2>1. LinesWereSent'
    <3>1. Elems(scanned') \subseteq Elems(scanned)
      BY <1>13, TailElems DEF Scan, TypeOK
    <3> QED BY <1>13, <3>1 DEF Scan, LinesWereSent
  <2>2. TerminationsAreEarned'
    <3>1. reader' = "terminating" => EndSeen
      <4>1. Head(scanned) \in Elems(scanned)
        BY <1>13, TailElems DEF Scan, TypeOK
      <4> QED BY <1>13, <4>1 DEF Scan, LinesWereSent, EndSeen
    <3> QED BY <1>0, <1>13, <3>1 DEF Scan, TerminationsAreEarned
  <2> QED BY <2>1, <2>2
<1>14. CASE GiveUp
  <2>1. LinesWereSent'
    BY <1>0, <1>14 DEF GiveUp, LinesWereSent
  <2>2. TerminationsAreEarned'
    BY <1>0, <1>14 DEF GiveUp, TerminationsAreEarned
  <2> QED BY <2>1, <2>2
<1>15. CASE ReaderSends
  <2>1. LinesWereSent'
    BY <1>0, <1>15 DEF ReaderSends, LinesWereSent
  <2>2. TerminationsAreEarned'
    <3>1. Elems(termCh') \subseteq Elems(termCh) \cup {readerTerm}
      BY <1>15, SendEarned DEF ReaderSends, TypeOK
    <3> QED BY <1>0, <1>15, <3>1 DEF ReaderSends, TerminationsAreEarned, Reason
  <2> QED BY <2>1, <2>2
<1>16. CASE TakeSignal
  <2>1. LinesWereSent'
    BY <1>0, <1>16 DEF TakeSignal, Terminate, LinesWereSent
  <2>2. TerminationsAreEarned'
    BY <1>0, <1>16 DEF TakeSignal, Terminate, TerminationsAreEarned
  <2> QED BY <2>1, <2>2
<1>17. CASE TakeTermination
  <2>1. LinesWereSent'
    BY <1>0, <1>17 DEF TakeTermination, LinesWereSent
  <2>2. TerminationsAreEarned'
    <3>1. Head(termCh) \in Elems(termCh)
      BY <1>17, TailElems DEF TakeTermination, TypeOK
    <3> QED BY <1>0, <1>17, <3>1, NoElems DEF TakeTermination, Terminate, TerminationsAreEarned
  <2> QED BY <2>1, <2>2
<1>18. CASE TakeContext
  <2>1. LinesWereSent'
    BY <1>0, <1>18 DEF TakeContext, Terminate, LinesWereSent
  <2>2. TerminationsAreEarned'
    BY <1>0, <1>18 DEF TakeContext, Terminate, TerminationsAreEarned
  <2> QED BY <2>1, <2>2
<1>19. CASE Stop
  <2>1. LinesWereSent'
    BY <1>0, <1>19 DEF Stop, LinesWereSent
  <2>2. TerminationsAreEarned'
    BY <1>0, <1>19 DEF Stop, TerminationsAreEarned
  <2> QED BY <2>1, <2>2
<1>20. CASE Join
  <2>1. LinesWereSent'
    BY <1>0, <1>20 DEF Join, LinesWereSent
  <2>2. TerminationsAreEarned'
    BY <1>0, <1>20 DEF Join, TerminationsAreEarned
  <2> QED BY <2>1, <2>2
<1>21. CASE Return
  <2>1. LinesWereSent'
    BY <1>0, <1>21 DEF Return, LinesWereSent
  <2>2. TerminationsAreEarned'
    BY <1>0, <1>21 DEF Return, TerminationsAreEarned
  <2> QED BY <2>1, <2>2
<1>22. CASE Receive
  <2>1. LinesWereSent'
    BY <1>0, <1>22 DEF Receive, Terminate, LinesWereSent
  <2>2. TerminationsAreEarned'
    BY <1>0, <1>22 DEF Receive, Terminate, TerminationsAreEarned
  <2> QED BY <2>1, <2>2
<1>23. CASE Flush
  <2>1. LinesWereSent'
    BY <1>0, <1>23 DEF Flush, LinesWereSent
  <2>2. TerminationsAreEarned'
    <3>1. term'.err = "none" => term.err = "none"
      BY <1>23 DEF Flush, TypeOK, Terminations
    <3> QED BY <1>0, <1>23, <3>1 DEF Flush, TerminationsAreEarned, Joined
  <2> QED BY <2>1, <2>2
<1>24. CASE UNCHANGED vars
  BY <1>0, <1>24 DEF vars, LinesWereSent, TerminationsAreEarned
<1>25. CASE FeedEnds
  BY <1>0, <1>25 DEF FeedEnds, LinesWereSent, TerminationsAreEarned
<1> QED BY <1>1, <1>2, <1>3, <1>4, <1>5, <1>6, <1>7, <1>8, <1>9, <1>10, <1>11, <1>12, <1>13, <1>14, <1>15, <1>16, <1>17, <1>18, <1>19, <1>20, <1>21, <1>22, <1>23, <1>24, <1>25
    DEF Next, RunnerNext, CopierNext, ReaderNext, MainNext, LineNext

(* A run reported as a success ended well, or the server printed the line  *)
(* its mode waits for.                                                     *)
THEOREM ExecutionSuccessIsEarned == Spec => []SuccessIsEarned
<1>1. IInv => SuccessIsEarned
  BY DEF IInv, TerminationsAreEarned, Earned, Reason, EndSeen, Elems, SuccessIsEarned
<1>2. Init => IInv
  BY InitTypeOK, InitJoined, InitEarned DEF IInv
<1>3. IInv /\ [Next]_vars => IInv'
  BY NextTypeOK, NextJoined, NextEarned DEF IInv
<1> QED BY <1>1, <1>2, <1>3, PTL DEF Spec

--------------------------------------------------------------------------------
(* Induction over the natural numbers, for a set of them.                  *)
LEMMA SetInduction ==
  ASSUME NEW S, 0 \in S, \A n \in Nat : n \in S => n + 1 \in S
  PROVE  Nat \subseteq S
<1> DEFINE T == Nat \ S
           R == {p \in Nat \X Nat : p[1] < p[2]}
<1> SUFFICES ASSUME T # {} PROVE FALSE
  OBVIOUS
<1>1. IsWellFoundedOn(R, Nat)
  BY NatLessThanWellFounded, Zenon DEF OpToRel
<1>2. PICK x \in T : \A y \in T : ~(<<y, x>> \in R)
  <2>1. T \subseteq Nat
    OBVIOUS
  <2> HIDE DEF T, R
  <2> QED BY <1>1, <2>1, WFMin
<1>3. x \in Nat /\ x # 0
  OBVIOUS
<1>4. x - 1 \in Nat /\ x - 1 < x /\ x = (x - 1) + 1
  BY <1>3
<1>5. x - 1 \notin T
  BY <1>2, <1>3, <1>4
<1> QED BY <1>3, <1>4, <1>5

(* What comes of the lines printed so far, by the equation of Replay.      *)
ShownStates == [filter : [preamble : BOOLEAN, space : BOOLEAN], over : BOOLEAN, lines : Seq(Lines)]

LEMMA ShowType ==
  ASSUME NEW s \in ShownStates, NEW l \in Lines
  PROVE  /\ NothingShown \in ShownStates
         /\ Show(s, l) \in ShownStates
<1>1. Append(s.lines, l) \in Seq(Lines) /\ <<>> \in Seq(Lines)
  BY AppendProperties, EmptySeq DEF ShownStates
<1>2. FilterAfter(s.filter, l) \in [preamble : BOOLEAN, space : BOOLEAN]
  BY FilterType DEF ShownStates
<1>3. NothingShown \in ShownStates
  BY <1>1 DEF NothingShown, ShownStates, Filtering
<1>4. (s.over \/ EndsReader(s.filter, l)) \in BOOLEAN
  OBVIOUS
<1>5. Show(s, l).lines \in Seq(Lines)
  BY <1>1 DEF Show, ShownStates
<1> QED BY <1>2, <1>3, <1>4, <1>5 DEF Show, ShownStates

(* The equation that defines Replay.                                       *)
ReplayEquation ==
  /\ Replay \in [0 .. Len(sent) -> ShownStates]
  /\ Replay[0] = NothingShown
  /\ \A n \in 1 .. Len(sent) : Replay[n] = Show(Replay[n - 1], sent[n])

LEMMA ReplayIsShown == TypeOK => ReplayEquation
<1> SUFFICES ASSUME sent \in Seq(Lines) PROVE ReplayEquation
  BY DEF TypeOK
<1> DEFINE N == Len(sent)
           Partial(m) == {g \in [0 .. m -> ShownStates] :
                            /\ g[0] = NothingShown
                            /\ \A n \in 1 .. m : g[n] = Show(g[n - 1], sent[n])}
           S == {m \in Nat : m <= N => Partial(m) # {}}
<1>0. N \in Nat /\ \A n \in 1 .. N : sent[n] \in Lines
  BY LenProperties, ElementOfSeq
<1>1. 0 \in S
  <2>1. "boot" \in Lines
    BY DEF Lines
  <2>2. NothingShown \in ShownStates
    BY <1>0, EmptySeq DEF NothingShown, ShownStates, Filtering
  <2>3. [n \in 0 .. 0 |-> NothingShown] \in Partial(0)
    BY <2>2
  <2> QED BY <2>3
<1>2. ASSUME NEW m \in Nat, m \in S PROVE m + 1 \in S
  <2> SUFFICES ASSUME m + 1 <= N PROVE Partial(m + 1) # {}
    OBVIOUS
  <2>1. PICK g \in Partial(m) : TRUE
    BY <1>0, <1>2
  <2> DEFINE h == [n \in 0 .. m + 1 |-> IF n = m + 1 THEN Show(g[m], sent[m + 1]) ELSE g[n]]
  <2>2. g \in [0 .. m -> ShownStates] /\ m \in 0 .. m /\ m + 1 \in 1 .. N
    BY <2>1, <1>0
  <2>3. Show(g[m], sent[m + 1]) \in ShownStates
    BY <2>2, <1>0, ShowType
  <2>4. h \in [0 .. m + 1 -> ShownStates]
    BY <2>2, <2>3
  <2>5. h[0] = NothingShown
    BY <2>1
  <2>6. ASSUME NEW n \in 1 .. m + 1 PROVE h[n] = Show(h[n - 1], sent[n])
    <3>1. CASE n = m + 1
      <4>1. h[n] = Show(g[m], sent[n]) /\ h[n - 1] = g[m]
        BY <3>1
      <4> QED BY <4>1
    <3>2. CASE n # m + 1
      <4>1. n \in 1 .. m /\ n - 1 \in 0 .. m + 1 /\ n - 1 # m + 1
        BY <3>2
      <4>2. h[n] = g[n] /\ h[n - 1] = g[n - 1]
        BY <4>1, <3>2
      <4> QED BY <4>1, <4>2, <2>1
    <3> QED BY <3>1, <3>2
  <2> HIDE DEF h
  <2>7. h \in Partial(m + 1)
    BY <2>4, <2>5, <2>6
  <2> QED BY <2>7
<1>3. PICK f \in Partial(N) : TRUE
  <2>1. N \in S
    <3> HIDE DEF S
    <3> QED BY <1>0, <1>1, <1>2, SetInduction
  <2> QED BY <2>1, <1>0
<1>4. f = [n \in 0 .. N |-> IF n = 0 THEN NothingShown ELSE Show(f[n - 1], sent[n])]
  BY <1>0, <1>3
<1>5. Replay = [n \in 0 .. N |-> IF n = 0 THEN NothingShown ELSE Show(Replay[n - 1], sent[n])]
  BY <1>4 DEF Replay
<1> DEFINE A == {n \in Nat : n <= N => Replay[n] = f[n]}
<1>6. Nat \subseteq A
  <2>1. 0 \in A
    BY <1>0, <1>3, <1>5
  <2>2. ASSUME NEW n \in Nat, n \in A PROVE n + 1 \in A
    <3> SUFFICES ASSUME n + 1 <= N PROVE Replay[n + 1] = f[n + 1]
      OBVIOUS
    <3>1. n + 1 \in 0 .. N /\ n + 1 # 0 /\ (n + 1) - 1 = n /\ Replay[n] = f[n]
      BY <1>0, <2>2
    <3>2. Replay[n + 1] = Show(Replay[n], sent[n + 1])
      BY <1>5, <3>1
    <3>3. f[n + 1] = Show(f[n], sent[n + 1])
      BY <1>4, <3>1
    <3> QED BY <3>1, <3>2, <3>3
  <2> HIDE DEF A
  <2> QED BY <2>1, <2>2, SetInduction
<1>7. Replay = f
  <2>1. \A n \in 0 .. N : Replay[n] = f[n]
    BY <1>0, <1>6
  <2>2. f \in [0 .. N -> ShownStates]
    BY <1>3
  <2> QED BY <1>5, <2>1, <2>2
<1> QED BY <1>3, <1>7 DEF ReplayEquation

(* What is shown of some lines does not change with what is printed later. *)
LEMMA ReplayStays ==
  ASSUME TypeOK, TypeOK', mode' = mode, Len(sent) <= Len(sent'),
         \A i \in 1 .. Len(sent) : sent'[i] = sent[i]
  PROVE  \A n \in 0 .. Len(sent) : Replay'[n] = Replay[n]
<1> DEFINE S == {n \in Nat : n <= Len(sent) => Replay'[n] = Replay[n]}
<1>0. Len(sent) \in Nat /\ Len(sent') \in Nat
  BY LenProperties DEF TypeOK
<1>1. ReplayEquation /\ ReplayEquation'
  BY ReplayIsShown, PTL
<1>2. Replay[0] = NothingShown /\ Replay'[0] = NothingShown
  BY <1>1 DEF ReplayEquation, NothingShown, Filtering
<1>3. ASSUME NEW n \in 1 .. Len(sent), Replay'[n - 1] = Replay[n - 1]
      PROVE  Replay'[n] = Replay[n]
  <2>1. n \in 1 .. Len(sent') /\ sent'[n] = sent[n]
    BY <1>0
  <2>2. Replay'[n] = Show(Replay[n - 1], sent[n])'
    BY <1>1, <1>3, <2>1 DEF ReplayEquation
  <2>3. Show(Replay[n - 1], sent[n])' = Show(Replay[n - 1], sent[n])
    BY <1>3, <2>1 DEF Show, EndsReader, Skipped, Filtering, EndOf
  <2> QED BY <1>1, <2>2, <2>3 DEF ReplayEquation
<1>4. Nat \subseteq S
  <2>1. 0 \in S
    BY <1>2
  <2>2. ASSUME NEW n \in Nat, n \in S PROVE n + 1 \in S
    <3> SUFFICES ASSUME n + 1 <= Len(sent) PROVE Replay'[n + 1] = Replay[n + 1]
      OBVIOUS
    <3>1. n + 1 \in 1 .. Len(sent) /\ (n + 1) - 1 = n /\ Replay'[n] = Replay[n]
      BY <1>0, <2>2
    <3> QED BY <1>3, <3>1
  <2> HIDE DEF S
  <2> QED BY <2>1, <2>2, SetInduction
<1> QED BY <1>0, <1>4

(* What IsPrefix says, element by element.                                 *)
LEMMA PrefixElements ==
  ASSUME NEW S, NEW s \in Seq(S), NEW t \in Seq(S)
  PROVE  IsPrefix(s, t) <=> Len(s) <= Len(t) /\ \A i \in 1 .. Len(s) : s[i] = t[i]
<1>0. Len(s) \in Nat /\ Len(t) \in Nat
  BY LenProperties
<1> SUFFICES ASSUME Len(s) <= Len(t)
             PROVE  SubSeq(s, 1, Len(s)) = SubSeq(t, 1, Len(s))
                      <=> \A i \in 1 .. Len(s) : s[i] = t[i]
  BY <1>0 DEF IsPrefix
<1> DEFINE u == SubSeq(s, 1, Len(s))
           v == SubSeq(t, 1, Len(s))
<1>1. u \in Seq(S) /\ Len(u) = Len(s) /\ \A i \in 1 .. Len(s) : u[i] = s[i]
  BY <1>0, SubSeqProperties
<1>2. v \in Seq(S) /\ Len(v) = Len(s) /\ \A i \in 1 .. Len(s) : v[i] = t[i]
  BY <1>0, SubSeqProperties
<1> HIDE DEF u, v
<1>3. ASSUME \A i \in 1 .. Len(s) : s[i] = t[i] PROVE u = v
  BY <1>1, <1>2, <1>3, SeqEqual
<1> QED BY <1>1, <1>2, <1>3

LEMMA PrefixSelf == \A S : \A s \in Seq(S) : IsPrefix(s, s)
BY PrefixElements, LenProperties

LEMMA PrefixTransitive ==
  ASSUME NEW S, NEW s \in Seq(S), NEW t \in Seq(S), NEW u \in Seq(S),
         IsPrefix(s, t), IsPrefix(t, u)
  PROVE  IsPrefix(s, u)
BY PrefixElements, LenProperties

LEMMA PrefixAppend ==
  ASSUME NEW S, NEW s \in Seq(S), NEW e \in S
  PROVE  IsPrefix(s, Append(s, e))
<1>1. /\ Append(s, e) \in Seq(S) /\ Len(Append(s, e)) = Len(s) + 1 /\ Len(s) \in Nat
      /\ \A i \in 1 .. Len(s) : Append(s, e)[i] = s[i]
  BY AppendProperties, LenProperties
<1> DEFINE t == Append(s, e)
<1>2. t \in Seq(S) /\ Len(s) <= Len(t) /\ \A i \in 1 .. Len(s) : s[i] = t[i]
  BY <1>1
<1> HIDE DEF t
<1>3. IsPrefix(s, t)
  BY <1>2, PrefixElements
<1> QED BY <1>3 DEF t

(* The lines shown only grow, and a run that is over shows nothing more.   *)
LEMMA ReplayGrows ==
  ASSUME TypeOK, NEW m \in 0 .. Len(sent)
  PROVE  \A n \in m .. Len(sent) :
           /\ IsPrefix(Replay[m].lines, Replay[n].lines)
           /\ Replay[m].over => Replay[n].over /\ Replay[n].lines = Replay[m].lines
<1>0. ReplayEquation /\ Len(sent) \in Nat
  BY ReplayIsShown, LenProperties DEF TypeOK
<1> DEFINE Grown(n) == /\ IsPrefix(Replay[m].lines, Replay[n].lines)
                       /\ Replay[m].over => Replay[n].over /\ Replay[n].lines = Replay[m].lines
           S == {d \in Nat : m + d <= Len(sent) => Grown(m + d)}
<1>1. 0 \in S
  BY <1>0, PrefixSelf DEF ReplayEquation, ShownStates
<1>2. ASSUME NEW d \in Nat, d \in S PROVE d + 1 \in S
  <2> SUFFICES ASSUME m + (d + 1) <= Len(sent) PROVE Grown(m + (d + 1))
    OBVIOUS
  <2> DEFINE n == m + (d + 1)
  <2>1. n \in 1 .. Len(sent) /\ n - 1 = m + d /\ m + d <= Len(sent) /\ Grown(m + d)
    BY <1>0, <1>2
  <2>2. Replay[n] = Show(Replay[n - 1], sent[n]) /\ sent[n] \in Lines
    BY <1>0, <2>1, ElementOfSeq DEF ReplayEquation, TypeOK
  <2>3. Replay[m] \in ShownStates /\ Replay[n - 1] \in ShownStates /\ Replay[n] \in ShownStates
    BY <1>0, <2>1 DEF ReplayEquation
  <2>4. Replay[n].lines = Replay[n - 1].lines \/ Replay[n].lines = Append(Replay[n - 1].lines, sent[n])
    BY <2>2 DEF Show
  <2>5. IsPrefix(Replay[n - 1].lines, Replay[n].lines)
    <3>1. Replay[n - 1].lines \in Seq(Lines)
      BY <2>3 DEF ShownStates
    <3>2. IsPrefix(Replay[n - 1].lines, Replay[n - 1].lines)
      BY <3>1, PrefixSelf
    <3>3. IsPrefix(Replay[n - 1].lines, Append(Replay[n - 1].lines, sent[n]))
      BY <2>2, <3>1, PrefixAppend
    <3> QED BY <2>4, <3>2, <3>3
  <2>6. IsPrefix(Replay[m].lines, Replay[n].lines)
    BY <2>1, <2>3, <2>5, PrefixTransitive DEF ShownStates
  <2>7. Replay[n - 1].over => Replay[n].over /\ Replay[n].lines = Replay[n - 1].lines
    <3>1. /\ Show(Replay[n - 1], sent[n]).over
               = (Replay[n - 1].over \/ EndsReader(Replay[n - 1].filter, sent[n]))
          /\ Replay[n - 1].over => Show(Replay[n - 1], sent[n]).lines = Replay[n - 1].lines
      BY DEF Show
    <3> QED BY <2>2, <3>1
  <2> QED BY <2>1, <2>6, <2>7
<1>3. Nat \subseteq S
  <2> HIDE DEF S
  <2> QED BY <1>1, <1>2, SetInduction
<1>4. ASSUME NEW n \in m .. Len(sent) PROVE Grown(n)
  <2>1. n - m \in Nat /\ m + (n - m) = n
    BY <1>0
  <2> HIDE DEF Grown
  <2> QED BY <1>0, <1>3, <2>1
<1> QED BY <1>4

--------------------------------------------------------------------------------
(* Where the output is on its way from the server to the user.  Passed     *)
(* lines have left the scanner; behind them come, in the order they were   *)
(* printed, the scanner's buffer, the pipe and the terminal.               *)
Passed == Len(sent) - Len(pty) - Len(chunk) - Len(scanned)

Underway ==
  /\ Passed >= 0
  /\ \A i \in 1 .. Len(scanned) : scanned[i] = sent[Passed + i]
  /\ \A i \in 1 .. Len(chunk)   : chunk[i] = sent[Passed + Len(scanned) + i]
  /\ \A i \in 1 .. Len(pty)     : pty[i] = sent[Passed + Len(scanned) + Len(chunk) + i]

(* The reader is where Show is after the lines that have passed, and until *)
(* the output fails or the context is done main lacks at most the line the *)
(* reader is sending.                                                      *)
Relayed ==
  /\ filter = Replay[Passed].filter
  /\ reader \in {"reading", "sending"} => ~Replay[Passed].over
  /\ reader = "terminating" => Replay[Passed].over
  /\ IsPrefix(printed, Replay[Passed].lines)
  /\ writable /\ (reader # "done" \/ ~cancelled)
       => Replay[Passed].lines = IF reader = "sending" THEN Append(printed, line) ELSE printed

(* When the reader is done without having seen the end of the run, nothing *)
(* is left between it and the server.                                      *)
Drained ==
  /\ server = "none" => pty = <<>>
  /\ copier = "done" => pty = <<>> /\ Ended
  /\ runner \in {"sending", "done"} => server = "none" \/ copier = "done"
  /\ pipeClosed => runner = "done"
  /\ reader = "done" /\ ~cancelled
       => Replay[Passed].over \/ (scanned = <<>> /\ chunk = <<>> /\ pipeClosed)

LEMMA Lengths ==
  ASSUME TypeOK
  PROVE  /\ Len(sent) \in Nat /\ Len(pty) \in Nat /\ Len(chunk) \in Nat /\ Len(scanned) \in Nat
         /\ Underway => Passed \in 0 .. Len(sent)
BY LenProperties DEF TypeOK, Underway, Passed

LEMMA NothingOnTheWay == Len(<<>>) = 0 /\ \A S : <<>> \in Seq(S)
BY EmptySeq

(* Moving the first n elements of a sequence on.                           *)
LEMMA SplitSegments ==
  ASSUME NEW S, NEW q \in Seq(S), NEW n \in 1 .. Len(q)
  PROVE  /\ Len(SubSeq(q, 1, n)) = n /\ Len(SubSeq(q, n + 1, Len(q))) = Len(q) - n
         /\ \A i \in 1 .. n : SubSeq(q, 1, n)[i] = q[i]
         /\ \A i \in 1 .. Len(q) - n : SubSeq(q, n + 1, Len(q))[i] = q[n + i]
<1>0. Len(q) \in Nat /\ \A i \in 1 .. Len(q) : q[i] \in S
  BY LenProperties, ElementOfSeq
<1>1. /\ Len(SubSeq(q, 1, n)) = n
      /\ \A i \in 1 .. n : SubSeq(q, 1, n)[i] = q[i]
  BY <1>0, SubSeqProperties
<1>2. /\ Len(SubSeq(q, n + 1, Len(q))) = Len(q) - n
      /\ \A i \in 1 .. Len(q) - n : SubSeq(q, n + 1, Len(q))[i] = q[n + i]
  <2>1. /\ Len(SubSeq(q, n + 1, Len(q))) = IF n + 1 <= Len(q) THEN Len(q) - (n + 1) + 1 ELSE 0
        /\ \A i \in 1 .. Len(q) - (n + 1) + 1 : SubSeq(q, n + 1, Len(q))[i] = q[(n + 1) + i - 1]
    BY <1>0, SubSeqProperties
  <2> QED BY <1>0, <2>1
<1> QED BY <1>1, <1>2

LEMMA InitOutput == Init => Underway /\ Relayed /\ Drained
<1> SUFFICES ASSUME Init PROVE Underway /\ Relayed /\ Drained
  OBVIOUS
<1>1. TypeOK
  BY InitTypeOK
<1>2. Passed = 0 /\ Underway
  <2>1. Len(sent) = 0 /\ Len(pty) = 0 /\ Len(chunk) = 0 /\ Len(scanned) = 0
    BY NothingOnTheWay DEF Init
  <2> QED BY <2>1 DEF Passed, Underway
<1>3. Replay[0] = NothingShown
  BY <1>1, ReplayIsShown DEF ReplayEquation
<1>4. IsPrefix(<<>>, <<>>)
  BY NothingOnTheWay, PrefixSelf
<1>5. filter = [preamble |-> Filtering, space |-> FALSE]
  <2>1. mode \in {"main", "y_testing"} <=> mode # "server"
    BY ModesAssumption DEF Init, ModesAssumption, AllModes
  <2>2. filter = [preamble |-> mode \in {"main", "y_testing"}, space |-> FALSE]
    BY DEF Init
  <2>3. (mode \in {"main", "y_testing"}) = Filtering
    BY <2>1 DEF Filtering
  <2> QED BY <2>2, <2>3, Zenon
<1>6. Relayed
  <2>1. /\ Replay[Passed].filter = [preamble |-> Filtering, space |-> FALSE]
        /\ Replay[Passed].over = FALSE /\ Replay[Passed].lines = <<>>
    BY <1>2, <1>3 DEF NothingShown
  <2>2. printed = <<>> /\ reader = "reading"
    BY DEF Init
  <2> QED BY <1>4, <1>5, <2>1, <2>2 DEF Relayed
<1>7. Drained
  BY DEF Init, Drained
<1> QED BY <1>2, <1>6, <1>7

(* The steps that move a line, and what every other step leaves as it is.  *)
LEMMA OtherSteps ==
  ASSUME [Next]_vars
  PROVE  /\ mode' = mode
         /\ ServerPrints \/ UNCHANGED sent
         /\ ServerPrints \/ Copy \/ UNCHANGED pty
         /\ Copy \/ Read \/ UNCHANGED chunk
         /\ Read \/ Scan \/ UNCHANGED scanned
         /\ Scan \/ UNCHANGED filter
         /\ Scan \/ Receive \/ Flush \/ UNCHANGED line
         /\ Receive \/ Flush \/ UNCHANGED printed
         /\ ReadEnds \/ Scan \/ GiveUp \/ ReaderSends \/ Receive \/ Flush \/ UNCHANGED reader
         /\ Interrupt \/ UNCHANGED <<cancelled, writable>>
         /\ Register \/ CopyEnds \/ UNCHANGED copier
         /\ StartServer \/ Register \/ Wait \/ RunnerSends \/ UNCHANGED runner
         /\ Join \/ UNCHANGED pipeClosed
         /\ StartServer \/ ServerEnds \/ ContextKill \/ Stop \/ UNCHANGED server
BY DEF serverVars, readerVars, runnerVars, mainVars, worldVars, vars, Next, RunnerNext, CopierNext,
   ReaderNext, MainNext, LineNext, ServerPrints, ServerEnds, Interrupt, FeedEnds, StartServer, Register,
   ContextKill, Wait, RunnerSends, Copy, CopyEnds, Read, ReadEnds, Scan, GiveUp, ReaderSends,
   TakeSignal, TakeTermination, TakeContext, Stop, Join, Return, Receive, Flush, Terminate

(* Lines are appended to sent, and what Show made of the earlier ones      *)
(* stays.                                                                  *)
LEMMA NextReplay ==
  ASSUME TypeOK, [Next]_vars
  PROVE  /\ Len(sent) <= Len(sent')
         /\ \A i \in 1 .. Len(sent) : sent'[i] = sent[i]
         /\ \A n \in 0 .. Len(sent) : Replay'[n] = Replay[n]
<1>1. TypeOK'
  BY NextTypeOK
<1>2. mode' = mode /\ (ServerPrints \/ UNCHANGED sent)
  BY OtherSteps
<1>3. Len(sent) <= Len(sent') /\ \A i \in 1 .. Len(sent) : sent'[i] = sent[i]
  <2>1. CASE UNCHANGED sent
    BY <2>1, Lengths
  <2>2. CASE ServerPrints
    <3>1. sent' = Append(sent, Head(script)) /\ Head(script) \in Lines
      BY <2>2, TailElems DEF ServerPrints, TypeOK
    <3> QED BY <3>1, AppendProperties, LenProperties DEF TypeOK
  <2> QED BY <1>2, <2>1, <2>2
<1> QED BY <1>1, <1>2, <1>3, ReplayStays

(* No line is lost, doubled or overtaken between the server and the        *)
(* scanner.                                                                *)
LEMMA NextUnderway ==
  ASSUME TypeOK, Underway, [Next]_vars
  PROVE  /\ Underway'
         /\ ~Scan => Passed' = Passed
         /\ Scan => /\ Passed' = Passed + 1 /\ Passed + 1 \in 1 .. Len(sent)
                    /\ sent[Passed + 1] = Head(scanned)
<1> USE DEF serverVars, readerVars, runnerVars
<1>0. /\ Len(sent) \in Nat /\ Len(pty) \in Nat /\ Len(chunk) \in Nat /\ Len(scanned) \in Nat
      /\ Passed \in 0 .. Len(sent)
  BY Lengths
<1>1. /\ Len(sent) <= Len(sent')
      /\ \A i \in 1 .. Len(sent) : sent'[i] = sent[i]
  BY NextReplay
<1>2. CASE ServerPrints
  <2>1. Head(script) \in Lines
    BY <1>2, TailElems DEF ServerPrints, TypeOK
  <2>2. /\ Len(sent') = Len(sent) + 1 /\ sent'[Len(sent) + 1] = Head(script)
        /\ Len(pty') = Len(pty) + 1 /\ pty'[Len(pty) + 1] = Head(script)
        /\ \A i \in 1 .. Len(pty) : pty'[i] = pty[i]
    BY <1>2, <2>1, AppendProperties DEF ServerPrints, TypeOK
  <2>3. UNCHANGED <<chunk, scanned>>
    BY <1>2 DEF ServerPrints
  <2>4. ~Scan
    BY <1>0, <2>2 DEF Scan
  <2>5. Passed' = Passed
    BY <1>0, <2>2, <2>3 DEF Passed
  <2>6. Passed + Len(scanned) + Len(chunk) + Len(pty) = Len(sent)
    BY <1>0 DEF Passed
  <2>7. Underway'
    <3>1. Passed' >= 0 /\ Len(scanned') = Len(scanned) /\ Len(chunk') = Len(chunk)
      BY <1>0, <2>3, <2>5
    <3>2. ASSUME NEW i \in 1 .. Len(scanned) PROVE scanned[i] = sent'[Passed + i]
      <4>1. Passed + i \in 1 .. Len(sent)
        BY <1>0, <2>6
      <4>2. scanned[i] = sent[Passed + i]
        BY DEF Underway
      <4> QED BY <1>1, <4>1, <4>2
    <3>3. ASSUME NEW i \in 1 .. Len(chunk) PROVE chunk[i] = sent'[Passed + Len(scanned) + i]
      <4>1. Passed + Len(scanned) + i \in 1 .. Len(sent)
        BY <1>0, <2>6
      <4>2. chunk[i] = sent[Passed + Len(scanned) + i]
        BY DEF Underway
      <4> QED BY <1>1, <4>1, <4>2
    <3>4. ASSUME NEW i \in 1 .. Len(pty) + 1
          PROVE  pty'[i] = sent'[Passed + Len(scanned) + Len(chunk) + i]
      <4>1. CASE i = Len(pty) + 1
        <5>1. Passed + Len(scanned) + Len(chunk) + i = Len(sent) + 1
          BY <1>0, <2>6, <4>1
        <5> QED BY <2>2, <4>1, <5>1
      <4>2. CASE i # Len(pty) + 1
        <5>1. i \in 1 .. Len(pty) /\ Passed + Len(scanned) + Len(chunk) + i \in 1 .. Len(sent)
          BY <1>0, <2>6, <4>2
        <5>2. pty[i] = sent[Passed + Len(scanned) + Len(chunk) + i]
          BY <5>1 DEF Underway
        <5> QED BY <1>1, <2>2, <5>1, <5>2
      <4> QED BY <4>1, <4>2
    <3> QED BY <2>2, <2>3, <2>5, <3>1, <3>2, <3>3, <3>4 DEF Underway
  <2> QED BY <2>4, <2>5, <2>7
<1>3. CASE Copy
  <2>1. PICK n \in 1 .. Len(pty) : /\ chunk' = SubSeq(pty, 1, n)
                                   /\ pty' = SubSeq(pty, n + 1, Len(pty))
    BY <1>3 DEF Copy
  <2>2. chunk = <<>> /\ Len(chunk) = 0 /\ UNCHANGED <<sent, scanned>>
    BY <1>3, NothingOnTheWay DEF Copy
  <2>3. /\ Len(chunk') = n /\ Len(pty') = Len(pty) - n
        /\ \A i \in 1 .. n : chunk'[i] = pty[i]
        /\ \A i \in 1 .. Len(pty) - n : pty'[i] = pty[n + i]
    BY <1>0, <2>1, SplitSegments DEF TypeOK
  <2>4. ~Scan
    BY <1>0, <2>1, <2>3 DEF Scan
  <2>5. Passed' = Passed /\ n \in Nat
    <3>1. /\ Len(sent') = Len(sent) /\ Len(pty') + Len(chunk') + Len(scanned') = Len(pty) + Len(chunk) + Len(scanned)
          /\ n \in Nat /\ Len(pty') \in Nat /\ Len(chunk') \in Nat /\ Len(scanned') \in Nat
      BY <1>0, <2>2, <2>3
    <3> QED BY <1>0, <3>1 DEF Passed
  <2>6. Underway'
    <3>1. ASSUME NEW i \in 1 .. Len(scanned) PROVE scanned'[i] = sent'[Passed' + i]
      <4>1. scanned[i] = sent[Passed + i]
        BY DEF Underway
      <4> QED BY <2>2, <2>5, <4>1
    <3>2. ASSUME NEW i \in 1 .. n PROVE chunk'[i] = sent'[Passed' + Len(scanned) + i]
      <4>1. i \in 1 .. Len(pty) /\ Passed + Len(scanned) + 0 + i = Passed + Len(scanned) + i
        BY <1>0, <2>5
      <4>2. pty[i] = sent[Passed + Len(scanned) + Len(chunk) + i]
        BY <4>1 DEF Underway
      <4> QED BY <2>2, <2>3, <2>5, <4>1, <4>2
    <3>3. ASSUME NEW i \in 1 .. Len(pty) - n
          PROVE  pty'[i] = sent'[Passed' + Len(scanned) + n + i]
      <4>1. n + i \in 1 .. Len(pty) /\ Passed + Len(scanned) + 0 + (n + i) = Passed + Len(scanned) + n + i
        BY <1>0, <2>5
      <4>2. pty[n + i] = sent[Passed + Len(scanned) + Len(chunk) + (n + i)]
        BY <4>1 DEF Underway
      <4> QED BY <2>2, <2>3, <2>5, <4>1, <4>2
    <3> QED BY <1>0, <2>2, <2>3, <2>5, <3>1, <3>2, <3>3 DEF Underway
  <2> QED BY <2>4, <2>5, <2>6
<1>4. CASE Read
  <2>1. PICK n \in 1 .. Len(chunk) : /\ scanned' = SubSeq(chunk, 1, n)
                                     /\ chunk' = SubSeq(chunk, n + 1, Len(chunk))
    BY <1>4 DEF Read
  <2>2. scanned = <<>> /\ Len(scanned) = 0 /\ UNCHANGED <<sent, pty>>
    BY <1>4, NothingOnTheWay DEF Read
  <2>3. /\ Len(scanned') = n /\ Len(chunk') = Len(chunk) - n
        /\ \A i \in 1 .. n : scanned'[i] = chunk[i]
        /\ \A i \in 1 .. Len(chunk) - n : chunk'[i] = chunk[n + i]
    BY <1>0, <2>1, SplitSegments DEF TypeOK
  <2>4. ~Scan
    BY <2>2 DEF Scan
  <2>5. Passed' = Passed /\ n \in Nat
    <3>1. /\ Len(sent') = Len(sent) /\ Len(pty') + Len(chunk') + Len(scanned') = Len(pty) + Len(chunk) + Len(scanned)
          /\ n \in Nat /\ Len(pty') \in Nat /\ Len(chunk') \in Nat /\ Len(scanned') \in Nat
      BY <1>0, <2>2, <2>3
    <3> QED BY <1>0, <3>1 DEF Passed
  <2>6. Underway'
    <3>1. \A i \in 1 .. n : scanned'[i] = sent[Passed + i]
      BY <1>0, <2>2, <2>3, <2>5 DEF Underway
    <3>2. ASSUME NEW i \in 1 .. Len(chunk) - n PROVE chunk'[i] = sent[Passed + n + i]
      <4>1. n + i \in 1 .. Len(chunk) /\ Passed + 0 + (n + i) = Passed + n + i
        BY <1>0, <2>5
      <4>2. chunk[n + i] = sent[Passed + Len(scanned) + (n + i)]
        BY <4>1 DEF Underway
      <4> QED BY <2>2, <2>3, <4>1, <4>2
    <3>3. ASSUME NEW i \in 1 .. Len(pty) PROVE pty[i] = sent[Passed + n + (Len(chunk) - n) + i]
      <4>1. Passed + n + (Len(chunk) - n) + i = Passed + 0 + Len(chunk) + i
        BY <1>0, <2>5
      <4>2. pty[i] = sent[Passed + Len(scanned) + Len(chunk) + i]
        BY DEF Underway
      <4> QED BY <2>2, <4>1, <4>2
    <3> QED BY <1>0, <2>2, <2>3, <2>5, <3>1, <3>2, <3>3 DEF Underway
  <2> QED BY <2>4, <2>5, <2>6
<1>5. CASE Scan
  <2>1. scanned # <<>> /\ scanned' = Tail(scanned) /\ UNCHANGED <<sent, pty, chunk>>
    BY <1>5 DEF Scan
  <2>2. /\ Len(scanned') = Len(scanned) - 1 /\ Head(scanned) = scanned[1] /\ Len(scanned) # 0
        /\ \A i \in 1 .. Len(scanned) - 1 : scanned'[i] = scanned[i + 1]
    BY <2>1, HeadTailProperties, EmptySeq DEF TypeOK
  <2>3. Passed' = Passed + 1 /\ Passed + 1 \in 1 .. Len(sent)
    BY <1>0, <2>1, <2>2 DEF Passed
  <2>4. sent[Passed + 1] = Head(scanned)
    BY <1>0, <2>2 DEF Underway
  <2>5. Underway'
    BY <1>0, <2>1, <2>2, <2>3 DEF Underway
  <2> QED BY <1>5, <2>3, <2>4, <2>5
<1>6. CASE UNCHANGED <<sent, pty, chunk, scanned>>
  <2>1. ~Scan
    BY <1>0, <1>6, HeadTailProperties DEF Scan, TypeOK
  <2>2. Passed' = Passed /\ Underway'
    BY <1>6 DEF Passed, Underway
  <2> QED BY <2>1, <2>2
<1> QED BY <1>2, <1>3, <1>4, <1>5, <1>6, OtherSteps

(* A scanned line is the next one Show takes.                              *)
LEMMA ScanShows ==
  ASSUME TypeOK, Underway, [Next]_vars, Scan
  PROVE  Replay'[Passed'] = Show(Replay[Passed], Head(scanned))
<1>0. ReplayEquation /\ Passed \in 0 .. Len(sent)
  BY ReplayIsShown, Lengths
<1>1. /\ Passed' = Passed + 1 /\ Passed + 1 \in 1 .. Len(sent) /\ (Passed + 1) - 1 = Passed
      /\ sent[Passed + 1] = Head(scanned)
  BY <1>0, NextUnderway
<1>2. Replay'[Passed + 1] = Replay[Passed + 1]
  BY <1>1, NextReplay
<1>3. Replay[Passed + 1] = Show(Replay[Passed], sent[Passed + 1])
  BY <1>0, <1>1 DEF ReplayEquation
<1> QED BY <1>1, <1>2, <1>3

(* The reader works on its lines as Show does, and main misses none.       *)
LEMMA NextRelayed ==
  ASSUME TypeOK, Underway, Relayed, [Next]_vars PROVE Relayed'
<1> DEFINE now == Replay[Passed]
           then == Replay'[Passed']
<1>0. TypeOK' /\ ReplayEquation /\ Passed \in 0 .. Len(sent)
  BY NextTypeOK, ReplayIsShown, Lengths
<1>1. now \in ShownStates
  BY <1>0 DEF ReplayEquation
<1>2. mode' = mode
  BY OtherSteps
<1>3. ~Scan => then = now
  <2> SUFFICES ASSUME ~Scan PROVE then = now
    OBVIOUS
  <2>1. Passed' = Passed
    BY NextUnderway
  <2> QED BY <1>0, <2>1, NextReplay
<1>4. CASE Scan
  <2> DEFINE l == Head(scanned)
  <2>2. then = Show(now, l)
    BY <1>4, ScanShows
  <2>3. /\ reader = "reading" /\ filter' = FilterAfter(filter, l)
        /\ \/ EndsReader(filter, l) /\ reader' \in {"terminating", "done"}
           \/ ~EndsReader(filter, l) /\ Skipped(filter, l) /\ UNCHANGED <<line, reader>>
           \/ /\ ~EndsReader(filter, l) /\ ~Skipped(filter, l)
              /\ line' = l /\ reader' = "sending"
        /\ UNCHANGED <<printed, writable, cancelled>>
    BY <1>4 DEF Scan, EndsReader, mainVars, worldVars
  <2>4. ~now.over /\ now.filter = filter /\ IsPrefix(printed, now.lines)
        /\ (writable => now.lines = printed)
    BY <2>3 DEF Relayed
  <2>5. /\ then.filter = FilterAfter(filter, l)
        /\ then.over <=> EndsReader(filter, l)
        /\ then.lines = IF EndsReader(filter, l) \/ Skipped(filter, l)
                        THEN now.lines ELSE Append(now.lines, l)
    <3>1. /\ then.filter = FilterAfter(now.filter, l)
          /\ then.over = (now.over \/ EndsReader(now.filter, l))
          /\ then.lines = IF now.over \/ EndsReader(now.filter, l) \/ Skipped(now.filter, l)
                          THEN now.lines ELSE Append(now.lines, l)
      BY <2>2 DEF Show
    <3> HIDE DEF now, then
    <3> QED BY <2>4, <3>1
  <2>6. IsPrefix(printed, then.lines)
    <3>1. l \in Lines /\ now.lines \in Seq(Lines) /\ printed \in Seq(Lines)
      BY <1>1, <1>4, TailElems DEF Scan, TypeOK, ShownStates
    <3>2. IsPrefix(now.lines, Append(now.lines, l)) /\ Append(now.lines, l) \in Seq(Lines)
      BY <3>1, PrefixAppend, AppendElems
    <3>3. IsPrefix(printed, Append(now.lines, l))
      BY <2>4, <3>1, <3>2, PrefixTransitive
    <3> QED BY <2>4, <2>5, <3>3
  <2> HIDE DEF now, then, l
  <2>7. Relayed' <=>
          /\ filter' = then.filter
          /\ reader' \in {"reading", "sending"} => ~then.over
          /\ reader' = "terminating" => then.over
          /\ IsPrefix(printed', then.lines)
          /\ writable' /\ (reader' # "done" \/ ~cancelled')
               => then.lines = IF reader' = "sending" THEN Append(printed', line') ELSE printed'
    BY DEF Relayed, then
  <2>8. reader' \in {"reading", "sending"} => ~then.over
    BY <2>3, <2>5
  <2>9. reader' = "terminating" => then.over
    BY <2>3, <2>5
  <2>10. writable => then.lines = IF reader' = "sending" THEN Append(printed', line') ELSE printed'
    BY <2>3, <2>4, <2>5
  <2> QED BY <2>3, <2>5, <2>6, <2>7, <2>8, <2>9, <2>10
<1>5. CASE Receive \/ Flush
  <2>1. ~Scan /\ reader = "sending" /\ reader' = "reading" /\ UNCHANGED <<filter, writable, cancelled>>
        /\ printed' = IF writable THEN Append(printed, line) ELSE printed
    BY <1>5 DEF Receive, Flush, Scan, Terminate, worldVars
  <2>2. then = now
    BY <1>3, <2>1
  <2>3. /\ filter = now.filter /\ ~now.over /\ IsPrefix(printed, now.lines)
        /\ writable => now.lines = Append(printed, line)
    BY <2>1 DEF Relayed
  <2>4. IsPrefix(now.lines, now.lines)
    BY <1>1, PrefixSelf DEF ShownStates
  <2>5. IsPrefix(printed', now.lines) /\ (writable => now.lines = printed')
    BY <2>1, <2>3, <2>4
  <2> HIDE DEF now
  <2> QED BY <2>1, <2>2, <2>3, <2>5 DEF Relayed
<1>6. CASE ~Scan /\ ~Receive /\ ~Flush
  <2>1. then = now /\ UNCHANGED <<filter, line, printed>>
    BY <1>3, <1>6, OtherSteps
  <2>2. (cancelled => cancelled') /\ (writable' => writable)
    <3>1. CASE Interrupt
      BY <3>1 DEF Interrupt, TypeOK
    <3> QED BY <3>1, OtherSteps
  <2>3. \/ UNCHANGED reader
        \/ ReadEnds /\ reader = "reading" /\ reader' = "done"
        \/ GiveUp /\ reader = "sending" /\ reader' = "done" /\ cancelled
        \/ ReaderSends /\ reader = "terminating" /\ reader' = "done"
    BY <1>6, OtherSteps DEF ReadEnds, GiveUp, ReaderSends
  <2>4. /\ filter = now.filter /\ IsPrefix(printed, now.lines)
        /\ reader \in {"reading", "sending"} => ~now.over
        /\ reader = "terminating" => now.over
        /\ writable /\ (reader # "done" \/ ~cancelled)
             => now.lines = IF reader = "sending" THEN Append(printed, line) ELSE printed
    BY DEF Relayed
  <2> HIDE DEF now, then
  <2>5. /\ filter' = then.filter /\ IsPrefix(printed', then.lines)
        /\ reader' \in {"reading", "sending"} => ~then.over
        /\ reader' = "terminating" => then.over
    BY <2>1, <2>3, <2>4
  <2>6. ASSUME writable', reader' # "done" \/ ~cancelled'
        PROVE  then.lines = IF reader' = "sending" THEN Append(printed', line') ELSE printed'
    BY <2>1, <2>2, <2>3, <2>4, <2>6
  <2> QED BY <2>5, <2>6 DEF Relayed, then
<1> QED BY <1>4, <1>5, <1>6

(* Whoever ends has passed everything on.                                  *)
LEMMA NextDrained ==
  ASSUME TypeOK, Joined, Underway, Relayed, Drained, [Next]_vars PROVE Drained'
<1> USE DEF Joined, Drained, serverVars, readerVars, runnerVars, mainVars, worldVars
<1>0. Passed \in 0 .. Len(sent)
  BY Lengths
<1>1. server' = "none" => pty' = <<>>
  BY OtherSteps DEF ServerPrints, Copy, StartServer, ServerEnds, ContextKill, Stop
<1>2. copier' = "done" => pty' = <<>> /\ Ended'
  BY OtherSteps DEF ServerPrints, Copy, StartServer, Register, CopyEnds, ServerEnds, ContextKill, Stop, Ended
<1>3. runner' \in {"sending", "done"} => server' = "none" \/ copier' = "done"
  BY OtherSteps DEF StartServer, Register, Wait, RunnerSends, CopyEnds, ServerEnds, ContextKill, Stop
<1>4. pipeClosed' => runner' = "done"
  BY OtherSteps DEF Join, StartServer, Register, Wait, RunnerSends
<1>5. ASSUME reader' = "done", ~cancelled'
      PROVE  Replay'[Passed'].over \/ (scanned' = <<>> /\ chunk' = <<>> /\ pipeClosed')
  <2>1. ~cancelled /\ ~Read /\ ~Receive /\ ~Flush /\ ~GiveUp
    <3>1. ~cancelled
      BY <1>5, OtherSteps, Zenon DEF Interrupt
    <3>2. ~Read /\ ~Receive /\ ~Flush /\ ~GiveUp
      BY <1>5, <3>1 DEF Read, Receive, Flush, GiveUp
    <3> QED BY <3>1, <3>2
  <2>2. CASE Scan
    <3>1. EndsReader(Replay[Passed].filter, Head(scanned))
      BY <1>5, <2>2 DEF Scan, EndsReader
    <3>2. Replay'[Passed'] = Show(Replay[Passed], Head(scanned))
      BY <2>2, ScanShows
    <3>3. ASSUME NEW s, NEW l, EndsReader(s.filter, l) PROVE Show(s, l).over
      BY <3>3 DEF Show
    <3> QED BY <3>1, <3>2, <3>3
  <2>3. CASE ~Scan
    <3>1. Passed' = Passed /\ Replay'[Passed] = Replay[Passed]
      BY <1>0, <2>3, NextUnderway, NextReplay
    <3>2. CASE ReaderSends
      BY <3>1, <3>2 DEF ReaderSends, Relayed
    <3>3. CASE ReadEnds
      BY <3>3 DEF ReadEnds
    <3>4. CASE UNCHANGED reader
      <4>1. CASE Replay[Passed].over
        BY <3>1, <4>1
      <4>2. CASE scanned = <<>> /\ chunk = <<>> /\ pipeClosed
        <5>1. ~Copy /\ pipeClosed'
          BY <4>2, OtherSteps DEF Copy, Join
        <5> QED BY <2>1, <2>3, <4>2, <5>1, OtherSteps
      <4> QED BY <1>5, <2>1, <3>4, <4>1, <4>2
    <3> QED BY <2>1, <2>3, <3>2, <3>3, <3>4, OtherSteps
  <2> QED BY <2>2, <2>3
<1> QED BY <1>1, <1>2, <1>3, <1>4, <1>5

OutputInv == TypeOK /\ Joined /\ Underway /\ Relayed /\ Drained

LEMMA OutputInvariant == Spec => []OutputInv
<1>1. Init => OutputInv
  BY InitTypeOK, InitJoined, InitOutput DEF OutputInv
<1>2. OutputInv /\ [Next]_vars => OutputInv'
  BY NextTypeOK, NextJoined, NextUnderway, NextRelayed, NextDrained DEF OutputInv
<1> QED BY <1>1, <1>2, PTL DEF Spec

(* The user sees a prefix of what the mode shows of the server's output,   *)
(* whatever the server prints and however its lines are cut into reads.    *)
THEOREM ExecutionOutputInOrder == Spec => []OutputInOrder
<1>1. OutputInv => OutputInOrder
  <2> SUFFICES ASSUME OutputInv PROVE OutputInOrder
    OBVIOUS
  <2>0. TypeOK /\ ReplayEquation /\ Passed \in 0 .. Len(sent) /\ Len(sent) \in Nat
    BY ReplayIsShown, Lengths DEF OutputInv
  <2>1. IsPrefix(printed, Replay[Passed].lines)
    BY DEF OutputInv, Relayed
  <2>2. IsPrefix(Replay[Passed].lines, Replay[Len(sent)].lines)
    BY <2>0, ReplayGrows
  <2>3. printed \in Seq(Lines) /\ Replay[Passed].lines \in Seq(Lines) /\ Replay[Len(sent)].lines \in Seq(Lines)
    <3>1. Replay[Passed] \in ShownStates /\ Replay[Len(sent)] \in ShownStates
      BY <2>0 DEF ReplayEquation
    <3> QED BY <2>0, <3>1 DEF TypeOK, ShownStates
  <2> QED BY <2>1, <2>2, <2>3, PrefixTransitive DEF OutputInOrder, Shown
<1> QED BY <1>1, OutputInvariant, PTL

(* When executeRuntime returns and neither the output failed nor the       *)
(* context is done, all the mode shows of the server's output is printed.  *)
THEOREM ExecutionOutputIsComplete == Spec => []OutputIsComplete
<1>1. OutputInv => OutputIsComplete
  <2> SUFFICES ASSUME OutputInv, main = "returned", writable, ~cancelled PROVE printed = Shown
    BY DEF OutputIsComplete
  <2>0. TypeOK /\ ReplayEquation /\ Passed \in 0 .. Len(sent) /\ Len(sent) \in Nat
    BY ReplayIsShown, Lengths DEF OutputInv
  <2>1. reader = "done" /\ Replay[Passed].lines = printed
    BY DEF OutputInv, Joined, Relayed
  <2>2. CASE Replay[Passed].over
    <3>1. Replay[Len(sent)].lines = Replay[Passed].lines
      BY <2>0, <2>2, ReplayGrows
    <3> QED BY <2>1, <3>1 DEF Shown
  <2>3. CASE scanned = <<>> /\ chunk = <<>> /\ pipeClosed
    <3>1. pty = <<>>
      BY <2>3 DEF OutputInv, Drained
    <3>2. Passed = Len(sent)
      BY <2>0, <2>3, <3>1, NothingOnTheWay DEF Passed
    <3> QED BY <2>1, <3>2 DEF Shown
  <2> QED BY <2>1, <2>2, <2>3 DEF OutputInv, Drained
<1> QED BY <1>1, OutputInvariant, PTL

================================================================================
