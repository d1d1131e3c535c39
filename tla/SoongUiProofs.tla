--------------------------- MODULE SoongUiProofs ----------------------------
(***************************************************************************)
(* Proofs about how soong_ui ends, for any number of tools, of signals and *)
(* of times the terminal is resized.                                       *)
(***************************************************************************)
EXTENDS SoongUi, TLAPS

-----------------------------------------------------------------------------
(* The inductive invariant.                                                *)

TypeOK ==
    /\ pc = [g \in {"main", "cleanup"} |-> pc[g]]
    /\ term = [cursor |-> term.cursor, margins |-> term.margins, blank |-> term.blank]
    /\ entry = [t \in Tools |-> entry[t]]
    /\ signals \in Nat
    /\ sigwinch \in {"open", "closed"}

\* Without a signal there is no cleanup, and main does not panic.
SignalOK ==
    signals = 0 => pc["cleanup"] = "none" /\ timeout = FALSE /\ panicking = FALSE

\* Where main and the cleanup are when one of them has flushed the terminal.
MainFlushed == pc["main"] \in {"critical", "close_trace", "cancel", "close_log", "exit"}
CleanupFlushed == pc["cleanup"] \in {"critical", "exit"}

FlushOK ==
    /\ MainFlushed \/ CleanupFlushed => sigwinch = "closed"
    /\ sigwinch = "closed" /\ signals = 0 => MainFlushed

\* The files are closed by main, or by the cleanup after signals.
FileOK ==
    /\ logFile = "closed" /\ signals = 0 => pc["main"] = "exit"
    /\ pc["main"] = "exit" => logFile # "open"
    /\ pc["main"] \in {"cancel", "close_log", "exit"} => traceFile # "open"

\* The goroutine of the ticks has returned when the terminal is flushed.
TickOK ==
    /\ ~tableMode => ~ticks /\ tick # "lock"
    /\ tableMode /\ (sigwinch = "closed" \/ \E g \in {"main", "cleanup"} : pc[g] = "flush") =>
           tick = "returned"

\* What Flush did stays, and main writes no more after it.
TermOK ==
    /\ sigwinch = "closed" => term.cursor /\ (term.margins \/ redrawn)
    /\ MainFlushed /\ ~panicking => term.blank

\* The channel of log entries is closed when no goroutine sends on it.
RetOK == ret => listener = "closed" /\ \A t \in Tools : entry[t] \notin {"accepted", "decoded"}

\* What holds while the process runs, and at its end.
IInv ==
    /\ TypeOK /\ SignalOK /\ FlushOK /\ FileOK /\ TickOK /\ TermOK /\ RetOK
    /\ CleanExit /\ TerminalRestored

-----------------------------------------------------------------------------

LEMMA InitInv == Init => IInv
BY DEF Init, IInv, TypeOK, SignalOK, FlushOK, MainFlushed, CleanupFlushed, FileOK, TickOK, TermOK,
       RetOK, CleanExit, TerminalRestored

\* Main, up to its deferred calls, and cancel.
LEMMA MainStep ==
    ASSUME IInv, mainLogOutput \/ mainTraceOutput \/ setupPath \/ report \/ mainEnds \/ cancel
    PROVE  IInv'
<1> USE DEF IInv, TypeOK, SignalOK, FlushOK, MainFlushed, CleanupFlushed, FileOK, TickOK, TermOK,
            RetOK, CleanExit, TerminalRestored, Running, Goto, print,
            mainVars, fileVars, signalVars, tickVars, winchVars, termVars, pathVars
<1>1. CASE mainLogOutput
  BY Zenon, <1>1 DEF mainLogOutput
<1>2. CASE mainTraceOutput
  BY <1>2 DEF mainTraceOutput
<1>3. CASE setupPath
  BY <1>3 DEF setupPath
<1>4. CASE report
  BY <1>4 DEF report
<1>5. CASE mainEnds
  BY Zenon, <1>5 DEF mainEnds
<1>6. CASE cancel
  BY Zenon, <1>6 DEF cancel
<1> QED BY Zenon, <1>1, <1>2, <1>3, <1>4, <1>5, <1>6

\* The deferred calls of main, and the cleanup.
LEMMA EndingStep ==
    ASSUME IInv, NEW g \in {"main", "cleanup"}, Ending(g)
    PROVE  IInv'
<1> USE DEF IInv, TypeOK, SignalOK, FlushOK, MainFlushed, CleanupFlushed, FileOK, TickOK, TermOK,
            RetOK, CleanExit, TerminalRestored, Running, Goto, print, After, Panic,
            mainVars, fileVars, signalVars, tickVars, winchVars, termVars, pathVars
<1>1. CASE finishStatus(g)
  BY Zenon, <1>1 DEF finishStatus
<1>2. CASE stopActionTableTick(g)
  BY Zenon, <1>2 DEF stopActionTableTick
<1>3. CASE Flush(g)
  <2>1. CASE g = "main" /\ sigwinch = "open"
    BY <1>3, <2>1 DEF Flush
  <2>2. CASE g = "cleanup" /\ sigwinch = "open"
    BY <1>3, <2>2 DEF Flush
  <2>3. CASE g = "main" /\ sigwinch = "closed"
    BY Zenon, <1>3, <2>3 DEF Flush
  <2>4. CASE g = "cleanup" /\ sigwinch = "closed"
    BY Zenon, <1>3, <2>4 DEF Flush
  <2>5. sigwinch \in {"open", "closed"} /\ g \in {"main", "cleanup"}
    OBVIOUS
  <2> QED BY <2>1, <2>2, <2>3, <2>4, <2>5, Zenon
<1>4. CASE flushCriticalPath(g)
  <2>1. CASE g = "main"
    BY Zenon, <1>4, <2>1 DEF flushCriticalPath
  <2>2. CASE g = "cleanup"
    BY Zenon, <1>4, <2>2 DEF flushCriticalPath
  <2> QED BY <2>1, <2>2, Zenon
<1>5. CASE closeTrace(g)
  <2>1. CASE g = "main"
    BY Zenon, <1>5, <2>1 DEF closeTrace
  <2>2. CASE g = "cleanup"
    BY Zenon, <1>5, <2>2 DEF closeTrace
  <2> QED BY <2>1, <2>2, Zenon
<1>6. CASE closeLog(g)
  <2>1. CASE g = "main"
    BY Zenon, <1>6, <2>1 DEF closeLog
  <2>2. CASE g = "cleanup"
    BY Zenon, <1>6, <2>2 DEF closeLog
  <2> QED BY <2>1, <2>2, Zenon
<1>7. CASE exit(g)
  BY <1>7 DEF exit
<1> QED BY Zenon, <1>1, <1>2, <1>3, <1>4, <1>5, <1>6, <1>7 DEF Ending

\* The handler of signals.
LEMMA SignalStep ==
    ASSUME IInv, receiveSignal \/ receiveTimeout
    PROVE  IInv'
<1> USE DEF IInv, TypeOK, SignalOK, FlushOK, MainFlushed, CleanupFlushed, FileOK, TickOK, TermOK,
            RetOK, CleanExit, TerminalRestored, Running, print, handleTimeout,
            fileVars, tickVars, winchVars, pathVars
<1>1. CASE receiveSignal
  <2>1. signals' \in Nat /\ signals' # 0
    BY <1>1 DEF receiveSignal
  <2>2. CASE timeout
    BY Zenon, <1>1, <2>1, <2>2 DEF receiveSignal
  <2>3. CASE ~timeout
    BY Zenon, <1>1, <2>1, <2>3 DEF receiveSignal
  <2> QED BY <2>2, <2>3, Zenon
<1>2. CASE receiveTimeout
  BY Zenon, <1>2 DEF receiveTimeout
<1> QED BY Zenon, <1>1, <1>2

\* The goroutines of the terminal.
LEMMA TerminalStep ==
    ASSUME IInv, tickFires \/ receiveSigwinch \/ Terminal
    PROVE  IInv'
<1> USE DEF IInv, TypeOK, SignalOK, FlushOK, MainFlushed, CleanupFlushed, FileOK, TickOK, TermOK,
            RetOK, CleanExit, TerminalRestored, Running, actionTable,
            mainVars, fileVars, signalVars, tickVars, winchVars, pathVars
<1>1. CASE tickFires
  BY <1>1 DEF tickFires
<1>2. CASE receiveSigwinch
  BY <1>2 DEF receiveSigwinch
<1>3. CASE receiveTick
  BY <1>3 DEF receiveTick
<1>4. CASE drawTick
  BY Zenon, <1>4 DEF drawTick
<1>5. CASE drawSigwinch
  BY Zenon, <1>5 DEF drawSigwinch
<1> QED BY Zenon, <1>1, <1>2, <1>3, <1>4, <1>5 DEF Terminal

\* The log of the path interposer.
LEMMA PathStep ==
    ASSUME IInv, PathLog
    PROVE  IInv'
<1> USE DEF IInv, TypeOK, SignalOK, FlushOK, MainFlushed, CleanupFlushed, FileOK, TickOK, TermOK,
            RetOK, CleanExit, TerminalRestored, Running, print, Set,
            mainVars, fileVars, signalVars, tickVars, winchVars, termVars
<1>1. CASE closeListener
  BY <1>1 DEF closeListener
<1>2. CASE closeRet
  BY <1>2 DEF closeRet
<1>3. ASSUME NEW t \in Tools, accept(t) PROVE IInv'
  BY <1>3 DEF accept
<1>4. ASSUME NEW t \in Tools, decode(t) PROVE IInv'
  BY <1>4 DEF decode
<1>5. ASSUME NEW t \in Tools, sendEntry(t) PROVE IInv'
  BY <1>5 DEF sendEntry
<1>6. ASSUME NEW t \in Tools, logEntry(t) PROVE IInv'
  BY Zenon, <1>6 DEF logEntry
<1> QED BY Zenon, <1>1, <1>2, <1>3, <1>4, <1>5, <1>6 DEF PathLog

LEMMA Invariant == Spec => []IInv
<1>1. IInv /\ [Next]_vars => IInv'
  <2> SUFFICES ASSUME IInv, [Next]_vars PROVE IInv'
    OBVIOUS
  <2>1. CASE UNCHANGED vars
    BY <2>1 DEF IInv, TypeOK, SignalOK, FlushOK, MainFlushed, CleanupFlushed, FileOK, TickOK,
                TermOK, RetOK, CleanExit, TerminalRestored, vars, mainVars, fileVars, signalVars,
                tickVars, winchVars, termVars, pathVars
  <2>2. CASE Next
    BY <2>2, MainStep, EndingStep, SignalStep, TerminalStep, PathStep DEF Next
  <2> QED BY <2>1, <2>2
<1> QED BY <1>1, InitInv, PTL DEF Spec

\* Without a signal soong_ui ends by the return of main with its files closed, or
\* in the log entry of a tool.
THEOREM ExitsCleanly == Spec => []CleanExit
<1>1. IInv => CleanExit
  BY DEF IInv
<1> QED BY <1>1, Invariant, PTL

\* The terminal is restored when main or the cleanup of a signal ends soong_ui,
\* however they interleave with its goroutines.
THEOREM RestoresTerminal == Spec => []TerminalRestored
<1>1. IInv => TerminalRestored
  BY DEF IInv
<1> QED BY <1>1, Invariant, PTL

=============================================================================
