------------------------------- MODULE SoongUi ------------------------------
(***************************************************************************)
(* How soong_ui ends: the deferred calls of main (cmd/soong_ui/main.go),   *)
(* the handler of signals with the cleanup it runs beside main             *)
(* (ui/build/signal.go), and what both of them close: the status with the  *)
(* smart terminal and its goroutines (ui/terminal/smart_status.go), the    *)
(* tracer (ui/tracer/tracer.go) and the logger (ui/logger/logger.go).  The *)
(* goroutines that log the tools found by the path interposer              *)
(* (ui/build/path.go, ui/build/paths/logs.go) run until the end.           *)
(*                                                                         *)
(* What is done under the lock of the terminal, or under that of a         *)
(* logger, does not block, and is one step.  The lock of Status is held    *)
(* while the outputs are flushed, that of the tracer while the file of an  *)
(* earlier trace is rotated.  Text, colours and the table are left out.    *)
(***************************************************************************)
EXTENDS Integers, FiniteSets

CONSTANTS
    Tools,      \* the tools that report to the log of the path interposer
    Capacity,   \* of the channel of log entries
    MaxSignals, \* the number of signals that arrive
    MaxWinches, \* the number of times the terminal is resized
    None

VARIABLES
    pc,         \* where main and the cleanup of the signal handler are
    panicking,  \* main is unwound by a panic
    exited,     \* how the process ended, "no" while it runs
    statusLock, \* Status.lock: main, cleanup or None
    traceLock,  \* tracerImpl.lock
    logFile,    \* "discard" before SetOutput, "open", or "closed" (panicWriter)
    traceFile,  \* "buffer" before SetOutput, "open" or "closed"
    timeouts,   \* of handleSignals
    timeout,    \* its timer is set
    signals,    \* the number of signals received
    cancelled,  \* the context is cancelled
    tableMode,  \* the terminal shows the table of actions
    tick,       \* the goroutine of startActionTableTick
    ticks,      \* a tick is in the channel of the ticker
    stopped,    \* the ticker is stopped
    winch,      \* the goroutine of startSigwinch
    sigwinch,   \* its channel is "open" or "closed"
    winches,    \* the number of times it received a signal
    term,       \* the terminal: its cursor and margins are as at the start,
                \* and the cursor is on a blank line
    redrawn,    \* the table was drawn after the first Flush
    listener,   \* the listener of the path log: "none", "open" or "closed"
    entry,      \* what became of the report of each tool
    ret         \* the channel of log entries is closed

mainVars == <<pc, panicking, statusLock, traceLock>>
fileVars == <<logFile, traceFile>>
signalVars == <<timeouts, timeout, signals, cancelled>>
tickVars == <<tableMode, tick, ticks, stopped>>
winchVars == <<winch, sigwinch, winches>>
termVars == <<tickVars, winchVars, term, redrawn>>
pathVars == <<listener, entry, ret>>
vars == <<mainVars, exited, fileVars, signalVars, termVars, pathVars>>

Running == exited = "no"

-----------------------------------------------------------------------------
(* The logger and the terminal.                                            *)

Goto(g, step) == pc' = [pc EXCEPT ![g] = step]

\* stdLogger.Output: the terminal prints a line, the file log takes it or
\* panics, which ends the process unless main is left to unwind.
print == term' = [term EXCEPT !.blank = TRUE]

\* smartStatusOutput.actionTable sets the scrolling margins.
actionTable ==
    /\ term' = [term EXCEPT !.margins = FALSE]
    /\ redrawn' = (redrawn \/ sigwinch = "closed")

-----------------------------------------------------------------------------
(* Main, up to its deferred calls.                                         *)

mainLogOutput ==
    /\ Running /\ pc["main"] = "start"
    /\ logFile' = "open"
    /\ Goto("main", "trace_output")
    /\ UNCHANGED <<panicking, exited, statusLock, traceLock, traceFile, signalVars, termVars,
                   pathVars>>

\* tracer.SetOutput takes its lock, and waits for that of the file; it logs that
\* the file cannot be created.
mainTraceOutput ==
    /\ Running
    /\ \/ /\ pc["main"] = "trace_output" /\ traceLock = None
          /\ traceLock' = "main"
          /\ Goto("main", "rotate")
          /\ UNCHANGED <<panicking, traceFile>>
       \/ /\ pc["main"] = "rotate"
          /\ traceLock' = None
          /\ \/ traceFile' = "open" /\ Goto("main", "work") /\ UNCHANGED panicking
             \/ /\ logFile # "closed"
                /\ Goto("main", "work")
                /\ UNCHANGED <<panicking, traceFile>>
             \/ /\ logFile = "closed"
                /\ Goto("main", "finish")
                /\ panicking' = TRUE
                /\ UNCHANGED traceFile
    /\ UNCHANGED <<exited, statusLock, logFile, signalVars, termVars, pathVars>>

\* Build calls SetupPath.
setupPath ==
    /\ Running /\ pc["main"] = "work" /\ listener = "none"
    /\ listener' = "open"
    /\ UNCHANGED <<mainVars, exited, fileVars, signalVars, termVars, entry, ret>>

\* A message or an action is reported to Status, and the status line changes.
report ==
    /\ Running /\ pc["main"] = "work" /\ statusLock = None
    /\ print \/ term' = [term EXCEPT !.blank = FALSE]
    /\ UNCHANGED <<mainVars, exited, fileVars, signalVars, tickVars, winchVars, redrawn,
                   pathVars>>

\* Main logs, and ends at any point, with Fatal or without; logging panics
\* when the cleanup has closed the log.
mainEnds ==
    /\ Running /\ pc["main"] \in {"start", "work"}
    /\ Goto("main", "finish")
    /\ panicking' \in {FALSE, logFile = "closed"}
    /\ print \/ UNCHANGED term
    /\ UNCHANGED <<exited, statusLock, traceLock, fileVars, signalVars, tickVars, winchVars,
                   redrawn, pathVars>>

-----------------------------------------------------------------------------
(* What main defers, and what the cleanup of a signal does, in their       *)
(* orders.                                                                 *)

After ==
    [main    |-> [finish |-> "close_trace", close_trace |-> "cancel", close_log |-> "exit"],
     cleanup |-> [close_trace |-> "close_log", close_log |-> "finish", finish |-> "exit"]]

finishStatus(g) ==
    /\ Running /\ pc[g] = "finish" /\ statusLock = None
    /\ statusLock' = g
    /\ Goto(g, IF tableMode THEN "stop_tick" ELSE "flush")
    /\ stopped' = TRUE
    /\ UNCHANGED <<panicking, exited, traceLock, fileVars, signalVars, tableMode, tick, ticks,
                   winchVars, term, redrawn, pathVars>>

\* A panic in Status.Finish releases its lock; main goes on with what it deferred,
\* the cleanup with its own panic.
Panic(g) ==
    /\ statusLock' = None
    /\ Goto(g, IF g = "main" THEN "close_trace" ELSE "exit")
    /\ panicking' = (panicking \/ g = "main")
    /\ UNCHANGED exited

\* s.done <- true, when the goroutine of the ticks is at its select.
stopActionTableTick(g) ==
    /\ Running /\ pc[g] = "stop_tick" /\ tick = "select"
    /\ tick' = "returned"
    /\ Goto(g, "flush")
    /\ UNCHANGED <<panicking, exited, statusLock, traceLock, fileVars, signalVars, tableMode,
                   ticks, stopped, winchVars, term, redrawn, pathVars>>

\* Mutant: the margins are reset before the table is cleared.
FlushReset(g) ==
    /\ Running /\ pc[g] = "flush"
    /\ \/ /\ sigwinch = "open"
          /\ sigwinch' = "closed"
          /\ term' = [cursor |-> TRUE, margins |-> ~tableMode, blank |-> TRUE]
          /\ Goto(g, "critical")
          /\ UNCHANGED <<panicking, exited, statusLock>>
       \/ /\ sigwinch = "closed"
          /\ Panic(g)
          /\ UNCHANGED <<sigwinch, term>>
    /\ UNCHANGED <<traceLock, fileVars, signalVars, tickVars, winch, winches, redrawn,
                   pathVars>>

\* The rest of Flush, under the lock of the terminal; stopSigwinch panics when the
\* channel is already closed.
Flush(g) ==
    /\ Running /\ pc[g] = "flush"
    /\ \/ /\ sigwinch = "open"
          /\ sigwinch' = "closed"
          /\ term' = [cursor |-> TRUE, margins |-> TRUE, blank |-> TRUE]
          /\ Goto(g, "critical")
          /\ UNCHANGED <<panicking, exited, statusLock>>
       \/ /\ sigwinch = "closed"
          /\ Panic(g)
          /\ UNCHANGED <<sigwinch, term>>
    /\ UNCHANGED <<traceLock, fileVars, signalVars, tickVars, winch, winches, redrawn,
                   pathVars>>

\* The outputs that follow; the critical path, if any, goes to the log.
flushCriticalPath(g) ==
    /\ Running /\ pc[g] = "critical"
    /\ \/ /\ Goto(g, After[g]["finish"])
          /\ UNCHANGED <<panicking, exited>>
          /\ statusLock' = None
       \/ logFile = "closed" /\ Panic(g)
    /\ UNCHANGED <<traceLock, fileVars, signalVars, termVars, pathVars>>

closeTrace(g) ==
    /\ Running /\ pc[g] = "close_trace" /\ traceLock = None
    /\ traceFile' = IF traceFile = "open" THEN "closed" ELSE traceFile
    /\ Goto(g, After[g]["close_trace"])
    /\ UNCHANGED <<panicking, exited, statusLock, traceLock, logFile, signalVars, termVars,
                   pathVars>>

cancel ==
    /\ Running /\ pc["main"] = "cancel"
    /\ cancelled' = TRUE
    /\ Goto("main", "close_log")
    /\ UNCHANGED <<panicking, exited, statusLock, traceLock, fileVars, timeouts, timeout,
                   signals, termVars, pathVars>>

\* Logger.Cleanup.
closeLog(g) ==
    /\ Running /\ pc[g] = "close_log"
    /\ logFile' = IF logFile = "open" THEN "closed" ELSE logFile
    /\ Goto(g, After[g]["close_log"])
    /\ UNCHANGED <<panicking, exited, statusLock, traceLock, traceFile, signalVars, termVars,
                   pathVars>>

\* Mutant: the cleanup returns without a panic.
exitMain(g) ==
    /\ Running /\ pc[g] = "exit" /\ g = "main"
    /\ exited' = IF panicking THEN "panic" ELSE "main"
    /\ UNCHANGED <<mainVars, fileVars, signalVars, termVars, pathVars>>

\* Main returns, or prints its panic and goes on with it; the cleanup ends with log.Panicln.
exit(g) ==
    /\ Running /\ pc[g] = "exit"
    /\ exited' = IF g = "cleanup" THEN "cleanup" ELSE IF panicking THEN "panic" ELSE "main"
    /\ IF g = "main" /\ ~panicking THEN UNCHANGED term ELSE print
    /\ UNCHANGED <<mainVars, fileVars, signalVars, tickVars, winchVars, redrawn, pathVars>>

Ending(g) ==
    \/ finishStatus(g) \/ stopActionTableTick(g) \/ Flush(g) \/ flushCriticalPath(g)
    \/ closeTrace(g) \/ closeLog(g) \/ exit(g)

-----------------------------------------------------------------------------
(* handleSignals.                                                          *)

\* log.Println, and the step of handleTimeout.
handleTimeout ==
    /\ timeouts' = timeouts + 1
    /\ IF logFile = "closed" \/ timeouts' > 2
       THEN exited' = "timeout" /\ UNCHANGED <<pc, cancelled>>
       ELSE /\ cancelled' = (cancelled \/ timeouts' = 1)
            /\ pc' = IF timeouts' = 2 THEN [pc EXCEPT !["cleanup"] = "close_trace"] ELSE pc
            /\ UNCHANGED exited

receiveSignal ==
    /\ Running /\ signals < MaxSignals
    /\ signals' = signals + 1
    /\ timeout' = TRUE
    /\ \/ timeout /\ handleTimeout
       \/ /\ ~timeout /\ logFile = "closed"
          /\ exited' = "timeout"
          /\ UNCHANGED <<pc, cancelled, timeouts>>
       \/ /\ ~timeout /\ logFile # "closed"
          /\ UNCHANGED <<pc, exited, cancelled, timeouts>>
    /\ print
    /\ UNCHANGED <<panicking, statusLock, traceLock, fileVars, tickVars, winchVars, redrawn,
                   pathVars>>

receiveTimeout ==
    /\ Running /\ timeout
    /\ handleTimeout
    /\ print
    /\ UNCHANGED <<panicking, statusLock, traceLock, fileVars, timeout, signals, tickVars,
                   winchVars, redrawn, pathVars>>

-----------------------------------------------------------------------------
(* The goroutines of the terminal.                                         *)

tickFires ==
    /\ Running /\ tableMode /\ ~ticks /\ ~stopped
    /\ ticks' = TRUE
    /\ UNCHANGED <<mainVars, exited, fileVars, signalVars, tableMode, tick, stopped, winchVars,
                   term, redrawn, pathVars>>

\* A tick that is in the channel is received also when the ticker is stopped.
receiveTick ==
    /\ Running /\ tick = "select" /\ ticks
    /\ tick' = "lock"
    /\ ticks' = FALSE
    /\ UNCHANGED <<mainVars, exited, fileVars, signalVars, tableMode, stopped, winchVars, term,
                   redrawn, pathVars>>

drawTick ==
    /\ Running /\ tick = "lock"
    /\ actionTable
    /\ tick' = "select"
    /\ UNCHANGED <<mainVars, exited, fileVars, signalVars, tableMode, ticks, stopped, winchVars,
                   pathVars>>

receiveSigwinch ==
    /\ Running /\ winch = "range" /\ sigwinch = "open" /\ winches < MaxWinches
    /\ winch' = "lock"
    /\ winches' = winches + 1
    /\ UNCHANGED <<mainVars, exited, fileVars, signalVars, tickVars, sigwinch, term, redrawn,
                   pathVars>>

drawSigwinch ==
    /\ Running /\ winch = "lock"
    /\ IF tableMode THEN actionTable ELSE UNCHANGED <<term, redrawn>>
    /\ winch' = "range"
    /\ UNCHANGED <<mainVars, exited, fileVars, signalVars, tickVars, sigwinch, winches,
                   pathVars>>

Terminal == receiveTick \/ drawTick \/ drawSigwinch

-----------------------------------------------------------------------------
(* The log of the path interposer.                                         *)

Set(t, s) == entry' = [entry EXCEPT ![t] = s]

\* ln.Accept, while the listener is open.
accept(t) ==
    /\ Running /\ listener = "open" /\ entry[t] = "none"
    /\ Set(t, "accepted")
    /\ UNCHANGED <<mainVars, exited, fileVars, signalVars, termVars, listener, ret>>

\* The report is decoded, or its deadline passes.
decode(t) ==
    /\ Running /\ entry[t] = "accepted"
    /\ Set(t, "decoded") \/ Set(t, "done")
    /\ UNCHANGED <<mainVars, exited, fileVars, signalVars, termVars, listener, ret>>

\* ret <- entry
sendEntry(t) ==
    /\ Running /\ entry[t] = "decoded"
    /\ \/ /\ ~ret /\ Cardinality({u \in Tools : entry[u] = "queued"}) < Capacity
          /\ Set(t, "queued")
          /\ UNCHANGED exited
       \/ ret /\ exited' = "send on closed" /\ UNCHANGED entry
    /\ UNCHANGED <<mainVars, fileVars, signalVars, termVars, listener, ret>>

\* The goroutine of SetupPath logs the entry.
logEntry(t) ==
    /\ Running /\ entry[t] = "queued"
    /\ Set(t, "done")
    /\ exited' = IF logFile = "closed" THEN "entry" ELSE exited
    /\ print
    /\ UNCHANGED <<mainVars, fileVars, signalVars, tickVars, winchVars, redrawn, listener, ret>>

closeListener ==
    /\ Running /\ listener = "open" /\ cancelled
    /\ listener' = "closed"
    /\ UNCHANGED <<mainVars, exited, fileVars, signalVars, termVars, entry, ret>>

\* Mutant: the channel is closed without wg.Wait().
closeRetEarly ==
    /\ Running /\ listener = "closed" /\ ~ret
    /\ ret' = TRUE
    /\ UNCHANGED <<mainVars, exited, fileVars, signalVars, termVars, listener, entry>>

\* wg.Wait(), close(ret)
closeRet ==
    /\ Running /\ listener = "closed" /\ ~ret
    /\ \A t \in Tools : entry[t] \notin {"accepted", "decoded"}
    /\ ret' = TRUE
    /\ UNCHANGED <<mainVars, exited, fileVars, signalVars, termVars, listener, entry>>

PathLog ==
    \/ closeListener \/ closeRet
    \/ \E t \in Tools : accept(t) \/ decode(t) \/ sendEntry(t) \/ logEntry(t)

-----------------------------------------------------------------------------

Init ==
    /\ pc = [g \in {"main", "cleanup"} |-> IF g = "main" THEN "start" ELSE "none"]
    /\ panicking = FALSE
    /\ exited = "no"
    /\ statusLock = None /\ traceLock = None
    /\ logFile = "discard" /\ traceFile = "buffer"
    /\ timeouts = 0 /\ timeout = FALSE /\ signals = 0 /\ cancelled = FALSE
    /\ tableMode \in BOOLEAN
    /\ tick = "select" /\ ticks = FALSE /\ stopped = FALSE
    /\ winch = "range" /\ sigwinch = "open" /\ winches = 0
    /\ term = [cursor |-> ~tableMode, margins |-> ~tableMode, blank |-> TRUE]
    /\ redrawn = FALSE
    /\ listener = "none"
    /\ entry = [t \in Tools |-> "none"]
    /\ ret = FALSE

Next ==
    \/ mainLogOutput \/ mainTraceOutput \/ setupPath \/ report \/ mainEnds
    \/ \E g \in {"main", "cleanup"} : Ending(g)
    \/ cancel
    \/ receiveSignal \/ receiveTimeout
    \/ tickFires \/ receiveSigwinch \/ Terminal
    \/ PathLog

Spec == Init /\ [][Next]_vars

\* The goroutines run.  Nothing is assumed of the build, nor of the lock of a
\* file being rotated; and the last resort of the signal handler is not used.
FairSpec ==
    /\ Spec
    /\ \A g \in {"main", "cleanup"} : WF_vars(Ending(g))
    /\ WF_vars(cancel)
    /\ WF_vars(Terminal)

-----------------------------------------------------------------------------
(* Properties.                                                             *)

\* A build that gets no signal ends by the return of main, with the log and
\* the trace closed; only the report of a tool that is logged after main closed
\* the log can make it panic.
CleanExit ==
    exited # "no" /\ signals = 0 =>
        /\ exited \in {"main", "entry"}
        /\ logFile # "open" /\ traceFile # "open"

\* However the process ends without a signal, and also after one when main or
\* the cleanup ends it, the terminal has its cursor and its margins back and the
\* prompt is on a line of its own; unless the goroutine of SIGWINCH, which Flush
\* does not wait for, has drawn the table again.
TerminalRestored ==
    exited # "no" /\ (signals = 0 \/ exited \in {"main", "panic", "cleanup"}) =>
        term.cursor /\ term.blank /\ (term.margins \/ redrawn)

\* Once the cleanup runs beside main the process ends, whichever of them comes
\* first to the locks and to the goroutine of the ticks, also without the last
\* timeout; unless main waits for ever for the lock of a file being rotated.
CleanupExits ==
    [](pc["cleanup"] # "none" => <>(exited # "no" \/ [](pc["main"] = "rotate")))

=============================================================================
