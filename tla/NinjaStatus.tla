---------------------------- MODULE NinjaStatus -----------------------------
(***************************************************************************)
(* How the progress of ninja reaches the outputs of soong_ui: NinjaReader  *)
(* (ui/status/ninja.go) reads the messages of a ninja process from a fifo  *)
(* and reports them to a ToolStatus; all the ToolStatuses of a build share *)
(* one Status (ui/status/status.go), which counts the actions and calls    *)
(* the outputs.  A build runs ninja several times, each time with a reader *)
(* and a ToolStatus of its own; a reader that Close gave up on goes on     *)
(* beside the next one.                                                    *)
(*                                                                         *)
(* A message has one field; its text and the outputs' work are left out.   *)
(* A ninja process fails only as a whole, possibly within a message; one   *)
(* that succeeds may leave an orphan that holds the fifo open.  The counts *)
(* that toolStatus keeps of running and finished actions are never read,   *)
(* and left out, as is the cleanup of a fatal signal, which flushes the    *)
(* outputs at any moment and then panics.                                  *)
(***************************************************************************)
EXTENDS Integers, Sequences, FiniteSets

CONSTANTS
    Scripts,  \* the sequences of messages a ninja process may send
    MaxStages \* the number of times ninja is run

ASSUME StagesAssumption == MaxStages \in Nat \ {0}

VARIABLES
    stage,    \* the current run of ninja
    ui,       \* where soong_ui is
    flushed,  \* Status.Finish was called
    ninja,    \* the state of each ninja process
    script,   \* the messages it sends
    sent,     \* how many of them it wrote to the fifo
    torn,     \* it died within the next one
    opener,   \* the goroutine that opens the fifo
    reader,   \* the goroutine run
    cancel,   \* the channel cancel is closed
    got,      \* how many messages were read
    running,  \* the map running
    tool,     \* toolStatus.counts: the total and the number started
    diff,     \* what the reader has to add to the shared total
    counts,   \* Status.counts
    shown,    \* the calls to the outputs: a stage, a kind and an action
    timedOut  \* the stages whose Close gave up

uiVars == <<stage, ui, flushed, timedOut>>
ninjaVars == <<ninja, script, sent, torn>>
readerVars == <<opener, reader, cancel, got, running, tool, diff>>
statusVars == <<counts, shown>>
vars == <<uiVars, ninjaVars, readerVars, statusVars>>

Stages == 1 .. MaxStages
Ended == {"exited", "orphan", "failed"}
NoAction == 0

-----------------------------------------------------------------------------
(* Status: each operation holds its lock.                                  *)

Show(s, kind, id) == shown' = Append(shown, [stage |-> s, kind |-> kind, id |-> id])

message(s) == Show(s, "message", NoAction) /\ UNCHANGED counts

updateTotalActions(d) == counts' = [counts EXCEPT !.total = @ + d] /\ UNCHANGED shown

startAction(s, id) ==
    /\ counts' = [counts EXCEPT !.running = @ + 1, !.started = @ + 1]
    /\ Show(s, "start", id)

finishAction(s, id) ==
    /\ counts' = [counts EXCEPT !.running = @ - 1, !.finished = @ + 1]
    /\ Show(s, "finish", id)

-----------------------------------------------------------------------------
(* The ninja process.                                                      *)

ninjaOpen(s) ==
    /\ ninja[s] = "run"
    /\ opener[s] = "opening"
    /\ ninja' = [ninja EXCEPT ![s] = "open"]
    /\ opener' = [opener EXCEPT ![s] = "opened"]
    /\ UNCHANGED <<uiVars, script, sent, torn, reader, cancel, got, running, tool, diff, statusVars>>

ninjaWrite(s) ==
    /\ ninja[s] = "open"
    /\ sent[s] < Len(script[s])
    /\ sent' = [sent EXCEPT ![s] = @ + 1]
    /\ UNCHANGED <<uiVars, ninja, script, torn, readerVars, statusVars>>

ninjaExit(s) ==
    /\ ninja[s] = "open"
    /\ sent[s] = Len(script[s])
    /\ \E e \in {"exited", "orphan"} : ninja' = [ninja EXCEPT ![s] = e]
    /\ UNCHANGED <<uiVars, script, sent, torn, readerVars, statusVars>>

ninjaFails(s) ==
    /\ ninja[s] \in {"run", "open"}
    /\ ninja' = [ninja EXCEPT ![s] = "failed"]
    /\ torn' \in {torn, [torn EXCEPT ![s] = ninja[s] = "open"]}
    /\ UNCHANGED <<uiVars, script, sent, readerVars, statusVars>>

Ninja(s) == ninjaOpen(s) \/ ninjaWrite(s) \/ ninjaExit(s)

-----------------------------------------------------------------------------
(* soong_ui.                                                               *)

\* Ninja is run again only after it succeeded.
NewNinjaReader ==
    /\ ui = "idle"
    /\ stage < MaxStages
    /\ stage > 0 => ninja[stage] # "failed"
    /\ stage' = stage + 1
    /\ ui' = "ninja"
    /\ \E m \in Scripts : script' = [script EXCEPT ![stage + 1] = m]
    /\ ninja' = [ninja EXCEPT ![stage + 1] = "run"]
    /\ opener' = [opener EXCEPT ![stage + 1] = "opening"]
    /\ reader' = [reader EXCEPT ![stage + 1] = "select"]
    /\ UNCHANGED <<flushed, timedOut, sent, torn, cancel, got, running, tool, diff, statusVars>>

\* Close is deferred to the end of the ninja process.
Close ==
    /\ ui = "ninja"
    /\ ninja[stage] \in Ended
    /\ ui' = "wait"
    /\ cancel' = [cancel EXCEPT ![stage] = TRUE]
    /\ UNCHANGED <<stage, flushed, timedOut, ninjaVars, opener, reader, got, running, tool, diff,
                   statusVars>>

\* Mutant: Close does not wait.
closeDoneEarly ==
    /\ ui = "wait"
    /\ ui' = "idle"
    /\ UNCHANGED <<stage, flushed, timedOut, ninjaVars, readerVars, statusVars>>

\* case <-n.done
closeDone ==
    /\ ui = "wait"
    /\ reader[stage] = "done"
    /\ ui' = "idle"
    /\ UNCHANGED <<stage, flushed, timedOut, ninjaVars, readerVars, statusVars>>

\* Mutant: the timeout is reported, and Close waits on.
closeTimeoutWaits ==
    /\ ui = "wait"
    /\ stage \notin timedOut
    /\ timedOut' = timedOut \cup {stage}
    /\ message(stage)
    /\ UNCHANGED <<stage, ui, flushed, ninjaVars, readerVars>>

\* case <-timeoutCh
closeTimeout ==
    /\ ui = "wait"
    /\ ui' = "idle"
    /\ timedOut' = timedOut \cup {stage}
    /\ message(stage)
    /\ UNCHANGED <<stage, flushed, ninjaVars, readerVars>>

\* Status.Finish flushes the outputs when main returns: after the last ninja,
\* or after a step of the build that failed.
Finish ==
    /\ ui = "idle"
    /\ ui' = "finished"
    /\ flushed' = TRUE
    /\ UNCHANGED <<stage, timedOut, ninjaVars, readerVars, statusVars>>

-----------------------------------------------------------------------------
(* The goroutines of a reader.                                             *)

\* os.Open fails: an error is reported, and run receives no file.
openFails(s) ==
    /\ opener[s] = "opening"
    /\ opener' = [opener EXCEPT ![s] = "failed"]
    /\ message(s)
    /\ UNCHANGED <<uiVars, ninjaVars, reader, cancel, got, running, tool, diff>>

Goto(s, step) == reader' = [reader EXCEPT ![s] = step]

\* The select of run: a file, or the nil of a closed channel, or cancel.
selectFile(s) ==
    /\ reader[s] = "select"
    /\ \/ opener[s] = "opened" /\ Goto(s, "read")
       \/ opener[s] = "failed" /\ Goto(s, "report")
    /\ opener' = [opener EXCEPT ![s] = IF @ = "opened" THEN "taken" ELSE @]
    /\ UNCHANGED <<uiVars, ninjaVars, cancel, got, running, tool, diff, statusVars>>

selectCancel(s) ==
    /\ reader[s] = "select"
    /\ cancel[s]
    /\ Goto(s, "done")
    /\ UNCHANGED <<uiVars, ninjaVars, opener, cancel, got, running, tool, diff, statusVars>>

\* The message being handled.
Current(s) == script[s][got[s]]

\* toolStatus, up to the end of its lock: the new counts, and the change that
\* the shared total is due.
SetTotalActions(s, total) ==
    IF total >= tool[s].started /\ total # tool[s].total
    THEN /\ tool' = [tool EXCEPT ![s].total = total]
         /\ diff' = [diff EXCEPT ![s] = total - tool[s].total]
         /\ Goto(s, "update")
    ELSE UNCHANGED <<tool, diff, reader>>

StartAction(s) ==
    LET n == tool[s].started + 1
    IN  IF n > tool[s].total
        THEN /\ tool' = [tool EXCEPT ![s] = [total |-> n, started |-> n]]
             /\ diff' = [diff EXCEPT ![s] = n - tool[s].total]
             /\ Goto(s, "update")
        ELSE /\ tool' = [tool EXCEPT ![s].started = n]
             /\ Goto(s, "start")
             /\ UNCHANGED diff

toolFinish(s) ==
    IF tool[s].total # tool[s].started
    THEN /\ tool' = [tool EXCEPT ![s].total = tool[s].started]
         /\ diff' = [diff EXCEPT ![s] = tool[s].started - tool[s].total]
         /\ Goto(s, "update")
    ELSE UNCHANGED <<tool, diff, reader>>

\* Mutant: an action is reported finished whether it runs or not.
finishEdgeUnknown(s, id) ==
    /\ running' = [running EXCEPT ![s] = @ \ {id}]
    /\ Goto(s, "finish")
    /\ UNCHANGED <<tool, diff>>

finishEdge(s, id) ==
    IF id \in running[s]
    THEN /\ running' = [running EXCEPT ![s] = @ \ {id}]
         /\ Goto(s, "finish")
         /\ UNCHANGED <<tool, diff>>
    ELSE UNCHANGED <<running, reader, tool, diff>>

\* A message is read and handled up to the first use of Status.
readMessage(s) ==
    /\ reader[s] = "read"
    /\ got[s] < sent[s]
    /\ got' = [got EXCEPT ![s] = @ + 1]
    /\ LET m == script[s][got[s] + 1]
       IN  \/ m.kind = "total" /\ SetTotalActions(s, m.n) /\ UNCHANGED running
           \/ /\ m.kind = "start"
              /\ StartAction(s)
              /\ running' = [running EXCEPT ![s] = @ \cup {m.n}]
           \/ m.kind = "finish" /\ finishEdge(s, m.n)
           \/ m.kind = "message" /\ Goto(s, "message") /\ UNCHANGED <<tool, diff, running>>
           \/ m.kind = "end" /\ toolFinish(s) /\ UNCHANGED running
    /\ UNCHANGED <<uiVars, ninjaVars, opener, cancel, statusVars>>

\* The use of Status: first the total, then the action.
useStatus(s) ==
    /\ \/ /\ reader[s] = "update"
          /\ updateTotalActions(diff[s])
          /\ Goto(s, IF Current(s).kind = "start" THEN "start" ELSE "read")
       \/ reader[s] = "start" /\ startAction(s, Current(s).n) /\ Goto(s, "read")
       \/ reader[s] = "finish" /\ finishAction(s, Current(s).n) /\ Goto(s, "read")
       \/ reader[s] = "message" /\ message(s) /\ Goto(s, "read")
       \/ reader[s] = "report" /\ message(s) /\ Goto(s, "done")
    /\ UNCHANGED <<uiVars, ninjaVars, opener, cancel, got, running, tool, diff>>

\* The end of the fifo, within a message or not.
readEnd(s) ==
    /\ reader[s] = "read"
    /\ got[s] = sent[s]
    /\ ninja[s] \in {"exited", "failed"}
    /\ Goto(s, IF torn[s] THEN "report" ELSE "done")
    /\ UNCHANGED <<uiVars, ninjaVars, opener, cancel, got, running, tool, diff, statusVars>>

run(s) == selectFile(s) \/ selectCancel(s) \/ readMessage(s) \/ useStatus(s) \/ readEnd(s)

Init ==
    /\ stage = 0
    /\ ui = "idle"
    /\ flushed = FALSE
    /\ ninja = [s \in Stages |-> "none"]
    /\ script = [s \in Stages |-> <<>>]
    /\ sent = [s \in Stages |-> 0]
    /\ torn = [s \in Stages |-> FALSE]
    /\ opener = [s \in Stages |-> "none"]
    /\ reader = [s \in Stages |-> "none"]
    /\ cancel = [s \in Stages |-> FALSE]
    /\ got = [s \in Stages |-> 0]
    /\ running = [s \in Stages |-> {}]
    /\ tool = [s \in Stages |-> [total |-> 0, started |-> 0]]
    /\ diff = [s \in Stages |-> 0]
    /\ counts = [total |-> 0, running |-> 0, started |-> 0, finished |-> 0]
    /\ shown = <<>>
    /\ timedOut = {}

Next ==
    \/ NewNinjaReader \/ Close \/ closeDone \/ closeTimeout \/ Finish
    \/ \E s \in Stages : Ninja(s) \/ ninjaFails(s) \/ openFails(s) \/ run(s)

Spec == Init /\ [][Next]_vars

\* The timer fires, and the goroutine of Close and those of the readers run.
\* Nothing is assumed of ninja.
FairSpec ==
    /\ Spec
    /\ WF_vars(closeDone \/ closeTimeout)
    /\ \A s \in Stages : WF_vars(run(s))

-----------------------------------------------------------------------------
(* Properties.                                                             *)

\* The calls for stage s, without those for messages.
Actions(s) == SelectSeq(shown, LAMBDA e : e.stage = s /\ e.kind # "message")

\* The outputs are told of every action's start once and of its end at most
\* once and later, and the number of running actions is the number of those
\* whose end they were not told.  "TotalActions [...] should never go below the
\* number of StartedActions", also while a reader that Close gave up on reports
\* beside the next one.
OutputsPaired ==
    LET at(k, s, id) == {i \in DOMAIN shown : shown[i] = [stage |-> s, kind |-> k, id |-> id]}
        of(k) == {i \in DOMAIN shown : shown[i].kind = k}
    IN  /\ \A i \in of("start") \cup of("finish") :
              Cardinality(at(shown[i].kind, shown[i].stage, shown[i].id)) = 1
        /\ \A i \in of("finish") : \E j \in at("start", shown[i].stage, shown[i].id) : j < i
        /\ counts.running = Cardinality(of("start")) - Cardinality(of("finish"))
        /\ counts.started <= counts.total

\* The messages of stage s, among the first n, that the outputs are to be told
\* of: a start, and the first end of an action that was started.
Reported(s, n) ==
    {i \in 1 .. n :
        \/ script[s][i].kind = "start"
        \/ /\ script[s][i].kind = "finish"
           /\ \A j \in 1 .. i - 1 : script[s][j] # script[s][i]
           /\ \E j \in 1 .. i - 1 : script[s][j] = [script[s][i] EXCEPT !.kind = "start"]}

\* Whether Close has returned without giving up, on a reader that got the fifo.
CloseSucceeded(s) ==
    /\ s \notin timedOut
    /\ opener[s] = "taken"
    /\ s < stage \/ (s = stage /\ ui \in {"idle", "finished"})

\* When Close returns without a timeout, the outputs were told of all that
\* ninja wrote to the fifo, in the order of ninja: "Close waits for NinjaReader
\* to finish reading from the fifo".
CloseWaits ==
    \A s \in Stages : CloseSucceeded(s) =>
        LET todo == Reported(s, sent[s])
        IN  /\ Len(Actions(s)) = Cardinality(todo)
            /\ \A i \in todo :
                  LET e == Actions(s)[Cardinality({j \in todo : j <= i})]
                  IN  e.kind = script[s][i].kind /\ e.id = script[s][i].n

\* After the outputs are flushed they are called only for a reader that Close
\* gave up on, or for a fifo that could not be opened.
QuietAfterFlush ==
    [][flushed /\ shown' # shown =>
          \E s \in Stages : s \in timedOut \/ opener'[s] = "failed"]_vars

\* Close returns whatever ninja left behind: a fifo nobody opened, or one that
\* a process holds open.
CloseReturns == ui = "wait" ~> ui # "wait"

=============================================================================
