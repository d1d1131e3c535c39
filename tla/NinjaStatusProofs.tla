------------------------- MODULE NinjaStatusProofs --------------------------
(***************************************************************************)
(* A proof about the readers of ninja, for any messages and any number of  *)
(* runs of ninja.                                                          *)
(***************************************************************************)
EXTENDS NinjaStatus, TLAPS

-----------------------------------------------------------------------------
(* The inductive invariant.                                                *)

TypeOK ==
    /\ stage \in Nat
    /\ reader = [s \in Stages |-> reader[s]]
    /\ opener = [s \in Stages |-> opener[s]]

\* The stages that are over, and those that did not begin.
Over(s) == s < stage \/ (s = stage /\ ui \in {"idle", "finished"})
Later(s) == s > stage

\* The reader of a stage that is over has returned, unless Close gave up on it.
ReaderOK ==
    \A s \in Stages :
        /\ Over(s) => reader[s] = "done" \/ s \in timedOut
        /\ Later(s) => reader[s] = "none"

FlushOK == flushed => ui = "finished"

IInv == TypeOK /\ ReaderOK /\ FlushOK

-----------------------------------------------------------------------------

LEMMA InitInv == Init => IInv
BY StagesAssumption DEF Init, IInv, TypeOK, ReaderOK, FlushOK, Over, Later, Stages

\* soong_ui runs ninja again when the reader is done or given up.
LEMMA UiStep ==
    ASSUME IInv, NewNinjaReader \/ Close \/ closeDone \/ closeTimeout \/ Finish
    PROVE  IInv'
<1> USE StagesAssumption DEF IInv, TypeOK, ReaderOK, FlushOK, Over, Later, Stages
<1>1. CASE NewNinjaReader
  <2>1. /\ ui = "idle" /\ ui' = "ninja" /\ stage' = stage + 1 /\ stage < MaxStages
        /\ reader' = [reader EXCEPT ![stage + 1] = "select"]
        /\ UNCHANGED <<flushed, timedOut>>
    BY <1>1, Zenon DEF NewNinjaReader
  <2>2. stage + 1 \in Stages /\ \A s \in Stages : s # stage + 1 => reader'[s] = reader[s]
    BY <2>1
  <2>3. opener' = [opener EXCEPT ![stage + 1] = "opening"]
    BY <1>1, Zenon DEF NewNinjaReader
  <2>4. FlushOK'
    BY <2>1, Zenon
  <2>5. TypeOK'
    <3>1. stage' \in Nat
      BY <2>1
    <3>2. reader' = [s \in Stages |-> reader'[s]]
      BY <2>1
    <3>3. opener' = [s \in Stages |-> opener'[s]]
      BY <2>3, Zenon
    <3> QED BY <3>1, <3>2, <3>3, Zenon
  <2>6. ReaderOK'
    <3> SUFFICES ASSUME NEW s \in Stages
                 PROVE  /\ s <= stage => reader'[s] = "done" \/ s \in timedOut
                        /\ s > stage + 1 => reader'[s] = "none"
      BY <2>1
    <3>1. s # stage + 1 => reader'[s] = reader[s]
      BY <2>2
    <3> QED BY <2>1, <3>1
  <2> QED BY <2>4, <2>5, <2>6
<1>2. CASE Close
  BY <1>2 DEF Close
<1>3. CASE closeDone
  BY <1>3 DEF closeDone, readerVars
<1>4. CASE closeTimeout
  BY <1>4 DEF closeTimeout, readerVars
<1>5. CASE Finish
  BY <1>5 DEF Finish, readerVars
<1> QED BY <1>1, <1>2, <1>3, <1>4, <1>5

\* A reader that has returned, or that was not started, takes no step.
LEMMA RunStep ==
    ASSUME IInv, NEW s \in Stages, run(s)
    PROVE  /\ reader[s] \notin {"none", "done"}
           /\ reader' = [x \in Stages |-> IF x = s THEN reader'[s] ELSE reader[x]]
           /\ opener' = [x \in Stages |-> opener'[x]]
           /\ UNCHANGED uiVars
<1>1. CASE selectFile(s) \/ selectCancel(s) \/ readEnd(s)
  BY <1>1 DEF selectFile, selectCancel, readEnd, Goto, IInv, TypeOK
<1>2. CASE useStatus(s)
  BY <1>2 DEF useStatus, Goto, IInv, TypeOK
<1>3. CASE readMessage(s)
  BY <1>3 DEF readMessage, SetTotalActions, StartAction, toolFinish, finishEdge, Goto, IInv, TypeOK
<1> QED BY <1>1, <1>2, <1>3 DEF run

\* The readers and the ninja processes beside soong_ui.
LEMMA StageStep ==
    ASSUME IInv, NEW s \in Stages, Ninja(s) \/ ninjaFails(s) \/ openFails(s) \/ run(s)
    PROVE  IInv'
<1>1. CASE Ninja(s) \/ ninjaFails(s) \/ openFails(s)
  <2>1. /\ UNCHANGED <<stage, ui, flushed, timedOut, reader>>
        /\ opener' = [x \in Stages |-> opener'[x]]
    BY <1>1 DEF IInv, TypeOK, Ninja, ninjaOpen, ninjaWrite, ninjaExit, ninjaFails, openFails,
                uiVars, readerVars
  <2> QED BY <2>1 DEF IInv, TypeOK, ReaderOK, FlushOK, Over, Later
<1>2. CASE run(s)
  <2>1. /\ reader[s] \notin {"none", "done"}
        /\ reader' = [x \in Stages |-> IF x = s THEN reader'[s] ELSE reader[x]]
        /\ opener' = [x \in Stages |-> opener'[x]]
        /\ UNCHANGED <<stage, ui, flushed, timedOut>>
    BY <1>2, RunStep DEF uiVars
  <2>2. \A x \in Stages : x # s => reader'[x] = reader[x]
    BY <2>1
  <2>3. TypeOK' /\ FlushOK'
    BY <2>1 DEF IInv, TypeOK, FlushOK
  <2>4. ReaderOK'
    BY <2>1, <2>2 DEF IInv, ReaderOK, Over, Later
  <2> QED BY <2>3, <2>4 DEF IInv
<1> QED BY <1>1, <1>2

LEMMA Inductive == IInv /\ [Next]_vars => IInv'
<1> SUFFICES ASSUME IInv, [Next]_vars PROVE IInv'
  OBVIOUS
<1>1. CASE UNCHANGED vars
  BY <1>1 DEF vars, uiVars, readerVars, IInv, TypeOK, ReaderOK, FlushOK, Over, Later
<1>2. CASE Next
  BY <1>2, UiStep, StageStep DEF Next
<1> QED BY <1>1, <1>2

\* The calls to the outputs, once they are flushed.
LEMMA FlushedStep ==
    ASSUME IInv, [Next]_vars, flushed, shown' # shown
    PROVE  \E s \in Stages : s \in timedOut \/ opener'[s] = "failed"
<1>1. ui = "finished"
  BY DEF IInv, FlushOK
<1>2. PICK s \in Stages : openFails(s) \/ run(s)
  BY <1>1 DEF Next, vars, statusVars, NewNinjaReader, Close, closeDone, closeTimeout, Finish,
              Ninja, ninjaOpen, ninjaWrite, ninjaExit, ninjaFails
<1>3. CASE run(s)
  <2>1. reader[s] \notin {"none", "done"}
    BY <1>3, RunStep
  <2>2. ~Later(s)
    BY <2>1 DEF IInv, ReaderOK
  <2>3. s \in Nat /\ stage \in Nat
    BY StagesAssumption DEF IInv, TypeOK, Stages
  <2>4. Over(s)
    BY <1>1, <2>2, <2>3 DEF Over, Later
  <2> QED BY <2>1, <2>4 DEF IInv, ReaderOK
<1>4. CASE openFails(s)
  BY <1>4 DEF openFails, IInv, TypeOK
<1> QED BY <1>2, <1>3, <1>4

\* However many times ninja is run and whatever it sends, the outputs are called
\* after Status.Finish only for a reader that Close gave up on, or for a fifo that
\* could not be opened.
THEOREM OutputsQuiet == Spec => QuietAfterFlush
<1>1. IInv /\ [Next]_vars =>
        [flushed /\ shown' # shown => \E s \in Stages : s \in timedOut \/ opener'[s] = "failed"]_vars
  BY FlushedStep
<1> QED BY <1>1, InitInv, Inductive, PTL DEF Spec, QuietAfterFlush

=============================================================================
