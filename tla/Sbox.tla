-------------------------------- MODULE Sbox --------------------------------
(***************************************************************************)
(* sbox (cmd/sbox/sbox.go) runs a command that writes to a directory made  *)
(* for it, checks that the declared outputs are there, and moves them to   *)
(* the output directory, which it has emptied before.  The same rule is    *)
(* run again and again; a run may be killed between any two changes to the *)
(* file system, and a move may fail.                                       *)
(*                                                                         *)
(* A file is the number of the run that wrote it.  The command is          *)
(* external: it succeeds or not, and leaves any files.                     *)
(***************************************************************************)
EXTENDS Integers, FiniteSets

CONSTANTS
    Files,    \* names, relative to the output directory; 0 stands for no file
    Depfile,  \* one of them
    MaxRuns,
    Inputs    \* the arguments

VARIABLES
    in, pc,
    runs,       \* the number of runs, and the current one
    outputRoot, \* the run that each file in the output directory is from
    tempDir,    \* what is in the directory of the run, which the command fills
    todo,       \* the files that are still to be moved
    kept,       \* the runs whose directory is left in the sandbox
    rewritten   \* the run whose depfile was rewritten

vars == <<in, pc, runs, outputRoot, tempDir, todo, kept, rewritten>>

NoFiles == [f \in Files |-> 0]
allOutputs == in.outputs \cup (IF in.depfile THEN {Depfile} ELSE {})
Present(dir) == {f \in Files : dir[f] # 0}

-----------------------------------------------------------------------------

\* run, until its directory is made.  An output that is not in __SBOX_OUT_DIR__ is
\* an error, and the directory stays: its removal is not yet deferred.
prepare(args) ==
    /\ pc \in {"idle", "ok", "error"} /\ runs < MaxRuns
    /\ in' = args
    /\ runs' = runs + 1
    /\ tempDir' = NoFiles
    /\ todo' = {}
    /\ IF args.outputs = {} /\ ~args.copyAllOutput
       THEN pc' = "error" /\ UNCHANGED <<outputRoot, kept>>
       ELSE /\ outputRoot' = NoFiles
            /\ kept' = kept \cup {runs + 1}
            /\ pc' = IF args.outside THEN "error" ELSE "command"
    /\ UNCHANGED rewritten

\* The deferred removal of the directory.
cleanup(keepOutDir) == kept' = IF keepOutDir THEN kept ELSE kept \ {runs}

command ==
    /\ pc = "command"
    /\ \/ /\ pc' = "validate"
          /\ tempDir' \in [Files -> {0, runs}]
          /\ UNCHANGED kept
       \/ /\ pc' = "error"
          /\ cleanup(in.keepOutDir)
          /\ UNCHANGED tempDir
    /\ UNCHANGED <<in, runs, outputRoot, todo, rewritten>>

\* Mutant: an output that is missing is not moved, and is no error.
validateLoose ==
    /\ pc = "validate"
    /\ pc' = "move"
    /\ todo' = IF in.copyAllOutput THEN Present(tempDir) ELSE allOutputs \cap Present(tempDir)
    /\ UNCHANGED <<in, runs, outputRoot, tempDir, kept, rewritten>>

\* With -copy-all-output a missing output is no error, and all files are moved.
validate ==
    /\ pc = "validate"
    /\ IF ~in.copyAllOutput /\ ~(allOutputs \subseteq Present(tempDir))
       THEN pc' = "error" /\ cleanup(TRUE) /\ UNCHANGED todo
       ELSE /\ pc' = "move"
            /\ todo' = IF in.copyAllOutput THEN Present(tempDir) ELSE allOutputs
            /\ UNCHANGED kept
    /\ UNCHANGED <<in, runs, outputRoot, tempDir, rewritten>>

\* Chtimes and Rename of one file.
move ==
    /\ pc = "move"
    /\ \/ \E f \in todo :
            /\ outputRoot' = [outputRoot EXCEPT ![f] = tempDir[f]]
            /\ tempDir' = [tempDir EXCEPT ![f] = 0]
            /\ todo' = todo \ {f}
            /\ UNCHANGED <<pc, kept>>
       \/ /\ todo # {}
          /\ pc' = "error" /\ cleanup(in.keepOutDir)
          /\ UNCHANGED <<outputRoot, tempDir, todo>>
       \/ /\ todo = {}
          /\ pc' = "depfile"
          /\ UNCHANGED <<outputRoot, tempDir, todo, kept>>
    /\ UNCHANGED <<in, runs, rewritten>>

\* The name of the sandbox is taken out of the depfile, which may not parse.
rewriteDepfile ==
    /\ pc = "depfile"
    /\ IF in.depfile
       THEN \/ /\ outputRoot[Depfile] # 0
               /\ rewritten' = runs
               /\ pc' = "ok"
            \/ pc' = "error" /\ UNCHANGED rewritten
       ELSE pc' = "ok" /\ UNCHANGED rewritten
    /\ cleanup(in.keepOutDir)
    /\ UNCHANGED <<in, runs, outputRoot, tempDir, todo>>

kill ==
    /\ pc \notin {"idle", "ok", "error"}
    /\ pc' = "error"
    /\ UNCHANGED <<in, runs, outputRoot, tempDir, todo, kept, rewritten>>

Init ==
    /\ in \in Inputs
    /\ pc = "idle" /\ runs = 0
    /\ outputRoot = NoFiles /\ tempDir = NoFiles
    /\ todo = {} /\ kept = {} /\ rewritten = 0

Next ==
    \/ \E args \in Inputs : prepare(args)
    \/ command \/ validate \/ move \/ rewriteDepfile \/ kill

Spec == Init /\ [][Next]_vars

-----------------------------------------------------------------------------
(* Properties.                                                             *)

\* When sbox succeeds the output directory has exactly the declared outputs, or
\* with -copy-all-output all files the command wrote, every one of them from this
\* run, also after runs that failed or were killed with some files moved; the depfile
\* is rewritten and nothing is left in the sandbox unless that was asked for.
OutputsExact ==
    pc = "ok" =>
        /\ \A f \in Files : outputRoot[f] \in {0, runs}
        /\ IF in.copyAllOutput
           THEN Present(tempDir) = {}
           ELSE Present(outputRoot) = allOutputs
        /\ in.depfile => rewritten = runs /\ Depfile \in Present(outputRoot)
        /\ (runs \in kept) = in.keepOutDir

=============================================================================
