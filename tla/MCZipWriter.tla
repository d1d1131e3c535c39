---------------------------- MODULE MCZipWriter -----------------------------
(* Instances of ZipWriter for TLC.                                         *)
EXTENDS ZipWriter

Dir == [kind |-> "plain", size |-> 0, blocks |-> 0]
Link == [kind |-> "plain", size |-> 0, blocks |-> 1]
Small == [kind |-> "small", size |-> 1, blocks |-> 1]
Huge == [kind |-> "small", size |-> 4, blocks |-> 1] \* exceeds the memory limit of 3
Large == [kind |-> "large", size |-> 2, blocks |-> 2]

MCFiles == {Dir, Link, Small, Huge, Large}

\* Every pair of files, and lists that mix all kinds.
MCInputs ==
    UNION {[1 .. n -> MCFiles] : n \in 0 .. 2}
        \cup {<<Large, Small, Huge>>, <<Huge, Link, Large>>, <<Small, Small, Large>>,
              <<Small, Huge, Small>>, <<Dir, Large, Small>>}

MCLarge == {<<Large>>}

=============================================================================
