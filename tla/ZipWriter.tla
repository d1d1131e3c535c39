----------------------------- MODULE ZipWriter ------------------------------
(***************************************************************************)
(* The parallel writer of zip files (ZipWriter.write, zip/zip.go), the     *)
(* engine of soong_zip.  One goroutine adds the files in order and queues  *)
(* for each a channel of its entry; goroutines compute the checksum of a   *)
(* file and compress it, large files block by block; the main goroutine    *)
(* writes the entries and the blocks in the order of the queue.  A limiter *)
(* bounds the goroutines that compress and another the memory of entries   *)
(* that are not yet written.                                               *)
(*                                                                         *)
(* A task <<i, b>> is the goroutine of block b of file i; b = 0 is the     *)
(* checksum of a large file, or the whole of a small one.  Each limiter is *)
(* the one Limiter specifies and RateLimit implements.  The paths of the   *)
(* entries are not represented, nor their bytes.                           *)
(***************************************************************************)
EXTENDS Integers, Sequences, FiniteSets, Functions

CONSTANTS
    Inputs,      \* the lists of files to zip
    cpuCapacity,
    memCapacity,
    queueSize,   \* the capacity of the channel writeOps
    MaxFailures  \* bound on the number of calls that fail

ASSUME CapacityAssumption ==
    /\ {cpuCapacity, memCapacity, queueSize} \subseteq Nat \ {0}
    /\ MaxFailures \in Nat

VARIABLES
    input,    \* the files: their kind, size and number of blocks
    producer, \* where the goroutine that adds files is
    next,     \* the file it adds
    block,    \* the block of the file it is at
    writeOps, \* files in the channel writeOps
    task,     \* where each goroutine that compresses is
    ready,    \* files whose entry is in its channel
    reads,    \* blocks whose reader is in its channel
    main,     \* where write is
    op,       \* currentWriteOpChan: a file, or 0
    readers,  \* currentReaders: a file, or 0
    reader,   \* currentReader: a block of that file, or 0
    consumed, \* the number of readers taken from currentReaders
    out,      \* the headers and blocks written
    cpuHeld, memHeld, \* what the limiters let in
    monitors, \* the goroutines of the limiters that run
    open,     \* files that are open
    failures  \* the number of failures so far

producerVars == <<producer, next, block>>
taskVars == <<task, ready, reads>>
writerVars == <<main, op, readers, reader, consumed, out>>
limitVars == <<cpuHeld, memHeld, monitors>>
vars == <<input, producerVars, writeOps, taskVars, writerVars, limitVars, open, failures>>

Cpu == INSTANCE Limiter WITH Clients <- {}, Sizes <- {1}, Capacity <- cpuCapacity, held <- cpuHeld
Mem == INSTANCE Limiter WITH Clients <- {}, Sizes <- Nat, Capacity <- memCapacity, held <- memHeld

Files == DOMAIN input
Tasks == UNION {{i} \X (0 .. input[i].blocks) : i \in Files}
IsCrc(t) == t[2] = 0 /\ input[t[1]].kind = "large"

Failing == {t \in DOMAIN task : task[t] = "fail"}

Fail == failures < MaxFailures /\ failures' = failures + 1

Spawn(t) == task' = [x \in DOMAIN task \cup {t} |-> IF x = t THEN "run" ELSE task[x]]

-----------------------------------------------------------------------------
(* The goroutine that adds files.                                          *)

\* addFile of a directory or a symbolic link: its entry is complete.
addPlain ==
    /\ producer = "add"
    /\ next \in Files
    /\ input[next].kind = "plain"
    /\ Len(writeOps) < queueSize
    /\ writeOps' = Append(writeOps, next)
    /\ ready' = ready \cup {next}
    /\ reads' = reads \cup ({next} \X (1 .. input[next].blocks))
    /\ next' = next + 1
    /\ UNCHANGED <<input, producer, block, task, writerVars, limitVars, open, failures>>

\* addFile of a regular file, up to the requests of writeFileContents.
addRegular ==
    /\ producer = "add"
    /\ next \in Files
    /\ input[next].kind # "plain"
    /\ Len(writeOps) < queueSize
    /\ writeOps' = Append(writeOps, next)
    /\ open' = open \cup {next}
    /\ producer' = "cpu"
    /\ UNCHANGED <<input, next, block, taskVars, writerVars, limitVars, failures>>

\* A file that cannot be statted or opened, or whose destination is taken.
addFails ==
    /\ producer = "add"
    /\ next \in Files
    /\ Fail
    /\ producer' = "fail"
    /\ UNCHANGED <<input, next, block, writeOps, taskVars, writerVars, limitVars, open>>

requestCpu ==
    /\ producer = "cpu"
    /\ "cpu" \in monitors
    /\ Cpu!Acquire(<<next, 0>>, 1)
    /\ producer' = "mem"
    /\ UNCHANGED <<input, next, block, writeOps, taskVars, writerVars, memHeld, monitors, open,
                   failures>>

requestMem ==
    /\ producer = "mem"
    /\ "mem" \in monitors
    /\ Mem!Acquire(next, input[next].size)
    /\ Spawn(<<next, 0>>)
    /\ IF input[next].kind = "large"
       THEN producer' = "queue" /\ UNCHANGED next
       ELSE producer' = "add" /\ next' = next + 1
    /\ UNCHANGED <<input, block, writeOps, ready, reads, writerVars, cpuHeld, monitors, open,
                   failures>>

\* The loop over the blocks of a large file: a reader is queued for the next
\* block (block counts them), or the channel of readers is closed.
queueReader ==
    /\ producer = "queue"
    /\ IF block < input[next].blocks
       THEN block' = block + 1 /\ producer' = "block" /\ UNCHANGED next
       ELSE block' = 0 /\ producer' = "add" /\ next' = next + 1
    /\ UNCHANGED <<input, writeOps, taskVars, writerVars, limitVars, open, failures>>

\* Mutant: the blocks do not request the CPU.
requestBlockUnlimited ==
    /\ producer = "block"
    /\ Spawn(<<next, block>>)
    /\ cpuHeld' = [t \in DOMAIN cpuHeld \cup {<<next, block>>} |-> 1]
    /\ producer' = "queue"
    /\ UNCHANGED <<input, next, block, writeOps, ready, reads, writerVars, memHeld, monitors, open,
                   failures>>

\* The block requests the CPU, the window before it is read, its task starts.
requestBlock ==
    /\ producer = "block"
    /\ "cpu" \in monitors
    /\ Cpu!Acquire(<<next, block>>, 1)
    /\ \/ Spawn(<<next, block>>) /\ producer' = "queue" /\ UNCHANGED failures
       \/ block > 1 /\ Fail /\ producer' = "fail" /\ UNCHANGED task
    /\ UNCHANGED <<input, next, block, writeOps, ready, reads, writerVars, memHeld, monitors, open>>

\* The deferred close(z.writeOps).
closeWriteOps ==
    /\ \/ producer = "add" /\ next \notin Files
       \/ producer = "failed"
    /\ producer' = "closed"
    /\ UNCHANGED <<input, next, block, writeOps, taskVars, writerVars, limitVars, open, failures>>

Producer ==
    \/ addPlain \/ addRegular \/ addFails
    \/ requestCpu \/ requestMem \/ queueReader \/ requestBlock
    \/ closeWriteOps

-----------------------------------------------------------------------------
(* The goroutines that compress.                                           *)

\* crcFile sends its entry and then returns the CPU in a deferred call; the
\* others return the CPU and then send their result.
compress(t) ==
    /\ task[t] = "run"
    /\ task' = [task EXCEPT ![t] = IF IsCrc(t) THEN "send" ELSE "finish"]
    /\ UNCHANGED <<input, producerVars, writeOps, ready, reads, writerVars, limitVars, open, failures>>

compressFails(t) ==
    /\ task[t] = "run"
    /\ Fail
    /\ task' = [task EXCEPT ![t] = "fail"]
    /\ UNCHANGED <<input, producerVars, writeOps, ready, reads, writerVars, limitVars, open>>

\* Mutant: a block keeps the CPU it requested.
finishCpuForgotten(t) ==
    /\ task[t] = "finish"
    /\ task' = [task EXCEPT ![t] = IF IsCrc(t) THEN "done" ELSE "send"]
    /\ UNCHANGED <<input, producerVars, writeOps, ready, reads, writerVars, limitVars, open, failures>>

finishCpu(t) ==
    /\ task[t] = "finish"
    /\ "cpu" \in monitors
    /\ Cpu!Release(t)
    /\ task' = [task EXCEPT ![t] = IF IsCrc(t) THEN "done" ELSE "send"]
    /\ UNCHANGED <<input, producerVars, writeOps, ready, reads, writerVars, memHeld, monitors, open,
                   failures>>

sendResult(t) ==
    /\ task[t] = "send"
    /\ task' = [task EXCEPT ![t] = IF IsCrc(t) THEN "finish" ELSE "done"]
    /\ ready' = IF t[2] = 0 THEN ready \cup {t[1]} ELSE ready
    /\ reads' = IF IsCrc(t) THEN reads
                ELSE reads \cup {IF t[2] = 0 THEN <<t[1], 1>> ELSE t}
    /\ UNCHANGED <<input, producerVars, writeOps, writerVars, limitVars, open, failures>>

\* r.Close(): after compressWholeFile, or when the wait group of the goroutines
\* of a large file is done.
closeFile(i) ==
    /\ i \in open
    /\ i < next
    /\ \A b \in IF input[i].kind = "large" THEN 0 .. input[i].blocks ELSE {0} :
          task[<<i, b>>] = "done"
    /\ open' = open \ {i}
    /\ UNCHANGED <<input, producerVars, writeOps, taskVars, writerVars, limitVars, failures>>

Compressors ==
    \/ \E t \in DOMAIN task : compress(t) \/ finishCpu(t) \/ sendResult(t)
    \/ \E i \in Files : closeFile(i)

-----------------------------------------------------------------------------
(* The main goroutine.                                                     *)

\* The readers in the channel futureReaders of file i, and whether it is closed.
readersQueued(i) == IF i < next THEN input[i].blocks ELSE block
readersClosed(i) == i < next

Selecting == main = "loop" /\ reader = 0

\* case writeOp, ok := <-writeOpsChan
receiveWriteOp ==
    /\ Selecting /\ readers = 0 /\ op = 0
    /\ \/ /\ writeOps # <<>>
          /\ op' = Head(writeOps)
          /\ writeOps' = Tail(writeOps)
          /\ UNCHANGED main
       \/ /\ writeOps = <<>>
          /\ producer = "closed"
          /\ main' = "last"
          /\ UNCHANGED <<op, writeOps>>
    /\ UNCHANGED <<input, producerVars, taskVars, readers, reader, consumed, out, limitVars, open,
                   failures>>

\* case op := <-writeOpChan: the header is written and the memory given back.
receiveOp ==
    /\ Selecting /\ readers = 0 /\ op \in ready
    /\ out' = Append(out, <<op, 0>>)
    /\ readers' = IF input[op].blocks = 0 THEN 0 ELSE op
    /\ consumed' = 0
    /\ op' = 0
    /\ IF op \in DOMAIN memHeld THEN Mem!Release(op) ELSE UNCHANGED memHeld
    /\ UNCHANGED <<input, producerVars, writeOps, taskVars, main, reader, cpuHeld, monitors, open,
                   failures>>

\* Mutant: a channel with no reader in it is taken for a closed one.
receiveReadersEager ==
    /\ Selecting /\ readers # 0
    /\ \/ /\ consumed < readersQueued(readers)
          /\ reader' = consumed + 1
          /\ consumed' = consumed + 1
          /\ UNCHANGED readers
       \/ /\ consumed = readersQueued(readers)
          /\ readers' = 0
          /\ UNCHANGED <<reader, consumed>>
    /\ UNCHANGED <<input, producerVars, writeOps, taskVars, main, op, out, limitVars, open, failures>>

\* case futureReader, ok := <-readersChan
receiveReaders ==
    /\ Selecting /\ readers # 0
    /\ \/ /\ consumed < readersQueued(readers)
          /\ reader' = consumed + 1
          /\ consumed' = consumed + 1
          /\ UNCHANGED readers
       \/ /\ consumed = readersQueued(readers)
          /\ readersClosed(readers)
          /\ readers' = 0
          /\ UNCHANGED <<reader, consumed>>
    /\ UNCHANGED <<input, producerVars, writeOps, taskVars, main, op, out, limitVars, open, failures>>

\* case reader := <-currentReader
receiveReader ==
    /\ main = "loop" /\ reader # 0
    /\ <<readers, reader>> \in reads
    /\ out' = Append(out, <<readers, reader>>)
    /\ reader' = 0
    /\ UNCHANGED <<input, producerVars, writeOps, taskVars, main, op, readers, consumed, limitVars,
                   open, failures>>

\* Writing a header or a block fails.
writeFails ==
    /\ \/ Selecting /\ readers = 0 /\ op \in ready
       \/ main = "loop" /\ reader # 0 /\ <<readers, reader>> \in reads
    /\ Fail
    /\ main' = "err"
    /\ UNCHANGED <<input, producerVars, writeOps, taskVars, op, readers, reader, consumed, out,
                   limitVars, open>>

\* case err := <-z.errors, in the loop or as the last chance after it.
receiveError ==
    /\ main \in {"loop", "last"}
    /\ \/ /\ producer = "fail"
          /\ producer' = "failed"
          /\ UNCHANGED task
       \/ /\ \E t \in Failing :
                task' = [task EXCEPT ![t] = IF IsCrc(t) THEN "finish" ELSE "done"]
          /\ UNCHANGED producer
    /\ main' = "err"
    /\ UNCHANGED <<input, next, block, writeOps, ready, reads, op, readers, reader, consumed, out,
                   limitVars, open, failures>>

lastChance ==
    /\ main = "last"
    /\ Failing = {} /\ producer # "fail"
    /\ main' = "ok"
    /\ UNCHANGED <<input, producerVars, writeOps, taskVars, op, readers, reader, consumed, out,
                   limitVars, open, failures>>

Writer ==
    \/ receiveWriteOp \/ receiveOp \/ receiveReaders \/ receiveReader
    \/ receiveError \/ lastChance

Returned == main \in {"ok", "err"}

\* The deferred calls of write stop the limiters and close the channel errors.
stopLimiter(m) ==
    /\ Returned
    /\ m \in monitors
    /\ monitors' = monitors \ {m}
    /\ UNCHANGED <<input, producerVars, writeOps, taskVars, writerVars, cpuHeld, memHeld, open, failures>>

\* A send on the closed channel errors.
sendOnClosed ==
    /\ Returned
    /\ Failing # {} \/ producer = "fail"
    /\ main' = "panic"
    /\ UNCHANGED <<input, producerVars, writeOps, taskVars, op, readers, reader, consumed, out,
                   limitVars, open, failures>>

\* write has returned, and nothing has to happen any more.
AfterWrite == (Returned \/ main = "panic") /\ UNCHANGED vars

Init ==
    /\ input \in Inputs
    /\ producer = "add" /\ next = 1 /\ block = 0
    /\ writeOps = <<>>
    /\ task = [t \in {} |-> "run"]
    /\ ready = {} /\ reads = {}
    /\ main = "loop" /\ op = 0 /\ readers = 0 /\ reader = 0 /\ consumed = 0
    /\ out = <<>>
    /\ cpuHeld = [t \in {} |-> 0] /\ memHeld = [i \in {} |-> 0]
    /\ monitors = {"cpu", "mem"}
    /\ open = {}
    /\ failures = 0

Next ==
    \/ /\ main # "panic"
       /\ \/ Producer \/ Compressors \/ Writer
          \/ \E t \in DOMAIN task : compressFails(t)
          \/ writeFails
          \/ \E m \in monitors : stopLimiter(m)
          \/ sendOnClosed
    \/ AfterWrite

Spec == Init /\ [][Next]_vars

\* The Go runtime runs every goroutine that can run; failures need not happen.
FairSpec ==
    /\ Spec
    /\ WF_vars(main # "panic" /\ Producer)
    /\ WF_vars(main # "panic" /\ Compressors)
    /\ WF_vars(Writer)

-----------------------------------------------------------------------------
(* Properties.                                                             *)

\* The header and the blocks of every file, in the order of the files.
Archive ==
    LET f[i \in 0 .. Len(input)] ==
            IF i = 0 THEN <<>>
            ELSE f[i - 1] \o [b \in 1 .. input[i].blocks + 1 |-> <<i, b - 1>>]
    IN  f[Len(input)]

\* Whatever order the goroutines compress in, the archive is written file by
\* file and block by block; when write returns without an error it is complete,
\* and no call failed.  With at most one failing call, no goroutine sends on the
\* channel errors after write has closed it.
ArchiveInOrder ==
    /\ Len(out) <= Len(Archive) /\ out = SubSeq(Archive, 1, Len(out))
    /\ main = "ok" => out = Archive /\ failures = 0
    /\ failures <= 1 => main # "panic"

\* Files that were let in and whose header is not written.
Buffered == {t[1] : t \in DOMAIN task} \ {out[n][1] : n \in DOMAIN out}

\* At most cpuCapacity goroutines compress at once, and the files that are
\* read or compressed and not yet written stay within memCapacity, unless one
\* file alone exceeds it.
WithinLimits ==
    LET size == [i \in Buffered |-> input[i].size]
    IN  /\ Cardinality({t \in DOMAIN task : task[t] = "run"}) <= cpuCapacity
        /\ \/ SumFunction(size) <= memCapacity
           \/ \E i \in Buffered : size[i] = SumFunction(size)

\* write returns, however small the limits and the queue, and whatever fails:
\* neither limiter and no channel makes the goroutines wait in a circle.
WriteReturns == <>(main \in {"ok", "err", "panic"})

\* "Close the file handle after all readers are done": once write has returned
\* without an error, every file is closed.
FilesClosed == main = "ok" ~> open = {}

=============================================================================
