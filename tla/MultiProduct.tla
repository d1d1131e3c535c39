---------------------------- MODULE MultiProduct ----------------------------
(***************************************************************************)
(* multiproduct_kati (cmd/multiproduct_kati/main.go) builds many products, *)
(* each in an output directory of its own.  main chooses the products of   *)
(* its shard and feeds them to the workers through a channel; a worker     *)
(* runs buildProduct, whose deferred calls zip and remove the directory of *)
(* the product and report what failed.  A product may fail at every step   *)
(* that can call Fatal.                                                    *)
(***************************************************************************)
EXTENDS Integers, Sequences, FiniteSets, SequencesExt

CONSTANTS
    Workers,
    None,
    Inputs    \* the arguments, and the products the makefiles know

VARIABLES
    in,
    main,     \* where main is
    final,    \* finalProductsList
    sent,     \* the number of products put into the channel
    products, \* the channel
    worker,   \* where each worker is, its product, and whether a panic unwinds it
    results,  \* the results of each product reported to Status
    outDirs,  \* the products whose output directory exists
    zipped    \* the products whose artifacts are zipped

vars == <<in, main, final, sent, products, worker, results, outDirs, zipped>>

-----------------------------------------------------------------------------
(* main, until the workers run.                                            *)

\* The shard of that number, from 1: the first ones have one product more.
splitList(list, shardCount, shard) ==
    LET each == Len(list) \div shardCount
        extra == Len(list) % shardCount
        before(i) == i * each + (IF i < extra THEN i ELSE extra)
    IN  SubSeq(list, before(shard - 1) + 1, before(shard))

included(p) == p \in ToSet(in.all)
skipped(p) == p \in in.skip

chooseProducts ==
    /\ main = "start"
    /\ LET list == SelectSeq(IF in.include = << >> THEN in.all ELSE in.include,
                             LAMBDA p : ~skipped(p))
           bad == \/ \E i \in DOMAIN in.include : ~included(in.include[i])
                  \/ in.shard < 1 \/ in.shardCount < 1 \/ in.shard > in.shardCount
       IN  IF bad
           THEN main' = "fatal" /\ UNCHANGED final
           ELSE /\ main' = "wait"
                /\ final' = splitList(list, in.shardCount, in.shard)
    /\ UNCHANGED <<in, sent, products, worker, results, outDirs, zipped>>

\* The goroutine that feeds the workers; the channel has room for every
\* product, and is closed when all are sent.
feed ==
    /\ main = "wait" /\ sent < Len(final)
    /\ sent' = sent + 1
    /\ products' = Append(products, final[sent + 1])
    /\ UNCHANGED <<in, main, final, worker, results, outDirs, zipped>>

closed == main = "wait" /\ sent = Len(final)

-----------------------------------------------------------------------------
(* A worker, and buildProduct.                                             *)

At(w, step) == main = "wait" /\ worker[w].pc = step
Goto(w, step) == worker' = [worker EXCEPT ![w].pc = step]
product(w) == worker[w].product
finishAction(w, result) == results' = [results EXCEPT ![product(w)] = Append(@, result)]

take(w) ==
    /\ At(w, "take")
    /\ \/ /\ products # << >>
          /\ worker' = [worker EXCEPT ![w] = [pc |-> "setup", product |-> Head(products),
                                              panicking |-> FALSE]]
          /\ products' = Tail(products)
       \/ /\ products = << >> /\ closed
          /\ Goto(w, "done")
          /\ UNCHANGED products
    /\ UNCHANGED <<in, main, final, sent, results, outDirs, zipped>>

\* Before the action is started an error ends the process: nothing recovers it, or
\* the Cleanup of the log of the product exits.
setup(w) ==
    /\ At(w, "setup")
    /\ \/ /\ outDirs' = outDirs \cup {product(w)}
          /\ Goto(w, "configure")
          /\ UNCHANGED main
       \/ /\ outDirs' \in {outDirs, outDirs \cup {product(w)}}
          /\ main' = "crash"
          /\ UNCHANGED worker
    /\ UNCHANGED <<in, final, sent, products, results, zipped>>

\* A Fatal here is recovered; the deferred call that removes the directory
\* is not yet registered.
configure(w) ==
    /\ At(w, "configure")
    /\ \/ Goto(w, "build") /\ UNCHANGED results
       \/ Goto(w, "take") /\ finishAction(w, "error")
    /\ UNCHANGED <<in, main, final, sent, products, outDirs, zipped>>

\* Build, and the copy of the log.
build(w) ==
    /\ At(w, "build")
    /\ \/ Goto(w, "report")
       \/ worker' = [worker EXCEPT ![w].pc = "artifacts", ![w].panicking = TRUE]
    /\ UNCHANGED <<in, main, final, sent, products, results, outDirs, zipped>>

report(w) ==
    /\ At(w, "report")
    /\ finishAction(w, "ok")
    /\ Goto(w, "artifacts")
    /\ UNCHANGED <<in, main, final, sent, products, outDirs, zipped>>

\* Mutant: what failed before the artifacts were zipped is not reported.
artifactsQuiet(w) ==
    /\ At(w, "artifacts")
    /\ \E fails \in {FALSE, in.keepArtifacts} :
        /\ zipped' = IF in.keepArtifacts /\ ~fails THEN zipped \cup {product(w)} ELSE zipped
        /\ outDirs' = IF fails \/ in.incremental THEN outDirs ELSE outDirs \ {product(w)}
        /\ IF fails THEN finishAction(w, "error") ELSE UNCHANGED results
    /\ Goto(w, "take")
    /\ UNCHANGED <<in, main, final, sent, products>>

\* The deferred calls: the artifacts are zipped and the directory is removed,
\* and what failed, also in the first of these, is recovered and reported.
artifacts(w) ==
    /\ At(w, "artifacts")
    /\ \E fails \in {FALSE, in.keepArtifacts} :
        /\ zipped' = IF in.keepArtifacts /\ ~fails THEN zipped \cup {product(w)} ELSE zipped
        /\ outDirs' = IF fails \/ in.incremental THEN outDirs ELSE outDirs \ {product(w)}
        /\ IF fails \/ worker[w].panicking THEN finishAction(w, "error") ELSE UNCHANGED results
    /\ Goto(w, "take")
    /\ UNCHANGED <<in, main, final, sent, products>>

-----------------------------------------------------------------------------
(* The end of main.                                                        *)

\* failureCount counts the errors that are reported.
failures == Cardinality({<<p, i>> \in (DOMAIN results) \X (1 .. 2) :
                            i <= Len(results[p]) /\ results[p][i] = "error"})

\* wg.Wait, and the zip of the logs.
finish ==
    /\ main = "wait" /\ closed
    /\ \A w \in Workers : worker[w].pc = "done"
    /\ \/ main' = IF failures = 0 THEN "success" ELSE "failure"
       \/ in.alternateResultDir /\ main' = "fatal"
    /\ UNCHANGED <<in, final, sent, products, worker, results, outDirs, zipped>>

Init ==
    /\ in \in Inputs
    /\ main = "start"
    /\ final = << >> /\ sent = 0 /\ products = << >>
    /\ worker = [w \in Workers |-> [pc |-> "take", product |-> None, panicking |-> FALSE]]
    /\ results = [p \in ToSet(in.all) |-> << >>]
    /\ outDirs = {} /\ zipped = {}

Next ==
    \/ chooseProducts \/ feed \/ finish
    \/ \E w \in Workers : \/ take(w) \/ setup(w) \/ configure(w) \/ build(w) \/ report(w)
                          \/ artifacts(w)

Spec == Init /\ [][Next]_vars

-----------------------------------------------------------------------------
(* Properties.                                                             *)

Asked == {p \in ToSet(in.all) : p \notin in.skip /\ (in.include = << >> \/ p \in ToSet(in.include))}

\* No two workers ever build the same product, hence in the same directory.
Apart == \A v, w \in Workers : v # w /\ product(v) = product(w) =>
            "take" \in {worker[v].pc, worker[w].pc} \/ "done" \in {worker[v].pc, worker[w].pc}

\* The products of the shard are those that are asked for and fall to it when
\* they are dealt out in order, in shards that differ by one product at most.
ShardExact ==
    LET shards == [i \in 1 .. in.shardCount |->
                      splitList(SelectSeq(IF in.include = << >> THEN in.all ELSE in.include,
                                          LAMBDA p : ~skipped(p)), in.shardCount, i)]
    IN  /\ UNION {ToSet(shards[i]) : i \in DOMAIN shards} = Asked
        /\ \A i, j \in DOMAIN shards :
                i < j => /\ ToSet(shards[i]) \cap ToSet(shards[j]) = {}
                         /\ Len(shards[i]) - Len(shards[j]) \in {0, 1}
        /\ final = shards[in.shard]

\* When main reports success or a number of failures, every product of its shard
\* was built by exactly one worker and has a result.  It says success exactly when
\* nothing failed, and counts every product that failed once.  A product is reported
\* finished a second time exactly when its artifacts cannot be zipped after the
\* success was reported.  A directory is left behind only where it is wanted, or where
\* the product failed before its removal.
ProductsExact ==
    /\ Apart
    /\ main = "wait" => ShardExact
    /\ main \in {"success", "failure"} =>
        /\ \A p \in ToSet(in.all) :
            IF p \in ToSet(final)
            THEN /\ results[p] \in {<<"ok">>, <<"error">>, <<"ok", "error">>}
                 /\ Len(results[p]) = 2 => in.keepArtifacts /\ p \notin zipped
                 /\ results[p] = <<"ok">> => in.keepArtifacts = (p \in zipped)
                 /\ in.incremental \/ results[p] # <<"ok">> \/ p \notin outDirs
            ELSE results[p] = << >> /\ p \notin outDirs
        /\ failures = Cardinality({p \in ToSet(final) : results[p] # <<"ok">>})
        /\ (main = "success") = (failures = 0)

=============================================================================
