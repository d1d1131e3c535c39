------------------------------ MODULE DepSets -------------------------------
(***************************************************************************)
(* The DepSets of android/depset.go: a graph of immutable nodes that is    *)
(* flattened into a list without duplicates, in one of three orders.       *)
(***************************************************************************)
EXTENDS Naturals, Sequences, SequencesExt

CONSTANTS
    Directs,   \* the lists of paths that may be the direct contents of a node
    MaxNodes,  \* bound on the number of nodes
    MaxDeps    \* bound on the length of a list of dependencies

VARIABLES
    order,     \* the order of all nodes: NewDepSet panics when they differ
    nodes,     \* the DepSets created so far
    args       \* history: what they were created from

vars == <<order, nodes, args>>

Orders == {"PREORDER", "POSTORDER", "TOPOLOGICAL"}

-----------------------------------------------------------------------------
\* A node keeps its arguments, reversed for TOPOLOGICAL.
Kept(list) == IF order = "TOPOLOGICAL" THEN Reverse(list) ELSE list

NewDepSet(direct, transitive) ==
    /\ Len(nodes) < MaxNodes
    /\ nodes' = Append(nodes, [direct |-> Kept(direct), transitive |-> Kept(transitive)])
    /\ args' = Append(args, [direct |-> direct, transitive |-> transitive])
    /\ UNCHANGED order

RECURSIVE dfs(_, _)
\* walk: the list appended so far and the nodes visited, after the dfs of d.
dfs(state, d) ==
    LET entered == [list |-> IF order = "PREORDER"
                             THEN state.list \o nodes[d].direct ELSE state.list,
                    visited |-> state.visited \cup {d}]
        below == FoldLeft(LAMBDA s, dep : IF dep \in s.visited THEN s ELSE dfs(s, dep),
                          entered, nodes[d].transitive)
    IN  IF order = "PREORDER" THEN below
        ELSE [below EXCEPT !.list = @ \o nodes[d].direct]

FirstUniquePaths(list) ==
    FoldLeft(LAMBDA l, p : IF p \in Range(l) THEN l ELSE Append(l, p), <<>>, list)

ToListForward(d) == FirstUniquePaths(dfs([list |-> <<>>, visited |-> {}], d).list)

ToList(d) ==
    LET list == FirstUniquePaths(dfs([list |-> <<>>, visited |-> {}], d).list)
    IN  IF order = "TOPOLOGICAL" THEN Reverse(list) ELSE list

-----------------------------------------------------------------------------
Init ==
    /\ order \in Orders
    /\ nodes = <<>>
    /\ args = <<>>

Next ==
    \E direct \in Directs, transitive \in BoundedSeq(DOMAIN nodes, MaxDeps) :
        NewDepSet(direct, transitive)

Spec == Init /\ [][Next]_vars

-----------------------------------------------------------------------------
RECURSIVE Expanded(_, _)
\* The contents of d with every path to a node followed, whatever was seen
\* before: a node before (first) or after what it depends on.
Expanded(d, first) ==
    LET below == FlattenSeq([i \in DOMAIN args[d].transitive |->
                               Expanded(args[d].transitive[i], first)])
    IN  IF first THEN args[d].direct \o below ELSE below \o args[d].direct

RECURSIVE Reached(_)
Reached(d) == {d} \cup UNION {Reached(c) : c \in Range(args[d].transitive)}

\* The nodes below d that contain x.
In(d, x) == {n \in Reached(d) : x \in Range(args[n].direct)}

\* ToList returns every path of the node and what it depends on once.  In
\* PREORDER and POSTORDER it is the list of the first occurrences when the graph
\* is expanded into a tree, left to right.  In TOPOLOGICAL order a path that is in
\* one node only comes before those of the nodes below it, and the
\* paths of one node keep their order.
DepSetOrdered ==
    \A d \in DOMAIN nodes :
       LET list == ToList(d)
           Before(x, y) == \E i, j \in DOMAIN list : i < j /\ list[i] = x /\ list[j] = y
       IN  /\ IsInjective(list)
           /\ Range(list) = UNION {Range(args[n].direct) : n \in Reached(d)}
           /\ order = "PREORDER" => list = FirstUniquePaths(Expanded(d, TRUE))
           /\ order = "POSTORDER" => list = FirstUniquePaths(Expanded(d, FALSE))
           /\ order = "TOPOLOGICAL" => \A n \in Reached(d) :
                 LET own == {i \in DOMAIN args[n].direct : In(d, args[n].direct[i]) = {n}}
                 IN  /\ \A i, j \in own :
                          i < j => Before(args[n].direct[i], args[n].direct[j])
                     /\ \A i \in own, c \in Reached(n) \ {n} : \A y \in Range(args[c].direct) :
                          In(d, y) = {c} => Before(args[n].direct[i], y)

=============================================================================
