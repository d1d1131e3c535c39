------------------------------ MODULE Limiter -------------------------------
(***************************************************************************)
(* What a rate limiter of soong_zip promises (the comment on NewRateLimit, *)
(* zip/rate_limit.go): executions share a capacity, and an execution is    *)
(* let in if it fits, or if no capacity is in use.  RateLimit implements   *)
(* it with a goroutine and channels; ZipWriter is built on it.             *)
(***************************************************************************)
EXTENDS Integers, Functions

CONSTANTS Clients, Sizes, Capacity

VARIABLE held \* the size of each execution that has been let in

Fits(rest, size) ==
    LET total == SumFunction(rest) IN total = 0 \/ total + size <= Capacity

Without(c) == [x \in DOMAIN held \ {c} |-> held[x]]

With(rest, c, size) == [x \in DOMAIN rest \cup {c} |-> IF x = c THEN size ELSE rest[x]]

Acquire(c, size) ==
    /\ c \notin DOMAIN held
    /\ Fits(held, size)
    /\ held' = With(held, c, size)

Release(c) ==
    /\ c \in DOMAIN held
    /\ held' = Without(c)

\* An execution ends and another one takes the room it leaves.
HandOver(c, d, size) ==
    /\ c \in DOMAIN held
    /\ d \notin DOMAIN held
    /\ Fits(Without(c), size)
    /\ held' = With(Without(c), d, size)

Init == held = [x \in {} |-> 0]

Next ==
    \E c \in Clients :
        \/ Release(c)
        \/ \E size \in Sizes : Acquire(c, size) \/ \E d \in Clients : HandOver(c, d, size)

Spec == Init /\ [][Next]_held

=============================================================================
