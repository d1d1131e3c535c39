------------------------------ MODULE OncePer -------------------------------
(***************************************************************************)
(* OncePer (android/onceper.go): values computed once per key and shared   *)
(* by the goroutines of the build's analysis.  The first caller of Once    *)
(* puts a waiter into a concurrent map, runs the constructor, stores its   *)
(* value and closes the waiter; the other callers wait.  A constructor may *)
(* itself call Once for other keys, and may panic.                         *)
(*                                                                         *)
(* A call is a frame <<g, n>>: goroutine g at nesting depth n.  A waiter   *)
(* is stored only where nothing was and is never put back, so a key has at *)
(* most one, and it is identified with the key.                            *)
(***************************************************************************)
EXTENDS Integers, FiniteSets

CONSTANTS
    Goroutines,
    MaxDepth, \* bound on the nesting of calls
    Keys,
    Needs,    \* Needs[k]: the keys the constructor for k calls Once for
    Values,   \* what constructors return
    Nil, Absent, Waiter

ASSUME DepthAssumption == MaxDepth \in Nat

ASSUME NeedsAssumption == Keys # {} /\ Needs \in [Keys -> SUBSET Keys]

ASSUME ValuesAssumption ==
    /\ Nil \notin Values
    /\ {Absent, Waiter} \cap (Values \cup {Nil}) = {}
    /\ Absent # Waiter

VARIABLES
    values,    \* the map: Absent, Waiter or a value for each key
    closed,    \* the waiter of the key is closed
    pc,        \* where each frame is
    key,       \* the key it was called with
    todo,      \* the keys its constructor has still to call Once for
    v,         \* the variable v of its call to Once
    panicking, \* its constructor panicked
    computed,  \* how often the constructor of each key was called
    returned   \* the values the calls for each key returned

frameVars == <<pc, key, todo, v, panicking>>
vars == <<values, closed, frameVars, computed, returned>>

Frames == Goroutines \X (1 .. MaxDepth)
Caller(f) == <<f[1], f[2] - 1>>
Callee(f) == <<f[1], f[2] + 1>>

-----------------------------------------------------------------------------

\* The frame f ends, and its caller, if it has one, goes on at step next.
Resume(f, next) ==
    pc' = [c \in Frames |-> IF c = f THEN "idle"
                            ELSE IF f[2] > 1 /\ c = Caller(f) THEN next
                            ELSE pc[c]]

Return(f, val) ==
    /\ Resume(f, "construct")
    /\ returned' = [returned EXCEPT ![key[f]] = @ \cup {val}]
    /\ UNCHANGED panicking

\* The caller's constructor panics in turn: its deferred function runs.
Panic(f) ==
    /\ Resume(f, "store")
    /\ panicking' = [c \in Frames |-> IF c = f THEN FALSE
                                      ELSE IF f[2] > 1 /\ c = Caller(f) THEN TRUE
                                      ELSE panicking[c]]
    /\ UNCHANGED returned

\* A call that found something in the map.
maybeWaitFor(f) ==
    IF values[key[f]] = Waiter
    THEN pc' = [pc EXCEPT ![f] = "wait"] /\ UNCHANGED <<panicking, returned>>
    ELSE Return(f, values[key[f]])

Call(f, k, step) ==
    /\ f[2] = 1
    /\ pc[f] = "idle"
    /\ pc' = [pc EXCEPT ![f] = step]
    /\ key' = [key EXCEPT ![f] = k]
    /\ UNCHANGED <<values, closed, todo, v, panicking, computed, returned>>

Once(f, k) == Call(f, k, "load")

Get(f, k) == Call(f, k, "get")

\* The fast path of Once.
load(f) ==
    /\ pc[f] = "load"
    /\ IF values[key[f]] = Absent
       THEN pc' = [pc EXCEPT ![f] = "loadOrStore"] /\ UNCHANGED <<panicking, returned>>
       ELSE maybeWaitFor(f)
    /\ UNCHANGED <<values, closed, key, todo, v, computed>>

\* Mutant: the waiter is stored whatever the map holds.
loadOrStoreBlind(f) ==
    /\ pc[f] = "loadOrStore"
    /\ values' = [values EXCEPT ![key[f]] = Waiter]
    /\ computed' = [computed EXCEPT ![key[f]] = @ + 1]
    /\ pc' = [pc EXCEPT ![f] = "construct"]
    /\ todo' = [todo EXCEPT ![f] = Needs[key[f]]]
    /\ v' = [v EXCEPT ![f] = Nil]
    /\ UNCHANGED <<closed, key, panicking, returned>>

\* The slow path: the waiter is inserted, unless something is there by now.
loadOrStore(f) ==
    /\ pc[f] = "loadOrStore"
    /\ IF values[key[f]] = Absent
       THEN /\ values' = [values EXCEPT ![key[f]] = Waiter]
            /\ computed' = [computed EXCEPT ![key[f]] = @ + 1]
            /\ pc' = [pc EXCEPT ![f] = "construct"]
            /\ todo' = [todo EXCEPT ![f] = Needs[key[f]]]
            /\ v' = [v EXCEPT ![f] = Nil]
            /\ UNCHANGED <<panicking, returned>>
       ELSE maybeWaitFor(f) /\ UNCHANGED <<values, computed, todo, v>>
    /\ UNCHANGED <<closed, key>>

getLoad(f) ==
    /\ pc[f] = "get"
    /\ IF values[key[f]] = Absent THEN Panic(f) ELSE maybeWaitFor(f)
    /\ UNCHANGED <<values, closed, key, todo, v, computed>>

\* The constructor calls Once for a key it needs.
constructorCalls(f, k) ==
    /\ pc[f] = "construct"
    /\ k \in todo[f]
    /\ f[2] < MaxDepth
    /\ pc' = [pc EXCEPT ![f] = "nested", ![Callee(f)] = "load"]
    /\ key' = [key EXCEPT ![Callee(f)] = k]
    /\ todo' = [todo EXCEPT ![f] = @ \ {k}]
    /\ UNCHANGED <<values, closed, v, panicking, computed, returned>>

constructorReturns(f, x) ==
    /\ pc[f] = "construct"
    /\ todo[f] = {}
    /\ v' = [v EXCEPT ![f] = x]
    /\ pc' = [pc EXCEPT ![f] = "store"]
    /\ UNCHANGED <<values, closed, key, todo, panicking, computed, returned>>

constructorPanics(f) ==
    /\ pc[f] = "construct"
    /\ panicking' = [panicking EXCEPT ![f] = TRUE]
    /\ pc' = [pc EXCEPT ![f] = "store"]
    /\ UNCHANGED <<values, closed, key, todo, v, computed, returned>>

\* The deferred function: the value is stored, then the waiter is closed.
store(f) ==
    /\ pc[f] = "store"
    /\ values' = [values EXCEPT ![key[f]] = v[f]]
    /\ pc' = [pc EXCEPT ![f] = "close"]
    /\ UNCHANGED <<closed, key, todo, v, panicking, computed, returned>>

closeWaiter(f) ==
    /\ pc[f] = "close"
    /\ closed' = [closed EXCEPT ![key[f]] = TRUE]
    /\ IF panicking[f] THEN Panic(f) ELSE Return(f, v[f])
    /\ UNCHANGED <<values, key, todo, v, computed>>

\* maybeWaitFor: the waiter was closed, load the value.
wait(f) ==
    /\ pc[f] = "wait"
    /\ closed[key[f]]
    /\ pc' = [pc EXCEPT ![f] = "reload"]
    /\ UNCHANGED <<values, closed, key, todo, v, panicking, computed, returned>>

\* Mutant: the test for a waiter is inverted, and the call waits again.
reloadInverted(f) ==
    /\ pc[f] = "reload"
    /\ pc' = [pc EXCEPT ![f] = IF values[key[f]] = Waiter THEN "stillNotValid" ELSE "wait"]
    /\ UNCHANGED <<values, closed, key, todo, v, panicking, computed, returned>>

reload(f) ==
    /\ pc[f] = "reload"
    /\ IF values[key[f]] = Waiter
       THEN pc' = [pc EXCEPT ![f] = "stillNotValid"] /\ UNCHANGED <<panicking, returned>>
       ELSE Return(f, values[key[f]])
    /\ UNCHANGED <<values, closed, key, todo, v, computed>>

Init ==
    /\ values = [k \in Keys |-> Absent]
    /\ closed = [k \in Keys |-> FALSE]
    /\ pc = [f \in Frames |-> "idle"]
    /\ key = [f \in Frames |-> CHOOSE k \in Keys : TRUE]
    /\ todo = [f \in Frames |-> {}]
    /\ v = [f \in Frames |-> Nil]
    /\ panicking = [f \in Frames |-> FALSE]
    /\ computed = [k \in Keys |-> 0]
    /\ returned = [k \in Keys |-> {}]

Step(f) ==
    \/ load(f) \/ loadOrStore(f) \/ getLoad(f)
    \/ \E k \in Keys : constructorCalls(f, k)
    \/ \E x \in Values : constructorReturns(f, x)
    \/ store(f) \/ closeWaiter(f)
    \/ wait(f) \/ reload(f)

Next ==
    \E f \in Frames : \/ \E k \in Keys : Once(f, k) \/ Get(f, k)
                      \/ Step(f)
                      \/ constructorPanics(f)

Spec == Init /\ [][Next]_vars

\* A goroutine inside a call runs; constructors end or panic.
FairSpec == Spec /\ \A f \in Frames : WF_vars(Step(f))

-----------------------------------------------------------------------------
(* Properties.                                                             *)

\* The type of every variable; in particular only values and nil are returned.
TypeOK ==
    /\ values \in [Keys -> Values \cup {Nil, Absent, Waiter}]
    /\ closed \in [Keys -> BOOLEAN]
    /\ pc \in [Frames -> {"idle", "load", "loadOrStore", "get", "construct", "nested",
                          "store", "close", "wait", "reload", "stillNotValid"}]
    /\ key \in [Frames -> Keys]
    /\ todo \in [Frames -> SUBSET Keys]
    /\ v \in [Frames -> Values \cup {Nil}]
    /\ panicking \in [Frames -> BOOLEAN]
    /\ computed \in [Keys -> Nat]
    /\ returned \in [Keys -> SUBSET (Values \cup {Nil})]

\* Once calls a constructor at most once per key, whichever goroutines race for
\* it, even after the constructor panicked.
ComputedOnce == \A k \in Keys : computed[k] <= 1

\* Every call of Once or Get for a key returns the same value, the one that is
\* in the map: no caller sees a waiter, or nil when others see a value.
Agreement == \A k \in Keys : returned[k] \subseteq {values[k]}

\* The panic "Once() waiter completed but key is still not valid" is out of
\* reach: a waiter is closed after the value is in the map.
WaiterIsValid == \A f \in Frames : pc[f] # "stillNotValid"

\* If constructors do not need each other's values in a circle, every call
\* returns or panics: also callers that wait for a constructor that panics, and
\* for one that waits for other constructors.
CallsReturn == \A f \in Frames : pc[f] # "idle" ~> pc[f] = "idle"

=============================================================================
