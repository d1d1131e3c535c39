--------------------------- MODULE OncePerProofs ----------------------------
(***************************************************************************)
(* Proofs about OncePer, for any number of goroutines, keys and values,    *)
(* and whatever constructors need.                                         *)
(***************************************************************************)
EXTENDS OncePer, TLAPS

\* The steps at which a frame runs the constructor of its key.
Building == {"construct", "nested", "store"}

Real(val) == val \in Values \cup {Nil}

\* A frame that is active was called by a frame that waits for it.
Nesting == \A f \in Frames : f[2] > 1 /\ pc[f] # "idle" => pc[Caller(f)] = "nested"

\* The map holds the waiter of a key while one frame, and no other, builds its
\* value.
OneBuilder ==
    \A f \in Frames :
        pc[f] \in Building =>
            /\ values[key[f]] = Waiter
            /\ \A g \in Frames : pc[g] \in Building /\ key[g] = key[f] => g = f

\* What the other steps know of the map.
Known ==
    \A f \in Frames :
        /\ pc[f] = "close" => values[key[f]] = v[f]
        /\ pc[f] = "reload" => Real(values[key[f]])
        /\ pc[f] # "stillNotValid"

\* The state of a key.
KeyOK ==
    \A k \in Keys :
        /\ closed[k] => Real(values[k])
        /\ computed[k] = IF values[k] = Absent THEN 0 ELSE 1
        /\ returned[k] \subseteq {values[k]}

\* The inductive invariant.
IInv == TypeOK /\ Nesting /\ OneBuilder /\ Known /\ KeyOK

LEMMA FrameFacts ==
    ASSUME NEW f \in Frames
    PROVE  /\ f[2] > 1 => Caller(f) \in Frames /\ Caller(f) # f
           /\ f[2] < MaxDepth => /\ Callee(f) \in Frames /\ Callee(f) # f
                                 /\ Caller(Callee(f)) = f /\ Callee(f)[2] > 1
           /\ \A g \in Frames : f[2] > 1 /\ g[2] > 1 /\ Caller(f) = Caller(g) => f = g
           /\ f[2] > 1 /\ Caller(f)[2] > 1 => Caller(Caller(f)) # f
<1>1. PICK a \in Goroutines, n \in 1 .. MaxDepth : f = <<a, n>>
  BY DEF Frames
<1>2. ASSUME NEW g \in Frames, f[2] > 1, g[2] > 1, Caller(f) = Caller(g) PROVE f = g
  <2>1. PICK b \in Goroutines, m \in 1 .. MaxDepth : g = <<b, m>>
    BY DEF Frames
  <2>2. a = b /\ n - 1 = m - 1
    BY <1>1, <1>2, <2>1 DEF Caller
  <2> QED BY <1>1, <2>1, <2>2, DepthAssumption
<1> QED BY <1>1, <1>2, DepthAssumption DEF Frames, Caller, Callee

\* The end of a frame, for the frames around it.
LEMMA ResumeStep ==
    ASSUME TypeOK, Nesting, NEW f \in Frames, pc[f] \notin {"idle", "nested"},
           NEW next \in {"construct", "store"}, Resume(f, next)
    PROVE  /\ Nesting'
           /\ \A g \in Frames : \/ g = f /\ pc'[g] = "idle"
                                \/ g # f /\ pc'[g] = pc[g]
                                \/ g # f /\ pc[g] = "nested" /\ pc'[g] = next
           /\ pc' \in [Frames -> {pc[g] : g \in Frames} \cup {"idle", next}]
<1>1. \A g \in Frames : pc'[g] = IF g = f THEN "idle"
                                ELSE IF f[2] > 1 /\ g = Caller(f) THEN next
                                ELSE pc[g]
  BY DEF Resume
<1>2. f[2] > 1 => pc[Caller(f)] = "nested"
  BY DEF Nesting
<1>3. ASSUME NEW g \in Frames, g[2] > 1, pc'[g] # "idle"
      PROVE  pc'[Caller(g)] = "nested"
  <2>1. g # f /\ Caller(g) \in Frames
    BY <1>1, <1>3, FrameFacts
  <2>2. pc[g] # "idle"
    BY <1>1, <1>2, <1>3, <2>1
  <2>3. pc[Caller(g)] = "nested"
    BY <1>3, <2>2 DEF Nesting
  <2>4. Caller(g) # f /\ ~(f[2] > 1 /\ Caller(g) = Caller(f))
    BY <1>3, <2>1, <2>3, FrameFacts
  <2> QED BY <1>1, <2>1, <2>3, <2>4
<1>4. Nesting'
  BY <1>3 DEF Nesting
<1>5. pc' \in [Frames -> {pc[g] : g \in Frames} \cup {"idle", next}]
  BY DEF Resume
<1> QED BY <1>1, <1>2, <1>4, <1>5

\* A step that starts to build nothing and leaves the map alone.
LEMMA SameBuilders ==
    ASSUME OneBuilder, UNCHANGED <<values, key>>,
           \A g \in Frames : pc'[g] \in Building => pc[g] \in Building
    PROVE  OneBuilder'
BY DEF OneBuilder

\* A call returns what the map holds.
LEMMA ReturnKeeps ==
    ASSUME IInv, NEW f \in Frames, pc[f] \in {"load", "loadOrStore", "get", "reload", "close"},
           Real(values[key[f]]), Return(f, values[key[f]]),
           UNCHANGED <<values, key, todo, v, computed>>,
           \/ closed' = closed
           \/ closed' = [closed EXCEPT ![key[f]] = TRUE]
    PROVE  IInv'
<1>1. /\ Resume(f, "construct") /\ panicking' = panicking
      /\ returned' = [returned EXCEPT ![key[f]] = @ \cup {values[key[f]]}]
  BY DEF Return
<1>2. /\ Nesting'
      /\ \A g \in Frames : \/ g = f /\ pc'[g] = "idle"
                           \/ g # f /\ pc'[g] = pc[g]
                           \/ g # f /\ pc[g] = "nested" /\ pc'[g] = "construct"
      /\ pc' \in [Frames -> {pc[g] : g \in Frames} \cup {"idle", "construct"}]
  BY <1>1, ResumeStep DEF IInv
<1>3. TypeOK'
  <2>1. pc' \in [Frames -> {"idle", "load", "loadOrStore", "get", "construct", "nested",
                           "store", "close", "wait", "reload", "stillNotValid"}]
    BY <1>2 DEF IInv, TypeOK
  <2> QED BY <1>1, <2>1 DEF IInv, TypeOK, Real
<1>4. OneBuilder'
  BY <1>2, SameBuilders DEF IInv, Building
<1>5. Known'
  BY <1>2 DEF IInv, Known, Real
<1>6. KeyOK'
  BY <1>1 DEF IInv, KeyOK, TypeOK, Real
<1> QED BY <1>2, <1>3, <1>4, <1>5, <1>6 DEF IInv

\* A frame of its own goes on to another step, which builds nothing.
LEMMA GoOnKeeps ==
    ASSUME IInv, NEW f \in Frames, pc[f] \notin Building \cup {"idle"},
           NEW s \in {"loadOrStore", "wait", "reload"},
           s = "reload" => Real(values[key[f]]),
           pc' = [pc EXCEPT ![f] = s],
           UNCHANGED <<values, closed, key, todo, v, panicking, computed, returned>>
    PROVE  IInv'
<1>1. \A g \in Frames : pc'[g] = IF g = f THEN s ELSE pc[g]
  BY DEF IInv, TypeOK
<1>2. TypeOK'
  BY DEF IInv, TypeOK
<1>3. Nesting'
  BY <1>1, FrameFacts DEF IInv, Nesting, Building
<1>4. OneBuilder'
  BY <1>1, SameBuilders DEF IInv, Building
<1>5. Known'
  BY <1>1 DEF IInv, Known, Real
<1>6. KeyOK'
  BY DEF IInv, KeyOK, Real
<1> QED BY <1>2, <1>3, <1>4, <1>5, <1>6 DEF IInv

LEMMA maybeWaitForKeeps ==
    ASSUME IInv, NEW f \in Frames, pc[f] \in {"load", "loadOrStore", "get"},
           values[key[f]] # Absent, maybeWaitFor(f),
           UNCHANGED <<values, closed, key, todo, v, computed>>
    PROVE  IInv'
<1>1. CASE values[key[f]] = Waiter
  <2>1. pc' = [pc EXCEPT ![f] = "wait"] /\ UNCHANGED <<panicking, returned>>
    BY <1>1 DEF maybeWaitFor
  <2> QED BY <2>1, GoOnKeeps DEF Building
<1>2. CASE values[key[f]] # Waiter
  <2>1. Real(values[key[f]])
    BY <1>2 DEF Real, IInv, TypeOK
  <2> QED BY <1>2, <2>1, ReturnKeeps DEF maybeWaitFor
<1> QED BY <1>1, <1>2

\* A call panics: Get before Once, or Once after its constructor panicked.
LEMMA PanicKeeps ==
    ASSUME IInv, NEW f \in Frames, pc[f] \in {"get", "close"}, Panic(f),
           UNCHANGED <<values, key, todo, v, computed>>,
           \/ closed' = closed
           \/ pc[f] = "close" /\ closed' = [closed EXCEPT ![key[f]] = TRUE]
    PROVE  IInv'
<1>1. Resume(f, "store") /\ panicking' \in [Frames -> BOOLEAN] /\ returned' = returned
  BY DEF Panic, IInv, TypeOK
<1>2. /\ Nesting'
      /\ \A g \in Frames : \/ g = f /\ pc'[g] = "idle"
                           \/ g # f /\ pc'[g] = pc[g]
                           \/ g # f /\ pc[g] = "nested" /\ pc'[g] = "store"
      /\ pc' \in [Frames -> {pc[g] : g \in Frames} \cup {"idle", "store"}]
  BY <1>1, ResumeStep DEF IInv
<1>3. TypeOK'
  <2>1. pc' \in [Frames -> {"idle", "load", "loadOrStore", "get", "construct", "nested",
                           "store", "close", "wait", "reload", "stillNotValid"}]
    BY <1>2 DEF IInv, TypeOK
  <2> QED BY <1>1, <2>1 DEF IInv, TypeOK
<1>4. OneBuilder'
  BY <1>2, SameBuilders DEF IInv, Building
<1>5. Known'
  BY <1>2 DEF IInv, Known, Real
<1>6. KeyOK'
  <2>1. pc[f] = "close" => Real(values[key[f]])
    BY DEF IInv, Known, TypeOK, Real
  <2> QED BY <1>1, <2>1 DEF IInv, KeyOK, TypeOK, Real
<1> QED BY <1>2, <1>3, <1>4, <1>5, <1>6 DEF IInv

\* A frame that is idle is called.
LEMMA CallKeeps ==
    ASSUME IInv, NEW f \in Frames, NEW k \in Keys, Once(f, k) \/ Get(f, k)
    PROVE  IInv'
<1>1. PICK s \in {"load", "get"} : pc' = [pc EXCEPT ![f] = s]
  BY DEF Once, Get, Call
<1>2. /\ f[2] = 1 /\ pc[f] = "idle" /\ key' = [key EXCEPT ![f] = k]
      /\ UNCHANGED <<values, closed, todo, v, panicking, computed, returned>>
  BY DEF Once, Get, Call
<1>3. \A g \in Frames : /\ pc'[g] = IF g = f THEN s ELSE pc[g]
                        /\ g # f => key'[g] = key[g]
  BY <1>1, <1>2 DEF IInv, TypeOK
<1>4. TypeOK'
  BY <1>1, <1>2 DEF IInv, TypeOK
<1>5. Nesting'
  BY <1>2, <1>3, FrameFacts DEF IInv, Nesting
<1>6. OneBuilder'
  BY <1>2, <1>3 DEF IInv, OneBuilder, Building
<1>7. Known'
  BY <1>2, <1>3 DEF IInv, Known, Real
<1>8. KeyOK'
  BY <1>2 DEF IInv, KeyOK, Real
<1> QED BY <1>4, <1>5, <1>6, <1>7, <1>8 DEF IInv

\* The waiter is inserted, and its frame becomes the builder.
LEMMA loadOrStoreKeeps ==
    ASSUME IInv, NEW f \in Frames, loadOrStore(f)
    PROVE  IInv'
<1>1. CASE values[key[f]] # Absent
  BY <1>1, maybeWaitForKeeps DEF loadOrStore
<1>2. CASE values[key[f]] = Absent
  <2>1. /\ pc[f] = "loadOrStore"
        /\ values' = [values EXCEPT ![key[f]] = Waiter]
        /\ computed' = [computed EXCEPT ![key[f]] = @ + 1]
        /\ pc' = [pc EXCEPT ![f] = "construct"]
        /\ todo' = [todo EXCEPT ![f] = Needs[key[f]]]
        /\ v' = [v EXCEPT ![f] = Nil]
        /\ UNCHANGED <<panicking, returned, closed, key>>
    BY <1>2 DEF loadOrStore
  <2>2. TypeOK'
    <3>1. key[f] \in Keys /\ Needs[key[f]] \in SUBSET Keys
      BY NeedsAssumption DEF IInv, TypeOK
    <3>2. computed' \in [Keys -> Nat] /\ todo' \in [Frames -> SUBSET Keys]
      BY <2>1, <3>1 DEF IInv, TypeOK
    <3> QED BY <2>1, <3>2 DEF IInv, TypeOK
  <2>3. \A g \in Frames : pc'[g] = IF g = f THEN "construct" ELSE pc[g]
    BY <2>1 DEF IInv, TypeOK
  <2>4. \A k \in Keys : values'[k] = IF k = key[f] THEN Waiter ELSE values[k]
    BY <2>1 DEF IInv, TypeOK
  <2>5. Nesting'
    BY <2>1, <2>3, FrameFacts DEF IInv, Nesting
  <2>6. \A g \in Frames : pc[g] \in Building \cup {"close", "reload"} => key[g] # key[f]
    BY <1>2, ValuesAssumption DEF IInv, OneBuilder, Known, TypeOK, Real
  <2>7. \A g \in Frames : key[g] \in Keys
    BY DEF IInv, TypeOK
  <2>8. OneBuilder'
    BY <2>1, <2>3, <2>4, <2>6, <2>7 DEF IInv, OneBuilder, Building
  <2>9. Known'
    BY <2>1, <2>3, <2>4, <2>6, <2>7 DEF IInv, Known, Real, TypeOK
  <2>10. KeyOK'
    <3>1. ~closed[key[f]] /\ returned[key[f]] = {} /\ computed[key[f]] = 0
      BY <1>2, <2>7, ValuesAssumption DEF IInv, KeyOK, TypeOK, Real
    <3> QED BY <2>1, <2>4, <2>7, <3>1, ValuesAssumption DEF IInv, KeyOK, TypeOK, Real
  <2> QED BY <2>2, <2>5, <2>8, <2>9, <2>10 DEF IInv
<1> QED BY <1>1, <1>2

\* The constructor calls Once for another key.
LEMMA constructorCallsKeeps ==
    ASSUME IInv, NEW f \in Frames, NEW k \in Keys, constructorCalls(f, k)
    PROVE  IInv'
<1> DEFINE c == Callee(f)
<1>1. /\ pc[f] = "construct" /\ f[2] < MaxDepth
      /\ pc' = [pc EXCEPT ![f] = "nested", ![c] = "load"]
      /\ key' = [key EXCEPT ![c] = k]
      /\ todo' = [todo EXCEPT ![f] = @ \ {k}]
      /\ UNCHANGED <<values, closed, v, panicking, computed, returned>>
  BY DEF constructorCalls
<1>2. c \in Frames /\ c # f /\ Caller(c) = f /\ c[2] > 1
  BY <1>1, FrameFacts
<1>3. pc[c] = "idle"
  BY <1>1, <1>2 DEF IInv, Nesting
<1> HIDE DEF c
<1>4. \A g \in Frames : /\ pc'[g] = IF g = c THEN "load" ELSE IF g = f THEN "nested" ELSE pc[g]
                        /\ g # c => key'[g] = key[g]
  BY <1>1, <1>2 DEF IInv, TypeOK
<1>5. TypeOK'
  BY <1>1, <1>2 DEF IInv, TypeOK
<1>6. Nesting'
  <2> SUFFICES ASSUME NEW g \in Frames, g[2] > 1, pc'[g] # "idle"
               PROVE  pc'[Caller(g)] = "nested"
    BY DEF Nesting
  <2>1. CASE g = c
    BY <1>2, <1>4, <2>1
  <2>2. CASE g # c
    <3>1. pc[g] # "idle" /\ Caller(g) \in Frames
      BY <1>1, <1>4, <2>2, FrameFacts
    <3>2. pc[Caller(g)] = "nested"
      BY <3>1 DEF IInv, Nesting
    <3> QED BY <1>3, <1>4, <3>1, <3>2
  <2> QED BY <2>1, <2>2
<1>7. OneBuilder'
  <2>1. \A g \in Frames : pc'[g] \in Building => pc[g] \in Building /\ key'[g] = key[g]
    BY <1>1, <1>4 DEF Building
  <2>2. values' = values
    BY <1>1
  <2> QED BY <2>1, <2>2 DEF IInv, OneBuilder
<1>8. Known'
  <2>1. \A g \in Frames : pc'[g] \in {"close", "reload", "stillNotValid"} =>
                              pc[g] = pc'[g] /\ key'[g] = key[g]
    BY <1>4
  <2>2. values' = values /\ v' = v
    BY <1>1
  <2> QED BY <2>1, <2>2 DEF IInv, Known, Real
<1>9. KeyOK'
  BY <1>1 DEF IInv, KeyOK, Real
<1> QED BY <1>5, <1>6, <1>7, <1>8, <1>9 DEF IInv

\* The constructor ends, with a value or with a panic.
LEMMA constructorEndsKeeps ==
    ASSUME IInv, NEW f \in Frames,
           constructorPanics(f) \/ \E x \in Values : constructorReturns(f, x)
    PROVE  IInv'
<1>1. /\ pc[f] = "construct" /\ pc' = [pc EXCEPT ![f] = "store"]
      /\ v' \in [Frames -> Values \cup {Nil}] /\ panicking' \in [Frames -> BOOLEAN]
      /\ \A g \in Frames : g # f => v'[g] = v[g]
      /\ UNCHANGED <<values, closed, key, todo, computed, returned>>
  BY DEF constructorPanics, constructorReturns, IInv, TypeOK
<1>2. \A g \in Frames : pc'[g] = IF g = f THEN "store" ELSE pc[g]
  BY <1>1 DEF IInv, TypeOK
<1>3. TypeOK'
  BY <1>1 DEF IInv, TypeOK
<1>4. Nesting'
  BY <1>1, <1>2, FrameFacts DEF IInv, Nesting
<1>5. OneBuilder'
  BY <1>1, <1>2, SameBuilders DEF IInv, Building
<1>6. Known'
  BY <1>1, <1>2 DEF IInv, Known, Real
<1>7. KeyOK'
  BY <1>1 DEF IInv, KeyOK, Real
<1> QED BY <1>3, <1>4, <1>5, <1>6, <1>7 DEF IInv

\* The builder stores its value.
LEMMA storeKeeps ==
    ASSUME IInv, NEW f \in Frames, store(f)
    PROVE  IInv'
<1>1. /\ pc[f] = "store" /\ pc' = [pc EXCEPT ![f] = "close"]
      /\ values' = [values EXCEPT ![key[f]] = v[f]]
      /\ UNCHANGED <<closed, key, todo, v, panicking, computed, returned>>
  BY DEF store
<1>2. key[f] \in Keys /\ Real(v[f]) /\ values[key[f]] = Waiter
  BY <1>1 DEF IInv, TypeOK, OneBuilder, Building, Real
<1>3. \A g \in Frames : pc'[g] = IF g = f THEN "close" ELSE pc[g]
  BY <1>1 DEF IInv, TypeOK
<1>4. \A k \in Keys : values'[k] = IF k = key[f] THEN v[f] ELSE values[k]
  BY <1>1 DEF IInv, TypeOK
<1>5. TypeOK'
  BY <1>1, <1>2 DEF IInv, TypeOK, Real
<1>6. Nesting'
  BY <1>1, <1>3, FrameFacts DEF IInv, Nesting
<1>7. \A g \in Frames :
          /\ key[g] \in Keys
          /\ g # f /\ pc[g] \in Building \cup {"close", "reload"} => key[g] # key[f]
  BY <1>1, <1>2, ValuesAssumption DEF IInv, TypeOK, OneBuilder, Known, Building, Real
<1>8. OneBuilder'
  <2>1. \A g \in Frames : pc'[g] \in Building =>
                              pc[g] \in Building /\ values'[key[g]] = values[key[g]]
    BY <1>3, <1>4, <1>7 DEF Building
  <2>2. key' = key
    BY <1>1
  <2> QED BY <2>1, <2>2 DEF IInv, OneBuilder
<1>9. Known'
  BY <1>1, <1>2, <1>3, <1>4, <1>7 DEF IInv, Known, Real
<1>10. KeyOK'
  <2>1. returned[key[f]] = {} /\ v[f] # Absent /\ computed[key[f]] = 1
    BY <1>2, ValuesAssumption DEF IInv, KeyOK, TypeOK, Real
  <2> QED BY <1>1, <1>2, <1>4, <2>1 DEF IInv, KeyOK, Real
<1> QED BY <1>5, <1>6, <1>8, <1>9, <1>10 DEF IInv

LEMMA IInvInductive == IInv /\ [Next]_vars => IInv'
<1> SUFFICES ASSUME IInv, [Next]_vars PROVE IInv'
  OBVIOUS
<1>1. ASSUME NEW f \in Frames, load(f) PROVE IInv'
  <2>1. CASE values[key[f]] = Absent
    <3>1. pc' = [pc EXCEPT ![f] = "loadOrStore"] /\ UNCHANGED <<panicking, returned>>
      BY <1>1, <2>1 DEF load
    <3> QED BY <1>1, <3>1, GoOnKeeps DEF load, Building
  <2>2. CASE values[key[f]] # Absent
    BY <1>1, <2>2, maybeWaitForKeeps DEF load
  <2> QED BY <2>1, <2>2
<1>2. ASSUME NEW f \in Frames, getLoad(f) PROVE IInv'
  BY <1>2, PanicKeeps, maybeWaitForKeeps DEF getLoad
<1>3. ASSUME NEW f \in Frames, closeWaiter(f) PROVE IInv'
  <2>1. Real(values[key[f]]) /\ values[key[f]] = v[f]
    BY <1>3 DEF closeWaiter, IInv, Known, TypeOK, Real
  <2> QED BY <1>3, <2>1, PanicKeeps, ReturnKeeps DEF closeWaiter
<1>4. ASSUME NEW f \in Frames, wait(f) PROVE IInv'
  <2>1. Real(values[key[f]])
    BY <1>4 DEF wait, IInv, KeyOK, TypeOK
  <2> QED BY <1>4, <2>1, GoOnKeeps DEF wait, Building
<1>5. ASSUME NEW f \in Frames, reload(f) PROVE IInv'
  <2>1. Real(values[key[f]]) /\ values[key[f]] # Waiter
    BY <1>5, ValuesAssumption DEF reload, IInv, Known, Real
  <2> QED BY <1>5, <2>1, ReturnKeeps DEF reload
<1>6. CASE UNCHANGED vars
  <2>1. UNCHANGED <<values, closed, pc, key, todo, v, panicking, computed, returned>>
    BY <1>6 DEF vars, frameVars
  <2>2. TypeOK' /\ Nesting'
    BY <2>1 DEF IInv, TypeOK, Nesting
  <2>3. OneBuilder' /\ Known' /\ KeyOK'
    BY <2>1 DEF IInv, OneBuilder, Known, KeyOK, Real
  <2> QED BY <2>2, <2>3 DEF IInv
<1> QED
  BY <1>1, <1>2, <1>3, <1>4, <1>5, <1>6, CallKeeps, loadOrStoreKeeps, constructorCallsKeeps,
     constructorEndsKeeps, storeKeeps DEF Next, Step

LEMMA InitIInv == Init => IInv
<1> SUFFICES ASSUME Init PROVE IInv
  OBVIOUS
<1>1. TypeOK
  <2>1. (CHOOSE k \in Keys : TRUE) \in Keys
    BY NeedsAssumption
  <2> QED BY <2>1 DEF Init, TypeOK
<1>2. Nesting /\ OneBuilder /\ Known /\ KeyOK
  BY DEF Init, Nesting, OneBuilder, Known, KeyOK, Building
<1> QED BY <1>1, <1>2 DEF IInv

\* The variables of OncePer keep their types; no call returns a waiter.
THEOREM TypeCorrect == Spec => []TypeOK
<1>1. IInv => TypeOK
  BY DEF IInv
<1> QED BY <1>1, InitIInv, IInvInductive, PTL DEF Spec

\* For any number of goroutines and any nesting of constructors, Once calls the
\* constructor of a key at most once.
THEOREM ConstructedOnce == Spec => []ComputedOnce
<1>1. IInv => ComputedOnce
  BY DEF IInv, KeyOK, ComputedOnce
<1> QED BY <1>1, InitIInv, IInvInductive, PTL DEF Spec

\* All calls for a key return the one value of the map.
THEOREM CallersAgree == Spec => []Agreement
<1>1. IInv => Agreement
  BY DEF IInv, KeyOK, Agreement
<1> QED BY <1>1, InitIInv, IInvInductive, PTL DEF Spec

\* A waiter is closed only after the value is in the map: the panic in
\* maybeWaitFor is out of reach.
THEOREM WaitersValid == Spec => []WaiterIsValid
<1>1. IInv => WaiterIsValid
  BY DEF IInv, Known, WaiterIsValid
<1> QED BY <1>1, InitIInv, IInvInductive, PTL DEF Spec

=============================================================================
