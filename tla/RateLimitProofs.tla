-------------------------- MODULE RateLimitProofs ---------------------------
(***************************************************************************)
(* Proofs about the rate limiters, for any number of clients and any       *)
(* capacity.                                                               *)
(***************************************************************************)
EXTENDS RateLimit, FiniteSetTheorems, TLAPS

States == {"idle", "requesting", "queued", "running", "finishing"}

\* The types, without the sign of the capacity in use.
Types ==
    /\ pc \in [Clients -> States]
    /\ size \in [Clients -> Nat]
    /\ requests \in Seq(Clients)
    /\ usedCapacity \in Int
    /\ currentRequest \in Clients \cup {NoClient}

\* The clients that wait on the channel requests are different, and wait.
QueueOK ==
    \A i \in 1 .. Len(requests) :
        /\ pc[requests[i]] = "requesting"
        /\ \A j \in 1 .. Len(requests) : requests[i] = requests[j] => i = j

\* The inductive invariant behind QueuedIsBlocked.
BlockedInv == Types /\ QueueOK /\ QueuedIsBlocked

\* What an iteration of monitorChannels leaves behind.
LEMMA ServiceStep ==
    ASSUME Types, size' = size, requests' \in Seq(Clients),
           NEW states \in [Clients -> States],
           NEW used \in Int,
           NEW req \in Clients \cup {NoClient},
           req # NoClient => states[req] = "queued",
           service(states, used, req)
    PROVE  /\ Types'
           /\ QueuedIsBlocked'
           /\ \A c \in Clients : c # req => pc'[c] = states[c]
<1>1. CASE req # NoClient /\ accepted(used, size'[req])
  <2>1. /\ usedCapacity' = used + size[req] /\ currentRequest' = NoClient
        /\ pc' = [states EXCEPT ![req] = "running"] /\ req \in Clients
    BY <1>1 DEF service
  <2>2. size[req] \in Nat
    BY <2>1 DEF Types
  <2> QED BY <2>1, <2>2 DEF Types, States, QueuedIsBlocked
<1>2. CASE ~(req # NoClient /\ accepted(used, size'[req]))
  <2>1. usedCapacity' = used /\ currentRequest' = req /\ pc' = states
    BY <1>2 DEF service
  <2> QED BY <1>2, <2>1 DEF Types, QueuedIsBlocked, accepted
<1> QED BY <1>1, <1>2

LEMMA BlockedInductive == BlockedInv /\ [Next]_vars => BlockedInv'
<1> SUFFICES ASSUME BlockedInv, [Next]_vars PROVE BlockedInv'
  OBVIOUS
<1> USE ClientAssumption, SizeAssumption DEF BlockedInv
<1>1. ASSUME NEW c \in Clients, Request(c) PROVE BlockedInv'
  <2>1. PICK s \in Sizes : size' = [size EXCEPT ![c] = s]
    BY <1>1 DEF Request
  <2>2. /\ pc' = [pc EXCEPT ![c] = "requesting"] /\ pc[c] = "idle"
        /\ requests' = Append(requests, c)
        /\ UNCHANGED <<usedCapacity, currentRequest, monitor>>
    BY <1>1 DEF Request, monitorVars
  <2>3. Types'
    BY <2>1, <2>2 DEF Types, States
  <2>4. QueueOK'
    BY <2>2 DEF Types, QueueOK
  <2>5. QueuedIsBlocked'
    BY <2>1, <2>2 DEF Types, QueuedIsBlocked, accepted
  <2> QED BY <2>3, <2>4, <2>5
<1>2. ASSUME NEW c \in Clients, Finish(c) PROVE BlockedInv'
  <2>1. /\ pc' = [pc EXCEPT ![c] = "finishing"] /\ pc[c] = "running"
        /\ UNCHANGED <<size, requests, usedCapacity, currentRequest, monitor>>
    BY <1>2 DEF Finish, monitorVars
  <2> QED BY <2>1 DEF Types, States, QueueOK, QueuedIsBlocked, accepted
<1>3. CASE Stop \/ monitorReturns \/ UNCHANGED vars
  <2>1. /\ UNCHANGED <<pc, size, requests, usedCapacity, currentRequest>>
        /\ monitor' # "panicked" => monitor # "panicked"
    BY <1>3 DEF Stop, monitorReturns, vars, clientVars, monitorVars
  <2> QED BY <2>1 DEF Types, QueueOK, QueuedIsBlocked, accepted
<1>4. CASE receiveRequest
  <2> DEFINE c == Head(requests)
             states == [pc EXCEPT ![c] = "queued"]
  <2>1. /\ c \in Clients /\ requests' = Tail(requests) /\ size' = size
        /\ requests # <<>> /\ service(states, usedCapacity, c)
    BY <1>4 DEF receiveRequest, Types
  <2>2. states \in [Clients -> States] /\ states[c] = "queued"
    BY <2>1 DEF Types, States
  <2>3. Types' /\ QueuedIsBlocked' /\ \A x \in Clients : x # c => pc'[x] = states[x]
    <3>1. requests' \in Seq(Clients) /\ usedCapacity \in Int
      BY <2>1 DEF Types
    <3> HIDE DEF states, c
    <3> QED BY <2>1, <2>2, <3>1, ServiceStep
  <2>4. QueueOK'
    <3>1. \A i \in 1 .. Len(requests') : requests'[i] = requests[i + 1] /\ requests'[i] # c
      BY <2>1 DEF Types, QueueOK
    <3>2. Len(requests') = Len(requests) - 1
      BY <2>1 DEF Types
    <3>3. \A i \in 1 .. Len(requests') : pc'[requests'[i]] = pc[requests[i + 1]]
      BY <2>1, <2>3, <3>1, <3>2 DEF Types
    <3>4. \A i \in 1 .. Len(requests') : i + 1 \in 1 .. Len(requests)
      BY <2>1, <3>2 DEF Types
    <3> QED BY <3>1, <3>3, <3>4 DEF QueueOK
  <2> QED BY <2>3, <2>4
<1>5. ASSUME NEW c \in Clients, receiveCompletion(c) PROVE BlockedInv'
  <2> DEFINE states == [pc EXCEPT ![c] = "idle"]
  <2>1. size' = size /\ requests' = requests /\ pc[c] = "finishing"
    BY <1>5 DEF receiveCompletion
  <2>2. states \in [Clients -> States]
    BY DEF Types, States
  <2>3. CASE usedCapacity - size[c] < 0
    <3>1. /\ pc' = states /\ currentRequest' = currentRequest /\ monitor' = "panicked"
          /\ usedCapacity' = usedCapacity - size[c]
      BY <1>5, <2>3 DEF receiveCompletion
    <3> QED
      BY <2>1, <2>2, <2>3, <3>1 DEF Types, QueueOK, QueuedIsBlocked, accepted
  <2>4. CASE ~(usedCapacity - size[c] < 0)
    <3>1. service(states, usedCapacity - size[c], currentRequest) /\ monitor = "running"
      BY <1>5, <2>4 DEF receiveCompletion
    <3>2. currentRequest # NoClient => states[currentRequest] = "queued"
      BY <2>1, <3>1 DEF Types, QueuedIsBlocked
    <3>3. /\ Types' /\ QueuedIsBlocked'
          /\ \A x \in Clients : x # currentRequest => pc'[x] = states[x]
      <4>1. usedCapacity - size[c] \in Int /\ requests' \in Seq(Clients)
            /\ currentRequest \in Clients \cup {NoClient}
        BY <2>1 DEF Types
      <4> HIDE DEF states
      <4> QED BY <2>1, <2>2, <3>1, <3>2, <4>1, ServiceStep
    <3>4. ASSUME NEW i \in 1 .. Len(requests)
          PROVE  pc'[requests[i]] = "requesting"
      <4>1. requests[i] \in Clients /\ pc[requests[i]] = "requesting"
        BY DEF Types, QueueOK
      <4>2. requests[i] # currentRequest /\ requests[i] # c
        BY <2>1, <3>1, <4>1, ClientAssumption DEF QueuedIsBlocked
      <4> QED BY <3>3, <4>1, <4>2 DEF Types
    <3>5. QueueOK'
      BY <2>1, <3>4 DEF QueueOK
    <3> QED BY <3>3, <3>5
  <2> QED BY <2>3, <2>4
<1> QED BY <1>1, <1>2, <1>3, <1>4, <1>5 DEF Next, monitorChannels

LEMMA InitBlocked == Init => BlockedInv
BY ClientAssumption DEF Init, BlockedInv, Types, States, QueueOK, QueuedIsBlocked

\* For every set of sizes and every capacity, a request is set aside only while
\* it does not fit (the decision at the end of every iteration of
\* monitorChannels).
THEOREM QueuedBlocked == Spec => []QueuedIsBlocked
<1>1. BlockedInv => QueuedIsBlocked
  BY DEF BlockedInv
<1> QED BY <1>1, InitBlocked, BlockedInductive, PTL DEF Spec

\* With the sizes of the CPU limiter, the capacity in use counts the clients
\* that were let in.
CountOK ==
    /\ \A c \in Clients : pc[c] # "idle" => size[c] = 1
    /\ usedCapacity = Cardinality(Holders)
    /\ Cardinality(Holders) <= Capacity

CountInv == BlockedInv /\ CountOK

Running(states) == {c \in Clients : states[c] \in {"running", "finishing"}}

LEMMA HoldersFinite ==
    \A H : H \subseteq Clients => IsFiniteSet(H) /\ Cardinality(H) \in Nat
BY FS_Subset, FS_CardinalityType, ClientAssumption

LEMMA CountService ==
    ASSUME NEW states \in [Clients -> States],
           NEW req \in Clients \cup {NoClient},
           req # NoClient => states[req] = "queued" /\ size'[req] = 1,
           Cardinality(Running(states)) <= Capacity,
           service(states, Cardinality(Running(states)), req)
    PROVE  /\ usedCapacity' = Cardinality(Holders')
           /\ Cardinality(Holders') <= Capacity
<1> DEFINE H == Running(states)
<1>1. IsFiniteSet(H) /\ Cardinality(H) \in Nat /\ Capacity \in Nat \ {0}
  BY HoldersFinite, SizeAssumption DEF Running
<1>2. CASE req # NoClient /\ accepted(Cardinality(H), size'[req])
  <2>1. /\ usedCapacity' = Cardinality(H) + 1 /\ req \in Clients /\ req \notin H
        /\ pc' = [states EXCEPT ![req] = "running"]
    BY <1>2 DEF service, Running
  <2>2. Holders' = H \cup {req}
    BY <2>1 DEF Holders, Running
  <2>3. Cardinality(H \cup {req}) = Cardinality(H) + 1
    BY <1>1, <2>1, FS_AddElement
  <2>4. Cardinality(H) + 1 <= Capacity
    BY <1>1, <1>2 DEF accepted
  <2> HIDE DEF H
  <2> QED BY <2>1, <2>2, <2>3, <2>4
<1>3. CASE ~(req # NoClient /\ accepted(Cardinality(H), size'[req]))
  <2>1. usedCapacity' = Cardinality(H) /\ pc' = states
    BY <1>3 DEF service
  <2>2. Holders' = H
    BY <2>1 DEF Holders, Running
  <2> QED BY <2>1, <2>2
<1> QED BY <1>2, <1>3

LEMMA CountInductive ==
    ASSUME Sizes = {1}
    PROVE  CountInv /\ [Next]_vars => CountInv'
<1> SUFFICES ASSUME CountInv, [Next]_vars PROVE CountOK'
  BY BlockedInductive DEF CountInv
<1> USE DEF CountInv, BlockedInv
<1>1. ASSUME NEW c \in Clients, Request(c) \/ Finish(c) PROVE CountOK'
  <2>1. Holders' = Holders /\ usedCapacity' = usedCapacity
    BY <1>1 DEF Request, Finish, Holders, Types, monitorVars
  <2>2. \A x \in Clients : pc'[x] # "idle" => size'[x] = 1
    BY <1>1 DEF Request, Finish, Types, CountOK
  <2> QED BY <2>1, <2>2 DEF CountOK
<1>2. CASE Stop \/ monitorReturns \/ UNCHANGED vars
  <2>1. UNCHANGED <<pc, size, usedCapacity>>
    BY <1>2 DEF Stop, monitorReturns, vars, clientVars, monitorVars
  <2> QED BY <2>1 DEF CountOK, Holders
<1>3. ASSUME NEW states \in [Clients -> States],
             NEW req \in Clients \cup {NoClient},
             size' = size,
             \A x \in Clients : states[x] # "idle" => size[x] = 1,
             req # NoClient => states[req] = "queued",
             Cardinality(Running(states)) <= Capacity,
             service(states, Cardinality(Running(states)), req)
      PROVE  CountOK'
  <2>1. req # NoClient => size'[req] = 1
    BY <1>3
  <2>2. usedCapacity' = Cardinality(Holders') /\ Cardinality(Holders') <= Capacity
    BY <1>3, <2>1, CountService
  <2>3. \A x \in Clients : pc'[x] # "idle" => states[x] # "idle"
    BY <1>3 DEF service
  <2> QED BY <1>3, <2>2, <2>3 DEF CountOK
<1>4. CASE receiveRequest
  <2> DEFINE c == Head(requests)
             states == [pc EXCEPT ![c] = "queued"]
  <2>1. /\ c \in Clients /\ pc[c] = "requesting"
        /\ size' = size /\ service(states, usedCapacity, c)
    BY <1>4 DEF receiveRequest, Types, QueueOK
  <2>2. states \in [Clients -> States] /\ states[c] = "queued"
    BY <2>1 DEF Types, States
  <2>3. Running(states) = Holders
    BY <2>1 DEF Running, Holders, Types
  <2>4. \A x \in Clients : states[x] # "idle" => size[x] = 1
    BY <2>1 DEF CountOK, Types
  <2> HIDE DEF states, c
  <2> QED BY <1>3, <2>1, <2>2, <2>3, <2>4 DEF CountOK
<1>5. ASSUME NEW c \in Clients, receiveCompletion(c) PROVE CountOK'
  <2> DEFINE states == [pc EXCEPT ![c] = "idle"]
  <2>1. pc[c] = "finishing" /\ size' = size /\ monitor = "running" /\ size[c] = 1
    BY <1>5 DEF receiveCompletion, CountOK
  <2>2. states \in [Clients -> States]
    BY DEF Types, States
  <2>3. Running(states) = Holders \ {c} /\ c \in Holders
    BY <2>1 DEF Running, Holders, Types
  <2>4. /\ Cardinality(Running(states)) = usedCapacity - size[c]
        /\ Cardinality(Running(states)) \in Nat
        /\ Cardinality(Running(states)) <= Capacity
    <3>1. Cardinality(Holders \ {c}) = Cardinality(Holders) - 1
      BY <2>3, HoldersFinite, FS_RemoveElement DEF Holders
    <3>2. Cardinality(Holders) \in Nat /\ Cardinality(Holders \ {c}) \in Nat
      BY HoldersFinite DEF Holders
    <3>3. usedCapacity = Cardinality(Holders) /\ Cardinality(Holders) <= Capacity
      BY DEF CountOK
    <3>4. Capacity \in Nat /\ size[c] = 1
      BY <2>1, SizeAssumption
    <3> HIDE DEF states
    <3> QED BY <2>3, <3>1, <3>2, <3>3, <3>4
  <2>5. service(states, Cardinality(Running(states)), currentRequest)
    BY <1>5, <2>4 DEF receiveCompletion
  <2>6. currentRequest # NoClient => states[currentRequest] = "queued"
    BY <2>1 DEF QueuedIsBlocked, Types
  <2>7. \A x \in Clients : states[x] # "idle" => size[x] = 1
    BY DEF CountOK, Types
  <2>8. currentRequest \in Clients \cup {NoClient}
    BY DEF Types
  <2> HIDE DEF states
  <2> QED BY <1>3, <2>1, <2>2, <2>4, <2>5, <2>6, <2>7, <2>8
<1> QED BY <1>1, <1>2, <1>4, <1>5 DEF Next, monitorChannels

\* For any number of goroutines and any capacity, the CPU limiter lets at most
\* as many of them compress at once as its capacity says (CPURateLimiter).
THEOREM CpuBounded ==
    ASSUME Sizes = {1}
    PROVE  Spec => []CpuBound
<1>1. Init => CountInv
  <2> SUFFICES ASSUME Init PROVE CountOK
    BY InitBlocked DEF CountInv
  <2>1. Holders = {}
    BY DEF Init, Holders
  <2>2. Cardinality(Holders) = 0
    BY <2>1, FS_EmptySet
  <2> QED BY <2>2, SizeAssumption DEF Init, CountOK
<1>2. CountInv /\ [Next]_vars => CountInv'
  BY CountInductive
<1>3. CountInv => CpuBound
  <2> SUFFICES ASSUME CountInv PROVE CpuBound
    OBVIOUS
  <2> DEFINE Positive == {c \in Holders : size[c] > 0}
  <2>1. IsFiniteSet(Holders)
    BY ClientAssumption, FS_Subset DEF Holders
  <2>2. IsFiniteSet(Positive) /\ Cardinality(Positive) <= Cardinality(Holders)
    BY <2>1, FS_Subset
  <2>3. Cardinality(Positive) \in Nat /\ Cardinality(Holders) \in Nat
    BY <2>1, <2>2, FS_CardinalityType
  <2> QED BY <2>2, <2>3, SizeAssumption DEF CountInv, CountOK, CpuBound
<1> QED BY <1>1, <1>2, <1>3, PTL DEF Spec

=============================================================================
