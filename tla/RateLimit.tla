----------------------------- MODULE RateLimit ------------------------------
(***************************************************************************)
(* The rate limiters of soong_zip (zip/rate_limit.go).  A goroutine,       *)
(* monitorChannels, owns the count of the capacity in use.  Executions     *)
(* announce themselves on the channel requests and wait to be serviced,    *)
(* and report their end on the channel completions.  While a request does  *)
(* not fit, the goroutine keeps it aside and receives no other request.    *)
(*                                                                         *)
(* The channels are unbuffered: a send is one step with its reception, and *)
(* the senders that wait on a channel are served in order.  The answer to  *)
(* a request goes through a channel of its own that holds one element, so  *)
(* the execution is let in when the answer is sent.                        *)
(***************************************************************************)
EXTENDS Integers, Sequences, FiniteSets, Functions

CONSTANTS
    Clients,  \* the goroutines that share the limiter
    Sizes,    \* the sizes they ask for: {1} for the CPU limiter
    Capacity,
    NoClient

ASSUME ClientAssumption == IsFiniteSet(Clients) /\ NoClient \notin Clients

ASSUME SizeAssumption == Sizes \subseteq Nat /\ Capacity \in Nat \ {0}

VARIABLES
    pc,             \* where each client is
    size,           \* the size of its request
    requests,       \* clients that wait to send on requests, in order
    usedCapacity,
    currentRequest, \* the request set aside, or NoClient
    stop,           \* the channel stop is closed
    monitor         \* the state of the goroutine

clientVars == <<pc, size>>
monitorVars == <<usedCapacity, currentRequest, monitor>>
vars == <<clientVars, requests, monitorVars, stop>>

\* Mutant: a request is accepted while any capacity is left.
acceptedWhileAny(used, s) == used = 0 \/ Capacity > used

accepted(used, s) == used = 0 \/ Capacity >= used + s

\* Mutant: the request that is accepted does not count.
serviceUncounted(states, used, req) ==
    IF req # NoClient /\ accepted(used, size'[req])
    THEN /\ usedCapacity' = used
         /\ currentRequest' = NoClient
         /\ pc' = [states EXCEPT ![req] = "running"]
    ELSE /\ usedCapacity' = used
         /\ currentRequest' = req
         /\ pc' = states

\* The end of an iteration of monitorChannels, with the capacity in use and
\* the request it now has: the request is serviced or set aside.
service(states, used, req) ==
    IF req # NoClient /\ accepted(used, size'[req])
    THEN /\ usedCapacity' = used + size'[req]
         /\ currentRequest' = NoClient
         /\ pc' = [states EXCEPT ![req] = "running"]
    ELSE /\ usedCapacity' = used
         /\ currentRequest' = req
         /\ pc' = states

Request(c) ==
    /\ pc[c] = "idle"
    /\ \E s \in Sizes : size' = [size EXCEPT ![c] = s]
    /\ pc' = [pc EXCEPT ![c] = "requesting"]
    /\ requests' = Append(requests, c)
    /\ UNCHANGED <<monitorVars, stop>>

Finish(c) ==
    /\ pc[c] = "running"
    /\ pc' = [pc EXCEPT ![c] = "finishing"]
    /\ UNCHANGED <<size, requests, monitorVars, stop>>

Stop ==
    /\ ~stop
    /\ stop' = TRUE
    /\ UNCHANGED <<clientVars, requests, monitorVars>>

\* case newRequest := <-requests
receiveRequest ==
    /\ monitor = "running"
    /\ currentRequest = NoClient
    /\ requests # <<>>
    /\ size' = size
    /\ requests' = Tail(requests)
    /\ service([pc EXCEPT ![Head(requests)] = "queued"], usedCapacity, Head(requests))
    /\ UNCHANGED <<monitor, stop>>

\* Mutant: a completion does not look at the request set aside.
receiveCompletionOnly(c) ==
    /\ monitor = "running"
    /\ pc[c] = "finishing"
    /\ usedCapacity' = usedCapacity - size[c]
    /\ pc' = [pc EXCEPT ![c] = "idle"]
    /\ UNCHANGED <<size, requests, currentRequest, monitor, stop>>

\* case amountCompleted := <-r.completions
receiveCompletion(c) ==
    /\ monitor = "running"
    /\ pc[c] = "finishing"
    /\ size' = size
    /\ IF usedCapacity - size[c] < 0
       THEN /\ monitor' = "panicked"
            /\ usedCapacity' = usedCapacity - size[c]
            /\ pc' = [pc EXCEPT ![c] = "idle"]
            /\ UNCHANGED currentRequest
       ELSE /\ service([pc EXCEPT ![c] = "idle"], usedCapacity - size[c], currentRequest)
            /\ UNCHANGED monitor
    /\ UNCHANGED <<requests, stop>>

\* case <-r.stop
monitorReturns ==
    /\ monitor = "running"
    /\ stop
    /\ monitor' = "stopped"
    /\ UNCHANGED <<clientVars, requests, usedCapacity, currentRequest, stop>>

monitorChannels ==
    \/ receiveRequest
    \/ \E c \in Clients : receiveCompletion(c)
    \/ monitorReturns

Init ==
    /\ pc = [c \in Clients |-> "idle"]
    /\ size = [c \in Clients |-> 0]
    /\ requests = <<>>
    /\ usedCapacity = 0
    /\ currentRequest = NoClient
    /\ stop = FALSE
    /\ monitor = "running"

Next ==
    \/ \E c \in Clients : Request(c) \/ Finish(c)
    \/ Stop
    \/ monitorChannels

Spec == Init /\ [][Next]_vars

\* An execution that was let in ends.  select chooses at random among the
\* channels that are ready, and a channel serves its senders in order, so no
\* case that stays ready waits forever.
FairSpec ==
    /\ Spec
    /\ \A c \in Clients : WF_vars(Finish(c)) /\ WF_vars(receiveCompletion(c))
    /\ WF_vars(receiveRequest)

-----------------------------------------------------------------------------
(* Properties.                                                             *)

\* The executions that were let in and whose end was not received.
Holders == {c \in Clients : pc[c] \in {"running", "finishing"}}

\* A request stays set aside only as long as it does not fit: no end of an
\* execution that made room for it was overlooked.
QueuedIsBlocked ==
    currentRequest # NoClient /\ monitor # "panicked" =>
        /\ pc[currentRequest] = "queued"
        /\ ~accepted(usedCapacity, size[currentRequest])

\* At most as many executions of a size other than 0 run at once as the capacity
\* has units: with the sizes {1} of the CPU limiter, the number of goroutines
\* that compress.
CpuBound == Cardinality({c \in Holders : size[c] > 0}) <= Capacity

\* Every request is serviced, however large, unless the limiter is stopped.
RequestServiced ==
    \A c \in Clients :
        pc[c] \in {"requesting", "queued"} ~> pc[c] = "running" \/ stop

\* The goroutine and its channels implement the limiter of their comment.
Promise == INSTANCE Limiter WITH held <- [c \in Holders |-> size[c]]

ImplementsLimiter == Promise!Spec

=============================================================================
