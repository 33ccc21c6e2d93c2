----------------------------- MODULE CrashAgent -----------------------------
(***************************************************************************)
(* agents/android-crash-observer.js inside the target: hooks on connect,   *)
(* send and sendto fill a ring with the metadata of the calls as they      *)
(* return, and an exception sends the ring out.  A call is a step when it  *)
(* enters and one when it leaves; a hook that runs because the agent's own *)
(* send is under way skips its call.                                       *)
(***************************************************************************)
EXTENDS Integers, Sequences, FiniteSets

CONSTANTS Threads, Fds, Endpoints,
          NoEndpoint,    \* TOKEN_VAZIO
          RingCapacity,  \* NET_RING_CAPACITY
          MaxOperations, \* bound: calls recorded
          MaxCrashes     \* bound: exceptions

ASSUME AgentAssumption == /\ RingCapacity \in Nat \ {0} /\ MaxOperations \in Nat
                          /\ MaxCrashes \in Nat /\ NoEndpoint \notin Endpoints

VARIABLES netRing, netWriteIndex, netCount, netSequence,
          crashTriggered,
          endpointByFd,   \* what the agent believes
          socketOf,       \* what the descriptors are connected to
          call,           \* thread -> the hooked call it is in
          crashEvents,    \* the tails sent, each with the sequence it was sent at
          returned        \* history: the calls recorded, in order

agentVars == <<netRing, netWriteIndex, netCount, netSequence, crashTriggered, endpointByFd,
               socketOf, call, crashEvents, returned>>

ring == <<netRing, netWriteIndex, netCount, netSequence, returned>>
NoCall == [op |-> "none"]
NoOperation == [seq |-> 0]

AgentInit ==
  /\ netRing = [i \in 0 .. RingCapacity - 1 |-> NoOperation]
  /\ netWriteIndex = 0 /\ netCount = 0 /\ netSequence = 0 /\ crashTriggered = FALSE
  /\ endpointByFd = [fd \in Fds |-> NoEndpoint] /\ socketOf = endpointByFd
  /\ call = [t \in Threads |-> NoCall]
  /\ crashEvents = {} /\ returned = <<>>

(* pushNetworkOperation; after a crash the operation is sent out as well.  *)
PushNetworkOperation(op, fd, endpoint) ==
  LET operation == [op |-> op, fd |-> fd, endpoint |-> endpoint, seq |-> netSequence + 1,
                    crash |-> crashTriggered]
  IN /\ netSequence < MaxOperations /\ netSequence' = netSequence + 1
     /\ netRing' = [netRing EXCEPT ![netWriteIndex] = operation]
     /\ netWriteIndex' = (netWriteIndex + 1) % RingCapacity
     /\ netCount' = IF netCount < RingCapacity THEN netCount + 1 ELSE netCount
     /\ returned' = Append(returned, operation)

EnterConnect(t, fd, endpoint) ==
  /\ call[t] = NoCall
  /\ call' = [call EXCEPT ![t] = [op |-> "connect", fd |-> fd, endpoint |-> endpoint]]
  /\ UNCHANGED <<crashTriggered, endpointByFd, socketOf, crashEvents>> /\ UNCHANGED ring

(* send takes the endpoint remembered for the descriptor as it enters;     *)
(* sendto names its own.                                                   *)
EnterSend(t, fd) ==
  /\ call[t] = NoCall
  /\ call' = [call EXCEPT ![t] = [op |-> "send", fd |-> fd, endpoint |-> endpointByFd[fd]]]
  /\ UNCHANGED <<crashTriggered, endpointByFd, socketOf, crashEvents>> /\ UNCHANGED ring

EnterSendto(t, fd, endpoint) ==
  /\ call[t] = NoCall
  /\ call' = [call EXCEPT ![t] = [op |-> "sendto", fd |-> fd, endpoint |-> endpoint]]
  /\ UNCHANGED <<crashTriggered, endpointByFd, socketOf, crashEvents>> /\ UNCHANGED ring

(* A connection that succeeds at once is remembered, one in progress is    *)
(* not.                                                                    *)
LeaveConnect(t, result) ==
  /\ call[t].op = "connect"
  /\ PushNetworkOperation("connect", call[t].fd, call[t].endpoint)
  /\ endpointByFd' = IF result = 0 THEN [endpointByFd EXCEPT ![call[t].fd] = call[t].endpoint]
                                   ELSE endpointByFd
  /\ socketOf' \in IF result = 0 THEN {[socketOf EXCEPT ![call[t].fd] = call[t].endpoint]}
                   ELSE {socketOf, [socketOf EXCEPT ![call[t].fd] = call[t].endpoint]}
  /\ call' = [call EXCEPT ![t] = NoCall]
  /\ UNCHANGED <<crashTriggered, crashEvents>>

LeaveSend(t) ==
  /\ call[t].op \in {"send", "sendto"}
  /\ PushNetworkOperation(call[t].op, call[t].fd, call[t].endpoint)
  /\ call' = [call EXCEPT ![t] = NoCall]
  /\ UNCHANGED <<crashTriggered, endpointByFd, socketOf, crashEvents>>

(* close is not hooked.                                                    *)
Close(fd) ==
  /\ socketOf[fd] # NoEndpoint /\ socketOf' = [socketOf EXCEPT ![fd] = NoEndpoint]
  /\ UNCHANGED <<crashTriggered, endpointByFd, call, crashEvents>> /\ UNCHANGED ring

(* Faulty form: what is read first is what would be written next.          *)
TailFromWriteIndex == netWriteIndex
TailStart == (netWriteIndex + RingCapacity - netCount) % RingCapacity
OutboundTail == [i \in 1 .. netCount |-> netRing[(TailStart + i - 1) % RingCapacity]]

(* The native handler and the Java hook: each may come more than once, and *)
(* the exception goes on to whoever would have had it.                     *)
Exception(kind) ==
  /\ Cardinality(crashEvents) < MaxCrashes
  /\ crashTriggered' = TRUE
  /\ crashEvents' = crashEvents \cup {[kind |-> kind, at |-> netSequence, tail |-> OutboundTail]}
  /\ UNCHANGED <<endpointByFd, socketOf, call>> /\ UNCHANGED ring

AgentNext ==
  \/ \E t \in Threads :
       \/ \E fd \in Fds : EnterSend(t, fd)
       \/ \E fd \in Fds, e \in Endpoints : EnterConnect(t, fd, e) \/ EnterSendto(t, fd, e)
       \/ \E result \in {0, -1} : LeaveConnect(t, result)
       \/ LeaveSend(t)
  \/ \E fd \in Fds : Close(fd)
  \/ \E kind \in {"NATIVE_EXCEPTION", "JAVA_UNCAUGHT"} : Exception(kind)

AgentSpec == AgentInit /\ [][AgentNext]_agentVars

-----------------------------------------------------------------------------
LastOf(seq, n) == SubSeq(seq, Len(seq) - n + 1, Len(seq))
Fewer(m, n) == IF m < n THEN m ELSE n

(* What a crash sends is exactly the last calls that had returned, in      *)
(* their order, up to the ring's capacity, however the threads and the     *)
(* wrap-around fell; and what is recorded after the first crash says so.   *)
TailIsWhatReturned ==
  /\ \A e \in crashEvents :
       e.tail = LastOf(SubSeq(returned, 1, e.at), Fewer(e.at, RingCapacity))
  /\ \A i \in DOMAIN returned :
       returned[i].crash <=> \E e \in crashEvents : e.at < returned[i].seq
=============================================================================
