-------------------------- MODULE CommunicatorProofs --------------------------
(***************************************************************************)
(* Proofs about Communicator: on the first connection of a client every    *)
(* caller takes the response to its own request, for any senders, requests *)
(* and events, whether the connection breaks or not.                       *)
(***************************************************************************)
EXTENDS Communicator, TLAPS

\* Sequences of packets: with no response, and with one response, to r.
None(s) == \A i \in 1..Len(s) : s[i] \notin Responses

One(s, r) ==
  \E i \in 1..Len(s) : s[i] = r /\ \A j \in 1..Len(s) : j # i => s[j] \notin Responses

\* A caller that holds the mutexes, and one of those that has sent its request.
Busy == {"write", "check", "to_wait", "wait", "stop", "join_events", "join_receiver",
         "join_keep_alive"}
Sent == {"check", "to_wait", "wait"}

HolderIsBusy ==
  \A t \in Callers :
    /\ send_mutex = t <=> pc[t] \in Busy
    /\ send_mutex = t => request[t] \in Responses

\* Nothing arrives before the first connection.
NothingYet ==
  connections = 0 =>
    /\ pc[Receiver] = "exit"
    /\ response_packets = <<>>

\* The receiver has a packet only on the way to its queue.
Pushing == packet # NoPacket => pc[Receiver] = "push"

\* On the way from the write of a request to the queue there is no response, or
\* the one to r and no other.
NothingUnderWay ==
  requests = <<>> /\ None(answers) /\ packet \notin Responses /\ response_packets = <<>>

UnderWay(r) ==
  \/ requests = <<r>> /\ None(answers) /\ packet \notin Responses /\ response_packets = <<>>
  \/ requests = <<>> /\ One(answers, r) /\ packet \notin Responses /\ response_packets = <<>>
  \/ requests = <<>> /\ None(answers) /\ packet = r /\ response_packets = <<>>
  \/ requests = <<>> /\ None(answers) /\ packet \notin Responses /\ response_packets = <<r>>

OneUnderWay ==
  connections = 1 /\ ~stop =>
    \/ NothingUnderWay
    \/ \E t \in Callers : pc[t] \in Sent /\ UnderWay(request[t])

Agree == HolderIsBusy /\ NothingYet /\ Pushing /\ OneUnderWay

IInv == TypeOK /\ Agree

-----------------------------------------------------------------------------
(* Sequences of packets. *)

LEMMA NoneAppend ==
  ASSUME NEW S, NEW s \in Seq(S), NEW x \in S, None(s)
  PROVE  /\ x \notin Responses => None(Append(s, x))
         /\ One(Append(s, x), x)
BY DEF None, One

LEMMA OneAppend ==
  ASSUME NEW S, NEW s \in Seq(S), NEW x \in S, NEW r, One(s, r), x \notin Responses
  PROVE  One(Append(s, x), r)
BY DEF One

LEMMA NoneTail ==
  ASSUME NEW S, NEW s \in Seq(S), s # <<>>, None(s)
  PROVE  Head(s) \notin Responses /\ None(Tail(s))
BY DEF None

LEMMA OneTail ==
  ASSUME NEW S, NEW s \in Seq(S), s # <<>>, NEW r \in Responses, One(s, r)
  PROVE  \/ Head(s) = r /\ None(Tail(s))
         \/ Head(s) \notin Responses /\ One(Tail(s), r)
<1>1. PICK i \in 1..Len(s) : s[i] = r /\ \A j \in 1..Len(s) : j # i => s[j] \notin Responses
  BY DEF One
<1>2. /\ Len(Tail(s)) = Len(s) - 1 /\ Head(s) = s[1]
      /\ \A j \in 1..Len(Tail(s)) : Tail(s)[j] = s[j + 1]
  OBVIOUS
<1>3. CASE i = 1
  BY <1>1, <1>2, <1>3 DEF None
<1>4. CASE i # 1
  <2>1. i - 1 \in 1..Len(Tail(s)) /\ Tail(s)[i - 1] = r
    BY <1>1, <1>2, <1>4
  <2>2. \A j \in 1..Len(Tail(s)) : j # i - 1 => Tail(s)[j] \notin Responses
    BY <1>1, <1>2, <1>4
  <2> QED
    BY <1>1, <1>2, <1>4, <2>1, <2>2 DEF One
<1> QED
  BY <1>3, <1>4

-----------------------------------------------------------------------------
LEMMA DistinctThreads ==
  /\ KeepAlive \in Callers /\ Callers \subseteq Threads
  /\ Receiver \in Threads \ Callers /\ EventsThread \in Threads \ Callers
  /\ Receiver # EventsThread
  /\ NoThread \notin Threads
  /\ NoPacket \notin Responses \cup Events
  /\ Responses \cap Events = {}
BY CommunicatorAssumption DEF Threads, Callers, Responses

LEMMA InitIInv == Init => IInv
<1> SUFFICES ASSUME Init PROVE IInv
  OBVIOUS
<1> USE DistinctThreads DEF Init
<1>1. TypeOK
  <2>1. pc \in [Threads -> {"idle", "exit"}]
    OBVIOUS
  <2>2. faults \subseteq Faults /\ connections \in 0..MaxConnections
    BY CommunicatorAssumption
  <2>3. request \in [Callers -> Responses \cup {NoPacket}]
    OBVIOUS
  <2>4. stop \in BOOLEAN /\ broken \in BOOLEAN
    OBVIOUS
  <2>5. /\ response_packets \in Seq(Responses) /\ event_packets \in Seq(Events)
        /\ requests \in Seq(Responses) /\ answers \in Seq(Responses \cup Events)
    OBVIOUS
  <2>6. /\ waiting \subseteq Threads /\ socket \in {"none", "open", "closed"}
        /\ packet \in Responses \cup Events \cup {NoPacket}
    OBVIOUS
  <2> QED
    BY <2>1, <2>2, <2>3, <2>4, <2>5, <2>6 DEF TypeOK
<1>2. HolderIsBusy
  BY DEF HolderIsBusy, Busy, Callers
<1>3. NothingYet /\ Pushing
  BY DEF NothingYet, Pushing, Callers
<1>4. OneUnderWay
  BY DEF OneUnderWay
<1> QED
  BY <1>1, <1>2, <1>3, <1>4 DEF IInv, Agree

-----------------------------------------------------------------------------
\* The invariant but for what is under way, which each step is shown to keep first.
HolderOK == TypeOK /\ HolderIsBusy /\ NothingYet /\ Pushing

LEMMA SendHolderOK ==
  ASSUME IInv, NEW t \in Senders, Send(t)
  PROVE  HolderOK'
<1> USE DistinctThreads DEF IInv, Agree, Send, Goto
<1>0. PICK r \in Responses : request' = [request EXCEPT ![t] = r]
  BY DEF FreshRequests, Responses
<1>1. TypeOK'
  BY <1>0 DEF TypeOK, Callers, mutex_vars, queue_vars, network_vars
<1>2. HolderIsBusy'
  BY <1>0 DEF TypeOK, HolderIsBusy, Busy, Callers
<1>3. NothingYet' /\ Pushing'
  BY DEF TypeOK, NothingYet, Pushing, Callers, mutex_vars, queue_vars, network_vars
<1> QED
  BY <1>1, <1>2, <1>3 DEF HolderOK

LEMMA KeepAliveHolderOK ==
  ASSUME IInv, KeepAliveWakes \/ KeepAliveLocks
  PROVE  HolderOK'
<1> USE DistinctThreads DEF IInv, Agree, KeepAliveWakes, KeepAliveLocks, Goto, mutex_vars, queue_vars, network_vars
<1>1. TypeOK'
  BY DEF TypeOK, Responses
<1>2. HolderIsBusy'
  BY DEF TypeOK, HolderIsBusy, Busy, Responses
<1>3. NothingYet' /\ Pushing'
  BY DEF TypeOK, NothingYet, Pushing
<1> QED
  BY <1>1, <1>2, <1>3 DEF HolderOK

LEMMA CallHolderOK ==
  ASSUME IInv, NEW t \in Callers, Call(t)
  PROVE  HolderOK'
<1> USE DistinctThreads DEF IInv, Agree, Goto, Release, mutex_vars, queue_vars, network_vars
<1>1. CASE Write(t)
  BY <1>1 DEF Write, HolderOK, TypeOK, HolderIsBusy, NothingYet, Pushing, Busy
<1>2. CASE WriteFails(t)
  <2> USE <1>2 DEF WriteFails
  <2>1. TypeOK'
    BY DEF TypeOK
  <2>2. HolderIsBusy'
    BY DEF TypeOK, HolderIsBusy, Busy
  <2>3. NothingYet' /\ Pushing'
    BY DEF TypeOK, NothingYet, Pushing
  <2> QED
    BY <2>1, <2>2, <2>3 DEF HolderOK
<1>3. CASE CheckEmpty(t)
  BY <1>3 DEF CheckEmpty, HolderOK, TypeOK, HolderIsBusy, NothingYet, Pushing, Busy
<1>4. CASE Wait(t)
  BY <1>4 DEF Wait, HolderOK, TypeOK, HolderIsBusy, NothingYet, Pushing, Busy
<1>5. CASE WakeUp(t)
  BY <1>5 DEF WakeUp, HolderOK, TypeOK, HolderIsBusy, NothingYet, Pushing, Busy
<1>6. CASE TakeResponse(t)
  <2> USE <1>6 DEF TakeResponse
  <2>0. Front(response_packets) \in Seq(Responses)
    BY DEF TypeOK, Front
  <2>1. TypeOK'
    BY <2>0 DEF TypeOK
  <2>2. HolderIsBusy'
    BY DEF TypeOK, HolderIsBusy, Busy
  <2>3. NothingYet' /\ Pushing'
    BY DEF TypeOK, NothingYet, Pushing
  <2> QED
    BY <2>1, <2>2, <2>3 DEF HolderOK
<1>7. CASE Stopped(t)
  BY <1>7 DEF Stopped, HolderOK, TypeOK, HolderIsBusy, NothingYet, Pushing, Busy
<1> QED
  BY <1>1, <1>2, <1>3, <1>4, <1>5, <1>6, <1>7 DEF Call

LEMMA CleanHolderOK ==
  ASSUME IInv, NEW t \in Senders \cup {Receiver}, CleanConnection(t)
  PROVE  HolderOK'
<1> USE DistinctThreads DEF IInv, Agree, Goto, Release, mutex_vars, queue_vars, network_vars
<1>0. t \in Threads /\ (t \in Callers <=> t # Receiver) /\ t # EventsThread
  BY CommunicatorAssumption DEF Callers, Threads
<1>1. CASE SignalStop(t)
  <2> USE <1>0, <1>1 DEF SignalStop, Awake
  <2>1. TypeOK'
    BY DEF TypeOK
  <2>2. HolderIsBusy'
    BY DEF TypeOK, HolderIsBusy, Busy
  <2>3. NothingYet' /\ Pushing'
    BY DEF TypeOK, NothingYet, Pushing
  <2> QED
    BY <2>1, <2>2, <2>3 DEF HolderOK
<1>2. CASE JoinEvents(t)
  <2> USE <1>0, <1>2 DEF JoinEvents
  <2>1. TypeOK'
    BY DEF TypeOK
  <2>2. HolderIsBusy'
    BY DEF TypeOK, HolderIsBusy, Busy
  <2>3. NothingYet' /\ Pushing'
    BY DEF TypeOK, NothingYet, Pushing
  <2> QED
    BY <2>1, <2>2, <2>3 DEF HolderOK
<1>3. CASE JoinReceiver(t)
  <2> USE <1>0, <1>3 DEF JoinReceiver
  <2>1. TypeOK'
    BY DEF TypeOK
  <2>2. HolderIsBusy'
    BY DEF TypeOK, HolderIsBusy, Busy
  <2>3. NothingYet' /\ Pushing'
    BY DEF TypeOK, NothingYet, Pushing
  <2> QED
    BY <2>1, <2>2, <2>3 DEF HolderOK
<1>4. CASE JoinKeepAlive(t)
  <2> USE <1>0, <1>4 DEF JoinKeepAlive
  <2>1. TypeOK'
    BY DEF TypeOK
  <2>2. HolderIsBusy'
    BY DEF TypeOK, HolderIsBusy, Busy
  <2>3. NothingYet' /\ Pushing'
    BY DEF TypeOK, NothingYet, Pushing
  <2> QED
    BY <2>1, <2>2, <2>3 DEF HolderOK
<1> QED
  BY <1>1, <1>2, <1>3, <1>4 DEF CleanConnection

LEMMA ReceiveHolderOK ==
  ASSUME IInv, Receive
  PROVE  HolderOK'
<1> USE DistinctThreads DEF IInv, Agree, Goto, Awake, mutex_vars, queue_vars, network_vars
<1>1. CASE ReceiverLoops
  BY <1>1 DEF ReceiverLoops, HolderOK, TypeOK, HolderIsBusy, NothingYet, Pushing
<1>2. CASE Read
  BY <1>2 DEF Read, HolderOK, TypeOK, HolderIsBusy, NothingYet, Pushing
<1>3. CASE ReadFails
  BY <1>3 DEF ReadFails, HolderOK, TypeOK, HolderIsBusy, NothingYet, Pushing
<1>4. CASE PushEvent
  BY <1>4 DEF PushEvent, HolderOK, TypeOK, HolderIsBusy, NothingYet, Pushing
<1>5. CASE PushResponse
  BY <1>5 DEF PushResponse, HolderOK, TypeOK, HolderIsBusy, NothingYet, Pushing
<1>6. CASE CleanConnection(Receiver)
  BY <1>6, CleanHolderOK
<1> QED
  BY <1>1, <1>2, <1>3, <1>4, <1>5, <1>6 DEF Receive

LEMMA HandleEventsHolderOK ==
  ASSUME IInv, HandleEvents
  PROVE  HolderOK'
<1> USE DistinctThreads DEF IInv, Agree, Goto, mutex_vars, queue_vars, network_vars
<1>1. CASE LockEvents
  <2> USE <1>1 DEF LockEvents
  <2>1. TypeOK'
    BY DEF TypeOK
  <2>2. HolderIsBusy'
    BY DEF TypeOK, HolderIsBusy
  <2>3. NothingYet' /\ Pushing'
    BY DEF TypeOK, NothingYet, Pushing
  <2> QED
    BY <2>1, <2>2, <2>3 DEF HolderOK
<1>2. CASE WaitForEvents
  BY <1>2 DEF WaitForEvents, HolderOK, TypeOK, HolderIsBusy, NothingYet, Pushing
<1>3. CASE EventsWakeUp
  BY <1>3 DEF EventsWakeUp, HolderOK, TypeOK, HolderIsBusy, NothingYet, Pushing
<1>4. CASE HandleEvent
  <2>1. Front(event_packets) \in Seq(Events)
    BY <1>4 DEF HandleEvent, TypeOK, Front
  <2> QED
    BY <1>4, <2>1 DEF HandleEvent, HolderOK, TypeOK, HolderIsBusy, NothingYet, Pushing
<1>5. CASE EventsHandled
  BY <1>5 DEF EventsHandled, HolderOK, TypeOK, HolderIsBusy, NothingYet, Pushing
<1> QED
  BY <1>1, <1>2, <1>3, <1>4, <1>5 DEF HandleEvents

LEMMA NetworkHolderOK ==
  ASSUME IInv, Connect \/ ServerResponds \/ ServerTriggersEvent \/ Break
  PROVE  HolderOK'
<1> USE DistinctThreads DEF IInv, Agree, mutex_vars, queue_vars, network_vars
<1>1. CASE Connect
  <2> USE <1>1 DEF Connect
  <2>1. connections' \in 0..MaxConnections /\ connections' # 0
    BY CommunicatorAssumption DEF TypeOK
  <2>2. TypeOK'
    <3>1. /\ pc' \in [Threads -> {"idle", "exit", "sleep", "lock", "write", "check", "to_wait",
                                  "wait", "read", "push", "handle", "stop", "join_events",
                                  "join_receiver", "join_keep_alive"}]
          /\ stop' \in BOOLEAN /\ broken' \in BOOLEAN
      BY DEF TypeOK
    <3>2. requests' \in Seq(Responses) /\ answers' \in Seq(Responses \cup Events)
      OBVIOUS
    <3>3. /\ UNCHANGED <<get_mutex, send_mutex, events_mutex, waiting, response_packets>>
          /\ UNCHANGED <<event_packets, request, packet, faults>>
      OBVIOUS
    <3> QED
      BY <2>1, <3>1, <3>2, <3>3 DEF TypeOK
  <2>3. HolderIsBusy'
    BY DEF TypeOK, HolderIsBusy, Busy
  <2> QED
    BY <2>1, <2>2, <2>3 DEF HolderOK, NothingYet, Pushing
<1>2. CASE ServerResponds
  BY <1>2 DEF ServerResponds, HolderOK, TypeOK, HolderIsBusy, NothingYet, Pushing
<1>3. CASE ServerTriggersEvent
  <2>1. PICK e \in Events : answers' = Append(answers, e)
    BY <1>3 DEF ServerTriggersEvent, FreshEvents
  <2> QED
    BY <1>3, <2>1 DEF ServerTriggersEvent, HolderOK, TypeOK, HolderIsBusy, NothingYet, Pushing
<1>4. CASE Break
  BY <1>4 DEF Break, HolderOK, TypeOK, HolderIsBusy, NothingYet, Pushing
<1> QED
  BY <1>1, <1>2, <1>3, <1>4

-----------------------------------------------------------------------------
(* The one response under way. *)

\* One caller at most has sent its request and not taken a response.
LEMMA OneSent ==
  ASSUME IInv, NEW t \in Callers, pc[t] \in Busy, NEW u \in Callers, pc[u] \in Sent
  PROVE  u = t
BY DEF IInv, Agree, HolderIsBusy, Busy, Sent

\* Most steps change neither what is under way nor who waits for it.
LEMMA QuietStep ==
  ASSUME IInv,
         UNCHANGED <<requests, answers, packet, response_packets, connections>>,
         stop => stop',
         \A t \in Callers : pc[t] \in Sent => pc'[t] \in Sent /\ request'[t] = request[t]
  PROVE  OneUnderWay'
BY DEF IInv, Agree, OneUnderWay, NothingUnderWay, UnderWay, None, One

LEMMA WriteUnderWay ==
  ASSUME IInv, NEW t \in Callers, Write(t)
  PROVE  OneUnderWay'
<1> SUFFICES ASSUME connections' = 1, ~stop' PROVE OneUnderWay'
  BY DEF OneUnderWay
<1> USE DistinctThreads DEF Write, Goto, mutex_vars, queue_vars, network_vars
<1>1. NothingUnderWay
  <2>1. pc[t] \in Busy /\ pc[t] \notin Sent
    BY DEF Busy, Sent
  <2> QED
    BY <2>1, OneSent DEF IInv, Agree, OneUnderWay
<1>2. CASE broken
  BY <1>1, <1>2 DEF OneUnderWay, NothingUnderWay, None
<1>3. CASE ~broken
  <2>1. requests' = <<request'[t]>>
    BY <1>1, <1>3 DEF NothingUnderWay, IInv, TypeOK
  <2>2. UnderWay(request[t])'
    BY <1>1, <2>1 DEF NothingUnderWay, UnderWay, None
  <2>3. pc'[t] \in Sent
    BY DEF IInv, TypeOK, Sent
  <2> QED
    BY <2>2, <2>3 DEF OneUnderWay
<1> QED
  BY <1>2, <1>3

\* The response in the queue is the one to the request of the caller that takes it.
LEMMA TakenIsOwn ==
  ASSUME IInv, connections = 1, NEW t \in Callers, TakeResponse(t)
  PROVE  /\ requests = <<>> /\ None(answers) /\ packet \notin Responses
         /\ response_packets = <<request[t]>>
<1>1. pc[t] \in Busy /\ pc[t] \in Sent /\ ~stop /\ response_packets # <<>>
  BY DEF TakeResponse, Busy, Sent
<1>2. PICK u \in Callers : pc[u] \in Sent /\ UnderWay(request[u])
  BY <1>1 DEF IInv, Agree, OneUnderWay, NothingUnderWay
<1>3. u = t
  BY <1>1, <1>2, OneSent
<1> QED
  BY <1>1, <1>2, <1>3 DEF UnderWay

LEMMA TakeResponseUnderWay ==
  ASSUME IInv, NEW t \in Callers, TakeResponse(t)
  PROVE  OneUnderWay'
<1> SUFFICES ASSUME connections' = 1 PROVE OneUnderWay'
  BY DEF OneUnderWay
<1> USE DEF TakeResponse, Release, network_vars
<1>1. /\ requests = <<>> /\ None(answers) /\ packet \notin Responses
      /\ response_packets = <<request[t]>>
  BY TakenIsOwn
<1>2. response_packets' = <<>>
  BY <1>1 DEF Front
<1> QED
  BY <1>1, <1>2 DEF OneUnderWay, NothingUnderWay, None

LEMMA ReadUnderWay ==
  ASSUME IInv, Read
  PROVE  OneUnderWay'
<1> SUFFICES ASSUME connections' = 1, ~stop' PROVE OneUnderWay'
  BY DEF OneUnderWay
<1> USE DistinctThreads DEF IInv, Read, Goto, mutex_vars, queue_vars
<1>1. answers \in Seq(Responses \cup Events) /\ answers # <<>>
  BY DEF TypeOK
<1>2. None(answers) => packet' \notin Responses /\ None(answers)'
  BY <1>1, NoneTail DEF None
<1>3. CASE NothingUnderWay
  BY <1>2, <1>3 DEF NothingUnderWay, OneUnderWay
<1>4. CASE \E t \in Callers : pc[t] \in Sent /\ UnderWay(request[t])
  <2>1. PICK t \in Callers : pc[t] \in Sent /\ UnderWay(request[t])
    BY <1>4
  <2>2. request[t] \in Responses /\ pc'[t] \in Sent /\ request' = request
    BY <2>1 DEF Agree, HolderIsBusy, Busy, Sent, TypeOK
  <2>3. One(answers, request[t]) =>
          \/ packet' = request[t] /\ None(answers)'
          \/ packet' \notin Responses /\ One(answers, request[t])'
    BY <1>1, <2>2, OneTail DEF None, One
  <2>4. packet \notin Responses
    BY DEF Agree, Pushing
  <2>5. UnderWay(request[t])'
    BY <1>2, <2>1, <2>2, <2>3, <2>4 DEF UnderWay
  <2> QED
    BY <2>2, <2>5 DEF OneUnderWay
<1> QED
  BY <1>3, <1>4 DEF Agree, OneUnderWay

LEMMA PushUnderWay ==
  ASSUME IInv, PushEvent \/ PushResponse
  PROVE  OneUnderWay'
<1> SUFFICES ASSUME connections' = 1, ~stop' PROVE OneUnderWay'
  BY DEF OneUnderWay
<1> USE DistinctThreads DEF PushEvent, PushResponse, Goto, Awake, network_vars
<1>1. connections = 1 /\ ~stop /\ request' = request /\ answers' = answers /\ requests' = requests
  OBVIOUS
<1>2. packet' = NoPacket /\ NoPacket \notin Responses
  OBVIOUS
<1>3. \A t \in Callers : pc'[t] = pc[t]
  BY DEF IInv, TypeOK
<1>4. CASE PushEvent
  <2>1. packet \notin Responses /\ response_packets' = response_packets
    BY <1>4
  <2>2. \A t \in Callers : UnderWay(request[t]) => UnderWay(request[t])' \/ request[t] = packet
    BY <1>1, <1>2, <2>1 DEF UnderWay, None, One
  <2>3. \A t \in Callers : pc[t] \in Sent => request[t] \in Responses
    BY DEF IInv, Agree, HolderIsBusy, Busy, Sent
  <2>4. NothingUnderWay => NothingUnderWay'
    BY <1>1, <1>2, <2>1 DEF NothingUnderWay, None
  <2> QED
    BY <1>1, <1>3, <2>1, <2>2, <2>3, <2>4 DEF IInv, Agree, OneUnderWay
<1>5. CASE PushResponse
  <2>1. PICK t \in Callers : pc[t] \in Sent /\ UnderWay(request[t])
    BY <1>1, <1>5 DEF IInv, Agree, OneUnderWay, NothingUnderWay
  <2>2. /\ packet = request[t] /\ response_packets = <<>>
        /\ requests = <<>> /\ None(answers)
    <3>1. packet \in Responses
      BY <1>5
    <3> QED
      BY <2>1, <3>1 DEF UnderWay
  <2>3. response_packets' = <<request[t]>>
    BY <1>5, <2>2
  <2>4. UnderWay(request[t])'
    BY <1>1, <1>2, <2>2, <2>3 DEF UnderWay, None
  <2> QED
    BY <1>3, <2>1, <2>4 DEF OneUnderWay
<1> QED
  BY <1>4, <1>5

LEMMA ServerRespondsUnderWay ==
  ASSUME IInv, ServerResponds
  PROVE  OneUnderWay'
<1> SUFFICES ASSUME connections' = 1, ~stop' PROVE OneUnderWay'
  BY DEF OneUnderWay
<1> USE DEF ServerResponds, mutex_vars, queue_vars
<1>1. PICK t \in Callers : pc[t] \in Sent /\ UnderWay(request[t])
  BY DEF IInv, Agree, OneUnderWay, NothingUnderWay
<1>2. /\ requests = <<request[t]>> /\ None(answers)
      /\ packet \notin Responses /\ response_packets = <<>>
  BY <1>1 DEF UnderWay
<1>3. request[t] \in Responses
  BY <1>1 DEF IInv, Agree, HolderIsBusy, Busy, Sent
<1>4. requests' = <<>> /\ answers' = Append(answers, request[t])
  BY <1>2
<1>5. One(answers', request[t])
  BY <1>2, <1>3, <1>4, NoneAppend DEF IInv, TypeOK
<1>6. UnderWay(request[t])'
  BY <1>2, <1>4, <1>5 DEF UnderWay, One
<1> QED
  BY <1>1, <1>6 DEF OneUnderWay

LEMMA ServerTriggersEventUnderWay ==
  ASSUME IInv, ServerTriggersEvent
  PROVE  OneUnderWay'
<1> SUFFICES ASSUME connections' = 1, ~stop' PROVE OneUnderWay'
  BY DEF OneUnderWay
<1> USE DEF ServerTriggersEvent, mutex_vars, queue_vars
<1>1. PICK e \in Events : answers' = Append(answers, e)
  BY DEF FreshEvents
<1>2. answers \in Seq(Responses \cup Events) /\ e \notin Responses
  BY DistinctThreads DEF IInv, TypeOK
<1>3. None(answers) => None(answers')
  BY <1>1, <1>2, NoneAppend
<1>4. \A r : One(answers, r) => One(answers', r)
  BY <1>1, <1>2, OneAppend
<1>5. NothingUnderWay => NothingUnderWay'
  BY <1>3 DEF NothingUnderWay, None
<1>6. \A t \in Callers : UnderWay(request[t]) => UnderWay(request[t])'
  BY <1>3, <1>4 DEF UnderWay, None, One
<1> QED
  BY <1>5, <1>6 DEF IInv, Agree, OneUnderWay

LEMMA ConnectUnderWay ==
  ASSUME IInv, Connect
  PROVE  OneUnderWay'
<1> SUFFICES ASSUME connections' = 1 PROVE OneUnderWay'
  BY DEF OneUnderWay
<1> USE DistinctThreads DEF Connect, mutex_vars, queue_vars
<1>1. connections = 0
  BY CommunicatorAssumption DEF IInv, TypeOK
<1>2. packet = NoPacket /\ response_packets = <<>>
  BY <1>1 DEF IInv, Agree, NothingYet, Pushing
<1> QED
  BY <1>2 DEF OneUnderWay, NothingUnderWay, None

-----------------------------------------------------------------------------
LEMMA CallUnderWay ==
  ASSUME IInv, NEW t \in Callers, Call(t)
  PROVE  OneUnderWay'
<1> USE DistinctThreads DEF Goto, mutex_vars, queue_vars, network_vars
<1>1. CASE WriteFails(t)
  <2>1. pc[t] \notin Sent
    BY <1>1 DEF WriteFails, Sent
  <2>2. \A u \in Callers : u # t => pc'[u] = pc[u] /\ request'[u] = request[u]
    BY <1>1 DEF WriteFails, Release, IInv, TypeOK
  <2> QED
    BY <1>1, <2>1, <2>2, QuietStep DEF WriteFails
<1>2. CASE CheckEmpty(t) \/ Wait(t) \/ WakeUp(t)
  <2>1. \A u \in Callers : pc[u] \in Sent => pc'[u] \in Sent
    BY <1>2 DEF CheckEmpty, Wait, WakeUp, Sent, IInv, TypeOK
  <2> QED
    BY <1>2, <2>1, QuietStep DEF CheckEmpty, Wait, WakeUp
<1>3. CASE Stopped(t)
  BY <1>3 DEF Stopped, OneUnderWay
<1> QED
  BY <1>1, <1>2, <1>3, WriteUnderWay, TakeResponseUnderWay DEF Call

LEMMA CleanUnderWay ==
  ASSUME IInv, NEW t \in Senders \cup {Receiver}, CleanConnection(t)
  PROVE  OneUnderWay'
<1> USE DEF CleanConnection, SignalStop, JoinEvents, JoinReceiver, JoinKeepAlive, Goto, Release,
            mutex_vars, queue_vars, network_vars
<1>1. pc[t] \notin Sent
  BY DEF Sent
<1>2. \A u \in Callers : u # t => pc'[u] = pc[u] /\ request'[u] = request[u]
  <2>1. \A u \in Callers : u # t => pc'[u] = pc[u]
    BY DistinctThreads DEF IInv, TypeOK
  <2>2. \A u \in Callers : u # t => request'[u] = request[u]
    BY DEF IInv, TypeOK
  <2> QED
    BY <2>1, <2>2
<1>3. stop => stop'
  OBVIOUS
<1>4. UNCHANGED <<requests, answers, packet, response_packets, connections>>
  OBVIOUS
<1> QED
  BY <1>1, <1>2, <1>3, <1>4, QuietStep

LEMMA StepUnderWay ==
  ASSUME IInv, [Next]_vars
  PROVE  OneUnderWay'
<1> USE DistinctThreads DEF Goto, mutex_vars, queue_vars, network_vars
<1>1. ASSUME NEW t \in Senders, Send(t) PROVE OneUnderWay'
  <2>1. pc[t] \notin Sent /\ t \in Callers
    BY <1>1 DEF Send, Sent, Callers
  <2>2. \A u \in Callers : u # t => pc'[u] = pc[u] /\ request'[u] = request[u]
    BY <1>1 DEF Send, IInv, TypeOK
  <2> QED
    BY <1>1, <2>1, <2>2, QuietStep DEF Send
<1>2. CASE KeepAliveWakes \/ KeepAliveLocks
  <2>1. pc[KeepAlive] \notin Sent
    BY <1>2 DEF KeepAliveWakes, KeepAliveLocks, Sent
  <2>2. \A u \in Callers : u # KeepAlive => pc'[u] = pc[u] /\ request'[u] = request[u]
    BY <1>2 DEF KeepAliveWakes, KeepAliveLocks, IInv, TypeOK
  <2> QED
    BY <1>2, <2>1, <2>2, QuietStep DEF KeepAliveWakes, KeepAliveLocks
<1>3. CASE Receive
  <2>1. CASE ReceiverLoops \/ ReadFails
    <3>1. \A u \in Callers : pc'[u] = pc[u]
      BY <2>1 DEF ReceiverLoops, ReadFails, IInv, TypeOK
    <3> QED
      BY <2>1, <3>1, QuietStep DEF ReceiverLoops, ReadFails
  <2> QED
    BY <1>3, <2>1, ReadUnderWay, PushUnderWay, CleanUnderWay DEF Receive
<1>4. CASE HandleEvents
  <2> USE <1>4 DEF HandleEvents, LockEvents, WaitForEvents, EventsWakeUp, HandleEvent, EventsHandled
  <2>1. \A u \in Callers : pc'[u] = pc[u]
    BY DEF IInv, TypeOK
  <2> QED
    BY <2>1, QuietStep
<1>5. CASE Break
  BY <1>5, QuietStep DEF Break
<1>6. CASE UNCHANGED vars
  BY <1>6, QuietStep DEF vars
<1> QED
  BY <1>1, <1>2, <1>3, <1>4, <1>5, <1>6, CallUnderWay, CleanUnderWay, ConnectUnderWay,
     ServerRespondsUnderWay, ServerTriggersEventUnderWay DEF Next

LEMMA StepHolderOK ==
  ASSUME IInv, [Next]_vars
  PROVE  HolderOK'
<1>1. CASE UNCHANGED vars
  BY <1>1 DEF vars, mutex_vars, queue_vars, network_vars, IInv, Agree, HolderOK, TypeOK,
              HolderIsBusy, NothingYet, Pushing
<1> QED
  BY <1>1, SendHolderOK, KeepAliveHolderOK, CallHolderOK, CleanHolderOK, ReceiveHolderOK,
     HandleEventsHolderOK, NetworkHolderOK DEF Next

\* The invariant of the communicator: at most one caller has a request under way,
\* and while the first connection lasts nothing but its response does.
THEOREM InductiveInvariant == Spec => []IInv
<1>1. IInv /\ [Next]_vars => IInv'
  BY StepHolderOK, StepUnderWay DEF IInv, Agree, HolderOK
<1> QED
  BY InitIInv, <1>1, PTL DEF Spec

\* Every variable keeps its type.
THEOREM TypeCorrect == Spec => []TypeOK
<1>1. IInv => TypeOK
  BY DEF IInv
<1> QED
  BY InductiveInvariant, <1>1, PTL

-----------------------------------------------------------------------------
\* A caller that has the lock and is at its test changes the queue only by taking
\* what is in it: nothing is pushed while it holds _socket_get_mutex.
LEMMA OwnStep ==
  ASSUME IInv, [Next]_vars, NEW t \in Callers,
         pc[t] = "check", response_packets' # response_packets, get_mutex = t, connections = 1
  PROVE  Last(response_packets) = request[t]
<1> USE DistinctThreads DEF mutex_vars, queue_vars, network_vars
<1>1. \E u \in Callers : TakeResponse(u)
  BY DEF Next, vars, Send, KeepAliveWakes, KeepAliveLocks, Call, Write, WriteFails, CheckEmpty, Wait,
         WakeUp, Stopped, Receive, ReceiverLoops, Read, ReadFails, PushEvent, PushResponse,
         CleanConnection, SignalStop, JoinEvents, JoinReceiver, JoinKeepAlive, HandleEvents,
         LockEvents, WaitForEvents, EventsWakeUp, HandleEvent, EventsHandled, Connect,
         ServerResponds, ServerTriggersEvent, Break
<1>2. TakeResponse(t)
  BY <1>1 DEF TakeResponse
<1>3. response_packets = <<request[t]>>
  BY <1>2, TakenIsOwn
<1> QED
  BY <1>3 DEF Last

\* On the first connection every caller takes the response to its own request,
\* though nothing but the two mutexes pairs them.
THEOREM ResponsesAreOwn == Spec => ResponseIsOwn
<1>1. IInv /\ [Next]_vars =>
        [\A t \in Callers :
           /\ pc[t] = "check" /\ response_packets' # response_packets
           /\ get_mutex = t
           /\ connections = 1
           => Last(response_packets) = request[t]]_vars
  BY OwnStep
<1> QED
  BY InductiveInvariant, <1>1, PTL DEF Spec, ResponseIsOwn
=============================================================================
