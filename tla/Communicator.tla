----------------------------- MODULE Communicator -----------------------------
(***************************************************************************)
(* The client's communicator: one connection to the server that the        *)
(* application's threads send requests on, a receiver thread that sorts    *)
(* what arrives into responses and events, an events thread that handles   *)
(* the events, and a keep-alive thread that pings.                         *)
(*                                                                         *)
(* A caller (an application thread or the keep-alive) holds both socket    *)
(* mutexes from its write until it has its response, except that it gives  *)
(* _socket_get_mutex away while it waits on _response_cv.  A thread gets   *)
(* past a std::lock in one step, which takes both mutexes or none.  Steps  *)
(* end where another thread may come in: at a lock, a wait, a read, a      *)
(* write or a join, and between the test of a wait and the wait itself.    *)
(***************************************************************************)
EXTENDS SequencesExt

CONSTANTS
  Senders,         \* the application's threads (workers of the wrapper)
  KeepAlive, Receiver, EventsThread,
  Requests,        \* requests; one is used again when nothing refers to it
  Ping,            \* a ping and the pong that answers it
  Events,          \* events, used again likewise
  NoThread, NoPacket,
  MaxConnections,  \* bound on the connections made one after the other
  Faults           \* {"break"} where connections may break, or {}

Callers == Senders \cup {KeepAlive}
Threads == Callers \cup {Receiver, EventsThread}

ASSUME CommunicatorAssumption ==
  /\ KeepAlive \notin {Receiver, EventsThread, NoThread}
  /\ Receiver \notin {EventsThread, NoThread}
  /\ EventsThread # NoThread
  /\ {KeepAlive, Receiver, EventsThread, NoThread} \cap Senders = {}
  /\ Requests \cap Events = {}
  /\ Ping \notin Requests \cup Events
  /\ NoPacket \notin Requests \cup Events \cup {Ping}
  /\ MaxConnections \in Nat \ {0}
  /\ Faults \subseteq {"break"}

VARIABLES
  socket,           \* _socket: "none" (nullptr), "open" or "closed"
  stop,             \* _stop_threads
  get_mutex, send_mutex, events_mutex,  \* the thread that holds each
  waiting,          \* the threads in a condition variable's wait, not notified
  response_packets, event_packets,      \* _response_packets, _event_packets
  pc,               \* where each thread is
  request,          \* the request that each caller waits for
  packet,           \* what the receiver has read and not pushed
  requests, answers,\* packets under way to the server and to the client
  broken,           \* the connection has failed underneath
  connections,      \* connections made so far
  faults            \* what this network does, always

mutex_vars == <<get_mutex, send_mutex, events_mutex, waiting>>
queue_vars == <<response_packets, event_packets>>
network_vars == <<requests, answers, broken, connections, faults>>
vars == <<socket, stop, mutex_vars, queue_vars, pc, request, packet, network_vars>>

Responses == Requests \cup {Ping}

TypeOK ==
  /\ socket \in {"none", "open", "closed"}
  /\ stop \in BOOLEAN
  /\ get_mutex \in Callers \cup {NoThread}
  /\ send_mutex \in Callers \cup {NoThread}
  /\ events_mutex \in {EventsThread, NoThread}
  /\ waiting \subseteq Threads
  /\ response_packets \in Seq(Responses)
  /\ event_packets \in Seq(Events)
  /\ pc \in [Threads -> {"idle", "exit", "sleep", "lock", "write", "check", "to_wait", "wait",
                         "read", "push", "handle", "stop", "join_events", "join_receiver",
                         "join_keep_alive"}]
  /\ request \in [Callers -> Responses \cup {NoPacket}]
  /\ packet \in Responses \cup Events \cup {NoPacket}
  /\ requests \in Seq(Responses)
  /\ answers \in Seq(Responses \cup Events)
  /\ broken \in BOOLEAN
  /\ connections \in 0..MaxConnections
  /\ faults \subseteq Faults

-----------------------------------------------------------------------------
Goto(t, label) == pc' = [pc EXCEPT ![t] = label]

\* notify_one wakes the one thread that waits on a condition variable: only one
\* caller at a time holds _socket_send_mutex.
Awake(notified) == waiting' = waiting \ notified

FreshRequests ==
  {r \in Requests :
     /\ \A t \in Callers : request[t] # r
     /\ r # packet
     /\ r \notin ToSet(requests) \cup ToSet(answers) \cup ToSet(response_packets)}

FreshEvents ==
  Events \ (ToSet(answers) \cup ToSet(event_packets) \cup {packet})

-----------------------------------------------------------------------------
(* send and keep_alive. *)

\* send of a request while there is a socket (with none it throws at once).
Send(t) ==
  /\ t \in Senders
  /\ pc[t] = "idle"
  /\ get_mutex = NoThread /\ send_mutex = NoThread
  /\ socket # "none"
  /\ \E r \in FreshRequests : request' = [request EXCEPT ![t] = r]
  /\ get_mutex' = t /\ send_mutex' = t
  /\ Goto(t, "write")
  /\ UNCHANGED <<socket, stop, events_mutex, waiting, queue_vars, packet, network_vars>>

\* After 1.5 seconds: keep_alive ends, or goes for the locks.
KeepAliveWakes ==
  /\ pc[KeepAlive] = "sleep"
  /\ Goto(KeepAlive, IF stop \/ socket # "open" THEN "exit" ELSE "lock")
  /\ UNCHANGED <<socket, stop, mutex_vars, queue_vars, request, packet, network_vars>>

KeepAliveLocks ==
  /\ pc[KeepAlive] = "lock"
  /\ get_mutex = NoThread /\ send_mutex = NoThread
  /\ get_mutex' = KeepAlive /\ send_mutex' = KeepAlive
  /\ request' = [request EXCEPT ![KeepAlive] = Ping]
  /\ Goto(KeepAlive, "write")
  /\ UNCHANGED <<socket, stop, events_mutex, waiting, queue_vars, packet, network_vars>>

\* The caller is done: both mutexes are unlocked.
Release(t) ==
  /\ get_mutex' = NoThread /\ send_mutex' = NoThread
  /\ request' = [request EXCEPT ![t] = NoPacket]

\* On a connection that has failed a write may still seem to succeed.
Write(t) ==
  /\ pc[t] = "write"
  /\ socket = "open"
  /\ requests' = IF broken THEN requests ELSE Append(requests, request[t])
  /\ Goto(t, "check")
  /\ UNCHANGED <<socket, stop, mutex_vars, queue_vars, request, packet, answers, broken,
                 connections, faults>>

\* The write fails: a sender cleans the connection, the keep-alive goes round.
\* A socket that was deleted since it was tested counts as a failed write.
WriteFails(t) ==
  /\ pc[t] = "write"
  /\ broken \/ socket # "open"
  /\ IF t = KeepAlive
     THEN Release(t) /\ Goto(t, "sleep")
     ELSE Goto(t, "stop") /\ UNCHANGED <<get_mutex, send_mutex, request>>
  /\ UNCHANGED <<socket, stop, events_mutex, waiting, queue_vars, packet, network_vars>>

\* Neither a response nor _stop_threads: the caller is about to wait.
CheckEmpty(t) ==
  /\ pc[t] = "check"
  /\ get_mutex = t
  /\ response_packets = <<>> /\ ~stop
  /\ Goto(t, "to_wait")
  /\ UNCHANGED <<socket, stop, mutex_vars, queue_vars, request, packet, network_vars>>

\* Mutant: both mutexes are given away during the wait.
WaitGivesBoth(t) ==
  /\ t \in Callers
  /\ pc[t] = "to_wait"
  /\ waiting' = waiting \cup {t}
  /\ get_mutex' = NoThread
  /\ send_mutex' = NoThread
  /\ Goto(t, "wait")
  /\ UNCHANGED <<socket, stop, events_mutex, queue_vars, request, packet, network_vars>>

Wait(t) ==
  /\ t \in Callers
  /\ pc[t] = "to_wait"
  /\ waiting' = waiting \cup {t}
  /\ get_mutex' = NoThread
  /\ Goto(t, "wait")
  /\ UNCHANGED <<socket, stop, send_mutex, events_mutex, queue_vars, request, packet,
                 network_vars>>

\* Notified, the caller locks _socket_get_mutex again and goes back to the test.
WakeUp(t) ==
  /\ t \in Callers
  /\ pc[t] = "wait"
  /\ t \notin waiting
  /\ get_mutex = NoThread
  /\ get_mutex' = t
  /\ Goto(t, "check")
  /\ UNCHANGED <<socket, stop, send_mutex, events_mutex, waiting, queue_vars, request, packet,
                 network_vars>>

\* The caller takes the last response, whatever it answers, and returns it.
TakeResponse(t) ==
  /\ pc[t] = "check"
  /\ get_mutex = t
  /\ response_packets # <<>> /\ ~stop
  /\ response_packets' = Front(response_packets)
  /\ Release(t)
  /\ Goto(t, IF t = KeepAlive THEN "sleep" ELSE "idle")
  /\ UNCHANGED <<socket, stop, events_mutex, waiting, event_packets, packet, network_vars>>

\* error::no_connection; the keep-alive thread ends.
Stopped(t) ==
  /\ pc[t] = "check"
  /\ get_mutex = t
  /\ stop
  /\ Release(t)
  /\ Goto(t, IF t = KeepAlive THEN "exit" ELSE "idle")
  /\ UNCHANGED <<socket, stop, events_mutex, waiting, queue_vars, packet, network_vars>>

-----------------------------------------------------------------------------
(* recv. *)

ReceiverLoops ==
  /\ pc[Receiver] = "check"
  /\ Goto(Receiver, IF stop \/ socket # "open" THEN "exit" ELSE "read")
  /\ UNCHANGED <<socket, stop, mutex_vars, queue_vars, request, packet, network_vars>>

Read ==
  /\ pc[Receiver] = "read"
  /\ socket = "open"
  /\ answers # <<>>
  /\ packet' = Head(answers)
  /\ answers' = Tail(answers)
  /\ Goto(Receiver, "push")
  /\ UNCHANGED <<socket, stop, mutex_vars, queue_vars, request, requests, broken, connections,
                 faults>>

\* The socket was closed by a sender, or the connection has failed.
ReadFails ==
  /\ pc[Receiver] = "read"
  /\ broken \/ socket # "open"
  /\ Goto(Receiver, "stop")
  /\ UNCHANGED <<socket, stop, mutex_vars, queue_vars, request, packet, network_vars>>

PushEvent ==
  /\ pc[Receiver] = "push"
  /\ packet \in Events
  /\ events_mutex = NoThread
  /\ event_packets' = Append(event_packets, packet)
  /\ Awake({EventsThread})
  /\ packet' = NoPacket
  /\ Goto(Receiver, "check")
  /\ UNCHANGED <<socket, stop, get_mutex, send_mutex, events_mutex, response_packets, request,
                 network_vars>>

\* Mutant: the waiting caller is not notified.
PushQuietly ==
  /\ pc[Receiver] = "push"
  /\ packet \in Responses
  /\ get_mutex = NoThread
  /\ response_packets' = Append(response_packets, packet)
  /\ packet' = NoPacket
  /\ Goto(Receiver, "check")
  /\ UNCHANGED <<socket, stop, mutex_vars, event_packets, request, network_vars>>

\* Anything but an event is a response, for whoever waits.
PushResponse ==
  /\ pc[Receiver] = "push"
  /\ packet \in Responses
  /\ get_mutex = NoThread
  /\ response_packets' = Append(response_packets, packet)
  /\ Awake(Callers)
  /\ packet' = NoPacket
  /\ Goto(Receiver, "check")
  /\ UNCHANGED <<socket, stop, get_mutex, send_mutex, events_mutex, event_packets, request,
                 network_vars>>

-----------------------------------------------------------------------------
(* events_handler. *)

LockEvents ==
  /\ pc[EventsThread] = "lock"
  /\ events_mutex = NoThread
  /\ IF stop
     THEN Goto(EventsThread, "exit") /\ UNCHANGED events_mutex
     ELSE /\ Goto(EventsThread, IF event_packets = <<>> THEN "to_wait" ELSE "handle")
          /\ events_mutex' = EventsThread
  /\ UNCHANGED <<socket, stop, get_mutex, send_mutex, waiting, queue_vars, request, packet,
                 network_vars>>

WaitForEvents ==
  /\ pc[EventsThread] = "to_wait"
  /\ waiting' = waiting \cup {EventsThread}
  /\ events_mutex' = NoThread
  /\ Goto(EventsThread, "wait")
  /\ UNCHANGED <<socket, stop, get_mutex, send_mutex, queue_vars, request, packet, network_vars>>

EventsWakeUp ==
  /\ pc[EventsThread] = "wait"
  /\ EventsThread \notin waiting
  /\ Goto(EventsThread, "lock")
  /\ UNCHANGED <<socket, stop, mutex_vars, queue_vars, request, packet, network_vars>>

\* Mutant: one event is handled for each time that the thread wakes up.
HandleOneEvent ==
  /\ pc[EventsThread] = "handle"
  /\ event_packets # <<>>
  /\ event_packets' = Front(event_packets)
  /\ events_mutex' = NoThread
  /\ waiting' = waiting \cup {EventsThread}
  /\ Goto(EventsThread, "wait")
  /\ UNCHANGED <<socket, stop, get_mutex, send_mutex, response_packets, request, packet,
                 network_vars>>

\* call_event of the last event in the queue, with the mutex held.
HandleEvent ==
  /\ pc[EventsThread] = "handle"
  /\ event_packets # <<>>
  /\ event_packets' = Front(event_packets)
  /\ UNCHANGED <<socket, stop, mutex_vars, response_packets, pc, request, packet, network_vars>>

EventsHandled ==
  /\ pc[EventsThread] = "handle"
  /\ event_packets = <<>>
  /\ events_mutex' = NoThread
  /\ Goto(EventsThread, "lock")
  /\ UNCHANGED <<socket, stop, get_mutex, send_mutex, waiting, queue_vars, request, packet,
                 network_vars>>

-----------------------------------------------------------------------------
(* clean_connection, by the receiver or by a sender that holds the mutexes. *)

\* _stop_threads, one notify_one on each condition variable, and the close.
SignalStop(t) ==
  /\ pc[t] = "stop"
  /\ stop' = TRUE
  /\ Awake(Threads)
  /\ socket' = IF socket = "open" THEN "closed" ELSE socket
  /\ Goto(t, "join_events")
  /\ UNCHANGED <<get_mutex, send_mutex, events_mutex, queue_vars, request, packet, network_vars>>

JoinEvents(t) ==
  /\ pc[t] = "join_events"
  /\ pc[EventsThread] = "exit"
  /\ Goto(t, IF t = Receiver THEN "join_keep_alive" ELSE "join_receiver")
  /\ UNCHANGED <<socket, stop, mutex_vars, queue_vars, request, packet, network_vars>>

JoinReceiver(t) ==
  /\ pc[t] = "join_receiver"
  /\ pc[Receiver] = "exit"
  /\ Goto(t, "join_keep_alive")
  /\ UNCHANGED <<socket, stop, mutex_vars, queue_vars, request, packet, network_vars>>

\* Then the socket is deleted, the modules are told, and the receiver ends; a
\* sender throws.
JoinKeepAlive(t) ==
  /\ pc[t] = "join_keep_alive"
  /\ pc[KeepAlive] = "exit"
  /\ socket' = "none"
  /\ IF t = Receiver
     THEN Goto(t, "exit") /\ UNCHANGED <<get_mutex, send_mutex, request>>
     ELSE Goto(t, "idle") /\ Release(t)
  /\ UNCHANGED <<stop, events_mutex, waiting, queue_vars, packet, network_vars>>

-----------------------------------------------------------------------------
(* The connection and the server. *)

\* connect, when it succeeds: it joins the threads of the last connection and
\* starts new ones.  The queues keep what is in them.
Connect ==
  /\ socket = "none"
  /\ connections < MaxConnections
  /\ \A t \in {KeepAlive, Receiver, EventsThread} : pc[t] = "exit"
  /\ connections' = connections + 1
  /\ socket' = "open"
  /\ stop' = FALSE
  /\ broken' = FALSE
  /\ requests' = <<>> /\ answers' = <<>>
  /\ pc' = [pc EXCEPT ![KeepAlive] = "sleep", ![Receiver] = "check", ![EventsThread] = "lock"]
  /\ UNCHANGED <<mutex_vars, queue_vars, request, packet, faults>>

\* The server handles the requests of a session one after the other.
ServerResponds ==
  /\ ~broken /\ socket # "none"
  /\ requests # <<>>
  /\ requests' = Tail(requests)
  /\ answers' = Append(answers, Head(requests))
  /\ UNCHANGED <<socket, stop, mutex_vars, queue_vars, pc, request, packet, broken, connections,
                 faults>>

ServerTriggersEvent ==
  /\ ~broken /\ socket # "none"
  /\ \E e \in FreshEvents : answers' = Append(answers, e)
  /\ UNCHANGED <<socket, stop, mutex_vars, queue_vars, pc, request, packet, requests, broken,
                 connections, faults>>

\* What had arrived can still be read.
Break ==
  /\ "break" \in faults
  /\ ~broken /\ socket # "none"
  /\ broken' = TRUE
  /\ UNCHANGED <<socket, stop, mutex_vars, queue_vars, pc, request, packet, requests, answers,
                 connections, faults>>

-----------------------------------------------------------------------------
Init ==
  /\ socket = "none"
  /\ stop = TRUE
  /\ get_mutex = NoThread /\ send_mutex = NoThread /\ events_mutex = NoThread
  /\ waiting = {}
  /\ response_packets = <<>> /\ event_packets = <<>>
  /\ pc = [t \in Threads |-> IF t \in Senders THEN "idle" ELSE "exit"]
  /\ request = [t \in Callers |-> NoPacket]
  /\ packet = NoPacket
  /\ requests = <<>> /\ answers = <<>>
  /\ broken = FALSE
  /\ connections = 0
  /\ faults \in SUBSET Faults

CleanConnection(t) == SignalStop(t) \/ JoinEvents(t) \/ JoinReceiver(t) \/ JoinKeepAlive(t)

\* A caller past its std::lock.
Call(t) ==
  \/ Write(t) \/ WriteFails(t)
  \/ CheckEmpty(t) \/ Wait(t) \/ WakeUp(t) \/ TakeResponse(t) \/ Stopped(t)

Receive == ReceiverLoops \/ Read \/ ReadFails \/ PushEvent \/ PushResponse \/ CleanConnection(Receiver)

HandleEvents ==
  LockEvents \/ WaitForEvents \/ EventsWakeUp \/ HandleEvent \/ EventsHandled

Next ==
  \/ \E t \in Senders : Send(t) \/ CleanConnection(t)
  \/ KeepAliveWakes \/ KeepAliveLocks
  \/ \E t \in Callers : Call(t)
  \/ Receive
  \/ HandleEvents
  \/ Connect \/ ServerResponds \/ ServerTriggersEvent \/ Break

Spec == Init /\ [][Next]_vars

\* Threads run, and the server answers.  Nothing makes the mutexes fair: a thread
\* that wants both may wait for ever, and only one that has them is sure to go on.
Fairness ==
  /\ \A t \in Callers : WF_vars(Call(t))
  /\ \A t \in Senders : WF_vars(CleanConnection(t))
  /\ WF_vars(KeepAliveWakes)
  /\ WF_vars(Receive)
  /\ WF_vars(HandleEvents)
  /\ WF_vars(ServerResponds)

FairSpec == Spec /\ Fairness

-----------------------------------------------------------------------------
(* Properties. *)

\* What the first connection's callers take is the response to their own request,
\* though responses carry no id and are taken from the back of a vector.  On later
\* connections it need not be: connect clears no queue, and a response that came
\* when its caller had been told to stop is taken by the next caller.
ResponseIsOwn ==
  [][\A t \in Callers :
       /\ pc[t] = "check" /\ response_packets' # response_packets
       /\ get_mutex = t
       /\ connections = 1
       => Last(response_packets) = request[t]]_vars

\* While the connection lasts every send returns: no wakeup is lost between the
\* receiver and the callers.
SendReturns ==
  faults = {} => \A t \in Senders : (pc[t] # "idle") ~> (pc[t] = "idle")

\* Likewise an event that has arrived is handled.
EventHandled ==
  faults = {} => \A e \in Events : (e \in ToSet(event_packets)) ~> (e \notin ToSet(event_packets))

\* "Wake up the threads" (clean_connection): a caller gets an answer or an error
\* when its connection breaks, too.
SendAlwaysReturns ==
  \A t \in Senders : (pc[t] # "idle") ~> (pc[t] = "idle")
=============================================================================
