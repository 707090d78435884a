------------------------------ MODULE VoiceCalls ------------------------------
(***************************************************************************)
(* Calls on the server: voice_manager's call state and the packet handlers *)
(* that change it (call_request, join_call_request, leave_call), run by    *)
(* the io threads for many sessions at once.                               *)
(*                                                                         *)
(* A session handles one request at a time (session::recv, handle, send,   *)
(* recv).  A handler calls several methods of voice_manager, and each of   *)
(* them takes voice_manager::_mutex for itself alone: an action here is    *)
(* one such critical section, and other sessions' sections run in between. *)
(* pc[s] names the method that the handler of s is about to call.          *)
(***************************************************************************)
EXTENDS Naturals, FiniteSets

CONSTANTS
  Users,       \* user ids
  Channels,    \* channel ids
  Sessions,    \* session objects (one TCP connection each)
  CallIds,     \* ids of calls; one may be used again when nothing refers to it
  Members,     \* Members[c]: the users of table channel_members
  UserOf,      \* UserOf[s]: the user that session s authenticates as
  SqlMayFail,  \* whether a statement on tables calls, call_participants may fail
  NoChannel, NoCall, NoSession

ASSUME VoiceCallsAssumption ==
  /\ Members \in [Channels -> SUBSET Users]
  /\ UserOf \in [Sessions -> Users]
  /\ SqlMayFail \in BOOLEAN
  /\ NoChannel \notin Channels
  /\ NoCall \notin CallIds
  /\ NoSession \notin Sessions

VARIABLES
  voice_channels,  \* _voice_channels: the call of each active channel
  voice_states,    \* the voice_states of those calls, "none" for a user without one
  joined,          \* _joined_voice_channels
  voice_sessions,  \* the users with an entry in _sessions and _session_keys
  open_calls,      \* table calls: the channel of each row whose end_date is NULL
  participants,    \* table call_participants: the users recorded for each call
  mutex,           \* the session that holds _mutex for ever, if one does
  pc,              \* the method the handler of each session is about to call
  handler,         \* the packet being handled
  target,          \* its channelId
  call_details     \* the copy of the call that init_voice_channel returned

manager_vars == <<voice_channels, voice_states, joined, open_calls, participants>>
local_vars == <<handler, target, call_details>>
vars == <<manager_vars, voice_sessions, mutex, pc, local_vars>>

StateType == {"disconnected", "connected", "pending"}
Handlers == {"call_request", "join_call_request", "leave_call"}
Methods == {"create_voice_session", "init_voice_channel", "join_voice_channel",
            "get_voice_states", "trigger_event", "delete_voice_session"}

TypeOK ==
  /\ voice_channels \in [Channels -> CallIds \cup {NoCall}]
  /\ voice_states \in [Channels -> [Users -> StateType \cup {"none"}]]
  /\ joined \in [Users -> Channels \cup {NoChannel}]
  /\ voice_sessions \in SUBSET Users
  /\ open_calls \in [CallIds -> Channels \cup {NoChannel}]
  /\ participants \in [CallIds -> SUBSET Users]
  /\ mutex \in Sessions \cup {NoSession}
  /\ pc \in [Sessions -> Methods \cup {"offline", "idle"}]
  /\ handler \in [Sessions -> Handlers \cup {"none"}]
  /\ target \in [Sessions -> Channels \cup {NoChannel}]
  /\ call_details \in [Sessions -> CallIds \cup {NoCall}]

-----------------------------------------------------------------------------
(* voice_manager's state, as its methods read it. *)

Active(c) == voice_channels[c] # NoCall

NoStates == [u \in Users |-> "none"]

\* Mutant: whoever leaves takes the channel with it.
NobodyElseCounts(u, c) == FALSE

OthersJoined(u, c) == \E v \in Users \ {u} : joined[v] = c

\* uuid4: an id that no map, no row and no handler holds.  There is always one
\* when CallIds has an id for each channel and each session.
FreshCalls ==
  {k \in CallIds : /\ \A c \in Channels : voice_channels[c] # k
                   /\ \A s \in Sessions : call_details[s] # k
                   /\ open_calls[k] = NoChannel}

Pending == {p \in Channels \X Users : voice_states[p[1]][p[2]] = "pending"}

-----------------------------------------------------------------------------
(* leave_voice_channel, by outcome. *)

\* Mutant: the state stays connected.
LeaveKeepsState(u) ==
  /\ joined[u] # NoChannel
  /\ OthersJoined(u, joined[u])
  /\ joined' = [joined EXCEPT ![u] = NoChannel]
  /\ UNCHANGED <<voice_states, voice_channels, open_calls, participants>>

\* Other users are still joined: the call goes on.
LeaveOthersBehind(u) ==
  /\ joined[u] # NoChannel
  /\ OthersJoined(u, joined[u])
  /\ joined' = [joined EXCEPT ![u] = NoChannel]
  /\ voice_states' = [voice_states EXCEPT ![joined[u]][u] = "disconnected"]
  /\ UNCHANGED <<voice_channels, open_calls, participants>>

\* Mutant: the row is closed and the channel stays in the map.
LeaveWithoutErase(u) ==
  /\ joined[u] # NoChannel
  /\ ~OthersJoined(u, joined[u])
  /\ joined' = [joined EXCEPT ![u] = NoChannel]
  /\ voice_states' = [voice_states EXCEPT ![joined[u]][u] = "disconnected"]
  /\ open_calls' = [open_calls EXCEPT ![voice_channels[joined[u]]] = NoChannel]
  /\ UNCHANGED <<voice_channels, participants>>

\* The last user leaves: the row is closed and the channel erased.
LeaveLast(u) ==
  /\ joined[u] # NoChannel
  /\ ~OthersJoined(u, joined[u])
  /\ joined' = [joined EXCEPT ![u] = NoChannel]
  /\ voice_states' = [voice_states EXCEPT ![joined[u]] = NoStates]
  /\ voice_channels' = [voice_channels EXCEPT ![joined[u]] = NoCall]
  /\ open_calls' = [open_calls EXCEPT ![voice_channels[joined[u]]] = NoChannel]
  /\ UNCHANGED participants

\* Mutant: the channel is erased before the statement that fails.
LeaveErasesFirst(u) ==
  /\ SqlMayFail
  /\ joined[u] # NoChannel
  /\ ~OthersJoined(u, joined[u])
  /\ joined' = [joined EXCEPT ![u] = NoChannel]
  /\ voice_states' = [voice_states EXCEPT ![joined[u]] = NoStates]
  /\ voice_channels' = [voice_channels EXCEPT ![joined[u]] = NoCall]
  /\ UNCHANGED <<open_calls, participants>>

\* close_call throws: the user has left and the channel stays in the map.
LeaveCloseFails(u) ==
  /\ SqlMayFail
  /\ joined[u] # NoChannel
  /\ ~OthersJoined(u, joined[u])
  /\ joined' = [joined EXCEPT ![u] = NoChannel]
  /\ voice_states' = [voice_states EXCEPT ![joined[u]][u] = "disconnected"]
  /\ UNCHANGED <<voice_channels, open_calls, participants>>

\* error::voice_not_connected
LeaveNotConnected(u) ==
  /\ joined[u] = NoChannel
  /\ UNCHANGED manager_vars

LeaveReturns(u) == LeaveOthersBehind(u) \/ LeaveLast(u)
LeaveThrows(u) == LeaveNotConnected(u) \/ LeaveCloseFails(u)

-----------------------------------------------------------------------------
(* The handlers. *)

\* The handler returns its response packet; session::send, then recv again.
Respond(s) ==
  /\ pc' = [pc EXCEPT ![s] = "idle"]
  /\ handler' = [handler EXCEPT ![s] = "none"]
  /\ target' = [target EXCEPT ![s] = NoChannel]
  /\ call_details' = [call_details EXCEPT ![s] = NoCall]

\* The handler of s goes on to call method m.
Goto(s, m) ==
  /\ pc' = [pc EXCEPT ![s] = m]
  /\ UNCHANGED local_vars

\* s is authenticated as UserOf[s].
Authenticate(s) ==
  /\ pc[s] = "offline"
  /\ pc' = [pc EXCEPT ![s] = "idle"]
  /\ UNCHANGED <<manager_vars, voice_sessions, mutex, local_vars>>

\* Mutant: the user is left in its call.
CleanWithoutLeave(s) ==
  /\ pc[s] = "idle"
  /\ pc' = [pc EXCEPT ![s] = "offline"]
  /\ UNCHANGED <<manager_vars, voice_sessions, mutex, local_vars>>

\* ~session, or set_user(nullptr) of a logout: clean_user_session leaves the
\* call and swallows every exception.
CleanUserSession(s) ==
  /\ pc[s] = "idle"
  /\ mutex = NoSession
  /\ LeaveReturns(UserOf[s]) \/ LeaveThrows(UserOf[s])
  /\ pc' = [pc EXCEPT ![s] = "offline"]
  /\ UNCHANGED <<voice_sessions, mutex, local_vars>>

\* call_request and join_call_request begin by leaving the current call,
\* whatever comes of it.  Only call_request asks for the channel's members.
RequestCall(s, h, c) ==
  /\ pc[s] = "idle"
  /\ mutex = NoSession
  /\ h = "call_request" => UserOf[s] \in Members[c]
  /\ LeaveReturns(UserOf[s]) \/ LeaveThrows(UserOf[s])
  /\ pc' = [pc EXCEPT ![s] = "create_voice_session"]
  /\ handler' = [handler EXCEPT ![s] = h]
  /\ target' = [target EXCEPT ![s] = c]
  /\ UNCHANGED <<voice_sessions, mutex, call_details>>

\* create_voice_session and generate_otp (VoiceRelay has the keys and OTPs).
CreateVoiceSession(s) ==
  /\ pc[s] = "create_voice_session"
  /\ mutex = NoSession
  /\ voice_sessions' = voice_sessions \cup {UserOf[s]}
  /\ Goto(s, IF handler[s] = "call_request" THEN "init_voice_channel"
                                            ELSE "join_voice_channel")
  /\ UNCHANGED <<manager_vars, mutex>>

\* Mutant: the call replaces the one the channel has.
InitWithoutCheck(s) ==
  LET c == target[s]
      k == CHOOSE id \in FreshCalls : TRUE IN
  /\ pc[s] = "init_voice_channel"
  /\ mutex = NoSession
  /\ FreshCalls # {}
  /\ voice_channels' = [voice_channels EXCEPT ![c] = k]
  /\ open_calls' = [open_calls EXCEPT ![k] = c]
  /\ participants' = [participants EXCEPT ![k] = {}]
  /\ call_details' = [call_details EXCEPT ![s] = k]
  /\ voice_states' = [voice_states EXCEPT ![c] =
       [u \in Users |-> IF u \in Members[c] \cup {UserOf[s]} THEN "pending" ELSE "none"]]
  /\ pc' = [pc EXCEPT ![s] = "join_voice_channel"]
  /\ UNCHANGED <<joined, voice_sessions, mutex, handler, target>>

\* Every member and the caller become pending in a new call of the channel.
InitVoiceChannel(s) ==
  LET c == target[s]
      k == CHOOSE id \in FreshCalls : TRUE IN
  /\ pc[s] = "init_voice_channel"
  /\ mutex = NoSession
  /\ ~Active(c)
  /\ FreshCalls # {}
  /\ voice_channels' = [voice_channels EXCEPT ![c] = k]
  /\ open_calls' = [open_calls EXCEPT ![k] = c]
  /\ participants' = [participants EXCEPT ![k] = {}]
  /\ call_details' = [call_details EXCEPT ![s] = k]
  /\ voice_states' = [voice_states EXCEPT ![c] =
       [u \in Users |-> IF u \in Members[c] \cup {UserOf[s]} THEN "pending" ELSE "none"]]
  /\ pc' = [pc EXCEPT ![s] = "join_voice_channel"]
  /\ UNCHANGED <<joined, voice_sessions, mutex, handler, target>>

\* error::call_already_started, or create_call's INSERT fails.
InitVoiceChannelThrows(s) ==
  /\ pc[s] = "init_voice_channel"
  /\ mutex = NoSession
  /\ Active(target[s]) \/ SqlMayFail
  /\ Respond(s)
  /\ UNCHANGED <<manager_vars, voice_sessions, mutex>>

JoinVoiceChannel(s) ==
  LET u == UserOf[s]
      c == target[s] IN
  /\ pc[s] = "join_voice_channel"
  /\ mutex = NoSession
  /\ joined[u] = NoChannel
  /\ Active(c)
  /\ participants' = [participants EXCEPT ![voice_channels[c]] = @ \cup {u}]
  /\ joined' = [joined EXCEPT ![u] = c]
  /\ voice_states' = [voice_states EXCEPT ![c][u] = "connected"]
  /\ Goto(s, "get_voice_states")
  /\ UNCHANGED <<voice_channels, open_calls, voice_sessions, mutex>>

\* error::channel_not_found, or add_participant_to_call's INSERT fails.
JoinVoiceChannelThrows(s) ==
  /\ pc[s] = "join_voice_channel"
  /\ mutex = NoSession
  /\ joined[UserOf[s]] = NoChannel
  /\ ~Active(target[s]) \/ SqlMayFail
  /\ Respond(s)
  /\ UNCHANGED <<manager_vars, voice_sessions, mutex>>

\* The user is in a channel: join_voice_channel holds _mutex and calls
\* leave_voice_channel, which locks it again.  The thread never returns.
JoinRelocks(s) ==
  /\ pc[s] = "join_voice_channel"
  /\ mutex = NoSession
  /\ joined[UserOf[s]] # NoChannel
  /\ mutex' = s
  /\ UNCHANGED <<manager_vars, voice_sessions, pc, local_vars>>

\* The states of the channel go into the response, or error::channel_not_found.
GetVoiceStates(s) ==
  /\ pc[s] = "get_voice_states"
  /\ mutex = NoSession
  /\ IF Active(target[s]) /\ handler[s] = "call_request"
     THEN Goto(s, "trigger_event")
     ELSE Respond(s)
  /\ UNCHANGED <<manager_vars, voice_sessions, mutex>>

\* The incoming_call events of call_details, then the response.
AnnounceCall(s) ==
  /\ pc[s] = "trigger_event"
  /\ Respond(s)
  /\ UNCHANGED <<manager_vars, voice_sessions, mutex>>

LeaveCall(s) ==
  /\ pc[s] = "idle"
  /\ mutex = NoSession
  /\ LeaveReturns(UserOf[s])
  /\ pc' = [pc EXCEPT ![s] = "delete_voice_session"]
  /\ handler' = [handler EXCEPT ![s] = "leave_call"]
  /\ UNCHANGED <<voice_sessions, mutex, target, call_details>>

\* The error goes back to the client and the voice session stays.
LeaveCallThrows(s) ==
  /\ pc[s] = "idle"
  /\ mutex = NoSession
  /\ LeaveThrows(UserOf[s])
  /\ UNCHANGED <<voice_sessions, mutex, pc, local_vars>>

DeleteVoiceSession(s) ==
  /\ pc[s] = "delete_voice_session"
  /\ mutex = NoSession
  /\ voice_sessions' = voice_sessions \ {UserOf[s]}
  /\ Respond(s)
  /\ UNCHANGED <<manager_vars, mutex>>

-----------------------------------------------------------------------------
\* Mutant: a channel that somebody joined is not looked at again.
HandleEmptyChannelsOnly(expired) ==
  /\ mutex = NoSession
  /\ expired # {}
  /\ expired \subseteq {p \in Pending : \A v \in Users : joined[v] # p[1]}
  /\ voice_states' = [c \in Channels |-> [u \in Users |->
       IF <<c, u>> \in expired THEN "disconnected" ELSE voice_states[c][u]]]
  /\ UNCHANGED <<voice_channels, joined, open_calls, participants, voice_sessions,
                 mutex, pc, local_vars>>

\* handle_voice_states: one pass of the thread over every channel turns the
\* users of `expired`, pending for more than MAX_PENDING_SECONDS, disconnected.
HandleVoiceStates(expired) ==
  /\ mutex = NoSession
  /\ expired # {}
  /\ expired \subseteq Pending
  /\ voice_states' = [c \in Channels |-> [u \in Users |->
       IF <<c, u>> \in expired THEN "disconnected" ELSE voice_states[c][u]]]
  /\ UNCHANGED <<voice_channels, joined, open_calls, participants, voice_sessions,
                 mutex, pc, local_vars>>

-----------------------------------------------------------------------------
Init ==
  /\ voice_channels = [c \in Channels |-> NoCall]
  /\ voice_states = [c \in Channels |-> NoStates]
  /\ joined = [u \in Users |-> NoChannel]
  /\ voice_sessions = {}
  /\ open_calls = [k \in CallIds |-> NoChannel]
  /\ participants = [k \in CallIds |-> {}]
  /\ mutex = NoSession
  /\ pc = [s \in Sessions |-> "offline"]
  /\ handler = [s \in Sessions |-> "none"]
  /\ target = [s \in Sessions |-> NoChannel]
  /\ call_details = [s \in Sessions |-> NoCall]

\* What the handler of s does once its first method has returned.
Continue(s) ==
  \/ CreateVoiceSession(s)
  \/ InitVoiceChannel(s) \/ InitVoiceChannelThrows(s)
  \/ JoinVoiceChannel(s) \/ JoinVoiceChannelThrows(s) \/ JoinRelocks(s)
  \/ GetVoiceStates(s)
  \/ AnnounceCall(s)
  \/ DeleteVoiceSession(s)

\* What the client of s may begin.
Begin(s) ==
  \/ Authenticate(s)
  \/ CleanUserSession(s)
  \/ \E c \in Channels, h \in {"call_request", "join_call_request"} : RequestCall(s, h, c)
  \/ LeaveCall(s) \/ LeaveCallThrows(s)

Next ==
  \/ \E s \in Sessions : Begin(s) \/ Continue(s)
  \/ \E expired \in SUBSET Pending : HandleVoiceStates(expired)

Spec == Init /\ [][Next]_vars

\* The io threads run every handler they began, and the voice states thread
\* wakes every half second: whoever stays pending is found expired by a pass.
\* Clients need not send anything.
Expire(c, u) == \E expired \in SUBSET Pending : <<c, u>> \in expired /\ HandleVoiceStates(expired)

Fairness ==
  /\ \A s \in Sessions : WF_vars(Continue(s))
  /\ \A c \in Channels, u \in Users : WF_vars(Expire(c, u))

FairSpec == Spec /\ Fairness

-----------------------------------------------------------------------------
\* A call of the abstract specification is a row without an end date, and its
\* members are the users joined to the channel of the row.
LifecycleMembers ==
  [k \in CallIds |-> {u \in Users : open_calls[k] # NoChannel /\ joined[u] = open_calls[k]}]

Lifecycle == INSTANCE CallLifecycle WITH channel_of <- open_calls, members <- LifecycleMembers

-----------------------------------------------------------------------------
(* Properties. *)

\* A user is joined to a channel exactly when its state there is connected, and
\* then the channel has a call and the user's participation is in the database:
\* join_voice_channel and leave_voice_channel change four maps and tables at
\* once, and the voice states thread and other leavers change some of them too.
JoinedAgrees ==
  \A u \in Users, c \in Channels :
    /\ joined[u] = c <=> voice_states[c][u] = "connected"
    /\ joined[u] = c => /\ Active(c)
                       /\ u \in participants[voice_channels[c]]

\* The rows of table calls without an end date are the calls in the map, one a
\* channel: create_call and close_call keep the database in step with
\* _voice_channels through failed statements and interleaved handlers.
OpenRowsAreActiveCalls ==
  \A k \in CallIds, c \in Channels : open_calls[k] = c <=> voice_channels[c] = k

\* Once every session of a user is gone nobody hears it in a call: the cleanup
\* of clean_user_session reaches each call that a session's handlers joined.
NoGhostParticipant ==
  \A u \in Users :
    (\A s \in Sessions : UserOf[s] = u => pc[s] = "offline") => joined[u] = NoChannel

\* When no statement fails, a call with nobody joined has a caller that is about
\* to join it: the gap between init_voice_channel and join_voice_channel.
EmptyCallHasCaller ==
  \A c \in Channels :
    Active(c) /\ (\A u \in Users : joined[u] # c) =>
      \E s \in Sessions : pc[s] = "join_voice_channel" /\ target[s] = c

\* A call ends when its only joined user leaves and in no other way, and a
\* channel never goes from one call straight to another.
EndsOnlyByLastLeaver ==
  \A c \in Channels :
    Active(c) /\ voice_channels'[c] # voice_channels[c] =>
      /\ voice_channels'[c] = NoCall
      /\ \E u \in Users : /\ {v \in Users : joined[v] = c} = {u}
                         /\ joined'[u] = NoChannel

CallEndsWithLastLeaver == [][EndsOnlyByLastLeaver]_vars

\* The handlers, interleaved, are atomic starts, entries and exits of calls:
\* every step of the server is a step of CallLifecycle or leaves it unchanged.
ImplementsCallLifecycle == Lifecycle!Spec

\* No user waits in the pending state for ever: it joins, the call ends, or the
\* voice states thread gives up on it.
PendingEnds ==
  \A c \in Channels, u \in Users :
    voice_states[c][u] = "pending" ~> voice_states[c][u] # "pending"

\* "If the channel has no one connected to it, remove it" (leave_voice_channel):
\* a call with nobody joined is joined or removed in the end.
EmptyCallEnds ==
  \A c \in Channels :
    Active(c) /\ (\A u \in Users : joined[u] # c) ~>
      ~Active(c) \/ \E u \in Users : joined[u] = c

\* "If the user is already in a channel, leave the channel" (join_voice_channel):
\* a handler about to join goes on, whatever channel its user is in.
JoinReturns ==
  \A s \in Sessions : pc[s] = "join_voice_channel" ~> pc[s] # "join_voice_channel"
=============================================================================
