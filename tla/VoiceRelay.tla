------------------------------ MODULE VoiceRelay ------------------------------
(***************************************************************************)
(* What carries the voice of a call: the voice sessions, keys, one-time    *)
(* passwords and endpoints of voice_manager on the server, the voice       *)
(* manager of each client, and the datagrams between them, which may get   *)
(* lost, come late or come twice.                                          *)
(*                                                                         *)
(* A call of the interface runs on a worker of the client: it sends a      *)
(* request, waits for the response and then enables or disables the voice  *)
(* manager.  The requests of a client come to the server one by one (the   *)
(* communicator holds a mutex until the response is there), but nothing    *)
(* holds a worker that has its response back: what it does to the manager  *)
(* may come after a later request, in the worlds with "overlap".           *)
(* On the server a handler is cut where it lets the voice mutex go between *)
(* what belongs to the user's voice and its call; VoiceCalls has the calls *)
(* themselves.  A one-time password and the key pair made with it go by    *)
(* the id of their request.                                                *)
(***************************************************************************)
EXTENDS FiniteSets

CONSTANTS
  Users, Clients,
  Workers,       \* the threads of a client that run the interface's calls
  Accounts,      \* Accounts[c]: the users who log in on client c
  Endpoints,     \* UDP sockets; one is a client's for the life of a connection
  VoiceSessions, \* session ids; one may be used again when nothing refers to it
  Requests,      \* requests that start or join a call, used again likewise
  Worlds,        \* the worlds explored: each a set of what may go on in it
  NoUser, NoEndpoint, NoSession, NoRequest,
  EmptyId        \* the empty session id that operator[] of _otps enters

\* Datagrams may get lost, come twice, or come after their client has logged out
\* or disconnected; the calls of a client may overlap; a session_auth may log a
\* user in on a second client.
Happenings == {"lose", "duplicate", "late", "overlap", "twice"}

ASSUME VoiceRelayAssumption ==
  /\ Accounts \in [Clients -> SUBSET Users]
  /\ Worlds \subseteq SUBSET Happenings
  /\ NoUser \notin Users
  /\ NoEndpoint \notin Endpoints
  /\ NoRequest \notin Requests
  /\ NoSession \notin VoiceSessions
  /\ EmptyId \notin VoiceSessions \cup {NoSession}

VARIABLES
  joined,            \* the users in a call
  sessions,          \* _sessions: the voice session of each user
  session_keys,      \* _session_keys: the request whose keys each session has
  otps,              \* _otps: the session that each one-time password is for
  session_endpoints, \* _session_endpoints
  account,           \* the user logged in on each client
  endpoint,          \* the socket of its voice manager
  enabled,           \* manager::_enabled
  held,              \* manager::_session_id and its keys
  failed,            \* whether its last enable threw
  response,          \* the request of each worker in its handler, or its response
  datagrams,         \* the one-time passwords under way, with their senders
  world              \* what goes on, always

server_vars == <<joined, sessions, session_keys, otps, session_endpoints>>
client_vars == <<account, endpoint, enabled, held, failed>>
vars == <<server_vars, client_vars, response, datagrams, world>>

Ids == VoiceSessions \cup {EmptyId}
Voice == [session : VoiceSessions, request : Requests]
NoVoice == [session |-> NoSession, request |-> NoRequest]
Handling == {"joining", "leaving"}
Answers == [type : {"none", "joined", "left", "error"} \cup Handling, voice : Voice \cup {NoVoice}]
Answer(t, v) == [type |-> t, voice |-> v]

TypeOK ==
  /\ joined \in SUBSET Users
  /\ sessions \in [Users -> VoiceSessions \cup {NoSession}]
  /\ session_keys \in [VoiceSessions -> Requests \cup {NoRequest}]
  /\ otps \in [Requests -> VoiceSessions \cup {NoSession}]
  /\ session_endpoints \in [Ids -> Endpoints \cup {NoEndpoint}]
  /\ account \in [Clients -> Users \cup {NoUser}]
  /\ endpoint \in [Clients -> Endpoints \cup {NoEndpoint}]
  /\ enabled \in [Clients -> BOOLEAN]
  /\ held \in [Clients -> Voice \cup {NoVoice}]
  /\ failed \in [Clients -> BOOLEAN]
  /\ response \in [Clients -> [Workers -> Answers]]
  /\ datagrams \in SUBSET (Requests \X Endpoints)
  /\ world \in Worlds

-----------------------------------------------------------------------------
NoResponse == Answer("none", NoVoice)

\* No call of client c runs.
Quiet(c) == \A w \in Workers : response[c][w] = NoResponse

\* The session of c handles one packet at a time.
Handled(c) == \A w \in Workers : response[c][w].type \notin Handling

\* The user of c may begin another call.
Idle(c) == account[c] # NoUser /\ Handled(c) /\ ("overlap" \in world \/ Quiet(c))

\* uuid4 and random bytes: ids that nothing refers to.
FreshSessions ==
  {s \in VoiceSessions :
     /\ \A u \in Users : sessions[u] # s
     /\ \A r \in Requests : otps[r] # s
     /\ \A c \in Clients : /\ s # held[c].session
                          /\ \A w \in Workers : s # response[c][w].voice.session
     /\ session_endpoints[s] = NoEndpoint}

FreshRequests ==
  {r \in Requests :
     /\ otps[r] = NoSession
     /\ \A s \in VoiceSessions : session_keys[s] # r
     /\ \A c \in Clients : /\ r # held[c].request
                          /\ \A w \in Workers : r # response[c][w].voice.request
     /\ \A e \in Endpoints : <<r, e>> \notin datagrams}

\* Sockets that no client has; the system may hand one out again.
FreeEndpoints ==
  {e \in Endpoints : /\ \A c \in Clients : endpoint[c] # e
                     /\ \A r \in Requests : <<r, e>> \notin datagrams}

\* The datagrams that still arrive when client c logs out or disconnects.
DatagramsAfter(c) ==
  IF "late" \in world THEN datagrams ELSE {d \in datagrams : d[2] # endpoint[c]}

\* Worker w of c comes to answer t with voice v.
Becomes(c, w, t, v) == response' = [response EXCEPT ![c][w] = Answer(t, v)]

-----------------------------------------------------------------------------
(* Requests. *)

\* The client connects and makes a voice manager with a socket of its own.
Connect(c) ==
  /\ endpoint[c] = NoEndpoint
  /\ \E e \in FreeEndpoints : endpoint' = [endpoint EXCEPT ![c] = e]
  /\ UNCHANGED <<world, server_vars, account, enabled, held, failed, response, datagrams>>

\* A login is refused while the user is on another client; a session_auth is not.
Login(c, u) ==
  /\ endpoint[c] # NoEndpoint
  /\ account[c] = NoUser
  /\ "twice" \in world \/ \A d \in Clients : account[d] # u
  /\ account' = [account EXCEPT ![c] = u]
  /\ UNCHANGED <<world, server_vars, endpoint, enabled, held, failed, response, datagrams>>

\* The keys of session s are made for request r, with a one-time password.
Rekey(s, r) ==
  /\ session_keys' = [session_keys EXCEPT ![s] = r]
  /\ otps' = [otps EXCEPT ![r] = s]

\* The voice session of u, a new one if it has none.
SessionFor(u) ==
  IF sessions[u] # NoSession THEN {sessions[u]} ELSE FreshSessions

\* Mutant: only a new session gets keys.
RequestCallKeepsKeys(c, w) ==
  LET u == account[c] IN
  /\ Idle(c) /\ response[c][w] = NoResponse
  /\ joined' = joined \ {u}
  /\ \E s \in SessionFor(u), r \in FreshRequests :
       /\ sessions' = [sessions EXCEPT ![u] = s]
       /\ otps' = [otps EXCEPT ![r] = s]
       /\ session_keys' = [session_keys EXCEPT ![s] = IF @ = NoRequest THEN r ELSE @]
       /\ Becomes(c, w, "joining", [session |-> s, request |-> r])
  /\ UNCHANGED <<world, session_endpoints, client_vars, datagrams>>

\* call_request and join_call_request: the user leaves its call and its voice
\* session gets new keys.
RequestCall(c, w) ==
  LET u == account[c] IN
  /\ Idle(c) /\ response[c][w] = NoResponse
  /\ joined' = joined \ {u}
  /\ \E s \in SessionFor(u), r \in FreshRequests :
       /\ sessions' = [sessions EXCEPT ![u] = s]
       /\ Rekey(s, r)
       /\ Becomes(c, w, "joining", [session |-> s, request |-> r])
  /\ UNCHANGED <<world, session_endpoints, client_vars, datagrams>>

\* The user joins the call.  (If the user's other client has joined one meanwhile
\* the thread locks the voice mutex twice and stays: VoiceCalls.)
JoinCall(c, w) ==
  /\ response[c][w].type = "joining"
  /\ account[c] \notin joined
  /\ joined' = joined \cup {account[c]}
  /\ Becomes(c, w, "joined", response[c][w].voice)
  /\ UNCHANGED <<world, sessions, session_keys, otps, session_endpoints, client_vars, datagrams>>

\* Or is refused: the keys stay, and the client does not get them.
JoinCallThrows(c, w) ==
  /\ response[c][w].type = "joining"
  /\ Becomes(c, w, "error", NoVoice)
  /\ UNCHANGED <<world, server_vars, client_vars, datagrams>>

\* get_channel_members throws before anything changes: the user stays in the
\* call that it is in.
RequestCallThrows(c, w) ==
  /\ Idle(c) /\ response[c][w] = NoResponse
  /\ Becomes(c, w, "error", NoVoice)
  /\ UNCHANGED <<world, server_vars, client_vars, datagrams>>

LeaveCall(c, w) ==
  /\ Idle(c) /\ response[c][w] = NoResponse
  /\ account[c] \in joined
  /\ joined' = joined \ {account[c]}
  /\ Becomes(c, w, "leaving", NoVoice)
  /\ UNCHANGED <<world, sessions, session_keys, otps, session_endpoints, client_vars, datagrams>>

\* delete_voice_session erases the endpoint and the keys.  The one-time passwords
\* stay, for they are not kept by session; without a session operator[] makes the
\* empty id.
DeleteVoiceSession(c, w) ==
  LET s == sessions[account[c]] IN
  /\ response[c][w].type = "leaving"
  /\ session_endpoints' =
       [session_endpoints EXCEPT ![IF s = NoSession THEN EmptyId ELSE s] = NoEndpoint]
  /\ session_keys' = [session_keys EXCEPT ![s] = NoRequest]
  /\ sessions' = [sessions EXCEPT ![account[c]] = NoSession]
  /\ Becomes(c, w, "left", NoVoice)
  /\ UNCHANGED <<world, joined, otps, client_vars, datagrams>>

\* The user is in no call, or close_call fails once it has left: its voice
\* session stays.
LeaveCallThrows(c, w) ==
  /\ Idle(c) /\ response[c][w] = NoResponse
  /\ joined' = joined \ {account[c]}
  /\ Becomes(c, w, "error", NoVoice)
  /\ UNCHANGED <<world, sessions, session_keys, otps, session_endpoints, client_vars, datagrams>>

\* The server takes the user out of its call and keeps its voice session; the
\* client disables its voice manager.
Logout(c) ==
  /\ Idle(c)
  /\ joined' = joined \ {account[c]}
  /\ account' = [account EXCEPT ![c] = NoUser]
  /\ enabled' = [enabled EXCEPT ![c] = FALSE]
  /\ datagrams' = DatagramsAfter(c)
  /\ UNCHANGED <<world, sessions, session_keys, otps, session_endpoints, endpoint, held, failed,
                 response>>

\* The connection fails, with responses under way or not: ~session on the server,
\* once no handler runs, and the client destroys its voice manager.
Disconnect(c) ==
  /\ endpoint[c] # NoEndpoint
  /\ Handled(c)
  /\ joined' = joined \ {account[c]}
  /\ account' = [account EXCEPT ![c] = NoUser]
  /\ endpoint' = [endpoint EXCEPT ![c] = NoEndpoint]
  /\ enabled' = [enabled EXCEPT ![c] = FALSE]
  /\ held' = [held EXCEPT ![c] = NoVoice]
  /\ failed' = [failed EXCEPT ![c] = FALSE]
  /\ response' = [response EXCEPT ![c] = [w \in Workers |-> NoResponse]]
  /\ datagrams' = DatagramsAfter(c)
  /\ UNCHANGED <<world, sessions, session_keys, otps, session_endpoints>>

-----------------------------------------------------------------------------
(* The client's voice manager. *)

\* The datagrams once enable has sent the one-time password, which it does unless
\* the manager is enabled already.
DatagramsOf(c, w) ==
  IF enabled[c] THEN datagrams
  ELSE datagrams \cup {<<response[c][w].voice.request, endpoint[c]>>}

\* Mutant: a manager that was ever enabled does not send its password.
EnableOnce(c, w) ==
  /\ response[c][w].type = "joined"
  /\ datagrams' = IF held[c] # NoVoice THEN datagrams ELSE DatagramsOf(c, w)
  /\ enabled' = [enabled EXCEPT ![c] = TRUE]
  /\ held' = [held EXCEPT ![c] = response[c][w].voice]
  /\ failed' = [failed EXCEPT ![c] = FALSE]
  /\ Becomes(c, w, "none", NoVoice)
  /\ UNCHANGED <<world, server_vars, account, endpoint>>

\* manager::enable.
Enable(c, w) ==
  /\ response[c][w].type = "joined"
  /\ datagrams' = DatagramsOf(c, w)
  /\ enabled' = [enabled EXCEPT ![c] = TRUE]
  /\ held' = [held EXCEPT ![c] = response[c][w].voice]
  /\ failed' = [failed EXCEPT ![c] = FALSE]
  /\ Becomes(c, w, "none", NoVoice)
  /\ UNCHANGED <<world, server_vars, account, endpoint>>

\* The socket cannot be read or written: the manager keeps what it had, though
\* the user is in the call.
EnableSendFails(c, w) ==
  /\ response[c][w].type = "joined"
  /\ failed' = [failed EXCEPT ![c] = TRUE]
  /\ Becomes(c, w, "none", NoVoice)
  /\ UNCHANGED <<world, server_vars, account, endpoint, enabled, held, datagrams>>

\* startStream throws: the session and the keys are set and _enabled is not.
EnableStreamFails(c, w) ==
  /\ response[c][w].type = "joined"
  /\ datagrams' = DatagramsOf(c, w)
  /\ held' = [held EXCEPT ![c] = response[c][w].voice]
  /\ failed' = [failed EXCEPT ![c] = TRUE]
  /\ Becomes(c, w, "none", NoVoice)
  /\ UNCHANGED <<world, server_vars, account, endpoint, enabled>>

\* call_left disables the manager; an error throws before anything changes.
Disable(c, w) ==
  /\ response[c][w].type \in {"left", "error"}
  /\ enabled' = [enabled EXCEPT ![c] = @ /\ response[c][w].type = "error"]
  /\ Becomes(c, w, "none", NoVoice)
  /\ UNCHANGED <<world, server_vars, account, endpoint, held, failed, datagrams>>

-----------------------------------------------------------------------------
(* Datagrams. *)

\* handle_packet of a one-time password: operator[] gives the session it is for,
\* or enters the empty id for one that is not known, and the sender becomes the
\* endpoint of that session.
HandleOtp(r, e) ==
  /\ <<r, e>> \in datagrams
  /\ session_endpoints' =
       [session_endpoints EXCEPT ![IF otps[r] = NoSession THEN EmptyId ELSE otps[r]] = e]
  /\ otps' = [otps EXCEPT ![r] = NoSession]
  /\ \/ datagrams' = datagrams \ {<<r, e>>}
     \/ "duplicate" \in world /\ UNCHANGED datagrams
  /\ UNCHANGED <<world, joined, sessions, session_keys, client_vars, response>>

LoseOtp(r, e) ==
  /\ "lose" \in world
  /\ <<r, e>> \in datagrams
  /\ datagrams' = datagrams \ {<<r, e>>}
  /\ UNCHANGED <<world, server_vars, client_vars, response>>

-----------------------------------------------------------------------------
Init ==
  /\ joined = {}
  /\ sessions = [u \in Users |-> NoSession]
  /\ session_keys = [s \in VoiceSessions |-> NoRequest]
  /\ otps = [r \in Requests |-> NoSession]
  /\ session_endpoints = [i \in Ids |-> NoEndpoint]
  /\ account = [c \in Clients |-> NoUser]
  /\ endpoint = [c \in Clients |-> NoEndpoint]
  /\ enabled = [c \in Clients |-> FALSE]
  /\ held = [c \in Clients |-> NoVoice]
  /\ failed = [c \in Clients |-> FALSE]
  /\ response = [c \in Clients |-> [w \in Workers |-> NoResponse]]
  /\ datagrams = {}
  /\ world \in Worlds

Handle(c, w) == JoinCall(c, w) \/ JoinCallThrows(c, w) \/ DeleteVoiceSession(c, w)

Receive(c, w) ==
  \/ Enable(c, w) \/ EnableSendFails(c, w) \/ EnableStreamFails(c, w)
  \/ Disable(c, w)

Request(c) ==
  \/ Connect(c) \/ Disconnect(c)
  \/ \E u \in Accounts[c] : Login(c, u)
  \/ \E w \in Workers : \/ RequestCall(c, w) \/ RequestCallThrows(c, w)
                        \/ LeaveCall(c, w) \/ LeaveCallThrows(c, w)
  \/ Logout(c)

Next ==
  \/ \E c \in Clients : Request(c) \/ \E w \in Workers : Handle(c, w) \/ Receive(c, w)
  \/ \E r \in Requests, e \in Endpoints : HandleOtp(r, e) \/ LoseOtp(r, e)

Spec == Init /\ [][Next]_vars

\* A handler ends, a client reads its response, and a datagram that is not lost
\* arrives.
Fairness ==
  /\ \A c \in Clients, w \in Workers : WF_vars(Handle(c, w)) /\ WF_vars(Receive(c, w))
  /\ \A r \in Requests, e \in Endpoints : WF_vars(HandleOtp(r, e))

FairSpec == Spec /\ Fairness

-----------------------------------------------------------------------------
(* Properties. *)

\* The calls of a client do not overlap and no user is on two clients.  With either
\* two requests of a user may be handled, and their keys come to the voice manager
\* in the other order or never: what is claimed below is then false.
OneByOne == world \cap {"overlap", "twice"} = {}

\* The user of c is in a call, c has read all responses and told no failure: an
\* enable that threw left the user in a call that the interface was refused.
Settled(c) == account[c] \in joined /\ Quiet(c) /\ ~failed[c]

\* The two ends of a call agree: once its client has read the response, the keys
\* and the session that it holds are those the server has for the user.
\* Refused requests, repeated ones, enables that throw and reconnections all
\* change the keys of one end.
VoiceDecrypts ==
  OneByOne =>
    \A c \in Clients : Settled(c) =>
      /\ enabled[c]
      /\ held[c].session = sessions[account[c]]
      /\ held[c].request = session_keys[sessions[account[c]]]

\* The server knows the socket of the user's client.
Learned(c) == \E s \in VoiceSessions : /\ s = sessions[account[c]]
                                      /\ session_endpoints[s] = endpoint[c]

\* On a network that may only duplicate datagrams the voice of a call reaches its
\* user: the server learns the socket of the client's present connection, unless
\* the user leaves first.
EndpointLearned ==
  OneByOne /\ world \subseteq {"duplicate"} =>
    \A c \in Clients :
      Settled(c) ~> ~Settled(c) \/ Learned(c)
=============================================================================
