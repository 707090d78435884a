--------------------------- MODULE VoiceRelayProofs ---------------------------
(***************************************************************************)
(* Proofs about VoiceRelay, for any clients, workers, accounts and worlds. *)
(***************************************************************************)
EXTENDS VoiceRelay, TLAPS

\* A client with a user or with a call under way is connected, a request in its
\* handler has a user, and an approval carries a voice.
Wired ==
  \A c \in Clients :
    /\ account[c] # NoUser => endpoint[c] # NoEndpoint
    /\ \A w \in Workers :
         /\ response[c][w].type # "none" => endpoint[c] # NoEndpoint
         /\ response[c][w].type = "none" => response[c][w] = NoResponse
         /\ response[c][w].type \in Handling => account[c] # NoUser
         /\ response[c][w].type \in {"joining", "joined"} => response[c][w].voice \in Voice

\* What the server has for user u.
VoiceOf(u) == [session |-> sessions[u], request |-> session_keys[sessions[u]]]

\* A user is logged in on one client, is in a call only while logged in, and
\* shares its voice session with nobody.
Apart ==
  /\ \A c, d \in Clients : account[c] = account[d] /\ account[c] # NoUser => c = d
  /\ \A u \in joined : \E c \in Clients : account[c] = u
  /\ \A u, v \in Users : sessions[u] = sessions[v] /\ sessions[u] # NoSession => u = v

\* Client c has one call under way, whose approval carries what the server has, and
\* so does the voice manager that read it.
ClientAgrees(c) ==
  /\ \A v, w \in Workers :
       response[c][v].type # "none" /\ response[c][w].type # "none" => v = w
  /\ account[c] = NoUser => \A w \in Workers : response[c][w].type = "none"
  /\ \A w \in Workers :
       /\ response[c][w].type \in {"joining", "joined"} =>
            response[c][w].voice = VoiceOf(account[c])
       /\ response[c][w].type = "joined" => account[c] \in joined
       /\ response[c][w].type \in {"joining", "leaving", "left"} => account[c] \notin joined
  /\ /\ account[c] \in joined
     /\ ~failed[c]
     /\ \A w \in Workers : response[c][w].type # "joined"
     => enabled[c] /\ held[c] \in Voice /\ held[c] = VoiceOf(account[c])

Agree == Apart /\ \A c \in Clients : ClientAgrees(c)

IInv == TypeOK /\ Wired /\ (OneByOne => Agree)

-----------------------------------------------------------------------------
LEMMA VoiceOfFields ==
  ASSUME NEW u
  PROVE  /\ VoiceOf(u).session = sessions[u]
         /\ VoiceOf(u).request = session_keys[sessions[u]]
         /\ VoiceOf(u) \in Voice => sessions[u] \in VoiceSessions
BY DEF VoiceOf, Voice

LEMMA InitIInv == Init => IInv
BY VoiceRelayAssumption
DEF Init, IInv, TypeOK, Wired, Agree, Apart, ClientAgrees, NoResponse, Answer, Answers,
    Handling, NoVoice, Voice, Ids

\* What a worker comes to is an answer.
LEMMA BecomesFacts ==
  ASSUME TypeOK, NEW c \in Clients, NEW w \in Workers,
         NEW t \in {"none", "joined", "left", "error"} \cup Handling,
         NEW v \in Voice \cup {NoVoice},
         Becomes(c, w, t, v)
  PROVE  /\ response' \in [Clients -> [Workers -> Answers]]
         /\ response'[c][w].type = t /\ response'[c][w].voice = v
         /\ response'[c][w] = Answer(t, v)
         /\ \A x \in Workers \ {w} : response'[c][x] = response[c][x]
         /\ \A d \in Clients \ {c} : response'[d] = response[d]
<1>1. Answer(t, v) \in Answers /\ Answer(t, v).type = t /\ Answer(t, v).voice = v
  BY DEF Answer, Answers
<1> QED
  BY <1>1 DEF Becomes, TypeOK

\* A request in its handler, and a response, belong to a client with a socket.
LEMMA RequestCallFacts ==
  ASSUME TypeOK, NEW c \in Clients, NEW w \in Workers, RequestCall(c, w)
  PROVE  /\ account[c] \in Users /\ Idle(c) /\ response[c][w] = NoResponse
         /\ joined' = joined \ {account[c]}
         /\ UNCHANGED <<world, session_endpoints, client_vars, datagrams>>
         /\ \E s \in SessionFor(account[c]), r \in FreshRequests :
              /\ s \in VoiceSessions /\ r \in Requests
              /\ sessions' = [sessions EXCEPT ![account[c]] = s]
              /\ session_keys' = [session_keys EXCEPT ![s] = r]
              /\ otps' = [otps EXCEPT ![r] = s]
              /\ [session |-> s, request |-> r] \in Voice
              /\ Becomes(c, w, "joining", [session |-> s, request |-> r])
<1>1. account[c] \in Users
  BY DEF RequestCall, Idle, TypeOK
<1>2. \A s \in SessionFor(account[c]) : s \in VoiceSessions
  BY <1>1 DEF SessionFor, FreshSessions, TypeOK
<1>3. \A r \in FreshRequests : r \in Requests
  BY DEF FreshRequests
<1> QED
  BY <1>1, <1>2, <1>3 DEF RequestCall, Rekey, Voice

LEMMA RequestCallTypeOK ==
  ASSUME TypeOK, NEW c \in Clients, NEW w \in Workers, RequestCall(c, w)
  PROVE  TypeOK'
<1>1. PICK s \in VoiceSessions, r \in Requests :
        /\ account[c] \in Users
        /\ sessions' = [sessions EXCEPT ![account[c]] = s]
        /\ session_keys' = [session_keys EXCEPT ![s] = r]
        /\ otps' = [otps EXCEPT ![r] = s]
        /\ [session |-> s, request |-> r] \in Voice
        /\ Becomes(c, w, "joining", [session |-> s, request |-> r])
  BY RequestCallFacts
<1>2. response' \in [Clients -> [Workers -> Answers]]
  BY <1>1, BecomesFacts DEF Handling
<1>3. /\ joined' = joined \ {account[c]}
      /\ UNCHANGED <<world, session_endpoints, client_vars, datagrams>>
  BY RequestCallFacts
<1> QED
  BY <1>1, <1>2, <1>3 DEF TypeOK, client_vars

\* The datagram of an enable goes from the client's socket.
LEMMA DatagramsOfType ==
  ASSUME TypeOK, Wired, NEW c \in Clients, NEW w \in Workers, response[c][w].type = "joined"
  PROVE  /\ response[c][w].voice \in Voice
         /\ DatagramsOf(c, w) \in SUBSET (Requests \X Endpoints)
<1>1. response[c][w].voice \in Voice /\ endpoint[c] \in Endpoints
  BY DEF TypeOK, Wired
<1>2. response[c][w].voice.request \in Requests
  BY <1>1 DEF Voice
<1> QED
  BY <1>1, <1>2 DEF DatagramsOf, TypeOK

LEMMA TypeStep == TypeOK /\ Wired /\ [Next]_vars => TypeOK'
<1> SUFFICES ASSUME TypeOK, Wired, [Next]_vars PROVE TypeOK'
  OBVIOUS
<1> USE VoiceRelayAssumption DEF TypeOK, server_vars, client_vars
<1>0. ASSUME NEW c \in Clients, NEW w \in Workers, NEW v \in Voice \cup {NoVoice},
             NEW t \in {"none", "joined", "left", "error", "joining", "leaving"}, Becomes(c, w, t, v)
      PROVE  response' \in [Clients -> [Workers -> Answers]]
  BY ONLY <1>0, TypeOK, BecomesFacts DEF Handling
<1>1. ASSUME NEW c \in Clients, Connect(c) PROVE TypeOK'
  BY <1>1 DEF Connect, FreeEndpoints
<1>2. ASSUME NEW c \in Clients, Disconnect(c) PROVE TypeOK'
  <2>1. NoResponse \in Answers
    BY DEF NoResponse, Answer, Answers
  <2> QED
    BY <1>2, <2>1 DEF Disconnect, DatagramsAfter
<1>3. ASSUME NEW c \in Clients, NEW u \in Accounts[c], Login(c, u) PROVE TypeOK'
  BY <1>3 DEF Login
<1>4. ASSUME NEW c \in Clients, NEW w \in Workers, RequestCall(c, w) PROVE TypeOK'
  BY <1>4, RequestCallTypeOK
<1>5. ASSUME NEW c \in Clients, NEW w \in Workers,
             RequestCallThrows(c, w) \/ LeaveCallThrows(c, w) \/ LeaveCall(c, w)
             \/ JoinCallThrows(c, w)
      PROVE TypeOK'
  <2>1. response' \in [Clients -> [Workers -> Answers]]
    BY <1>0, <1>5 DEF RequestCallThrows, LeaveCallThrows, LeaveCall, JoinCallThrows
  <2> QED
    BY <1>5, <2>1 DEF RequestCallThrows, LeaveCallThrows, LeaveCall, JoinCallThrows
<1>6. ASSUME NEW c \in Clients, NEW w \in Workers, JoinCall(c, w) PROVE TypeOK'
  <2>1. account[c] \in Users /\ response[c][w].voice \in Voice
    BY <1>6 DEF JoinCall, Wired, Handling
  <2>2. response' \in [Clients -> [Workers -> Answers]]
    BY <1>0, <1>6, <2>1 DEF JoinCall
  <2> QED
    BY <1>6, <2>1, <2>2 DEF JoinCall
<1>7. ASSUME NEW c \in Clients, NEW w \in Workers, DeleteVoiceSession(c, w) PROVE TypeOK'
  <2>1. account[c] \in Users
    BY <1>7 DEF DeleteVoiceSession, Wired, Handling
  <2>2. response' \in [Clients -> [Workers -> Answers]]
    BY <1>0, <1>7 DEF DeleteVoiceSession
  <2> QED
    BY <1>7, <2>1, <2>2 DEF DeleteVoiceSession, Ids
<1>8. ASSUME NEW c \in Clients, Logout(c) PROVE TypeOK'
  BY <1>8 DEF Logout, DatagramsAfter
<1>9. ASSUME NEW c \in Clients, NEW w \in Workers,
             Enable(c, w) \/ EnableSendFails(c, w) \/ EnableStreamFails(c, w)
      PROVE TypeOK'
  <2>1. response' \in [Clients -> [Workers -> Answers]]
    BY <1>0, <1>9 DEF Enable, EnableSendFails, EnableStreamFails
  <2>2. /\ response[c][w].voice \in Voice
        /\ DatagramsOf(c, w) \in SUBSET (Requests \X Endpoints)
    BY <1>9, DatagramsOfType DEF Enable, EnableSendFails, EnableStreamFails
  <2> QED
    BY <1>9, <2>1, <2>2 DEF Enable, EnableSendFails, EnableStreamFails
<1>10. ASSUME NEW c \in Clients, NEW w \in Workers, Disable(c, w) PROVE TypeOK'
  <2>1. response' \in [Clients -> [Workers -> Answers]]
    BY <1>0, <1>10 DEF Disable
  <2> QED
    BY <1>10, <2>1 DEF Disable
<1>11. ASSUME NEW r \in Requests, NEW e \in Endpoints, HandleOtp(r, e) PROVE TypeOK'
  BY <1>11 DEF HandleOtp, Ids
<1>12. ASSUME NEW r \in Requests, NEW e \in Endpoints, LoseOtp(r, e) PROVE TypeOK'
  BY <1>12 DEF LoseOtp
<1>13. CASE UNCHANGED vars
  BY <1>13 DEF vars
<1> QED
  BY <1>1, <1>2, <1>3, <1>4, <1>5, <1>6, <1>7, <1>8, <1>9, <1>10, <1>11, <1>12, <1>13
  DEF Next, Request, Handle, Receive

-----------------------------------------------------------------------------
\* What a step of worker w does to its client's wiring.
LEMMA BecomesWired ==
  ASSUME TypeOK, Wired, NEW c \in Clients, NEW w \in Workers,
         NEW t \in {"none", "joined", "left", "error"} \cup Handling,
         NEW v \in Voice \cup {NoVoice},
         Becomes(c, w, t, v),
         UNCHANGED <<account, endpoint>>,
         endpoint[c] # NoEndpoint,
         t = "none" => v = NoVoice,
         t \in Handling => account[c] # NoUser,
         t \in {"joining", "joined"} => v \in Voice
  PROVE  Wired'
<1>1. /\ response'[c][w].type = t /\ response'[c][w].voice = v
      /\ response'[c][w] = Answer(t, v)
      /\ \A x \in Workers \ {w} : response'[c][x] = response[c][x]
      /\ \A d \in Clients \ {c} : response'[d] = response[d]
  BY BecomesFacts
<1>2. ASSUME NEW d \in Clients, NEW x \in Workers, d # c \/ x # w
      PROVE  response'[d][x] = response[d][x]
  BY <1>1, <1>2
<1>3. t = "none" => response'[c][w] = NoResponse
  BY <1>1 DEF NoResponse
<1> QED
  BY <1>1, <1>2, <1>3 DEF Wired, NoResponse

LEMMA WiredStep == TypeOK /\ Wired /\ [Next]_vars => Wired'
<1> SUFFICES ASSUME TypeOK, Wired, [Next]_vars PROVE Wired'
  OBVIOUS
<1> USE VoiceRelayAssumption
<1>0. NoResponse.type = "none"
  BY DEF NoResponse, Answer
<1>1. ASSUME NEW c \in Clients, Connect(c) PROVE Wired'
  BY <1>1 DEF Connect, FreeEndpoints, Wired, TypeOK, NoResponse
<1>2. ASSUME NEW c \in Clients, Disconnect(c) PROVE Wired'
  <2>1. /\ \A w \in Workers : response'[c][w] = NoResponse
        /\ account'[c] = NoUser
        /\ \A d \in Clients \ {c} : /\ response'[d] = response[d] /\ account'[d] = account[d]
                                    /\ endpoint'[d] = endpoint[d]
    BY <1>2 DEF Disconnect, TypeOK
  <2> QED
    BY <2>1, <1>0 DEF Wired, NoResponse, Handling
<1>3. ASSUME NEW c \in Clients, NEW u \in Accounts[c], Login(c, u) PROVE Wired'
  BY <1>3 DEF Login, Wired, TypeOK, NoResponse
<1>4. ASSUME NEW c \in Clients, NEW w \in Workers, RequestCall(c, w) PROVE Wired'
  <2>1. PICK s \in VoiceSessions, r \in Requests :
          /\ account[c] \in Users
          /\ [session |-> s, request |-> r] \in Voice
          /\ Becomes(c, w, "joining", [session |-> s, request |-> r])
          /\ UNCHANGED <<account, endpoint>>
    BY <1>4, RequestCallFacts DEF client_vars
  <2>2. endpoint[c] # NoEndpoint /\ account[c] # NoUser
    BY <2>1 DEF Wired
  <2> QED
    BY <2>1, <2>2, BecomesWired DEF Handling
<1>5. ASSUME NEW c \in Clients, NEW w \in Workers,
             RequestCallThrows(c, w) \/ LeaveCallThrows(c, w) \/ LeaveCall(c, w)
      PROVE Wired'
  <2>1. /\ Becomes(c, w, "error", NoVoice) \/ Becomes(c, w, "leaving", NoVoice)
        /\ UNCHANGED <<account, endpoint>>
        /\ account[c] # NoUser
    BY <1>5 DEF RequestCallThrows, LeaveCallThrows, LeaveCall, Idle, client_vars
  <2>2. endpoint[c] # NoEndpoint
    BY <2>1 DEF Wired
  <2> QED
    BY <2>1, <2>2, BecomesWired DEF Handling
<1>6. ASSUME NEW c \in Clients, NEW w \in Workers,
             Handle(c, w) \/ Receive(c, w)
      PROVE Wired'
  <2>1. /\ endpoint[c] # NoEndpoint
        /\ response[c][w].type = "joining" => response[c][w].voice \in Voice
    BY <1>6 DEF Handle, Receive, JoinCall, JoinCallThrows, DeleteVoiceSession, Enable,
                EnableSendFails, EnableStreamFails, Disable, Wired
  <2>2. UNCHANGED <<account, endpoint>>
    BY <1>6 DEF Handle, Receive, JoinCall, JoinCallThrows, DeleteVoiceSession, Enable,
                EnableSendFails, EnableStreamFails, Disable, server_vars, client_vars
  <2>3. \E t \in {"none", "joined", "left", "error"}, v \in Voice \cup {NoVoice} :
          /\ Becomes(c, w, t, v)
          /\ t = "none" => v = NoVoice
          /\ t \in {"joining", "joined"} => v \in Voice
    <3>1. CASE JoinCall(c, w)
      BY <3>1, <2>1 DEF JoinCall
    <3>2. CASE JoinCallThrows(c, w)
      BY <3>2 DEF JoinCallThrows
    <3>3. CASE DeleteVoiceSession(c, w)
      BY <3>3 DEF DeleteVoiceSession
    <3>4. CASE Receive(c, w)
      BY <3>4 DEF Receive, Enable, EnableSendFails, EnableStreamFails, Disable
    <3> QED
      BY <1>6, <3>1, <3>2, <3>3, <3>4 DEF Handle
  <2> QED
    BY <2>1, <2>2, <2>3, BecomesWired DEF Handling
<1>7. ASSUME NEW c \in Clients, Logout(c) PROVE Wired'
  <2>1. /\ \A w \in Workers : response[c][w].type \notin Handling
        /\ UNCHANGED <<response, endpoint>>
        /\ account' = [account EXCEPT ![c] = NoUser]
    BY <1>7 DEF Logout, Idle, Handled
  <2> QED
    BY <2>1 DEF Wired, TypeOK, NoResponse
<1>8. ASSUME NEW r \in Requests, NEW e \in Endpoints, HandleOtp(r, e) \/ LoseOtp(r, e)
      PROVE Wired'
  BY <1>8 DEF HandleOtp, LoseOtp, client_vars, Wired, NoResponse
<1>9. CASE UNCHANGED vars
  BY <1>9 DEF vars, client_vars, Wired, NoResponse
<1> QED
  BY <1>1, <1>2, <1>3, <1>4, <1>5, <1>6, <1>7, <1>8, <1>9 DEF Next, Request

-----------------------------------------------------------------------------
(* The two ends, while calls come one by one. *)

\* A client that a step leaves alone agrees after it.
LEMMA FrameAgrees ==
  ASSUME TypeOK, Wired, NEW d \in Clients, ClientAgrees(d),
         UNCHANGED <<response[d], account[d], enabled[d], held[d], failed[d]>>,
         account[d] \in joined' <=> account[d] \in joined,
         account[d] \in Users /\ sessions[account[d]] # NoSession =>
           VoiceOf(account[d])' = VoiceOf(account[d])
  PROVE  ClientAgrees(d)'
<1> USE VoiceRelayAssumption
<1>1. ASSUME NEW w \in Workers, response[d][w].type \in {"joining", "joined"}
      PROVE  VoiceOf(account[d])' = VoiceOf(account[d])
  <2>1. response[d][w].voice \in Voice /\ response[d][w].voice = VoiceOf(account[d])
    BY <1>1 DEF Wired, ClientAgrees
  <2>2. account[d] \in Users
    BY <1>1 DEF ClientAgrees, TypeOK
  <2> QED
    BY <2>1, <2>2, VoiceOfFields
<1>2. ASSUME account[d] \in joined, held[d] \in Voice, held[d] = VoiceOf(account[d])
      PROVE  VoiceOf(account[d])' = VoiceOf(account[d])
  BY <1>2, VoiceOfFields DEF TypeOK
<1>3. account'[d] = account[d]
  OBVIOUS
<1> QED
  BY <1>1, <1>2, <1>3 DEF ClientAgrees

\* A step of client c that touches the voice of its own user alone.
LEMMA OwnStep ==
  ASSUME TypeOK, Wired, Agree, NEW c \in Clients, account[c] \in Users,
         UNCHANGED account,
         \A d \in Clients \ {c} :
           UNCHANGED <<response[d], enabled[d], held[d], failed[d]>>,
         joined' \subseteq joined \cup {account[c]},
         joined \subseteq joined' \cup {account[c]},
         \A v \in Users \ {account[c]} :
           /\ sessions'[v] = sessions[v]
           /\ sessions[v] # NoSession =>
                /\ VoiceOf(v)' = VoiceOf(v)
                /\ sessions[v] # sessions'[account[c]],
         ClientAgrees(c)'
  PROVE  Agree'
<1>1. Apart'
  BY DEF Agree, Apart
<1>2. ASSUME NEW d \in Clients \ {c} PROVE ClientAgrees(d)'
  <2>1. account[d] # account[c]
    BY VoiceRelayAssumption DEF Agree, Apart
  <2>2. ClientAgrees(d)
    BY DEF Agree
  <2>3. account[d] \in joined' <=> account[d] \in joined
    BY <2>1
  <2>4. UNCHANGED <<response[d], account[d], enabled[d], held[d], failed[d]>>
    OBVIOUS
  <2>5. account[d] \in Users /\ sessions[account[d]] # NoSession =>
           VoiceOf(account[d])' = VoiceOf(account[d])
    BY <2>1
  <2> QED
    BY <2>2, <2>3, <2>4, <2>5, FrameAgrees
<1> QED
  BY <1>1, <1>2 DEF Agree

\* A request disturbs the voice of its own user alone.
LEMMA RequestCallAgree ==
  ASSUME IInv, OneByOne, NEW c \in Clients, NEW w \in Workers, RequestCall(c, w)
  PROVE  Agree'
<1> USE VoiceRelayAssumption
<1>0. TypeOK /\ Wired /\ Agree
  BY DEF IInv
<1>1. PICK s \in VoiceSessions, r \in Requests :
        /\ s \in SessionFor(account[c])
        /\ account[c] \in Users
        /\ sessions' = [sessions EXCEPT ![account[c]] = s]
        /\ session_keys' = [session_keys EXCEPT ![s] = r]
        /\ [session |-> s, request |-> r] \in Voice
        /\ Becomes(c, w, "joining", [session |-> s, request |-> r])
  BY <1>0, RequestCallFacts
<1>2. /\ Quiet(c)
      /\ joined' = joined \ {account[c]}
      /\ UNCHANGED <<world, account, endpoint, enabled, held, failed>>
  BY <1>0, RequestCallFacts DEF Idle, OneByOne, client_vars
<1>3. \A v \in Users \ {account[c]} : sessions[v] # NoSession => sessions[v] # s
  BY <1>0, <1>1 DEF SessionFor, FreshSessions, Agree, Apart
<1>4. \A v \in Users \ {account[c]} :
        /\ sessions'[v] = sessions[v]
        /\ sessions[v] # NoSession =>
             /\ VoiceOf(v)' = VoiceOf(v)
             /\ sessions[v] # sessions'[account[c]]
  BY <1>0, <1>1, <1>3 DEF TypeOK, VoiceOf
<1>5. VoiceOf(account[c])' = [session |-> s, request |-> r]
  BY <1>0, <1>1, <1>2 DEF TypeOK, VoiceOf
<1>6. /\ response'[c][w] = Answer("joining", [session |-> s, request |-> r])
      /\ \A x \in Workers \ {w} : response'[c][x] = NoResponse
      /\ \A d \in Clients \ {c} : response'[d] = response[d]
  BY <1>0, <1>1, <1>2, BecomesFacts DEF Handling, Quiet
<1>7. /\ response'[c][w].type = "joining"
      /\ response'[c][w].voice = VoiceOf(account[c])'
      /\ \A x \in Workers \ {w} : response'[c][x].type = "none"
  BY <1>5, <1>6 DEF Answer, NoResponse
<1>8. ClientAgrees(c)'
  BY <1>0, <1>1, <1>2, <1>7 DEF ClientAgrees, VoiceOf
<1> QED
  BY <1>0, <1>1, <1>2, <1>4, <1>6, <1>8, OwnStep

\* The other steps of a handler, and those that begin or end a call without a
\* request for keys, which leave every voice alone but that of a user who leaves.
LEMMA HandleAgree ==
  ASSUME IInv, OneByOne, NEW c \in Clients, NEW w \in Workers,
         \/ JoinCall(c, w) \/ JoinCallThrows(c, w) \/ DeleteVoiceSession(c, w)
  PROVE  Agree'
<1> USE VoiceRelayAssumption
<1>0. TypeOK /\ Wired /\ Agree /\ ClientAgrees(c)
  BY DEF IInv, Agree
<1>1. /\ response[c][w].type \in Handling
      /\ UNCHANGED <<account, enabled, held, failed>>
  BY DEF JoinCall, JoinCallThrows, DeleteVoiceSession, Handling, client_vars
<1>2. account[c] \in Users
  BY <1>0, <1>1 DEF Wired, TypeOK
<1>3. \A x \in Workers \ {w} : response[c][x].type = "none"
  BY <1>0, <1>1 DEF ClientAgrees, Handling
<1>4. account[c] \notin joined
  BY <1>0, <1>1 DEF ClientAgrees, Handling
<1>5. CASE JoinCall(c, w)
  <2>1. /\ response[c][w].voice \in Voice /\ response[c][w].voice = VoiceOf(account[c])
        /\ joined' = joined \cup {account[c]}
        /\ UNCHANGED <<sessions, session_keys>>
    BY <1>0, <1>5 DEF JoinCall, Wired, ClientAgrees
  <2>2. /\ response'[c][w].type = "joined" /\ response'[c][w].voice = response[c][w].voice
        /\ \A x \in Workers \ {w} : response'[c][x] = response[c][x]
        /\ \A d \in Clients \ {c} : response'[d] = response[d]
    BY <1>0, <1>5, <2>1, BecomesFacts DEF JoinCall
  <2>3. \A v : VoiceOf(v)' = VoiceOf(v)
    BY <2>1 DEF VoiceOf
  <2>4. ClientAgrees(c)'
    BY <1>0, <1>1, <1>2, <1>3, <2>1, <2>2, <2>3 DEF ClientAgrees
  <2>5. \A v \in Users \ {account[c]} : sessions[v] # NoSession => sessions[v] # sessions'[account[c]]
    BY <1>0, <1>2, <2>1 DEF Agree, Apart
  <2> QED
    BY <1>0, <1>1, <1>2, <2>1, <2>2, <2>3, <2>4, <2>5, OwnStep
<1>6. CASE JoinCallThrows(c, w)
  <2>1. UNCHANGED <<sessions, session_keys, joined>>
    BY <1>6 DEF JoinCallThrows, server_vars
  <2>2. /\ response'[c][w].type = "error"
        /\ \A x \in Workers \ {w} : response'[c][x] = response[c][x]
        /\ \A d \in Clients \ {c} : response'[d] = response[d]
    BY <1>0, <1>6, BecomesFacts DEF JoinCallThrows
  <2>3. \A v : VoiceOf(v)' = VoiceOf(v)
    BY <2>1 DEF VoiceOf
  <2>4. ClientAgrees(c)'
    BY <1>1, <1>2, <1>3, <1>4, <2>1, <2>2 DEF ClientAgrees
  <2>5. \A v \in Users \ {account[c]} : sessions[v] # NoSession => sessions[v] # sessions'[account[c]]
    BY <1>0, <1>2, <2>1 DEF Agree, Apart
  <2> QED
    BY <1>0, <1>1, <1>2, <2>1, <2>2, <2>3, <2>4, <2>5, OwnStep
<1>7. CASE DeleteVoiceSession(c, w)
  <2>1. /\ joined' = joined
        /\ sessions' = [sessions EXCEPT ![account[c]] = NoSession]
        /\ session_keys' = [session_keys EXCEPT ![sessions[account[c]]] = NoRequest]
    BY <1>7 DEF DeleteVoiceSession
  <2>2. /\ response'[c][w].type = "left"
        /\ \A x \in Workers \ {w} : response'[c][x] = response[c][x]
        /\ \A d \in Clients \ {c} : response'[d] = response[d]
    BY <1>0, <1>7, BecomesFacts DEF DeleteVoiceSession
  <2>3. ClientAgrees(c)'
    BY <1>1, <1>2, <1>3, <1>4, <2>1, <2>2 DEF ClientAgrees
  <2>4. \A v \in Users \ {account[c]} :
          /\ sessions'[v] = sessions[v]
          /\ sessions[v] # NoSession =>
               /\ VoiceOf(v)' = VoiceOf(v)
               /\ sessions[v] # sessions'[account[c]]
    BY <1>0, <1>2, <2>1 DEF TypeOK, VoiceOf, Agree, Apart
  <2> QED
    BY <1>0, <1>1, <1>2, <2>1, <2>2, <2>3, <2>4, OwnStep
<1> QED
  BY <1>5, <1>6, <1>7

\* Requests that make no keys: the user leaves its call, or stays.
LEMMA OtherRequestAgree ==
  ASSUME IInv, OneByOne, NEW c \in Clients, NEW w \in Workers,
         \/ RequestCallThrows(c, w) \/ LeaveCall(c, w) \/ LeaveCallThrows(c, w)
  PROVE  Agree'
<1> USE VoiceRelayAssumption
<1>0. TypeOK /\ Wired /\ Agree /\ ClientAgrees(c)
  BY DEF IInv, Agree
<1>1. /\ Quiet(c) /\ account[c] \in Users
      /\ UNCHANGED <<account, enabled, held, failed, sessions, session_keys>>
      /\ \/ joined' = joined /\ Becomes(c, w, "error", NoVoice)
         \/ joined' = joined \ {account[c]} /\ Becomes(c, w, "error", NoVoice)
         \/ joined' = joined \ {account[c]} /\ Becomes(c, w, "leaving", NoVoice)
  BY <1>0 DEF RequestCallThrows, LeaveCall, LeaveCallThrows, Idle, OneByOne, client_vars,
              server_vars, TypeOK
<1>2. /\ \/ joined' = joined /\ response'[c][w].type = "error"
         \/ joined' = joined \ {account[c]} /\ response'[c][w].type \in {"error", "leaving"}
      /\ \A x \in Workers \ {w} : response'[c][x] = response[c][x]
      /\ \A d \in Clients \ {c} : response'[d] = response[d]
  BY <1>0, <1>1, BecomesFacts DEF Handling
<1>3. \A x \in Workers : response[c][x].type = "none"
  BY <1>1 DEF Quiet, NoResponse, Answer
<1>4. \A v : VoiceOf(v)' = VoiceOf(v)
  BY <1>1 DEF VoiceOf
<1>5. ClientAgrees(c)'
  BY <1>0, <1>1, <1>2, <1>3, <1>4 DEF ClientAgrees
<1>6. \A v \in Users \ {account[c]} : sessions[v] # NoSession => sessions[v] # sessions'[account[c]]
  BY <1>0, <1>1 DEF Agree, Apart
<1> QED
  BY <1>0, <1>1, <1>2, <1>4, <1>5, <1>6, OwnStep

\* A client that reads a response makes the two ends agree, or has failed.
LEMMA ReceiveAgree ==
  ASSUME IInv, OneByOne, NEW c \in Clients, NEW w \in Workers, Receive(c, w)
  PROVE  Agree'
<1> USE VoiceRelayAssumption
<1>0. TypeOK /\ Wired /\ Agree /\ ClientAgrees(c)
  BY DEF IInv, Agree
<1>1. /\ response[c][w].type \in {"joined", "left", "error"}
      /\ UNCHANGED <<account, sessions, session_keys, joined>>
      /\ Becomes(c, w, "none", NoVoice)
  BY DEF Receive, Enable, EnableSendFails, EnableStreamFails, Disable, server_vars
<1>2. account[c] \in Users
  BY <1>0, <1>1 DEF ClientAgrees, TypeOK
<1>3. \A x \in Workers \ {w} : response[c][x].type = "none"
  BY <1>0, <1>1 DEF ClientAgrees
<1>4. /\ response'[c][w].type = "none"
      /\ \A x \in Workers \ {w} : response'[c][x] = response[c][x]
      /\ \A d \in Clients \ {c} : response'[d] = response[d]
  BY <1>0, <1>1, BecomesFacts
<1>5. \A v : VoiceOf(v)' = VoiceOf(v)
  BY <1>1 DEF VoiceOf
<1>6. \A d \in Clients \ {c} : UNCHANGED <<enabled[d], held[d], failed[d]>>
  BY <1>0 DEF Receive, Enable, EnableSendFails, EnableStreamFails, Disable, TypeOK
<1>7. account[c] \in joined /\ ~failed'[c] =>
        enabled'[c] /\ held'[c] \in Voice /\ held'[c] = VoiceOf(account[c])
  <2>1. CASE Enable(c, w)
    BY <1>0, <2>1 DEF Enable, TypeOK, Wired, ClientAgrees
  <2>2. CASE EnableSendFails(c, w) \/ EnableStreamFails(c, w)
    BY <1>0, <2>2 DEF EnableSendFails, EnableStreamFails, TypeOK
  <2>3. CASE Disable(c, w)
    <3>1. CASE account[c] \in joined
      <4>1. \A x \in Workers : response[c][x].type # "joined"
        BY <2>3, <1>3 DEF Disable
      <4>2. response[c][w].type = "error"
        BY <1>0, <2>3, <3>1 DEF Disable, ClientAgrees
      <4> QED
        BY <1>0, <2>3, <3>1, <4>1, <4>2 DEF Disable, TypeOK, ClientAgrees
    <3> QED
      BY <3>1
  <2> QED
    BY <2>1, <2>2, <2>3 DEF Receive
<1>8. ClientAgrees(c)'
  BY <1>1, <1>2, <1>3, <1>4, <1>5, <1>7 DEF ClientAgrees, VoiceOf
<1>9. \A v \in Users \ {account[c]} : sessions[v] # NoSession => sessions[v] # sessions'[account[c]]
  BY <1>0, <1>1, <1>2 DEF Agree, Apart
<1> QED
  BY <1>0, <1>1, <1>2, <1>4, <1>5, <1>6, <1>8, <1>9, OwnStep

\* A user who logs in is in no call.
LEMMA LoginAgree ==
  ASSUME IInv, OneByOne, NEW c \in Clients, NEW u \in Accounts[c], Login(c, u)
  PROVE  Agree'
<1> USE VoiceRelayAssumption
<1>0. TypeOK /\ Wired /\ Agree /\ ClientAgrees(c)
  BY DEF IInv, Agree
<1>1. /\ UNCHANGED <<joined, sessions, session_keys, enabled, held, failed, response>>
      /\ account' = [account EXCEPT ![c] = u]
      /\ account[c] = NoUser
      /\ u \in Users
  BY DEF Login, server_vars
<1>2. u \notin joined /\ \A d \in Clients : account[d] # u
  BY <1>0 DEF Login, OneByOne, Agree, Apart
<1>3. account'[c] = u /\ \A d \in Clients \ {c} : account'[d] = account[d]
  BY <1>0, <1>1 DEF TypeOK
<1>4. Apart'
  <2>1. \A v \in joined : \E d \in Clients \ {c} : account[d] = v
    BY <1>0, <1>1 DEF TypeOK, Agree, Apart
  <2>2. \A v \in joined' : \E d \in Clients : account'[d] = v
    BY <2>1, <1>1, <1>3
  <2>3. \A d, e \in Clients : account'[d] = account'[e] /\ account'[d] # NoUser => d = e
    BY <1>0, <1>2, <1>3 DEF Agree, Apart
  <2> QED
    BY <1>0, <1>1, <2>2, <2>3 DEF Agree, Apart
<1>5. \A v : VoiceOf(v)' = VoiceOf(v)
  BY <1>1 DEF VoiceOf
<1>6. ASSUME NEW d \in Clients \ {c} PROVE ClientAgrees(d)'
  <2>1. ClientAgrees(d)
    BY <1>0 DEF Agree
  <2>2. UNCHANGED <<response[d], account[d], enabled[d], held[d], failed[d]>>
    BY <1>1, <1>3
  <2> QED
    BY <1>0, <1>1, <1>5, <2>1, <2>2, FrameAgrees
<1>7. ClientAgrees(c)'
  BY <1>0, <1>1, <1>2, <1>3 DEF ClientAgrees
<1> QED
  BY <1>4, <1>6, <1>7 DEF Agree

\* A user who is gone from its client is in no call.
LEMMA GoneAgree ==
  ASSUME IInv, OneByOne, NEW c \in Clients, Logout(c) \/ Disconnect(c)
  PROVE  Agree'
<1> USE VoiceRelayAssumption
<1>0. TypeOK /\ Wired /\ Agree /\ ClientAgrees(c)
  BY DEF IInv, Agree
<1>1. /\ UNCHANGED <<sessions, session_keys>>
      /\ joined' = joined \ {account[c]}
      /\ account' = [account EXCEPT ![c] = NoUser]
      /\ \A w \in Workers : response'[c][w] = NoResponse
      /\ \A d \in Clients \ {c} :
           UNCHANGED <<response[d], enabled[d], held[d], failed[d]>>
  BY <1>0 DEF Logout, Disconnect, Idle, OneByOne, Quiet, TypeOK
<1>2. account'[c] = NoUser /\ \A d \in Clients \ {c} : account'[d] = account[d]
  BY <1>0, <1>1 DEF TypeOK
<1>3. Apart'
  <2>1. \A v \in joined' : \E d \in Clients \ {c} : account[d] = v
    BY <1>0, <1>1 DEF Agree, Apart
  <2>2. \A v \in joined' : \E d \in Clients : account'[d] = v
    BY <2>1, <1>2
  <2>3. \A d, e \in Clients : account'[d] = account'[e] /\ account'[d] # NoUser => d = e
    BY <1>0, <1>2 DEF Agree, Apart
  <2> QED
    BY <1>0, <1>1, <2>2, <2>3 DEF Agree, Apart
<1>4. \A v : VoiceOf(v)' = VoiceOf(v)
  BY <1>1 DEF VoiceOf
<1>5. ASSUME NEW d \in Clients \ {c} PROVE ClientAgrees(d)'
  <2>1. ClientAgrees(d)
    BY <1>0 DEF Agree
  <2>2. UNCHANGED <<response[d], account[d], enabled[d], held[d], failed[d]>>
    BY <1>1, <1>2
  <2>3. account[d] \in joined' <=> account[d] \in joined
    BY <1>0, <1>1 DEF TypeOK, Agree, Apart
  <2> QED
    BY <1>0, <1>4, <2>1, <2>2, <2>3, FrameAgrees
<1>6. ClientAgrees(c)'
  <2>1. NoUser \notin joined' /\ \A w \in Workers : response'[c][w].type = "none"
    BY <1>0, <1>1 DEF TypeOK, NoResponse, Answer
  <2> QED
    BY <1>2, <2>1 DEF ClientAgrees
<1> QED
  BY <1>3, <1>5, <1>6 DEF Agree

\* The network changes neither end's keys.
LEMMA StutterAgree ==
  ASSUME IInv, OneByOne,
         UNCHANGED <<joined, sessions, session_keys, account, enabled, held, failed, response>>
  PROVE  Agree'
<1>0. TypeOK /\ Wired /\ Agree
  BY DEF IInv
<1>1. Apart'
  BY <1>0 DEF Agree, Apart
<1>2. ASSUME NEW d \in Clients PROVE ClientAgrees(d)'
  <2>1. ClientAgrees(d) /\ \A v : VoiceOf(v)' = VoiceOf(v)
    BY <1>0 DEF Agree, VoiceOf
  <2> QED
    BY <1>0, <2>1, FrameAgrees
<1> QED
  BY <1>1, <1>2 DEF Agree

LEMMA AgreeStep == IInv /\ OneByOne /\ [Next]_vars => Agree'
<1> SUFFICES ASSUME IInv, OneByOne, [Next]_vars PROVE Agree'
  OBVIOUS
<1>1. ASSUME NEW c \in Clients, Request(c) PROVE Agree'
  <2>1. CASE Connect(c)
    BY <2>1, StutterAgree DEF Connect, server_vars
  <2>2. CASE Logout(c) \/ Disconnect(c)
    BY <2>2, GoneAgree
  <2>3. ASSUME NEW u \in Accounts[c], Login(c, u) PROVE Agree'
    BY <2>3, LoginAgree
  <2>4. ASSUME NEW w \in Workers, RequestCall(c, w) PROVE Agree'
    BY <2>4, RequestCallAgree
  <2>5. ASSUME NEW w \in Workers,
               RequestCallThrows(c, w) \/ LeaveCall(c, w) \/ LeaveCallThrows(c, w)
        PROVE Agree'
    BY <2>5, OtherRequestAgree
  <2> QED
    BY <1>1, <2>1, <2>2, <2>3, <2>4, <2>5 DEF Request
<1>2. ASSUME NEW c \in Clients, NEW w \in Workers, Handle(c, w) PROVE Agree'
  BY <1>2, HandleAgree DEF Handle
<1>3. ASSUME NEW c \in Clients, NEW w \in Workers, Receive(c, w) PROVE Agree'
  BY <1>3, ReceiveAgree
<1>4. ASSUME NEW r \in Requests, NEW e \in Endpoints, HandleOtp(r, e) \/ LoseOtp(r, e)
      PROVE Agree'
  BY <1>4, StutterAgree DEF HandleOtp, LoseOtp, server_vars, client_vars
<1>5. CASE UNCHANGED vars
  BY <1>5, StutterAgree DEF vars, server_vars, client_vars
<1> QED
  BY <1>1, <1>2, <1>3, <1>4, <1>5 DEF Next

-----------------------------------------------------------------------------
THEOREM InductiveInvariant == Spec => []IInv
<1>1. IInv /\ [Next]_vars => IInv'
  <2> SUFFICES ASSUME IInv, [Next]_vars PROVE IInv'
    OBVIOUS
  <2>1. world' = world
    <3>1. ASSUME NEW c \in Clients, Request(c) PROVE world' = world
      BY <3>1 DEF Request, Connect, Disconnect, Login, RequestCall, RequestCallThrows,
                  LeaveCall, LeaveCallThrows, Logout
    <3>2. ASSUME NEW c \in Clients, NEW w \in Workers, Handle(c, w) \/ Receive(c, w)
          PROVE world' = world
      BY <3>2 DEF Handle, Receive, JoinCall, JoinCallThrows, DeleteVoiceSession, Enable,
                  EnableSendFails, EnableStreamFails, Disable
    <3>3. ASSUME NEW r \in Requests, NEW e \in Endpoints, HandleOtp(r, e) \/ LoseOtp(r, e)
          PROVE world' = world
      BY <3>3 DEF HandleOtp, LoseOtp
    <3> QED
      BY <3>1, <3>2, <3>3 DEF Next, vars
  <2>2. TypeOK' /\ Wired'
    BY TypeStep, WiredStep DEF IInv
  <2>3. OneByOne' => OneByOne
    BY <2>1 DEF OneByOne
  <2> QED
    BY <2>2, <2>3, AgreeStep DEF IInv
<1> QED
  BY <1>1, InitIInv, PTL DEF Spec

\* Every variable keeps its type: a client that reads an approval has a socket to
\* send its one-time password from, and keys to send it for.
THEOREM TypeCorrect == Spec => []TypeOK
<1>1. IInv => TypeOK
  BY DEF IInv
<1> QED
  BY <1>1, InductiveInvariant, PTL

\* Whatever the network does to datagrams and whichever enables throw, a client in a
\* call that has read its response and told no failure holds the session and the
\* keys that the server has for its user, as long as its calls do not overlap and no
\* user is on two clients.
THEOREM VoiceAlwaysDecrypts == Spec => []VoiceDecrypts
<1>1. IInv => VoiceDecrypts
  <2> SUFFICES ASSUME IInv, OneByOne, NEW c \in Clients, Settled(c)
               PROVE  /\ enabled[c]
                      /\ held[c].session = sessions[account[c]]
                      /\ held[c].request = session_keys[sessions[account[c]]]
    BY DEF VoiceDecrypts
  <2>1. ClientAgrees(c)
    BY DEF IInv, Agree
  <2>2. enabled[c] /\ held[c] = VoiceOf(account[c])
    BY <2>1 DEF Settled, Quiet, NoResponse, Answer, ClientAgrees
  <2> QED
    BY <2>2, VoiceOfFields
<1> QED
  BY <1>1, InductiveInvariant, PTL
=============================================================================
