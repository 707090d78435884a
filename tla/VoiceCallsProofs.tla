--------------------------- MODULE VoiceCallsProofs ---------------------------
(***************************************************************************)
(* Proofs about VoiceCalls, for every set of users, channels and sessions, *)
(* whether statements fail or not, and however many sessions a user has.   *)
(***************************************************************************)
EXTENDS VoiceCalls, TLAPS

\* The part of the type invariant that voice_manager's methods write.
ManagerTypeOK ==
  /\ voice_channels \in [Channels -> CallIds \cup {NoCall}]
  /\ voice_states \in [Channels -> [Users -> StateType \cup {"none"}]]
  /\ joined \in [Users -> Channels \cup {NoChannel}]
  /\ open_calls \in [CallIds -> Channels \cup {NoChannel}]
  /\ participants \in [CallIds -> SUBSET Users]

\* Each outcome of leave_voice_channel takes the user out of its channel and
\* leaves the maps and the tables in step with each other.
LEMMA LeaveFacts ==
  ASSUME ManagerTypeOK, JoinedAgrees, OpenRowsAreActiveCalls, NEW u \in Users,
         LeaveReturns(u) \/ LeaveThrows(u)
  PROVE  /\ joined' = [joined EXCEPT ![u] = NoChannel]
         /\ participants' = participants
         /\ ManagerTypeOK'
         /\ JoinedAgrees'
         /\ OpenRowsAreActiveCalls'
<1> USE VoiceCallsAssumption DEF ManagerTypeOK, StateType
<1>1. CASE LeaveOthersBehind(u)
  <2> USE <1>1 DEF LeaveOthersBehind
  <2>1. ManagerTypeOK'
    OBVIOUS
  <2>2. JoinedAgrees'
    BY DEF JoinedAgrees, Active
  <2>3. OpenRowsAreActiveCalls'
    BY DEF OpenRowsAreActiveCalls
  <2> QED
    BY <2>1, <2>2, <2>3
<1>2. CASE LeaveLast(u)
  <2> DEFINE c == joined[u]
             k == voice_channels[c]
  <2> USE <1>2 DEF LeaveLast
  <2>1. c \in Channels /\ k \in CallIds
    BY DEF JoinedAgrees, Active
  <2>2. ManagerTypeOK'
    BY <2>1 DEF NoStates
  <2>3. JoinedAgrees'
    <3> SUFFICES ASSUME NEW v \in Users, NEW d \in Channels
                 PROVE /\ joined'[v] = d <=> voice_states'[d][v] = "connected"
                       /\ joined'[v] = d => /\ voice_channels'[d] # NoCall
                                            /\ v \in participants[voice_channels'[d]]
      BY DEF JoinedAgrees, Active
    <3>1. CASE d = c
      BY <3>1, <2>1 DEF NoStates, OthersJoined
    <3>2. CASE d # c
      BY <3>2, <2>1 DEF JoinedAgrees, Active
    <3> QED
      BY <3>1, <3>2
  <2>4. OpenRowsAreActiveCalls'
    BY <2>1 DEF OpenRowsAreActiveCalls
  <2> QED
    BY <2>2, <2>3, <2>4
<1>3. CASE LeaveCloseFails(u)
  <2> USE <1>3 DEF LeaveCloseFails
  <2>1. ManagerTypeOK'
    OBVIOUS
  <2>2. JoinedAgrees'
    BY DEF JoinedAgrees, Active
  <2>3. OpenRowsAreActiveCalls'
    BY DEF OpenRowsAreActiveCalls
  <2> QED
    BY <2>1, <2>2, <2>3
<1>4. CASE LeaveNotConnected(u)
  <2> USE <1>4 DEF LeaveNotConnected, manager_vars
  <2>1. joined' = [joined EXCEPT ![u] = NoChannel]
    OBVIOUS
  <2>2. JoinedAgrees' /\ OpenRowsAreActiveCalls'
    BY DEF JoinedAgrees, OpenRowsAreActiveCalls, Active
  <2> QED
    BY <2>1, <2>2
<1> QED
  BY <1>1, <1>2, <1>3, <1>4 DEF LeaveReturns, LeaveThrows

-----------------------------------------------------------------------------
(* The invariant of every instance. *)

\* A handler that is past its first method knows its channel.
HasTarget ==
  \A s \in Sessions :
    pc[s] \in Methods \ {"delete_voice_session"} => target[s] \in Channels

IInv ==
  /\ TypeOK
  /\ HasTarget
  /\ JoinedAgrees
  /\ OpenRowsAreActiveCalls
  /\ NoGhostParticipant

LEMMA InitIInv == Init => IInv
<1> SUFFICES ASSUME Init PROVE IInv
  OBVIOUS
<1> USE VoiceCallsAssumption DEF Init
<1>1. TypeOK
  BY DEF TypeOK, NoStates
<1>2. JoinedAgrees
  BY DEF JoinedAgrees, NoStates
<1>3. OpenRowsAreActiveCalls
  BY DEF OpenRowsAreActiveCalls
<1>4. NoGhostParticipant
  BY DEF NoGhostParticipant
<1> QED
  BY <1>1, <1>2, <1>3, <1>4 DEF IInv, HasTarget, Methods

\* A step that leaves the manager's state alone keeps what is said of it alone.
LEMMA ManagerUnchanged ==
  ASSUME JoinedAgrees, OpenRowsAreActiveCalls, UNCHANGED manager_vars
  PROVE  JoinedAgrees' /\ OpenRowsAreActiveCalls'
BY DEF JoinedAgrees, OpenRowsAreActiveCalls, manager_vars, Active

\* A step of session s that leaves its user in no call, or keeps s online, and
\* moves no other user, keeps NoGhostParticipant.
LEMMA GhostStep ==
  ASSUME TypeOK, NoGhostParticipant, NEW s \in Sessions, NEW p,
         pc' = [pc EXCEPT ![s] = p],
         \A v \in Users : v # UserOf[s] => joined'[v] = joined[v],
         joined'[UserOf[s]] = NoChannel \/ p # "offline"
  PROVE  NoGhostParticipant'
<1> SUFFICES ASSUME NEW u \in Users, \A t \in Sessions : UserOf[t] = u => pc'[t] = "offline"
             PROVE joined'[u] = NoChannel
  BY DEF NoGhostParticipant
<1>1. CASE u = UserOf[s]
  BY <1>1, VoiceCallsAssumption DEF TypeOK
<1>2. CASE u # UserOf[s]
  <2>1. \A t \in Sessions : UserOf[t] = u => pc[t] = "offline"
    BY <1>2, VoiceCallsAssumption DEF TypeOK
  <2> QED
    BY <1>2, <2>1 DEF NoGhostParticipant
<1> QED
  BY <1>1, <1>2

\* The new call of init_voice_channel.
LEMMA InitVoiceChannelFacts ==
  ASSUME IInv, NEW s \in Sessions, InitVoiceChannel(s)
  PROVE  \E k \in FreshCalls :
           /\ voice_channels' = [voice_channels EXCEPT ![target[s]] = k]
           /\ open_calls' = [open_calls EXCEPT ![k] = target[s]]
           /\ participants' = [participants EXCEPT ![k] = {}]
           /\ call_details' = [call_details EXCEPT ![s] = k]
BY DEF InitVoiceChannel

LEMMA StepIInv == IInv /\ [Next]_vars => IInv'
<1> SUFFICES ASSUME IInv, [Next]_vars PROVE IInv'
  OBVIOUS
<1> USE VoiceCallsAssumption
<1> DEFINE Locals == /\ voice_sessions' \in SUBSET Users
                     /\ mutex' \in Sessions \cup {NoSession}
                     /\ pc' \in [Sessions -> Methods \cup {"offline", "idle"}]
                     /\ handler' \in [Sessions -> Handlers \cup {"none"}]
                     /\ target' \in [Sessions -> Channels \cup {NoChannel}]
                     /\ call_details' \in [Sessions -> CallIds \cup {NoCall}]
<1>0. /\ TypeOK /\ HasTarget /\ JoinedAgrees
      /\ OpenRowsAreActiveCalls /\ NoGhostParticipant /\ ManagerTypeOK
  BY DEF IInv, TypeOK, ManagerTypeOK
<1>a. ASSUME ManagerTypeOK', Locals PROVE TypeOK'
  BY <1>a DEF TypeOK, ManagerTypeOK
<1>b. ASSUME UNCHANGED manager_vars
      PROVE  ManagerTypeOK' /\ JoinedAgrees' /\ OpenRowsAreActiveCalls' /\ joined' = joined
  BY <1>0, <1>b, ManagerUnchanged DEF ManagerTypeOK, manager_vars
<1>c. ASSUME NEW s \in Sessions, LeaveReturns(UserOf[s]) \/ LeaveThrows(UserOf[s])
      PROVE  /\ ManagerTypeOK' /\ JoinedAgrees' /\ OpenRowsAreActiveCalls'
             /\ joined'[UserOf[s]] = NoChannel
             /\ \A v \in Users : v # UserOf[s] => joined'[v] = joined[v]
  BY <1>0, <1>c, LeaveFacts DEF ManagerTypeOK
<1>1. ASSUME NEW s \in Sessions, Authenticate(s) PROVE IInv'
  <2> USE <1>1 DEF Authenticate
  <2>1. Locals /\ HasTarget'
    BY <1>0 DEF TypeOK, HasTarget, local_vars, Methods
  <2>2. NoGhostParticipant'
    BY <1>0, <1>b, GhostStep
  <2> QED
    BY <1>a, <1>b, <2>1, <2>2 DEF IInv
<1>2. ASSUME NEW s \in Sessions, CleanUserSession(s) PROVE IInv'
  <2> USE <1>2 DEF CleanUserSession
  <2>1. Locals /\ HasTarget'
    BY <1>0 DEF TypeOK, HasTarget, local_vars, Methods
  <2>2. NoGhostParticipant'
    BY <1>0, <1>c, GhostStep
  <2> QED
    BY <1>a, <1>c, <2>1, <2>2 DEF IInv
<1>3. ASSUME NEW s \in Sessions, NEW c \in Channels,
             NEW h \in {"call_request", "join_call_request"}, RequestCall(s, h, c)
      PROVE IInv'
  <2> USE <1>3 DEF RequestCall
  <2>1. Locals /\ HasTarget'
    BY <1>0 DEF TypeOK, HasTarget, Methods, Handlers
  <2>2. NoGhostParticipant'
    BY <1>0, <1>c, GhostStep
  <2> QED
    BY <1>a, <1>c, <2>1, <2>2 DEF IInv
<1>4. ASSUME NEW s \in Sessions, LeaveCall(s) PROVE IInv'
  <2> USE <1>4 DEF LeaveCall
  <2>1. Locals /\ HasTarget'
    BY <1>0 DEF TypeOK, HasTarget, Methods, Handlers
  <2>2. NoGhostParticipant'
    BY <1>0, <1>c, GhostStep
  <2> QED
    BY <1>a, <1>c, <2>1, <2>2 DEF IInv
<1>5. ASSUME NEW s \in Sessions, LeaveCallThrows(s) PROVE IInv'
  <2> USE <1>5 DEF LeaveCallThrows
  <2>1. Locals /\ HasTarget'
    BY <1>0 DEF TypeOK, HasTarget, local_vars
  <2>2. NoGhostParticipant'
    BY <1>0, <1>c DEF NoGhostParticipant
  <2> QED
    BY <1>a, <1>c, <2>1, <2>2 DEF IInv
<1>6. ASSUME NEW s \in Sessions, CreateVoiceSession(s) PROVE IInv'
  <2> USE <1>6 DEF CreateVoiceSession, Goto
  <2>1. Locals /\ HasTarget'
    BY <1>0 DEF TypeOK, HasTarget, local_vars, Methods
  <2>2. NoGhostParticipant'
    BY <1>0, <1>b, GhostStep
  <2> QED
    BY <1>a, <1>b, <2>1, <2>2 DEF IInv
<1>7. ASSUME NEW s \in Sessions, InitVoiceChannel(s) PROVE IInv'
  <2> DEFINE c == target[s]
  <2>1. c \in Channels /\ voice_channels[c] = NoCall
    BY <1>0, <1>7 DEF InitVoiceChannel, HasTarget, Methods, Active
  <2>2. PICK k \in FreshCalls :
          /\ voice_channels' = [voice_channels EXCEPT ![c] = k]
          /\ open_calls' = [open_calls EXCEPT ![k] = c]
          /\ participants' = [participants EXCEPT ![k] = {}]
          /\ call_details' = [call_details EXCEPT ![s] = k]
    BY <1>7, InitVoiceChannelFacts
  <2>3. /\ k \in CallIds /\ open_calls[k] = NoChannel
        /\ \A d \in Channels : voice_channels[d] # k
    BY DEF FreshCalls
  <2>4. /\ joined' = joined
        /\ \A u \in Users : voice_states'[c][u] \in {"pending", "none"}
        /\ \A d \in Channels \ {c} : voice_states'[d] = voice_states[d]
    BY <1>0, <1>7, <2>1 DEF InitVoiceChannel, ManagerTypeOK
  <2>5. ManagerTypeOK'
    <3>1. voice_states' \in [Channels -> [Users -> StateType \cup {"none"}]]
      BY <1>0, <1>7, <2>1 DEF InitVoiceChannel, ManagerTypeOK, StateType
    <3> QED
      BY <1>0, <2>1, <2>2, <2>3, <2>4, <3>1 DEF ManagerTypeOK
  <2>6. Locals /\ HasTarget'
    <3>1. /\ pc' = [pc EXCEPT ![s] = "join_voice_channel"]
          /\ UNCHANGED <<voice_sessions, mutex, handler, target>>
      BY <1>7 DEF InitVoiceChannel
    <3>2. Locals
      BY <1>0, <2>2, <2>3, <3>1 DEF TypeOK, Methods
    <3> QED
      BY <1>0, <2>1, <3>1, <3>2 DEF TypeOK, HasTarget
  <2>7. JoinedAgrees'
    <3> SUFFICES ASSUME NEW u \in Users, NEW d \in Channels
                 PROVE /\ joined[u] = d <=> voice_states'[d][u] = "connected"
                       /\ joined[u] = d => /\ voice_channels'[d] # NoCall
                                           /\ u \in participants'[voice_channels'[d]]
      BY <2>4 DEF JoinedAgrees, Active
    <3>1. CASE d = c
      BY <1>0, <2>1, <2>4, <3>1 DEF JoinedAgrees, Active
    <3>2. CASE d # c
      BY <1>0, <2>1, <2>2, <2>3, <2>4, <3>2 DEF JoinedAgrees, Active, ManagerTypeOK
    <3> QED
      BY <3>1, <3>2
  <2>8. OpenRowsAreActiveCalls'
    BY <1>0, <2>1, <2>2, <2>3 DEF OpenRowsAreActiveCalls, ManagerTypeOK
  <2>9. NoGhostParticipant'
    BY <1>0, <1>7, <2>4, GhostStep DEF InitVoiceChannel
  <2> QED
    BY <1>a, <2>5, <2>6, <2>7, <2>8, <2>9 DEF IInv
<1>8. ASSUME NEW s \in Sessions, InitVoiceChannelThrows(s) \/ JoinVoiceChannelThrows(s)
                               \/ AnnounceCall(s)
      PROVE IInv'
  <2> USE <1>8 DEF InitVoiceChannelThrows, JoinVoiceChannelThrows, AnnounceCall, Respond
  <2>1. Locals /\ HasTarget'
    BY <1>0 DEF TypeOK, HasTarget, Methods
  <2>2. NoGhostParticipant'
    BY <1>0, <1>b, GhostStep
  <2> QED
    BY <1>a, <1>b, <2>1, <2>2 DEF IInv
<1>9. ASSUME NEW s \in Sessions, JoinVoiceChannel(s) PROVE IInv'
  <2> DEFINE u == UserOf[s]
             c == target[s]
             k == voice_channels[c]
  <2>1. /\ u \in Users /\ c \in Channels /\ k \in CallIds /\ k # NoCall
        /\ joined[u] = NoChannel
    BY <1>0, <1>9 DEF JoinVoiceChannel, HasTarget, Methods, Active, TypeOK
  <2>2. /\ participants' = [participants EXCEPT ![k] = @ \cup {u}]
        /\ joined' = [joined EXCEPT ![u] = c]
        /\ voice_states' = [voice_states EXCEPT ![c][u] = "connected"]
        /\ UNCHANGED <<voice_channels, open_calls>>
    BY <1>9 DEF JoinVoiceChannel
  <2>3. ManagerTypeOK'
    BY <1>0, <2>1, <2>2 DEF ManagerTypeOK, StateType
  <2>4. Locals /\ HasTarget'
    BY <1>0, <1>9 DEF JoinVoiceChannel, Goto, local_vars, TypeOK, HasTarget, Methods
  <2>5. JoinedAgrees'
    BY <1>0, <2>1, <2>2 DEF JoinedAgrees, Active, ManagerTypeOK
  <2>6. OpenRowsAreActiveCalls'
    BY <1>0, <2>2 DEF OpenRowsAreActiveCalls
  <2>7. NoGhostParticipant'
    BY <1>0, <1>9, <2>1, <2>2, GhostStep DEF JoinVoiceChannel, Goto, ManagerTypeOK
  <2> QED
    BY <1>a, <2>3, <2>4, <2>5, <2>6, <2>7 DEF IInv
<1>10. ASSUME NEW s \in Sessions, JoinRelocks(s) PROVE IInv'
  <2> USE <1>10 DEF JoinRelocks
  <2>1. Locals /\ HasTarget'
    BY <1>0 DEF TypeOK, HasTarget, local_vars
  <2>2. NoGhostParticipant'
    BY <1>0, <1>b DEF NoGhostParticipant
  <2> QED
    BY <1>a, <1>b, <2>1, <2>2 DEF IInv
<1>11. ASSUME NEW s \in Sessions, GetVoiceStates(s) PROVE IInv'
  <2> USE <1>11 DEF GetVoiceStates, Goto, Respond
  <2>0. /\ \/ pc' = [pc EXCEPT ![s] = "trigger_event"] /\ UNCHANGED local_vars
           \/ /\ pc' = [pc EXCEPT ![s] = "idle"]
              /\ handler' = [handler EXCEPT ![s] = "none"]
              /\ target' = [target EXCEPT ![s] = NoChannel]
              /\ call_details' = [call_details EXCEPT ![s] = NoCall]
    OBVIOUS
  <2>1. Locals /\ HasTarget'
    <3>1. CASE UNCHANGED local_vars
      BY <1>0, <2>0, <3>1 DEF TypeOK, HasTarget, local_vars, Methods
    <3>2. CASE pc' = [pc EXCEPT ![s] = "idle"]
      BY <1>0, <2>0, <3>2 DEF TypeOK, HasTarget, local_vars, Methods
    <3> QED
      BY <2>0, <3>1, <3>2
  <2>2. NoGhostParticipant'
    BY <1>0, <1>b, GhostStep
  <2> QED
    BY <1>a, <1>b, <2>1, <2>2 DEF IInv
<1>12. ASSUME NEW s \in Sessions, DeleteVoiceSession(s) PROVE IInv'
  <2> USE <1>12 DEF DeleteVoiceSession, Respond
  <2>1. Locals /\ HasTarget'
    BY <1>0 DEF TypeOK, HasTarget, Methods
  <2>2. NoGhostParticipant'
    BY <1>0, <1>b, GhostStep
  <2> QED
    BY <1>a, <1>b, <2>1, <2>2 DEF IInv
<1>13. ASSUME NEW expired \in SUBSET Pending, HandleVoiceStates(expired) PROVE IInv'
  <2>1. \A c \in Channels, u \in Users :
          voice_states'[c][u] = "connected" <=> voice_states[c][u] = "connected"
    BY <1>0, <1>13 DEF HandleVoiceStates, Pending
  <2>2. ManagerTypeOK'
    BY <1>0, <1>13 DEF HandleVoiceStates, ManagerTypeOK, StateType
  <2>3. Locals /\ HasTarget'
    BY <1>0, <1>13 DEF HandleVoiceStates, local_vars, TypeOK, HasTarget
  <2>4. JoinedAgrees'
    BY <1>0, <1>13, <2>1 DEF HandleVoiceStates, JoinedAgrees, Active
  <2>5. OpenRowsAreActiveCalls' /\ NoGhostParticipant'
    BY <1>0, <1>13 DEF HandleVoiceStates, OpenRowsAreActiveCalls, NoGhostParticipant
  <2> QED
    BY <1>a, <2>2, <2>3, <2>4, <2>5 DEF IInv
<1>14. CASE UNCHANGED vars
  <2> USE <1>14 DEF vars
  <2>1. Locals /\ HasTarget'
    BY <1>0 DEF TypeOK, HasTarget, local_vars
  <2>2. NoGhostParticipant'
    BY <1>0, <1>b DEF NoGhostParticipant
  <2> QED
    BY <1>a, <1>b, <2>1, <2>2 DEF IInv
<1> QED
  BY <1>1, <1>2, <1>3, <1>4, <1>5, <1>6, <1>7, <1>8, <1>9, <1>10, <1>11, <1>12, <1>13, <1>14
  DEF Next, Begin, Continue

THEOREM InductiveInvariant == Spec => []IInv
<1> QED
  BY InitIInv, StepIInv, PTL DEF Spec

\* Every variable keeps its type.
THEOREM TypeCorrect == Spec => []TypeOK
<1> QED
  BY InductiveInvariant, PTL DEF IInv

\* The map of joined users, the states of the calls and the participants table
\* agree, however many sessions a user has and whichever statements fail.
THEOREM JoinedAlwaysAgrees == Spec => []JoinedAgrees
<1> QED
  BY InductiveInvariant, PTL DEF IInv

\* The open rows of table calls are exactly the calls of the map.
THEOREM OpenRowsAlwaysActive == Spec => []OpenRowsAreActiveCalls
<1> QED
  BY InductiveInvariant, PTL DEF IInv

\* A user without sessions is in no call.
THEOREM NeverGhostParticipant == Spec => []NoGhostParticipant
<1> QED
  BY InductiveInvariant, PTL DEF IInv

-----------------------------------------------------------------------------
(* A call ends with its last leaver. *)

\* leave_voice_channel erases no other channel than its user's, and this only
\* when its user is the last one.
LEMMA LeaveEndsItsChannelOnly ==
  ASSUME IInv, NEW u \in Users, LeaveReturns(u) \/ LeaveThrows(u)
  PROVE  EndsOnlyByLastLeaver
<1> USE DEF IInv, TypeOK
<1>1. CASE LeaveLast(u)
  <2> SUFFICES ASSUME NEW c \in Channels, voice_channels'[c] # voice_channels[c]
               PROVE  /\ voice_channels'[c] = NoCall
                      /\ {v \in Users : joined[v] = c} = {u}
                      /\ joined'[u] = NoChannel
    BY DEF EndsOnlyByLastLeaver
  <2>1. c = joined[u]
    BY <1>1 DEF LeaveLast
  <2> QED
    BY <1>1, <2>1 DEF LeaveLast, OthersJoined
<1>2. CASE LeaveOthersBehind(u) \/ LeaveThrows(u)
  BY <1>2 DEF LeaveOthersBehind, LeaveThrows, LeaveNotConnected, LeaveCloseFails,
              manager_vars, EndsOnlyByLastLeaver
<1> QED
  BY <1>1, <1>2 DEF LeaveReturns

\* A call ends in the step in which its only joined user leaves.
THEOREM CallsEndWithLastLeaver == Spec => CallEndsWithLastLeaver
<1>1. IInv /\ [Next]_vars => [EndsOnlyByLastLeaver]_vars
  <2> SUFFICES ASSUME IInv, Next PROVE EndsOnlyByLastLeaver
    OBVIOUS
  <2>1. ASSUME NEW s \in Sessions, Begin(s) PROVE EndsOnlyByLastLeaver
    <3>1. UserOf[s] \in Users
      BY VoiceCallsAssumption
    <3>2. \/ UNCHANGED manager_vars
          \/ LeaveReturns(UserOf[s]) \/ LeaveThrows(UserOf[s])
      BY <2>1 DEF Begin, Authenticate, CleanUserSession, RequestCall, LeaveCall,
                  LeaveCallThrows
    <3> QED
      BY <3>1, <3>2, LeaveEndsItsChannelOnly DEF manager_vars, EndsOnlyByLastLeaver
  <2>2. ASSUME NEW s \in Sessions, InitVoiceChannel(s) PROVE EndsOnlyByLastLeaver
    BY <2>2 DEF InitVoiceChannel, EndsOnlyByLastLeaver, Active, IInv, TypeOK
  <2>3. ASSUME NEW s \in Sessions, Continue(s), ~InitVoiceChannel(s)
        PROVE EndsOnlyByLastLeaver
    BY <2>3 DEF Continue, CreateVoiceSession, InitVoiceChannelThrows, JoinVoiceChannel,
                JoinVoiceChannelThrows, JoinRelocks, GetVoiceStates, AnnounceCall,
                DeleteVoiceSession, manager_vars, EndsOnlyByLastLeaver
  <2>4. ASSUME NEW expired \in SUBSET Pending, HandleVoiceStates(expired)
        PROVE EndsOnlyByLastLeaver
    BY <2>4 DEF HandleVoiceStates, EndsOnlyByLastLeaver
  <2> QED
    BY <2>1, <2>2, <2>3, <2>4 DEF Next
<1> QED
  BY <1>1, InductiveInvariant, PTL DEF Spec, CallEndsWithLastLeaver

-----------------------------------------------------------------------------
(* When no statement on the call tables fails. *)

\* The handler that opened a call is still on its way to join it, as long as
\* nobody has joined.
THEOREM EmptyCallAlwaysHasCaller ==
  ASSUME SqlMayFail = FALSE
  PROVE  Spec => []EmptyCallHasCaller
<1>1. Init => EmptyCallHasCaller
  BY DEF Init, EmptyCallHasCaller, Active
<1>2. IInv /\ EmptyCallHasCaller /\ [Next]_vars => EmptyCallHasCaller'
  <2> SUFFICES ASSUME IInv, EmptyCallHasCaller, [Next]_vars,
                      NEW c \in Channels, Active(c)', \A u \in Users : joined'[u] # c
               PROVE  \E s \in Sessions : pc'[s] = "join_voice_channel" /\ target'[s] = c
    BY DEF EmptyCallHasCaller
  <2> USE DEF Active
  <2>0. TypeOK /\ HasTarget /\ JoinedAgrees
    BY DEF IInv
  <2>a. ASSUME NEW s \in Sessions, NEW t \in Sessions, t # s,
               pc[t] = "join_voice_channel", target[t] = c,
               \A r \in Sessions \ {s} : pc'[r] = pc[r] /\ target'[r] = target[r]
        PROVE  pc'[t] = "join_voice_channel" /\ target'[t] = c
    BY <2>a
  <2>1. ASSUME NEW s \in Sessions, Begin(s)
        PROVE  \E t \in Sessions : pc'[t] = "join_voice_channel" /\ target'[t] = c
    <3>1. /\ pc[s] # "join_voice_channel"
          /\ \A r \in Sessions \ {s} : pc'[r] = pc[r] /\ target'[r] = target[r]
      BY <2>0, <2>1 DEF Begin, Authenticate, CleanUserSession, RequestCall, LeaveCall,
                        LeaveCallThrows, local_vars, TypeOK
    <3>2. /\ Active(c)
          /\ \A u \in Users : joined[u] # c
      <4>1. CASE UNCHANGED manager_vars
        BY <4>1 DEF manager_vars
      <4>2. CASE LeaveOthersBehind(UserOf[s])
        BY <2>0, <4>2 DEF LeaveOthersBehind, OthersJoined, TypeOK
      <4>3. CASE LeaveLast(UserOf[s])
        BY <2>0, <4>3, VoiceCallsAssumption DEF LeaveLast, TypeOK
      <4>4. CASE LeaveCloseFails(UserOf[s])
        BY <4>4 DEF LeaveCloseFails
      <4> QED
        BY <2>1, <4>1, <4>2, <4>3, <4>4
        DEF Begin, Authenticate, CleanUserSession, RequestCall, LeaveCall, LeaveCallThrows,
            LeaveReturns, LeaveThrows, LeaveNotConnected
    <3>3. PICK t \in Sessions : pc[t] = "join_voice_channel" /\ target[t] = c
      BY <3>2 DEF EmptyCallHasCaller
    <3> QED
      BY <2>a, <3>1, <3>3
  <2>2. ASSUME NEW s \in Sessions, InitVoiceChannel(s)
        PROVE  \E t \in Sessions : pc'[t] = "join_voice_channel" /\ target'[t] = c
    <3>1. /\ pc' = [pc EXCEPT ![s] = "join_voice_channel"]
          /\ target' = target /\ joined' = joined
          /\ \A d \in Channels \ {target[s]} : voice_channels'[d] = voice_channels[d]
      BY <2>0, <2>2 DEF InitVoiceChannel, TypeOK
    <3>2. CASE target[s] = c
      BY <2>0, <3>1, <3>2 DEF TypeOK
    <3>3. CASE target[s] # c
      <4>1. PICK t \in Sessions : pc[t] = "join_voice_channel" /\ target[t] = c
        BY <3>1, <3>3 DEF EmptyCallHasCaller
      <4> QED
        BY <2>0, <3>1, <4>1 DEF TypeOK
    <3> QED
      BY <3>2, <3>3
  <2>3. ASSUME NEW s \in Sessions, JoinVoiceChannel(s)
        PROVE  \E t \in Sessions : pc'[t] = "join_voice_channel" /\ target'[t] = c
    <3>1. /\ joined' = [joined EXCEPT ![UserOf[s]] = target[s]]
          /\ joined[UserOf[s]] = NoChannel
          /\ pc' = [pc EXCEPT ![s] = "get_voice_states"]
          /\ UNCHANGED <<voice_channels, target>>
      BY <2>3 DEF JoinVoiceChannel, Goto, local_vars
    <3>2. target[s] # c /\ \A u \in Users : joined[u] # c
      <4>1. UserOf[s] \in Users /\ joined \in [Users -> Channels \cup {NoChannel}]
        BY <2>0, VoiceCallsAssumption DEF TypeOK
      <4>2. /\ joined'[UserOf[s]] = target[s]
            /\ \A u \in Users \ {UserOf[s]} : joined'[u] = joined[u]
        BY <3>1, <4>1
      <4>3. NoChannel # c
        BY VoiceCallsAssumption
      <4> QED
        BY <3>1, <4>1, <4>2, <4>3
    <3>3. PICK t \in Sessions : pc[t] = "join_voice_channel" /\ target[t] = c
      BY <3>1, <3>2 DEF EmptyCallHasCaller
    <3> QED
      BY <2>0, <3>1, <3>2, <3>3 DEF TypeOK
  <2>4. ASSUME NEW s \in Sessions, JoinVoiceChannelThrows(s)
        PROVE  \E t \in Sessions : pc'[t] = "join_voice_channel" /\ target'[t] = c
    <3>1. /\ ~Active(target[s]) /\ UNCHANGED manager_vars
          /\ \A r \in Sessions \ {s} : pc'[r] = pc[r] /\ target'[r] = target[r]
      BY <2>0, <2>4 DEF JoinVoiceChannelThrows, Respond, TypeOK
    <3>2. PICK t \in Sessions : pc[t] = "join_voice_channel" /\ target[t] = c
      BY <3>1 DEF EmptyCallHasCaller, manager_vars
    <3>3. t # s
      BY <3>1, <3>2 DEF manager_vars
    <3> QED
      BY <3>1, <3>2, <3>3
  <2>5. ASSUME NEW s \in Sessions,
               \/ CreateVoiceSession(s) \/ InitVoiceChannelThrows(s) \/ JoinRelocks(s)
               \/ GetVoiceStates(s) \/ AnnounceCall(s) \/ DeleteVoiceSession(s)
        PROVE  \E t \in Sessions : pc'[t] = "join_voice_channel" /\ target'[t] = c
    <3>1. /\ UNCHANGED manager_vars
          /\ \/ pc[s] # "join_voice_channel"
             \/ pc' = pc /\ target' = target
          /\ \A r \in Sessions \ {s} : pc'[r] = pc[r] /\ target'[r] = target[r]
      BY <2>0, <2>5 DEF CreateVoiceSession, InitVoiceChannelThrows, JoinRelocks, GetVoiceStates,
                        AnnounceCall, DeleteVoiceSession, Respond, Goto, local_vars, TypeOK
    <3>2. PICK t \in Sessions : pc[t] = "join_voice_channel" /\ target[t] = c
      BY <3>1 DEF EmptyCallHasCaller, manager_vars
    <3> QED
      BY <3>1, <3>2
  <2>6. CASE \/ UNCHANGED vars
             \/ \E expired \in SUBSET Pending : HandleVoiceStates(expired)
    BY <2>6 DEF vars, manager_vars, local_vars, HandleVoiceStates, EmptyCallHasCaller
  <2> QED
    BY <2>1, <2>2, <2>3, <2>4, <2>5, <2>6 DEF Next, Continue
<1> QED
  BY <1>1, <1>2, InductiveInvariant, PTL DEF Spec

-----------------------------------------------------------------------------
(* VoiceCalls implements CallLifecycle. *)

\* The members of the open calls change as the new functions say, call by call.
LEMMA MembersChange ==
  ASSUME NEW k \in CallIds, NEW S,
         \A j \in CallIds \ {k} : LifecycleMembers'[j] = LifecycleMembers[j],
         LifecycleMembers'[k] = S
  PROVE  LifecycleMembers' = [LifecycleMembers EXCEPT ![k] = S]
BY DEF LifecycleMembers

\* Leaving a call, in whatever way, is an exit or leaves the abstract state alone.
LEMMA LeaveRefines ==
  ASSUME IInv, NEW u \in Users, LeaveReturns(u) \/ LeaveThrows(u)
  PROVE  Lifecycle!Next \/ UNCHANGED Lifecycle!vars
<1> USE VoiceCallsAssumption
<1> DEFINE k == voice_channels[joined[u]]
<1>0. TypeOK /\ JoinedAgrees /\ OpenRowsAreActiveCalls
  BY DEF IInv
<1>1. ASSUME joined[u] # NoChannel
      PROVE  /\ joined[u] \in Channels /\ k \in CallIds /\ open_calls[k] = joined[u]
             /\ \A j \in CallIds : open_calls[j] = joined[u] => j = k
  BY <1>0, <1>1 DEF TypeOK, JoinedAgrees, OpenRowsAreActiveCalls, Active
<1>2. CASE LeaveOthersBehind(u) \/ LeaveCloseFails(u)
  <2>1. /\ joined[u] # NoChannel
        /\ joined' = [joined EXCEPT ![u] = NoChannel]
        /\ open_calls' = open_calls
    BY <1>2 DEF LeaveOthersBehind, LeaveCloseFails
  <2>2. u \in LifecycleMembers[k]
    BY <1>1, <2>1 DEF LifecycleMembers
  <2>3. \A j \in CallIds \ {k} : LifecycleMembers'[j] = LifecycleMembers[j]
    BY <1>0, <1>1, <2>1 DEF LifecycleMembers, TypeOK
  <2>4. LifecycleMembers'[k] = LifecycleMembers[k] \ {u}
    BY <1>0, <1>1, <2>1 DEF LifecycleMembers, TypeOK
  <2>5. Lifecycle!Exit(k, u)
    BY <1>1, <2>1, <2>2, <2>3, <2>4, MembersChange DEF Lifecycle!Exit
  <2> QED
    BY <1>1, <2>1, <2>5 DEF Lifecycle!Next, Lifecycle!Exit
<1>3. CASE LeaveLast(u)
  <2>1. /\ joined[u] # NoChannel
        /\ ~OthersJoined(u, joined[u])
        /\ joined' = [joined EXCEPT ![u] = NoChannel]
        /\ open_calls' = [open_calls EXCEPT ![k] = NoChannel]
    BY <1>3 DEF LeaveLast
  <2>2. LifecycleMembers[k] = {u}
    BY <1>1, <2>1 DEF LifecycleMembers, OthersJoined
  <2>3. \A j \in CallIds \ {k} : LifecycleMembers'[j] = LifecycleMembers[j]
    BY <1>0, <1>1, <2>1 DEF LifecycleMembers, TypeOK
  <2>4. LifecycleMembers'[k] = {}
    BY <1>0, <1>1, <2>1 DEF LifecycleMembers, TypeOK
  <2>5. Lifecycle!ExitAndClose(k, u)
    BY <1>1, <2>1, <2>2, <2>3, <2>4, MembersChange DEF Lifecycle!ExitAndClose
  <2> QED
    BY <1>1, <2>1, <2>5 DEF Lifecycle!Next, Lifecycle!ExitAndClose
<1>4. CASE LeaveNotConnected(u)
  BY <1>4 DEF LeaveNotConnected, manager_vars, Lifecycle!vars, LifecycleMembers
<1> QED
  BY <1>2, <1>3, <1>4 DEF LeaveReturns, LeaveThrows

\* The server's handlers, interleaved at every method, implement the atomic
\* starts, entries and exits of CallLifecycle.
THEOREM RefinesCallLifecycle == Spec => ImplementsCallLifecycle
<1> USE VoiceCallsAssumption
<1>1. Init => Lifecycle!Init
  BY DEF Init, Lifecycle!Init, LifecycleMembers
<1>2. IInv /\ [Next]_vars => [Lifecycle!Next]_(Lifecycle!vars)
  <2> SUFFICES ASSUME IInv, [Next]_vars PROVE Lifecycle!Next \/ UNCHANGED Lifecycle!vars
    OBVIOUS
  <2>0. TypeOK /\ HasTarget /\ JoinedAgrees /\ OpenRowsAreActiveCalls
    BY DEF IInv
  <2>a. ASSUME UNCHANGED <<joined, open_calls>> PROVE UNCHANGED Lifecycle!vars
    BY <2>a DEF Lifecycle!vars, LifecycleMembers
  <2>1. ASSUME NEW s \in Sessions, Begin(s)
        PROVE Lifecycle!Next \/ UNCHANGED Lifecycle!vars
    BY <2>1, <2>a, LeaveRefines DEF Begin, Authenticate, CleanUserSession, RequestCall,
                                   LeaveCall, LeaveCallThrows, manager_vars
  <2>2. ASSUME NEW s \in Sessions, InitVoiceChannel(s) PROVE Lifecycle!Next
    <3> DEFINE c == target[s]
    <3>1. c \in Channels /\ voice_channels[c] = NoCall /\ joined' = joined
      BY <2>0, <2>2 DEF InitVoiceChannel, HasTarget, Methods, Active
    <3>2. PICK k \in FreshCalls : open_calls' = [open_calls EXCEPT ![k] = c]
      BY <2>2, InitVoiceChannelFacts
    <3>3. k \in CallIds /\ open_calls[k] = NoChannel
      BY DEF FreshCalls
    <3>4. \A j \in CallIds : open_calls[j] # c
      BY <2>0, <3>1 DEF OpenRowsAreActiveCalls
    <3>5. \A u \in Users : joined[u] # c
      BY <2>0, <3>1 DEF JoinedAgrees, Active
    <3>6. LifecycleMembers' = LifecycleMembers
      BY <2>0, <3>1, <3>2, <3>3, <3>5 DEF LifecycleMembers, TypeOK
    <3>7. Lifecycle!Start(k, c)
      BY <3>2, <3>3, <3>4, <3>6 DEF Lifecycle!Start, Lifecycle!Open
    <3> QED
      BY <3>1, <3>3, <3>7 DEF Lifecycle!Next
  <2>3. ASSUME NEW s \in Sessions, JoinVoiceChannel(s) PROVE Lifecycle!Next
    <3> DEFINE u == UserOf[s]
               c == target[s]
               k == voice_channels[c]
    <3>1. /\ u \in Users /\ c \in Channels /\ k \in CallIds
          /\ joined[u] = NoChannel /\ joined' = [joined EXCEPT ![u] = c]
          /\ open_calls' = open_calls
      BY <2>0, <2>3 DEF JoinVoiceChannel, HasTarget, Methods, Active, TypeOK
    <3>2. open_calls[k] = c /\ \A j \in CallIds : open_calls[j] = c => j = k
      BY <2>0, <3>1 DEF OpenRowsAreActiveCalls
    <3>3. \A j \in CallIds : u \notin LifecycleMembers[j]
      BY <3>1 DEF LifecycleMembers
    <3>4. \A j \in CallIds \ {k} : LifecycleMembers'[j] = LifecycleMembers[j]
      BY <2>0, <3>1, <3>2 DEF LifecycleMembers, TypeOK
    <3>5. LifecycleMembers'[k] = LifecycleMembers[k] \cup {u}
      BY <2>0, <3>1, <3>2 DEF LifecycleMembers, TypeOK
    <3>6. Lifecycle!Enter(k, u)
      BY <3>1, <3>2, <3>3, <3>4, <3>5, MembersChange DEF Lifecycle!Enter, Lifecycle!Open
    <3> QED
      BY <3>1, <3>6 DEF Lifecycle!Next, Lifecycle!Enter
  <2>4. ASSUME NEW s \in Sessions, Continue(s), ~InitVoiceChannel(s), ~JoinVoiceChannel(s)
        PROVE UNCHANGED Lifecycle!vars
    BY <2>4, <2>a DEF Continue, CreateVoiceSession, InitVoiceChannelThrows,
         JoinVoiceChannelThrows, JoinRelocks, GetVoiceStates, AnnounceCall, DeleteVoiceSession,
         manager_vars
  <2>5. CASE \/ UNCHANGED vars
             \/ \E expired \in SUBSET Pending : HandleVoiceStates(expired)
    BY <2>5, <2>a DEF vars, manager_vars, HandleVoiceStates
  <2> QED
    BY <2>1, <2>2, <2>3, <2>4, <2>5 DEF Next
<1> QED
  BY <1>1, <1>2, InductiveInvariant, PTL DEF Spec, ImplementsCallLifecycle, Lifecycle!Spec
=============================================================================
