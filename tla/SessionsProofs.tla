---------------------------- MODULE SessionsProofs ----------------------------
(***************************************************************************)
(* Proofs about Sessions, for any sets of users, sessions and tokens.      *)
(***************************************************************************)
EXTENDS Sessions, TLAPS

\* What a handler knows between two steps: a login holds an account and no
\* user yet, every other handler runs in an authenticated session.
HandlerAgrees ==
  \A s \in Sessions :
    /\ pc[s] = "closed" => user[s] = NoUser
    /\ pc[s] \in {"insert", "set_user"} => claimed[s] \in Users /\ user[s] = NoUser
    /\ pc[s] \in {"create_session", "unauthenticate", "set_user_null"} => user[s] \in Users

IInv == TypeOK /\ HandlerAgrees /\ EntryIsLive

LEMMA InitIInv == Init => IInv
BY SessionsAssumption DEF Init, IInv, TypeOK, HandlerAgrees, EntryIsLive, Steps, Packets

LEMMA StepIInv == IInv /\ [Next]_vars => IInv'
<1> SUFFICES ASSUME IInv, [Next]_vars PROVE IInv'
  OBVIOUS
<1> USE SessionsAssumption DEF IInv, TypeOK, HandlerAgrees, EntryIsLive, Steps, Packets, tables
<1>1. ASSUME NEW s \in Sessions, Connect(s) PROVE IInv'
  BY <1>1 DEF Connect, Goto
<1>2. ASSUME NEW s \in Sessions, Disconnect(s) PROVE IInv'
  BY <1>2 DEF Disconnect, Goto
<1>3. ASSUME NEW s \in Sessions, NEW u \in Users, Login(s, u) PROVE IInv'
  BY <1>3 DEF Login, Claim
<1>4. ASSUME NEW s \in Sessions, NEW u \in Users, Register(s, u) PROVE IInv'
  BY <1>4 DEF Register, Claim
<1>5. ASSUME NEW s \in Sessions, NEW t \in Tokens, SessionAuth(s, t) PROVE IInv'
  BY <1>5 DEF SessionAuth, Claim
<1>6. ASSUME NEW s \in Sessions, Insert(s) PROVE IInv'
  BY <1>6 DEF Insert, Goto
<1>7. ASSUME NEW s \in Sessions, SetUser(s) PROVE IInv'
  <2>1. CASE handler[s] = "session_auth"
    BY <1>7, <2>1 DEF SetUser, Reply
  <2>2. CASE handler[s] # "session_auth"
    BY <1>7, <2>2 DEF SetUser, Goto
  <2> QED
    BY <2>1, <2>2
<1>8. ASSUME NEW s \in Sessions, CreateSession(s) \/ CreateSessionThrows(s) PROVE IInv'
  <2>1. tokens' \in [Tokens -> Users \cup {NoUser}]
    BY <1>8 DEF CreateSession, CreateSessionThrows
  <2>2. /\ pc[s] = "create_session"
        /\ Reply(s)
        /\ UNCHANGED <<authenticated_sessions, user, registered>>
    BY <1>8 DEF CreateSession, CreateSessionThrows
  <2> QED
    BY <2>1, <2>2 DEF Reply
<1>9. ASSUME NEW s \in Sessions, Logout(s) PROVE IInv'
  BY <1>9 DEF Logout
<1>10. ASSUME NEW s \in Sessions, Unauthenticate(s) PROVE IInv'
  BY <1>10 DEF Unauthenticate, Goto
<1>11. ASSUME NEW s \in Sessions, SetUserNull(s) PROVE IInv'
  BY <1>11 DEF SetUserNull, Reply
<1>12. CASE UNCHANGED vars
  BY <1>12 DEF vars
<1> QED
  BY <1>1, <1>2, <1>3, <1>4, <1>5, <1>6, <1>7, <1>8, <1>9, <1>10, <1>11, <1>12
  DEF Next, Begin, Continue

THEOREM InductiveInvariant == Spec => []IInv
<1> QED
  BY InitIInv, StepIInv, PTL DEF Spec

\* Every variable keeps its type.
THEOREM TypeCorrect == Spec => []TypeOK
<1> QED
  BY InductiveInvariant, PTL DEF IInv

\* Whatever the clients send and whatever statements fail, an entry of the map
\* names an open session of its user.
THEOREM EntryAlwaysLive == Spec => []EntryIsLive
<1> QED
  BY InductiveInvariant, PTL DEF IInv

-----------------------------------------------------------------------------
\* A session keeps its entry against the handlers of every other user.
THEOREM EntryLostToOwnUserAlone == Spec => EntryLostToOwnUserOnly
<1>1. IInv /\ [Next]_vars => [LosesEntryToOwnUser]_vars
  <2> SUFFICES ASSUME IInv, Next, NEW u \in Users, NEW s \in Sessions,
                      authenticated_sessions[u] = s,
                      authenticated_sessions'[u] # s,
                      pc[s] # "unauthenticate",
                      user'[s] = u
               PROVE  \E t \in Sessions \ {s} : u \in {user[t], claimed[t]} /\ pc'[t] # pc[t]
    BY DEF LosesEntryToOwnUser
  <2> USE SessionsAssumption DEF IInv, TypeOK, HandlerAgrees, EntryIsLive
  <2>1. ASSUME NEW t \in Sessions, NEW v \in Users, Login(t, v) PROVE FALSE
    BY <2>1 DEF Login, Claim
  <2>2. ASSUME NEW t \in Sessions, Disconnect(t)
        PROVE  t # s /\ user[t] = u /\ pc'[t] # pc[t]
    BY <2>2 DEF Disconnect, Goto
  <2>3. ASSUME NEW t \in Sessions, Insert(t)
        PROVE  t # s /\ claimed[t] = u /\ pc'[t] # pc[t]
    BY <2>3 DEF Insert, Goto
  <2>4. ASSUME NEW t \in Sessions, Unauthenticate(t)
        PROVE  t # s /\ user[t] = u /\ pc'[t] # pc[t]
    BY <2>4 DEF Unauthenticate, Goto
  <2>5. ASSUME NEW t \in Sessions, SetUserNull(t)
        PROVE  t # s /\ user[t] = u /\ pc'[t] # pc[t]
    BY <2>5 DEF SetUserNull, Reply
  <2>6. ASSUME NEW t \in Sessions, UNCHANGED authenticated_sessions PROVE FALSE
    BY <2>6
  <2> QED
    BY <2>1, <2>2, <2>3, <2>4, <2>5, <2>6
    DEF Next, Begin, Continue, Connect, Register, SessionAuth, SetUser, CreateSession,
        CreateSessionThrows, Logout
<1> QED
  BY InductiveInvariant, <1>1, PTL DEF Spec, EntryLostToOwnUserOnly

-----------------------------------------------------------------------------
(* Logins alone: the check and the insertion of authenticate_user are one   *)
(* critical section, and the entry stays until the destructor.              *)

\* Every session with a user, or about to have it, is the one of its entry.
EntryHeld ==
  LoginsOnly =>
    \A s \in Sessions :
      /\ pc[s] \in {"closed", "recv", "set_user", "create_session"}
      /\ user[s] # NoUser => authenticated_sessions[user[s]] = s
      /\ pc[s] = "set_user" => authenticated_sessions[claimed[s]] = s

LEMMA SentStays == Next => sent' = sent
BY DEF Next, Begin, Continue, Connect, Disconnect, Login, Register, SessionAuth, Logout,
   Insert, SetUser, CreateSession, CreateSessionThrows, Unauthenticate, SetUserNull,
   Claim, Goto, Reply

LEMMA EntryHeldInvariant == Spec => []EntryHeld
<1>1. Init => EntryHeld
  BY DEF Init, EntryHeld
<1>2. IInv /\ EntryHeld /\ [Next]_vars => EntryHeld'
  <2> SUFFICES ASSUME IInv, EntryHeld, [Next]_vars, LoginsOnly PROVE EntryHeld'
    BY SentStays DEF EntryHeld, LoginsOnly, vars
  <2> USE SessionsAssumption DEF IInv, TypeOK, HandlerAgrees, EntryHeld, LoginsOnly
  <2>1. ASSUME NEW s \in Sessions, Connect(s) PROVE EntryHeld'
    BY <2>1 DEF Connect, Goto
  <2>2. ASSUME NEW s \in Sessions, Disconnect(s) PROVE EntryHeld'
    BY <2>2 DEF Disconnect, Goto
  <2>3. ASSUME NEW s \in Sessions, NEW u \in Users, Login(s, u) PROVE EntryHeld'
    BY <2>3 DEF Login, Claim
  <2>4. ASSUME NEW s \in Sessions, NEW u \in Users, Register(s, u) PROVE FALSE
    BY <2>4 DEF Register, Claim
  <2>5. ASSUME NEW s \in Sessions, NEW t \in Tokens, SessionAuth(s, t) PROVE FALSE
    BY <2>5 DEF SessionAuth, Claim
  <2>6. ASSUME NEW s \in Sessions, SetUser(s) PROVE EntryHeld'
    <3>1. /\ pc'[s] \in {"create_session", "recv"}
          /\ \A t \in Sessions \ {s} : pc'[t] = pc[t] /\ claimed'[t] = claimed[t]
      <4>1. CASE handler[s] = "session_auth"
        BY <2>6, <4>1 DEF SetUser, Reply
      <4>2. CASE handler[s] # "session_auth"
        BY <2>6, <4>2 DEF SetUser, Goto
      <4> QED
        BY <4>1, <4>2
    <3>2. /\ pc[s] = "set_user"
          /\ user' = [user EXCEPT ![s] = claimed[s]]
          /\ authenticated_sessions' = authenticated_sessions
      BY <2>6 DEF SetUser
    <3> QED
      BY <3>1, <3>2
  <2>7. ASSUME NEW s \in Sessions, CreateSession(s) \/ CreateSessionThrows(s)
        PROVE  EntryHeld'
    <3>1. Reply(s) /\ UNCHANGED <<authenticated_sessions, user>>
      BY <2>7 DEF CreateSession, CreateSessionThrows
    <3> QED
      BY <3>1 DEF Reply
  <2>8. ASSUME NEW s \in Sessions,
               Insert(s) \/ Logout(s) \/ Unauthenticate(s) \/ SetUserNull(s)
        PROVE  FALSE
    BY <2>8 DEF Insert, Logout, Unauthenticate, SetUserNull
  <2>9. CASE UNCHANGED vars
    BY <2>9 DEF vars
  <2> QED
    BY <2>1, <2>2, <2>3, <2>4, <2>5, <2>6, <2>7, <2>8, <2>9 DEF Next, Begin, Continue
<1> QED
  BY InductiveInvariant, <1>1, <1>2, PTL DEF Spec

\* With logins alone events find every session that has a user.
THEOREM LoggedInSessionFound == Spec => []SessionFound
<1>1. EntryHeld => SessionFound
  BY DEF EntryHeld, SessionFound
<1> QED
  BY EntryHeldInvariant, <1>1, PTL
=============================================================================
