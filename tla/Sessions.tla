------------------------------- MODULE Sessions -------------------------------
(***************************************************************************)
(* Who is connected: user_manager's map of authenticated sessions, the     *)
(* user that each session object holds, and tables users and sessions, as  *)
(* the handlers of login, register, session_auth and logout and the        *)
(* destructor of a session change them on the io threads.                  *)
(*                                                                         *)
(* _sessions_mutex guards one access to the map, _user_mutex one access to *)
(* a session's user, and the database one statement: an action is one of   *)
(* these, with what the handler does to itself around it.  pc[s] names     *)
(* what the handler of s does next.                                        *)
(***************************************************************************)
CONSTANTS
  Users,      \* accounts, by user name
  Sessions,   \* session objects; a closed one stands for a connection to come
  Tokens,     \* session ids of table sessions
  Handlers,   \* sets of packets: those that the clients may send at all
  SqlMayFail, \* whether a statement on table sessions may fail
  NoUser, NoSession

Packets == {"login", "register", "session_auth", "logout"}

ASSUME SessionsAssumption ==
  /\ Handlers \subseteq SUBSET Packets
  /\ SqlMayFail \in BOOLEAN
  /\ NoUser \notin Users
  /\ NoSession \notin Sessions

VARIABLES
  authenticated_sessions, \* _authenticated_sessions: the session of each user
  user,                   \* session::_user
  pc,                     \* what the handler of each session does next
  handler,                \* the packet being handled
  claimed,                \* the user that its handler found in the database
  registered,             \* table users
  tokens,                 \* table sessions: the user of each session id
  sent                    \* the packets that the clients send

tables == <<registered, tokens>>
vars == <<authenticated_sessions, user, pc, handler, claimed, tables, sent>>

Steps == {"insert", "set_user", "create_session", "unauthenticate", "set_user_null"}

TypeOK ==
  /\ authenticated_sessions \in [Users -> Sessions \cup {NoSession}]
  /\ user \in [Sessions -> Users \cup {NoUser}]
  /\ pc \in [Sessions -> Steps \cup {"closed", "recv"}]
  /\ handler \in [Sessions -> Packets \cup {"none"}]
  /\ claimed \in [Sessions -> Users \cup {NoUser}]
  /\ registered \in SUBSET Users
  /\ tokens \in [Tokens -> Users \cup {NoUser}]
  /\ sent \in Handlers

-----------------------------------------------------------------------------
\* A packet h of an anonymous session s finds account u and goes on to step p.
Claim(s, h, u, p) ==
  /\ pc[s] = "recv"
  /\ h \in sent
  /\ user[s] = NoUser
  /\ handler' = [handler EXCEPT ![s] = h]
  /\ claimed' = [claimed EXCEPT ![s] = u]
  /\ pc' = [pc EXCEPT ![s] = p]
  /\ UNCHANGED <<user, sent>>

Goto(s, p) ==
  /\ pc' = [pc EXCEPT ![s] = p]
  /\ UNCHANGED <<handler, claimed, sent>>

Reply(s) ==
  /\ pc' = [pc EXCEPT ![s] = "recv"]
  /\ handler' = [handler EXCEPT ![s] = "none"]
  /\ claimed' = [claimed EXCEPT ![s] = NoUser]
  /\ UNCHANGED sent

-----------------------------------------------------------------------------
\* The server accepts a connection.
Connect(s) ==
  /\ pc[s] = "closed"
  /\ Goto(s, "recv")
  /\ UNCHANGED <<authenticated_sessions, user, tables>>

\* Mutant: the map is not asked for another location.
LoginWithoutCount(s, u) ==
  /\ u \in registered
  /\ Claim(s, "login", u, "set_user")
  /\ authenticated_sessions' = [authenticated_sessions EXCEPT ![u] = s]
  /\ UNCHANGED tables

\* authenticate_user with the right password.  For a user with an entry the
\* reply is an error and nothing changes.
Login(s, u) ==
  /\ u \in registered
  /\ authenticated_sessions[u] = NoSession
  /\ Claim(s, "login", u, "set_user")
  /\ authenticated_sessions' = [authenticated_sessions EXCEPT ![u] = s]
  /\ UNCHANGED tables

\* register_user up to the INSERT, which the unique user name lets only one of
\* two racing handlers do.
Register(s, u) ==
  /\ u \notin registered
  /\ Claim(s, "register", u, "insert")
  /\ registered' = registered \cup {u}
  /\ UNCHANGED <<authenticated_sessions, tokens>>

\* authenticate_user_by_session up to its last statement.
SessionAuth(s, t) ==
  /\ tokens[t] # NoUser
  /\ Claim(s, "session_auth", tokens[t], "insert")
  /\ UNCHANGED <<authenticated_sessions, tables>>

\* Both then write the entry, whatever it holds.
Insert(s) ==
  /\ pc[s] = "insert"
  /\ authenticated_sessions' = [authenticated_sessions EXCEPT ![claimed[s]] = s]
  /\ Goto(s, "set_user")
  /\ UNCHANGED <<user, tables>>

\* session::set_user; the session had no user, so that nothing is cleaned.
SetUser(s) ==
  /\ pc[s] = "set_user"
  /\ user' = [user EXCEPT ![s] = claimed[s]]
  /\ IF handler[s] = "session_auth" THEN Reply(s) ELSE Goto(s, "create_session")
  /\ UNCHANGED <<authenticated_sessions, tables>>

\* create_session: a row with a new session id goes to the client.
CreateSession(s) ==
  /\ pc[s] = "create_session"
  /\ \E t \in Tokens : /\ tokens[t] = NoUser
                      /\ tokens' = [tokens EXCEPT ![t] = user[s]]
  /\ Reply(s)
  /\ UNCHANGED <<authenticated_sessions, user, registered>>

\* The INSERT fails: an error replies, and the session stays authenticated.
CreateSessionThrows(s) ==
  /\ pc[s] = "create_session"
  /\ SqlMayFail
  /\ Reply(s)
  /\ UNCHANGED <<authenticated_sessions, user, tables>>

-----------------------------------------------------------------------------
\* destroy_session: the rows of the user go first, those of its other clients
\* too.  When the statement fails an error replies and nothing changes.
Logout(s) ==
  /\ pc[s] = "recv"
  /\ "logout" \in sent
  /\ user[s] # NoUser
  /\ tokens' = [t \in Tokens |-> IF tokens[t] = user[s] THEN NoUser ELSE tokens[t]]
  /\ handler' = [handler EXCEPT ![s] = "logout"]
  /\ pc' = [pc EXCEPT ![s] = "unauthenticate"]
  /\ UNCHANGED <<authenticated_sessions, user, claimed, registered, sent>>

\* unauthenticate_session, for whatever session the user's entry has.
Unauthenticate(s) ==
  /\ pc[s] = "unauthenticate"
  /\ authenticated_sessions' = [authenticated_sessions EXCEPT ![user[s]] = NoSession]
  /\ Goto(s, "set_user_null")
  /\ UNCHANGED <<user, tables>>

\* session::set_user(nullptr): clean_user_session erases the entry once more
\* (its files and its call are not modelled here), then _user is cleared.
SetUserNull(s) ==
  /\ pc[s] = "set_user_null"
  /\ authenticated_sessions' = [authenticated_sessions EXCEPT ![user[s]] = NoSession]
  /\ user' = [user EXCEPT ![s] = NoUser]
  /\ Reply(s)
  /\ UNCHANGED tables

\* Mutant: the entry outlives the session.
DisconnectOnly(s) ==
  /\ pc[s] = "recv"
  /\ user' = [user EXCEPT ![s] = NoUser]
  /\ Goto(s, "closed")
  /\ UNCHANGED <<authenticated_sessions, tables>>

\* The connection fails while no handler runs: ~session cleans the session of
\* its user, if it has one.
Disconnect(s) ==
  /\ pc[s] = "recv"
  /\ authenticated_sessions' =
       [u \in Users |-> IF u = user[s] THEN NoSession ELSE authenticated_sessions[u]]
  /\ user' = [user EXCEPT ![s] = NoUser]
  /\ Goto(s, "closed")
  /\ UNCHANGED tables

-----------------------------------------------------------------------------
\* The tables survive the server: it starts with the rows of its last run.
Init ==
  /\ authenticated_sessions = [u \in Users |-> NoSession]
  /\ user = [s \in Sessions |-> NoUser]
  /\ pc = [s \in Sessions |-> "closed"]
  /\ handler = [s \in Sessions |-> "none"]
  /\ claimed = [s \in Sessions |-> NoUser]
  /\ registered \in SUBSET Users
  /\ tokens \in [Tokens -> registered \cup {NoUser}]
  /\ sent \in Handlers

Continue(s) ==
  \/ Insert(s) \/ SetUser(s)
  \/ CreateSession(s) \/ CreateSessionThrows(s)
  \/ Unauthenticate(s) \/ SetUserNull(s)

Begin(s) ==
  \/ Connect(s) \/ Disconnect(s)
  \/ \E u \in Users : Login(s, u) \/ Register(s, u)
  \/ \E t \in Tokens : SessionAuth(s, t)
  \/ Logout(s)

Next == \E s \in Sessions : Begin(s) \/ Continue(s)

Spec == Init /\ [][Next]_vars

-----------------------------------------------------------------------------
(* Properties. *)

\* The entry of a user names a session that is open and has that user, or is
\* about to: no step of the other sessions leaves an entry behind that would
\* keep the user out ("already connected") with nobody there.
EntryIsLive ==
  \A u \in Users, s \in Sessions :
    authenticated_sessions[u] = s =>
      user[s] = u \/ (pc[s] = "set_user" /\ claimed[s] = u)

\* A session that keeps its user loses the user's entry only to a step of
\* another session of that user: strangers never cost a client its events.
LosesEntryToOwnUser ==
  \A u \in Users, s \in Sessions :
    /\ authenticated_sessions[u] = s
    /\ authenticated_sessions'[u] # s
    /\ pc[s] # "unauthenticate"
    /\ user'[s] = u
    => \E t \in Sessions \ {s} : u \in {user[t], claimed[t]} /\ pc'[t] # pc[t]

EntryLostToOwnUserOnly == [][LosesEntryToOwnUser]_vars

\* Clients log in with a password and send nothing else.
LoginsOnly == sent \subseteq {"login"}

\* "Gets the session of an authenticated user" (get_authenticated_session_of_user):
\* events find every session that has a user, while clients log in and nothing
\* else.  No user is then in two locations, which authenticate_user refuses: one
\* of its two sessions would not be found.  A logout erases the entry of the user
\* twice, and a login between the two is admitted and then forgotten; a
\* session_auth takes the entry over.
SessionFound ==
  LoginsOnly =>
    \A s \in Sessions : user[s] # NoUser => authenticated_sessions[user[s]] = s
=============================================================================
