------------------------------- MODULE Directory -------------------------------
(***************************************************************************)
(* Friends, private channels and messages: user_manager, channel_manager   *)
(* and message_manager of the server, each of whose requests is a row of   *)
(* SQL statements and an event, and the lists of friends and requests that *)
(* the user interface of each client keeps.                                *)
(*                                                                         *)
(* A user has one session, which handles one request at a time; the        *)
(* statements of different sessions interleave.  No statement of another   *)
(* session runs between a statement and the code up to the next one.       *)
(***************************************************************************)
EXTENDS Naturals, Sequences, FiniteSets, SequencesExt

CONSTANTS
  Users, Channels, Messages,
  NoUser, NoChannel, NoMessage,
  Worlds  \* the worlds to look at

\* A world says who is logged in at first, which requests are made, how many
\* events a user may have to show when a request begins (a bound), and what
\* may happen: requests overlap, and even two of the same kind between the same
\* users ("cross"); statements fail; the interface waits for a profile
\* before it shows a friend request.
Requests == {"friend", "approve", "reject", "remove", "channel", "message",
             "login", "resume"}
Happenings == {"overlap", "cross", "late", "sql", "await"}

ASSUME DirectoryAssumption ==
  /\ NoUser \notin Users
  /\ NoChannel \notin Channels
  /\ NoMessage \notin Messages
  /\ Worlds \subseteq [online : SUBSET Users, requests : SUBSET Requests,
                       may : SUBSET Happenings, events : Nat]

VARIABLES
  friendships,      \* the table: "none", "pending" or "approved" for each key
  channel_members,  \* the members of each channel with a row; {}: none yet
  channels,         \* the channels table
  messages,         \* the messages table: who sent it where; NoRow: no row
  online,           \* the users of _authenticated_sessions
  sessions_mutex,   \* the login that holds _sessions_mutex
  request,          \* what the session of each user is handling
  inbox,            \* the events sent to each user
  friends,          \* the interface: the friends list
  friend_requests,  \* and the friend requests, each with its friendType
  private_channels, \* and the private channel with each user
  shown,            \* and the messages that came as events
  updating,         \* the friendRequestEvents that await, with their copies
  world

table_vars == <<friendships, channel_members, channels, messages>>
server_vars == <<online, sessions_mutex>>
view_vars == <<friends, friend_requests, private_channels, shown, updating>>
vars == <<table_vars, server_vars, request, inbox, view_vars, world>>

Keys == Users \X Users
NoKey == <<NoUser, NoUser>>
NoRow == [sender |-> NoUser, channel |-> NoChannel]
Lists == [friends : SUBSET Users,
          requests : SUBSET (Users \X {"requester", "recipient"})]
NoLists == [friends |-> {}, requests |-> {}]

Stages == {"check", "insert", "select", "delete", "update", "call", "create",
           "self", "other", "member", "members", "friends", "requests",
           "enter", "event", "ok", "error"}
Request(op, stage, other, channel, message) ==
  [op |-> op, stage |-> stage, other |-> other, key |-> NoKey,
   channel |-> channel, message |-> message, lists |-> NoLists]
NoRequest == Request("none", "ok", NoUser, NoChannel, NoMessage)
RequestRecords ==
  [op : Requests \cup {"none"}, stage : Stages, other : Users \cup {NoUser},
   key : Keys \cup {NoKey}, channel : Channels \cup {NoChannel},
   message : Messages \cup {NoMessage}, lists : Lists]

EventRecords ==
  [kind : {"request", "approved", "removed", "message"}, from : Users,
   message : Messages \cup {NoMessage}]

TypeOK ==
  /\ friendships \in [Keys -> {"none", "pending", "approved"}]
  /\ channel_members \in [Channels -> SUBSET Users]
  /\ channels \in SUBSET Channels
  /\ messages \in [Messages -> [sender : Users \cup {NoUser},
                                channel : Channels \cup {NoChannel}]]
  /\ online \in SUBSET Users
  /\ sessions_mutex \in Users \cup {NoUser}
  /\ request \in [Users -> RequestRecords]
  /\ inbox \in [Users -> Seq(EventRecords)]
  /\ friends \in [Users -> SUBSET Users]
  /\ friend_requests \in [Users -> SUBSET (Users \X {"requester", "recipient"})]
  /\ private_channels \in [Users -> [Users -> Channels \cup {NoChannel}]]
  /\ shown \in [Users -> SUBSET (Messages \cup {NoMessage})]
  /\ updating \in [Users -> SUBSET [from : Users, lists : Lists]]
  /\ world \in Worlds

Init ==
  /\ friendships = [k \in Keys |-> "none"]
  /\ channel_members = [c \in Channels |-> {}]
  /\ channels = {}
  /\ messages = [m \in Messages |-> NoRow]
  /\ world \in Worlds
  /\ online = world.online
  /\ sessions_mutex = NoUser
  /\ request = [u \in Users |-> NoRequest]
  /\ inbox = [u \in Users |-> <<>>]
  /\ friends = [u \in Users |-> {}]
  /\ friend_requests = [u \in Users |-> {}]
  /\ private_channels = [u \in Users |-> [v \in Users |-> NoChannel]]
  /\ shown = [u \in Users |-> {}]
  /\ updating = [u \in Users |-> {}]

May(happening) == happening \in world.may

(***************************************************************************)
(* The requests of the clients                                             *)
(***************************************************************************)

\* A client whose request has been answered sends another one.
Begins(u, op, stage, other, channel, message) ==
  /\ op \in world.requests
  /\ request[u] = NoRequest
  /\ \A v \in Users : Len(inbox[v]) + Cardinality(updating[v]) < world.events
  /\ May("overlap") \/ \A v \in Users : request[v] = NoRequest
  /\ May("late") \/ inbox[u] = <<>>
  /\ other # NoUser /\ ~ May("cross")
       => ~ (request[other].op = op /\ request[other].other = u)
  /\ request' = [request EXCEPT
                   ![u] = Request(op, stage, other, channel, message)]
  /\ UNCHANGED <<table_vars, server_vars, inbox, view_vars, world>>

\* The interface offers what fits its lists: a request to a stranger, an
\* approval of a request received, the end of a request or of a friendship.
HasRequest(u, v, types) == \E t \in types : <<v, t>> \in friend_requests[u]

SendFriendRequest(u, v) ==
  /\ u \in online /\ u # v
  /\ v \notin friends[u]
  /\ ~ HasRequest(u, v, {"requester", "recipient"})
  /\ Begins(u, "friend", "check", v, NoChannel, NoMessage)

SetFriendshipStatus(u, v) ==
  /\ u \in online /\ u # v
  /\ \/ /\ v \notin friends[u]
        /\ HasRequest(u, v, {"requester"})
        /\ Begins(u, "approve", "select", v, NoChannel, NoMessage)
     \/ /\ v \notin friends[u]
        /\ HasRequest(u, v, {"requester", "recipient"})
        /\ Begins(u, "reject", "select", v, NoChannel, NoMessage)
     \/ /\ v \in friends[u]
        /\ Begins(u, "remove", "select", v, NoChannel, NoMessage)

GetPrivateChannel(u, v) ==
  /\ u \in online /\ u # v
  /\ Begins(u, "channel", "call", v, NoChannel, NoMessage)

SendMessage(u, c, m) ==
  /\ u \in online
  /\ messages[m] = NoRow
  /\ \A v \in Users : request[v].message # m
  /\ Begins(u, "message", "member", NoUser, c, m)

\* A login, or the session_auth of a client that kept its session id.
Login(u) ==
  /\ u \notin online
  /\ \E op \in {"login", "resume"} :
       Begins(u, op, "friends", NoUser, NoChannel, NoMessage)

(***************************************************************************)
(* The handlers, a statement at a time                                     *)
(***************************************************************************)

At(u, ops, stage) == request[u].op \in ops /\ request[u].stage = stage
Goes(u, stage) == request' = [request EXCEPT ![u].stage = stage]

\* The rows of the two users, either way.
RowsOf(u, v) == {k \in {<<u, v>>, <<v, u>>} : friendships[k] # "none"}

\* Mutant of FriendsCheck: it looks for a request of the same user only.
FriendsCheckOneWay(u) ==
  /\ At(u, {"friend"}, "check")
  /\ Goes(u, IF friendships[<<u, request[u].other>>] = "none"
               THEN "insert" ELSE "error")
  /\ UNCHANGED <<table_vars, server_vars, inbox, view_vars, world>>

FriendsCheck(u) ==
  /\ At(u, {"friend"}, "check")
  /\ Goes(u, IF RowsOf(u, request[u].other) = {} THEN "insert" ELSE "error")
  /\ UNCHANGED <<table_vars, server_vars, inbox, view_vars, world>>

FriendInsert(u) ==
  /\ At(u, {"friend"}, "insert")
  /\ friendships' =
       [friendships EXCEPT ![<<u, request[u].other>>] = "pending"]
  /\ Goes(u, "event")
  /\ UNCHANGED <<channel_members, channels, messages, server_vars, inbox,
                 view_vars, world>>

\* Mutant of StatusSelect: a user may approve his own request.
StatusSelectSelf(u) ==
  /\ At(u, {"approve", "reject", "remove"}, "select")
  /\ \/ /\ RowsOf(u, request[u].other) = {}
        /\ Goes(u, "error")
     \/ \E k \in RowsOf(u, request[u].other) :
          request' = [request EXCEPT
            ![u].key = k,
            ![u].stage = IF request[u].op # "approve" THEN "delete"
                         ELSE IF friendships[k] = "approved" THEN "error"
                         ELSE "update"]
  /\ UNCHANGED <<table_vars, server_vars, inbox, view_vars, world>>

\* fetchOne takes either row; its columns are used from here on.
StatusSelect(u) ==
  /\ At(u, {"approve", "reject", "remove"}, "select")
  /\ \/ /\ RowsOf(u, request[u].other) = {}
        /\ Goes(u, "error")
     \/ \E k \in RowsOf(u, request[u].other) :
          request' = [request EXCEPT
            ![u].key = k,
            ![u].stage =
               IF request[u].op # "approve" THEN "delete"
               ELSE IF k[1] = u \/ friendships[k] = "approved" THEN "error"
               ELSE "update"]
  /\ UNCHANGED <<table_vars, server_vars, inbox, view_vars, world>>

StatusDelete(u) ==
  /\ At(u, {"reject", "remove"}, "delete")
  /\ friendships' = [friendships EXCEPT ![request[u].key] = "none"]
  /\ Goes(u, "event")
  /\ UNCHANGED <<channel_members, channels, messages, server_vars, inbox,
                 view_vars, world>>

\* An UPDATE of a row that is gone meanwhile changes none, and is no error.
StatusUpdate(u) ==
  LET k == request[u].key
  IN /\ At(u, {"approve"}, "update")
     /\ friendships' = IF friendships[k] = "none" THEN friendships
                       ELSE [friendships EXCEPT ![k] = "approved"]
     /\ Goes(u, "event")
     /\ UNCHANGED <<channel_members, channels, messages, server_vars, inbox,
                    view_vars, world>>

\* The event of a request, and who it is for.
EventKind(op) ==
  CASE op = "friend"  -> "request"
    [] op = "approve" -> "approved"
    [] op = "message" -> "message"
    [] OTHER          -> "removed"

EventOf(u) ==
  [kind |-> EventKind(request[u].op), from |-> u, message |-> request[u].message]

\* Mutant of Recipients: a message goes to everybody.
RecipientsAll(u) ==
  IF request[u].op = "message" THEN Users \ {u} ELSE {request[u].other}

\* The members were read one statement earlier (MessageMembers).  They are the
\* same now: while a channel still gets members, its only member is the user
\* whose request is making it.
Recipients(u) ==
  IF request[u].op = "message" THEN channel_members[request[u].channel] \ {u}
                               ELSE {request[u].other}

\* trigger_event finds the sessions under their mutex.
TriggerEvent(u) ==
  /\ request[u].stage = "event"
  /\ sessions_mutex = NoUser
  /\ inbox' = [v \in Users |-> IF v \in Recipients(u) \cap online
                                 THEN Append(inbox[v], EventOf(u)) ELSE inbox[v]]
  /\ Goes(u, "ok")
  /\ UNCHANGED <<table_vars, server_vars, view_vars, world>>

\* Mutant of ChannelsOf: one of the two as a member is enough.
ChannelsOfEither(u, v) == {c \in channels : {u, v} \cap channel_members[c] # {}}

\* The stored procedure finds the channels with both as members.
ChannelsOf(u, v) == {c \in channels : {u, v} \subseteq channel_members[c]}

ChannelLookup(u) ==
  /\ At(u, {"channel"}, "call")
  /\ \/ /\ ChannelsOf(u, request[u].other) = {}
        /\ Goes(u, "create")
     \/ \E c \in ChannelsOf(u, request[u].other) :
          request' = [request EXCEPT ![u].channel = c, ![u].stage = "ok"]
  /\ UNCHANGED <<table_vars, server_vars, inbox, view_vars, world>>

CreateChannel(u) ==
  /\ At(u, {"channel"}, "create")
  /\ channels # Channels
  /\ LET c == CHOOSE c \in Channels : c \notin channels
     IN /\ channels' = channels \cup {c}
        /\ request' = [request EXCEPT ![u].channel = c, ![u].stage = "self"]
  /\ UNCHANGED <<friendships, channel_members, messages, server_vars, inbox,
                 view_vars, world>>

AddMember(u) ==
  LET self == request[u].stage = "self"
  IN /\ At(u, {"channel"}, "self") \/ At(u, {"channel"}, "other")
     /\ channel_members' = [channel_members EXCEPT ![request[u].channel] =
          @ \cup {IF self THEN u ELSE request[u].other}]
     /\ Goes(u, IF self THEN "other" ELSE "ok")
     /\ UNCHANGED <<friendships, channels, messages, server_vars, inbox,
                    view_vars, world>>

MessageCheck(u) ==
  /\ At(u, {"message"}, "member")
  /\ Goes(u, IF u \in channel_members[request[u].channel] THEN "insert"
             ELSE "error")
  /\ UNCHANGED <<table_vars, server_vars, inbox, view_vars, world>>

MessageInsert(u) ==
  /\ At(u, {"message"}, "insert")
  /\ messages' = [messages EXCEPT ![request[u].message] =
                    [sender |-> u, channel |-> request[u].channel]]
  /\ Goes(u, "members")
  /\ UNCHANGED <<friendships, channel_members, channels, server_vars, inbox,
                 view_vars, world>>

MessageMembers(u) ==
  /\ At(u, {"message"}, "members")
  /\ Goes(u, "event")
  /\ UNCHANGED <<table_vars, server_vars, inbox, view_vars, world>>

\* A login reads both lists with the mutex held, a session_auth without it.
GetFriends(u) ==
  /\ At(u, {"login", "resume"}, "friends")
  /\ request[u].op = "login" => sessions_mutex = NoUser
  /\ sessions_mutex' = IF request[u].op = "login" THEN u ELSE sessions_mutex
  /\ request' = [request EXCEPT ![u].stage = "requests", ![u].lists.friends =
       {v \in Users : \E k \in RowsOf(u, v) : friendships[k] = "approved"}]
  /\ UNCHANGED <<table_vars, online, inbox, view_vars, world>>

GetFriendRequests(u) ==
  /\ At(u, {"login", "resume"}, "requests")
  /\ request' = [request EXCEPT ![u].stage = "enter", ![u].lists.requests =
       {r \in Users \X {"requester", "recipient"} :
          friendships[IF r[2] = "requester" THEN <<r[1], u>> ELSE <<u, r[1]>>]
            = "pending"}]
  /\ UNCHANGED <<table_vars, server_vars, inbox, view_vars, world>>

EnterSession(u) ==
  /\ At(u, {"login", "resume"}, "enter")
  /\ sessions_mutex \in {u, NoUser}
  /\ online' = online \cup {u}
  /\ sessions_mutex' = NoUser
  /\ Goes(u, "ok")
  /\ UNCHANGED <<table_vars, inbox, view_vars, world>>

\* A statement fails: the request is answered with an error, whatever the
\* statements before it have done.
StatementFails(u) ==
  /\ May("sql")
  /\ request[u].stage \notin {"event", "enter", "ok", "error"}
  /\ request[u].op = "login" /\ request[u].stage = "friends"
       => sessions_mutex = NoUser
  /\ sessions_mutex' = IF sessions_mutex = u THEN NoUser ELSE sessions_mutex
  /\ Goes(u, "error")
  /\ UNCHANGED <<table_vars, online, inbox, view_vars, world>>

Handler(u) ==
  \/ FriendsCheck(u)
  \/ FriendInsert(u)
  \/ StatusSelect(u)
  \/ StatusDelete(u)
  \/ StatusUpdate(u)
  \/ TriggerEvent(u)
  \/ ChannelLookup(u)
  \/ CreateChannel(u)
  \/ AddMember(u)
  \/ MessageCheck(u)
  \/ MessageInsert(u)
  \/ MessageMembers(u)
  \/ GetFriends(u)
  \/ GetFriendRequests(u)
  \/ EnterSession(u)
  \/ StatementFails(u)

(***************************************************************************)
(* The interface                                                           *)
(***************************************************************************)

WithoutRequest(u, v) ==
  [friend_requests EXCEPT ![u] = {r \in @ : r[1] # v}]

\* The reducer of a fulfilled request; a rejected one changes nothing.
Fulfilled(u) ==
  LET op == request[u].op
      v == request[u].other
  IN /\ op # "none"
     /\ request[u].stage = "ok"
     /\ friends' =
          CASE op = "approve" -> [friends EXCEPT ![u] = @ \cup {v}]
            [] op = "remove"  -> [friends EXCEPT ![u] = @ \ {v}]
            [] op \in {"login", "resume"} ->
                 [friends EXCEPT ![u] = request[u].lists.friends]
            [] OTHER -> friends
     /\ friend_requests' =
          CASE op = "friend" ->
                 [friend_requests EXCEPT ![u] = @ \cup {<<v, "recipient">>}]
            [] op \in {"approve", "reject"} -> WithoutRequest(u, v)
            [] op \in {"login", "resume"} ->
                 [friend_requests EXCEPT ![u] = request[u].lists.requests]
            [] OTHER -> friend_requests
     /\ private_channels' =
          IF op = "channel"
            THEN [private_channels EXCEPT ![u][v] = request[u].channel]
            ELSE private_channels
     /\ request' = [request EXCEPT ![u] = NoRequest]
     /\ UNCHANGED <<table_vars, server_vars, inbox, shown, updating, world>>

Rejected(u) ==
  /\ request[u].stage = "error"
  /\ request' = [request EXCEPT ![u] = NoRequest]
  /\ UNCHANGED <<table_vars, server_vars, inbox, view_vars, world>>

\* friendRequestEvent copies the user, awaits his profile, and then sets the
\* copy with the request added.
FriendRequestEvent(u, v) ==
  LET copy == [friends |-> friends[u], requests |-> friend_requests[u]]
  IN \/ /\ May("await")
        /\ updating' =
             [updating EXCEPT ![u] = @ \cup {[from |-> v, lists |-> copy]}]
        /\ UNCHANGED <<friends, friend_requests>>
     \/ /\ friend_requests' =
             [friend_requests EXCEPT ![u] = @ \cup {<<v, "requester">>}]
        /\ UNCHANGED <<friends, updating>>

FriendRequestShown(u, s) ==
  /\ s \in updating[u]
  /\ updating' = [updating EXCEPT ![u] = @ \ {s}]
  /\ friends' = [friends EXCEPT ![u] = s.lists.friends]
  /\ friend_requests' = [friend_requests EXCEPT
       ![u] = s.lists.requests \cup {<<s.from, "requester">>}]
  /\ UNCHANGED <<table_vars, server_vars, request, inbox, private_channels,
                 shown, world>>

\* Mutant of FriendshipStatusEvent: the end of a friendship is not noticed.
StatusEventForRequests(u, v, approved) ==
  /\ friend_requests' = WithoutRequest(u, v)
  /\ friends' =
       IF HasRequest(u, v, {"requester", "recipient"}) /\ approved
         THEN [friends EXCEPT ![u] = @ \cup {v}] ELSE friends
  /\ UNCHANGED updating

\* friendshipStatusEvent looks for a request first, and then for a friend.
FriendshipStatusEvent(u, v, approved) ==
  LET pending == HasRequest(u, v, {"requester", "recipient"})
  IN /\ friend_requests' = WithoutRequest(u, v)
     /\ friends' =
          IF pending /\ approved THEN [friends EXCEPT ![u] = @ \cup {v}]
          ELSE IF ~ pending /\ ~ approved THEN [friends EXCEPT ![u] = @ \ {v}]
          ELSE friends
     /\ UNCHANGED updating

\* Before its login is answered a client has no user, and its handlers throw.
HandleEvent(u) ==
  LET e == Head(inbox[u])
  IN /\ inbox[u] # <<>>
     /\ inbox' = [inbox EXCEPT ![u] = Tail(@)]
     /\ IF request[u].op \in {"login", "resume"}
          THEN UNCHANGED <<friends, friend_requests, updating>>
          ELSE CASE e.kind = "request" -> FriendRequestEvent(u, e.from)
                 [] e.kind = "message" ->
                      UNCHANGED <<friends, friend_requests, updating>>
                 [] OTHER -> FriendshipStatusEvent(u, e.from, e.kind = "approved")
     /\ shown' = IF e.kind = "message"
                   THEN [shown EXCEPT ![u] = @ \cup {e.message}] ELSE shown
     /\ UNCHANGED <<table_vars, server_vars, request, private_channels, world>>

(***************************************************************************)
(* The specification                                                       *)
(***************************************************************************)

UserAsks(u) ==
  \/ \E v \in Users : \/ SendFriendRequest(u, v)
                      \/ SetFriendshipStatus(u, v)
                      \/ GetPrivateChannel(u, v)
  \/ \E c \in Channels, m \in Messages : SendMessage(u, c, m)
  \/ Login(u)

Interface(u) ==
  \/ Fulfilled(u)
  \/ Rejected(u)
  \/ \E s \in updating[u] : FriendRequestShown(u, s)
  \/ HandleEvent(u)

Next == \E u \in Users : UserAsks(u) \/ Handler(u) \/ Interface(u)

Spec == Init /\ [][Next]_vars

(***************************************************************************)
(* Properties                                                              *)
(***************************************************************************)

\* Two users have one friendship row and one private channel between them,
\* unless both ask for it at once: each such request looks first and inserts
\* later, and other requests, ends of requests and failed statements may come
\* in between (send_friend_request, get_private_channel).
OnePerPair ==
  ~ May("cross") =>
    \A u, v \in Users :
      /\ Cardinality(RowsOf(u, v)) <= 1
      /\ u # v => Cardinality(ChannelsOf(u, v)) <= 1

\* A friendship begins as a request, and becomes one by an approval of the user
\* who received that request, whatever rows come and go between the SELECT and
\* the UPDATE of the approval (set_friendship_status).
ApprovedByRecipient ==
  [][\A k \in Keys :
       (friendships'[k] = "approved" /\ friendships[k] # "approved")
         => /\ friendships[k] = "pending"
            /\ request[k[2]].op = "approve" /\ request[k[2]].other = k[1]]_vars

\* When all is quiet the lists of every interface are those of the table, if
\* requests do not overlap, nobody asks before he has seen the last event, and
\* the interface shows a friend request at once (the reducers,
\* friendRequestEvent and friendshipStatusEvent against set_friendship_status).
Quiet ==
  \A u \in Users : request[u] = NoRequest /\ inbox[u] = <<>> /\ updating[u] = {}
ViewsAgree ==
  (Quiet /\ world.may \cap {"overlap", "late", "await"} = {}) =>
    \A u \in online, v \in Users :
      /\ v \in friends[u] <=> \E k \in RowsOf(u, v) : friendships[k] = "approved"
      /\ <<v, "recipient">> \in friend_requests[u]
           <=> friendships[<<u, v>>] = "pending"
      /\ <<v, "requester">> \in friend_requests[u]
           <=> friendships[<<v, u>>] = "pending"

\* A private channel that a client was given has the two users as its members
\* and nobody else, though it is made by three statements each of which may
\* fail, and a channel left half made is found by nobody (get_private_channel).
ChannelIsWhole ==
  \A u, v \in Users :
    private_channels[u][v] # NoChannel
      => channel_members[private_channels[u][v]] = {u, v}

\* A message is shown to the other members of its channel only, after it was
\* stored, and a message that was answered with its id was sent to each of them
\* that is logged in (send_message, trigger_event).
Arrives(v) ==
  shown[v] \cup {inbox[v][i].message : i \in DOMAIN inbox[v]}
MessagesReachMembers ==
  /\ \A v \in Users, m \in Messages :
       m \in Arrives(v) =>
         /\ messages[m] # NoRow /\ messages[m].sender # v
         /\ v \in channel_members[messages[m].channel]
  /\ \A u \in Users : (request[u].op = "message" /\ request[u].stage = "ok") =>
       /\ messages[request[u].message].sender = u
       /\ \A v \in world.online \cap channel_members[request[u].channel] :
            v # u => request[u].message \in Arrives(v)
=============================================================================
