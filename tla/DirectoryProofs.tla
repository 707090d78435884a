---------------------------- MODULE DirectoryProofs ----------------------------
(***************************************************************************)
(* Proofs about Directory, for any users, channels, messages and worlds.   *)
(***************************************************************************)
EXTENDS Directory, SequenceTheorems, FiniteSetTheorems, TLAPS

\* An approval that is about to be written is of the row of the other's request.
ApprovalKey ==
  \A u \in Users :
    At(u, {"approve"}, "update") => request[u].key = <<request[u].other, u>>

Building(u) == At(u, {"channel"}, "self") \/ At(u, {"channel"}, "other")

\* Nobody asks for a friendship or a channel with himself.
OtherAsked ==
  \A u \in Users : request[u].op \in {"friend", "approve", "reject", "remove", "channel"}
    => request[u].other \in Users \ {u}

\* A channel under way belongs to one request, and has no member yet but the one
\* who asked for it; no channel has three members; one that was found or
\* finished has its two.
Begun ==
  \A u \in Users : Building(u) =>
    /\ request[u].channel \in channels
    /\ channel_members[request[u].channel] =
         IF request[u].stage = "self" THEN {} ELSE {u}
BegunOnce ==
  \A u, v \in Users :
    Building(u) /\ Building(v) /\ request[u].channel = request[v].channel => u = v
Unmade == \A c \in Channels : c \notin channels => channel_members[c] = {}
AtMostTwo ==
  \A c \in Channels : \A x, y, z \in channel_members[c] : x = y \/ y = z \/ x = z
ChannelStages ==
  \A u \in Users : request[u].op = "channel" =>
    request[u].stage \in {"call", "create", "self", "other", "ok", "error"}
FoundWhole ==
  \A u \in Users : At(u, {"channel"}, "ok") =>
    /\ request[u].channel \in Channels
    /\ channel_members[request[u].channel] = {u, request[u].other}
ChannelsHold ==
  /\ OtherAsked /\ ChannelStages
  /\ Begun /\ BegunOnce /\ Unmade /\ AtMostTwo /\ FoundWhole

\* And so has one that a client was given.
GivenWhole ==
  \A u, v \in Users :
    private_channels[u][v] # NoChannel =>
      u # v /\ channel_members[private_channels[u][v]] = {u, v}

IInv == TypeOK /\ ApprovalKey /\ ChannelsHold /\ GivenWhole

-----------------------------------------------------------------------------
LEMMA NoRequestTyped == NoRequest \in RequestRecords
BY DEF NoRequest, Request, RequestRecords, NoLists, Lists, Stages, Requests, NoKey

LEMMA InitIInv == Init => IInv
<1> SUFFICES ASSUME Init PROVE IInv
  OBVIOUS
<1> USE DirectoryAssumption DEF Init
<1>1. TypeOK
  <2>1. /\ request \in [Users -> RequestRecords]
        /\ inbox \in [Users -> Seq(EventRecords)]
    BY NoRequestTyped, EmptySeq
  <2>2. /\ friendships \in [Keys -> {"none", "pending", "approved"}]
        /\ messages \in [Messages -> [sender : Users \cup {NoUser},
                                      channel : Channels \cup {NoChannel}]]
        /\ online \in SUBSET Users
    BY DEF NoRow
  <2> QED
    BY <2>1, <2>2 DEF TypeOK
<1>2. ApprovalKey /\ ChannelsHold /\ GivenWhole
  BY DEF ApprovalKey, ChannelsHold, OtherAsked, ChannelStages, Begun, BegunOnce,
         Unmade, AtMostTwo, FoundWhole, GivenWhole, At, Building, NoRequest, Request
<1> QED
  BY <1>1, <1>2 DEF IInv

\* A step of the request of u that touches no channel: what has to hold of the
\* request it leaves.
LEMMA RequestStep ==
  ASSUME IInv, NEW u \in Users,
         request' \in [Users -> RequestRecords],
         \A v \in Users \ {u} : request'[v] = request[v],
         UNCHANGED <<channel_members, channels>>,
         request'[u].op = "approve" /\ request'[u].stage = "update" =>
           request'[u].key = <<request'[u].other, u>>,
         request'[u].op \in {"friend", "approve", "reject", "remove", "channel"} =>
           request'[u].other \in Users \ {u},
         request'[u].op = "channel" =>
           /\ request'[u].stage \in {"call", "create", "ok", "error"}
           /\ request'[u].stage = "ok" =>
                /\ request'[u].channel \in Channels
                /\ channel_members[request'[u].channel] = {u, request'[u].other}
  PROVE  ApprovalKey' /\ ChannelsHold'
<1>1. ApprovalKey'
  BY DEF IInv, ApprovalKey, At
<1>2. \A v \in Users : Building(v)' => v # u /\ Building(v) /\ request'[v] = request[v]
  BY DEF Building, At
<1>3. Begun' /\ BegunOnce'
  BY <1>2 DEF IInv, ChannelsHold, Begun, BegunOnce
<1>4. OtherAsked' /\ ChannelStages' /\ FoundWhole'
  BY DEF IInv, ChannelsHold, OtherAsked, ChannelStages, FoundWhole, At
<1>5. Unmade' /\ AtMostTwo'
  BY DEF IInv, ChannelsHold, Unmade, AtMostTwo
<1> QED
  BY <1>1, <1>3, <1>4, <1>5 DEF ChannelsHold

LEMMA StageTyped ==
  ASSUME TypeOK, NEW u \in Users, NEW stage \in Stages, Goes(u, stage)
  PROVE  /\ request' \in [Users -> RequestRecords]
         /\ \A v \in Users \ {u} : request'[v] = request[v]
         /\ request'[u] = [request[u] EXCEPT !.stage = stage]
<1>1. request \in [Users -> RequestRecords] /\ request[u] \in RequestRecords
  BY DEF TypeOK
<1>2. request' = [request EXCEPT ![u] = [request[u] EXCEPT !.stage = stage]]
  BY <1>1 DEF Goes, RequestRecords
<1>3. [request[u] EXCEPT !.stage = stage] \in RequestRecords
  BY <1>1 DEF RequestRecords
<1> QED
  BY <1>1, <1>2, <1>3

LEMMA BeginsIInv ==
  ASSUME IInv, NEW u \in Users, NEW op \in Requests,
         NEW stage \in {"check", "select", "call", "member", "friends"},
         NEW other \in Users \cup {NoUser}, NEW channel \in Channels \cup {NoChannel},
         NEW message \in Messages \cup {NoMessage},
         op \in {"friend", "approve", "reject", "remove", "channel"} =>
           other \in Users \ {u},
         op = "channel" => stage = "call",
         Begins(u, op, stage, other, channel, message)
  PROVE  IInv'
<1> DEFINE new == Request(op, stage, other, channel, message)
<1>1. /\ request' = [request EXCEPT ![u] = new]
      /\ UNCHANGED <<table_vars, server_vars, inbox, view_vars, world>>
  BY DEF Begins
<1>2. new \in RequestRecords
  BY DEF Request, RequestRecords, NoLists, Lists, Stages, NoKey
<1>3. /\ request' \in [Users -> RequestRecords]
      /\ request'[u] = new
      /\ \A v \in Users \ {u} : request'[v] = request[v]
  BY <1>1, <1>2 DEF IInv, TypeOK
<1>4. TypeOK'
  BY <1>1, <1>3 DEF IInv, TypeOK, table_vars, server_vars, view_vars
<1>5. ApprovalKey' /\ ChannelsHold'
  <2>1. new.op = op /\ new.stage = stage /\ new.other = other
    BY DEF Request
  <2> QED
    BY <1>1, <1>3, <2>1, RequestStep DEF table_vars
<1>6. GivenWhole'
  BY <1>1 DEF IInv, GivenWhole, table_vars, view_vars
<1> QED
  BY <1>4, <1>5, <1>6 DEF IInv

LEMMA UserAsksIInv ==
  ASSUME IInv, NEW u \in Users, UserAsks(u)
  PROVE  IInv'
<1>1. ASSUME NEW v \in Users, SendFriendRequest(u, v) PROVE IInv'
  BY <1>1, BeginsIInv DEF SendFriendRequest, Requests
<1>2. ASSUME NEW v \in Users, SetFriendshipStatus(u, v) PROVE IInv'
  BY <1>2, BeginsIInv DEF SetFriendshipStatus, Requests
<1>3. ASSUME NEW v \in Users, GetPrivateChannel(u, v) PROVE IInv'
  BY <1>3, BeginsIInv DEF GetPrivateChannel, Requests
<1>4. ASSUME NEW c \in Channels, NEW m \in Messages, SendMessage(u, c, m) PROVE IInv'
  BY <1>4, BeginsIInv DEF SendMessage, Requests
<1>5. CASE Login(u)
  BY <1>5, BeginsIInv DEF Login, Requests
<1> QED
  BY <1>1, <1>2, <1>3, <1>4, <1>5 DEF UserAsks

-----------------------------------------------------------------------------
\* A handler that only moves its request to another stage.
LEMMA StageIInv ==
  ASSUME IInv, NEW u \in Users, NEW stage \in Stages, Goes(u, stage), TypeOK',
         UNCHANGED <<channel_members, channels, private_channels>>,
         request[u].op = "approve" => stage # "update",
         request[u].op = "channel" => stage \in {"create", "error"}
  PROVE  IInv'
<1>1. /\ request' \in [Users -> RequestRecords]
      /\ \A v \in Users \ {u} : request'[v] = request[v]
      /\ request'[u] = [request[u] EXCEPT !.stage = stage]
      /\ request[u] \in RequestRecords
  BY StageTyped DEF IInv, TypeOK
<1>2. /\ request'[u].op = request[u].op
      /\ request'[u].other = request[u].other
      /\ request'[u].stage = stage
  BY <1>1 DEF RequestRecords
<1>3. request[u].op \in {"friend", "approve", "reject", "remove", "channel"} =>
        request[u].other \in Users \ {u}
  BY DEF IInv, ChannelsHold, OtherAsked
<1>4. ApprovalKey' /\ ChannelsHold'
  BY <1>1, <1>2, <1>3, RequestStep
<1>5. GivenWhole'
  BY DEF IInv, GivenWhole
<1> QED
  BY <1>4, <1>5 DEF IInv

LEMMA FriendsCheckIInv ==
  ASSUME IInv, NEW u \in Users, FriendsCheck(u)
  PROVE  IInv'
<1>1. PICK stage \in {"insert", "error"} : Goes(u, stage)
  BY DEF FriendsCheck
<1>2. stage \in Stages /\ request[u].op = "friend"
  BY DEF FriendsCheck, At, Stages
<1>3. TypeOK'
  BY <1>1, <1>2, StageTyped DEF IInv, FriendsCheck, TypeOK, table_vars, server_vars,
     view_vars
<1> QED
  BY <1>1, <1>2, <1>3, StageIInv DEF FriendsCheck, table_vars, view_vars

LEMMA FriendInsertIInv ==
  ASSUME IInv, NEW u \in Users, FriendInsert(u)
  PROVE  IInv'
<1>1. Goes(u, "event") /\ "event" \in Stages /\ request[u].op = "friend"
  BY DEF FriendInsert, At, Stages
<1>2. TypeOK'
  BY <1>1, StageTyped DEF IInv, FriendInsert, TypeOK, server_vars, view_vars
<1> QED
  BY <1>1, <1>2, StageIInv DEF FriendInsert, view_vars

LEMMA StatusSelectIInv ==
  ASSUME IInv, NEW u \in Users, StatusSelect(u)
  PROVE  IInv'
<1>1. /\ At(u, {"approve", "reject", "remove"}, "select")
      /\ UNCHANGED <<table_vars, server_vars, inbox, view_vars, world>>
      /\ request[u].op \in {"approve", "reject", "remove"}
      /\ request[u] \in RequestRecords
      /\ request[u].other \in Users \ {u}
  BY DEF StatusSelect, At, IInv, TypeOK, ChannelsHold, OtherAsked
<1>2. CASE Goes(u, "error")
  <2>1. "error" \in Stages
    BY DEF Stages
  <2>2. TypeOK'
    BY <1>1, <1>2, <2>1, StageTyped DEF IInv, TypeOK, table_vars, server_vars, view_vars
  <2> QED
    BY <1>1, <1>2, <2>1, <2>2, StageIInv DEF table_vars, view_vars
<1>3. ASSUME NEW k \in RowsOf(u, request[u].other),
             request' = [request EXCEPT
               ![u].key = k,
               ![u].stage =
                  IF request[u].op # "approve" THEN "delete"
                  ELSE IF k[1] = u \/ friendships[k] = "approved" THEN "error"
                  ELSE "update"]
      PROVE  IInv'
  <2>1. k \in Keys /\ k \in {<<u, request[u].other>>, <<request[u].other, u>>}
    BY <1>1 DEF RowsOf, Keys
  <2> DEFINE stage == IF request[u].op # "approve" THEN "delete"
                      ELSE IF k[1] = u \/ friendships[k] = "approved" THEN "error"
                      ELSE "update"
             new == [request[u] EXCEPT !.key = k, !.stage = stage]
  <2>2. stage \in Stages /\ stage \in {"delete", "error", "update"}
    BY DEF Stages
  <2>3. stage = "update" => k = <<request[u].other, u>>
    BY <2>1
  <2> HIDE DEF stage
  <2>4. /\ new \in RequestRecords
        /\ new.op = request[u].op /\ new.other = request[u].other
        /\ new.key = k /\ new.stage = stage
    BY <1>1, <2>1, <2>2 DEF RequestRecords
  <2>5. request' = [request EXCEPT ![u] = new]
    BY <1>1, <1>3 DEF IInv, TypeOK, RequestRecords, stage
  <2> HIDE DEF new
  <2>6. /\ request' \in [Users -> RequestRecords]
        /\ request'[u] = new
        /\ \A v \in Users \ {u} : request'[v] = request[v]
    BY <2>4, <2>5 DEF IInv, TypeOK
  <2>7. TypeOK'
    BY <1>1, <2>6 DEF IInv, TypeOK, table_vars, server_vars, view_vars
  <2>8. ApprovalKey' /\ ChannelsHold'
    BY <1>1, <2>3, <2>4, <2>6, RequestStep DEF table_vars
  <2>9. GivenWhole'
    BY <1>1 DEF IInv, GivenWhole, table_vars, view_vars
  <2> QED
    BY <2>7, <2>8, <2>9 DEF IInv
<1> QED
  BY <1>2, <1>3 DEF StatusSelect

LEMMA StatusWriteIInv ==
  ASSUME IInv, NEW u \in Users, StatusDelete(u) \/ StatusUpdate(u)
  PROVE  IInv'
<1>1. /\ Goes(u, "event") /\ "event" \in Stages
      /\ request[u].op \in {"approve", "reject", "remove"}
      /\ UNCHANGED <<channel_members, channels, messages, server_vars, inbox,
                     view_vars, world>>
  BY DEF StatusDelete, StatusUpdate, At, Stages
<1>2. friendships' \in [Keys -> {"none", "pending", "approved"}]
  <2>1. CASE StatusDelete(u)
    BY <2>1 DEF StatusDelete, IInv, TypeOK
  <2>2. CASE StatusUpdate(u)
    BY <2>2 DEF StatusUpdate, IInv, TypeOK
  <2> QED
    BY <2>1, <2>2
<1>3. TypeOK'
  BY <1>1, <1>2, StageTyped DEF IInv, TypeOK, server_vars, view_vars
<1> QED
  BY <1>1, <1>3, StageIInv DEF view_vars

LEMMA TriggerEventIInv ==
  ASSUME IInv, NEW u \in Users, TriggerEvent(u)
  PROVE  IInv'
<1>1. /\ Goes(u, "ok") /\ "ok" \in Stages
      /\ UNCHANGED <<table_vars, server_vars, view_vars, world>>
      /\ request[u] \in RequestRecords /\ request[u].stage = "event"
  BY DEF TriggerEvent, Stages, IInv, TypeOK
<1>2. request[u].op # "channel"
  BY <1>1 DEF IInv, ChannelsHold, ChannelStages
<1>3. EventOf(u) \in EventRecords
  BY <1>1 DEF EventOf, EventKind, EventRecords, RequestRecords
<1>4. inbox' \in [Users -> Seq(EventRecords)]
  BY <1>3, AppendProperties DEF TriggerEvent, IInv, TypeOK
<1>5. TypeOK'
  BY <1>1, <1>4, StageTyped DEF IInv, TypeOK, table_vars, server_vars, view_vars
<1> QED
  BY <1>1, <1>2, <1>5, StageIInv DEF table_vars, view_vars

LEMMA ChannelLookupIInv ==
  ASSUME IInv, NEW u \in Users, ChannelLookup(u)
  PROVE  IInv'
<1>1. /\ request[u].op = "channel"
      /\ UNCHANGED <<table_vars, server_vars, inbox, view_vars, world>>
      /\ request[u] \in RequestRecords
      /\ request[u].other \in Users \ {u}
  BY DEF ChannelLookup, At, IInv, TypeOK, ChannelsHold, OtherAsked
<1>2. CASE Goes(u, "create")
  <2>1. "create" \in Stages
    BY DEF Stages
  <2>2. TypeOK'
    BY <1>1, <1>2, <2>1, StageTyped DEF IInv, TypeOK, table_vars, server_vars, view_vars
  <2> QED
    BY <1>1, <1>2, <2>1, <2>2, StageIInv DEF table_vars, view_vars
<1>3. ASSUME NEW c \in ChannelsOf(u, request[u].other),
             request' = [request EXCEPT ![u].channel = c, ![u].stage = "ok"]
      PROVE  IInv'
  <2> DEFINE new == [request[u] EXCEPT !.channel = c, !.stage = "ok"]
  <2>1. c \in Channels /\ {u, request[u].other} \subseteq channel_members[c]
    BY DEF ChannelsOf, IInv, TypeOK
  <2>2. channel_members[c] = {u, request[u].other}
    BY <1>1, <2>1 DEF IInv, ChannelsHold, AtMostTwo
  <2>3. /\ new \in RequestRecords
        /\ new.op = "channel" /\ new.other = request[u].other
        /\ new.channel = c /\ new.stage = "ok"
    BY <1>1, <2>1 DEF RequestRecords, Stages
  <2>4. request' = [request EXCEPT ![u] = new]
    BY <1>1, <1>3 DEF IInv, TypeOK, RequestRecords
  <2> HIDE DEF new
  <2>5. /\ request' \in [Users -> RequestRecords]
        /\ request'[u] = new
        /\ \A v \in Users \ {u} : request'[v] = request[v]
    BY <2>3, <2>4 DEF IInv, TypeOK
  <2>6. TypeOK'
    BY <1>1, <2>5 DEF IInv, TypeOK, table_vars, server_vars, view_vars
  <2>7. ApprovalKey' /\ ChannelsHold'
    BY <1>1, <2>1, <2>2, <2>3, <2>5, RequestStep DEF table_vars
  <2>8. GivenWhole'
    BY <1>1 DEF IInv, GivenWhole, table_vars, view_vars
  <2> QED
    BY <2>6, <2>7, <2>8 DEF IInv
<1> QED
  BY <1>2, <1>3 DEF ChannelLookup

LEMMA CreateChannelIInv ==
  ASSUME IInv, NEW u \in Users, CreateChannel(u)
  PROVE  IInv'
<1> DEFINE c == CHOOSE c \in Channels : c \notin channels
           new == [request[u] EXCEPT !.channel = c, !.stage = "self"]
<1>1. /\ request[u].op = "channel"
      /\ channels' = channels \cup {c}
      /\ request' = [request EXCEPT ![u].channel = c, ![u].stage = "self"]
      /\ UNCHANGED <<friendships, channel_members, messages, server_vars, inbox,
                     view_vars, world>>
      /\ request[u] \in RequestRecords
      /\ request[u].other \in Users \ {u}
  BY DEF CreateChannel, At, IInv, TypeOK, ChannelsHold, OtherAsked
<1>2. c \in Channels /\ c \notin channels
  BY DEF CreateChannel, IInv, TypeOK
<1> HIDE DEF c
<1>3. channel_members[c] = {}
  BY <1>2 DEF IInv, ChannelsHold, Unmade
<1>4. /\ new \in RequestRecords
      /\ new.op = "channel" /\ new.other = request[u].other
      /\ new.channel = c /\ new.stage = "self"
  BY <1>1, <1>2 DEF RequestRecords, Stages
<1>5. request' = [request EXCEPT ![u] = new]
  BY <1>1 DEF IInv, TypeOK, RequestRecords
<1> HIDE DEF new
<1>6. /\ request' \in [Users -> RequestRecords]
      /\ request'[u] = new
      /\ \A v \in Users \ {u} : request'[v] = request[v]
  BY <1>4, <1>5 DEF IInv, TypeOK
<1>7. TypeOK'
  BY <1>1, <1>2, <1>6 DEF IInv, TypeOK, server_vars, view_vars
<1>8. \A v \in Users : Building(v)' =>
        v = u \/ (v # u /\ Building(v) /\ request'[v] = request[v])
  BY <1>6 DEF Building, At
<1>0. Begun /\ BegunOnce /\ OtherAsked /\ ChannelStages /\ FoundWhole /\ ApprovalKey
  BY DEF IInv, ChannelsHold
<1>9. Begun'
  <2>1. /\ request'[u].channel \in channels'
        /\ channel_members'[request'[u].channel] = {} /\ request'[u].stage = "self"
    BY <1>1, <1>3, <1>4, <1>6
  <2>2. ASSUME NEW v \in Users, v # u, Building(v), request'[v] = request[v]
        PROVE  /\ request'[v].channel \in channels'
               /\ channel_members'[request'[v].channel] =
                    IF request'[v].stage = "self" THEN {} ELSE {v}
    BY <1>0, <1>1, <2>2 DEF Begun
  <2> QED
    BY <1>8, <2>1, <2>2 DEF Begun
<1>10. BegunOnce'
  <2>1. request'[u].channel = c
    BY <1>4, <1>6
  <2>2. \A v \in Users : Building(v) => request[v].channel # c
    BY <1>0, <1>2 DEF Begun
  <2> QED
    BY <1>0, <1>8, <2>1, <2>2 DEF BegunOnce
<1>11. OtherAsked' /\ ChannelStages' /\ FoundWhole' /\ ApprovalKey'
  <2>1. /\ request'[u].op = "channel" /\ request'[u].other \in Users \ {u}
        /\ request'[u].stage = "self"
    BY <1>1, <1>4, <1>6
  <2>2. OtherAsked' /\ ChannelStages'
    BY <1>0, <1>6, <2>1 DEF OtherAsked, ChannelStages
  <2>3. FoundWhole' /\ ApprovalKey'
    BY <1>0, <1>1, <1>6, <2>1 DEF FoundWhole, ApprovalKey, At
  <2> QED
    BY <2>2, <2>3
<1>12. Unmade' /\ AtMostTwo'
  BY <1>1 DEF IInv, ChannelsHold, Unmade, AtMostTwo
<1>13. GivenWhole'
  BY <1>1 DEF IInv, GivenWhole, view_vars
<1> QED
  BY <1>7, <1>9, <1>10, <1>11, <1>12, <1>13 DEF IInv, ChannelsHold

LEMMA AddMemberIInv ==
  ASSUME IInv, NEW u \in Users, AddMember(u)
  PROVE  IInv'
<1> DEFINE self == request[u].stage = "self"
           c == request[u].channel
           stage == IF self THEN "other" ELSE "ok"
           member == IF self THEN u ELSE request[u].other
<1>1. /\ request[u].op = "channel" /\ Building(u)
      /\ channel_members' = [channel_members EXCEPT ![c] = @ \cup {member}]
      /\ Goes(u, stage)
      /\ UNCHANGED <<friendships, channels, messages, server_vars, inbox,
                     view_vars, world>>
      /\ request[u] \in RequestRecords
      /\ request[u].other \in Users \ {u}
  BY DEF AddMember, Building, At, IInv, TypeOK, ChannelsHold, OtherAsked
<1>2. c \in channels /\ c \in Channels
  BY <1>1 DEF IInv, TypeOK, ChannelsHold, Begun
<1>3. channel_members[c] = IF self THEN {} ELSE {u}
  BY <1>1 DEF IInv, ChannelsHold, Begun
<1>4. /\ request' \in [Users -> RequestRecords]
      /\ \A v \in Users \ {u} : request'[v] = request[v]
      /\ request'[u].op = "channel" /\ request'[u].other = request[u].other
      /\ request'[u].channel = c /\ request'[u].stage = stage
  <2>1. stage \in Stages
    BY DEF Stages
  <2>2. /\ request' \in [Users -> RequestRecords]
        /\ \A v \in Users \ {u} : request'[v] = request[v]
        /\ request'[u] = [request[u] EXCEPT !.stage = stage]
    BY <1>1, <2>1, StageTyped DEF IInv
  <2> QED
    BY <1>1, <2>2 DEF RequestRecords
<1>5. /\ channel_members' \in [Channels -> SUBSET Users]
      /\ channel_members'[c] = IF self THEN {u} ELSE {u, request[u].other}
      /\ \A d \in Channels \ {c} : channel_members'[d] = channel_members[d]
  BY <1>1, <1>2, <1>3 DEF IInv, TypeOK
<1>6. TypeOK'
  BY <1>1, <1>4, <1>5 DEF IInv, TypeOK, server_vars, view_vars
<1>7. \A v \in Users : Building(v)' =>
        \/ v = u /\ self
        \/ /\ v # u /\ Building(v) /\ request'[v] = request[v]
           /\ request[v].channel \in Channels \ {c}
  <2>1. \A v \in Users : Building(v)' =>
          \/ v = u /\ self
          \/ v # u /\ Building(v) /\ request'[v] = request[v]
    BY <1>4 DEF Building, At
  <2>2. \A v \in Users \ {u} : Building(v) => request[v].channel \in channels \ {c}
    BY <1>1 DEF IInv, ChannelsHold, Begun, BegunOnce
  <2>3. channels \subseteq Channels
    BY DEF IInv, TypeOK
  <2> QED
    BY <2>1, <2>2, <2>3
<1>8. Begun'
  <2> SUFFICES ASSUME NEW v \in Users, Building(v)'
               PROVE  /\ request'[v].channel \in channels'
                      /\ channel_members'[request'[v].channel] =
                           IF request'[v].stage = "self" THEN {} ELSE {v}
    BY DEF Begun
  <2>1. CASE v = u /\ self
    BY <1>1, <1>2, <1>4, <1>5, <2>1
  <2>2. CASE /\ v # u /\ Building(v) /\ request'[v] = request[v]
             /\ request[v].channel \in Channels \ {c}
    BY <1>1, <1>5, <2>2 DEF IInv, ChannelsHold, Begun
  <2> QED
    BY <1>7, <2>1, <2>2
<1>9. BegunOnce'
  BY <1>4, <1>7 DEF IInv, ChannelsHold, BegunOnce
<1>10. FoundWhole'
  <2> SUFFICES ASSUME NEW v \in Users, At(v, {"channel"}, "ok")'
               PROVE  /\ request'[v].channel \in Channels
                      /\ channel_members'[request'[v].channel] =
                           {v, request'[v].other}
    BY DEF FoundWhole
  <2>1. CASE v = u
    BY <1>2, <1>4, <1>5, <2>1 DEF At
  <2>2. CASE v # u
    <3>1. At(v, {"channel"}, "ok") /\ request'[v] = request[v]
      BY <1>4, <2>2 DEF At
    <3>2. /\ request[v].channel \in Channels
          /\ channel_members[request[v].channel] = {v, request[v].other}
          /\ request[v].other # v
      BY <3>1 DEF IInv, ChannelsHold, FoundWhole, OtherAsked, At
    <3>3. request[v].channel # c
      BY <1>3, <3>2
    <3> QED
      BY <1>5, <3>1, <3>2, <3>3
  <2> QED
    BY <2>1, <2>2
<1>11. OtherAsked' /\ ChannelStages' /\ ApprovalKey'
  BY <1>1, <1>4 DEF IInv, ChannelsHold, OtherAsked, ChannelStages, ApprovalKey, At
<1>12. Unmade' /\ AtMostTwo'
  BY <1>1, <1>2, <1>5 DEF IInv, ChannelsHold, Unmade, AtMostTwo
<1>13. GivenWhole'
  <2> SUFFICES ASSUME NEW v \in Users, NEW w \in Users, private_channels'[v][w] # NoChannel
               PROVE  v # w /\ channel_members'[private_channels'[v][w]] = {v, w}
    BY DEF GivenWhole
  <2> DEFINE d == private_channels[v][w]
  <2>1. /\ private_channels' = private_channels
        /\ d \in Channels /\ v # w /\ channel_members[d] = {v, w}
    BY <1>1 DEF IInv, TypeOK, GivenWhole, view_vars
  <2>2. d # c
    BY <1>3, <2>1
  <2> QED
    BY <1>5, <2>1, <2>2
<1> QED
  BY <1>6, <1>8, <1>9, <1>10, <1>11, <1>12, <1>13 DEF IInv, ChannelsHold

LEMMA MessageIInv ==
  ASSUME IInv, NEW u \in Users,
         MessageCheck(u) \/ MessageInsert(u) \/ MessageMembers(u)
  PROVE  IInv'
<1>1. PICK stage \in {"insert", "error", "members", "event"} : Goes(u, stage)
  BY DEF MessageCheck, MessageInsert, MessageMembers
<1>2. /\ stage \in Stages /\ request[u].op = "message"
      /\ UNCHANGED <<friendships, channel_members, channels, server_vars, inbox,
                     view_vars, world>>
      /\ request[u] \in RequestRecords
  BY DEF MessageCheck, MessageInsert, MessageMembers, At, Stages, table_vars, IInv, TypeOK
<1>3. messages' \in [Messages -> [sender : Users \cup {NoUser},
                                  channel : Channels \cup {NoChannel}]]
  BY <1>2 DEF MessageCheck, MessageInsert, MessageMembers, table_vars, IInv, TypeOK,
     RequestRecords
<1>4. TypeOK'
  BY <1>1, <1>2, <1>3, StageTyped DEF IInv, TypeOK, server_vars, view_vars
<1> QED
  BY <1>1, <1>2, <1>4, StageIInv DEF view_vars

LEMMA EnterSessionIInv ==
  ASSUME IInv, NEW u \in Users, EnterSession(u)
  PROVE  IInv'
<1>1. /\ Goes(u, "ok") /\ "ok" \in Stages /\ request[u].op # "channel"
      /\ request[u].op # "approve"
      /\ UNCHANGED <<table_vars, inbox, view_vars, world>>
      /\ online' = online \cup {u} /\ sessions_mutex' = NoUser
  BY DEF EnterSession, At, Stages
<1>2. TypeOK'
  BY <1>1, StageTyped DEF IInv, TypeOK, table_vars, view_vars
<1> QED
  BY <1>1, <1>2, StageIInv DEF table_vars, view_vars

LEMMA StatementFailsIInv ==
  ASSUME IInv, NEW u \in Users, StatementFails(u)
  PROVE  IInv'
<1>1. /\ Goes(u, "error") /\ "error" \in Stages
      /\ UNCHANGED <<table_vars, online, inbox, view_vars, world>>
      /\ sessions_mutex' \in Users \cup {NoUser}
  BY DEF StatementFails, Stages, IInv, TypeOK
<1>2. TypeOK'
  BY <1>1, StageTyped DEF IInv, TypeOK, table_vars, view_vars
<1> QED
  BY <1>1, <1>2, StageIInv DEF table_vars, view_vars

LEMMA GetListsIInv ==
  ASSUME IInv, NEW u \in Users, GetFriends(u) \/ GetFriendRequests(u)
  PROVE  IInv'
<1>1. PICK stage \in {"requests", "enter"}, lists \in Lists :
        request' = [request EXCEPT
          ![u] = [request[u] EXCEPT !.stage = stage, !.lists = lists]]
  <2>1. request \in [Users -> RequestRecords] /\ request[u] \in RequestRecords
        /\ request[u].lists \in Lists
    BY DEF IInv, TypeOK, RequestRecords
  <2>2. CASE GetFriends(u)
    <3> DEFINE found == {v \in Users : \E k \in RowsOf(u, v) :
                                         friendships[k] = "approved"}
               lists == [request[u].lists EXCEPT !.friends = found]
    <3>1. lists \in Lists
      BY <2>1 DEF Lists
    <3>2. request' = [request EXCEPT ![u].stage = "requests", ![u].lists.friends = found]
      BY <2>2 DEF GetFriends
    <3> HIDE DEF found
    <3>3. request' = [request EXCEPT
            ![u] = [request[u] EXCEPT !.stage = "requests", !.lists = lists]]
      BY <2>1, <3>2 DEF RequestRecords, Lists
    <3> QED
      BY <3>1, <3>3
  <2>3. CASE GetFriendRequests(u)
    <3> DEFINE found == {r \in Users \X {"requester", "recipient"} :
                           friendships[IF r[2] = "requester" THEN <<r[1], u>>
                                       ELSE <<u, r[1]>>] = "pending"}
               lists == [request[u].lists EXCEPT !.requests = found]
    <3>1. lists \in Lists
      BY <2>1 DEF Lists
    <3>2. request' = [request EXCEPT ![u].stage = "enter", ![u].lists.requests = found]
      BY <2>3 DEF GetFriendRequests
    <3> HIDE DEF found
    <3>3. request' = [request EXCEPT
            ![u] = [request[u] EXCEPT !.stage = "enter", !.lists = lists]]
      BY <2>1, <3>2 DEF RequestRecords, Lists
    <3> QED
      BY <3>1, <3>3
  <2> QED
    BY <2>2, <2>3
<1> DEFINE new == [request[u] EXCEPT !.stage = stage, !.lists = lists]
<1>2. /\ UNCHANGED <<table_vars, online, inbox, view_vars, world>>
      /\ sessions_mutex' \in Users \cup {NoUser}
      /\ request[u].op \in {"login", "resume"}
      /\ request[u] \in RequestRecords
  BY DEF GetFriends, GetFriendRequests, At, server_vars, IInv, TypeOK
<1>3. new \in RequestRecords /\ new.op = request[u].op
  BY <1>2 DEF RequestRecords, Stages
<1> HIDE DEF new
<1>4. /\ request' \in [Users -> RequestRecords]
      /\ request'[u] = new
      /\ \A v \in Users \ {u} : request'[v] = request[v]
  BY <1>1, <1>3 DEF IInv, TypeOK, new
<1>5. TypeOK'
  BY <1>2, <1>4 DEF IInv, TypeOK, table_vars, view_vars
<1>6. ApprovalKey' /\ ChannelsHold'
  BY <1>2, <1>3, <1>4, RequestStep DEF table_vars
<1>7. GivenWhole'
  BY <1>2 DEF IInv, GivenWhole, table_vars, view_vars
<1> QED
  BY <1>5, <1>6, <1>7 DEF IInv

LEMMA HandlerIInv ==
  ASSUME IInv, NEW u \in Users, Handler(u)
  PROVE  IInv'
BY FriendsCheckIInv, FriendInsertIInv, StatusSelectIInv, StatusWriteIInv,
   TriggerEventIInv, ChannelLookupIInv, CreateChannelIInv, AddMemberIInv, MessageIInv,
   GetListsIInv, EnterSessionIInv, StatementFailsIInv
   DEF Handler

-----------------------------------------------------------------------------
\* The answer frees the request.
LEMMA AnsweredIInv ==
  ASSUME IInv, NEW u \in Users, request' = [request EXCEPT ![u] = NoRequest],
         UNCHANGED <<channel_members, channels>>
  PROVE  /\ request' \in [Users -> RequestRecords]
         /\ ApprovalKey' /\ ChannelsHold'
<1>1. NoRequest.op = "none"
  BY DEF NoRequest, Request
<1>2. /\ request' \in [Users -> RequestRecords]
      /\ request'[u] = NoRequest
      /\ \A v \in Users \ {u} : request'[v] = request[v]
  BY NoRequestTyped DEF IInv, TypeOK
<1> QED
  BY <1>1, <1>2, RequestStep

LEMMA FulfilledIInv ==
  ASSUME IInv, NEW u \in Users, Fulfilled(u)
  PROVE  IInv'
<1> DEFINE op == request[u].op
           v == request[u].other
<1>1. /\ request' = [request EXCEPT ![u] = NoRequest]
      /\ UNCHANGED <<table_vars, server_vars, inbox, shown, updating, world>>
      /\ request[u] \in RequestRecords
      /\ request[u].stage = "ok"
  BY DEF Fulfilled, IInv, TypeOK
<1>2. op \in {"friend", "approve", "reject", "remove", "channel"} => v \in Users \ {u}
  BY DEF IInv, ChannelsHold, OtherAsked
<1>3. request[u].lists.friends \in SUBSET Users
      /\ request[u].lists.requests \in SUBSET (Users \X {"requester", "recipient"})
  BY <1>1 DEF RequestRecords, Lists
<1>4. friends' \in [Users -> SUBSET Users]
  <2>1. friends \in [Users -> SUBSET Users]
    BY DEF IInv, TypeOK
  <2>2. CASE op = "approve"
    BY <1>2, <2>1, <2>2 DEF Fulfilled
  <2>3. CASE op = "remove"
    BY <2>1, <2>3 DEF Fulfilled
  <2>4. CASE op \in {"login", "resume"}
    BY <1>3, <2>1, <2>4 DEF Fulfilled
  <2>5. CASE op \notin {"approve", "remove", "login", "resume"}
    BY <2>1, <2>5 DEF Fulfilled
  <2> QED
    BY <2>2, <2>3, <2>4, <2>5
<1>5. friend_requests' \in [Users -> SUBSET (Users \X {"requester", "recipient"})]
  <2>1. friend_requests \in [Users -> SUBSET (Users \X {"requester", "recipient"})]
    BY DEF IInv, TypeOK
  <2>2. CASE op = "friend"
    BY <1>2, <2>1, <2>2 DEF Fulfilled
  <2>3. CASE op \in {"approve", "reject"}
    BY <2>1, <2>3 DEF Fulfilled, WithoutRequest
  <2>4. CASE op \in {"login", "resume"}
    BY <1>3, <2>1, <2>4 DEF Fulfilled
  <2>5. CASE op \notin {"friend", "approve", "reject", "login", "resume"}
    BY <2>1, <2>5 DEF Fulfilled
  <2> QED
    BY <2>2, <2>3, <2>4, <2>5
<1>6. CASE op = "channel"
  <2>1. /\ request[u].channel \in Channels
        /\ channel_members[request[u].channel] = {u, v}
    BY <1>1, <1>6 DEF At, IInv, ChannelsHold, FoundWhole
  <2>2. private_channels' = [private_channels EXCEPT ![u][v] = request[u].channel]
    BY <1>6 DEF Fulfilled
  <2>3. /\ private_channels' \in [Users -> [Users -> Channels \cup {NoChannel}]]
        /\ \A x, y \in Users :
             private_channels'[x][y] = IF x = u /\ y = v THEN request[u].channel
                                       ELSE private_channels[x][y]
    BY <1>2, <1>6, <2>1, <2>2 DEF IInv, TypeOK
  <2>4. GivenWhole'
    BY <1>1, <1>2, <1>6, <2>1, <2>3 DEF IInv, GivenWhole, table_vars
  <2>5. TypeOK'
    BY <1>1, <1>4, <1>5, <2>3, AnsweredIInv
       DEF IInv, TypeOK, table_vars, server_vars
  <2> QED
    BY <1>1, <2>4, <2>5, AnsweredIInv DEF IInv, table_vars
<1>7. CASE op # "channel"
  <2>1. private_channels' = private_channels
    BY <1>7 DEF Fulfilled
  <2>2. GivenWhole'
    BY <1>1, <2>1 DEF IInv, GivenWhole, table_vars
  <2>3. TypeOK'
    BY <1>1, <1>4, <1>5, <2>1, AnsweredIInv
       DEF IInv, TypeOK, table_vars, server_vars
  <2> QED
    BY <1>1, <2>2, <2>3, AnsweredIInv DEF IInv, table_vars
<1> QED
  BY <1>6, <1>7

LEMMA RejectedIInv ==
  ASSUME IInv, NEW u \in Users, Rejected(u)
  PROVE  IInv'
<1>1. /\ request' = [request EXCEPT ![u] = NoRequest]
      /\ UNCHANGED <<table_vars, server_vars, inbox, view_vars, world>>
  BY DEF Rejected
<1>2. TypeOK'
  BY <1>1, AnsweredIInv DEF IInv, TypeOK, table_vars, server_vars, view_vars
<1>3. GivenWhole'
  BY <1>1 DEF IInv, GivenWhole, table_vars, view_vars
<1> QED
  BY <1>1, <1>2, <1>3, AnsweredIInv DEF IInv, table_vars

\* The interface shows an event: nothing but its lists and its inbox changes.
LEMMA ShowsIInv ==
  ASSUME IInv,
         UNCHANGED <<table_vars, server_vars, request, private_channels, world>>,
         inbox' \in [Users -> Seq(EventRecords)],
         friends' \in [Users -> SUBSET Users],
         friend_requests' \in [Users -> SUBSET (Users \X {"requester", "recipient"})],
         shown' \in [Users -> SUBSET (Messages \cup {NoMessage})],
         updating' \in [Users -> SUBSET [from : Users, lists : Lists]]
  PROVE  IInv'
<1>1. TypeOK'
  BY DEF IInv, TypeOK, table_vars, server_vars
<1>2. ApprovalKey' /\ GivenWhole'
  BY DEF IInv, ApprovalKey, GivenWhole, At, table_vars
<1>3. OtherAsked' /\ ChannelStages' /\ FoundWhole'
  BY DEF IInv, ChannelsHold, OtherAsked, ChannelStages, FoundWhole, At, table_vars
<1>4. Begun' /\ BegunOnce'
  BY DEF IInv, ChannelsHold, Begun, BegunOnce, Building, At, table_vars
<1>5. Unmade' /\ AtMostTwo'
  BY DEF IInv, ChannelsHold, Unmade, AtMostTwo, table_vars
<1> QED
  BY <1>1, <1>2, <1>3, <1>4, <1>5 DEF IInv, ChannelsHold

LEMMA FriendRequestShownIInv ==
  ASSUME IInv, NEW u \in Users, NEW s \in updating[u], FriendRequestShown(u, s)
  PROVE  IInv'
<1>1. s \in [from : Users, lists : Lists]
  BY DEF IInv, TypeOK
<1>2. /\ s.from \in Users /\ s.lists.friends \in SUBSET Users
      /\ s.lists.requests \in SUBSET (Users \X {"requester", "recipient"})
  BY <1>1 DEF Lists
<1>3. updating' \in [Users -> SUBSET [from : Users, lists : Lists]]
  BY DEF FriendRequestShown, IInv, TypeOK
<1>4. friends' \in [Users -> SUBSET Users]
  BY <1>2 DEF FriendRequestShown, IInv, TypeOK
<1>5. friend_requests' \in [Users -> SUBSET (Users \X {"requester", "recipient"})]
  BY <1>2 DEF FriendRequestShown, IInv, TypeOK
<1>6. /\ inbox' \in [Users -> Seq(EventRecords)]
      /\ shown' \in [Users -> SUBSET (Messages \cup {NoMessage})]
  BY DEF FriendRequestShown, IInv, TypeOK
<1> QED
  BY <1>3, <1>4, <1>5, <1>6, ShowsIInv DEF FriendRequestShown

LEMMA HandleEventIInv ==
  ASSUME IInv, NEW u \in Users, HandleEvent(u)
  PROVE  IInv'
<1> DEFINE e == Head(inbox[u])
           Requested == SUBSET (Users \X {"requester", "recipient"})
<1>1. inbox[u] \in Seq(EventRecords) /\ inbox[u] # <<>>
  BY DEF HandleEvent, IInv, TypeOK
<1>2. /\ e \in EventRecords /\ Tail(inbox[u]) \in Seq(EventRecords)
  BY <1>1, HeadTailProperties
<1>3. inbox' = [inbox EXCEPT ![u] = Tail(inbox[u])]
  BY <1>1 DEF HandleEvent, IInv, TypeOK
<1>4. inbox' \in [Users -> Seq(EventRecords)]
  BY <1>2, <1>3 DEF IInv, TypeOK
<1> HIDE DEF e
<1>5. e.from \in Users /\ e.message \in Messages \cup {NoMessage}
  BY <1>2 DEF EventRecords
<1>6. /\ shown' = IF e.kind = "message"
                    THEN [shown EXCEPT ![u] = @ \cup {e.message}] ELSE shown
      /\ UNCHANGED <<table_vars, server_vars, request, private_channels, world>>
      /\ \/ UNCHANGED <<friends, friend_requests, updating>>
         \/ FriendRequestEvent(u, e.from)
         \/ \E approved \in BOOLEAN : FriendshipStatusEvent(u, e.from, approved)
  BY DEF HandleEvent, e
<1>7. shown' \in [Users -> SUBSET (Messages \cup {NoMessage})]
  BY <1>5, <1>6 DEF IInv, TypeOK
<1>8. /\ friends \in [Users -> SUBSET Users]
      /\ friend_requests \in [Users -> Requested]
      /\ updating \in [Users -> SUBSET [from : Users, lists : Lists]]
  BY DEF IInv, TypeOK
<1>9. /\ friends' \in [Users -> SUBSET Users]
      /\ friend_requests' \in [Users -> Requested]
      /\ updating' \in [Users -> SUBSET [from : Users, lists : Lists]]
  <2>1. CASE UNCHANGED <<friends, friend_requests, updating>>
    BY <1>8, <2>1
  <2>2. CASE FriendRequestEvent(u, e.from)
    <3> DEFINE copy == [friends |-> friends[u], requests |-> friend_requests[u]]
    <3>1. [from |-> e.from, lists |-> copy] \in [from : Users, lists : Lists]
      BY <1>5, <1>8 DEF Lists
    <3>2. CASE /\ updating' =
                    [updating EXCEPT ![u] = @ \cup {[from |-> e.from, lists |-> copy]}]
               /\ UNCHANGED <<friends, friend_requests>>
      BY <1>8, <3>1, <3>2
    <3>3. CASE /\ friend_requests' =
                    [friend_requests EXCEPT ![u] = @ \cup {<<e.from, "requester">>}]
               /\ UNCHANGED <<friends, updating>>
      BY <1>5, <1>8, <3>3
    <3> QED
      BY <2>2, <3>2, <3>3 DEF FriendRequestEvent
  <2>3. ASSUME NEW approved \in BOOLEAN, FriendshipStatusEvent(u, e.from, approved)
        PROVE  /\ friends' \in [Users -> SUBSET Users]
               /\ friend_requests' \in [Users -> Requested]
               /\ updating' \in [Users -> SUBSET [from : Users, lists : Lists]]
    <3>1. updating' = updating
      BY <2>3 DEF FriendshipStatusEvent
    <3>2. friend_requests' \in [Users -> Requested]
      BY <1>8, <2>3 DEF FriendshipStatusEvent, WithoutRequest
    <3>3. friends' \in [Users -> SUBSET Users]
      BY <1>5, <1>8, <2>3 DEF FriendshipStatusEvent
    <3> QED
      BY <1>8, <3>1, <3>2, <3>3
  <2> QED
    BY <1>6, <2>1, <2>2, <2>3
<1> QED
  BY <1>4, <1>6, <1>7, <1>9, ShowsIInv

-----------------------------------------------------------------------------
\* What holds of every reachable state: the types, that an approval under way is
\* of the other's request, and what is known of the channels while they are made.
THEOREM InductiveInvariant == Spec => []IInv
<1>1. IInv /\ [Next]_vars => IInv'
  <2> SUFFICES ASSUME IInv, [Next]_vars PROVE IInv'
    OBVIOUS
  <2>1. CASE UNCHANGED vars
    BY <2>1, ShowsIInv DEF vars, view_vars, IInv, TypeOK
  <2>2. ASSUME NEW u \in Users, Interface(u) PROVE IInv'
    BY <2>2, FulfilledIInv, RejectedIInv, FriendRequestShownIInv, HandleEventIInv
       DEF Interface
  <2> QED
    BY <2>1, <2>2, UserAsksIInv, HandlerIInv DEF Next
<1> QED
  BY <1>1, InitIInv, PTL DEF Spec

\* The tables, the requests, the events and the lists of the interfaces keep to
\* their types.
THEOREM TypeCorrect == Spec => []TypeOK
<1>1. IInv => TypeOK
  BY DEF IInv
<1> QED
  BY <1>1, InductiveInvariant, PTL

\* A private channel a client was given has the two users as its only members,
\* whatever statements fail and whoever else asks for a channel meanwhile.
THEOREM ChannelAlwaysWhole == Spec => []ChannelIsWhole
<1>1. IInv => ChannelIsWhole
  BY DEF IInv, GivenWhole, ChannelIsWhole
<1> QED
  BY <1>1, InductiveInvariant, PTL

\* Only an approval by the user who received the request makes a friendship,
\* however many rows come and go between its SELECT and its UPDATE.
THEOREM ApprovalsByRecipient == Spec => ApprovedByRecipient
<1> DEFINE Approved(k) == friendships'[k] = "approved" /\ friendships[k] # "approved"
           Wanted ==
             \A k \in Keys : Approved(k) =>
               /\ friendships[k] = "pending"
               /\ request[k[2]].op = "approve" /\ request[k[2]].other = k[1]
<1>1. IInv /\ [Next]_vars => Wanted
  <2> SUFFICES ASSUME IInv, [Next]_vars, NEW k \in Keys, Approved(k)
               PROVE  /\ friendships[k] = "pending"
                      /\ request[k[2]].op = "approve" /\ request[k[2]].other = k[1]
    OBVIOUS
  <2>0. friendships \in [Keys -> {"none", "pending", "approved"}]
    BY DEF IInv, TypeOK
  <2>1. PICK u \in Users : UserAsks(u) \/ Handler(u) \/ Interface(u)
    BY DEF Next, vars, table_vars
  <2>2. CASE UserAsks(u)
    BY <2>2 DEF UserAsks, SendFriendRequest, SetFriendshipStatus, GetPrivateChannel,
       SendMessage, Login, Begins, table_vars
  <2>3. CASE Interface(u)
    BY <2>3 DEF Interface, Fulfilled, Rejected, FriendRequestShown, HandleEvent,
       table_vars
  <2>4. CASE Handler(u)
    <3>1. CASE FriendInsert(u)
      BY <2>0, <3>1 DEF FriendInsert
    <3>2. CASE StatusDelete(u)
      BY <2>0, <3>2 DEF StatusDelete
    <3>3. CASE StatusUpdate(u)
      <4>1. request[u].key = <<request[u].other, u>> /\ request[u].op = "approve"
        BY <3>3 DEF StatusUpdate, At, IInv, ApprovalKey
      <4>2. k = request[u].key /\ friendships[k] = "pending"
        BY <2>0, <3>3 DEF StatusUpdate
      <4> QED
        BY <4>1, <4>2
    <3>4. CASE friendships' = friendships
      BY <3>4
    <3> QED
      BY <2>4, <3>1, <3>2, <3>3, <3>4
         DEF Handler, FriendsCheck, StatusSelect, TriggerEvent, ChannelLookup,
             CreateChannel, AddMember, MessageCheck, MessageInsert, MessageMembers,
             GetFriends, GetFriendRequests, EnterSession, StatementFails, table_vars
  <2> QED
    BY <2>1, <2>2, <2>3, <2>4
<1>2. Spec => [][Wanted]_vars
  BY <1>1, InductiveInvariant, PTL DEF Spec
<1> QED
  BY <1>2 DEF ApprovedByRecipient
-----------------------------------------------------------------------------
\* What a step does to the requests.  An answer, or a new request, replaces the
\* one of its user; a handler keeps what was asked.
LEMMA UserStepMoves ==
  ASSUME IInv, NEW u \in Users, UserAsks(u) \/ Handler(u) \/ Interface(u)
  PROVE  /\ world' = world
         /\ \A v \in Users \ {u} : request'[v] = request[v]
BY DEF IInv, TypeOK, UserAsks, SendFriendRequest, SetFriendshipStatus, GetPrivateChannel,
       SendMessage, Login, Begins, Handler, FriendsCheck, FriendInsert, StatusSelect,
       StatusDelete, StatusUpdate, TriggerEvent, ChannelLookup, CreateChannel, AddMember,
       MessageCheck, MessageInsert, MessageMembers, GetFriends, GetFriendRequests,
       EnterSession, StatementFails, Goes, Interface, Fulfilled, Rejected,
       FriendRequestShown, HandleEvent

LEMMA GoesMoves ==
  ASSUME IInv, NEW u \in Users, NEW stage, Goes(u, stage)
  PROVE  request'[u] = [request[u] EXCEPT !.stage = stage]
BY DEF IInv, TypeOK, Goes

LEMMA StageMoves ==
  ASSUME IInv, NEW u \in Users, NEW stage, Goes(u, stage)
  PROVE  request'[u].stage = stage
<1>1. request[u] \in RequestRecords
  BY DEF IInv, TypeOK
<1>2. request'[u] = [request[u] EXCEPT !.stage = stage]
  BY GoesMoves
<1> QED
  BY <1>1, <1>2 DEF RequestRecords

LEMMA HandlerMoves ==
  ASSUME IInv, NEW u \in Users, Handler(u)
  PROVE  /\ request'[u].op = request[u].op
         /\ request'[u].other = request[u].other
         /\ request'[u].message = request[u].message
         /\ request'[u].op # "channel" => request'[u].channel = request[u].channel
         /\ request[u] # NoRequest
         /\ UNCHANGED view_vars
<1>1. request \in [Users -> RequestRecords] /\ request[u] \in RequestRecords
  BY DEF IInv, TypeOK
<1>2. UNCHANGED view_vars /\ request[u] # NoRequest
  BY DEF Handler, FriendsCheck, FriendInsert, StatusSelect, StatusDelete, StatusUpdate,
         TriggerEvent, ChannelLookup, CreateChannel, AddMember, MessageCheck,
         MessageInsert, MessageMembers, GetFriends, GetFriendRequests, EnterSession,
         StatementFails, At, NoRequest, Request
<1>3. ASSUME NEW stage, Goes(u, stage)
      PROVE  /\ request'[u].op = request[u].op
             /\ request'[u].other = request[u].other
             /\ request'[u].message = request[u].message
             /\ request'[u].channel = request[u].channel
  <2>1. request'[u] = [request[u] EXCEPT !.stage = stage]
    BY <1>3, GoesMoves
  <2> QED
    BY <1>1, <2>1 DEF RequestRecords
<1>4. CASE StatusSelect(u) \/ GetFriends(u) \/ GetFriendRequests(u)
  <2>1. CASE StatusSelect(u)
    <3>1. ASSUME NEW k, NEW stage,
                 request' = [request EXCEPT ![u].key = k, ![u].stage = stage]
          PROVE  /\ request'[u].op = request[u].op
                 /\ request'[u].other = request[u].other
                 /\ request'[u].message = request[u].message
                 /\ request'[u].channel = request[u].channel
      BY <1>1, <3>1 DEF RequestRecords
    <3>2. \/ Goes(u, "error")
          \/ \E k, stage : request' = [request EXCEPT ![u].key = k, ![u].stage = stage]
      BY <2>1 DEF StatusSelect
    <3>3. request[u].op \in {"approve", "reject", "remove"}
      BY <2>1 DEF StatusSelect, At
    <3> QED
      BY <1>2, <1>3, <3>1, <3>2, <3>3
  <2>2. CASE GetFriends(u)
    <3>1. ASSUME NEW S, request' = [request EXCEPT ![u].stage = "requests",
                                      ![u].lists.friends = S]
          PROVE  /\ request'[u].op = request[u].op
                 /\ request'[u].other = request[u].other
                 /\ request'[u].message = request[u].message
                 /\ request'[u].channel = request[u].channel
      BY <1>1, <3>1 DEF RequestRecords
    <3> QED
      BY <1>2, <2>2, <3>1 DEF GetFriends
  <2>3. CASE GetFriendRequests(u)
    <3>1. ASSUME NEW S, request' = [request EXCEPT ![u].stage = "enter",
                                      ![u].lists.requests = S]
          PROVE  /\ request'[u].op = request[u].op
                 /\ request'[u].other = request[u].other
                 /\ request'[u].message = request[u].message
                 /\ request'[u].channel = request[u].channel
      BY <1>1, <3>1 DEF RequestRecords
    <3> QED
      BY <1>2, <2>3, <3>1 DEF GetFriendRequests
  <2> QED
    BY <1>4, <2>1, <2>2, <2>3
<1>5. CASE ChannelLookup(u) \/ CreateChannel(u)
  <2>1. request[u].op = "channel"
    BY <1>5 DEF ChannelLookup, CreateChannel, At
  <2>2. ASSUME NEW c, NEW stage,
               request' = [request EXCEPT ![u].channel = c, ![u].stage = stage]
        PROVE  /\ request'[u].op = request[u].op
               /\ request'[u].other = request[u].other
               /\ request'[u].message = request[u].message
    BY <1>1, <2>2 DEF RequestRecords
  <2> QED
    BY <1>2, <1>3, <1>5, <2>1, <2>2 DEF ChannelLookup, CreateChannel
<1>6. CASE \E stage : Goes(u, stage)
  BY <1>2, <1>3, <1>6
<1> QED
  BY <1>4, <1>5, <1>6
     DEF Handler, FriendsCheck, FriendInsert, StatusDelete, StatusUpdate, TriggerEvent,
         AddMember, MessageCheck, MessageInsert, MessageMembers, EnterSession,
         StatementFails

LEMMA InterfaceMoves ==
  ASSUME IInv, NEW u \in Users, Interface(u)
  PROVE  /\ UNCHANGED <<table_vars, server_vars>>
         /\ request'[u] \in {request[u], NoRequest}
BY DEF IInv, TypeOK, Interface, Fulfilled, Rejected, FriendRequestShown, HandleEvent

\* The requests there are.
Asked(u, op, stage, other, channel, message) ==
  /\ Begins(u, op, stage, other, channel, message)
  /\ op \in {"friend", "approve", "reject", "remove", "channel"}
       => other \in Users \ {u} /\ u \in online
  /\ IF op = "message"
       THEN /\ stage = "member" /\ channel \in Channels /\ message \in Messages
            /\ messages[message] = NoRow
            /\ \A v \in Users : request[v].message # message
       ELSE message = NoMessage

LEMMA AsksMoves ==
  ASSUME IInv, NEW u \in Users, UserAsks(u)
  PROVE  \E op \in Requests, stage \in {"check", "select", "call", "member", "friends"},
            other \in Users \cup {NoUser}, channel \in Channels \cup {NoChannel},
            message \in Messages \cup {NoMessage} :
           Asked(u, op, stage, other, channel, message)
<1>1. ASSUME NEW v \in Users, SendFriendRequest(u, v)
      PROVE  Asked(u, "friend", "check", v, NoChannel, NoMessage)
  BY <1>1 DEF SendFriendRequest, Asked
<1>2. ASSUME NEW v \in Users, SetFriendshipStatus(u, v)
      PROVE  \E op \in {"approve", "reject", "remove"} :
               Asked(u, op, "select", v, NoChannel, NoMessage)
  BY <1>2 DEF SetFriendshipStatus, Asked
<1>3. ASSUME NEW v \in Users, GetPrivateChannel(u, v)
      PROVE  Asked(u, "channel", "call", v, NoChannel, NoMessage)
  BY <1>3 DEF GetPrivateChannel, Asked
<1>4. ASSUME NEW c \in Channels, NEW m \in Messages, SendMessage(u, c, m)
      PROVE  Asked(u, "message", "member", NoUser, c, m)
  BY <1>4 DEF SendMessage, Asked
<1>5. CASE Login(u)
  <2>1. \E op \in {"login", "resume"} : Asked(u, op, "friends", NoUser, NoChannel, NoMessage)
    BY <1>5 DEF Login, Asked
  <2> QED
    BY <2>1 DEF Requests
<1> QED
  BY <1>1, <1>2, <1>3, <1>4, <1>5 DEF UserAsks, Requests

LEMMA AskedMoves ==
  ASSUME IInv, NEW u \in Users, NEW op, NEW stage, NEW other, NEW channel, NEW message,
         Begins(u, op, stage, other, channel, message)
  PROVE  /\ request[u] = NoRequest
         /\ request'[u] = Request(op, stage, other, channel, message)
         /\ UNCHANGED <<table_vars, server_vars, inbox, view_vars, world>>
BY DEF Begins, IInv, TypeOK

-----------------------------------------------------------------------------
\* Two requests of the same kind do not cross if that is excluded, or if only
\* one user asks at a time.
Apart == ~ May("cross") \/ ~ May("overlap")
OneAtATime ==
  ~ May("overlap") =>
    \A u, v \in Users : request[u] # NoRequest /\ request[v] # NoRequest => u = v
NotCrossed ==
  Apart =>
    \A u, v \in Users :
      /\ request[u].op \in {"friend", "approve", "reject", "remove", "channel"}
      /\ request[u].other = v
      => ~ (request[v].op = request[u].op /\ request[v].other = u)

\* Between its SELECT and its INSERT a friend request has no row to meet, and no
\* two users have a row each way; nor has a user one with himself.
InsertFresh ==
  Apart => \A u \in Users :
    At(u, {"friend"}, "insert") => RowsOf(u, request[u].other) = {}
OneRow ==
  /\ Apart => \A u, v \in Users :
       u # v /\ friendships[<<u, v>>] # "none" => friendships[<<v, u>>] = "none"
  /\ \A u \in Users : friendships[<<u, u>>] = "none"

\* From its CALL to its last INSERT a new channel has no other to meet, and no
\* two users have two.
CreateFresh ==
  Apart => \A u \in Users :
    At(u, {"channel"}, "create") \/ Building(u) => ChannelsOf(u, request[u].other) = {}
OneChannel ==
  Apart => \A u, v \in Users : u # v => \A c, d \in ChannelsOf(u, v) : c = d

PairInv ==
  OneAtATime /\ NotCrossed /\ InsertFresh /\ OneRow /\ CreateFresh /\ OneChannel

LEMMA InitPairInv == Init => PairInv
<1> SUFFICES ASSUME Init PROVE PairInv
  OBVIOUS
<1>1. \A u \in Users : request[u] = NoRequest
  BY DEF Init
<1>2. NoRequest.op = "none"
  BY DEF NoRequest, Request
<1>3. OneAtATime /\ NotCrossed /\ InsertFresh /\ CreateFresh
  BY <1>1, <1>2 DEF OneAtATime, NotCrossed, InsertFresh, CreateFresh, Building, At
<1>4. OneRow /\ OneChannel
  BY DEF Init, OneRow, OneChannel, ChannelsOf, Keys
<1> QED
  BY <1>3, <1>4 DEF PairInv

\* Who asks when: the requests under way do not cross.
LEMMA RequestsApart ==
  ASSUME IInv, PairInv, NEW u \in Users, UserAsks(u) \/ Handler(u) \/ Interface(u)
  PROVE  OneAtATime' /\ NotCrossed'
<1>0. /\ \A v \in Users \ {u} : request'[v] = request[v]
      /\ Apart' <=> Apart
      /\ May("overlap")' <=> May("overlap")
  BY UserStepMoves DEF Apart, May
<1>1. OneAtATime /\ NotCrossed
  BY DEF PairInv
<1>2. NoRequest.op = "none"
  BY DEF NoRequest, Request
<1>3. CASE UserAsks(u)
  <2>1. PICK op \in Requests, stage \in {"check", "select", "call", "member", "friends"},
             other \in Users \cup {NoUser}, channel \in Channels \cup {NoChannel},
             message \in Messages \cup {NoMessage} :
               Asked(u, op, stage, other, channel, message)
    BY <1>3, AsksMoves
  <2>2. /\ request[u] = NoRequest
        /\ request'[u] = Request(op, stage, other, channel, message)
    BY <2>1, AskedMoves DEF Asked
  <2>3. request'[u].op = op /\ request'[u].other = other
    BY <2>2 DEF Request
  <2>4. /\ May("overlap") \/ \A v \in Users : request[v] = NoRequest
        /\ other # NoUser /\ ~ May("cross")
             => ~ (request[other].op = op /\ request[other].other = u)
        /\ op \in {"friend", "approve", "reject", "remove", "channel"}
             => other \in Users \ {u}
    BY <2>1 DEF Asked, Begins
  <2>5. OneAtATime'
    BY <1>0, <2>2, <2>4 DEF OneAtATime
  <2>6. NotCrossed'
    <3> SUFFICES ASSUME Apart, NEW x \in Users, NEW y \in Users,
                        request'[x].op \in {"friend", "approve", "reject", "remove", "channel"},
                        request'[x].other = y, request'[y].op = request'[x].op,
                        request'[y].other = x
                 PROVE  FALSE
      BY <1>0 DEF NotCrossed
    <3>1. CASE x # u /\ y # u
      BY <1>0, <1>1, <3>1 DEF NotCrossed
    <3>2. CASE x = u \/ y = u
      <4>1. /\ op \in {"friend", "approve", "reject", "remove", "channel"}
            /\ other \in Users \ {u} /\ other \in {x, y}
            /\ request[other].op = op /\ request[other].other = u
        BY <1>0, <2>3, <2>4, <3>2
      <4>2. ~ May("cross")
        BY <1>2, <2>4, <4>1 DEF Apart
      <4> QED
        BY <2>4, <4>1, <4>2, DirectoryAssumption
    <3> QED
      BY <3>1, <3>2
  <2> QED
    BY <2>5, <2>6
<1>4. CASE Handler(u)
  <2>1. /\ request'[u].op = request[u].op /\ request'[u].other = request[u].other
        /\ request[u] # NoRequest
    BY <1>4, HandlerMoves
  <2>2. OneAtATime'
    BY <1>0, <1>1, <2>1 DEF OneAtATime
  <2>3. NotCrossed'
    BY <1>0, <1>1, <2>1 DEF NotCrossed
  <2> QED
    BY <2>2, <2>3
<1>5. CASE Interface(u)
  <2>1. request'[u] \in {request[u], NoRequest}
    BY <1>5, InterfaceMoves
  <2>2. OneAtATime'
    BY <1>0, <1>1, <2>1 DEF OneAtATime
  <2>3. NotCrossed'
    BY <1>0, <1>1, <1>2, <2>1 DEF NotCrossed
  <2> QED
    BY <2>2, <2>3
<1> QED
  BY <1>3, <1>4, <1>5

\* A step that writes no friendship and leaves no request at its INSERT.
LEMMA RowsKept ==
  ASSUME PairInv, NEW u \in Users, UNCHANGED <<friendships, world>>,
         \A v \in Users \ {u} : request'[v] = request[v],
         Apart /\ At(u, {"friend"}, "insert")' => RowsOf(u, request'[u].other) = {}
  PROVE  InsertFresh' /\ OneRow'
<1>1. \A x, y : RowsOf(x, y)' = RowsOf(x, y)
  BY DEF RowsOf
<1>2. InsertFresh'
  BY <1>1 DEF PairInv, InsertFresh, At, Apart, May
<1>3. OneRow'
  BY DEF PairInv, OneRow, Apart, May
<1> QED
  BY <1>2, <1>3

LEMMA ChannelsKept ==
  ASSUME PairInv, NEW u \in Users, UNCHANGED <<channel_members, channels, world>>,
         \A v \in Users \ {u} : request'[v] = request[v],
         Apart /\ (At(u, {"channel"}, "create") \/ Building(u))'
           => ChannelsOf(u, request'[u].other) = {}
  PROVE  CreateFresh' /\ OneChannel'
<1>1. \A x, y : ChannelsOf(x, y)' = ChannelsOf(x, y)
  BY DEF ChannelsOf
<1>2. CreateFresh'
  BY <1>1 DEF PairInv, CreateFresh, At, Building, Apart, May
<1>3. OneChannel'
  BY <1>1 DEF PairInv, OneChannel, Apart, May
<1> QED
  BY <1>2, <1>3

\* The rows: an INSERT comes where there was none, and no other request between
\* the same two users has come to it meanwhile.
LEMMA FriendInsertRows ==
  ASSUME IInv, PairInv, NEW u \in Users, FriendInsert(u)
  PROVE  InsertFresh' /\ OneRow'
<1> DEFINE v == request[u].other
<1>1. /\ request[u].op = "friend" /\ request[u].stage = "insert"
      /\ v \in Users \ {u}
      /\ friendships \in [Keys -> {"none", "pending", "approved"}]
      /\ friendships' = [friendships EXCEPT ![<<u, v>>] = "pending"]
      /\ world' = world
  BY DEF FriendInsert, At, IInv, TypeOK, ChannelsHold, OtherAsked
<1>2. /\ \A w \in Users \ {u} : request'[w] = request[w]
      /\ request'[u].stage = "event"
  <2>1. request'[u] = [request[u] EXCEPT !.stage = "event"] /\ request[u] \in RequestRecords
    BY GoesMoves DEF FriendInsert, IInv, TypeOK
  <2> QED
    BY <2>1, UserStepMoves DEF Handler, RequestRecords
<1>3. Apart => friendships[<<u, v>>] = "none" /\ friendships[<<v, u>>] = "none"
  BY <1>1 DEF PairInv, InsertFresh, At, RowsOf
<1>4. \A x, y \in Users : friendships'[<<x, y>>] =
        IF x = u /\ y = v THEN "pending" ELSE friendships[<<x, y>>]
  BY <1>1 DEF Keys
<1>5. OneRow'
  BY <1>1, <1>3, <1>4 DEF PairInv, OneRow, Apart, May
<1>6. InsertFresh'
  <2> SUFFICES ASSUME Apart, NEW w \in Users, At(w, {"friend"}, "insert")'
               PROVE  RowsOf(w, request[w].other)' = {}
    BY <1>1 DEF InsertFresh, Apart, May
  <2>1. w # u /\ request'[w] = request[w] /\ At(w, {"friend"}, "insert")
    BY <1>2 DEF At
  <2>2. request[w].other \in Users /\ request[w].op = "friend"
    BY <2>1 DEF At, IInv, ChannelsHold, OtherAsked
  <2>3. RowsOf(w, request[w].other) = {}
    BY <2>1 DEF PairInv, InsertFresh
  <2>4. ~ (w = v /\ request[w].other = u)
    BY <1>1, <2>2 DEF PairInv, NotCrossed
  <2> QED
    BY <1>4, <2>1, <2>2, <2>3, <2>4 DEF RowsOf
<1> QED
  BY <1>5, <1>6

\* A DELETE and an UPDATE make no row.
LEMMA StatusRows ==
  ASSUME IInv, PairInv, NEW u \in Users, StatusDelete(u) \/ StatusUpdate(u)
  PROVE  InsertFresh' /\ OneRow'
<1>1. /\ friendships \in [Keys -> {"none", "pending", "approved"}]
      /\ world' = world
      /\ request[u].op # "friend" /\ request'[u].op = request[u].op
      /\ \A w \in Users \ {u} : request'[w] = request[w]
  BY HandlerMoves, UserStepMoves
     DEF StatusDelete, StatusUpdate, Handler, At, IInv, TypeOK
<1>2. \A k \in Keys : friendships[k] = "none" => friendships'[k] = "none"
  <2>1. CASE StatusDelete(u)
    BY <1>1, <2>1 DEF StatusDelete
  <2>2. CASE StatusUpdate(u)
    BY <1>1, <2>2 DEF StatusUpdate
  <2> QED
    BY <2>1, <2>2
<1>3. OneRow'
  BY <1>1, <1>2 DEF PairInv, OneRow, Apart, May, Keys
<1>4. InsertFresh'
  <2> SUFFICES ASSUME Apart, NEW w \in Users, At(w, {"friend"}, "insert")'
               PROVE  RowsOf(w, request[w].other)' = {}
    BY <1>1 DEF InsertFresh, Apart, May
  <2>1. request'[w] = request[w] /\ At(w, {"friend"}, "insert")
    BY <1>1 DEF At
  <2>2. request[w].other \in Users
    BY <2>1 DEF At, IInv, ChannelsHold, OtherAsked
  <2>3. RowsOf(w, request[w].other) = {}
    BY <2>1 DEF PairInv, InsertFresh
  <2> QED
    BY <1>2, <2>1, <2>2, <2>3 DEF RowsOf, Keys
<1> QED
  BY <1>3, <1>4

LEMMA RowsStep ==
  ASSUME IInv, PairInv, NEW u \in Users, UserAsks(u) \/ Handler(u) \/ Interface(u)
  PROVE  InsertFresh' /\ OneRow'
<1>1. world' = world /\ \A v \in Users \ {u} : request'[v] = request[v]
  BY UserStepMoves
<1>2. CASE UserAsks(u)
  <2>1. PICK op \in Requests, stage \in {"check", "select", "call", "member", "friends"},
             other \in Users \cup {NoUser}, channel \in Channels \cup {NoChannel},
             message \in Messages \cup {NoMessage} :
               Asked(u, op, stage, other, channel, message)
    BY <1>2, AsksMoves
  <2>2. request'[u] = Request(op, stage, other, channel, message) /\ UNCHANGED table_vars
    BY <2>1, AskedMoves DEF Asked
  <2>3. request'[u].stage = stage /\ UNCHANGED friendships
    BY <2>2 DEF Request, table_vars
  <2> QED
    BY <1>1, <2>3, RowsKept DEF At
<1>3. CASE Interface(u)
  <2>1. UNCHANGED friendships /\ request'[u] \in {request[u], NoRequest}
    BY <1>3, InterfaceMoves DEF table_vars
  <2>2. NoRequest.op = "none"
    BY DEF NoRequest, Request
  <2>3. Apart /\ At(u, {"friend"}, "insert")' => RowsOf(u, request'[u].other) = {}
    BY <2>1, <2>2 DEF At, PairInv, InsertFresh
  <2> QED
    BY <1>1, <2>1, <2>3, RowsKept
<1>4. CASE Handler(u)
  <2>1. request[u] \in RequestRecords /\ request'[u].op = request[u].op
        /\ request'[u].other = request[u].other
    BY <1>4, HandlerMoves DEF IInv, TypeOK
  <2>2. CASE FriendsCheck(u)
    <3>1. UNCHANGED friendships
      BY <2>2 DEF FriendsCheck, table_vars
    <3>2. Goes(u, "error") \/ RowsOf(u, request[u].other) = {}
      BY <2>2 DEF FriendsCheck
    <3>3. request'[u].stage = "insert" => RowsOf(u, request[u].other) = {}
      BY <3>2, StageMoves
    <3> QED
      BY <1>1, <2>1, <3>1, <3>3, RowsKept DEF At
  <2>3. CASE FriendInsert(u) \/ StatusDelete(u) \/ StatusUpdate(u)
    BY <2>3, FriendInsertRows, StatusRows
  <2>4. CASE UNCHANGED friendships /\ request[u].op # "friend"
    BY <1>1, <2>1, <2>4, RowsKept DEF At
  <2>5. CASE TriggerEvent(u) \/ StatementFails(u)
    <3>1. UNCHANGED friendships
      BY <2>5 DEF TriggerEvent, StatementFails, table_vars
    <3>2. Goes(u, "ok") \/ Goes(u, "error")
      BY <2>5 DEF TriggerEvent, StatementFails
    <3>3. request'[u].stage # "insert"
      BY <3>2, StageMoves
    <3> QED
      BY <1>1, <3>1, <3>3, RowsKept DEF At
  <2> QED
    BY <1>4, <2>2, <2>3, <2>4, <2>5
       DEF Handler, StatusSelect, ChannelLookup, CreateChannel, AddMember, MessageCheck,
           MessageInsert, MessageMembers, GetFriends, GetFriendRequests, EnterSession,
           At, table_vars
<1> QED
  BY <1>2, <1>3, <1>4

\* The channels: the second member comes to a channel when the two have no other,
\* and no other request between them has made one meanwhile.
LEMMA CreateChannelChannels ==
  ASSUME IInv, PairInv, NEW u \in Users, CreateChannel(u)
  PROVE  CreateFresh' /\ OneChannel'
<1> DEFINE c == CHOOSE c \in Channels : c \notin channels
<1>1. /\ c \in Channels /\ c \notin channels
      /\ channels' = channels \cup {c}
      /\ channel_members' = channel_members /\ world' = world
      /\ At(u, {"channel"}, "create")
  BY DEF CreateChannel, IInv, TypeOK
<1> HIDE DEF c
<1>2. channel_members[c] = {}
  BY <1>1 DEF IInv, ChannelsHold, Unmade
<1>3. \A x, y : ChannelsOf(x, y)' = ChannelsOf(x, y)
  BY <1>1, <1>2 DEF ChannelsOf
<1>4. /\ \A w \in Users \ {u} : request'[w] = request[w]
      /\ request'[u].other = request[u].other
  BY HandlerMoves, UserStepMoves DEF Handler
<1>5. CreateFresh'
  <2> SUFFICES ASSUME Apart, NEW w \in Users,
                      (At(w, {"channel"}, "create") \/ Building(w))'
               PROVE  ChannelsOf(w, request[w].other)' = {}
    BY <1>1 DEF CreateFresh, Apart, May
  <2>1. At(w, {"channel"}, "create") \/ Building(w)
    BY <1>1, <1>4 DEF At, Building
  <2> QED
    BY <1>3, <1>4, <2>1 DEF PairInv, CreateFresh
<1>6. OneChannel'
  BY <1>1, <1>3 DEF PairInv, OneChannel, Apart, May
<1> QED
  BY <1>5, <1>6

LEMMA AddMemberChannels ==
  ASSUME IInv, PairInv, NEW u \in Users, AddMember(u)
  PROVE  CreateFresh' /\ OneChannel'
<1> DEFINE self == request[u].stage = "self"
           c == request[u].channel
<1>1. PICK v \in Users \ {u} :
      /\ v = request[u].other
      /\ Building(u)
      /\ channel_members' = [channel_members EXCEPT ![c] = @ \cup {IF self THEN u ELSE v}]
      /\ channels' = channels /\ world' = world
      /\ Goes(u, IF self THEN "other" ELSE "ok")
  BY DEF AddMember, Building, At, IInv, ChannelsHold, OtherAsked
<1>2. /\ c \in channels /\ c \in Channels
      /\ channel_members[c] = IF self THEN {} ELSE {u}
      /\ channels \subseteq Channels
      /\ channel_members \in [Channels -> SUBSET Users]
  BY <1>1 DEF IInv, TypeOK, ChannelsHold, Begun
<1>3. /\ channel_members'[c] = IF self THEN {u} ELSE {u, v}
      /\ \A d \in Channels \ {c} : channel_members'[d] = channel_members[d]
  BY <1>1, <1>2
<1>4. /\ \A w \in Users \ {u} : request'[w] = request[w]
      /\ request'[u].op = request[u].op /\ request'[u].other = v
      /\ request'[u].stage = IF self THEN "other" ELSE "ok"
  <2>1. Handler(u)
    BY DEF Handler
  <2> QED
    BY <1>1, <2>1, StageMoves, HandlerMoves, UserStepMoves
<1>5. ASSUME NEW x \in Users, NEW y \in Users, x # y, self \/ {x, y} # {u, v}
      PROVE  ChannelsOf(x, y)' = ChannelsOf(x, y)
  <2>1. ~ {x, y} \subseteq channel_members[c] /\ ~ {x, y} \subseteq channel_members'[c]
    BY <1>2, <1>3, <1>5
  <2> QED
    BY <1>1, <1>2, <1>3, <2>1 DEF ChannelsOf
<1>6. Apart => ChannelsOf(u, v) = {}
  BY <1>1 DEF PairInv, CreateFresh
<1>7. CreateFresh'
  <2> SUFFICES ASSUME Apart, NEW w \in Users,
                      (At(w, {"channel"}, "create") \/ Building(w))'
               PROVE  ChannelsOf(w, request[w].other)' = {}
    BY <1>1 DEF CreateFresh, Apart, May
  <2>1. CASE w = u
    <3>1. self
      BY <1>4, <2>1 DEF At, Building
    <3>2. ChannelsOf(u, v)' = {}
      BY <1>1, <1>5, <1>6, <3>1
    <3> QED
      BY <1>4, <2>1, <3>2
  <2>2. CASE w # u
    <3>1. /\ request'[w] = request[w] /\ request[w].op = "channel"
          /\ At(w, {"channel"}, "create") \/ Building(w)
      BY <1>4, <2>2 DEF At, Building
    <3>2. request[w].other \in Users \ {w}
      BY <3>1 DEF IInv, ChannelsHold, OtherAsked
    <3>3. request[u].op = "channel"
      BY <1>1 DEF Building, At
    <3>4. ~ (w = v /\ request[w].other = u)
      BY <1>1, <3>1, <3>3 DEF PairInv, NotCrossed
    <3>6. {w, request[w].other} # {u, v}
      BY <2>2, <3>2, <3>4
    <3>5. ChannelsOf(w, request[w].other) = {}
      BY <3>1 DEF PairInv, CreateFresh
    <3> QED
      BY <1>5, <3>1, <3>2, <3>6, <3>5
  <2> QED
    BY <2>1, <2>2
<1>8. OneChannel'
  <2> SUFFICES ASSUME Apart, NEW x \in Users, NEW y \in Users, x # y
               PROVE  \A d, e \in ChannelsOf(x, y)' : d = e
    BY <1>1 DEF OneChannel, Apart, May
  <2>1. CASE self \/ {x, y} # {u, v}
    BY <1>5, <2>1 DEF PairInv, OneChannel
  <2>2. CASE ~ self /\ {x, y} = {u, v}
    <3>1. ChannelsOf(x, y) = {}
      BY <1>1, <1>6, <2>2 DEF ChannelsOf
    <3>2. ChannelsOf(x, y)' \subseteq {c}
      BY <1>1, <1>2, <1>3, <3>1 DEF ChannelsOf
    <3> QED
      BY <3>2
  <2> QED
    BY <2>1, <2>2
<1> QED
  BY <1>7, <1>8

LEMMA ChannelsStep ==
  ASSUME IInv, PairInv, NEW u \in Users, UserAsks(u) \/ Handler(u) \/ Interface(u)
  PROVE  CreateFresh' /\ OneChannel'
<1>1. world' = world /\ \A v \in Users \ {u} : request'[v] = request[v]
  BY UserStepMoves
<1>2. CASE UserAsks(u)
  <2>1. PICK op \in Requests, stage \in {"check", "select", "call", "member", "friends"},
             other \in Users \cup {NoUser}, channel \in Channels \cup {NoChannel},
             message \in Messages \cup {NoMessage} :
               Asked(u, op, stage, other, channel, message)
    BY <1>2, AsksMoves
  <2>2. request'[u] = Request(op, stage, other, channel, message) /\ UNCHANGED table_vars
    BY <2>1, AskedMoves DEF Asked
  <2>3. request'[u].stage = stage /\ UNCHANGED <<channel_members, channels>>
    BY <2>2 DEF Request, table_vars
  <2> QED
    BY <1>1, <2>3, ChannelsKept DEF At, Building
<1>3. CASE Interface(u)
  <2>1. /\ UNCHANGED <<channel_members, channels>>
        /\ request'[u] \in {request[u], NoRequest}
    BY <1>3, InterfaceMoves DEF table_vars
  <2>2. NoRequest.op = "none"
    BY DEF NoRequest, Request
  <2>3. Apart /\ (At(u, {"channel"}, "create") \/ Building(u))'
          => ChannelsOf(u, request'[u].other) = {}
    BY <2>1, <2>2 DEF At, Building, PairInv, CreateFresh
  <2> QED
    BY <1>1, <2>1, <2>3, ChannelsKept
<1>4. CASE Handler(u)
  <2>1. request[u] \in RequestRecords /\ request'[u].op = request[u].op
        /\ request'[u].other = request[u].other
    BY <1>4, HandlerMoves DEF IInv, TypeOK
  <2>2. CASE ChannelLookup(u)
    <3>1. UNCHANGED <<channel_members, channels>>
      BY <2>2 DEF ChannelLookup, table_vars
    <3>2. CASE ChannelsOf(u, request[u].other) = {}
      BY <1>1, <2>1, <3>1, <3>2, ChannelsKept
    <3>3. ASSUME NEW c, request' = [request EXCEPT ![u].channel = c, ![u].stage = "ok"]
          PROVE  request'[u].stage = "ok"
      BY <3>3 DEF IInv, TypeOK, RequestRecords
    <3>4. CASE ChannelsOf(u, request[u].other) # {}
      <4>1. request'[u].stage = "ok"
        BY <2>2, <3>3, <3>4 DEF ChannelLookup
      <4> QED
        BY <1>1, <3>1, <4>1, ChannelsKept DEF At, Building
    <3> QED
      BY <3>2, <3>4
  <2>3. CASE CreateChannel(u) \/ AddMember(u)
    BY <2>3, CreateChannelChannels, AddMemberChannels
  <2>4. CASE UNCHANGED <<channel_members, channels>> /\ request[u].op # "channel"
    BY <1>1, <2>1, <2>4, ChannelsKept DEF At, Building
  <2>5. CASE TriggerEvent(u) \/ StatementFails(u)
    <3>1. UNCHANGED <<channel_members, channels>>
      BY <2>5 DEF TriggerEvent, StatementFails, table_vars
    <3>2. Goes(u, "ok") \/ Goes(u, "error")
      BY <2>5 DEF TriggerEvent, StatementFails
    <3>3. request'[u].stage \in {"ok", "error"}
      BY <3>2, StageMoves
    <3> QED
      BY <1>1, <3>1, <3>3, ChannelsKept DEF At, Building
  <2> QED
    BY <1>4, <2>2, <2>3, <2>4, <2>5
       DEF Handler, FriendsCheck, FriendInsert, StatusSelect, StatusDelete, StatusUpdate,
           MessageCheck, MessageInsert, MessageMembers, GetFriends, GetFriendRequests,
           EnterSession, At, table_vars
<1> QED
  BY <1>2, <1>3, <1>4

LEMMA PairInvariant == Spec => []PairInv
<1>1. IInv /\ PairInv /\ [Next]_vars => PairInv'
  <2> SUFFICES ASSUME IInv, PairInv, [Next]_vars PROVE PairInv'
    OBVIOUS
  <2>1. CASE UNCHANGED vars
    BY <2>1 DEF vars, table_vars, server_vars, PairInv, OneAtATime, NotCrossed, InsertFresh,
       OneRow, CreateFresh, OneChannel, RowsOf, ChannelsOf, Building, At, Apart, May
  <2>2. ASSUME NEW u \in Users, UserAsks(u) \/ Handler(u) \/ Interface(u)
        PROVE  PairInv'
    BY <2>2, RequestsApart, RowsStep, ChannelsStep DEF PairInv
  <2> QED
    BY <2>1, <2>2 DEF Next
<1> QED
  BY <1>1, InductiveInvariant, InitPairInv, PTL DEF Spec

\* A set all of whose elements are equal has at most one.
LEMMA AtMostOne ==
  ASSUME NEW S, \A x, y \in S : x = y
  PROVE  Cardinality(S) <= 1
<1>1. CASE S = {}
  BY <1>1, FS_EmptySet
<1>2. ASSUME NEW x \in S PROVE Cardinality(S) <= 1
  <2>1. S = {x}
    BY <1>2
  <2> QED
    BY <2>1, FS_Singleton
<1> QED
  BY <1>1, <1>2

\* Two users have at most one friendship row and one private channel between
\* them, unless both ask for it at once: what a request saw when it looked first
\* is still so when it inserts.
THEOREM PairHasOne == Spec => []OnePerPair
<1>1. PairInv => OnePerPair
  <2> SUFFICES ASSUME PairInv, ~ May("cross"), NEW u \in Users, NEW v \in Users
               PROVE  /\ Cardinality(RowsOf(u, v)) <= 1
                      /\ u # v => Cardinality(ChannelsOf(u, v)) <= 1
    BY DEF OnePerPair
  <2>1. \A x, y \in RowsOf(u, v) : x = y
    BY DEF PairInv, OneRow, RowsOf, Apart
  <2>2. u # v => \A c, d \in ChannelsOf(u, v) : c = d
    BY DEF PairInv, OneChannel, Apart
  <2> QED
    BY <2>1, <2>2, AtMostOne
<1> QED
  BY <1>1, PairInvariant, PTL

-----------------------------------------------------------------------------
\* A message is the one of one request; until its INSERT it has no row, and from
\* then on the row that request wrote; the one who sends it is in its channel.
MessageRequests ==
  \A u \in Users :
    IF request[u].op = "message"
      THEN /\ request[u].stage \in {"member", "insert", "members", "event", "ok", "error"}
           /\ request[u].channel \in Channels
           /\ request[u].message \in Messages
      ELSE request[u].message = NoMessage
MessageOnce ==
  \A u, v \in Users :
    request[u].message = request[v].message /\ request[u].message # NoMessage => u = v
Unsent ==
  \A u \in Users :
    At(u, {"message"}, "member") \/ At(u, {"message"}, "insert")
      => messages[request[u].message] = NoRow
ByMember ==
  \A u \in Users :
    request[u].op = "message" /\ request[u].stage \in {"insert", "members", "event", "ok"}
      => u \in channel_members[request[u].channel]
StoredRow ==
  \A u \in Users :
    request[u].op = "message" /\ request[u].stage \in {"members", "event", "ok"}
      => messages[request[u].message] = [sender |-> u, channel |-> request[u].channel]

\* Rows are of users and channels, only events of messages carry one, and nobody
\* leaves.
RowsTyped ==
  \A m \in Messages :
    messages[m] # NoRow => messages[m] \in [sender : Users, channel : Channels]
EventsTyped ==
  \A v \in Users : \A i \in DOMAIN inbox[v] :
    inbox[v][i].kind # "message" => inbox[v][i].message = NoMessage
OnlineFirst == world.online \subseteq online

RequestsHold == MessageRequests /\ MessageOnce /\ Unsent /\ ByMember /\ StoredRow
MessageInv ==
  RequestsHold /\ RowsTyped /\ EventsTyped /\ OnlineFirst /\ MessagesReachMembers

\* The messages of the events that wait.
Waiting(s) == {s[i].message : i \in DOMAIN s}

LEMMA WaitingAppend ==
  ASSUME NEW s \in Seq(EventRecords), NEW e \in EventRecords
  PROVE  Waiting(Append(s, e)) = Waiting(s) \cup {e.message}
<1>1. /\ Append(s, e) \in Seq(EventRecords)
      /\ DOMAIN Append(s, e) = 1 .. Len(s) + 1 /\ DOMAIN s = 1 .. Len(s)
      /\ Len(s) \in Nat
      /\ \A i \in 1 .. Len(s) : Append(s, e)[i] = s[i]
      /\ Append(s, e)[Len(s) + 1] = e
  BY AppendProperties
<1> HIDE DEF EventRecords
<1>2. ASSUME NEW x \in Waiting(Append(s, e)) PROVE x \in Waiting(s) \cup {e.message}
  <2>1. PICK i \in 1 .. Len(s) + 1 : x = Append(s, e)[i].message
    BY <1>1 DEF Waiting
  <2>2. i \in 1 .. Len(s) \/ i = Len(s) + 1
    BY <1>1, <2>1
  <2> QED
    BY <1>1, <2>1, <2>2 DEF Waiting
<1>3. ASSUME NEW i \in DOMAIN s PROVE s[i].message \in Waiting(Append(s, e))
  <2>1. i \in DOMAIN Append(s, e) /\ Append(s, e)[i] = s[i]
    BY <1>1
  <2> QED
    BY <2>1 DEF Waiting
<1>4. e.message \in Waiting(Append(s, e))
  <2>1. Len(s) + 1 \in DOMAIN Append(s, e)
    BY <1>1
  <2> QED
    BY <1>1, <2>1 DEF Waiting
<1> QED
  BY <1>2, <1>3, <1>4 DEF Waiting

LEMMA WaitingTail ==
  ASSUME NEW s \in Seq(EventRecords), s # <<>>
  PROVE  Waiting(s) = Waiting(Tail(s)) \cup {Head(s).message}
<1>1. /\ DOMAIN s = 1 .. Len(s) /\ Len(s) \in Nat \ {0}
      /\ DOMAIN Tail(s) = 1 .. Len(s) - 1
      /\ \A i \in 1 .. Len(s) - 1 : Tail(s)[i] = s[i + 1]
      /\ Head(s) = s[1]
  BY HeadTailProperties, EmptySeq
<1>2. ASSUME NEW i \in DOMAIN s PROVE s[i].message \in Waiting(Tail(s)) \cup {Head(s).message}
  <2>1. CASE i = 1
    BY <1>1, <2>1
  <2>2. CASE i # 1
    <3>1. i - 1 \in 1 .. Len(s) - 1 /\ (i - 1) + 1 = i
      BY <1>1, <2>2
    <3>2. Tail(s)[i - 1] = s[i]
      BY <1>1, <3>1
    <3> QED
      BY <1>1, <3>1, <3>2 DEF Waiting
  <2> QED
    BY <2>1, <2>2
<1>3. ASSUME NEW i \in DOMAIN Tail(s) PROVE Tail(s)[i].message \in Waiting(s)
  <2>1. i + 1 \in DOMAIN s /\ Tail(s)[i] = s[i + 1]
    BY <1>1
  <2> QED
    BY <2>1 DEF Waiting
<1>4. Head(s).message \in Waiting(s)
  <2>1. 1 \in DOMAIN s
    BY <1>1
  <2> QED
    BY <1>1, <2>1 DEF Waiting
<1> QED
  BY <1>2, <1>3, <1>4 DEF Waiting

LEMMA InitMessageInv == Init => MessageInv
<1> SUFFICES ASSUME Init PROVE MessageInv
  OBVIOUS
<1>1. \A u \in Users : request[u] = NoRequest
  BY DEF Init
<1>2. NoRequest.op = "none" /\ NoRequest.message = NoMessage
  BY DEF NoRequest, Request
<1>3. RequestsHold
  BY <1>1, <1>2 DEF RequestsHold, MessageRequests, MessageOnce, Unsent, ByMember, StoredRow, At
<1>4. \A v \in Users : inbox[v] = <<>> /\ shown[v] = {}
  BY DEF Init
<1>5. \A v \in Users : Arrives(v) = {}
  BY <1>4 DEF Arrives
<1>6. EventsTyped /\ MessagesReachMembers
  BY <1>1, <1>2, <1>4, <1>5 DEF EventsTyped, MessagesReachMembers
<1>7. RowsTyped /\ OnlineFirst
  BY DEF Init, RowsTyped, OnlineFirst
<1> QED
  BY <1>3, <1>6, <1>7 DEF MessageInv

\* What a step does to the members of the channels and to the rows: a channel
\* gets a member only while nobody but the one who makes it is in it, and a row
\* is written by the request that has its message.
LEMMA MembersMove ==
  ASSUME IInv, NEW u \in Users, UserAsks(u) \/ Handler(u) \/ Interface(u),
         NEW c \in Channels
  PROVE  \/ channel_members'[c] = channel_members[c]
         \/ /\ channel_members[c] \subseteq {u}
            /\ channel_members[c] \subseteq channel_members'[c]
            /\ request[u].op = "channel"
<1>1. CASE AddMember(u)
  <2>1. Building(u) /\ request[u].op = "channel"
    BY <1>1 DEF AddMember, Building, At
  <2>2. channel_members[request[u].channel] \subseteq {u}
    BY <2>1 DEF IInv, ChannelsHold, Begun
  <2> QED
    BY <1>1, <2>1, <2>2 DEF AddMember, IInv, TypeOK
<1>2. CASE UNCHANGED channel_members
  BY <1>2
<1>3. UserAsks(u) => UNCHANGED channel_members
  BY AsksMoves, AskedMoves DEF Asked, table_vars
<1> QED
  BY <1>1, <1>2, <1>3, InterfaceMoves
     DEF Handler, FriendsCheck, FriendInsert, StatusSelect, StatusDelete, StatusUpdate,
         TriggerEvent, ChannelLookup, CreateChannel, MessageCheck, MessageInsert,
         MessageMembers, GetFriends, GetFriendRequests, EnterSession, StatementFails,
         table_vars

LEMMA MessagesMove ==
  ASSUME IInv, NEW u \in Users, UserAsks(u) \/ Handler(u) \/ Interface(u)
  PROVE  \/ UNCHANGED messages
         \/ /\ MessageInsert(u)
            /\ \A m \in Messages : messages'[m] =
                 IF m = request[u].message
                   THEN [sender |-> u, channel |-> request[u].channel] ELSE messages[m]
<1>1. CASE MessageInsert(u)
  BY <1>1 DEF MessageInsert, IInv, TypeOK
<1>2. UserAsks(u) => UNCHANGED messages
  BY AsksMoves, AskedMoves DEF Asked, table_vars
<1> QED
  BY <1>1, <1>2, InterfaceMoves
     DEF Handler, FriendsCheck, FriendInsert, StatusSelect, StatusDelete, StatusUpdate,
         TriggerEvent, ChannelLookup, CreateChannel, AddMember, MessageCheck,
         MessageMembers, GetFriends, GetFriendRequests, EnterSession, StatementFails,
         table_vars

\* Messages that have come to a client stay with it, and a new one comes by an
\* event to a recipient that is logged in.
LEMMA ArrivalsMove ==
  ASSUME IInv, EventsTyped, MessageRequests, NEW u \in Users,
         UserAsks(u) \/ Handler(u) \/ Interface(u), NEW v \in Users
  PROVE  LET new == IF /\ TriggerEvent(u) /\ request[u].op = "message"
                       /\ v \in Recipients(u) \cap online
                      THEN {request[u].message} ELSE {}
         IN /\ \A i \in DOMAIN inbox'[v] :
                 inbox'[v][i].kind # "message" => inbox'[v][i].message = NoMessage
            /\ \A m \in Messages : m \in Arrives(v)' <=> m \in Arrives(v) \cup new
<1> DEFINE new == IF /\ TriggerEvent(u) /\ request[u].op = "message"
                     /\ v \in Recipients(u) \cap online
                    THEN {request[u].message} ELSE {}
<1>1. /\ inbox[v] \in Seq(EventRecords)
      /\ \A x \in Users : Arrives(x) = shown[x] \cup Waiting(inbox[x])
      /\ Arrives(v)' = shown'[v] \cup Waiting(inbox'[v])
  BY DEF IInv, TypeOK, Arrives, Waiting
<1>2. CASE UNCHANGED <<inbox, shown>>
  <2>1. ~ TriggerEvent(u) \/ v \notin Recipients(u) \cap online
    <3> SUFFICES ASSUME TriggerEvent(u), v \in Recipients(u) \cap online PROVE FALSE
      OBVIOUS
    <3>1. inbox[v] = Append(inbox[v], EventOf(u))
      BY <1>2 DEF TriggerEvent
    <3>2. EventOf(u) \in EventRecords
      BY DEF EventOf, EventKind, EventRecords, RequestRecords, IInv, TypeOK
    <3>3. Len(Append(inbox[v], EventOf(u))) = Len(inbox[v]) + 1 /\ Len(inbox[v]) \in Nat
      BY <1>1, <3>2, AppendProperties
    <3> QED
      BY <3>1, <3>3
  <2> QED
    BY <1>1, <1>2, <2>1 DEF EventsTyped
<1>3. CASE TriggerEvent(u)
  <2> DEFINE e == EventOf(u)
  <2>1. /\ e \in EventRecords /\ e.message = request[u].message
        /\ e.kind # "message" => e.message = NoMessage
        /\ request[u].op # "message" => e.message = NoMessage
    BY DEF EventOf, EventKind, EventRecords, RequestRecords, IInv, TypeOK, MessageRequests
  <2>2. /\ inbox'[v] = IF v \in Recipients(u) \cap online THEN Append(inbox[v], e)
                       ELSE inbox[v]
        /\ shown' = shown
    BY <1>3 DEF TriggerEvent, view_vars
  <2> HIDE DEF e
  <2>3. CASE v \in Recipients(u) \cap online
    <3>1. Waiting(inbox'[v]) = Waiting(inbox[v]) \cup {e.message}
      BY <1>1, <2>1, <2>2, <2>3, WaitingAppend
    <3>2. \A m \in Messages : m \in Arrives(v)' <=> m \in Arrives(v) \cup new
      BY <1>1, <1>3, <2>1, <2>2, <2>3, <3>1, DirectoryAssumption
    <3>3. \A i \in DOMAIN inbox'[v] : \/ i \in DOMAIN inbox[v] /\ inbox'[v][i] = inbox[v][i]
                                      \/ inbox'[v][i] = e
      <4>1. /\ DOMAIN Append(inbox[v], e) = 1 .. Len(inbox[v]) + 1
            /\ DOMAIN inbox[v] = 1 .. Len(inbox[v]) /\ Len(inbox[v]) \in Nat
            /\ \A i \in 1 .. Len(inbox[v]) : Append(inbox[v], e)[i] = inbox[v][i]
            /\ Append(inbox[v], e)[Len(inbox[v]) + 1] = e
        BY <1>1, <2>1, AppendProperties
      <4>2. \A i \in 1 .. Len(inbox[v]) + 1 :
              i \in 1 .. Len(inbox[v]) \/ i = Len(inbox[v]) + 1
        BY <4>1
      <4> QED
        BY <2>2, <2>3, <4>1, <4>2
    <3>4. \A i \in DOMAIN inbox'[v] :
            inbox'[v][i].kind # "message" => inbox'[v][i].message = NoMessage
      BY <2>1, <3>3 DEF EventsTyped
    <3> QED
      BY <3>2, <3>4
  <2>4. CASE v \notin Recipients(u) \cap online
    BY <1>1, <2>2, <2>4 DEF EventsTyped
  <2> QED
    BY <2>3, <2>4
<1>4. CASE HandleEvent(u)
  <2> DEFINE e == Head(inbox[u])
  <2>1. /\ inbox[u] \in Seq(EventRecords) /\ inbox[u] # <<>>
        /\ inbox'[u] = Tail(inbox[u])
        /\ v # u => inbox'[v] = inbox[v] /\ shown'[v] = shown[v]
        /\ shown'[u] = IF e.kind = "message" THEN shown[u] \cup {e.message} ELSE shown[u]
    BY <1>4 DEF HandleEvent, IInv, TypeOK
  <2>2. /\ DOMAIN inbox[u] = 1 .. Len(inbox[u]) /\ Len(inbox[u]) \in Nat \ {0}
        /\ DOMAIN Tail(inbox[u]) = 1 .. Len(inbox[u]) - 1
        /\ \A i \in 1 .. Len(inbox[u]) - 1 : Tail(inbox[u])[i] = inbox[u][i + 1]
        /\ e = inbox[u][1]
    BY <2>1, HeadTailProperties, EmptySeq
  <2> HIDE DEF e
  <2>3. e.kind # "message" => e.message = NoMessage
    <3>1. 1 \in DOMAIN inbox[u]
      BY <2>2
    <3> QED
      BY <2>2, <3>1 DEF EventsTyped
  <2>4. Waiting(inbox[u]) = Waiting(inbox'[u]) \cup {e.message}
    BY <2>1, WaitingTail DEF e
  <2>5. ~ TriggerEvent(u)
    <3> SUFFICES ASSUME TriggerEvent(u) PROVE FALSE
      OBVIOUS
    <3>1. request'[u].stage = "ok"
      BY StageMoves DEF TriggerEvent
    <3> QED
      BY <1>4, <3>1 DEF TriggerEvent, HandleEvent
  <2>6. \A m \in Messages : m \in Arrives(v)' <=> m \in Arrives(v) \cup new
    <3>1. CASE v = u
      BY <1>1, <2>1, <2>3, <2>4, <2>5, <3>1, DirectoryAssumption
    <3>2. CASE v # u
      BY <1>1, <2>1, <2>5, <3>2
    <3> QED
      BY <3>1, <3>2
  <2>7. \A i \in DOMAIN inbox'[u] : i + 1 \in DOMAIN inbox[u] /\ inbox'[u][i] = inbox[u][i + 1]
    BY <2>1, <2>2
  <2>8. \A i \in DOMAIN inbox'[v] :
          inbox'[v][i].kind # "message" => inbox'[v][i].message = NoMessage
    <3>1. CASE v = u
      <4> SUFFICES ASSUME NEW i \in DOMAIN inbox'[u], inbox'[u][i].kind # "message"
                   PROVE  inbox'[u][i].message = NoMessage
        BY <3>1
      <4>1. i + 1 \in DOMAIN inbox[u] /\ inbox[u][i + 1].kind # "message"
        BY <2>7
      <4> QED
        BY <2>7, <4>1 DEF EventsTyped
    <3>2. CASE v # u
      BY <2>1, <3>2 DEF EventsTyped
    <3> QED
      BY <3>1, <3>2
  <2> QED
    BY <2>6, <2>8
<1>5. UserAsks(u) => UNCHANGED <<inbox, shown>>
  BY AsksMoves, AskedMoves DEF Asked, view_vars
<1>6. Interface(u) => UNCHANGED <<inbox, shown>> \/ HandleEvent(u)
  BY DEF Interface, Fulfilled, Rejected, FriendRequestShown, view_vars
<1>7. Handler(u) => UNCHANGED <<inbox, shown>> \/ TriggerEvent(u)
  BY DEF Handler, FriendsCheck, FriendInsert, StatusSelect, StatusDelete, StatusUpdate,
         ChannelLookup, CreateChannel, AddMember, MessageCheck, MessageInsert,
         MessageMembers, GetFriends, GetFriendRequests, EnterSession, StatementFails,
         view_vars
<1> QED
  BY <1>2, <1>3, <1>4, <1>5, <1>6, <1>7

\* What is known of the request of x is kept by a step of u, unless it is his.
RequestHolds(x) ==
  /\ IF request[x].op = "message"
       THEN /\ request[x].stage \in {"member", "insert", "members", "event", "ok", "error"}
            /\ request[x].channel \in Channels
            /\ request[x].message \in Messages
       ELSE request[x].message = NoMessage
  /\ At(x, {"message"}, "member") \/ At(x, {"message"}, "insert")
       => messages[request[x].message] = NoRow
  /\ request[x].op = "message" /\ request[x].stage \in {"insert", "members", "event", "ok"}
       => x \in channel_members[request[x].channel]
  /\ request[x].op = "message" /\ request[x].stage \in {"members", "event", "ok"}
       => messages[request[x].message] = [sender |-> x, channel |-> request[x].channel]

LEMMA HoldsEach ==
  (MessageRequests /\ Unsent /\ ByMember /\ StoredRow) <=> \A x \in Users : RequestHolds(x)
BY DEF MessageRequests, Unsent, ByMember, StoredRow, RequestHolds

LEMMA OthersHold ==
  ASSUME IInv, RequestsHold, NEW u \in Users, UserAsks(u) \/ Handler(u) \/ Interface(u),
         NEW x \in Users \ {u}
  PROVE  RequestHolds(x)'
<1>1. request'[x] = request[x] /\ RequestHolds(x)
  BY UserStepMoves, HoldsEach DEF RequestsHold
<1>2. CASE request[x].op # "message"
  BY <1>1, <1>2 DEF RequestHolds, At
<1>3. CASE request[x].op = "message"
  <2>1. request[x].channel \in Channels /\ request[x].message \in Messages
    BY <1>1, <1>3 DEF RequestHolds
  <2>2. channel_members[request[x].channel] \subseteq channel_members'[request[x].channel]
    BY <2>1, MembersMove
  <2>3. request[x].message # request[u].message
    BY <2>1, DirectoryAssumption DEF RequestsHold, MessageOnce
  <2>4. messages'[request[x].message] = messages[request[x].message]
    BY <2>1, <2>3, MessagesMove
  <2> QED
    BY <1>1, <1>3, <2>2, <2>4 DEF RequestHolds, At
<1> QED
  BY <1>2, <1>3

\* His own goes from the check to the INSERT, and on to the event.
LEMMA OwnHolds ==
  ASSUME IInv, RequestsHold, NEW u \in Users, UserAsks(u) \/ Handler(u) \/ Interface(u)
  PROVE  RequestHolds(u)'
<1>1. RequestHolds(u) /\ NoRequest.op = "none" /\ NoRequest.message = NoMessage
  BY HoldsEach DEF RequestsHold, NoRequest, Request
<1>2. CASE UserAsks(u)
  <2>1. PICK op \in Requests, stage \in {"check", "select", "call", "member", "friends"},
             other \in Users \cup {NoUser}, channel \in Channels \cup {NoChannel},
             message \in Messages \cup {NoMessage} :
               Asked(u, op, stage, other, channel, message)
    BY <1>2, AsksMoves
  <2>2. request'[u] = Request(op, stage, other, channel, message) /\ UNCHANGED table_vars
    BY <2>1, AskedMoves DEF Asked
  <2>3. /\ request'[u].op = op /\ request'[u].stage = stage
        /\ request'[u].channel = channel /\ request'[u].message = message
        /\ messages' = messages
    BY <2>2 DEF Request, table_vars
  <2>4. IF op = "message"
          THEN /\ stage = "member" /\ channel \in Channels /\ message \in Messages
               /\ messages[message] = NoRow
          ELSE message = NoMessage
    BY <2>1 DEF Asked
  <2> QED
    BY <2>3, <2>4 DEF RequestHolds, At
<1>3. CASE Interface(u)
  BY <1>1, <1>3, InterfaceMoves DEF RequestHolds, At, table_vars
<1>4. CASE Handler(u) /\ request[u].op # "message"
  BY <1>1, <1>4, HandlerMoves DEF RequestHolds, At
<1>5. CASE Handler(u) /\ request[u].op = "message"
  <2>1. /\ request'[u].op = "message"
        /\ request'[u].channel = request[u].channel
        /\ request'[u].message = request[u].message
        /\ request[u].channel \in Channels /\ request[u].message \in Messages
    BY <1>1, <1>5, HandlerMoves DEF RequestHolds
  <2>2. CASE MessageCheck(u)
    <3>1. \/ request'[u].stage = "error"
          \/ /\ request'[u].stage = "insert"
             /\ u \in channel_members[request[u].channel]
      <4>1. Goes(u, "error") \/ (Goes(u, "insert") /\ u \in channel_members[request[u].channel])
        BY <2>2 DEF MessageCheck
      <4> QED
        BY <4>1, StageMoves
    <3>2. UNCHANGED <<channel_members, messages>> /\ request[u].stage = "member"
      BY <2>2 DEF MessageCheck, table_vars, At
    <3> QED
      BY <1>1, <1>5, <2>1, <3>1, <3>2 DEF RequestHolds, At
  <2>3. CASE MessageInsert(u)
    <3>1. request'[u].stage = "members" /\ request[u].stage = "insert"
      BY <2>3, StageMoves DEF MessageInsert, At
    <3>2. /\ channel_members' = channel_members
          /\ messages'[request[u].message] = [sender |-> u, channel |-> request[u].channel]
      BY <2>1, <2>3 DEF MessageInsert, IInv, TypeOK
    <3> QED
      BY <1>1, <1>5, <2>1, <3>1, <3>2 DEF RequestHolds, At
  <2>4. CASE MessageMembers(u) \/ TriggerEvent(u)
    <3>1. /\ request'[u].stage \in {"event", "ok"}
          /\ request[u].stage \in {"members", "event"}
      BY <2>4, StageMoves DEF MessageMembers, TriggerEvent, At
    <3>2. UNCHANGED <<channel_members, messages>>
      BY <2>4 DEF MessageMembers, TriggerEvent, table_vars
    <3> QED
      BY <1>1, <1>5, <2>1, <3>1, <3>2 DEF RequestHolds, At
  <2>5. CASE StatementFails(u)
    <3>1. request'[u].stage = "error"
      BY <2>5, StageMoves DEF StatementFails
    <3> QED
      BY <2>1, <3>1 DEF RequestHolds, At
  <2> QED
    BY <1>5, <2>2, <2>3, <2>4, <2>5
       DEF Handler, FriendsCheck, FriendInsert, StatusSelect, StatusDelete, StatusUpdate,
           ChannelLookup, CreateChannel, AddMember, GetFriends, GetFriendRequests,
           EnterSession, At
<1> QED
  BY <1>2, <1>3, <1>4, <1>5

LEMMA MessageOnceStep ==
  ASSUME IInv, RequestsHold, NEW u \in Users, UserAsks(u) \/ Handler(u) \/ Interface(u)
  PROVE  MessageOnce'
<1>1. \A x \in Users \ {u} : request'[x] = request[x]
  BY UserStepMoves
<1>2. \/ request'[u].message \in {request[u].message, NoMessage}
      \/ \A x \in Users : request[x].message # request'[u].message
  <2>1. CASE UserAsks(u)
    <3>1. PICK op \in Requests, stage \in {"check", "select", "call", "member", "friends"},
               other \in Users \cup {NoUser}, channel \in Channels \cup {NoChannel},
               message \in Messages \cup {NoMessage} :
                 Asked(u, op, stage, other, channel, message)
      BY <2>1, AsksMoves
    <3>2. request'[u] = Request(op, stage, other, channel, message)
      BY <3>1, AskedMoves DEF Asked
    <3>3. request'[u].message = message
      BY <3>2 DEF Request
    <3> QED
      BY <3>1, <3>3 DEF Asked
  <2>2. CASE Handler(u)
    BY <2>2, HandlerMoves
  <2>3. CASE Interface(u)
    <3>1. NoRequest.message = NoMessage
      BY DEF NoRequest, Request
    <3> QED
      BY <2>3, <3>1, InterfaceMoves
  <2> QED
    BY <2>1, <2>2, <2>3
<1> QED
  BY <1>1, <1>2 DEF RequestsHold, MessageOnce

\* The reach of the messages: who has one is in its channel, and who was in the
\* channel from the start, and logged in, gets it.
LEMMA ReachStep ==
  ASSUME IInv, MessageInv, NEW u \in Users, UserAsks(u) \/ Handler(u) \/ Interface(u)
  PROVE  MessagesReachMembers'
<1>1. \A x \in Users : RequestHolds(x)
  BY HoldsEach DEF MessageInv, RequestsHold
<1>2. EventsTyped /\ MessageRequests /\ MessageOnce /\ RowsTyped /\ OnlineFirst
  BY DEF MessageInv, RequestsHold
<1>3. ASSUME NEW v \in Users, NEW m \in Messages, m \in Arrives(v)'
      PROVE  /\ messages'[m] # NoRow /\ messages'[m].sender # v
             /\ v \in channel_members'[messages'[m].channel]
  <2>1. CASE m \in Arrives(v)
    <3>1. /\ messages[m] # NoRow /\ messages[m].sender # v
          /\ v \in channel_members[messages[m].channel]
      BY <2>1 DEF MessageInv, MessagesReachMembers
    <3>2. messages'[m] = messages[m]
      <4>1. MessageInsert(u) => messages[request[u].message] = NoRow
        BY <1>1 DEF RequestHolds, MessageInsert, At
      <4> QED
        BY <3>1, <4>1, MessagesMove
    <3>3. messages[m].channel \in Channels
      BY <1>2, <3>1 DEF RowsTyped
    <3> QED
      BY <3>1, <3>2, <3>3, MembersMove
  <2>2. CASE m \notin Arrives(v)
    <3>1. /\ TriggerEvent(u) /\ request[u].op = "message" /\ m = request[u].message
          /\ v \in Recipients(u)
      BY <1>2, <1>3, <2>2, ArrivalsMove
    <3>2. /\ messages[m] = [sender |-> u, channel |-> request[u].channel]
          /\ v \in channel_members[request[u].channel] \ {u}
          /\ UNCHANGED <<messages, channel_members>>
      BY <1>1, <3>1 DEF RequestHolds, TriggerEvent, Recipients, table_vars
    <3>3. u # NoUser
      BY DirectoryAssumption
    <3> QED
      BY <3>2, <3>3 DEF NoRow
  <2> QED
    BY <2>1, <2>2
<1>4. ASSUME NEW x \in Users, request'[x].op = "message", request'[x].stage = "ok"
      PROVE  /\ messages'[request'[x].message].sender = x
             /\ \A v \in world'.online \cap channel_members'[request'[x].channel] :
                  v # x => request'[x].message \in Arrives(v)'
  <2> DEFINE m == request'[x].message
             c == request'[x].channel
  <2>1. /\ m \in Messages /\ c \in Channels
        /\ messages'[m] = [sender |-> x, channel |-> c]
    <3>1. RequestHolds(x)'
      BY OthersHold, OwnHolds DEF MessageInv
    <3> QED
      BY <1>4, <3>1 DEF RequestHolds
  <2>2. ASSUME NEW v \in world'.online \cap channel_members'[c], v # x
        PROVE  m \in Arrives(v)'
    <3>1. v \in Users /\ v \in world.online /\ v \in online
      BY <1>2, UserStepMoves DEF OnlineFirst, IInv, TypeOK
    <3>2. CASE request'[x] = request[x]
      <4>1. x \in channel_members[c] /\ request[x].op = "message" /\ request[x].stage = "ok"
        BY <1>1, <1>4, <3>2 DEF RequestHolds
      <4>2. channel_members'[c] = channel_members[c]
        BY <2>1, <4>1, MembersMove
      <4>3. m \in Arrives(v)
        BY <2>2, <3>1, <3>2, <4>1, <4>2 DEF MessageInv, MessagesReachMembers
      <4> QED
        BY <1>2, <2>1, <3>1, <4>3, ArrivalsMove
    <3>3. CASE request'[x] # request[x]
      <4>1. x = u
        BY <3>3, UserStepMoves
      <4>2. TriggerEvent(u) /\ request[u].op = "message"
        <5>1. CASE UserAsks(u)
          <6>1. PICK op \in Requests,
                     stage \in {"check", "select", "call", "member", "friends"},
                     other \in Users \cup {NoUser}, channel \in Channels \cup {NoChannel},
                     message \in Messages \cup {NoMessage} :
                       Asked(u, op, stage, other, channel, message)
            BY <5>1, AsksMoves
          <6>2. request'[u] = Request(op, stage, other, channel, message)
            BY <6>1, AskedMoves DEF Asked
          <6> QED
            BY <1>4, <4>1, <6>2 DEF Request
        <5>2. CASE Interface(u)
          <6>1. NoRequest.op = "none"
            BY DEF NoRequest, Request
          <6> QED
            BY <1>4, <3>3, <4>1, <5>2, <6>1, InterfaceMoves
        <5>3. CASE Handler(u)
          <6>1. request[u].op = "message"
            BY <1>4, <4>1, <5>3, HandlerMoves
          <6>2. ASSUME NEW stage, Goes(u, stage) PROVE stage = "ok"
            BY <1>4, <4>1, <6>2, StageMoves
          <6> QED
            BY <5>3, <6>1, <6>2
               DEF Handler, FriendsCheck, FriendInsert, StatusSelect, StatusDelete,
                   StatusUpdate, ChannelLookup, CreateChannel, AddMember, MessageCheck,
                   MessageInsert, MessageMembers, GetFriends, GetFriendRequests,
                   EnterSession, StatementFails, At
        <5> QED
          BY <5>1, <5>2, <5>3
      <4>3. /\ m = request[u].message /\ c = request[u].channel
            /\ channel_members' = channel_members
        <5>1. Handler(u)
          BY <4>2 DEF Handler
        <5> QED
          BY <1>4, <4>1, <4>2, <5>1, HandlerMoves DEF TriggerEvent, table_vars
      <4>4. v \in Recipients(u) \cap online
        BY <2>2, <3>1, <4>1, <4>2, <4>3 DEF Recipients
      <4> QED
        BY <1>2, <2>1, <3>1, <4>2, <4>3, <4>4, ArrivalsMove
    <3> QED
      BY <3>2, <3>3
  <2> QED
    BY <2>1, <2>2
<1> QED
  BY <1>3, <1>4 DEF MessagesReachMembers

LEMMA MessageInvariant == Spec => []MessageInv
<1>1. IInv /\ MessageInv /\ [Next]_vars => MessageInv'
  <2> SUFFICES ASSUME IInv, MessageInv, [Next]_vars PROVE MessageInv'
    OBVIOUS
  <2>1. CASE UNCHANGED vars
    BY <2>1 DEF vars, table_vars, server_vars, view_vars, MessageInv, RequestsHold,
       MessageRequests, MessageOnce, Unsent, ByMember, StoredRow, RowsTyped, EventsTyped,
       OnlineFirst, MessagesReachMembers, Arrives, At
  <2>2. ASSUME NEW u \in Users, UserAsks(u) \/ Handler(u) \/ Interface(u)
        PROVE  MessageInv'
    <3>0. RequestsHold /\ EventsTyped /\ MessageRequests /\ RowsTyped
      BY DEF MessageInv, RequestsHold
    <3>1. RequestsHold'
      <4>1. \A x \in Users : RequestHolds(x)'
        BY <2>2, <3>0, OthersHold, OwnHolds
      <4>2. (MessageRequests /\ Unsent /\ ByMember /\ StoredRow)'
        BY <4>1 DEF MessageRequests, Unsent, ByMember, StoredRow, RequestHolds
      <4> QED
        BY <2>2, <3>0, <4>2, MessageOnceStep DEF RequestsHold
    <3>2. RowsTyped'
      <4>1. MessageInsert(u) => request[u].channel \in Channels
        BY <3>0 DEF MessageInsert, At, MessageRequests
      <4>2. ASSUME NEW m \in Messages, messages'[m] # NoRow
            PROVE  messages'[m] \in [sender : Users, channel : Channels]
        <5>1. \/ messages'[m] = messages[m]
              \/ /\ MessageInsert(u)
                 /\ messages'[m] = [sender |-> u, channel |-> request[u].channel]
          BY <2>2, MessagesMove
        <5>2. CASE messages'[m] = messages[m]
          BY <3>0, <4>2, <5>2 DEF RowsTyped
        <5>3. CASE /\ MessageInsert(u)
                   /\ messages'[m] = [sender |-> u, channel |-> request[u].channel]
          BY <4>1, <5>3
        <5> QED
          BY <5>1, <5>2, <5>3
      <4> QED
        BY <4>2 DEF RowsTyped
    <3>3. EventsTyped'
      BY <2>2, <3>0, ArrivalsMove DEF EventsTyped
    <3>4. OnlineFirst'
      <4>1. online \subseteq online'
        <5>1. UserAsks(u) => online' = online
          BY AsksMoves, AskedMoves DEF Asked, server_vars
        <5> QED
          BY <2>2, <5>1, InterfaceMoves
             DEF Handler, FriendsCheck, FriendInsert, StatusSelect, StatusDelete,
                 StatusUpdate, TriggerEvent, ChannelLookup, CreateChannel, AddMember,
                 MessageCheck, MessageInsert, MessageMembers, GetFriends,
                 GetFriendRequests, EnterSession, StatementFails, server_vars
      <4> QED
        BY <2>2, <4>1, UserStepMoves DEF MessageInv, OnlineFirst
    <3> QED
      BY <2>2, <3>1, <3>2, <3>3, <3>4, ReachStep DEF MessageInv
  <2> QED
    BY <2>1, <2>2 DEF Next
<1> QED
  BY <1>1, InductiveInvariant, InitMessageInv, PTL DEF Spec

\* A message is shown only to other members of its channel, after it was stored,
\* and when its sender is answered each of them that is logged in has been sent
\* it, whatever members join and messages come meanwhile.
THEOREM MessagesAlwaysReachMembers == Spec => []MessagesReachMembers
<1>1. MessageInv => MessagesReachMembers
  BY DEF MessageInv
<1> QED
  BY <1>1, MessageInvariant, PTL

-----------------------------------------------------------------------------
\* What two users are to each other, as one of them sees it, and how the events
\* change it.
Relations == {"none", "friend", "requester", "recipient"}
Befriending == {"friend", "approve", "reject", "remove"}

Listed(u, v, r) ==
  /\ v \in friends[u] <=> r = "friend"
  /\ <<v, "requester">> \in friend_requests[u] <=> r = "requester"
  /\ <<v, "recipient">> \in friend_requests[u] <=> r = "recipient"
InTable(u, v, r) ==
  /\ (\E k \in RowsOf(u, v) : friendships[k] = "approved") <=> r = "friend"
  /\ friendships[<<v, u>>] = "pending" <=> r = "requester"
  /\ friendships[<<u, v>>] = "pending" <=> r = "recipient"

Becomes(kind, r, s) ==
  CASE kind = "request"  -> r = "none" /\ s = "requester"
    [] kind = "approved" -> r = "recipient" /\ s = "friend"
    [] OTHER             -> s = "none"
Turns(e, v, r, s) ==
  IF e.from = v /\ e.kind # "message" THEN Becomes(e.kind, r, s) ELSE s = r

\* The relation to v goes through h as the events of s are shown.
History(s, v, h) ==
  /\ h \in [0 .. Len(s) -> Relations]
  /\ \A i \in 1 .. Len(s) : Turns(s[i], v, h[i - 1], h[i])

\* The relation that u shows of v is that of the table, once his inbox is shown
\* and the event that v's request still has to send.
Asks(u, v) == request[u].op \in Befriending /\ request[u].other = v
Due(u, v, r) ==
  IF Asks(v, u) /\ request[v].stage = "event"
    THEN \E s \in Relations :
           Becomes(EventKind(request[v].op), r, s) /\ InTable(u, v, s)
    ELSE InTable(u, v, r)
Comes(u, v) ==
  \E h \in [0 .. Len(inbox[u]) -> Relations] :
    /\ History(inbox[u], v, h)
    /\ Listed(u, v, h[0])
    /\ Due(u, v, h[Len(inbox[u])])

\* When requests do not overlap, nobody asks with events to show, and requests
\* are shown at once:
Calm == world.may \cap {"overlap", "late", "await"} = {}
LoggingIn(u) == request[u].op \in {"login", "resume"}
Answered(u, v) == Asks(u, v) /\ request[u].stage \in {"event", "ok"}

\* - events come to users who are logged in and ask for nothing;
InboxRests ==
  \A u \in Users :
    /\ request[u].op = "none" => request[u] = NoRequest
    /\ updating[u] = {}
    /\ request[u] # NoRequest \/ u \notin online => inbox[u] = <<>>

\* - who asks shows what he asks about as he did when he began;
Before(op, r) ==
  CASE op = "friend"  -> r = "none"
    [] op = "approve" -> r = "requester"
    [] op = "reject"  -> r \in {"requester", "recipient"}
    [] OTHER          -> r = "friend"
AskedFor ==
  \A u, v \in Users : Asks(u, v) =>
    u \in online /\ \E r \in Relations : Listed(u, v, r) /\ Before(request[u].op, r)

\* - what his request has selected is still there, and what it has written;
After(op) ==
  CASE op = "friend" -> "recipient" [] op = "approve" -> "friend" [] OTHER -> "none"
Written ==
  \A u, v \in Users : Asks(u, v) =>
    /\ request[u].stage \in {"update", "delete"} => request[u].key \in RowsOf(u, v)
    /\ request[u].stage = "update" => friendships[request[u].key] = "pending"
    /\ request[u].stage \in {"event", "ok"} => InTable(u, v, After(request[u].op))

\* - the lists of a login are those of the table;
LoginLists ==
  \A u \in Users : LoggingIn(u) =>
    /\ request[u].stage \in {"friends", "requests", "enter", "ok", "error"}
    /\ u \in online => request[u].stage = "ok"
    /\ request[u].stage \in {"requests", "enter", "ok"} =>
         request[u].lists.friends =
           {v \in Users : \E k \in RowsOf(u, v) : friendships[k] = "approved"}
    /\ request[u].stage \in {"enter", "ok"} =>
         request[u].lists.requests =
           {r \in Users \X {"requester", "recipient"} :
              friendships[IF r[2] = "requester" THEN <<r[1], u>> ELSE <<u, r[1]>>]
                = "pending"}

\* - and all others show what their events make the table's.
ListsDue ==
  \A u \in online, v \in Users : LoggingIn(u) \/ Answered(u, v) \/ Comes(u, v)

ViewInv ==
  Calm => InboxRests /\ AskedFor /\ Written /\ LoginLists /\ ListsDue

LEMMA HistoryEmpty ==
  ASSUME NEW v, NEW r \in Relations
  PROVE  \E h \in [0 .. Len(<<>>) -> Relations] :
           History(<<>>, v, h) /\ h[0] = r /\ h[Len(<<>>)] = r
<1> DEFINE h == [i \in 0 .. Len(<<>>) |-> r]
<1>1. Len(<<>>) = 0
  OBVIOUS
<1>2. h \in [0 .. Len(<<>>) -> Relations] /\ h[0] = r /\ h[Len(<<>>)] = r
  BY <1>1
<1>3. History(<<>>, v, h)
  BY <1>1, <1>2 DEF History
<1> QED
  BY <1>2, <1>3

LEMMA HistoryAppend ==
  ASSUME NEW s \in Seq(EventRecords), NEW e \in EventRecords, NEW v,
         NEW h \in [0 .. Len(s) -> Relations], History(s, v, h),
         NEW r \in Relations, Turns(e, v, h[Len(s)], r)
  PROVE  \E g \in [0 .. Len(Append(s, e)) -> Relations] :
           /\ History(Append(s, e), v, g)
           /\ g[0] = h[0] /\ g[Len(Append(s, e))] = r
<1> DEFINE t == Append(s, e)
           g == [i \in 0 .. Len(t) |-> IF i = Len(t) THEN r ELSE h[i]]
<1>1. /\ Len(s) \in Nat /\ Len(t) = Len(s) + 1
      /\ \A i \in 1 .. Len(s) : t[i] = s[i]
      /\ t[Len(t)] = e
  BY AppendProperties
<1> HIDE DEF t
<1>2. \A i \in 0 .. Len(s) : i # Len(t) /\ i \in 0 .. Len(t) /\ g[i] = h[i]
  BY <1>1
<1>3. g \in [0 .. Len(t) -> Relations] /\ g[Len(t)] = r /\ g[0] = h[0]
  <2>1. \A i \in 0 .. Len(t) : i = Len(t) \/ i \in 0 .. Len(s)
    BY <1>1
  <2>2. \A i \in 0 .. Len(t) : (IF i = Len(t) THEN r ELSE h[i]) \in Relations
    BY <2>1
  <2>3. Len(t) \in 0 .. Len(t) /\ 0 \in 0 .. Len(s)
    BY <1>1
  <2> QED
    BY <1>2, <2>2, <2>3
<1> HIDE DEF g
<1>4. ASSUME NEW i \in 1 .. Len(t) PROVE Turns(t[i], v, g[i - 1], g[i])
  <2>1. CASE i = Len(t)
    <3>1. i - 1 = Len(s) /\ Len(s) \in 0 .. Len(s)
      BY <1>1, <2>1
    <3>2. g[i - 1] = h[Len(s)] /\ g[i] = r /\ t[i] = e
      BY <1>1, <1>2, <1>3, <2>1, <3>1
    <3> QED
      BY <3>2
  <2>2. CASE i # Len(t)
    <3>1. i \in 1 .. Len(s) /\ i \in 0 .. Len(s) /\ i - 1 \in 0 .. Len(s)
      BY <1>1, <2>2
    <3>2. g[i - 1] = h[i - 1] /\ g[i] = h[i] /\ t[i] = s[i]
      BY <1>1, <1>2, <3>1
    <3> QED
      BY <3>1, <3>2 DEF History
  <2> QED
    BY <2>1, <2>2
<1>5. History(t, v, g)
  BY <1>3, <1>4 DEF History
<1> QED
  BY <1>3, <1>5 DEF t

LEMMA HistoryTail ==
  ASSUME NEW s \in Seq(EventRecords), s # <<>>, NEW v,
         NEW h \in [0 .. Len(s) -> Relations], History(s, v, h)
  PROVE  /\ h[0] \in Relations /\ h[1] \in Relations
         /\ Turns(Head(s), v, h[0], h[1])
         /\ \E g \in [0 .. Len(Tail(s)) -> Relations] :
              /\ History(Tail(s), v, g)
              /\ g[0] = h[1] /\ g[Len(Tail(s))] = h[Len(s)]
<1> DEFINE t == Tail(s)
           g == [i \in 0 .. Len(t) |-> h[i + 1]]
<1>1. /\ Len(s) \in Nat \ {0} /\ Len(t) = Len(s) - 1
      /\ \A i \in 1 .. Len(t) : t[i] = s[i + 1]
      /\ Head(s) = s[1]
  BY HeadTailProperties, EmptySeq
<1> HIDE DEF t
<1>2. Turns(Head(s), v, h[0], h[1]) /\ h[0] \in Relations /\ h[1] \in Relations
  <2>1. 1 \in 1 .. Len(s) /\ 1 - 1 = 0 /\ 0 \in 0 .. Len(s) /\ 1 \in 0 .. Len(s)
    BY <1>1
  <2>2. Turns(s[1], v, h[1 - 1], h[1])
    BY <2>1 DEF History
  <2> QED
    BY <1>1, <2>1, <2>2
<1>3. /\ g \in [0 .. Len(t) -> Relations]
      /\ \A i \in 0 .. Len(t) : g[i] = h[i + 1]
  <2>1. \A i \in 0 .. Len(t) : i + 1 \in 0 .. Len(s)
    BY <1>1
  <2> QED
    BY <2>1
<1> HIDE DEF g
<1>4. g[0] = h[1] /\ g[Len(t)] = h[Len(s)]
  <2>1. 0 \in 0 .. Len(t) /\ Len(t) \in 0 .. Len(t) /\ Len(t) + 1 = Len(s) /\ 0 + 1 = 1
    BY <1>1
  <2> QED
    BY <1>3, <2>1
<1>5. ASSUME NEW i \in 1 .. Len(t) PROVE Turns(t[i], v, g[i - 1], g[i])
  <2>1. /\ i + 1 \in 1 .. Len(s) /\ (i + 1) - 1 = i
        /\ i \in 0 .. Len(t) /\ i - 1 \in 0 .. Len(t) /\ (i - 1) + 1 = i
    BY <1>1
  <2>2. Turns(s[i + 1], v, h[(i + 1) - 1], h[i + 1])
    BY <2>1 DEF History
  <2>3. g[i] = h[i + 1] /\ g[i - 1] = h[i] /\ t[i] = s[i + 1]
    BY <1>1, <1>3, <2>1
  <2> QED
    BY <2>1, <2>2, <2>3
<1>6. History(t, v, g)
  BY <1>3, <1>5 DEF History
<1> QED
  BY <1>2, <1>3, <1>4, <1>6 DEF t

\* The one relation that the rows of two users make.
Relation(x, y) ==
  IF friendships[<<x, y>>] = "approved" \/ friendships[<<y, x>>] = "approved" THEN "friend"
  ELSE IF friendships[<<y, x>>] = "pending" THEN "requester"
  ELSE IF friendships[<<x, y>>] = "pending" THEN "recipient"
  ELSE "none"

\* What a calm world gives every step.
LEMMA CalmWorld ==
  ASSUME IInv, PairInv, Calm
  PROVE  /\ Apart /\ ~ May("overlap") /\ ~ May("late") /\ ~ May("await")
         /\ friendships \in [Keys -> {"none", "pending", "approved"}]
         /\ \A x, y \in Users :
              request[x] # NoRequest /\ request[y] # NoRequest => x = y
         /\ \A x, y \in Users :
              friendships[<<x, y>>] # "none" => x # y /\ friendships[<<y, x>>] = "none"
         /\ \A x \in Users : request[x].op \in Befriending =>
              request[x].other \in Users \ {x}
<1>1. Apart /\ ~ May("overlap") /\ ~ May("late") /\ ~ May("await")
  BY DEF Calm, May, Apart
<1> QED
  BY <1>1 DEF IInv, TypeOK, ChannelsHold, OtherAsked, PairInv, OneAtATime, OneRow,
              Befriending

LEMMA OneRelation ==
  ASSUME IInv, PairInv, Calm, NEW x \in Users, NEW y \in Users
  PROVE  /\ Relation(x, y) \in Relations
         /\ \A r \in Relations : InTable(x, y, r) <=> r = Relation(x, y)
<1>1. /\ friendships[<<x, y>>] \in {"none", "pending", "approved"}
      /\ friendships[<<y, x>>] \in {"none", "pending", "approved"}
      /\ friendships[<<x, y>>] # "none" => x # y /\ friendships[<<y, x>>] = "none"
  BY CalmWorld DEF Keys
<1>2. (\E k \in RowsOf(x, y) : friendships[k] = "approved")
        <=> friendships[<<x, y>>] = "approved" \/ friendships[<<y, x>>] = "approved"
  BY DEF RowsOf
<1> QED
  BY <1>1, <1>2 DEF Relation, Relations, InTable

\* A list shows one relation.
LEMMA ListedOnce ==
  ASSUME NEW u, NEW v, NEW r \in Relations, NEW s \in Relations,
         Listed(u, v, r), Listed(u, v, s)
  PROVE  r = s
BY DEF Listed, Relations

\* A step after which the lists of u show of v, and v's request leaves due, what
\* they did.
LEMMA ComesKept ==
  ASSUME NEW u \in Users, NEW v \in Users, Comes(u, v),
         inbox'[u] = inbox[u],
         \A r \in Relations : Listed(u, v, r) => Listed(u, v, r)',
         \A r \in Relations : Due(u, v, r) => Due(u, v, r)',
         IInv
  PROVE  Comes(u, v)'
<1>1. PICK h \in [0 .. Len(inbox[u]) -> Relations] :
        /\ History(inbox[u], v, h)
        /\ Listed(u, v, h[0])
        /\ Due(u, v, h[Len(inbox[u])])
  BY DEF Comes
<1>2. History(inbox'[u], v, h)
  BY <1>1
<1>3. Len(inbox[u]) \in Nat
  BY DEF IInv, TypeOK
<1>4. h[0] \in Relations /\ h[Len(inbox[u])] \in Relations
  BY <1>3
<1>5. PICK r \in Relations, s \in Relations : r = h[0] /\ s = h[Len(inbox[u])]
  BY <1>4
<1>6. Listed(u, v, r)' /\ Due(u, v, s)'
  BY <1>1, <1>5
<1> QED
  BY <1>2, <1>5, <1>6 DEF Comes

LEMMA InitViewInv == Init => ViewInv
<1> SUFFICES ASSUME Init PROVE ViewInv
  OBVIOUS
<1>1. /\ \A u \in Users : request[u] = NoRequest /\ inbox[u] = <<>> /\ updating[u] = {}
      /\ NoRequest.op = "none"
  BY DEF Init, NoRequest, Request
<1>2. InboxRests /\ AskedFor /\ Written /\ LoginLists
  BY <1>1 DEF InboxRests, AskedFor, Written, LoginLists, Asks, LoggingIn, Befriending
<1>3. ASSUME NEW u \in Users, NEW v \in Users PROVE Comes(u, v)
  <2>1. Listed(u, v, "none") /\ InTable(u, v, "none") /\ "none" \in Relations
    BY DEF Init, Listed, InTable, RowsOf, Keys, Relations
  <2>2. PICK h \in [0 .. Len(<<>>) -> Relations] :
          History(<<>>, v, h) /\ h[0] = "none" /\ h[Len(<<>>)] = "none"
    BY <2>1, HistoryEmpty
  <2>3. Due(u, v, "none")
    BY <1>1, <2>1 DEF Due, Asks, Befriending
  <2> QED
    BY <1>1, <2>1, <2>2, <2>3 DEF Comes
<1>4. ListsDue
  <2>1. online \subseteq Users
    BY DirectoryAssumption DEF Init
  <2> QED
    BY <1>3, <2>1 DEF ListsDue
<1> QED
  BY <1>2, <1>4 DEF ViewInv

\* Who has a request under way, and who has not, when only one asks at a time.
LEMMA OthersRest ==
  ASSUME IInv, PairInv, ViewInv, Calm, NEW u \in Users,
         UserAsks(u) \/ Handler(u) \/ Interface(u)
  PROVE  /\ \A x \in Users \ {u} :
              /\ request'[x] = request[x]
              /\ request[x] # NoRequest => ~ Handler(u) /\ UNCHANGED table_vars
         /\ ~ Handler(u) => UNCHANGED <<table_vars, server_vars>>
         /\ ~ Interface(u) => UNCHANGED view_vars
         /\ NoRequest.op = "none" /\ NoRequest.stage = "ok"
         /\ Calm' /\ world' = world
<1>1. world' = world /\ \A x \in Users \ {u} : request'[x] = request[x]
  BY UserStepMoves
<1>2. Handler(u) => request[u] # NoRequest /\ UNCHANGED view_vars
  BY HandlerMoves
<1>3. UserAsks(u) => UNCHANGED <<table_vars, server_vars, view_vars>>
  BY AsksMoves, AskedMoves DEF Asked
<1>4. Interface(u) => UNCHANGED <<table_vars, server_vars>>
  BY InterfaceMoves
<1> QED
  BY <1>1, <1>2, <1>3, <1>4, CalmWorld DEF NoRequest, Request, Calm

\* Whom an event is for, and that he asks for nothing.
LEMMA EventFor ==
  ASSUME IInv, PairInv, ViewInv, Calm, NEW u \in Users, TriggerEvent(u)
  PROVE  /\ request[u].op \in Befriending \cup {"message"}
         /\ u \notin Recipients(u)
         /\ \A v \in Users \ {u} : request[v] = NoRequest /\ request'[v] = NoRequest
         /\ request'[u].op = request[u].op /\ request'[u].other = request[u].other
         /\ request'[u].stage = "ok"
<1>1. /\ request[u] # NoRequest
      /\ request'[u].op = request[u].op /\ request'[u].other = request[u].other
      /\ \A v \in Users \ {u} : request'[v] = request[v]
  BY HandlerMoves, UserStepMoves DEF Handler
<1>2. request'[u].stage = "ok"
  BY StageMoves DEF TriggerEvent
<1>3. \A v \in Users \ {u} : request[v] = NoRequest
  BY <1>1, CalmWorld
<1>4. request[u].op \in Befriending \cup {"message"}
  <2>1. request[u].op \in Requests \cup {"none"} /\ request[u].stage = "event"
    BY DEF IInv, TypeOK, RequestRecords, TriggerEvent
  <2>2. request[u].op # "none"
    BY <1>1 DEF ViewInv, InboxRests
  <2>3. request[u].op # "channel"
    BY <2>1 DEF IInv, ChannelsHold, ChannelStages
  <2>4. request[u].op \notin {"login", "resume"}
    BY <2>1 DEF ViewInv, LoginLists, LoggingIn
  <2> QED
    BY <2>1, <2>2, <2>3, <2>4 DEF Requests, Befriending
<1>5. u \notin Recipients(u)
  BY <1>4, CalmWorld DEF Recipients, Befriending
<1> QED
  BY <1>1, <1>2, <1>3, <1>4, <1>5

LEMMA InboxStep ==
  ASSUME IInv, PairInv, ViewInv, Calm, NEW u \in Users,
         UserAsks(u) \/ Handler(u) \/ Interface(u)
  PROVE  InboxRests'
<1>0. InboxRests
  BY DEF ViewInv
<1>1. /\ \A x \in Users \ {u} : request'[x] = request[x]
      /\ NoRequest.op = "none"
      /\ \A x \in Users : updating[x] = {}
  BY <1>0, OthersRest DEF InboxRests
<1>2. ~ FriendRequestEvent(u, Head(inbox[u]).from) \/ updating' = updating
  BY CalmWorld DEF FriendRequestEvent
<1>3. CASE UserAsks(u)
  <2>1. PICK op \in Requests, stage \in {"check", "select", "call", "member", "friends"},
             other \in Users \cup {NoUser}, channel \in Channels \cup {NoChannel},
             message \in Messages \cup {NoMessage} :
               Asked(u, op, stage, other, channel, message)
    BY <1>3, AsksMoves
  <2>2. /\ request'[u] = Request(op, stage, other, channel, message)
        /\ UNCHANGED <<server_vars, inbox, view_vars>>
    BY <2>1, AskedMoves DEF Asked
  <2>3. inbox[u] = <<>> /\ request'[u].op # "none"
    BY <2>1, <2>2, CalmWorld DEF Asked, Begins, Request, Requests
  <2> QED
    BY <1>0, <1>1, <2>2, <2>3 DEF InboxRests, server_vars, view_vars
<1>4. CASE Handler(u)
  <2>1. /\ request[u] # NoRequest /\ request'[u].op = request[u].op
        /\ updating' = updating
    BY <1>4, HandlerMoves DEF view_vars
  <2>2. request'[u].op # "none"
    BY <1>0, <2>1 DEF InboxRests
  <2>3. request'[u] # NoRequest /\ inbox[u] = <<>>
    BY <1>0, <1>1, <2>1, <2>2 DEF InboxRests
  <2>4. CASE TriggerEvent(u)
    <3>1. u \notin Recipients(u) /\ \A v \in Users \ {u} : request'[v] = NoRequest
      BY <2>4, EventFor
    <3>2. \A v \in Users : inbox'[v] # inbox[v] => v \in Recipients(u) \cap online
      BY <2>4 DEF TriggerEvent, IInv, TypeOK
    <3>3. online' = online
      BY <2>4 DEF TriggerEvent, server_vars
    <3> QED
      BY <1>0, <1>1, <2>1, <2>2, <2>3, <3>1, <3>2, <3>3 DEF InboxRests
  <2>5. CASE ~ TriggerEvent(u)
    <3>1. inbox' = inbox /\ online' \in {online, online \cup {u}}
      BY <1>4, <2>5
         DEF Handler, FriendsCheck, FriendInsert, StatusSelect, StatusDelete, StatusUpdate,
             ChannelLookup, CreateChannel, AddMember, MessageCheck, MessageInsert,
             MessageMembers, GetFriends, GetFriendRequests, EnterSession, StatementFails,
             server_vars
    <3> QED
      BY <1>0, <1>1, <2>1, <2>2, <2>3, <3>1 DEF InboxRests
  <2> QED
    BY <2>4, <2>5
<1>5. CASE Interface(u)
  <2>1. request'[u] \in {request[u], NoRequest} /\ online' = online
    BY <1>5, InterfaceMoves DEF server_vars
  <2>2. CASE HandleEvent(u)
    <3>1. /\ inbox[u] # <<>> /\ request' = request
          /\ \A x \in Users \ {u} : inbox'[x] = inbox[x]
      BY <2>2 DEF HandleEvent, IInv, TypeOK
    <3>2. updating' = updating
      BY <1>2, <2>2 DEF HandleEvent, FriendshipStatusEvent
    <3> QED
      BY <1>0, <2>1, <3>1, <3>2 DEF InboxRests
  <2>3. CASE Fulfilled(u) \/ Rejected(u)
    <3>1. UNCHANGED <<inbox, updating>> /\ request'[u] = NoRequest
      BY <2>3 DEF Fulfilled, Rejected, view_vars, IInv, TypeOK
    <3> QED
      BY <1>0, <1>1, <2>1, <3>1 DEF InboxRests
  <2> QED
    BY <1>1, <1>5, <2>2, <2>3 DEF Interface
<1> QED
  BY <1>3, <1>4, <1>5

\* The lists of one who may ask show of each user one relation.
LEMMA ShowsOne ==
  ASSUME IInv, ViewInv, Calm, NEW u \in online, request[u] = NoRequest, NEW v \in Users
  PROVE  Comes(u, v) /\ \E r \in Relations : Listed(u, v, r)
<1>1. u \in Users /\ NoRequest.op = "none"
  BY DEF IInv, TypeOK, NoRequest, Request
<1>2. Comes(u, v)
  BY <1>1 DEF ViewInv, ListsDue, LoggingIn, Answered, Asks, Befriending
<1>3. Len(inbox[u]) \in Nat
  BY <1>1 DEF IInv, TypeOK
<1> QED
  BY <1>2, <1>3 DEF Comes

LEMMA AskedForBegins ==
  ASSUME IInv, PairInv, ViewInv, Calm, NEW u \in Users, UserAsks(u),
         NEW v \in Users, Asks(u, v)'
  PROVE  u \in online /\ \E r \in Relations : Listed(u, v, r) /\ Before(request'[u].op, r)
<1>1. /\ request'[u].op \in Befriending /\ request'[u].other = v
      /\ NoRequest.op = "none"
  BY DEF Asks, NoRequest, Request
<1>2. ASSUME NEW op, NEW stage, NEW other, NEW channel, NEW message,
             Begins(u, op, stage, other, channel, message)
      PROVE  request[u] = NoRequest /\ op = request'[u].op /\ other = v
  <2>1. request[u] = NoRequest /\ request'[u] = Request(op, stage, other, channel, message)
    BY <1>2, AskedMoves
  <2> QED
    BY <1>1, <2>1 DEF Request
<1>3. ASSUME NEW w \in Users, SendFriendRequest(u, w)
      PROVE  /\ u \in online /\ Listed(u, v, "none")
             /\ request'[u].op = "friend"
  BY <1>2, <1>3 DEF SendFriendRequest, HasRequest, Listed
<1>4. ASSUME NEW w \in Users, SetFriendshipStatus(u, w)
      PROVE  /\ u \in online /\ request[u] = NoRequest /\ w = v
             /\ \/ /\ request'[u].op = "approve"
                   /\ v \notin friends[u] /\ <<v, "requester">> \in friend_requests[u]
                \/ /\ request'[u].op = "reject"
                   /\ v \notin friends[u]
                   /\ HasRequest(u, v, {"requester", "recipient"})
                \/ request'[u].op = "remove" /\ v \in friends[u]
  BY <1>2, <1>4 DEF SetFriendshipStatus, HasRequest
<1>5. (\E w \in Users : SendFriendRequest(u, w)) \/ \E w \in Users : SetFriendshipStatus(u, w)
  BY <1>1, <1>2 DEF UserAsks, GetPrivateChannel, SendMessage, Login, Befriending
<1>6. CASE \E w \in Users : SendFriendRequest(u, w)
  BY <1>3, <1>6 DEF Before, Relations
<1>7. CASE \E w \in Users : SetFriendshipStatus(u, w)
  <2>1. PICK r \in Relations : Listed(u, v, r)
    BY <1>4, <1>7, ShowsOne
  <2>2. Before(request'[u].op, r)
    BY <1>4, <1>7, <2>1 DEF Before, Listed, HasRequest, Relations
  <2> QED
    BY <1>4, <1>7, <2>1, <2>2
<1> QED
  BY <1>5, <1>6, <1>7

\* Who asks for something shows nothing else until he is answered.
LEMMA AskedForStep ==
  ASSUME IInv, PairInv, ViewInv, Calm, NEW u \in Users,
         UserAsks(u) \/ Handler(u) \/ Interface(u)
  PROVE  AskedFor'
<1> SUFFICES ASSUME NEW x \in Users, NEW y \in Users, Asks(x, y)'
             PROVE  /\ x \in online'
                    /\ \E r \in Relations : Listed(x, y, r)' /\ Before(request'[x].op, r)
  BY DEF AskedFor
<1>1. online \subseteq online'
  <2>1. ~ Handler(u) => UNCHANGED server_vars
    BY OthersRest
  <2> QED
    BY <2>1 DEF Handler, FriendsCheck, FriendInsert, StatusSelect, StatusDelete,
         StatusUpdate, TriggerEvent, ChannelLookup, CreateChannel, AddMember, MessageCheck,
         MessageInsert, MessageMembers, GetFriends, GetFriendRequests, EnterSession,
         StatementFails, server_vars
<1>2. ASSUME Asks(x, y), request'[x].op = request[x].op,
             friends'[x] = friends[x], friend_requests'[x] = friend_requests[x]
      PROVE  /\ x \in online'
             /\ \E r \in Relations : Listed(x, y, r)' /\ Before(request'[x].op, r)
  BY <1>1, <1>2 DEF ViewInv, AskedFor, Listed
<1>3. CASE x # u
  <2>1. Asks(x, y) /\ request'[x] = request[x]
    BY <1>3, OthersRest DEF Asks
  <2>2. friends'[x] = friends[x] /\ friend_requests'[x] = friend_requests[x]
    <3>1. ~ Interface(u) => UNCHANGED view_vars
      BY OthersRest
    <3>2. CASE Interface(u)
      <4>1. /\ friends \in [Users -> SUBSET Users]
            /\ friend_requests \in
                 [Users -> SUBSET (Users \X {"requester", "recipient"})]
        BY DEF IInv, TypeOK
      <4>2. CASE Fulfilled(u)
        BY <1>3, <4>1, <4>2 DEF Fulfilled, WithoutRequest
      <4>3. CASE HandleEvent(u)
        BY <1>3, <4>1, <4>3
           DEF HandleEvent, FriendRequestEvent, FriendshipStatusEvent, WithoutRequest
      <4>4. CASE Rejected(u) \/ \E s \in updating[u] : FriendRequestShown(u, s)
        BY <1>3, <4>1, <4>4 DEF Rejected, FriendRequestShown, view_vars
      <4> QED
        BY <3>2, <4>2, <4>3, <4>4 DEF Interface
    <3> QED
      BY <3>1, <3>2 DEF view_vars
  <2> QED
    BY <1>2, <2>1, <2>2
<1>4. CASE x = u /\ UserAsks(u)
  <2>1. u \in online /\ \E r \in Relations : Listed(u, y, r) /\ Before(request'[u].op, r)
    BY <1>4, AskedForBegins
  <2>2. UNCHANGED <<friends, friend_requests>>
    BY <1>4, AsksMoves, AskedMoves DEF Asked, view_vars
  <2> QED
    BY <1>1, <1>4, <2>1, <2>2 DEF Listed
<1>5. CASE x = u /\ Handler(u)
  BY <1>2, <1>5, HandlerMoves DEF Asks, view_vars
<1>6. CASE x = u /\ Interface(u)
  <2>1. /\ request'[u] \in {request[u], NoRequest} /\ request'[u] # NoRequest
        /\ request[u] # NoRequest
    BY <1>6, InterfaceMoves, OthersRest DEF Asks, Befriending
  <2>2. inbox[u] = <<>> /\ updating[u] = {}
    BY <2>1 DEF ViewInv, InboxRests
  <2>3. request'[u] = NoRequest
    BY <1>6, <2>2 DEF Interface, Fulfilled, Rejected, HandleEvent, IInv, TypeOK
  <2> QED
    BY <2>1, <2>3
<1> QED
  BY <1>3, <1>4, <1>5, <1>6

\* The three writes: what each makes of the rows of the two users, and of the
\* relation as the other one knows it.
LEMMA WritesMove ==
  ASSUME IInv, PairInv, ViewInv, Calm, NEW u \in Users,
         FriendInsert(u) \/ StatusDelete(u) \/ StatusUpdate(u)
  PROVE  \E v \in Users \ {u}, op \in Befriending :
            /\ request[u].op = op /\ request[u].other = v
            /\ request'[u].op = op /\ request'[u].other = v
            /\ request[u].stage # "event" /\ request'[u].stage = "event"
            /\ UNCHANGED <<online, inbox, view_vars>>
            /\ \A k \in Keys : k \notin {<<u, v>>, <<v, u>>} =>
                 friendships'[k] = friendships[k]
            /\ InTable(u, v, After(op))'
            /\ \E s \in Relations :
                 Becomes(EventKind(op), Relation(v, u), s) /\ InTable(v, u, s)'
<1>0. PICK v \in Users \ {u}, op \in Befriending :
        request[u].op = op /\ request[u].other = v
  BY CalmWorld DEF FriendInsert, StatusDelete, StatusUpdate, At, Befriending
<1>1. /\ request[u].stage # "event" /\ Goes(u, "event")
      /\ UNCHANGED <<online, inbox, view_vars>>
  BY DEF FriendInsert, StatusDelete, StatusUpdate, At, server_vars
<1>2. request'[u].op = op /\ request'[u].other = v /\ request'[u].stage = "event"
  BY <1>0, <1>1, HandlerMoves, StageMoves DEF Handler
<1>3. /\ <<u, v>> \in Keys /\ <<v, u>> \in Keys /\ <<u, v>> # <<v, u>>
      /\ friendships \in [Keys -> {"none", "pending", "approved"}]
      /\ friendships[<<u, v>>] # "none" => friendships[<<v, u>>] = "none"
  BY <1>0, CalmWorld DEF Keys
<1>4. ASSUME op = "friend"
      PROVE  /\ \A k \in Keys : k # <<u, v>> => friendships'[k] = friendships[k]
             /\ friendships'[<<u, v>>] = "pending"
             /\ friendships[<<u, v>>] = "none" /\ friendships[<<v, u>>] = "none"
  <2>1. FriendInsert(u)
    BY <1>0, <1>4 DEF StatusDelete, StatusUpdate, At
  <2>2. RowsOf(u, v) = {}
    BY <1>0, <2>1, CalmWorld DEF PairInv, InsertFresh, FriendInsert
  <2> QED
    BY <1>0, <1>3, <2>1, <2>2 DEF FriendInsert, RowsOf
<1>5. ASSUME op = "approve"
      PROVE  /\ \A k \in Keys : k # <<v, u>> => friendships'[k] = friendships[k]
             /\ friendships'[<<v, u>>] = "approved"
             /\ friendships[<<v, u>>] = "pending" /\ friendships[<<u, v>>] = "none"
  <2>1. StatusUpdate(u) /\ At(u, {"approve"}, "update")
    BY <1>0, <1>5 DEF StatusDelete, FriendInsert, StatusUpdate, At
  <2>2. request[u].key = <<v, u>> /\ friendships[<<v, u>>] = "pending"
    BY <1>0, <2>1 DEF IInv, ApprovalKey, ViewInv, Written, Asks, At
  <2> QED
    BY <1>3, <2>1, <2>2 DEF StatusUpdate
<1>6. ASSUME op \in {"reject", "remove"}
      PROVE  /\ \A k \in Keys : k \notin {<<u, v>>, <<v, u>>} =>
                  friendships'[k] = friendships[k]
             /\ friendships'[<<u, v>>] = "none" /\ friendships'[<<v, u>>] = "none"
  <2>1. StatusDelete(u) /\ request[u].stage = "delete"
    BY <1>0, <1>6 DEF StatusDelete, FriendInsert, StatusUpdate, At
  <2>2. request[u].key \in {<<u, v>>, <<v, u>>} /\ friendships[request[u].key] # "none"
    BY <1>0, <2>1 DEF ViewInv, Written, Asks, RowsOf
  <2>3. friendships' = [friendships EXCEPT ![request[u].key] = "none"]
    BY <2>1 DEF StatusDelete
  <2> QED
    BY <1>3, <2>2, <2>3
<1>7. op \in {"friend", "approve", "reject", "remove"}
  BY DEF Befriending
<1>8. \A k \in Keys : k \notin {<<u, v>>, <<v, u>>} => friendships'[k] = friendships[k]
  BY <1>4, <1>5, <1>6, <1>7
<1>9. \E s \in Relations :
        /\ Becomes(EventKind(op), Relation(v, u), s)
        /\ InTable(u, v, After(op))' /\ InTable(v, u, s)'
  <2>1. /\ (\E k \in RowsOf(u, v)' : friendships'[k] = "approved")
             <=> friendships'[<<u, v>>] = "approved" \/ friendships'[<<v, u>>] = "approved"
        /\ (\E k \in RowsOf(v, u)' : friendships'[k] = "approved")
             <=> friendships'[<<u, v>>] = "approved" \/ friendships'[<<v, u>>] = "approved"
    BY DEF RowsOf
  <2>2. CASE op = "friend"
    <3>1. friendships'[<<v, u>>] = "none" /\ friendships'[<<u, v>>] = "pending"
      BY <1>3, <1>4, <2>2
    <3>2. Becomes(EventKind(op), Relation(v, u), "requester")
      BY <1>4, <2>2 DEF Becomes, EventKind, Relation
    <3>3. InTable(u, v, After(op))' /\ InTable(v, u, "requester")'
      BY <2>1, <2>2, <3>1 DEF InTable, After
    <3> QED
      BY <3>2, <3>3 DEF Relations
  <2>3. CASE op = "approve"
    <3>1. friendships'[<<v, u>>] = "approved" /\ friendships'[<<u, v>>] = "none"
      BY <1>3, <1>5, <2>3
    <3>2. Becomes(EventKind(op), Relation(v, u), "friend")
      BY <1>5, <2>3 DEF Becomes, EventKind, Relation
    <3>3. InTable(u, v, After(op))' /\ InTable(v, u, "friend")'
      BY <2>1, <2>3, <3>1 DEF InTable, After
    <3> QED
      BY <3>2, <3>3 DEF Relations
  <2>4. CASE op \in {"reject", "remove"}
    <3>1. Becomes(EventKind(op), Relation(v, u), "none")
      BY <2>4 DEF Becomes, EventKind
    <3>2. InTable(u, v, After(op))' /\ InTable(v, u, "none")'
      BY <1>6, <2>1, <2>4 DEF InTable, After
    <3> QED
      BY <3>1, <3>2 DEF Relations
  <2> QED
    BY <1>7, <2>2, <2>3, <2>4
<1> QED
  BY <1>0, <1>1, <1>2, <1>8, <1>9

\* What a SELECT found: a row of the two users; an approval goes on with a
\* pending one only.
LEMMA SelectMoves ==
  ASSUME IInv, PairInv, Calm, NEW u \in Users, NEW v \in Users, StatusSelect(u),
         request[u].other = v
  PROVE  /\ request'[u].stage \in {"error", "delete", "update"}
         /\ request'[u].stage # "error" => request'[u].key \in RowsOf(u, v)
         /\ request'[u].stage = "update" => friendships[request'[u].key] = "pending"
<1>1. /\ request \in [Users -> RequestRecords] /\ request[u] \in RequestRecords
      /\ friendships \in [Keys -> {"none", "pending", "approved"}]
      /\ RowsOf(u, v) \subseteq Keys
  BY DEF IInv, TypeOK, RowsOf, Keys
<1>2. CASE Goes(u, "error")
  BY <1>2, StageMoves
<1>3. ASSUME NEW k \in RowsOf(u, v), NEW stage,
             request' = [request EXCEPT ![u].key = k, ![u].stage = stage],
             stage \in {"error", "delete", "update"},
             stage = "update" => friendships[k] # "approved"
      PROVE  /\ request'[u].stage \in {"error", "delete", "update"}
             /\ request'[u].stage # "error" => request'[u].key \in RowsOf(u, v)
             /\ request'[u].stage = "update" => friendships[request'[u].key] = "pending"
  <2>1. request'[u].stage = stage /\ request'[u].key = k
    BY <1>1, <1>3 DEF RequestRecords
  <2>2. friendships[k] # "none" /\ k \in Keys
    BY <1>1, <1>3 DEF RowsOf
  <2> QED
    BY <1>1, <1>3, <2>1, <2>2
<1> QED
  BY <1>2, <1>3 DEF StatusSelect

\* Where the request of a user gets to, if his step writes no friendship.
LEMMA OwnStages ==
  ASSUME IInv, PairInv, ViewInv, Calm, NEW u \in Users, Handler(u),
         ~ (FriendInsert(u) \/ StatusDelete(u) \/ StatusUpdate(u) \/ StatusSelect(u)),
         request[u].op \in Befriending
  PROVE  /\ friendships' = friendships
         /\ request'[u].stage \in {"insert", "error", "ok"}
         /\ request'[u].stage = "ok" => request[u].stage = "event"
<1>1. CASE FriendsCheck(u) \/ StatementFails(u)
  <2>1. Goes(u, "insert") \/ Goes(u, "error")
    BY <1>1 DEF FriendsCheck, StatementFails
  <2>2. request'[u].stage \in {"insert", "error"}
    BY <2>1, StageMoves
  <2> QED
    BY <1>1, <2>2 DEF FriendsCheck, StatementFails, table_vars
<1>2. CASE TriggerEvent(u)
  BY <1>2, StageMoves DEF TriggerEvent, table_vars
<1> QED
  BY <1>1, <1>2
     DEF Handler, ChannelLookup, CreateChannel, AddMember, MessageCheck, MessageInsert,
         MessageMembers, GetFriends, GetFriendRequests, EnterSession, At, Befriending

\* What was selected is there until it is written, and what was written stays
\* until the request is answered.
LEMMA WrittenStep ==
  ASSUME IInv, PairInv, ViewInv, Calm, NEW u \in Users,
         UserAsks(u) \/ Handler(u) \/ Interface(u)
  PROVE  Written'
<1> DEFINE Holds(x, y) ==
      /\ request[x].stage \in {"update", "delete"} => request[x].key \in RowsOf(x, y)
      /\ request[x].stage = "update" => friendships[request[x].key] = "pending"
      /\ request[x].stage \in {"event", "ok"} => InTable(x, y, After(request[x].op))
<1> SUFFICES ASSUME NEW x \in Users, NEW y \in Users, Asks(x, y)'
             PROVE  Holds(x, y)'
  BY DEF Written
<1>1. ASSUME request'[x] = request[x], friendships' = friendships
      PROVE  Holds(x, y)'
  <2>1. Asks(x, y)
    BY <1>1 DEF Asks
  <2>2. Holds(x, y)
    BY <2>1 DEF ViewInv, Written
  <2>3. RowsOf(x, y)' = RowsOf(x, y)
    BY <1>1 DEF RowsOf
  <2> QED
    BY <1>1, <2>2, <2>3 DEF InTable
<1>2. /\ NoRequest.op = "none" /\ request'[x].op \in Befriending
      /\ ~ Handler(u) => friendships' = friendships
      /\ x # u => request'[x] = request[x]
      /\ x # u /\ request[x] # NoRequest => friendships' = friendships
  BY OthersRest DEF table_vars, Asks
<1>3. CASE x # u
  <2>1. request[x] # NoRequest
    BY <1>2, <1>3 DEF Befriending
  <2> QED
    BY <1>1, <1>2, <1>3, <2>1
<1>4. CASE x = u /\ UserAsks(u)
  <2>1. PICK op \in Requests, stage \in {"check", "select", "call", "member", "friends"},
             other \in Users \cup {NoUser}, channel \in Channels \cup {NoChannel},
             message \in Messages \cup {NoMessage} :
               Asked(u, op, stage, other, channel, message)
    BY <1>4, AsksMoves
  <2>2. request'[u] = Request(op, stage, other, channel, message)
    BY <2>1, AskedMoves DEF Asked
  <2>3. request'[u].stage \in {"check", "select", "call", "member", "friends"}
    BY <2>2 DEF Request
  <2> QED
    BY <1>4, <2>3
<1>5. CASE x = u /\ Interface(u)
  <2>1. request'[u] = request[u] \/ request'[u] = NoRequest
    BY <1>5, InterfaceMoves
  <2>2. friendships' = friendships
    BY <1>5, InterfaceMoves DEF table_vars
  <2> QED
    BY <1>1, <1>2, <1>5, <2>1, <2>2 DEF Befriending
<1>6. CASE x = u /\ Handler(u)
  <2>1. Asks(u, y) /\ request'[u].op = request[u].op /\ request'[u].other = request[u].other
    BY <1>6, HandlerMoves DEF Asks
  <2>2. CASE FriendInsert(u) \/ StatusDelete(u) \/ StatusUpdate(u)
    <3>1. InTable(u, y, After(request[u].op))' /\ request'[u].stage = "event"
      BY <2>1, <2>2, WritesMove DEF Asks
    <3> QED
      BY <1>6, <2>1, <3>1
  <2>3. CASE StatusSelect(u)
    <3>1. /\ request'[u].stage \in {"error", "delete", "update"}
          /\ request'[u].stage # "error" => request'[u].key \in RowsOf(u, y)
          /\ request'[u].stage = "update" => friendships[request'[u].key] = "pending"
      BY <2>1, <2>3, SelectMoves DEF Asks
    <3>2. friendships' = friendships
      BY <2>3 DEF StatusSelect, table_vars
    <3>3. RowsOf(u, y)' = RowsOf(u, y)
      BY <3>2 DEF RowsOf
    <3> QED
      BY <1>6, <3>1, <3>2, <3>3
  <2>4. CASE ~ (FriendInsert(u) \/ StatusDelete(u) \/ StatusUpdate(u) \/ StatusSelect(u))
    <3>1. /\ friendships' = friendships
          /\ request'[u].stage \in {"insert", "error", "ok"}
          /\ request'[u].stage = "ok" => request[u].stage = "event"
      BY <1>6, <2>1, <2>4, OwnStages DEF Asks
    <3>2. request'[u].stage = "ok" => InTable(u, y, After(request[u].op))
      BY <2>1, <3>1 DEF ViewInv, Written
    <3>3. PICK r : r = After(request[u].op)
      OBVIOUS
    <3>4. After(request[u].op)' = r
      BY <2>1, <3>3
    <3>5. request'[u].stage = "ok" => InTable(u, y, r)'
      BY <3>1, <3>2, <3>3 DEF InTable, RowsOf
    <3> QED
      BY <1>6, <3>1, <3>4, <3>5
  <2> QED
    BY <2>2, <2>3, <2>4
<1> QED
  BY <1>3, <1>4, <1>5, <1>6

\* The two lists that a login reads.
TableFriends(u) == {v \in Users : \E k \in RowsOf(u, v) : friendships[k] = "approved"}
TableRequests(u) ==
  {r \in Users \X {"requester", "recipient"} :
     friendships[IF r[2] = "requester" THEN <<r[1], u>> ELSE <<u, r[1]>>] = "pending"}
LoginRests(u) ==
  /\ request[u].stage \in {"friends", "requests", "enter", "ok", "error"}
  /\ u \in online => request[u].stage = "ok"
  /\ request[u].stage \in {"requests", "enter", "ok"} =>
       request[u].lists.friends = TableFriends(u)
  /\ request[u].stage \in {"enter", "ok"} =>
       request[u].lists.requests = TableRequests(u)

LEMMA LoginListsEach == LoginLists <=> \A u \in Users : LoggingIn(u) => LoginRests(u)
BY DEF LoginLists, LoginRests, TableFriends, TableRequests

LEMMA OwnLogin ==
  ASSUME IInv, PairInv, ViewInv, Calm, NEW u \in Users, Handler(u), LoggingIn(u)
  PROVE  LoginRests(u)'
<1>1. /\ request \in [Users -> RequestRecords] /\ request[u] \in RequestRecords
      /\ LoginRests(u) /\ request[u].op \in {"login", "resume"}
      /\ request[u].lists \in Lists
  BY LoginListsEach DEF IInv, TypeOK, ViewInv, LoggingIn, RequestRecords
<1>2. CASE GetFriends(u)
  <2>1. /\ request[u].stage = "friends" /\ online' = online /\ friendships' = friendships
        /\ request' = [request EXCEPT ![u].stage = "requests",
                         ![u].lists.friends = TableFriends(u)]
    BY <1>2 DEF GetFriends, At, TableFriends, table_vars
  <2>2. request'[u].stage = "requests" /\ request'[u].lists.friends = TableFriends(u)
    <3>1. ASSUME NEW S, request' = [request EXCEPT ![u].stage = "requests",
                                      ![u].lists.friends = S]
          PROVE  request'[u].stage = "requests" /\ request'[u].lists.friends = S
      BY <1>1, <3>1 DEF RequestRecords, Lists
    <3> QED
      BY <2>1, <3>1
  <2>3. TableFriends(u)' = TableFriends(u)
    BY <2>1 DEF TableFriends, RowsOf
  <2> QED
    BY <1>1, <2>1, <2>2, <2>3 DEF LoginRests
<1>3. CASE GetFriendRequests(u)
  <2>1. /\ request[u].stage = "requests" /\ online' = online /\ friendships' = friendships
        /\ request' = [request EXCEPT ![u].stage = "enter",
                         ![u].lists.requests = TableRequests(u)]
    BY <1>3 DEF GetFriendRequests, At, TableRequests, table_vars, server_vars
  <2>2. /\ request'[u].stage = "enter"
        /\ request'[u].lists.requests = TableRequests(u)
        /\ request'[u].lists.friends = request[u].lists.friends
    <3>1. ASSUME NEW S, request' = [request EXCEPT ![u].stage = "enter",
                                      ![u].lists.requests = S]
          PROVE  /\ request'[u].stage = "enter" /\ request'[u].lists.requests = S
                 /\ request'[u].lists.friends = request[u].lists.friends
      BY <1>1, <3>1 DEF RequestRecords, Lists
    <3> QED
      BY <2>1, <3>1
  <2>3. TableFriends(u)' = TableFriends(u) /\ TableRequests(u)' = TableRequests(u)
    BY <2>1 DEF TableFriends, TableRequests, RowsOf
  <2> QED
    BY <1>1, <2>1, <2>2, <2>3 DEF LoginRests
<1>4. ASSUME NEW stage, Goes(u, stage)
      PROVE  request'[u].stage = stage /\ request'[u].lists = request[u].lists
  <2>1. request'[u] = [request[u] EXCEPT !.stage = stage] /\ request[u] \in RequestRecords
    BY <1>1, <1>4, GoesMoves
  <2> QED
    BY <2>1 DEF RequestRecords
<1>5. CASE EnterSession(u)
  <2>1. /\ request[u].stage = "enter" /\ friendships' = friendships
        /\ request'[u].stage = "ok" /\ request'[u].lists = request[u].lists
    BY <1>4, <1>5 DEF EnterSession, At, table_vars
  <2>2. TableFriends(u)' = TableFriends(u) /\ TableRequests(u)' = TableRequests(u)
    BY <2>1 DEF TableFriends, TableRequests, RowsOf
  <2> QED
    BY <1>1, <2>1, <2>2 DEF LoginRests
<1>6. CASE StatementFails(u)
  <2>1. request[u].stage # "ok" /\ online' = online /\ request'[u].stage = "error"
    BY <1>4, <1>6 DEF StatementFails
  <2> QED
    BY <1>1, <2>1 DEF LoginRests
<1> QED
  BY <1>1, <1>2, <1>3, <1>5, <1>6
     DEF Handler, FriendsCheck, FriendInsert, StatusSelect, StatusDelete, StatusUpdate,
         TriggerEvent, ChannelLookup, CreateChannel, AddMember, MessageCheck,
         MessageInsert, MessageMembers, At, LoginRests

\* What a login has read stays so until it is answered.
LEMMA LoginListsStep ==
  ASSUME IInv, PairInv, ViewInv, Calm, NEW u \in Users,
         UserAsks(u) \/ Handler(u) \/ Interface(u)
  PROVE  LoginLists'
<1> SUFFICES ASSUME NEW x \in Users, LoggingIn(x)' PROVE LoginRests(x)'
  BY DEF LoginLists, LoginRests, TableFriends, TableRequests
<1>1. ASSUME request'[x] = request[x], friendships' = friendships, online' = online
      PROVE  LoginRests(x)'
  <2>1. LoginRests(x)
    BY <1>1, LoginListsEach DEF LoggingIn, ViewInv
  <2>2. TableFriends(x)' = TableFriends(x) /\ TableRequests(x)' = TableRequests(x)
    BY <1>1 DEF TableFriends, TableRequests, RowsOf
  <2> QED
    BY <1>1, <2>1, <2>2 DEF LoginRests
<1>2. /\ NoRequest.op = "none" /\ request'[x].op \in {"login", "resume"}
      /\ ~ Handler(u) => UNCHANGED <<friendships, online>>
      /\ x # u => request'[x] = request[x]
      /\ x # u /\ request[x] # NoRequest => ~ Handler(u)
  BY OthersRest DEF table_vars, server_vars, LoggingIn
<1>3. CASE x # u
  BY <1>1, <1>2, <1>3
<1>4. CASE x = u /\ UserAsks(u)
  <2>1. ASSUME NEW op, NEW stage, NEW other, NEW channel, NEW message,
               Begins(u, op, stage, other, channel, message)
        PROVE  request'[u].op = op /\ request'[u].stage = stage /\ online' = online
    <3>1. /\ request'[u] = Request(op, stage, other, channel, message)
          /\ UNCHANGED server_vars
      BY <2>1, AskedMoves
    <3> QED
      BY <3>1 DEF Request, server_vars
  <2>2. Login(u)
    BY <1>2, <1>4, <2>1 DEF UserAsks, SendFriendRequest, SetFriendshipStatus,
       GetPrivateChannel, SendMessage
  <2>3. u \notin online' /\ request'[u].stage = "friends"
    BY <2>1, <2>2 DEF Login
  <2> QED
    BY <1>4, <2>3 DEF LoginRests
<1>5. CASE x = u /\ Interface(u)
  <2>1. request'[u] = request[u] \/ request'[u] = NoRequest
    BY <1>5, InterfaceMoves
  <2>2. UNCHANGED <<friendships, online>>
    BY <1>5, InterfaceMoves DEF table_vars, server_vars
  <2> QED
    BY <1>1, <1>2, <1>5, <2>1, <2>2
<1>6. CASE x = u /\ Handler(u)
  BY <1>6, HandlerMoves, OwnLogin DEF LoggingIn
<1> QED
  BY <1>3, <1>4, <1>5, <1>6

LEMMA InTableKept ==
  ASSUME NEW x \in Users, NEW y \in Users, NEW r, InTable(x, y, r),
         friendships'[<<x, y>>] = friendships[<<x, y>>],
         friendships'[<<y, x>>] = friendships[<<y, x>>]
  PROVE  InTable(x, y, r)'
BY DEF InTable, RowsOf

\* The event that y's request still owes x.
Owes(y, x) == Asks(y, x) /\ request[y].stage = "event"

LEMMA DueKept ==
  ASSUME NEW x \in Users, NEW y \in Users,
         friendships'[<<x, y>>] = friendships[<<x, y>>],
         friendships'[<<y, x>>] = friendships[<<y, x>>],
         (~ Owes(y, x) /\ ~ Owes(y, x)') \/ request'[y] = request[y]
  PROVE  \A r \in Relations : Due(x, y, r) => Due(x, y, r)'
<1> TAKE r \in Relations
<1> HAVE Due(x, y, r)
<1>1. CASE ~ Owes(y, x) /\ ~ Owes(y, x)'
  BY <1>1, InTableKept DEF Due, Owes
<1>2. CASE Owes(y, x) /\ request'[y] = request[y]
  <2>1. PICK op : op = request[y].op
    OBVIOUS
  <2>2. PICK s \in Relations : Becomes(EventKind(op), r, s) /\ InTable(x, y, s)
    BY <1>2, <2>1 DEF Due, Owes
  <2>3. InTable(x, y, s)'
    BY <2>2, InTableKept
  <2>4. Asks(y, x)' /\ request'[y].stage = "event" /\ request'[y].op = op
    BY <1>2, <2>1 DEF Owes, Asks
  <2> QED
    BY <2>2, <2>3, <2>4 DEF Due
<1>3. CASE ~ Owes(y, x) /\ request'[y] = request[y]
  BY <1>1, <1>3 DEF Owes, Asks
<1> QED
  BY <1>1, <1>2, <1>3

\* What is due to one who is logged in: the shape of every step's proof.
DueTo(x, y) == LoggingIn(x) \/ Answered(x, y) \/ Comes(x, y)

LEMMA KeptDue ==
  ASSUME IInv, NEW x \in Users, NEW y \in Users, DueTo(x, y),
         LoggingIn(x) => LoggingIn(x)',
         Answered(x, y) => Answered(x, y)',
         UNCHANGED <<inbox, friends, friend_requests>>,
         friendships'[<<x, y>>] = friendships[<<x, y>>],
         friendships'[<<y, x>>] = friendships[<<y, x>>],
         (~ Owes(y, x) /\ ~ Owes(y, x)') \/ request'[y] = request[y]
  PROVE  DueTo(x, y)'
<1>1. CASE Comes(x, y)
  <2>1. \A r \in Relations : Due(x, y, r) => Due(x, y, r)'
    BY DueKept
  <2>2. \A r \in Relations : Listed(x, y, r) => Listed(x, y, r)'
    BY DEF Listed
  <2>3. Comes(x, y)'
    BY <1>1, <2>1, <2>2, ComesKept
  <2> QED
    BY <2>3 DEF DueTo
<1> QED
  BY <1>1 DEF DueTo

LEMMA AsksDue ==
  ASSUME IInv, PairInv, ViewInv, Calm, NEW u \in Users, UserAsks(u),
         NEW x \in online, NEW y \in Users
  PROVE  DueTo(x, y)'
<1>1. PICK op \in Requests, stage \in {"check", "select", "call", "member", "friends"},
           other \in Users \cup {NoUser}, channel \in Channels \cup {NoChannel},
           message \in Messages \cup {NoMessage} :
             Asked(u, op, stage, other, channel, message)
  BY AsksMoves
<1>2. /\ request[u] = NoRequest
      /\ request'[u] = Request(op, stage, other, channel, message)
      /\ UNCHANGED <<table_vars, server_vars, inbox, view_vars, world>>
  BY <1>1, AskedMoves DEF Asked
<1>3. /\ NoRequest.op = "none" /\ request'[u].stage # "event"
      /\ \A z \in Users \ {u} : request'[z] = request[z]
  BY <1>2, OthersRest DEF Request
<1>4. x \in Users /\ DueTo(x, y)
  BY DEF ViewInv, ListsDue, DueTo, IInv, TypeOK
<1>5. ~ LoggingIn(u) /\ ~ Answered(u, y)
  BY <1>2, <1>3 DEF LoggingIn, Answered, Asks, Befriending
<1>6. /\ LoggingIn(x) => LoggingIn(x)'
      /\ Answered(x, y) => Answered(x, y)'
  BY <1>3, <1>4, <1>5 DEF LoggingIn, Answered, Asks
<1>7. (~ Owes(y, x) /\ ~ Owes(y, x)') \/ request'[y] = request[y]
  BY <1>2, <1>3 DEF Owes, Asks, Befriending
<1> QED
  BY <1>2, <1>4, <1>6, <1>7, KeptDue DEF table_vars, view_vars

\* Of two users who are both logged in one writes: the other is due an event.
LEMMA WritesDue ==
  ASSUME IInv, PairInv, ViewInv, Calm, NEW u \in Users,
         FriendInsert(u) \/ StatusDelete(u) \/ StatusUpdate(u),
         NEW x \in online, NEW y \in Users
  PROVE  DueTo(x, y)'
<1>1. PICK v \in Users \ {u}, op \in Befriending :
        /\ request[u].op = op /\ request[u].other = v
        /\ request'[u].op = op /\ request'[u].other = v
        /\ request[u].stage # "event" /\ request'[u].stage = "event"
        /\ UNCHANGED <<online, inbox, view_vars>>
        /\ \A k \in Keys : k \notin {<<u, v>>, <<v, u>>} =>
             friendships'[k] = friendships[k]
        /\ InTable(u, v, After(op))'
        /\ \E s \in Relations :
             Becomes(EventKind(op), Relation(v, u), s) /\ InTable(v, u, s)'
  BY WritesMove
<1>2. /\ x \in Users /\ DueTo(x, y)
      /\ \A z \in Users \ {u} : request'[z] = request[z]
  BY OthersRest DEF ViewInv, ListsDue, DueTo, IInv, TypeOK, Handler
<1>3. CASE x = u /\ y = v
  BY <1>1, <1>3 DEF DueTo, Answered, Asks
<1>4. CASE x = v /\ y = u
  <2>1. request[v] = NoRequest /\ NoRequest.op = "none"
    BY <1>1, CalmWorld DEF NoRequest, Request, Befriending
  <2>2. Comes(v, u)
    BY <1>2, <1>4, <2>1 DEF DueTo, LoggingIn, Answered, Asks, Befriending
  <2>3. ASSUME NEW r \in Relations, Due(v, u, r) PROVE Due(v, u, r)'
    <3>1. InTable(v, u, r)
      BY <1>1, <2>3 DEF Due
    <3>2. r = Relation(v, u)
      BY <3>1, OneRelation
    <3>3. \E s \in Relations : Becomes(EventKind(op), r, s) /\ InTable(v, u, s)'
      BY <1>1, <3>2
    <3> QED
      BY <1>1, <3>3 DEF Due, Asks
  <2>4. \A r \in Relations : Listed(v, u, r) => Listed(v, u, r)'
    BY <1>1 DEF Listed, view_vars
  <2>5. Comes(v, u)'
    BY <1>1, <2>2, <2>3, <2>4, ComesKept
  <2> QED
    BY <1>4, <2>5 DEF DueTo
<1>5. CASE ~ (x = u /\ y = v) /\ ~ (x = v /\ y = u)
  <2>1. <<x, y>> \in Keys /\ <<y, x>> \in Keys
    BY <1>2 DEF Keys
  <2>2. /\ friendships'[<<x, y>>] = friendships[<<x, y>>]
        /\ friendships'[<<y, x>>] = friendships[<<y, x>>]
    BY <1>1, <1>5, <2>1
  <2>3. (~ Owes(y, x) /\ ~ Owes(y, x)') \/ request'[y] = request[y]
    BY <1>1, <1>2, <1>5 DEF Owes, Asks
  <2>4. LoggingIn(x) => LoggingIn(x)'
    BY <1>1, <1>2 DEF LoggingIn
  <2>5. Answered(x, y) => Answered(x, y)'
    BY <1>1, <1>2, <1>5 DEF Answered, Asks
  <2> QED
    BY <1>1, <1>2, <2>2, <2>3, <2>4, <2>5, KeptDue DEF view_vars
<1> QED
  BY <1>3, <1>4, <1>5

\* An event sent takes the place of the one that was due.
LEMMA EventDue ==
  ASSUME IInv, PairInv, ViewInv, Calm, NEW u \in Users, TriggerEvent(u),
         NEW x \in online, NEW y \in Users
  PROVE  DueTo(x, y)'
<1>1. /\ request[u].op \in Befriending \cup {"message"} /\ request[u].stage = "event"
      /\ request'[u].op = request[u].op /\ request'[u].other = request[u].other
      /\ request'[u].stage = "ok"
      /\ u \notin Recipients(u)
      /\ UNCHANGED <<friendships, online, friends, friend_requests>>
  BY EventFor DEF TriggerEvent, table_vars, server_vars, view_vars
<1>2. /\ x \in Users /\ DueTo(x, y)
      /\ NoRequest.op = "none"
      /\ \A z \in Users \ {u} : request[z] = NoRequest /\ request'[z] = NoRequest
  BY EventFor DEF ViewInv, ListsDue, DueTo, IInv, TypeOK, NoRequest, Request
<1>3. /\ inbox \in [Users -> Seq(EventRecords)]
      /\ inbox'[x] = IF x \in Recipients(u) THEN Append(inbox[x], EventOf(u)) ELSE inbox[x]
  BY <1>2 DEF TriggerEvent, IInv, TypeOK
<1>4. PICK e \in EventRecords :
        e = EventOf(u) /\ e.from = u /\ e.kind = EventKind(request[u].op)
  <2>1. request[u].message \in Messages \cup {NoMessage}
    BY DEF RequestRecords, IInv, TypeOK
  <2>2. EventKind(request[u].op) \in {"request", "approved", "removed", "message"}
    BY DEF EventKind
  <2>3. EventOf(u) \in EventRecords
    BY <2>1, <2>2 DEF EventOf, EventRecords
  <2>4. EventOf(u).from = u /\ EventOf(u).kind = EventKind(request[u].op)
    BY DEF EventOf
  <2> QED
    BY <2>3, <2>4
<1>5. \A r \in Relations : Listed(x, y, r) => Listed(x, y, r)'
  BY <1>1 DEF Listed
<1>6. CASE x = u
  <2>1. LoggingIn(x) => LoggingIn(x)'
    BY <1>1, <1>6 DEF LoggingIn
  <2>2. Answered(x, y) => Answered(x, y)'
    BY <1>1, <1>6 DEF Answered, Asks
  <2>3. ~ Owes(y, x)
    <3>1. y = u => ~ Asks(u, u)
      BY CalmWorld DEF Asks
    <3> QED
      BY <1>2, <1>6, <3>1 DEF Owes, Asks, Befriending
  <2>4. ~ Owes(y, x)'
    BY <1>1, <1>2, <1>6, <2>3 DEF Owes, Asks, Befriending
  <2>5. \A r \in Relations : Due(x, y, r) => Due(x, y, r)'
    BY <1>1, <1>2, <2>3, <2>4, DueKept
  <2>6. Comes(x, y) => Comes(x, y)'
    BY <1>1, <1>2, <1>3, <1>5, <1>6, <2>5, ComesKept
  <2> QED
    BY <1>2, <2>1, <2>2, <2>6 DEF DueTo
<1>7. CASE x # u /\ x \notin Recipients(u)
  <2>1. Comes(x, y)
    BY <1>2, <1>7 DEF DueTo, LoggingIn, Answered, Asks, Befriending
  <2>2. ~ Owes(y, x) /\ ~ Owes(y, x)'
    BY <1>1, <1>2, <1>7 DEF Owes, Asks, Recipients, Befriending
  <2>3. \A r \in Relations : Due(x, y, r) => Due(x, y, r)'
    BY <1>1, <1>2, <2>2, DueKept
  <2> QED
    BY <1>2, <1>3, <1>5, <1>7, <2>1, <2>3, ComesKept DEF DueTo
<1>8. CASE x # u /\ x \in Recipients(u)
  <2>1. Comes(x, y)
    BY <1>2, <1>8 DEF DueTo, LoggingIn, Answered, Asks, Befriending
  <2>2. PICK h \in [0 .. Len(inbox[x]) -> Relations] :
          /\ History(inbox[x], y, h)
          /\ Listed(x, y, h[0])
          /\ Due(x, y, h[Len(inbox[x])])
    BY <2>1 DEF Comes
  <2>3. inbox[x] \in Seq(EventRecords) /\ Len(inbox[x]) \in Nat
    BY <1>2, <1>3
  <2>4. PICK r \in Relations, r0 \in Relations : r = h[Len(inbox[x])] /\ r0 = h[0]
    BY <2>3
  <2>5. \E s \in Relations : Turns(e, y, r, s) /\ Due(x, y, s)'
    <3>1. CASE y = u /\ request[u].op \in Befriending
      <4>1. Asks(u, x) /\ request[u].other = x
        BY <1>8, <3>1 DEF Asks, Recipients, Befriending
      <4>2. PICK s \in Relations : Becomes(e.kind, r, s) /\ InTable(x, u, s)
        BY <1>1, <1>4, <2>2, <2>4, <3>1, <4>1 DEF Due
      <4>3. e.kind # "message"
        BY <1>4, <3>1 DEF EventKind, Befriending
      <4>4. InTable(x, u, s)'
        BY <1>1, <4>2 DEF InTable, RowsOf
      <4>5. Due(x, u, s)'
        BY <1>1, <4>4 DEF Due
      <4> QED
        BY <1>4, <3>1, <4>2, <4>3, <4>5 DEF Turns
    <3>2. CASE ~ (y = u /\ request[u].op \in Befriending)
      <4>1. Turns(e, y, r, r)
        BY <1>1, <1>4, <3>2 DEF Turns, EventKind
      <4>2. ~ Owes(y, x) /\ ~ Owes(y, x)'
        BY <1>1, <1>2, <3>2 DEF Owes, Asks, Befriending
      <4>3. Due(x, y, r)'
        BY <1>1, <1>2, <2>2, <2>4, <4>2, DueKept
      <4> QED
        BY <4>1, <4>3
    <3> QED
      BY <3>1, <3>2
  <2>6. PICK s \in Relations : Turns(e, y, r, s) /\ Due(x, y, s)'
    BY <2>5
  <2>7. PICK t \in Seq(EventRecords) : t = inbox[x]
    BY <2>3
  <2>8. PICK g \in [0 .. Len(Append(t, e)) -> Relations] :
          /\ History(Append(t, e), y, g)
          /\ g[0] = h[0] /\ g[Len(Append(t, e))] = s
    <3>1. h \in [0 .. Len(t) -> Relations] /\ History(t, y, h) /\ Turns(e, y, h[Len(t)], s)
      BY <2>2, <2>4, <2>6, <2>7
    <3> QED
      BY <3>1, HistoryAppend
  <2>9. inbox'[x] = Append(t, e) /\ Listed(x, y, r0)'
    BY <1>3, <1>4, <1>5, <1>8, <2>2, <2>4, <2>7
  <2>10. Comes(x, y)'
    BY <2>4, <2>6, <2>8, <2>9 DEF Comes
  <2> QED
    BY <2>10 DEF DueTo
<1> QED
  BY <1>6, <1>7, <1>8

\* The other steps of a handler change neither rows nor events.
LEMMA QuietDue ==
  ASSUME IInv, PairInv, ViewInv, Calm, NEW u \in Users, Handler(u),
         ~ (FriendInsert(u) \/ StatusDelete(u) \/ StatusUpdate(u) \/ TriggerEvent(u)),
         NEW x \in online', NEW y \in Users
  PROVE  DueTo(x, y)'
<1>1. /\ request'[u].op = request[u].op /\ request'[u].other = request[u].other
      /\ \A z \in Users \ {u} : request'[z] = request[z]
      /\ UNCHANGED view_vars
  BY HandlerMoves, OthersRest
<1>2. /\ UNCHANGED <<friendships, inbox>>
      /\ online' = online \/ (online' = online \cup {u} /\ LoggingIn(u))
      /\ request[u].stage \notin {"event", "ok"}
  BY DEF Handler, FriendsCheck, StatusSelect, ChannelLookup, CreateChannel, AddMember,
         MessageCheck, MessageInsert, MessageMembers, GetFriends, GetFriendRequests,
         EnterSession, StatementFails, At, LoggingIn, table_vars, server_vars
<1>3. CASE x = u /\ LoggingIn(u)
  BY <1>1, <1>3 DEF DueTo, LoggingIn
<1>4. CASE ~ (x = u /\ LoggingIn(u))
  <2>1. x \in online /\ x \in Users /\ DueTo(x, y)
    BY <1>2, <1>4 DEF ViewInv, ListsDue, DueTo, IInv, TypeOK
  <2>2. LoggingIn(x) => LoggingIn(x)'
    BY <1>1, <2>1 DEF LoggingIn
  <2>3. Answered(x, y) => Answered(x, y)'
    BY <1>1, <1>2, <2>1 DEF Answered, Asks
  <2>4. (~ Owes(y, x) /\ ~ Owes(y, x)') \/ request'[y] = request[y]
    <3>1. CASE y # u
      BY <1>1, <3>1
    <3>2. CASE y = u /\ request[u].op \notin Befriending
      BY <1>1, <3>2 DEF Owes, Asks
    <3>3. CASE y = u /\ request[u].op \in Befriending
      <4>1. request'[u].stage # "event"
        <5>1. CASE StatusSelect(u)
          <6>1. request[u].other \in Users
            BY <3>3, CalmWorld
          <6> QED
            BY <5>1, <6>1, SelectMoves
        <5>2. CASE ~ StatusSelect(u)
          BY <3>3, <5>2, OwnStages
        <5> QED
          BY <5>1, <5>2
      <4> QED
        BY <1>2, <3>3, <4>1 DEF Owes
    <3> QED
      BY <3>1, <3>2, <3>3
  <2> QED
    BY <1>1, <1>2, <2>1, <2>2, <2>3, <2>4, KeptDue DEF view_vars
<1> QED
  BY <1>3, <1>4

\* An answer shows what was written, or what a login has read.
LEMMA ShownAtOnce ==
  ASSUME NEW x \in Users, NEW y \in Users, NEW r \in Relations,
         inbox'[x] = <<>>, Listed(x, y, r)', InTable(x, y, r)', ~ Owes(y, x)'
  PROVE  Comes(x, y)'
<1>1. PICK h \in [0 .. Len(<<>>) -> Relations] :
        History(<<>>, y, h) /\ h[0] = r /\ h[Len(<<>>)] = r
  BY HistoryEmpty
<1>2. Due(x, y, r)'
  BY DEF Due, Owes
<1> QED
  BY <1>1, <1>2 DEF Comes

LEMMA AnsweredLists ==
  ASSUME IInv, PairInv, ViewInv, Calm, NEW u \in Users, Fulfilled(u), NEW y \in Users,
         Asks(u, y)
  PROVE  \E r \in Relations : Listed(u, y, r)' /\ InTable(u, y, r)'
<1>1. /\ request[u].op \in {"friend", "approve", "reject", "remove"}
      /\ request[u].other = y /\ request[u].stage = "ok"
      /\ friends \in [Users -> SUBSET Users]
      /\ friend_requests \in [Users -> SUBSET (Users \X {"requester", "recipient"})]
      /\ UNCHANGED table_vars
  BY DEF Fulfilled, Asks, Befriending, IInv, TypeOK
<1>2. PICK r \in Relations : Listed(u, y, r) /\ Before(request[u].op, r)
  BY DEF ViewInv, AskedFor
<1>3. PICK s : s = After(request[u].op) /\ InTable(u, y, s)
  BY <1>1 DEF ViewInv, Written
<1>4. s \in Relations /\ InTable(u, y, s)'
  BY <1>1, <1>3 DEF Relations, After, InTable, RowsOf, table_vars
<1>5. CASE request[u].op = "friend"
  <2>1. /\ friends' = friends
        /\ friend_requests' = [friend_requests EXCEPT ![u] = @ \cup {<<y, "recipient">>}]
    BY <1>1, <1>5 DEF Fulfilled
  <2>2. r = "none" /\ s = "recipient"
    BY <1>2, <1>3, <1>5 DEF Before, After
  <2>3. Listed(u, y, s)'
    BY <1>1, <1>2, <2>1, <2>2 DEF Listed
  <2> QED
    BY <1>4, <2>3
<1>6. CASE request[u].op = "approve"
  <2>1. /\ friends' = [friends EXCEPT ![u] = @ \cup {y}]
        /\ friend_requests' = [friend_requests EXCEPT ![u] = {q \in @ : q[1] # y}]
    BY <1>1, <1>6 DEF Fulfilled, WithoutRequest
  <2>2. s = "friend"
    BY <1>3, <1>6 DEF After
  <2>3. Listed(u, y, s)'
    BY <1>1, <2>1, <2>2 DEF Listed
  <2> QED
    BY <1>4, <2>3
<1>7. CASE request[u].op = "reject"
  <2>1. /\ friends' = friends
        /\ friend_requests' = [friend_requests EXCEPT ![u] = {q \in @ : q[1] # y}]
    BY <1>1, <1>7 DEF Fulfilled, WithoutRequest
  <2>2. r \in {"requester", "recipient"} /\ s = "none"
    BY <1>2, <1>3, <1>7 DEF Before, After
  <2>3. Listed(u, y, s)'
    BY <1>1, <1>2, <2>1, <2>2 DEF Listed
  <2> QED
    BY <1>4, <2>3
<1>8. CASE request[u].op = "remove"
  <2>1. friends' = [friends EXCEPT ![u] = @ \ {y}] /\ friend_requests' = friend_requests
    BY <1>1, <1>8 DEF Fulfilled
  <2>2. r = "friend" /\ s = "none"
    BY <1>2, <1>3, <1>8 DEF Before, After
  <2>3. Listed(u, y, s)'
    BY <1>1, <1>2, <2>1, <2>2 DEF Listed
  <2> QED
    BY <1>4, <2>3
<1> QED
  BY <1>1, <1>5, <1>6, <1>7, <1>8

LEMMA LoginShows ==
  ASSUME IInv, PairInv, ViewInv, Calm, NEW u \in Users, Fulfilled(u), LoggingIn(u),
         NEW y \in Users
  PROVE  \E r \in Relations : Listed(u, y, r)' /\ InTable(u, y, r)'
<1>1. /\ request[u].op \in {"login", "resume"} /\ request[u].stage = "ok"
      /\ request[u].lists.friends = TableFriends(u)
      /\ request[u].lists.requests = TableRequests(u)
      /\ friends' = [friends EXCEPT ![u] = request[u].lists.friends]
      /\ friend_requests' = [friend_requests EXCEPT ![u] = request[u].lists.requests]
      /\ UNCHANGED table_vars
      /\ friends \in [Users -> SUBSET Users]
      /\ friend_requests \in [Users -> SUBSET (Users \X {"requester", "recipient"})]
  BY LoginListsEach DEF Fulfilled, LoggingIn, ViewInv, LoginRests, IInv, TypeOK
<1>2. PICK r \in Relations : InTable(u, y, r)
  BY OneRelation
<1>3. InTable(u, y, r)'
  BY <1>1, <1>2 DEF InTable, RowsOf, table_vars
<1>4. friends'[u] = TableFriends(u) /\ friend_requests'[u] = TableRequests(u)
  BY <1>1
<1>5. /\ y \in TableFriends(u) <=> r = "friend"
      /\ <<y, "requester">> \in TableRequests(u) <=> r = "requester"
      /\ <<y, "recipient">> \in TableRequests(u) <=> r = "recipient"
  BY <1>2 DEF InTable, TableFriends, TableRequests
<1>6. Listed(u, y, r)'
  BY <1>4, <1>5 DEF Listed
<1> QED
  BY <1>3, <1>6

LEMMA AnswerDue ==
  ASSUME IInv, PairInv, ViewInv, Calm, NEW u \in Users, Fulfilled(u) \/ Rejected(u),
         NEW x \in online, NEW y \in Users
  PROVE  DueTo(x, y)'
<1>1. /\ UNCHANGED <<friendships, inbox>> /\ request[u].stage # "event"
      /\ request'[u] = NoRequest /\ NoRequest.op = "none" /\ NoRequest.stage = "ok"
      /\ \A z \in Users \ {u} : request'[z] = request[z]
      /\ \A z \in Users \ {u} :
           friends'[z] = friends[z] /\ friend_requests'[z] = friend_requests[z]
  BY DEF Fulfilled, Rejected, IInv, TypeOK, NoRequest, Request, table_vars, view_vars,
         WithoutRequest
<1>2. x \in Users /\ DueTo(x, y)
  BY DEF ViewInv, ListsDue, DueTo, IInv, TypeOK
<1>3. (~ Owes(y, x) /\ ~ Owes(y, x)') \/ request'[y] = request[y]
  BY <1>1 DEF Owes
<1>4. \A r \in Relations : Due(x, y, r) => Due(x, y, r)'
  BY <1>1, <1>2, <1>3, DueKept
<1>5. ASSUME Comes(x, y), \A r \in Relations : Listed(x, y, r) => Listed(x, y, r)'
      PROVE  Comes(x, y)'
  BY <1>1, <1>2, <1>4, <1>5, ComesKept
<1>6. CASE x # u
  <2>1. \A r \in Relations : Listed(x, y, r) => Listed(x, y, r)'
    BY <1>1, <1>2, <1>6 DEF Listed
  <2> QED
    BY <1>1, <1>2, <1>5, <1>6, <2>1 DEF DueTo, LoggingIn, Answered, Asks
<1>7. CASE x = u /\ Rejected(u)
  <2>1. ~ LoggingIn(u) /\ ~ Answered(u, y)
    BY <1>2, <1>7 DEF Rejected, ViewInv, LoginLists, Answered
  <2>2. \A r \in Relations : Listed(x, y, r) => Listed(x, y, r)'
    BY <1>7 DEF Listed, Rejected, view_vars
  <2> QED
    BY <1>2, <1>5, <1>7, <2>1, <2>2 DEF DueTo
<1>8. CASE x = u /\ Fulfilled(u)
  <2>1. inbox[u] = <<>> /\ ~ Owes(y, u)'
    <3>1. request[u].op # "none"
      BY <1>8 DEF Fulfilled
    <3>2. y # u => request[y] = NoRequest
      BY <1>1, <3>1, CalmWorld
    <3> QED
      BY <1>1, <3>1, <3>2 DEF ViewInv, InboxRests, Owes
  <2>2. CASE Asks(u, y) \/ LoggingIn(u)
    <3>1. PICK r \in Relations : Listed(u, y, r)' /\ InTable(u, y, r)'
      BY <1>8, <2>2, AnsweredLists, LoginShows
    <3>2. inbox'[u] = <<>>
      BY <1>1, <2>1
    <3> QED
      BY <1>8, <2>1, <3>1, <3>2, ShownAtOnce DEF DueTo
  <2>3. CASE ~ Asks(u, y) /\ ~ LoggingIn(u)
    <3>1. Comes(u, y)
      BY <1>2, <1>8, <2>3 DEF DueTo, Answered
    <3>2. /\ y \in friends'[u] <=> y \in friends[u]
          /\ \A t : <<y, t>> \in friend_requests'[u] <=> <<y, t>> \in friend_requests[u]
      BY <1>8, <2>3 DEF Fulfilled, Asks, LoggingIn, Befriending, WithoutRequest, IInv, TypeOK
    <3>3. \A r \in Relations : Listed(x, y, r) => Listed(x, y, r)'
      BY <1>8, <3>2 DEF Listed
    <3> QED
      BY <1>5, <1>8, <3>1, <3>3 DEF DueTo
  <2> QED
    BY <2>2, <2>3
<1> QED
  BY <1>6, <1>7, <1>8

\* The reducers of the events, each of what its event makes of the relation.
LEMMA EventShown ==
  ASSUME IInv, Calm, NEW u \in Users, HandleEvent(u), ~ LoggingIn(u),
         NEW y \in Users, NEW r \in Relations, NEW s \in Relations,
         Listed(u, y, r), Turns(Head(inbox[u]), y, r, s)
  PROVE  Listed(u, y, s)'
<1>1. PICK e : e = Head(inbox[u])
  OBVIOUS
<1>2. /\ friends \in [Users -> SUBSET Users]
      /\ friend_requests \in [Users -> SUBSET (Users \X {"requester", "recipient"})]
      /\ ~ May("await") /\ Turns(e, y, r, s)
      /\ CASE e.kind = "request" -> FriendRequestEvent(u, e.from)
           [] e.kind = "message" -> UNCHANGED <<friends, friend_requests, updating>>
           [] OTHER -> FriendshipStatusEvent(u, e.from, e.kind = "approved")
  BY <1>1 DEF HandleEvent, LoggingIn, IInv, TypeOK, Calm, May
<1>3. CASE e.kind = "message"
  <2>1. s = r /\ UNCHANGED <<friends, friend_requests>>
    BY <1>2, <1>3 DEF Turns
  <2> QED
    BY <2>1 DEF Listed
<1>4. CASE e.kind = "request"
  <2>1. /\ friends' = friends
        /\ friend_requests' =
             [friend_requests EXCEPT ![u] = @ \cup {<<e.from, "requester">>}]
    BY <1>2, <1>4 DEF FriendRequestEvent
  <2>2. IF e.from = y THEN r = "none" /\ s = "requester" ELSE s = r
    BY <1>2, <1>4 DEF Turns, Becomes
  <2> QED
    BY <1>2, <2>1, <2>2 DEF Listed
<1>5. CASE e.kind \notin {"message", "request"}
  <2>1. PICK v, approved : v = e.from /\ approved = (e.kind = "approved")
    OBVIOUS
  <2>2. PICK pending \in BOOLEAN :
          pending <=> HasRequest(u, v, {"requester", "recipient"})
    OBVIOUS
  <2>3. /\ friend_requests' = [friend_requests EXCEPT ![u] = {q \in @ : q[1] # v}]
        /\ friends' =
             IF pending /\ approved THEN [friends EXCEPT ![u] = @ \cup {v}]
             ELSE IF ~ pending /\ ~ approved THEN [friends EXCEPT ![u] = @ \ {v}]
             ELSE friends
    <3>1. FriendshipStatusEvent(u, v, approved)
      BY <1>2, <1>5, <2>1
    <3> QED
      BY <2>2, <3>1 DEF FriendshipStatusEvent, WithoutRequest
  <2>4. CASE v # y
    <3>1. s = r
      BY <1>2, <2>1, <2>4 DEF Turns
    <3> QED
      BY <1>2, <2>3, <2>4, <3>1 DEF Listed
  <2>5. CASE v = y /\ e.kind = "approved"
    <3>1. r = "recipient" /\ s = "friend" /\ approved
      BY <1>2, <2>1, <2>5 DEF Turns, Becomes
    <3>2. pending
      BY <2>2, <2>5, <3>1 DEF Listed, HasRequest
    <3> QED
      BY <1>2, <2>3, <2>5, <3>1, <3>2 DEF Listed
  <2>6. CASE v = y /\ e.kind # "approved"
    <3>1. s = "none" /\ ~ approved
      BY <1>2, <1>5, <2>1, <2>6 DEF Turns, Becomes
    <3>2. pending <=> r \in {"requester", "recipient"}
      BY <2>2, <2>6 DEF Listed, HasRequest
    <3>3. y \notin friends'[u]
      BY <1>2, <2>3, <2>6, <3>1, <3>2 DEF Listed
    <3>4. \A t : <<y, t>> \notin friend_requests'[u]
      BY <1>2, <2>3, <2>6
    <3> QED
      BY <3>1, <3>3, <3>4 DEF Listed
  <2> QED
    BY <2>4, <2>5, <2>6
<1> QED
  BY <1>3, <1>4, <1>5

LEMMA HandleDue ==
  ASSUME IInv, PairInv, ViewInv, Calm, NEW u \in Users, HandleEvent(u),
         NEW x \in online, NEW y \in Users
  PROVE  DueTo(x, y)'
<1>1. /\ UNCHANGED <<friendships, request>> /\ inbox[u] # <<>>
      /\ inbox \in [Users -> Seq(EventRecords)]
      /\ inbox' = [inbox EXCEPT ![u] = Tail(@)]
      /\ \A z \in Users \ {u} :
           friends'[z] = friends[z] /\ friend_requests'[z] = friend_requests[z]
  BY DEF HandleEvent, FriendRequestEvent, FriendshipStatusEvent, WithoutRequest, IInv,
         TypeOK, table_vars
<1>2. x \in Users /\ DueTo(x, y)
  BY DEF ViewInv, ListsDue, DueTo, IInv, TypeOK
<1>3. \A r \in Relations : Due(x, y, r) => Due(x, y, r)'
  BY <1>1, <1>2, DueKept
<1>4. CASE x # u
  <2>1. \A r \in Relations : Listed(x, y, r) => Listed(x, y, r)'
    BY <1>1, <1>2, <1>4 DEF Listed
  <2>2. Comes(x, y) => Comes(x, y)'
    BY <1>1, <1>2, <1>3, <1>4, <2>1, ComesKept
  <2> QED
    BY <1>1, <1>2, <2>2 DEF DueTo, LoggingIn, Answered, Asks
<1>5. CASE x = u
  <2>1. request[u] = NoRequest /\ NoRequest.op = "none"
    BY <1>1 DEF ViewInv, InboxRests, NoRequest, Request
  <2>2. ~ LoggingIn(u) /\ Comes(u, y)
    BY <1>2, <1>5, <2>1 DEF DueTo, LoggingIn, Answered, Asks, Befriending
  <2>3. PICK t \in Seq(EventRecords) : t = inbox[u]
    BY <1>1
  <2>4. PICK h \in [0 .. Len(t) -> Relations] :
          History(t, y, h) /\ Listed(u, y, h[0]) /\ Due(u, y, h[Len(t)])
    BY <2>2, <2>3 DEF Comes
  <2>5. /\ h[0] \in Relations /\ h[1] \in Relations
        /\ Turns(Head(t), y, h[0], h[1])
        /\ \E g \in [0 .. Len(Tail(t)) -> Relations] :
             /\ History(Tail(t), y, g)
             /\ g[0] = h[1] /\ g[Len(Tail(t))] = h[Len(t)]
    <3>1. t # <<>>
      BY <1>1, <2>3
    <3> QED
      BY <2>4, <3>1, HistoryTail
  <2>6. PICK g \in [0 .. Len(Tail(t)) -> Relations] :
          /\ History(Tail(t), y, g)
          /\ g[0] = h[1] /\ g[Len(Tail(t))] = h[Len(t)]
    BY <2>5
  <2>7. PICK r \in Relations, s \in Relations, last \in Relations :
          r = h[0] /\ s = h[1] /\ last = h[Len(t)]
    BY <2>3, <2>5
  <2>8. Listed(u, y, s)'
    BY <2>2, <2>3, <2>4, <2>5, <2>7, EventShown
  <2>9. Due(u, y, last)'
    BY <1>3, <1>5, <2>4, <2>7
  <2>10. inbox'[u] = Tail(t)
    BY <1>1, <2>3
  <2>11. Comes(u, y)'
    BY <2>6, <2>7, <2>8, <2>9, <2>10 DEF Comes
  <2> QED
    BY <1>5, <2>11 DEF DueTo
<1> QED
  BY <1>4, <1>5

LEMMA ViewInvariant == Spec => []ViewInv
<1>1. IInv /\ PairInv /\ ViewInv /\ [Next]_vars => ViewInv'
  <2> SUFFICES ASSUME IInv, PairInv, ViewInv, [Next]_vars PROVE ViewInv'
    OBVIOUS
  <2>1. CASE UNCHANGED vars
    <3>1. (Calm' <=> Calm) /\ (InboxRests' <=> InboxRests) /\ (LoginLists' <=> LoginLists)
      BY <2>1 DEF vars, table_vars, server_vars, view_vars, Calm, InboxRests, LoginLists,
                  LoggingIn, RowsOf
    <3>2. (AskedFor' <=> AskedFor) /\ (Written' <=> Written)
      <4>1. /\ UNCHANGED <<friendships, online, request, friends, friend_requests>>
            /\ \A x, y : Asks(x, y)' <=> Asks(x, y)
        BY <2>1 DEF vars, table_vars, server_vars, view_vars, Asks
      <4>2. \A x, y, r : Listed(x, y, r)' <=> Listed(x, y, r)
        BY <4>1 DEF Listed
      <4>3. /\ \A x, y : RowsOf(x, y)' = RowsOf(x, y)
            /\ \A x, y, r : InTable(x, y, r)' <=> InTable(x, y, r)
        BY <4>1 DEF InTable, RowsOf
      <4>4. AskedFor' <=> AskedFor
        BY <4>1, <4>2 DEF AskedFor
      <4>5. Written' <=> Written
        BY <4>1, <4>3 DEF Written
      <4> QED
        BY <4>4, <4>5
    <3>3. ListsDue' <=> ListsDue
      <4>1. \A x, y, r : Due(x, y, r)' <=> Due(x, y, r)
        BY <2>1 DEF vars, table_vars, Due, Asks, InTable, RowsOf
      <4>5. inbox' = inbox /\ friends' = friends /\ friend_requests' = friend_requests
        BY <2>1 DEF vars, view_vars
      <4>6. \A x, y, r : Listed(x, y, r)' <=> Listed(x, y, r)
        BY <4>5 DEF Listed
      <4>2. \A x, y : Comes(x, y)' <=> Comes(x, y)
        BY <4>1, <4>5, <4>6 DEF Comes
      <4>3. online' = online /\ request' = request
        BY <2>1 DEF vars, server_vars
      <4>4. \A x, y : (LoggingIn(x)' <=> LoggingIn(x)) /\ (Answered(x, y)' <=> Answered(x, y))
        BY <4>3 DEF LoggingIn, Answered, Asks
      <4> QED
        BY <4>2, <4>3, <4>4 DEF ListsDue
    <3> QED
      BY <3>1, <3>2, <3>3 DEF ViewInv
  <2>2. ASSUME NEW u \in Users, UserAsks(u) \/ Handler(u) \/ Interface(u)
        PROVE  ViewInv'
    <3> SUFFICES ASSUME Calm'
                 PROVE  (InboxRests /\ AskedFor /\ Written /\ LoginLists /\ ListsDue)'
      BY DEF ViewInv
    <3>1. Calm
      BY <2>2, UserStepMoves DEF Calm
    <3>2. (InboxRests /\ AskedFor /\ Written /\ LoginLists)'
      BY <2>2, <3>1, InboxStep, AskedForStep, WrittenStep, LoginListsStep
    <3>3. ASSUME NEW x \in online', NEW y \in Users PROVE DueTo(x, y)'
      <4>1. CASE UserAsks(u)
        <5>1. online' = online
          BY <4>1, AsksMoves, AskedMoves DEF Asked, server_vars
        <5> QED
          BY <3>1, <3>3, <4>1, <5>1, AsksDue
      <4>2. CASE FriendInsert(u) \/ StatusDelete(u) \/ StatusUpdate(u)
        <5>1. online' = online
          BY <4>2 DEF FriendInsert, StatusDelete, StatusUpdate, server_vars
        <5> QED
          BY <3>1, <3>3, <4>2, <5>1, WritesDue
      <4>3. CASE TriggerEvent(u)
        <5>1. online' = online
          BY <4>3 DEF TriggerEvent, server_vars
        <5> QED
          BY <3>1, <3>3, <4>3, <5>1, EventDue
      <4>4. CASE /\ Handler(u)
                 /\ ~ (\/ FriendInsert(u) \/ StatusDelete(u) \/ StatusUpdate(u)
                       \/ TriggerEvent(u))
        BY <3>1, <3>3, <4>4, QuietDue
      <4>5. CASE Interface(u)
        <5>1. online' = online
          BY <4>5, InterfaceMoves DEF server_vars
        <5>2. updating[u] = {}
          BY <3>1 DEF ViewInv, InboxRests
        <5>3. CASE HandleEvent(u)
          BY <3>1, <3>3, <5>1, <5>3, HandleDue
        <5>4. CASE Fulfilled(u) \/ Rejected(u)
          BY <3>1, <3>3, <5>1, <5>4, AnswerDue
        <5> QED
          BY <4>5, <5>2, <5>3, <5>4 DEF Interface
      <4> QED
        BY <2>2, <4>1, <4>2, <4>3, <4>4, <4>5
    <3>4. ListsDue'
      BY <3>3 DEF ListsDue, DueTo
    <3> QED
      BY <3>2, <3>4
  <2> QED
    BY <2>1, <2>2 DEF Next
<1> QED
  BY <1>1, InductiveInvariant, PairInvariant, InitViewInv, PTL DEF Spec

\* When all is quiet the lists of every interface that is logged in are those of
\* the table: each event that is sent, shown or still due takes the relation that
\* the other one shows to the one that the table has.
THEOREM ViewsAlwaysAgree == Spec => []ViewsAgree
<1>1. IInv /\ ViewInv => ViewsAgree
  <2> SUFFICES ASSUME IInv, ViewInv, Quiet, Calm
        PROVE  \A u \in online, v \in Users :
          /\ v \in friends[u] <=> \E k \in RowsOf(u, v) : friendships[k] = "approved"
          /\ <<v, "recipient">> \in friend_requests[u]
               <=> friendships[<<u, v>>] = "pending"
          /\ <<v, "requester">> \in friend_requests[u]
               <=> friendships[<<v, u>>] = "pending"
    BY DEF ViewsAgree, Calm
  <2> TAKE u \in online, v \in Users
  <2>1. u \in Users /\ request[u] = NoRequest /\ request[v] = NoRequest /\ inbox[u] = <<>>
    BY DEF Quiet, IInv, TypeOK
  <2>2. PICK h \in [0 .. Len(inbox[u]) -> Relations] :
          Listed(u, v, h[0]) /\ Due(u, v, h[Len(inbox[u])])
    BY <2>1, ShowsOne DEF Comes
  <2>3. Len(inbox[u]) = 0
    BY <2>1
  <2>4. InTable(u, v, h[0])
    BY <2>1, <2>2, <2>3 DEF Due, Asks, NoRequest, Request, Befriending
  <2> QED
    BY <2>2, <2>4 DEF Listed, InTable
<1> QED
  BY <1>1, InductiveInvariant, ViewInvariant, PTL
=============================================================================
