---------------------------- MODULE CallLifecycle ----------------------------
(***************************************************************************)
(* What the voice calls of the server promise, without maps, handlers or   *)
(* locks: a call belongs to one channel, a channel has one open call at a  *)
(* time, a user is a member of one call at a time, and a call that closes  *)
(* does so in the step that takes its last member out.  VoiceCalls         *)
(* implements it.                                                          *)
(***************************************************************************)
CONSTANTS Users, Channels, CallIds, NoChannel

VARIABLES
  channel_of,  \* the channel of each open call, NoChannel for the other ids
  members      \* the users talking in each call

vars == <<channel_of, members>>

Open(k) == channel_of[k] # NoChannel

Init ==
  /\ channel_of = [k \in CallIds |-> NoChannel]
  /\ members = [k \in CallIds |-> {}]

\* A caller opens a call in a channel that has none.
Start(k, c) ==
  /\ ~Open(k)
  /\ \A j \in CallIds : channel_of[j] # c
  /\ channel_of' = [channel_of EXCEPT ![k] = c]
  /\ UNCHANGED members

\* A user who is in no call enters an open one.
Enter(k, u) ==
  /\ Open(k)
  /\ \A j \in CallIds : u \notin members[j]
  /\ members' = [members EXCEPT ![k] = @ \cup {u}]
  /\ UNCHANGED channel_of

Exit(k, u) ==
  /\ u \in members[k]
  /\ members' = [members EXCEPT ![k] = @ \ {u}]
  /\ UNCHANGED channel_of

\* The last member leaves and closes the call.
ExitAndClose(k, u) ==
  /\ members[k] = {u}
  /\ members' = [members EXCEPT ![k] = {}]
  /\ channel_of' = [channel_of EXCEPT ![k] = NoChannel]

Next ==
  \/ \E k \in CallIds, c \in Channels : Start(k, c)
  \/ \E k \in CallIds, u \in Users : Enter(k, u) \/ Exit(k, u) \/ ExitAndClose(k, u)

Spec == Init /\ [][Next]_vars
=============================================================================
