---------------------------- MODULE MCVoiceCalls ----------------------------
(***************************************************************************)
(* Instances of VoiceCalls for TLC.                                        *)
(***************************************************************************)
EXTENDS VoiceCalls, TLC

CONSTANTS u1, u2, u3, c1, c2, s1, s2, s3

\* Each user has one session: s1 of u1, s2 of u2, s3 of u3.
OneSessionEach == [s \in Sessions |-> IF s = s1 THEN u1 ELSE IF s = s2 THEN u2 ELSE u3]

\* s1 and s2 are an old and a new connection of u1 (session_auth admits both).
Reconnected == [s \in Sessions |-> IF s \in {s1, s2} THEN u1 ELSE u2]

\* Every user is a member of every channel.
AllMembers == [c \in Channels |-> Users]

\* u2 is not a member of c2: it can join a call there and not start one.
SomeMembers == [c \in Channels |-> IF c = c2 THEN Users \ {u2} ELSE Users]

=============================================================================
