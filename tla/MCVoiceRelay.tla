---------------------------- MODULE MCVoiceRelay ----------------------------
(***************************************************************************)
(* Instances of VoiceRelay for TLC.                                        *)
(***************************************************************************)
EXTENDS VoiceRelay

\* Both users log in on either client.
AllAccounts == [c \in Clients |-> Users]

\* Networks that do nothing, duplicate datagrams, or everything; a client whose
\* calls overlap.
MCWorlds == {{}, {"duplicate"}, {"lose", "duplicate", "late"}, {"overlap"}}
=============================================================================
