--------------------------- MODULE MCVoicePipeline ---------------------------
(***************************************************************************)
(* Instances of VoicePipeline for TLC.                                     *)
(***************************************************************************)
EXTENDS VoicePipeline

\* A call and each of what may happen in it, two calls in a row, and two
\* workers at once.
MCWorlds == {{"overlap"}, {"audio", "device"}, {"net", "speech", "late"},
             {"speech", "again", "switch"}, {"state"}, {"logout"},
             {"together", "again", "switch"}, {"together", "state"},
             {"together", "device"}, {"together", "logout"}}
=============================================================================
