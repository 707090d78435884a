---------------------------- MODULE MCFileServer ----------------------------
(***************************************************************************)
(* Instances of FileServer for TLC: an upload and a file saved before.     *)
(***************************************************************************)
EXTENDS FileServer

MCWorlds == {{"restart"}, {"disk"}, {"sql", "logout"}}
=============================================================================
