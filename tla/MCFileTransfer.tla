--------------------------- MODULE MCFileTransfer ---------------------------
(***************************************************************************)
(* Instances of FileTransfer for TLC.                                      *)
(***************************************************************************)
EXTENDS FileTransfer

\* Both kinds of transfer at once, of one file and of two, and each kind with what
\* else may happen.
MCWorlds == {{"upload", "download"},
             {"upload", "fetch", "disk"},
             {"upload", "stop", "together", "lost", "refuse", "logout"},
             {"upload", "stop", "sql"},
             {"download", "stop", "together"},
             {"download", "stop", "lost"},
             {"download", "logout"}}
=============================================================================
