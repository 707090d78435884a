----------------------------- MODULE MCSessions -----------------------------
(***************************************************************************)
(* Instances of Sessions for TLC.  Users, sessions and tokens are          *)
(* interchangeable.                                                        *)
(***************************************************************************)
EXTENDS Sessions, TLC

\* Clients that only log in, and clients that send everything.
MCHandlers == {{"login"}, Packets}

Symmetry == Permutations(Users) \cup Permutations(Sessions) \cup Permutations(Tokens)
=============================================================================
