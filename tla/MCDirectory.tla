------------------------------ MODULE MCDirectory ------------------------------
(***************************************************************************)
(* Instances of Directory for TLC: three users, two channels, a message.   *)
(***************************************************************************)
EXTENDS Directory

CONSTANTS u1, u2, u3

Friending == {"friend", "approve", "reject", "remove"}
Logins == {"login", "resume"}
Messaging == {"channel", "message"}
World(users, requests, may, events) ==
  [online |-> users, requests |-> requests, may |-> may, events |-> events]

\* Friends of whom one asks at a time, and some log in later; two friends whose
\* requests overlap; logins amid requests; channels and a message.
MCWorlds ==
  {World(Users, Friending, {"sql"}, 2),
   World({}, Friending \cup Logins, {}, 2),
   World({u1, u2}, Friending, {"overlap", "cross", "late"}, 1),
   World({u1, u2}, Friending, {"overlap", "late"}, 2),
   World({u1, u2}, Friending, {"await"}, 1),
   World({u1}, {"friend"} \cup Logins, {"overlap"}, 1),
   World(Users, Messaging, {"sql"}, 1),
   World({u1, u2}, Messaging, {"overlap", "late", "sql"}, 1),
   World({u1, u2}, Messaging, {"overlap", "cross"}, 1)}
=============================================================================
