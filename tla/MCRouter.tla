------------------------------ MODULE MCRouter ------------------------------
(* Router with a handful of replies, for TLC. *)
EXTENDS Router, TLC

CONSTANTS c1, c2, m1, m2, user

Reply(m, transport, acl) == [mesh |-> m, transport |-> transport, acl |-> acl]

\* Two replicas of which one wants a role, one that only speaks stdio, ...
Mixed == {Reply(m1, "sse", NoAcl), Reply(m2, "streamable-http", {{user}}),
          Reply(m1, "stdio", NoAcl)}
\* ... and a record nobody may call, and a transport nobody supports.
Odd == Mixed \cup {Reply(m1, "sse", {{}}), Reply(m2, "other", NoAcl)}

Symmetry == Permutations({c1, c2})
=============================================================================
