---------------------------- MODULE MCEdgeAccess ----------------------------
(* An instance of EdgeAccess for TLC: ann publishes under the login la, and *)
(* bob, of the same organisation and team, reads.                          *)
EXTENDS EdgeAccess, TLC

CONSTANTS ann, bob, la, desk, o1, t1, change

OrgOfTeam == t1 :> o1
Belonging == User \X Group
\* The login of bob is not asked for until bob takes la.
FirstLogins == ann :> la @@ bob :> None

\* Nothing after the last answer matters to it, and an answer changes nothing.
Unanswered == ~(Answered /\ count.asks = MaxAsks)

Everything == {[labels |-> Label, topics |-> Topic]}
=============================================================================
