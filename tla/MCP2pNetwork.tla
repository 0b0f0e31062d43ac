--------------------------- MODULE MCP2pNetwork ---------------------------
(* The instance of P2pNetwork for TLC.                                     *)
EXTENDS P2pNetwork

CONSTANTS owner, reader, f1, o1, o2, u1, alarm

NoTeam(o) == [org |-> o, team |-> None]

ProfileOf(f, p, v) == [feed |-> f, owner |-> p, vis |-> v]
EntryOf(f, u, v, a) ==
    [feed |-> f, peer |-> owner, owner |-> u, vis |-> v, access |-> a]
Member(o, ts) == [org |-> o, teams |-> ts]

SameStory == {<<s, s>> : s \in Story}

RoutingJoin == {{"rendezvous", "kad"}}

\* One feed that its owner opens and closes, and members that leave.
OpenAndClosed == {ProfileOf(f1, owner, "public"), ProfileOf(f1, owner, "org")}
OrgEntry == {EntryOf(f1, u1, "org", NoTeam(o1))}
TwoOrgs == {Member(o1, {}), Member(o2, {})}

\* Bound: only a network without publications is joined for its routing, and
\* by the reader; nothing else reads the roles.
Focused ==
    LET Routing(p) == roles[p] \intersect {"rendezvous", "handoff"} # {} IN
    /\ ~Routing(owner)
    /\ Routing(reader) => log[f1] = <<>>
===========================================================================
