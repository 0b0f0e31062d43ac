---------------------------- MODULE MCP2pRuntime ----------------------------
(* An instance of P2pRuntime for TLC: one process with the owner of a feed, *)
(* a reader, and a peer of an older protocol.                               *)
EXTENDS P2pRuntime

CONSTANTS owner, reader, old, f1, o1, t1, u1, s1, alarm

OpenAndClosed ==
    {[feed |-> f1, owner |-> owner, vis |-> v] : v \in {"public", "org"}}

OrgEntry ==
    {[feed |-> f1, peer |-> owner, owner |-> u1, vis |-> "org",
      access |-> [org |-> o1, team |-> None]]}

OneOrg == {[org |-> o1, teams |-> {t1}]}

SameStory == {<<s, s>> : s \in Story}

PlainJoin == {{}}

\* Bound: the owner publishes, and admits only the reader or one of the two is
\* certified; one of the calls that only add a role was made, or the old peer
\* tried to join, a browser handoff with nobody certified.  Nothing else reads
\* the roles here.
Focused ==
    /\ roles[owner] \subseteq {"fabric", "publisher", "subscriber", "kad"}
    /\ roles[reader] \subseteq {"fabric", "subscriber", "handoff", "kad"}
    /\ Cardinality((roles[owner] \union roles[reader])
                      \intersect {"handoff", "kad"}) <= 1
    /\ orgAccess[owner] = None \/ orgAccess[reader] = None
    /\ grants \subseteq {<<f1, reader>>}
    /\ grants # {} => orgAccess[owner] = None /\ orgAccess[reader] = None
    /\ "handoff" \in roles[reader] => \A p \in Peer : orgAccess[p] = None
    /\ old \in peers => /\ directory = {} /\ grants = {}
                        /\ "handoff" \notin roles[reader]
                        /\ \A p \in Peer : orgAccess[p] = None
=============================================================================
