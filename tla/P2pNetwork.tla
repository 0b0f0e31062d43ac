---------------------------- MODULE P2pNetwork ----------------------------
(***************************************************************************)
(* The in-memory peer network of agent_feed_p2p: the PeerNode operations   *)
(* over the shared NetworkState.  A PeerNode is a handle that any thread   *)
(* may clone, so operations interleave wherever the state mutex is free;   *)
(* an operation that locks once is one action, and one that locks twice    *)
(* (a check, then the update) is two, with the call kept in `inflight`     *)
(* between them.                                                           *)
(*                                                                         *)
(* A rejected call changes nothing and is a disabled action.  Signatures,  *)
(* network ids and the protocol number are checked against values that a   *)
(* call carries; a call that fails one of them is rejected before the      *)
(* first lock, so the calls here are those that pass.                      *)
(***************************************************************************)
EXTENDS Naturals, Sequences, FiniteSets

CONSTANTS
    Peer,             \* peer ids
    Current,          \* the peers whose handle has the current protocol
    Feed, Org, Team, User,
    Story,            \* what a capsule says: its kind, headline and deck
    Urgent,           \* the stories that score at least 90
    Repeats,          \* <<old, new>> such that `new` reads like `old`
    Profiles,         \* the feed profiles peers announce
    Entries,          \* the signed directory entries in circulation
    Certificates,     \* the org memberships peers are certified for
    JoinRoles,        \* the role sets peers join the fabric with
    HandoffPeers,     \* the peers that register a browser handoff
    None,             \* an absent value of a map or option
    HistoryCapacity,  \* NetworkState.history_capacity
    RepeatWindow,     \* how many recent capsules are compared
    MaxPublications,  \* bound: accepted capsules per feed
    MaxInflight       \* bound: calls between their two locks

Role == {"fabric", "publisher", "subscriber", "bootstrap", "relay",
         "handoff", "rendezvous", "kad"}

Visibility == {"public", "private", "org", "team"}

Profile == [feed : Feed, owner : Peer, vis : Visibility]

Policy == [org : Org \union {None}, team : Team \union {None}]

Entry == [feed : Feed, peer : Peer, owner : User, vis : Visibility,
          access : Policy]

Membership == [org : Org, teams : SUBSET Team]

\* FeedDirectoryEntry::access_matches_visibility, without the copies of the
\* policy an entry carries per stream.
AccessMatchesVisibility(e) ==
    /\ e.vis = "org" => e.access.org # None /\ e.access.team = None
    /\ e.vis = "team" => e.access.org # None /\ e.access.team # None

ASSUME CallsAssumption ==
    /\ Current \subseteq Peer
    /\ Profiles \subseteq Profile
    /\ Entries \subseteq {e \in Entry : AccessMatchesVisibility(e)}
    /\ Certificates \subseteq Membership
    /\ JoinRoles \subseteq SUBSET Role
    /\ HandoffPeers \subseteq Peer
    /\ Urgent \subseteq Story
    /\ Repeats \subseteq Story \X Story

ASSUME NoneAssumption ==
    /\ None \notin Profile
    /\ None \notin Policy
    /\ None \notin Membership
    /\ None \notin Org
    /\ None \notin Team

ASSUME BoundsAssumption ==
    /\ HistoryCapacity \in Nat \ {0}
    /\ RepeatWindow \in Nat \ {0}
    /\ RepeatWindow <= HistoryCapacity
    /\ MaxPublications \in Nat
    /\ MaxInflight \in Nat

VARIABLES
    feeds,          \* feed -> its announced profile
    roles,          \* peer -> roles; a participant has at least one
    feedAccess,     \* feed -> the policy of the entry indexed last
    orgAccess,      \* peer -> its certified membership
    directory,      \* entries by (user, feed)
    orgDirectory,   \* entries by (org, feed)
    teamDirectory,  \* entries by (org, team, feed)
    subscriptions,  \* feed -> peers that follow it
    grants,         \* <<feed, peer>> the publisher admitted
    history,        \* feed -> latest capsules
    inboxes,        \* peer -> capsules not drained yet
    inflight,       \* calls between their two locks
    log             \* history variable: feed -> every accepted capsule

indexes == <<feedAccess, directory, orgDirectory, teamDirectory>>
content == <<history, inboxes, log>>
vars == <<feeds, roles, orgAccess, subscriptions, grants, inflight,
          indexes, content>>

---------------------------------------------------------------------------
(* Who may see what.                                                       *)

Holds(m, org) == m # None /\ m.org = org

\* NetworkState::peer_can_cache_directory_entry
CanCache(p, e) ==
    \/ e.vis = "public"
    \/ e.vis = "org" /\ Holds(orgAccess[p], e.access.org)
    \/ /\ e.vis = "team"
       /\ Holds(orgAccess[p], e.access.org)
       /\ e.access.team \in orgAccess[p].teams

\* NetworkState::can_follow and can_receive_peer, which are the same test.
Admitted(p, f, vis) ==
    \/ vis = "public"
    \/ <<f, p>> \in grants
    \/ /\ feedAccess[f] # None
       /\ Holds(orgAccess[p], feedAccess[f].org)
       /\ \/ vis = "org"
          \/ vis = "team" /\ feedAccess[f].team \in orgAccess[p].teams

\* What the three discovery calls return to peer p; org and team discovery
\* answer with an error, here the empty set, when p is not a member.
DiscoverGithubUser(p, u) ==
    {e \in directory : e.owner = u /\ CanCache(p, e)}

DiscoverGithubOrg(p, o) ==
    {e \in orgDirectory : e.access.org = o /\ Holds(orgAccess[p], o)}

DiscoverGithubTeam(p, o, t) ==
    {e \in teamDirectory : /\ e.access.org = o /\ e.access.team = t
                           /\ Holds(orgAccess[p], o)
                           /\ t \in orgAccess[p].teams}

---------------------------------------------------------------------------
\* The last n elements of s: pop_front while the ring is too long.
KeepLast(s, n) == SubSeq(s, IF Len(s) > n THEN Len(s) - n + 1 ELSE 1, Len(s))

\* capsule_is_duplicate
IsRepeat(f, s) ==
    /\ s \notin Urgent
    /\ \E i \in 1..Len(history[f]) :
          /\ i + RepeatWindow > Len(history[f])
          /\ <<history[f][i], s>> \in Repeats

\* Faulty variants: delivery to every subscriber, whatever the feed's
\* visibility now; delivery to every participant of the fabric.
ReceiversUnchecked(f) == subscriptions[f]
ReceiversFabric(f) == {p \in Peer : roles[p] # {}}

\* The subscribers a capsule published to feed f is delivered to.
Receivers(f) ==
    {p \in subscriptions[f] : Admitted(p, f, feeds[f].vis)}

\* The directory maps hold one entry per key: `new` replaces the old one.
IndexBy(index, new, SameKey(_)) == {e \in index : ~SameKey(e)} \union {new}

IndexByOwner(e) ==
    IndexBy(directory, e, LAMBDA d : d.owner = e.owner /\ d.feed = e.feed)

IndexByOrg(e) ==
    IF e.access.org = None THEN orgDirectory
    ELSE IndexBy(orgDirectory, e,
                 LAMBDA d : d.access.org = e.access.org /\ d.feed = e.feed)

IndexByTeam(e) ==
    IF e.access.org = None \/ e.access.team = None THEN teamDirectory
    ELSE IndexBy(teamDirectory, e,
                 LAMBDA d : d.access = e.access /\ d.feed = e.feed)

\* NetworkState::index_directory_entry
IndexDirectoryEntry(e) ==
    /\ feedAccess' = [feedAccess EXCEPT ![e.feed] = e.access]
    /\ directory' = IndexByOwner(e)
    /\ orgDirectory' = IndexByOrg(e)
    /\ teamDirectory' = IndexByTeam(e)

---------------------------------------------------------------------------
Init ==
    /\ feeds = [f \in Feed |-> None]
    /\ roles = [p \in Peer |-> {}]
    /\ feedAccess = [f \in Feed |-> None]
    /\ orgAccess = [p \in Peer |-> None]
    /\ directory = {} /\ orgDirectory = {} /\ teamDirectory = {}
    /\ subscriptions = [f \in Feed |-> {}]
    /\ grants = {}
    /\ history = [f \in Feed |-> <<>>]
    /\ inboxes = [p \in Peer |-> <<>>]
    /\ inflight = {}
    /\ log = [f \in Feed |-> <<>>]

AddRoles(p, rs) == roles' = [roles EXCEPT ![p] = @ \union rs]

JoinFabric(p, rs) ==
    /\ AddRoles(p, {"fabric"} \union rs)
    /\ UNCHANGED <<feeds, orgAccess, subscriptions, grants, inflight,
                   indexes, content>>

RegisterBrowserHandoff(p) ==
    /\ AddRoles(p, {"fabric", "handoff"})
    /\ UNCHANGED <<feeds, orgAccess, subscriptions, grants, inflight,
                   indexes, content>>

\* Any peer may announce a profile, also one that replaces the feed's.
AnnounceFeed(p, profile) ==
    /\ feeds' = [feeds EXCEPT ![profile.feed] = profile]
    /\ AddRoles(p, {"publisher"})
    /\ UNCHANGED <<orgAccess, subscriptions, grants, inflight, indexes,
                   content>>

CertifyGithubOrgAccess(p, m) ==
    /\ orgAccess' = [orgAccess EXCEPT ![p] = m]
    /\ UNCHANGED <<feeds, roles, subscriptions, grants, inflight, indexes,
                   content>>

\* A call that released its first lock and will take a second one.
Await(op, p, arg) ==
    /\ Cardinality(inflight) < MaxInflight
    /\ inflight' = inflight \union {[op |-> op, peer |-> p, arg |-> arg]}

\* announce_directory_entry up to the end of its first lock.
AnnounceCheck(p, e) ==
    /\ CanCache(p, e)
    /\ e.peer = p
    /\ Await("announce", p, e)
    /\ UNCHANGED <<feeds, roles, orgAccess, subscriptions, grants, indexes,
                   content>>

\* cache_directory_entry up to the end of its first lock.
CacheCheck(p, e) ==
    /\ CanCache(p, e)
    /\ Await("cache", p, e)
    /\ UNCHANGED <<feeds, roles, orgAccess, subscriptions, grants, indexes,
                   content>>

\* The second lock of both: the membership is not looked at again.
IndexEntry(c) ==
    /\ c.op \in {"announce", "cache"}
    /\ inflight' = inflight \ {c}
    /\ IndexDirectoryEntry(c.arg)
    /\ AddRoles(c.peer, IF c.op = "cache" THEN {"fabric", "kad"} ELSE {"kad"})
    /\ UNCHANGED <<feeds, orgAccess, subscriptions, grants, content>>

Follow(p, f) ==
    /\ feeds[f] # None
    /\ Admitted(p, f, feeds[f].vis)
    /\ subscriptions' = [subscriptions EXCEPT ![f] = @ \union {p}]
    /\ AddRoles(p, {"subscriber"})
    /\ UNCHANGED <<feeds, orgAccess, grants, inflight, indexes, content>>

GrantSubscription(p, f, q) ==
    /\ feeds[f] # None
    /\ feeds[f].owner = p
    /\ grants' = grants \union {<<f, q>>}
    /\ UNCHANGED <<feeds, roles, orgAccess, subscriptions, inflight, indexes,
                   content>>

\* The capsule as an inbox holds it; n and vis say which publication it was
\* and how visible the feed was then.
Delivery(f, s) == [feed |-> f, story |-> s, n |-> Len(log[f]) + 1,
                   vis |-> feeds[f].vis]

\* Faulty variant: a capsule jumps the queue of its inbox.
AcceptInFront(p, f, s) ==
    /\ feeds[f] # None
    /\ feeds[f].owner = p
    /\ ~IsRepeat(f, s)
    /\ history' = [history EXCEPT ![f] =
                       KeepLast(Append(@, s), HistoryCapacity)]
    /\ inboxes' = [q \in Peer |-> IF q \in Receivers(f)
                                  THEN <<Delivery(f, s)>> \o inboxes[q]
                                  ELSE inboxes[q]]
    /\ log' = [log EXCEPT ![f] = Append(@, s)]

Accept(p, f, s) ==
    /\ feeds[f] # None
    /\ feeds[f].owner = p
    /\ ~IsRepeat(f, s)
    /\ history' = [history EXCEPT ![f] =
                       KeepLast(Append(@, s), HistoryCapacity)]
    /\ inboxes' = [q \in Peer |-> IF q \in Receivers(f)
                                  THEN Append(inboxes[q], Delivery(f, s))
                                  ELSE inboxes[q]]
    /\ log' = [log EXCEPT ![f] = Append(@, s)]

PublishCapsule(p, f, s) ==
    /\ Len(log[f]) < MaxPublications
    /\ Accept(p, f, s)
    /\ UNCHANGED <<feeds, roles, orgAccess, subscriptions, grants, inflight,
                   indexes>>

\* publish_capsule_on_topic: the topic is compared with the feed's under a
\* first lock, which is released before publish_capsule takes it again.
TopicCheck(p, f, s) ==
    /\ feeds[f] # None
    /\ Await("topic", p, <<f, s>>)
    /\ UNCHANGED <<feeds, roles, orgAccess, subscriptions, grants, indexes,
                   content>>

TopicPublish(c) ==
    /\ c.op = "topic"
    /\ inflight' = inflight \ {c}
    /\ \/ /\ Len(log[c.arg[1]]) < MaxPublications
          /\ Accept(c.peer, c.arg[1], c.arg[2])
       \/ /\ \/ feeds[c.arg[1]].owner # c.peer
             \/ IsRepeat(c.arg[1], c.arg[2])
          /\ UNCHANGED content
    /\ UNCHANGED <<feeds, roles, orgAccess, subscriptions, grants, indexes>>

Drain(p) ==
    /\ inboxes[p] # <<>>
    /\ inboxes' = [inboxes EXCEPT ![p] = <<>>]
    /\ UNCHANGED <<feeds, roles, orgAccess, subscriptions, grants, inflight,
                   indexes, history, log>>

\* Every call starts with ensure_compatible, which only peers in Current pass.
PeerCall(p) ==
    \/ \E rs \in JoinRoles : JoinFabric(p, rs)
    \/ p \in HandoffPeers /\ RegisterBrowserHandoff(p)
    \/ \E profile \in Profiles : AnnounceFeed(p, profile)
    \/ \E m \in Certificates : CertifyGithubOrgAccess(p, m)
    \/ \E e \in Entries : AnnounceCheck(p, e) \/ CacheCheck(p, e)
    \/ \E f \in Feed : Follow(p, f)
    \/ \E f \in Feed, q \in Current : GrantSubscription(p, f, q)
    \/ \E f \in Feed, s \in Story : PublishCapsule(p, f, s)
                                    \/ TopicCheck(p, f, s)
    \/ Drain(p)

Next ==
    \/ \E p \in Current : PeerCall(p)
    \/ \E c \in inflight : IndexEntry(c) \/ TopicPublish(c)

Spec == Init /\ [][Next]_vars

---------------------------------------------------------------------------
(* Properties.                                                             *)

InflightType ==
    [op : {"announce", "cache"}, peer : Current, arg : Entries]
        \union [op : {"topic"}, peer : Current, arg : Feed \X Story]

DeliveryType == [feed : Feed, story : Story, n : Nat, vis : Visibility]

\* Every variable keeps its type, and a call waiting for its second lock on a
\* topic names a feed that exists.
TypeOK ==
    /\ feeds \in [Feed -> Profiles \union {None}]
    /\ roles \in [Peer -> SUBSET Role]
    /\ feedAccess \in [Feed -> Policy \union {None}]
    /\ orgAccess \in [Peer -> Certificates \union {None}]
    /\ directory \subseteq Entries
    /\ orgDirectory \subseteq Entries
    /\ teamDirectory \subseteq Entries
    /\ subscriptions \in [Feed -> SUBSET Current]
    /\ grants \subseteq Feed \X Current
    /\ history \in [Feed -> Seq(Story)]
    /\ inboxes \in [Peer -> Seq(DeliveryType)]
    /\ log \in [Feed -> Seq(Story)]
    /\ inflight \subseteq InflightType

\* h is the end of l: all of it, or its last HistoryCapacity elements.
EndOf(h, l) ==
    /\ Len(h) <= Len(l)
    /\ Len(h) <= HistoryCapacity
    /\ Len(h) < Len(l) => Len(h) = HistoryCapacity
    /\ \A i \in 1..Len(h) : h[i] = l[Len(l) - Len(h) + i]

\* The ring the snapshots are served from is always the end of the feed: the
\* trimming in publish_capsule never drops a newer capsule than one it keeps,
\* and a suppressed capsule leaves no trace.
HistoryIsLatest == \A f \in Feed : EndOf(history[f], log[f])

\* "p2p capsule suppressed as duplicate": a capsule below the urgent score
\* never follows one it repeats within the comparison window, whoever else
\* publishes in between and however the ring was trimmed.
NoRecentRepeat ==
    \A f \in Feed : \A i, j \in 1..Len(log[f]) :
        /\ i < j
        /\ j <= i + RepeatWindow
        /\ log[f][j] \notin Urgent
        => <<log[f][i], log[f][j]>> \notin Repeats

\* What waits in an inbox is, feed by feed, a subsequence of the feed's log in
\* its order: nothing is invented, swapped or delivered twice, although
\* drains, follows and publications of all peers interleave.
InboxInOrder ==
    \A p \in Peer : \A i \in 1..Len(inboxes[p]) :
        LET d == inboxes[p][i] IN
        /\ d.n \in 1..Len(log[d.feed])
        /\ d.story = log[d.feed][d.n]
        /\ \A j \in 1..(i - 1) :
              inboxes[p][j].feed = d.feed => inboxes[p][j].n < d.n

\* "peers are never subscribed automatically; fabric, routing, and
\* browser-handoff peers can participate without receiving feed headlines"
\* (README): a capsule reaches only a peer that followed the feed itself, and
\* such a peer is counted as a subscriber.
OnlyFollowersReceive ==
    /\ \A p \in Peer : \A i \in 1..Len(inboxes[p]) :
          p \in subscriptions[inboxes[p][i].feed]
    /\ \A f \in Feed : \A p \in subscriptions[f] : "subscriber" \in roles[p]

\* A capsule published while its feed was not public is in no inbox of a peer
\* that was neither granted the feed nor ever certified for an org, even when
\* the peer followed the feed while it was public.
PrivateNeedsAdmission ==
    \A p \in Peer : \A i \in 1..Len(inboxes[p]) :
        LET d == inboxes[p][i] IN
        d.vis # "public" => \/ <<d.feed, p>> \in grants
                            \/ /\ orgAccess[p] # None
                               /\ feedAccess[d.feed] # None

\* The network implements the abstract bus: an inbox is the mail of its peer.
mail == [p \in Peer |-> [i \in 1..Len(inboxes[p]) |->
                            <<inboxes[p][i].feed, inboxes[p][i].n>>]]

Bus == INSTANCE FeedBus WITH followers <- subscriptions

\* Every step of the network is one of the bus, or invisible on it.
ImplementsBus == Bus!Spec
===========================================================================
