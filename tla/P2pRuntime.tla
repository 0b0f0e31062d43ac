------------------------------ MODULE P2pRuntime ------------------------------
(***************************************************************************)
(* P2pRuntime of agent_feed_p2p: the peers of one process on a network of  *)
(* their own, driven by commands and answering through a queue of events.  *)
(* A command is one action here: handle() takes the runtime exclusively,   *)
(* so nothing comes between the two locks of a directory call.  A command  *)
(* the network rejects changes nothing and is answered by an error.        *)
(*                                                                         *)
(* An event carries what the properties read of it: the peer, the feed,    *)
(* how many inboxes a capsule reached, the capsules handed over, the       *)
(* entries discovered.                                                     *)
(***************************************************************************)
EXTENDS P2pNetwork, Sublists

CONSTANTS
    SnapshotLimits,   \* limits snapshots are requested with
    MaxPending        \* bound: events waiting to be drained

ASSUME RuntimeAssumption ==
    /\ SnapshotLimits \subseteq Nat
    /\ MaxPending \in Nat \ {0}
    /\ IsFiniteSet(Peer)
    /\ None \notin Nat /\ None \notin Peer

VARIABLES
    peers,       \* the peers this runtime has a handle for
    events,      \* the queue drain_events empties
    shutdown,    \* whether a shutdown was commanded
    since,       \* history variable: <<peer, feed>> -> length of the feed's log
                 \* when the peer first followed it, or None
    heard,       \* history variable: peer -> the batches its events handed out
    sent,        \* history variable: deliveries the events handed out report
    open         \* history variable: feed -> publications made while public

runtimeVars == <<peers, events, shutdown>>
historyVars == <<since, heard, sent, open>>
allVars == <<vars, runtimeVars, historyVars>>

---------------------------------------------------------------------------
Event(kind, p, f) == [is |-> kind, peer |-> p, feed |-> f, delivered |-> 0,
                      capsules |-> <<>>, entries |-> {}]

Problem == Event("error", None, None)

RuntimeInit ==
    /\ Init
    /\ peers = {}
    /\ events = <<Event("ready", None, None)>>
    /\ shutdown = FALSE
    /\ since = [pf \in Peer \X Feed |-> None]
    /\ heard = [p \in Peer |-> <<>>]
    /\ sent = 0
    /\ open = [f \in Feed |-> {}]

Tell(es) == events' = events \o es

\* handle() and handle_inner() for a command of peer p that needs the handle.
Known(p) == p \in peers

\* ensure_compatible too: what all calls but a snapshot begin with.
Able(p) == Known(p) /\ p \in Current

Ready == ~shutdown /\ Len(events) < MaxPending

\* A command that changes nothing: a question, or one that is rejected.
Reject(es) ==
    /\ Tell(es)
    /\ UNCHANGED <<vars, peers, shutdown, since, open>>

\* One that the network carries out, which primes its own variables.
Answer(e) ==
    /\ Tell(<<e>>)
    /\ UNCHANGED <<peers, shutdown, since, open>>

---------------------------------------------------------------------------
\* The handle is kept although an old peer may not join.
Join(p, rs) ==
    /\ peers' = peers \union {p}
    /\ \/ /\ p \in Current
          /\ JoinFabric(p, rs)
          /\ Tell(<<Event("joined", p, None)>>)
       \/ /\ p \notin Current
          /\ UNCHANGED vars
          /\ Tell(<<Problem>>)
    /\ UNCHANGED <<shutdown, since, open>>

Handoff(p) ==
    \/ /\ Able(p)
       /\ RegisterBrowserHandoff(p)
       /\ Answer(Event("handoff", p, None))
    \/ ~Able(p) /\ Reject(<<Problem>>)

Announce(p, profile) ==
    \/ /\ Able(p)
       /\ AnnounceFeed(p, profile)
       /\ Answer(Event("accepted", p, profile.feed))
    \/ ~Able(p) /\ Reject(<<Problem>>)

Certify(p, m) ==
    \/ /\ Able(p)
       /\ CertifyGithubOrgAccess(p, m)
       /\ Answer(Event("accepted", p, None))
    \/ ~Able(p) /\ Reject(<<Problem>>)

\* announce_directory_entry and cache_directory_entry, both locks.
Directory(p, e, op, rs) ==
    LET allowed == Able(p) /\ CanCache(p, e) /\ (op = "announce" => e.peer = p)
    IN  \/ /\ allowed
           /\ IndexDirectoryEntry(e)
           /\ AddRoles(p, rs)
           /\ UNCHANGED <<feeds, orgAccess, subscriptions, grants, inflight,
                          content>>
           /\ Answer(Event("entry", p, e.feed))
        \/ ~allowed /\ Reject(<<Problem>>)

\* A user is known to everyone; an org and a team to their members only.
Discover(p, found, allowed) ==
    IF Able(p) /\ allowed
    THEN Reject(<<[Event("found", None, None) EXCEPT !.entries = found]>>)
    ELSE Reject(<<Problem>>)

DiscoverUser(p, u) == Discover(p, DiscoverGithubUser(p, u), TRUE)

DiscoverOrg(p, o) ==
    Discover(p, DiscoverGithubOrg(p, o), Holds(orgAccess[p], o))

DiscoverTeam(p, o, t) ==
    Discover(p, DiscoverGithubTeam(p, o, t),
             Holds(orgAccess[p], o) /\ t \in orgAccess[p].teams)

MayFollow(p, f) ==
    Able(p) /\ feeds[f] # None /\ Admitted(p, f, feeds[f].vis)

FollowFeed(p, f) ==
    \/ /\ MayFollow(p, f)
       /\ Follow(p, f)
       /\ since' = IF since[<<p, f>>] = None
                   THEN [since EXCEPT ![<<p, f>>] = Len(log[f])] ELSE since
       /\ Tell(<<Event("followed", p, f)>>)
       /\ UNCHANGED <<peers, shutdown, open>>
    \/ ~MayFollow(p, f) /\ Reject(<<Problem>>)

MayGrant(p, f, q) ==
    Able(p) /\ Able(q) /\ feeds[f] # None /\ feeds[f].owner = p

Grant(p, f, q) ==
    \/ /\ MayGrant(p, f, q)
       /\ GrantSubscription(p, f, q)
       /\ Answer(Event("accepted", p, f))
    \/ ~MayGrant(p, f, q) /\ Reject(<<Problem>>)

MayPublish(p, f) == Able(p) /\ feeds[f] # None /\ feeds[f].owner = p

\* Faulty variant: the number of subscribers, admitted or not.
ReachedOfAll(f, s) ==
    IF IsRepeat(f, s) THEN 0 ELSE Cardinality(subscriptions[f])

\* publish_capsule's count: none for a suppressed repeat.
Reached(f, s) == IF IsRepeat(f, s) THEN 0 ELSE Cardinality(Receivers(f))

\* A suppressed repeat is accepted too.  A rejection is told twice, as itself
\* and as an error.
Publish(p, f, s) ==
    \/ /\ MayPublish(p, f)
       /\ \/ /\ PublishCapsule(p, f, s)
             /\ open' = IF feeds[f].vis = "public"
                        THEN [open EXCEPT ![f] = @ \union {Len(log'[f])}]
                        ELSE open
          \/ IsRepeat(f, s) /\ UNCHANGED <<vars, open>>
       /\ Tell(<<[Event("accepted", p, f)
                     EXCEPT !.delivered = Reached(f, s)]>>)
       /\ UNCHANGED <<peers, shutdown, since>>
    \/ ~MayPublish(p, f) /\ Reject(<<Event("rejected", p, f), Problem>>)

\* feed_snapshot looks at neither the protocol of the peer nor, for a public
\* feed, at anything but the feed.
MaySee(p, f) ==
    /\ feeds[f] # None
    /\ \/ feeds[f].vis = "public"
       \/ feeds[f].owner = p
       \/ p \in subscriptions[f] /\ Admitted(p, f, feeds[f].vis)

RequestSnapshot(p, f, limit) ==
    IF Known(p) /\ MaySee(p, f)
    THEN Reject(<<[Event("snapshot", p, f)
                      EXCEPT !.capsules = KeepLast(history[f], limit)]>>)
    ELSE Reject(<<Problem>>)

\* Faulty variant: only what the limit of one answer holds is handed over.
DrainLatest(p) ==
    \/ /\ Able(p)
       /\ inboxes' = [inboxes EXCEPT ![p] = <<>>]
       /\ UNCHANGED <<feeds, roles, orgAccess, subscriptions, grants, inflight,
                      indexes, history, log>>
       /\ Answer([Event("stories", p, None)
                     EXCEPT !.capsules = KeepLast(inboxes[p], 1)])
    \/ ~Able(p) /\ Reject(<<Problem>>)

DrainInbox(p) ==
    \/ /\ Able(p)
       /\ inboxes' = [inboxes EXCEPT ![p] = <<>>]
       /\ UNCHANGED <<feeds, roles, orgAccess, subscriptions, grants, inflight,
                      indexes, history, log>>
       /\ Answer([Event("stories", p, None) EXCEPT !.capsules = inboxes[p]])
    \/ ~Able(p) /\ Reject(<<Problem>>)

Command(p) ==
    \/ \E rs \in JoinRoles : Join(p, rs)
    \/ p \in HandoffPeers /\ Handoff(p)
    \/ \E profile \in Profiles : Announce(p, profile)
    \/ \E m \in Certificates : Certify(p, m)
    \/ \E e \in Entries : \/ Directory(p, e, "announce", {"kad"})
                          \/ Directory(p, e, "cache", {"fabric", "kad"})
    \/ \E f \in Feed : \/ FollowFeed(p, f)
                       \/ \E q \in Peer : Grant(p, f, q)
                       \/ \E s \in Story : Publish(p, f, s)
                       \/ \E n \in SnapshotLimits : RequestSnapshot(p, f, n)
    \/ \E u \in User : DiscoverUser(p, u)
    \/ \E o \in Org : DiscoverOrg(p, o) \/ \E t \in Team : DiscoverTeam(p, o, t)
    \/ DrainInbox(p)

Shutdown ==
    /\ Len(events) < MaxPending
    /\ shutdown' = TRUE
    /\ Tell(<<Event("degraded", None, None)>>)
    /\ UNCHANGED <<vars, peers, historyVars>>

\* Any other command after it.
Refuse ==
    /\ shutdown
    /\ Len(events) < MaxPending
    /\ Reject(<<Event("degraded", None, None)>>)
    /\ UNCHANGED historyVars

\* The batches of capsules that events hand to peer p.
Handed(es, p) ==
    LET stories == Sublist(es, {i \in DOMAIN es : /\ es[i].is = "stories"
                                                 /\ es[i].peer = p
                                                 /\ es[i].capsules # <<>>})
    IN  [k \in DOMAIN stories |-> stories[k].capsules]

\* The cells of a function to the numbers, and their number: its sum.
Cells(f) == UNION {{x} \X (1..f[x]) : x \in DOMAIN f}

Total(f) == Cardinality(Cells(f))

\* The deliveries that events report.
Reported(es) == Total([i \in DOMAIN es |-> es[i].delivered])

\* The history variables follow the events as their reader gets them.
DrainEvents ==
    /\ events # <<>>
    /\ events' = <<>>
    /\ heard' = [p \in Peer |-> heard[p] \o Handed(events, p)]
    /\ sent' = sent + Reported(events)
    /\ UNCHANGED <<vars, peers, shutdown, since, open>>

RuntimeNext ==
    \/ Ready /\ (\E p \in Peer : Command(p)) /\ UNCHANGED <<heard, sent>>
    \/ Shutdown
    \/ Refuse
    \/ DrainEvents

RuntimeSpec == RuntimeInit /\ [][RuntimeNext]_allVars

---------------------------------------------------------------------------
(* Properties.                                                             *)

\* All that peer p was ever sent, in batches: read from the events, in the
\* events still queued, and in its inbox.
Sent(p) == heard[p] \o Handed(events, p) \o <<inboxes[p]>>

\* The places of the capsules of some batches, and the order of two places.
Lengths(bs) == [b \in DOMAIN bs |-> Len(bs[b])]

Places(bs) == Cells(Lengths(bs))

Before(x, y) == x[1] < y[1] \/ (x[1] = y[1] /\ x[2] < y[2])

\* "peers are never subscribed automatically" (README): a peer gets no capsule
\* of a feed it did not follow or from before it did, gets them in the order
\* they were published and none twice, and misses none published while the
\* feed was public, however its drains, errors, repeats, changes of visibility
\* and the shutdown fall in between.
HearsAllSince ==
    \A p \in Peer, f \in Feed :
        LET batches == Sent(p)
            Capsule(x) == batches[x[1]][x[2]]
            got == {x \in Places(batches) : Capsule(x).feed = f}
        IN
        /\ \A x \in got : /\ since[<<p, f>>] # None
                          /\ Capsule(x).n > since[<<p, f>>]
                          /\ Capsule(x).story = log[f][Capsule(x).n]
        /\ \A x, y \in got : Before(x, y) => Capsule(x).n < Capsule(y).n
        /\ since[<<p, f>>] # None =>
              \A n \in open[f] : n > since[<<p, f>>] =>
                  \E x \in got : Capsule(x).n = n

\* The deliveries the events report are the capsules the peers were sent: none
\* for a suppressed repeat, for a subscriber that is not admitted any more, or
\* for a command after the shutdown.
DeliveredAddsUp ==
    sent + Reported(events)
        = Total([p \in Peer |-> Cardinality(Places(Sent(p)))])
=============================================================================
