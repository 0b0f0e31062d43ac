----------------------------- MODULE P2pProofs -----------------------------
(***************************************************************************)
(* Proofs about P2pNetwork, and in the last part about the runtime on it,  *)
(* for every set of peers, feeds, stories, entries and certificates and    *)
(* every capacity and window.                                              *)
(***************************************************************************)
EXTENDS P2pRuntime, OrderLemmas

---------------------------------------------------------------------------
(* Lemmas about the operators.                                             *)

\* What trimming a ring returns: the end of the sequence, of at most n
\* elements, and all of it when it was short enough (the pop_front loop).
LEMMA KeepLastProperties ==
    ASSUME NEW S, NEW s \in Seq(S), NEW n \in Nat
    PROVE  LET k == KeepLast(s, n)
               dropped == IF Len(s) > n THEN Len(s) - n ELSE 0
           IN  /\ k \in Seq(S)
               /\ Len(k) = Len(s) - dropped
               /\ \A i \in 1..Len(k) : k[i] = s[dropped + i]
<1> DEFINE first == IF Len(s) > n THEN Len(s) - n + 1 ELSE 1
<1>1. Len(s) \in Nat /\ first \in Int /\ first >= 1
  BY LenProperties
<1>2. \A i \in first..Len(s) : s[i] \in S
  BY <1>1, ElementOfSeq
<1> HIDE DEF first
<1>3. /\ SubSeq(s, first, Len(s)) \in Seq(S)
      /\ Len(SubSeq(s, first, Len(s))) =
            IF first <= Len(s) THEN Len(s) - first + 1 ELSE 0
      /\ \A i \in 1..(Len(s) - first + 1) :
            SubSeq(s, first, Len(s))[i] = s[first + i - 1]
  BY <1>1, <1>2, SubSeqProperties
<1>4. KeepLast(s, n) = SubSeq(s, first, Len(s))
  BY DEF KeepLast, first
<1>5. CASE Len(s) > n
  <2>1. first = Len(s) - n + 1
    BY <1>5 DEF first
  <2>2. \A i \in 1..n : first + i - 1 = Len(s) - n + i
    BY <1>1, <2>1
  <2>3. QED
    BY <1>1, <1>3, <1>4, <1>5, <2>1, <2>2
<1>6. CASE ~(Len(s) > n)
  <2>1. first = 1
    BY <1>6 DEF first
  <2>2. QED
    BY <1>1, <1>3, <1>4, <1>6, <2>1
<1>7. QED
  BY <1>5, <1>6

\* Adding roles keeps the type and the roles a peer had (the role sets of
\* NetworkState only grow).
LEMMA AddRolesProperties ==
    ASSUME roles \in [Peer -> SUBSET Role], NEW p \in Peer,
           NEW rs \in SUBSET Role, AddRoles(p, rs)
    PROVE  /\ roles' \in [Peer -> SUBSET Role]
           /\ rs \subseteq roles'[p]
           /\ \A q \in Peer : roles[q] \subseteq roles'[q]
BY DEF AddRoles

\* What accepting a capsule does to the three content variables
\* (publish_capsule past its early returns).
LEMMA AcceptProperties ==
    ASSUME TypeOK, NEW p, NEW f \in Feed, NEW s \in Story, Accept(p, f, s)
    PROVE  /\ feeds[f] \in Profiles
           /\ history' \in [Feed -> Seq(Story)]
           /\ inboxes' \in [Peer -> Seq(DeliveryType)]
           /\ log' \in [Feed -> Seq(Story)]
           /\ Delivery(f, s) \in DeliveryType
<1> USE CallsAssumption, BoundsAssumption
<1>1. feeds[f] \in Profiles
  BY DEF Accept, TypeOK
<1>2. Append(history[f], s) \in Seq(Story) /\ Append(log[f], s) \in Seq(Story)
  BY DEF TypeOK
<1>3. KeepLast(Append(history[f], s), HistoryCapacity) \in Seq(Story)
  BY <1>2, KeepLastProperties
<1>4. Delivery(f, s) \in DeliveryType
  BY <1>1, LenProperties DEF Delivery, DeliveryType, Profile, TypeOK
<1>5. \A q \in Peer : Append(inboxes[q], Delivery(f, s)) \in Seq(DeliveryType)
  BY <1>4 DEF TypeOK
<1>6. QED
  BY <1>1, <1>2, <1>3, <1>4, <1>5 DEF Accept, TypeOK
---------------------------------------------------------------------------
(* Type correctness.                                                       *)

\* The entry a second lock indexes keeps the four maps well typed
\* (index_directory_entry).
LEMMA IndexKeepsTypes ==
    ASSUME TypeOK, NEW e \in Entries, IndexDirectoryEntry(e)
    PROVE  /\ feedAccess' \in [Feed -> Policy \union {None}]
           /\ directory' \subseteq Entries
           /\ orgDirectory' \subseteq Entries
           /\ teamDirectory' \subseteq Entries
<1> USE CallsAssumption DEF TypeOK, IndexDirectoryEntry
<1>1. e.access \in Policy /\ e.feed \in Feed
  BY DEF Entry
<1>2. feedAccess' \in [Feed -> Policy \union {None}]
  BY <1>1
<1>3. directory' \subseteq Entries
  BY DEF IndexByOwner, IndexBy
<1>4. orgDirectory' \subseteq Entries
  BY DEF IndexByOrg, IndexBy
<1>5. teamDirectory' \subseteq Entries
  BY DEF IndexByTeam, IndexBy
<1>6. QED
  BY <1>2, <1>3, <1>4, <1>5

\* Every call, and every second lock, keeps the types.
LEMMA TypeStep == TypeOK /\ [Next]_vars => TypeOK'
<1> SUFFICES ASSUME TypeOK, [Next]_vars
             PROVE  TypeOK'
  OBVIOUS
<1> USE CallsAssumption
<1>1. ASSUME NEW p \in Current, NEW rs \in JoinRoles, JoinFabric(p, rs)
      PROVE  TypeOK'
  <2>1. {"fabric"} \union rs \in SUBSET Role
    BY DEF Role
  <2>2. roles' \in [Peer -> SUBSET Role]
    BY <1>1, <2>1, AddRolesProperties DEF JoinFabric, TypeOK
  <2>3. QED
    BY <1>1, <2>2 DEF JoinFabric, TypeOK, indexes, content
<1>2. ASSUME NEW p \in Current, RegisterBrowserHandoff(p)
      PROVE  TypeOK'
  <2>1. roles' \in [Peer -> SUBSET Role]
    BY <1>2, AddRolesProperties DEF RegisterBrowserHandoff, TypeOK, Role
  <2>2. QED
    BY <1>2, <2>1 DEF RegisterBrowserHandoff, TypeOK, indexes, content
<1>3. ASSUME NEW p \in Current, NEW profile \in Profiles,
             AnnounceFeed(p, profile)
      PROVE  TypeOK'
  <2>1. roles' \in [Peer -> SUBSET Role]
    BY <1>3, AddRolesProperties DEF AnnounceFeed, TypeOK, Role
  <2>2. QED
    BY <1>3, <2>1 DEF AnnounceFeed, TypeOK, indexes, content
<1>4. ASSUME NEW p \in Current, NEW m \in Certificates,
             CertifyGithubOrgAccess(p, m)
      PROVE  TypeOK'
  BY <1>4 DEF CertifyGithubOrgAccess, TypeOK, indexes, content
<1>5. ASSUME NEW p \in Current, NEW e \in Entries,
             AnnounceCheck(p, e) \/ CacheCheck(p, e)
      PROVE  TypeOK'
  <2>1. \E op \in {"announce", "cache"} : Await(op, p, e)
    BY <1>5 DEF AnnounceCheck, CacheCheck
  <2>2. inflight' \subseteq InflightType
    BY <2>1 DEF Await, InflightType, TypeOK
  <2>3. QED
    BY <1>5, <2>2 DEF AnnounceCheck, CacheCheck, TypeOK, indexes, content
<1>6. ASSUME NEW p \in Current, NEW f \in Feed, Follow(p, f)
      PROVE  TypeOK'
  <2>1. roles' \in [Peer -> SUBSET Role]
    BY <1>6, AddRolesProperties DEF Follow, TypeOK, Role
  <2>2. QED
    BY <1>6, <2>1 DEF Follow, TypeOK, indexes, content
<1>7. ASSUME NEW p \in Current, NEW f \in Feed, NEW q \in Current,
             GrantSubscription(p, f, q)
      PROVE  TypeOK'
  BY <1>7 DEF GrantSubscription, TypeOK, indexes, content
<1>8. ASSUME NEW p \in Current, NEW f \in Feed, NEW s \in Story,
             PublishCapsule(p, f, s)
      PROVE  TypeOK'
  BY <1>8, AcceptProperties DEF PublishCapsule, TypeOK, indexes
<1>9. ASSUME NEW p \in Current, NEW f \in Feed, NEW s \in Story,
             TopicCheck(p, f, s)
      PROVE  TypeOK'
  <2>1. inflight' \subseteq InflightType
    BY <1>9 DEF TopicCheck, Await, InflightType, TypeOK
  <2>2. QED
    BY <1>9, <2>1 DEF TopicCheck, TypeOK, indexes, content
<1>10. ASSUME NEW p \in Current, Drain(p)
       PROVE  TypeOK'
  BY <1>10 DEF Drain, TypeOK, indexes
<1>11. ASSUME NEW c \in inflight, IndexEntry(c)
       PROVE  TypeOK'
  <2>1. c.arg \in Entries /\ c.peer \in Peer
    BY <1>11 DEF IndexEntry, TypeOK, InflightType
  <2>2. roles' \in [Peer -> SUBSET Role]
    BY <1>11, <2>1, AddRolesProperties DEF IndexEntry, TypeOK, Role
  <2>3. QED
    BY <1>11, <2>1, <2>2, IndexKeepsTypes DEF IndexEntry, TypeOK, content
<1>12. ASSUME NEW c \in inflight, TopicPublish(c)
       PROVE  TypeOK'
  <2>1. c.arg[1] \in Feed /\ c.arg[2] \in Story
    BY <1>12 DEF TopicPublish, TypeOK, InflightType
  <2>2. CASE Accept(c.peer, c.arg[1], c.arg[2])
    BY <1>12, <2>1, <2>2, AcceptProperties DEF TopicPublish, TypeOK, indexes
  <2>3. CASE UNCHANGED content
    BY <1>12, <2>3 DEF TopicPublish, TypeOK, indexes, content
  <2>4. QED
    BY <1>12, <2>2, <2>3 DEF TopicPublish
<1>13. CASE UNCHANGED vars
  BY <1>13 DEF vars, TypeOK, indexes, content
<1>14. QED
  BY <1>1, <1>2, <1>3, <1>4, <1>5, <1>6, <1>7, <1>8, <1>9, <1>10, <1>11,
     <1>12, <1>13 DEF Next, PeerCall

\* Type correctness: no sequence of calls, of any peers and with any second
\* locks interleaved, leaves a map of NetworkState ill-typed; subscribers and
\* grants are always peers of the current protocol.
THEOREM TypeCorrect == Spec => []TypeOK
<1>1. Init => TypeOK
  BY DEF Init, TypeOK
<1>2. QED
  BY <1>1, TypeStep, PTL DEF Spec
---------------------------------------------------------------------------
(* Every step, seen from the feeds' content: publish_capsule accepts a      *)
(* capsule, drain_feed empties an inbox, and nothing else touches it.       *)

Publishing(p, f, s) ==
    /\ Accept(p, f, s)
    /\ UNCHANGED <<feeds, roles, orgAccess, subscriptions, grants, indexes>>

Draining(p) ==
    /\ inboxes' = [inboxes EXCEPT ![p] = <<>>]
    /\ UNCHANGED <<feeds, roles, orgAccess, subscriptions, grants, indexes,
                   history, log>>

\* Roles, subscriptions and grants only grow (the maps of NetworkState have no
\* removal).
OnlyGrows ==
    /\ \A p \in Peer : roles[p] \subseteq roles'[p]
    /\ \A f \in Feed : subscriptions[f] \subseteq subscriptions'[f]
    /\ grants \subseteq grants'

\* A step publishes, drains, or leaves the content alone.
LEMMA ContentStep ==
    ASSUME TypeOK, [Next]_vars
    PROVE  \/ \E p \in Current, f \in Feed, s \in Story : Publishing(p, f, s)
           \/ \E p \in Current : Draining(p)
           \/ UNCHANGED content
<1>1. ASSUME NEW p \in Current, PeerCall(p)
      PROVE  \/ \E f \in Feed, s \in Story : Publishing(p, f, s)
             \/ Draining(p)
             \/ UNCHANGED content
  BY <1>1 DEF PeerCall, JoinFabric, RegisterBrowserHandoff, AnnounceFeed,
     CertifyGithubOrgAccess, AnnounceCheck, CacheCheck, Follow,
     GrantSubscription, PublishCapsule, TopicCheck, Drain, Publishing, Draining
<1>2. ASSUME NEW c \in inflight, IndexEntry(c)
      PROVE  UNCHANGED content
  BY <1>2 DEF IndexEntry
<1>3. ASSUME NEW c \in inflight, TopicPublish(c)
      PROVE  \/ \E p \in Current, f \in Feed, s \in Story : Publishing(p, f, s)
             \/ UNCHANGED content
  <2>1. c.peer \in Current /\ c.arg[1] \in Feed /\ c.arg[2] \in Story
    BY <1>3 DEF TopicPublish, TypeOK, InflightType
  <2>2. QED
    BY <1>3, <2>1 DEF TopicPublish, Publishing
<1>4. CASE UNCHANGED vars
  BY <1>4 DEF vars
<1>5. QED
  BY <1>1, <1>2, <1>3, <1>4 DEF Next

\* Every step only adds roles, subscriptions and grants.
LEMMA GrowthStep ==
    ASSUME TypeOK, [Next]_vars
    PROVE  OnlyGrows
<1> USE CallsAssumption
<1> USE DEF OnlyGrows
<1>1. ASSUME NEW p \in Peer, NEW rs, AddRoles(p, rs)
      PROVE  \A q \in Peer : roles[q] \subseteq roles'[q]
  BY <1>1 DEF AddRoles, TypeOK
<1>2. ASSUME NEW p \in Current, NEW rs \in JoinRoles, JoinFabric(p, rs)
      PROVE  OnlyGrows
  BY <1>1, <1>2 DEF JoinFabric
<1>3. ASSUME NEW p \in Current, RegisterBrowserHandoff(p)
      PROVE  OnlyGrows
  BY <1>1, <1>3 DEF RegisterBrowserHandoff
<1>4. ASSUME NEW p \in Current, NEW profile \in Profiles,
             AnnounceFeed(p, profile)
      PROVE  OnlyGrows
  BY <1>1, <1>4 DEF AnnounceFeed
<1>5. ASSUME NEW p \in Current, NEW f \in Feed, Follow(p, f)
      PROVE  OnlyGrows
  <2>1. \A g \in Feed : subscriptions[g] \subseteq subscriptions'[g]
    BY <1>5 DEF Follow, TypeOK
  <2>2. QED
    BY <1>1, <1>5, <2>1 DEF Follow
<1>6. ASSUME NEW p \in Current, NEW f \in Feed, NEW q \in Current,
             GrantSubscription(p, f, q)
      PROVE  OnlyGrows
  BY <1>6 DEF GrantSubscription
<1>7. ASSUME NEW c \in inflight, IndexEntry(c)
      PROVE  OnlyGrows
  <2>1. c.peer \in Peer
    BY <1>7 DEF IndexEntry, TypeOK, InflightType
  <2>2. QED
    BY <1>1, <1>7, <2>1 DEF IndexEntry
<1>8. ASSUME \/ \E p \in Current :
                   \/ \E m \in Certificates : CertifyGithubOrgAccess(p, m)
                   \/ \E e \in Entries : AnnounceCheck(p, e) \/ CacheCheck(p, e)
                   \/ \E f \in Feed, s \in Story :
                         PublishCapsule(p, f, s) \/ TopicCheck(p, f, s)
                   \/ Drain(p)
             \/ \E c \in inflight : TopicPublish(c)
             \/ UNCHANGED vars
      PROVE  OnlyGrows
  BY <1>8 DEF CertifyGithubOrgAccess, AnnounceCheck, CacheCheck,
     PublishCapsule, TopicCheck, Drain, TopicPublish, vars
<1>9. QED
  BY <1>2, <1>3, <1>4, <1>5, <1>6, <1>7, <1>8 DEF Next, PeerCall
\* What one publication does to one inbox (the delivery loop of
\* publish_capsule): nothing, or the capsule goes to its end.
LEMMA InboxAfterPublishing ==
    ASSUME TypeOK, NEW p, NEW f \in Feed, NEW s \in Story,
           Publishing(p, f, s), NEW q \in Peer
    PROVE  \/ inboxes'[q] = inboxes[q]
           \/ /\ q \in Receivers(f)
              /\ Len(inboxes'[q]) = Len(inboxes[q]) + 1
              /\ \A i \in 1..Len(inboxes[q]) : inboxes'[q][i] = inboxes[q][i]
              /\ inboxes'[q][Len(inboxes[q]) + 1] = Delivery(f, s)
<1>1. inboxes'[q] = IF q \in Receivers(f)
                    THEN Append(inboxes[q], Delivery(f, s))
                    ELSE inboxes[q]
  BY DEF Publishing, Accept
<1>2. inboxes[q] \in Seq(DeliveryType) /\ Delivery(f, s) \in DeliveryType
  BY AcceptProperties DEF Publishing, TypeOK
<1>3. QED
  BY <1>1, <1>2, AppendProperties

\* What one publication does to the logs.
LEMMA LogAfterPublishing ==
    ASSUME TypeOK, NEW p, NEW f \in Feed, NEW s \in Story,
           Publishing(p, f, s)
    PROVE  /\ log'[f] = Append(log[f], s)
           /\ Len(log[f]) \in Nat
           /\ Len(log'[f]) = Len(log[f]) + 1
           /\ \A i \in 1..Len(log[f]) : log'[f][i] = log[f][i]
           /\ log'[f][Len(log[f]) + 1] = s
           /\ \A g \in Feed : g # f => log'[g] = log[g]
<1>1. log' = [log EXCEPT ![f] = Append(@, s)] /\ log \in [Feed -> Seq(Story)]
  BY DEF Publishing, Accept, TypeOK
<1>2. log[f] \in Seq(Story)
  BY <1>1
<1>3. QED
  BY <1>1, <1>2, AppendProperties, LenProperties

---------------------------------------------------------------------------
(* Delivery only to followers.                                             *)

LEMMA FollowersInit == Init => OnlyFollowersReceive
BY CallsAssumption DEF Init, OnlyFollowersReceive

LEMMA FollowersStep ==
    TypeOK /\ OnlyFollowersReceive /\ [Next]_vars => OnlyFollowersReceive'
<1> SUFFICES ASSUME TypeOK, OnlyFollowersReceive, [Next]_vars
             PROVE  OnlyFollowersReceive'
  OBVIOUS
<1> USE CallsAssumption
<1>1. OnlyGrows
  BY GrowthStep
<1>2. ASSUME NEW f \in Feed, NEW q \in subscriptions'[f]
      PROVE  "subscriber" \in roles'[q]
  <2>1. CASE q \in subscriptions[f]
    <3>1. q \in Peer
      BY <2>1 DEF TypeOK
    <3>2. QED
      BY <1>1, <2>1, <3>1 DEF OnlyGrows, OnlyFollowersReceive
  <2>2. CASE q \notin subscriptions[f]
    <3>1. PICK p \in Current, g \in Feed : Follow(p, g)
      BY <1>2, <2>2 DEF Next, PeerCall, JoinFabric, RegisterBrowserHandoff,
         AnnounceFeed, CertifyGithubOrgAccess, AnnounceCheck, CacheCheck,
         GrantSubscription, PublishCapsule, TopicCheck, Drain, IndexEntry,
         TopicPublish, vars
    <3>2. q = p
      BY <1>2, <2>2, <3>1 DEF Follow, TypeOK
    <3>3. QED
      BY <3>1, <3>2 DEF Follow, AddRoles, TypeOK
  <2>3. QED
    BY <2>1, <2>2
<1>3. ASSUME NEW q \in Peer, NEW i \in 1..Len(inboxes'[q])
      PROVE  q \in subscriptions'[inboxes'[q][i].feed]
  <2>1. inboxes[q] \in Seq(DeliveryType) /\ Len(inboxes[q]) \in Nat
    BY LenProperties DEF TypeOK
  <2>2. CASE inboxes'[q] = inboxes[q]
    <3>1. inboxes[q][i] \in DeliveryType
      BY <1>3, <2>1, <2>2, ElementOfSeq
    <3>2. QED
      BY <1>1, <1>3, <2>2, <3>1 DEF OnlyGrows, OnlyFollowersReceive,
         DeliveryType
  <2>3. CASE inboxes'[q] = <<>>
    BY <1>3, <2>3
  <2>4. ASSUME NEW p \in Current, NEW f \in Feed, NEW s \in Story,
               Publishing(p, f, s), inboxes'[q] # inboxes[q]
        PROVE  q \in subscriptions'[inboxes'[q][i].feed]
    <3>1. /\ q \in Receivers(f)
          /\ Len(inboxes'[q]) = Len(inboxes[q]) + 1
          /\ \A j \in 1..Len(inboxes[q]) : inboxes'[q][j] = inboxes[q][j]
          /\ inboxes'[q][Len(inboxes[q]) + 1] = Delivery(f, s)
      BY <2>4, InboxAfterPublishing
    <3>2. subscriptions' = subscriptions
      BY <2>4 DEF Publishing
    <3>3. CASE i = Len(inboxes[q]) + 1
      BY <3>1, <3>2, <3>3 DEF Receivers, Delivery
    <3>4. CASE i # Len(inboxes[q]) + 1
      <4>1. i \in 1..Len(inboxes[q])
        BY <1>3, <2>1, <3>1, <3>4
      <4>2. QED
        BY <3>1, <3>2, <4>1 DEF OnlyFollowersReceive
    <3>5. QED
      BY <3>3, <3>4
  <2>5. \/ inboxes'[q] = inboxes[q]
        \/ inboxes'[q] = <<>>
        \/ \E p \in Current, f \in Feed, s \in Story : Publishing(p, f, s)
    BY ContentStep DEF Draining, content, TypeOK
  <2>6. QED
    BY <2>2, <2>3, <2>4, <2>5
<1>4. QED
  BY <1>2, <1>3 DEF OnlyFollowersReceive

\* "peers are never subscribed automatically" (README): for every network, a
\* capsule only ever waits in the inbox of a peer that followed its feed by a
\* call of its own, whatever roles it and the others have.
THEOREM OnlyFollowers == Spec => []OnlyFollowersReceive
BY FollowersInit, FollowersStep, TypeCorrect, PTL DEF Spec

---------------------------------------------------------------------------
(* The history ring.                                                       *)

LEMMA HistoryInit == Init => HistoryIsLatest
BY BoundsAssumption DEF Init, HistoryIsLatest, EndOf

\* The ring stays the end of the feed when both grow by one capsule.
LEMMA EndOfAppend ==
    ASSUME NEW h \in Seq(Story), NEW l \in Seq(Story), NEW s \in Story,
           EndOf(h, l)
    PROVE  EndOf(KeepLast(Append(h, s), HistoryCapacity), Append(l, s))
<1> USE BoundsAssumption
<1> DEFINE grown == Append(h, s)
           k == KeepLast(grown, HistoryCapacity)
           l2 == Append(l, s)
           cut == IF Len(grown) > HistoryCapacity
                  THEN Len(grown) - HistoryCapacity ELSE 0
<1>1. Len(h) \in Nat /\ Len(l) \in Nat
  BY LenProperties
<1>2. /\ grown \in Seq(Story)
      /\ Len(grown) = Len(h) + 1
      /\ \A i \in 1..Len(h) : grown[i] = h[i]
      /\ grown[Len(h) + 1] = s
  BY AppendProperties
<1>3. /\ Len(l2) = Len(l) + 1
      /\ \A i \in 1..Len(l) : l2[i] = l[i]
      /\ l2[Len(l) + 1] = s
  BY AppendProperties
<1>4. /\ Len(k) = Len(grown) - cut
      /\ \A i \in 1..Len(k) : k[i] = grown[cut + i]
  BY <1>2, KeepLastProperties
<1>5. /\ Len(h) <= Len(l) /\ Len(h) <= HistoryCapacity
      /\ Len(h) < Len(l) => Len(h) = HistoryCapacity
      /\ \A i \in 1..Len(h) : h[i] = l[Len(l) - Len(h) + i]
  BY DEF EndOf
<1>6. /\ cut \in Nat /\ cut <= Len(grown)
      /\ Len(grown) > HistoryCapacity => Len(grown) - cut = HistoryCapacity
      /\ Len(grown) <= HistoryCapacity => cut = 0
  BY <1>1, <1>2
<1> HIDE DEF grown, k, l2, cut
<1>7. /\ Len(k) <= Len(l2)
      /\ Len(k) <= HistoryCapacity
      /\ Len(k) < Len(l2) => Len(k) = HistoryCapacity
      /\ Len(l2) - Len(k) = Len(l) - Len(h) + cut
      /\ Len(k) \in Nat /\ Len(l2) \in Nat
  BY <1>1, <1>2, <1>3, <1>4, <1>5, <1>6
<1>8. ASSUME NEW i \in 1..Len(k)
      PROVE  k[i] = l2[Len(l2) - Len(k) + i]
  <2>1. k[i] = grown[cut + i] /\ cut + i \in 1..(Len(h) + 1)
    BY <1>1, <1>2, <1>4, <1>6
  <2> DEFINE at == cut + i
  <2>2. Len(l2) - Len(k) + i = Len(l) - Len(h) + at
    BY <1>1, <1>6, <1>7
  <2> HIDE DEF at
  <2>3. CASE at = Len(h) + 1
    <3>1. Len(l2) - Len(k) + i = Len(l) + 1
      BY <1>1, <2>2, <2>3
    <3>2. k[i] = grown[Len(h) + 1]
      BY <2>1, <2>3 DEF at
    <3>3. QED
      BY <1>2, <1>3, <3>1, <3>2
  <2>4. CASE at \in 1..Len(h)
    <3>1. k[i] = l[Len(l) - Len(h) + at]
      BY <1>2, <1>5, <2>1, <2>4 DEF at
    <3>2. Len(l) - Len(h) + at \in 1..Len(l)
      BY <1>1, <1>5, <2>4
    <3>3. QED
      BY <1>3, <2>2, <3>1, <3>2
  <2>5. QED
    BY <1>1, <2>1, <2>3, <2>4 DEF at
<1>9. QED
  BY <1>7, <1>8 DEF EndOf, k, l2, grown

LEMMA HistoryStep ==
    TypeOK /\ HistoryIsLatest /\ [Next]_vars => HistoryIsLatest'
<1> SUFFICES ASSUME TypeOK, HistoryIsLatest, [Next]_vars, NEW g \in Feed
             PROVE  EndOf(history'[g], log'[g])
  BY DEF HistoryIsLatest, EndOf
<1>1. CASE history'[g] = history[g] /\ log'[g] = log[g]
  BY <1>1 DEF HistoryIsLatest
<1>2. ASSUME NEW p \in Current, NEW s \in Story, Publishing(p, g, s)
      PROVE  EndOf(history'[g], log'[g])
  <2>1. /\ history'[g] = KeepLast(Append(history[g], s), HistoryCapacity)
        /\ log'[g] = Append(log[g], s)
    BY <1>2 DEF Publishing, Accept, TypeOK
  <2>2. EndOf(history[g], log[g])
    BY DEF HistoryIsLatest
  <2>3. history[g] \in Seq(Story) /\ log[g] \in Seq(Story)
    BY DEF TypeOK
  <2>4. QED
    BY <2>1, <2>2, <2>3, EndOfAppend
<1>3. \/ history'[g] = history[g] /\ log'[g] = log[g]
      \/ \E p \in Current, s \in Story : Publishing(p, g, s)
  BY ContentStep DEF Publishing, Accept, Draining, content, TypeOK
<1>4. QED
  BY <1>1, <1>2, <1>3

\* The ring that snapshots are served from is the end of the feed for every
\* capacity: a capsule leaves it only when HistoryCapacity newer ones are in.
THEOREM HistoryLatest == Spec => []HistoryIsLatest
BY HistoryInit, HistoryStep, TypeCorrect, PTL DEF Spec
---------------------------------------------------------------------------
(* The order of an inbox.                                                  *)

\* A feed's log only grows, and keeps what it has.
LEMMA LogGrows ==
    ASSUME TypeOK, [Next]_vars, NEW f \in Feed
    PROVE  /\ Len(log[f]) \in Nat /\ Len(log'[f]) \in Nat
           /\ Len(log[f]) <= Len(log'[f])
           /\ \A i \in 1..Len(log[f]) : log'[f][i] = log[f][i]
<1>1. Len(log[f]) \in Nat
  BY LenProperties DEF TypeOK
<1>2. CASE log'[f] = log[f]
  BY <1>1, <1>2
<1>3. CASE log'[f] # log[f]
  <2>1. PICK p \in Current, g \in Feed, s \in Story : Publishing(p, g, s)
    BY <1>3, ContentStep DEF Draining, content
  <2>2. f = g
    BY <1>3, <2>1, LogAfterPublishing
  <2>3. /\ Len(log'[f]) = Len(log[f]) + 1
        /\ \A i \in 1..Len(log[f]) : log'[f][i] = log[f][i]
    BY <2>1, <2>2, LogAfterPublishing
  <2>4. QED
    BY <1>1, <2>3
<1>4. QED
  BY <1>2, <1>3

\* What InboxInOrder says of one inbox b and the logs l.
InOrder(b, l) ==
    \A i \in 1..Len(b) :
        /\ b[i].n \in 1..Len(l[b[i].feed])
        /\ b[i].story = l[b[i].feed][b[i].n]
        /\ \A j \in 1..(i - 1) : b[j].feed = b[i].feed => b[j].n < b[i].n

\* An inbox in order stays so while the logs grow.
LEMMA OrderOutlivesGrowth ==
    ASSUME TypeOK, [Next]_vars, NEW q \in Peer, InOrder(inboxes[q], log)
    PROVE  InOrder(inboxes[q], log')
<1> SUFFICES ASSUME NEW i \in 1..Len(inboxes[q])
             PROVE  LET d == inboxes[q][i] IN
                    /\ d.n \in 1..Len(log'[d.feed])
                    /\ d.story = log'[d.feed][d.n]
  BY DEF InOrder
<1>1. inboxes[q][i] \in DeliveryType
  BY ElementOfSeq DEF TypeOK
<1>2. inboxes[q][i].feed \in Feed
  BY <1>1 DEF DeliveryType
<1>3. PICK g \in Feed : g = inboxes[q][i].feed
  BY <1>2
<1>4. /\ inboxes[q][i].n \in 1..Len(log[g])
      /\ inboxes[q][i].story = log[g][inboxes[q][i].n]
  BY <1>3 DEF InOrder
<1>5. /\ Len(log[g]) \in Nat /\ Len(log'[g]) \in Nat
      /\ Len(log[g]) <= Len(log'[g])
      /\ \A k \in 1..Len(log[g]) : log'[g][k] = log[g][k]
  BY LogGrows
<1>6. inboxes[q][i].n \in 1..Len(log'[g])
  BY <1>4, <1>5
<1>7. log'[g][inboxes[q][i].n] = inboxes[q][i].story
  BY <1>4, <1>5
<1>8. QED
  BY <1>3, <1>6, <1>7

LEMMA OrderInit == Init => InboxInOrder
BY DEF Init, InboxInOrder

LEMMA OrderStep ==
    TypeOK /\ InboxInOrder /\ [Next]_vars => InboxInOrder'
<1> SUFFICES ASSUME TypeOK, InboxInOrder, [Next]_vars, NEW q \in Peer
             PROVE  InOrder(inboxes'[q], log')
  BY DEF InboxInOrder, InOrder
<1>1. InOrder(inboxes[q], log)
  BY DEF InboxInOrder, InOrder
<1>2. inboxes[q] \in Seq(DeliveryType) /\ Len(inboxes[q]) \in Nat
  BY LenProperties DEF TypeOK
<1>3. InOrder(inboxes[q], log')
  BY <1>1, OrderOutlivesGrowth
<1>4. CASE inboxes'[q] = inboxes[q]
  BY <1>3, <1>4
<1>5. CASE inboxes'[q] = <<>>
  BY <1>5 DEF InOrder
<1>6. ASSUME NEW p \in Current, NEW f \in Feed, NEW s \in Story,
             Publishing(p, f, s), inboxes'[q] # inboxes[q]
      PROVE  InOrder(inboxes'[q], log')
  <2>1. /\ Len(inboxes'[q]) = Len(inboxes[q]) + 1
        /\ \A j \in 1..Len(inboxes[q]) : inboxes'[q][j] = inboxes[q][j]
        /\ inboxes'[q][Len(inboxes[q]) + 1] = Delivery(f, s)
    BY <1>6, InboxAfterPublishing
  <2>2. /\ Len(log[f]) \in Nat /\ Len(log'[f]) = Len(log[f]) + 1
        /\ log'[f][Len(log[f]) + 1] = s
    BY <1>6, LogAfterPublishing
  <2>3. /\ Delivery(f, s).feed = f /\ Delivery(f, s).story = s
        /\ Delivery(f, s).n = Len(log[f]) + 1
    BY DEF Delivery
  <2>4. ASSUME NEW i \in 1..Len(inboxes'[q])
        PROVE  /\ inboxes'[q][i].n \in 1..Len(log'[inboxes'[q][i].feed])
               /\ inboxes'[q][i].story =
                     log'[inboxes'[q][i].feed][inboxes'[q][i].n]
               /\ \A j \in 1..(i - 1) :
                     inboxes'[q][j].feed = inboxes'[q][i].feed =>
                         inboxes'[q][j].n < inboxes'[q][i].n
    <3>1. CASE i \in 1..Len(inboxes[q])
      <4>1. \A j \in 1..(i - 1) : j \in 1..Len(inboxes[q])
        BY <1>2, <3>1
      <4>2. QED
        BY <1>3, <2>1, <3>1, <4>1 DEF InOrder
    <3>2. CASE i = Len(inboxes[q]) + 1
      <4>1. ASSUME NEW j \in 1..(i - 1), inboxes[q][j].feed = f
            PROVE  inboxes[q][j].n < Len(log[f]) + 1
        <5>1. j \in 1..Len(inboxes[q])
          BY <1>2, <3>2
        <5>2. inboxes[q][j].n \in 1..Len(log[f])
          BY <1>1, <4>1, <5>1 DEF InOrder
        <5>3. QED
          BY <2>2, <5>2
      <4>2. \A j \in 1..(i - 1) : inboxes'[q][j] = inboxes[q][j]
        BY <1>2, <2>1, <3>2
      <4>3. inboxes'[q][i] = Delivery(f, s)
        BY <2>1, <3>2
      <4>4. inboxes'[q][i].feed = f /\ inboxes'[q][i].story = s
            /\ inboxes'[q][i].n = Len(log[f]) + 1
        BY <2>3, <4>3
      <4>5. Len(log[f]) + 1 \in 1..Len(log'[f])
        BY <2>2
      <4>6. ASSUME NEW j \in 1..(i - 1), inboxes'[q][j].feed = f
            PROVE  inboxes'[q][j].n < Len(log[f]) + 1
        BY <4>1, <4>2, <4>6
      <4>7. QED
        BY <2>2, <4>4, <4>5, <4>6
    <3>3. i \in 1..Len(inboxes[q]) \/ i = Len(inboxes[q]) + 1
      BY <1>2, <2>1
    <3>4. QED
      BY <3>1, <3>2, <3>3
  <2>5. QED
    BY <2>4 DEF InOrder
<1>7. \/ inboxes'[q] = inboxes[q]
      \/ inboxes'[q] = <<>>
      \/ \E p \in Current, f \in Feed, s \in Story : Publishing(p, f, s)
  BY ContentStep DEF Draining, content, TypeOK
<1>8. QED
  BY <1>4, <1>5, <1>6, <1>7

\* For every network and any number of peers and publishers, what waits in an
\* inbox is, feed by feed, in the order of the feed's log and none of it twice,
\* also with publications decided under an earlier lock than they are made.
THEOREM DeliveredInOrder == Spec => []InboxInOrder
BY OrderInit, OrderStep, TypeCorrect, PTL DEF Spec

---------------------------------------------------------------------------
(* Repeats.                                                                *)

LEMMA RepeatInit == Init => NoRecentRepeat
BY DEF Init, NoRecentRepeat

\* What is not a repeat of the ring's latest is none of the log's: the window
\* is no longer than the ring, and the ring is the end of the log.
LEMMA RingShowsRepeats ==
    ASSUME TypeOK, HistoryIsLatest, NEW f \in Feed, NEW s \in Story \ Urgent,
           ~IsRepeat(f, s),
           NEW i \in 1..Len(log[f]), Len(log[f]) + 1 <= i + RepeatWindow
    PROVE  <<log[f][i], s>> \notin Repeats
<1> USE BoundsAssumption
<1> DEFINE h == history[f]
           l == log[f]
           at == i - (Len(l) - Len(h))
<1>1. Len(h) \in Nat /\ Len(l) \in Nat
  BY LenProperties DEF TypeOK
<1>2. /\ Len(h) <= Len(l) /\ Len(h) <= HistoryCapacity
      /\ Len(h) < Len(l) => Len(h) = HistoryCapacity
      /\ \A k \in 1..Len(h) : h[k] = l[Len(l) - Len(h) + k]
  BY DEF HistoryIsLatest, EndOf
<1>3. ~(\E k \in 1..Len(h) : /\ k + RepeatWindow > Len(h)
                            /\ <<h[k], s>> \in Repeats)
  BY DEF IsRepeat
<1> HIDE DEF h, l
<1>4. i \in 1..Len(l) /\ Len(l) + 1 <= i + RepeatWindow
  BY DEF l
<1>5. at \in 1..Len(h) /\ at + RepeatWindow > Len(h)
  BY <1>1, <1>2, <1>4
<1>6. h[at] = l[i]
  BY <1>1, <1>2, <1>4, <1>5
<1>7. QED
  BY <1>3, <1>5, <1>6 DEF l

LEMMA RepeatStep ==
    TypeOK /\ HistoryIsLatest /\ NoRecentRepeat /\ [Next]_vars
        => NoRecentRepeat'
<1> SUFFICES ASSUME TypeOK, HistoryIsLatest, NoRecentRepeat, [Next]_vars,
                    NEW f \in Feed,
                    NEW i \in 1..Len(log'[f]), NEW j \in 1..Len(log'[f]),
                    i < j, j <= i + RepeatWindow, log'[f][j] \notin Urgent
             PROVE  <<log'[f][i], log'[f][j]>> \notin Repeats
  BY DEF NoRecentRepeat
<1> USE BoundsAssumption
<1>1. CASE log'[f] = log[f]
  BY <1>1 DEF NoRecentRepeat
<1>2. CASE log'[f] # log[f]
  <2>1. PICK p \in Current, g \in Feed, s \in Story : Publishing(p, g, s)
    BY <1>2, ContentStep DEF Draining, content
  <2>2. f = g
    BY <1>2, <2>1, LogAfterPublishing
  <2>3. /\ Len(log[f]) \in Nat /\ Len(log'[f]) = Len(log[f]) + 1
        /\ \A k \in 1..Len(log[f]) : log'[f][k] = log[f][k]
        /\ log'[f][Len(log[f]) + 1] = s
    BY <2>1, <2>2, LogAfterPublishing
  <2>4. i \in 1..Len(log[f])
    BY <2>3
  <2>5. CASE j \in 1..Len(log[f])
    BY <2>3, <2>4, <2>5 DEF NoRecentRepeat
  <2>6. CASE j = Len(log[f]) + 1
    <3>1. s \notin Urgent /\ ~IsRepeat(f, s)
      BY <2>1, <2>2, <2>3, <2>6 DEF Publishing, Accept
    <3>2. QED
      BY <2>3, <2>4, <2>6, <3>1, RingShowsRepeats
  <2>7. QED
    BY <2>3, <2>5, <2>6
<1>3. QED
  BY <1>1, <1>2

\* "p2p capsule suppressed as duplicate": whatever the ring's capacity and the
\* comparison window, a capsule below the urgent score never follows one it
\* repeats within that window, also when the ring was trimmed in between.
THEOREM RepeatsSuppressed == Spec => []NoRecentRepeat
BY RepeatInit, RepeatStep, HistoryLatest, TypeCorrect, PTL DEF Spec

---------------------------------------------------------------------------
(* Admission.                                                              *)

\* Whoever was certified stays certified for something, and a feed with a
\* policy keeps one (the maps of NetworkState have no removal).
LEMMA KnownStays ==
    ASSUME TypeOK, [Next]_vars
    PROVE  /\ \A q \in Peer : orgAccess[q] # None => orgAccess'[q] # None
           /\ \A f \in Feed : feedAccess[f] # None => feedAccess'[f] # None
<1> USE CallsAssumption, NoneAssumption
<1>1. ASSUME NEW p \in Current, NEW m \in Certificates,
             CertifyGithubOrgAccess(p, m)
      PROVE  /\ \A q \in Peer : orgAccess[q] # None => orgAccess'[q] # None
             /\ UNCHANGED feedAccess
  BY <1>1 DEF CertifyGithubOrgAccess, TypeOK, indexes
<1>2. ASSUME NEW c \in inflight, IndexEntry(c)
      PROVE  /\ \A f \in Feed : feedAccess[f] # None => feedAccess'[f] # None
             /\ UNCHANGED orgAccess
  <2>1. c.arg \in Entries
    BY <1>2 DEF IndexEntry, TypeOK, InflightType
  <2>2. c.arg.access \in Policy
    BY <2>1 DEF Entry
  <2>3. QED
    BY <1>2, <2>2 DEF IndexEntry, IndexDirectoryEntry, TypeOK
<1>3. ASSUME \/ \E p \in Current :
                   \/ \E rs \in JoinRoles : JoinFabric(p, rs)
                   \/ RegisterBrowserHandoff(p)
                   \/ \E profile \in Profiles : AnnounceFeed(p, profile)
                   \/ \E e \in Entries : AnnounceCheck(p, e) \/ CacheCheck(p, e)
                   \/ \E f \in Feed : Follow(p, f)
                   \/ \E f \in Feed, q \in Current : GrantSubscription(p, f, q)
                   \/ \E f \in Feed, s \in Story :
                         PublishCapsule(p, f, s) \/ TopicCheck(p, f, s)
                   \/ Drain(p)
             \/ \E c \in inflight : TopicPublish(c)
             \/ UNCHANGED vars
      PROVE  UNCHANGED <<orgAccess, feedAccess>>
  BY <1>3 DEF JoinFabric, RegisterBrowserHandoff, AnnounceFeed, AnnounceCheck,
     CacheCheck, Follow, GrantSubscription, PublishCapsule, TopicCheck, Drain,
     TopicPublish, vars, indexes
<1>4. QED
  BY <1>1, <1>2, <1>3 DEF Next, PeerCall

\* What PrivateNeedsAdmission says of one delivery in the inbox of q, for the
\* grants gs, the memberships ms and the policies ps.
AdmittedFor(q, d, gs, ms, ps) ==
    d.vis # "public" => \/ <<d.feed, q>> \in gs
                        \/ ms[q] # None /\ ps[d.feed] # None

AdmittedNow(q, d) == AdmittedFor(q, d, grants, orgAccess, feedAccess)

AdmittedThen(q, d) == AdmittedFor(q, d, grants', orgAccess', feedAccess')

LEMMA AdmissionInit == Init => PrivateNeedsAdmission
BY DEF Init, PrivateNeedsAdmission

LEMMA AdmissionStep ==
    TypeOK /\ PrivateNeedsAdmission /\ [Next]_vars => PrivateNeedsAdmission'
<1> SUFFICES ASSUME TypeOK, PrivateNeedsAdmission, [Next]_vars,
                    NEW q \in Peer, NEW i \in 1..Len(inboxes'[q])
             PROVE  AdmittedThen(q, inboxes'[q][i])
  BY DEF PrivateNeedsAdmission, AdmittedNow, AdmittedThen, AdmittedFor
<1>1. inboxes[q] \in Seq(DeliveryType) /\ Len(inboxes[q]) \in Nat
  BY LenProperties DEF TypeOK
<1>2. ASSUME NEW d \in DeliveryType, AdmittedNow(q, d)
      PROVE  AdmittedThen(q, d)
  <2>1. d.feed \in Feed
    BY DEF DeliveryType
  <2>2. QED
    BY <1>2, <2>1, KnownStays, GrowthStep
       DEF AdmittedNow, AdmittedThen, AdmittedFor, OnlyGrows
<1>3. ASSUME NEW j \in 1..Len(inboxes[q]), inboxes'[q][i] = inboxes[q][j]
      PROVE  AdmittedThen(q, inboxes'[q][i])
  <2>1. inboxes[q][j] \in DeliveryType
    BY <1>1, ElementOfSeq
  <2>2. AdmittedNow(q, inboxes[q][j])
    BY DEF PrivateNeedsAdmission, AdmittedNow, AdmittedThen, AdmittedFor
  <2>3. PICK d \in DeliveryType : d = inboxes[q][j] /\ AdmittedNow(q, d)
    BY <2>1, <2>2
  <2>4. AdmittedThen(q, d)
    BY <1>2, <2>3
  <2>5. inboxes'[q][i] = d
    BY <1>3, <2>3
  <2>6. QED
    BY <2>4, <2>5 DEF AdmittedThen, AdmittedFor
<1>4. CASE inboxes'[q] = inboxes[q]
  BY <1>3, <1>4
<1>5. CASE inboxes'[q] = <<>>
  BY <1>5
<1>6. ASSUME NEW p \in Current, NEW f \in Feed, NEW s \in Story,
             Publishing(p, f, s), inboxes'[q] # inboxes[q]
      PROVE  AdmittedThen(q, inboxes'[q][i])
  <2>1. /\ q \in Receivers(f)
        /\ Len(inboxes'[q]) = Len(inboxes[q]) + 1
        /\ \A j \in 1..Len(inboxes[q]) : inboxes'[q][j] = inboxes[q][j]
        /\ inboxes'[q][Len(inboxes[q]) + 1] = Delivery(f, s)
    BY <1>6, InboxAfterPublishing
  <2>2. CASE i \in 1..Len(inboxes[q])
    BY <1>3, <2>1, <2>2
  <2>3. CASE i = Len(inboxes[q]) + 1
    <3>1. /\ inboxes'[q][i].feed = f
          /\ inboxes'[q][i].vis = feeds[f].vis
      BY <2>1, <2>3 DEF Delivery
    <3>2. feeds[f].vis # "public" =>
             \/ <<f, q>> \in grants
             \/ orgAccess[q] # None /\ feedAccess[f] # None
      BY <2>1 DEF Receivers, Admitted, Holds
    <3>3. UNCHANGED <<grants, orgAccess, feedAccess>>
      BY <1>6 DEF Publishing, indexes
    <3>4. QED
      BY <3>1, <3>2, <3>3 DEF AdmittedThen, AdmittedFor
  <2>4. QED
    BY <1>1, <2>1, <2>2, <2>3
<1>7. \/ inboxes'[q] = inboxes[q]
      \/ inboxes'[q] = <<>>
      \/ \E p \in Current, f \in Feed, s \in Story : Publishing(p, f, s)
  BY ContentStep DEF Draining, content, TypeOK
<1>8. QED
  BY <1>4, <1>5, <1>6, <1>7

\* Whatever visibilities, memberships and policies a feed and its followers go
\* through, a capsule published while its feed was not public waits only for
\* peers that were granted the feed or certified for an organisation.
THEOREM AdmissionNeeded == Spec => []PrivateNeedsAdmission
BY AdmissionInit, AdmissionStep, TypeCorrect, PTL DEF Spec

---------------------------------------------------------------------------
(* The refinement: the network implements FeedBus.                         *)

LEMMA BusInit == Init => Bus!Init
<1> SUFFICES ASSUME Init
             PROVE  mail = [p \in Peer |-> <<>>]
  BY DEF Init, Bus!Init
<1>1. ASSUME NEW p \in Peer
      PROVE  mail[p] = <<>>
  BY DEF Init, mail
<1>2. QED
  BY <1>1 DEF mail

\* What one inbox is as mail, and what an appended capsule makes of it.
MailOf(b) == [i \in 1..Len(b) |-> <<b[i].feed, b[i].n>>]

LEMMA MailAppend ==
    ASSUME NEW b \in Seq(DeliveryType), NEW d \in DeliveryType
    PROVE  MailOf(Append(b, d)) = Append(MailOf(b), <<d.feed, d.n>>)
<1>1. /\ Len(b) \in Nat
      /\ Append(b, d) \in Seq(DeliveryType)
      /\ Len(Append(b, d)) = Len(b) + 1
      /\ \A i \in 1..Len(b) : Append(b, d)[i] = b[i]
      /\ Append(b, d)[Len(b) + 1] = d
  BY AppendProperties, LenProperties
<1>2. \A i \in 1..Len(b) : b[i] \in DeliveryType
  BY ElementOfSeq
<1>3. MailOf(b) \in Seq(Feed \X Nat) /\ Len(MailOf(b)) = Len(b)
  BY <1>1, <1>2 DEF MailOf, DeliveryType
<1>4. <<d.feed, d.n>> \in Feed \X Nat
  BY DEF DeliveryType
<1>5. /\ Append(MailOf(b), <<d.feed, d.n>>) \in Seq(Feed \X Nat)
      /\ Len(Append(MailOf(b), <<d.feed, d.n>>)) = Len(b) + 1
      /\ \A i \in 1..Len(b) :
            Append(MailOf(b), <<d.feed, d.n>>)[i] = MailOf(b)[i]
      /\ Append(MailOf(b), <<d.feed, d.n>>)[Len(b) + 1] = <<d.feed, d.n>>
  BY <1>3, <1>4, AppendProperties
<1>6. /\ MailOf(Append(b, d)) \in Seq(Feed \X Nat)
      /\ Len(MailOf(Append(b, d))) = Len(b) + 1
  <2>1. \A i \in 1..(Len(b) + 1) : Append(b, d)[i] \in DeliveryType
    BY <1>1, ElementOfSeq
  <2>2. QED
    BY <1>1, <2>1 DEF MailOf, DeliveryType
<1>7. ASSUME NEW i \in 1..(Len(b) + 1)
      PROVE  MailOf(Append(b, d))[i] = Append(MailOf(b), <<d.feed, d.n>>)[i]
  <2>1. MailOf(Append(b, d))[i] = <<Append(b, d)[i].feed, Append(b, d)[i].n>>
    BY <1>1 DEF MailOf
  <2>2. CASE i \in 1..Len(b)
    BY <1>1, <1>5, <2>1, <2>2 DEF MailOf
  <2>3. CASE i = Len(b) + 1
    BY <1>1, <1>5, <2>1, <2>3
  <2>4. Len(b) \in Nat
    BY <1>1
  <2>5. i \in 1..Len(b) \/ i = Len(b) + 1
    BY <2>4
  <2>6. QED
    BY <2>2, <2>3, <2>5
<1>8. Len(MailOf(Append(b, d))) = Len(Append(MailOf(b), <<d.feed, d.n>>))
  BY <1>5, <1>6
<1>9. \A i \in 1..Len(MailOf(Append(b, d))) :
         MailOf(Append(b, d))[i] = Append(MailOf(b), <<d.feed, d.n>>)[i]
  BY <1>6, <1>7
<1>10. QED
  BY <1>5, <1>6, <1>8, <1>9, SeqEqual, Zenon

\* Every step of the network is one of the bus or leaves it alone: an accepted
\* capsule is a Publish to the admitted subscribers, a drain a Take.
LEMMA BusStep == TypeOK /\ [Next]_vars => [Bus!Next]_(Bus!vars)
<1> SUFFICES ASSUME TypeOK, [Next]_vars
             PROVE  [Bus!Next]_(Bus!vars)
  OBVIOUS
<1> USE CallsAssumption
<1>1. mail = [p \in Peer |-> MailOf(inboxes[p])]
  BY DEF mail, MailOf
<1>2. mail' = [p \in Peer |-> MailOf(inboxes'[p])]
  BY DEF mail, MailOf
<1>3. ASSUME NEW p \in Current, NEW f \in Feed, NEW s \in Story,
             Publishing(p, f, s)
      PROVE  Bus!Next
  <2>1. Receivers(f) \in SUBSET subscriptions[f]
    BY DEF Receivers
  <2>2. log' = [log EXCEPT ![f] = Append(@, s)] /\ UNCHANGED subscriptions
    BY <1>3 DEF Publishing, Accept
  <2>3. ASSUME NEW q \in Peer
        PROVE  MailOf(inboxes'[q]) =
                  IF q \in Receivers(f)
                  THEN Append(MailOf(inboxes[q]), <<f, Len(log[f]) + 1>>)
                  ELSE MailOf(inboxes[q])
    <3>1. inboxes'[q] = IF q \in Receivers(f)
                        THEN Append(inboxes[q], Delivery(f, s))
                        ELSE inboxes[q]
      BY <1>3 DEF Publishing, Accept
    <3>2. inboxes[q] \in Seq(DeliveryType) /\ Delivery(f, s) \in DeliveryType
      BY <1>3, AcceptProperties DEF Publishing, TypeOK
    <3>3. Delivery(f, s).feed = f /\ Delivery(f, s).n = Len(log[f]) + 1
      BY DEF Delivery
    <3>4. MailOf(Append(inboxes[q], Delivery(f, s))) =
             Append(MailOf(inboxes[q]), <<f, Len(log[f]) + 1>>)
      BY <3>2, <3>3, MailAppend
    <3>5. QED
      BY <3>1, <3>4
  <2>4. mail' = [q \in Peer |->
                    IF q \in Receivers(f)
                    THEN Append(mail[q], <<f, Len(log[f]) + 1>>)
                    ELSE mail[q]]
    BY <1>1, <1>2, <2>3
  <2>5. Bus!Publish(f, s, Receivers(f))
    BY <2>2, <2>4 DEF Bus!Publish
  <2>6. QED
    BY <2>1, <2>5 DEF Bus!Next
<1>4. ASSUME NEW p \in Current, Draining(p)
      PROVE  Bus!Next
  <2>1. p \in Peer /\ inboxes' = [inboxes EXCEPT ![p] = <<>>]
    BY <1>4 DEF Draining
  <2>2. MailOf(<<>>) = <<>>
    BY DEF MailOf
  <2>3. mail' = [mail EXCEPT ![p] = <<>>]
    BY <1>1, <1>2, <2>1, <2>2 DEF TypeOK
  <2>4. Bus!Take(p)
    BY <1>4, <2>3 DEF Draining, Bus!Take
  <2>5. QED
    BY <2>1, <2>4 DEF Bus!Next
<1>5. CASE UNCHANGED content
  <2>1. UNCHANGED <<log, mail>>
    BY <1>1, <1>2, <1>5 DEF content
  <2>2. ASSUME NEW p \in Current, NEW f \in Feed, Follow(p, f)
        PROVE  Bus!Next
    <3>1. Bus!Follow(p, f)
      BY <2>1, <2>2 DEF Follow, Bus!Follow
    <3>2. QED
      BY <3>1 DEF Bus!Next
  <2>3. \/ \E p \in Current, f \in Feed : Follow(p, f)
        \/ UNCHANGED subscriptions
    BY DEF Next, PeerCall, JoinFabric, RegisterBrowserHandoff, AnnounceFeed,
       CertifyGithubOrgAccess, AnnounceCheck, CacheCheck, GrantSubscription,
       PublishCapsule, TopicCheck, Drain, IndexEntry, TopicPublish, vars
  <2>4. QED
    BY <2>1, <2>2, <2>3 DEF Bus!vars
<1>6. QED
  BY <1>3, <1>4, <1>5, ContentStep

\* The network implements the bus for every set of peers, feeds and stories,
\* every capacity and any number of calls between their two locks: a feed is a
\* log, and a follower is handed its publications in the log's order.
THEOREM Implements == Spec => ImplementsBus
BY BusInit, BusStep, TypeCorrect, PTL DEF Spec, ImplementsBus, Bus!Spec

---------------------------------------------------------------------------
(* The runtime.  Lemmas about sums.                                        *)

LEMMA CellsAre ==
    ASSUME NEW f, NEW x
    PROVE  x \in Cells(f) <=>
               \E y \in DOMAIN f : \E k \in 1..f[y] : x = <<y, k>>
BY DEF Cells

\* A function with one more value.
LEMMA TotalOfMore ==
    ASSUME NEW f, NEW g, NEW x, x \notin DOMAIN f, DOMAIN g = DOMAIN f \union {x},
           \A y \in DOMAIN f : g[y] = f[y], g[x] \in Nat, IsFiniteSet(Cells(f))
    PROVE  IsFiniteSet(Cells(g)) /\ Total(g) = Total(f) + g[x]
<1>. DEFINE New == {x} \X (1..g[x])
<1>1. Cells(g) = Cells(f) \union New
  <2>1. \A z : z \in Cells(g) <=> (\E y \in DOMAIN g : \E k \in 1..g[y] : z = <<y, k>>)
    BY CellsAre
  <2>2. \A z : z \in Cells(f) <=> (\E y \in DOMAIN f : \E k \in 1..f[y] : z = <<y, k>>)
    BY CellsAre
  <2>3. \A z : z \in New <=> \E k \in 1..g[x] : z = <<x, k>>
    OBVIOUS
  <2>. HIDE DEF New
  <2>. QED  BY <2>1, <2>2, <2>3
<1>2. Cells(f) \intersect New = {}
  <2>1. \A z \in Cells(f) : \E y \in DOMAIN f : \E k \in 1..f[y] : z = <<y, k>>
    BY CellsAre
  <2>. QED  BY <2>1
<1>3. IsFiniteSet(New) /\ Cardinality(New) = g[x]
  <2>1. IsFiniteSet(1..g[x]) /\ Cardinality(1..g[x]) = g[x]
    BY FS_Interval
  <2>2. IsFiniteSet({x}) /\ Cardinality({x}) = 1
    BY FS_Singleton
  <2>. QED  BY <2>1, <2>2, FS_Product
<1>4. Cardinality(Cells(f)) \in Nat
  BY FS_CardinalityType
<1>. HIDE DEF New
<1>5. /\ IsFiniteSet(Cells(f) \union New)
      /\ Cardinality(Cells(f) \union New) =
            Cardinality(Cells(f)) + Cardinality(New) - Cardinality({})
  BY <1>2, <1>3, FS_Union
<1>. QED  BY <1>1, <1>3, <1>4, <1>5, FS_EmptySet DEF Total

\* A function that grows by one at the places of R.
LEMMA TotalOfGrown ==
    ASSUME NEW f, NEW g, NEW R \in SUBSET DOMAIN f, IsFiniteSet(R),
           DOMAIN g = DOMAIN f, \A y \in DOMAIN f : f[y] \in Nat,
           \A y \in DOMAIN f : g[y] = IF y \in R THEN f[y] + 1 ELSE f[y],
           IsFiniteSet(Cells(f))
    PROVE  /\ IsFiniteSet(Cells(g)) /\ Total(g) = Total(f) + Cardinality(R)
           /\ \A x : x \in Cells(g) <=>
                       (x \in Cells(f) \/ (\E y \in R : x = <<y, f[y] + 1>>))
<1>. DEFINE New == {<<y, f[y] + 1>> : y \in R}
<1>1. Cells(g) = Cells(f) \union New
  <2>1. \A z : z \in Cells(g) <=> (\E y \in DOMAIN g : \E k \in 1..g[y] : z = <<y, k>>)
    BY CellsAre
  <2>2. \A z : z \in Cells(f) <=> (\E y \in DOMAIN f : \E k \in 1..f[y] : z = <<y, k>>)
    BY CellsAre
  <2>3. ASSUME NEW z \in Cells(g) PROVE z \in Cells(f) \/ z \in New
    <3>1. PICK y, k : y \in DOMAIN f /\ k \in 1..g[y] /\ z = <<y, k>>
      BY <2>1, <2>3
    <3>2. k \in 1..f[y] \/ (y \in R /\ k = f[y] + 1)
      BY <3>1
    <3>. QED  BY <2>2, <3>1, <3>2
  <2>4. ASSUME NEW z \in Cells(f) PROVE z \in Cells(g)
    <3>1. PICK y, k : y \in DOMAIN f /\ k \in 1..f[y] /\ z = <<y, k>>
      BY <2>2, <2>4
    <3>2. k \in 1..g[y]
      BY <3>1
    <3>. QED  BY <2>1, <3>1, <3>2
  <2>5. ASSUME NEW y \in R PROVE <<y, f[y] + 1>> \in Cells(g)
    <3>1. f[y] + 1 \in 1..g[y]
      BY <2>5
    <3>. QED  BY <2>1, <3>1
  <2>. QED  BY <2>3, <2>4, <2>5
<1>2. Cells(f) \intersect New = {}
  <2>1. ASSUME NEW z \in Cells(f), NEW y \in R, z = <<y, f[y] + 1>>
        PROVE  FALSE
    <3>1. PICK x, k : x \in DOMAIN f /\ k \in 1..f[x] /\ z = <<x, k>>
      BY <2>1, CellsAre
    <3>2. x = y /\ k = f[y] + 1
      BY <2>1, <3>1
    <3>. QED  BY <3>1, <3>2
  <2>. QED  BY <2>1
<1>3. IsFiniteSet(New) /\ Cardinality(New) = Cardinality(R)
  <2>. DEFINE b == [y \in R |-> <<y, f[y] + 1>>]
  <2>1. b \in Bijection(R, New)
    BY DEF Bijection, Injection, Surjection, IsInjective
  <2>2. ExistsBijection(R, New)
    BY <2>1 DEF ExistsBijection
  <2>. QED  BY <2>2, FS_Bijection
<1>4. Cardinality(Cells(f)) \in Nat /\ Cardinality(R) \in Nat
  BY FS_CardinalityType
<1>5. \A x : x \in New <=> \E y \in R : x = <<y, f[y] + 1>>
  OBVIOUS
<1>. HIDE DEF New
<1>6. /\ IsFiniteSet(Cells(f) \union New)
      /\ Cardinality(Cells(f) \union New) =
            Cardinality(Cells(f)) + Cardinality(New) - Cardinality({})
  BY <1>2, <1>3, FS_Union
<1>. QED  BY <1>1, <1>3, <1>4, <1>5, <1>6, FS_EmptySet DEF Total

---------------------------------------------------------------------------
(* Batches.                                                                *)

Batches == Seq(Seq(DeliveryType))

\* The places of batches: of one more capsule in the last batch, and of an
\* empty batch more.
LEMMA PlacesAre ==
    ASSUME NEW bs \in Batches, NEW x
    PROVE  x \in Places(bs) <=>
               \E b \in 1..Len(bs) : \E i \in 1..Len(bs[b]) : x = <<b, i>>
<1>1. DOMAIN bs = 1..Len(bs)
  BY LenProperties DEF Batches
<1>. DEFINE f == Lengths(bs)
<1>2. DOMAIN f = 1..Len(bs) /\ \A b \in 1..Len(bs) : f[b] = Len(bs[b])
  BY <1>1 DEF Lengths
<1>. HIDE DEF f
<1>3. x \in Cells(f) <=> \E b \in DOMAIN f : \E i \in 1..f[b] : x = <<b, i>>
  BY CellsAre
<1>. QED  BY <1>2, <1>3 DEF Places, f

LEMMA PlacesOfMore ==
    ASSUME NEW bs \in Batches, IsFiniteSet(Places(bs))
    PROVE  /\ Places(Append(bs, <<>>)) = Places(bs)
           /\ Append(bs, <<>>) \in Batches
           /\ \A x \in Places(bs) : Append(bs, <<>>)[x[1]][x[2]] = bs[x[1]][x[2]]
<1>1. <<>> \in Seq(DeliveryType) /\ Len(bs) \in Nat
  BY LenProperties DEF Batches
<1>2. PICK c : c = Append(bs, <<>>)
  OBVIOUS
<1>3. /\ c \in Batches /\ Len(c) = Len(bs) + 1
      /\ \A b \in 1..Len(bs) : c[b] = bs[b]
      /\ c[Len(bs) + 1] = <<>>
  BY <1>1, <1>2, AppendProperties DEF Batches
<1>4. ASSUME NEW x
      PROVE  x \in Places(c) <=> x \in Places(bs)
  <2>1. x \in Places(c) <=> \E b \in 1..Len(c) : \E i \in 1..Len(c[b]) : x = <<b, i>>
    BY <1>3, PlacesAre
  <2>2. x \in Places(bs) <=> \E b \in 1..Len(bs) : \E i \in 1..Len(bs[b]) : x = <<b, i>>
    BY PlacesAre
  <2>3. Len(c[Len(bs) + 1]) = 0
    BY <1>3
  <2>4. \A b \in 1..Len(c) : b \in 1..Len(bs) \/ b = Len(bs) + 1
    BY <1>1, <1>3
  <2>5. \A b \in 1..Len(bs) : b \in 1..Len(c) /\ c[b] = bs[b]
    BY <1>1, <1>3
  <2>6. \A i \in 1..Len(c[Len(bs) + 1]) : FALSE
    BY <2>3
  <2>. QED  BY <2>1, <2>2, <2>4, <2>5, <2>6
<1>5. ASSUME NEW x \in Places(bs)
      PROVE  c[x[1]][x[2]] = bs[x[1]][x[2]]
  <2>1. PICK b, i : b \in 1..Len(bs) /\ i \in 1..Len(bs[b]) /\ x = <<b, i>>
    BY <1>5, PlacesAre
  <2>. QED  BY <1>3, <2>1
<1>. QED  BY <1>2, <1>3, <1>4, <1>5

\* The last batch, of number n, got an m-th element.
LastGrew(old, new, n, m) ==
    /\ Len(old) = n /\ Len(new) = n /\ n # 0
    /\ \A b \in 1..n : b # n => new[b] = old[b]
    /\ Len(old[n]) + 1 = m /\ Len(new[n]) = m
    /\ \A i \in 1..Len(old[n]) : new[n][i] = old[n][i]

\* Then there is one place more, after the others.
LEMMA PlacesOfLonger ==
    ASSUME NEW old \in Batches, NEW new \in Batches, NEW n \in Nat, NEW m \in Nat,
           LastGrew(old, new, n, m), IsFiniteSet(Places(old))
    PROVE  /\ \A x : x \in Places(new) <=> (x \in Places(old) \/ x = <<n, m>>)
           /\ \A x \in Places(old) : /\ new[x[1]][x[2]] = old[x[1]][x[2]]
                                     /\ Before(x, <<n, m>>) /\ ~Before(<<n, m>>, x)
           /\ IsFiniteSet(Places(new))
           /\ Cardinality(Places(new)) = Cardinality(Places(old)) + 1
<1>0. Len(old) = n /\ Len(new) = n /\ n # 0 /\ n \in 1..n
  BY DEF LastGrew
<1>1. DOMAIN old = 1..n /\ DOMAIN new = 1..n
  <2>1. \A bs \in Batches : DOMAIN bs = 1..Len(bs)
    BY LenProperties DEF Batches
  <2>. QED  BY <1>0, <2>1
<1>2. \A b \in 1..n : Len(old[b]) \in Nat
  BY <1>1, ElementOfSeq, LenProperties DEF Batches
<1>. DEFINE f == Lengths(old)
            g == Lengths(new)
<1>3. /\ DOMAIN f = 1..n /\ DOMAIN g = 1..n
      /\ (\A b \in 1..n : f[b] = Len(old[b]) /\ g[b] = Len(new[b]))
  BY <1>1 DEF Lengths
<1>4. Places(old) = Cells(f) /\ Places(new) = Cells(g)
  BY DEF Places
<1>. HIDE DEF f, g
<1>5. ASSUME NEW R, R = {n}
      PROVE  /\ IsFiniteSet(Cells(g)) /\ Total(g) = Total(f) + Cardinality(R)
             /\ \A x : x \in Cells(g) <=> (x \in Cells(f) \/ (\E y \in R : x = <<y, f[y] + 1>>))
  <2>1. IsFiniteSet(R) /\ R \in SUBSET DOMAIN f
    BY <1>0, <1>3, <1>5, FS_Singleton
  <2>2. \A b \in DOMAIN f : f[b] \in Nat /\ g[b] = IF b \in R THEN f[b] + 1 ELSE f[b]
    <3>1. TAKE b \in DOMAIN f
    <3>2. CASE b = n
      BY <1>0, <1>2, <1>3, <1>5, <3>2 DEF LastGrew
    <3>3. CASE b # n
      BY <1>1, <1>2, <1>3, <1>5, <3>3 DEF LastGrew
    <3>. QED  BY <3>2, <3>3
  <2>3. DOMAIN g = DOMAIN f /\ IsFiniteSet(Cells(f))
    BY <1>3, <1>4
  <2>. QED  BY <2>1, <2>2, <2>3, TotalOfGrown
<1>6. Cardinality({n}) = 1 /\ f[n] + 1 = m
  BY <1>0, <1>3, FS_Singleton DEF LastGrew
<1>7. /\ \A x : x \in Places(new) <=> (x \in Places(old) \/ x = <<n, m>>)
      /\ IsFiniteSet(Places(new))
      /\ Cardinality(Places(new)) = Cardinality(Places(old)) + 1
  BY <1>4, <1>5, <1>6 DEF Total
<1>8. ASSUME NEW x \in Places(old)
      PROVE  /\ new[x[1]][x[2]] = old[x[1]][x[2]]
             /\ Before(x, <<n, m>>) /\ ~Before(<<n, m>>, x)
  <2>1. PICK b \in 1..n : \E i \in 1..Len(old[b]) : x = <<b, i>>
    BY <1>0, PlacesAre
  <2>2. PICK i \in 1..Len(old[b]) : x = <<b, i>>
    BY <2>1
  <2>3. new[b][i] = old[b][i]
    BY <2>2 DEF LastGrew
  <2>4. Len(old[b]) \in Nat /\ b \in Int /\ i \in Int
    BY <1>2
  <2>5. (b < n) \/ (b = n /\ i < m)
    BY <2>4 DEF LastGrew
  <2>6. ~(n < b) /\ ~(n = b /\ m < i)
    BY <2>4 DEF LastGrew
  <2>. QED  BY <2>2, <2>3, <2>5, <2>6 DEF Before
<1>. QED  BY <1>7, <1>8

\* The last of the batches got the element d.
Grown(old, new, bs, batch, d) ==
    old = Append(bs, batch) /\ new = Append(bs, Append(batch, d))

LEMMA PlacesOfGrown ==
    ASSUME NEW bs \in Batches, NEW batch \in Seq(DeliveryType), NEW d \in DeliveryType,
           NEW old, NEW new, Grown(old, new, bs, batch, d), IsFiniteSet(Places(old))
    PROVE  \E last :
           /\ \A x : x \in Places(new) <=> (x \in Places(old) \/ x = last)
           /\ new[last[1]][last[2]] = d
           /\ \A x \in Places(old) : /\ new[x[1]][x[2]] = old[x[1]][x[2]]
                                     /\ Before(x, last) /\ ~Before(last, x)
           /\ ~Before(last, last)
           /\ IsFiniteSet(Places(new))
           /\ Cardinality(Places(new)) = Cardinality(Places(old)) + 1
<1>1. PICK more : more = Append(batch, d)
  OBVIOUS
<1>2. /\ more \in Seq(DeliveryType) /\ Len(more) = Len(batch) + 1 /\ Len(batch) \in Nat
      /\ \A i \in 1..Len(batch) : more[i] = batch[i]
      /\ more[Len(batch) + 1] = d
  BY <1>1, AppendProperties, LenProperties
<1>3. /\ old \in Batches /\ Len(old) = Len(bs) + 1 /\ Len(bs) \in Nat
      /\ \A b \in 1..Len(bs) : old[b] = bs[b]
      /\ old[Len(bs) + 1] = batch
  BY AppendProperties, LenProperties DEF Batches, Grown
<1>4. /\ new \in Batches /\ Len(new) = Len(bs) + 1
      /\ \A b \in 1..Len(bs) : new[b] = bs[b]
      /\ new[Len(bs) + 1] = more
  BY <1>1, <1>2, AppendProperties DEF Batches, Grown
<1>5. PICK n \in Nat, m \in Nat : n = Len(bs) + 1 /\ m = Len(batch) + 1
  BY <1>2, <1>3
<1>6. \A b \in 1..n : b # n => new[b] = old[b]
  <2>1. \A b \in 1..n : b # n => b \in 1..Len(bs)
    BY <1>3, <1>5
  <2>. QED  BY <1>3, <1>4, <2>1
<1>7. /\ \A x : x \in Places(new) <=> (x \in Places(old) \/ x = <<n, m>>)
      /\ \A x \in Places(old) : /\ new[x[1]][x[2]] = old[x[1]][x[2]]
                                /\ Before(x, <<n, m>>) /\ ~Before(<<n, m>>, x)
      /\ IsFiniteSet(Places(new))
      /\ Cardinality(Places(new)) = Cardinality(Places(old)) + 1
  <2>1. Len(old) = n /\ Len(new) = n /\ n # 0 /\ old[n] = batch /\ new[n] = more
    BY <1>3, <1>4, <1>5
  <2>2. Len(batch) + 1 = m /\ Len(more) = m /\ \A i \in 1..Len(batch) : more[i] = batch[i]
    BY <1>2, <1>5
  <2>3. LastGrew(old, new, n, m)
    BY <1>6, <2>1, <2>2 DEF LastGrew
  <2>. QED  BY <1>3, <1>4, <2>3, PlacesOfLonger
<1>8. new[n][m] = d
  BY <1>2, <1>4, <1>5
<1>9. ~Before(<<n, m>>, <<n, m>>)
  BY DEF Before
<1>. WITNESS <<n, m>>
<1>. QED  BY <1>7, <1>8, <1>9

---------------------------------------------------------------------------
(* Events, and what they hand over and report.                             *)

EventKind == {"ready", "error", "joined", "handoff", "accepted", "entry", "found",
              "followed", "rejected", "snapshot", "stories", "degraded"}

EventType ==
    {e \in [is : EventKind, peer : Peer \union {None}, feed : Feed \union {None},
            delivered : Nat, capsules : Seq(DeliveryType \union Story),
            entries : SUBSET Entries] :
        e.is = "stories" => e.capsules \in Seq(DeliveryType)}

\* An event that hands nothing over and reports no delivery.
Quiet(e) == e \in EventType /\ e.is # "stories" /\ e.delivered = 0

\* The places of the events that hand capsules to p, and the batches of some
\* events.
Hands(e, p) == e.is = "stories" /\ e.peer = p /\ e.capsules # <<>>

Giving(es, p) == {i \in DOMAIN es : Hands(es[i], p)}

BatchesOf(es) == [k \in DOMAIN es |-> es[k].capsules]

LEMMA HandedIs ==
    ASSUME NEW es, NEW p
    PROVE  Handed(es, p) = BatchesOf(Sublist(es, Giving(es, p)))
<1>1. Giving(es, p) = {i \in DOMAIN es : /\ es[i].is = "stories"
                                        /\ es[i].peer = p
                                        /\ es[i].capsules # <<>>}
  BY DEF Giving, Hands
<1>. QED  BY <1>1 DEF Handed, BatchesOf

\* The batches handed over are batches of deliveries.
LEMMA HandedType ==
    ASSUME NEW es \in Seq(EventType), NEW p
    PROVE  Handed(es, p) \in Batches
<1>. DEFINE I == Giving(es, p)
<1>1. I \in SUBSET DOMAIN es
  BY DEF Giving
<1>2. \A i \in I : es[i].is = "stories" /\ es[i] \in EventType
  BY ElementOfSeq, LenProperties DEF Giving, Hands
<1>. HIDE DEF I
<1>3. PICK t : t = Sublist(es, I)
  OBVIOUS
<1>4. /\ DOMAIN t = 1..Cardinality(I) /\ Cardinality(I) \in Nat
      /\ \A k \in 1..Cardinality(I) : \E i \in I : t[k] = es[i]
  BY <1>1, <1>3, SublistType
<1>5. \A k \in 1..Cardinality(I) : t[k].capsules \in Seq(DeliveryType)
  BY <1>2, <1>4 DEF EventType
<1>6. BatchesOf(t) \in [1..Cardinality(I) -> Seq(DeliveryType)]
  BY <1>4, <1>5 DEF BatchesOf
<1>7. BatchesOf(t) \in Batches
  BY <1>4, <1>6 DEF Batches
<1>. QED  BY <1>3, <1>7, HandedIs DEF I

LEMMA BatchesOfMore ==
    ASSUME NEW es \in Seq(EventType), NEW e \in EventType
    PROVE  BatchesOf(Append(es, e)) = Append(BatchesOf(es), e.capsules)
<1>1. PICK a : a = Append(es, e)
  OBVIOUS
<1>2. /\ Len(es) \in Nat /\ DOMAIN es = 1..Len(es)
      /\ DOMAIN a = 1..(Len(es) + 1)
      /\ \A i \in 1..Len(es) : a[i] = es[i]
      /\ a[Len(es) + 1] = e
  BY <1>1, AppendProperties, LenProperties
<1>3. \A i \in 1..Len(es) : es[i].capsules \in Seq(DeliveryType \union Story)
  BY ElementOfSeq DEF EventType
<1>4. PICK b : b = BatchesOf(es)
  OBVIOUS
<1>5. /\ b \in Seq(Seq(DeliveryType \union Story)) /\ Len(b) = Len(es)
      /\ \A i \in 1..Len(es) : b[i] = es[i].capsules
  <2>1. b \in [1..Len(es) -> Seq(DeliveryType \union Story)]
    BY <1>2, <1>3, <1>4 DEF BatchesOf
  <2>. QED  BY <1>2, <1>4, <2>1 DEF BatchesOf
<1>6. PICK c : c = Append(b, e.capsules)
  OBVIOUS
<1>7. /\ c \in Seq(Seq(DeliveryType \union Story)) /\ Len(c) = Len(es) + 1
      /\ \A i \in 1..Len(es) : c[i] = es[i].capsules
      /\ c[Len(es) + 1] = e.capsules
  <2>1. e.capsules \in Seq(DeliveryType \union Story)
    BY DEF EventType
  <2>. QED  BY <1>5, <1>6, <2>1, AppendProperties
<1>8. PICK d : d = BatchesOf(a)
  OBVIOUS
<1>9. \A i \in 1..(Len(es) + 1) : i \in 1..Len(es) \/ i = Len(es) + 1
  BY <1>2
<1>10. /\ DOMAIN d = 1..(Len(es) + 1)
       /\ \A i \in 1..(Len(es) + 1) : d[i] = c[i]
  <2>1. \A i \in 1..(Len(es) + 1) : d[i] = a[i].capsules
    BY <1>2, <1>8 DEF BatchesOf
  <2>2. \A i \in 1..(Len(es) + 1) : a[i].capsules = c[i]
    BY <1>2, <1>7, <1>9
  <2>. QED  BY <1>2, <1>8, <2>1, <2>2 DEF BatchesOf
<1>11. c = [i \in DOMAIN c |-> c[i]] /\ DOMAIN c = 1..(Len(es) + 1)
  BY <1>7, LenProperties
<1>12. d = [i \in DOMAIN d |-> d[i]]
  BY <1>8 DEF BatchesOf
<1>13. c = d
  BY <1>10, <1>11, <1>12
<1>. QED  BY <1>1, <1>4, <1>6, <1>8, <1>13

\* An event more hands its capsules over to its peer, if it has any.
LEMMA HandedMore ==
    ASSUME NEW es \in Seq(EventType), NEW e \in EventType, NEW p
    PROVE  Handed(Append(es, e), p) =
               IF Hands(e, p) THEN Append(Handed(es, p), e.capsules)
                              ELSE Handed(es, p)
<1>1. PICK a, m : a = Append(es, e) /\ m = Len(es) + 1
  OBVIOUS
<1>2. /\ Len(es) \in Nat /\ DOMAIN es = 1..Len(es)
      /\ DOMAIN a = 1..m
      /\ \A i \in 1..Len(es) : a[i] = es[i]
      /\ a[m] = e
  BY <1>1, AppendProperties, LenProperties
<1>3. \A i \in 1..m : i \in 1..Len(es) \/ i = m
  BY <1>1, <1>2
<1>4. \A i \in 1..Len(es) : i \in 1..m
  BY <1>1, <1>2
<1>5. m \in 1..m
  BY <1>1, <1>2
<1>. DEFINE I == Giving(es, p)
<1>6. I \in SUBSET DOMAIN es
  BY DEF Giving
<1>7. Giving(a, p) = IF Hands(e, p) THEN I \union {m} ELSE I
  BY <1>2, <1>3, <1>4, <1>5 DEF Giving
<1>. HIDE DEF I
<1>8. /\ Sublist(a, I) = Sublist(es, I)
      /\ Sublist(a, I \union {m}) = Append(Sublist(es, I), e)
  BY <1>1, <1>6, SublistAppend
<1>9. Sublist(es, I) \in Seq(EventType)
  BY <1>6, SublistType
<1>10. BatchesOf(Append(Sublist(es, I), e)) = Append(BatchesOf(Sublist(es, I)), e.capsules)
  BY <1>9, BatchesOfMore
<1>11. Handed(a, p) = BatchesOf(Sublist(a, Giving(a, p))) /\ Handed(es, p) = BatchesOf(Sublist(es, I))
  BY HandedIs DEF I
<1>12. CASE Hands(e, p)
  BY <1>1, <1>7, <1>8, <1>10, <1>11, <1>12
<1>13. CASE ~Hands(e, p)
  BY <1>1, <1>7, <1>8, <1>11, <1>13
<1>. QED  BY <1>12, <1>13

\* The deliveries of an event more are added; a queue that was read has none.
Told(es) == [i \in DOMAIN es |-> es[i].delivered]

LEMMA ReportedMore ==
    ASSUME NEW es \in Seq(EventType), NEW e \in EventType, IsFiniteSet(Cells(Told(es)))
    PROVE  /\ IsFiniteSet(Cells(Told(Append(es, e))))
           /\ Reported(Append(es, e)) = Reported(es) + e.delivered
           /\ Reported(es) \in Nat
<1>1. PICK a, m : a = Append(es, e) /\ m = Len(es) + 1
  OBVIOUS
<1>2. /\ Len(es) \in Nat /\ DOMAIN es = 1..Len(es)
      /\ DOMAIN a = 1..m
      /\ \A i \in 1..Len(es) : a[i] = es[i]
      /\ a[m] = e
  BY <1>1, AppendProperties, LenProperties
<1>3. 1..m = 1..Len(es) \union {m} /\ m \notin 1..Len(es)
  BY <1>1, <1>2
<1>4. PICK f, g : f = Told(es) /\ g = Told(a)
  OBVIOUS
<1>5. /\ DOMAIN f = 1..Len(es) /\ DOMAIN g = DOMAIN f \union {m} /\ m \notin DOMAIN f
      /\ \A i \in DOMAIN f : g[i] = f[i]
      /\ g[m] = e.delivered /\ e.delivered \in Nat
  <2>1. e.delivered \in Nat
    BY DEF EventType
  <2>. QED  BY <1>2, <1>3, <1>4, <2>1 DEF Told
<1>6. IsFiniteSet(Cells(g)) /\ Total(g) = Total(f) + e.delivered
  <2>1. IsFiniteSet(Cells(f))
    BY <1>4
  <2>2. g[m] \in Nat
    BY <1>5
  <2>3. IsFiniteSet(Cells(g)) /\ Total(g) = Total(f) + g[m]
    BY <1>5, <2>1, <2>2, TotalOfMore
  <2>. QED  BY <1>5, <2>3
<1>7. Total(f) \in Nat
  BY <1>4, FS_CardinalityType DEF Total
<1>. QED  BY <1>1, <1>4, <1>6, <1>7 DEF Reported, Told

LEMMA TotalOfNone ==
    ASSUME NEW f, \A x \in DOMAIN f : f[x] = 0
    PROVE  IsFiniteSet(Cells(f)) /\ Total(f) = 0
<1>1. Cells(f) = {}
  BY CellsAre
<1>. QED  BY <1>1, FS_EmptySet DEF Total

---------------------------------------------------------------------------
(* The inductive invariants of the runtime.                                *)

\* The types of the runtime's variables, and of its history.
RuntimeTypeOK ==
    /\ TypeOK
    /\ events \in Seq(EventType)
    /\ since \in [Peer \X Feed -> Nat \union {None}]
    /\ heard \in [Peer -> Batches]
    /\ open \in [Feed -> SUBSET Nat]

\* A peer is subscribed from when it first followed a feed on, and that was
\* at some length its log had; what was published openly is in the log.
SinceInv ==
    \A f \in Feed :
        /\ \A p \in Peer :
              /\ p \in subscriptions[f] <=> since[<<p, f>>] # None
              /\ since[<<p, f>>] # None => since[<<p, f>>] <= Len(log[f])
        /\ open[f] \subseteq 1..Len(log[f])

\* The capsule at a place of some batches.
CapsuleAt(bs, x) == bs[x[1]][x[2]]

\* A capsule sent to p: one of a log, from after p followed its feed.
OfLog(p, c) ==
    /\ c.feed \in Feed
    /\ c.n \in 1..Len(log[c.feed])
    /\ c.story = log[c.feed][c.n]
    /\ since[<<p, c.feed>>] # None
    /\ c.n > since[<<p, c.feed>>]

InSequence(bs) ==
    \A x, y \in Places(bs) :
        Before(x, y) /\ CapsuleAt(bs, x).feed = CapsuleAt(bs, y).feed =>
            CapsuleAt(bs, x).n < CapsuleAt(bs, y).n

NoneMissed(p, bs) ==
    \A f \in Feed : since[<<p, f>>] # None =>
        \A n \in open[f] : n > since[<<p, f>>] =>
            \E x \in Places(bs) : CapsuleAt(bs, x).feed = f /\ CapsuleAt(bs, x).n = n

\* What peer p was sent so far, in bs.
SentWell(p, bs) ==
    /\ \A x \in Places(bs) : OfLog(p, CapsuleAt(bs, x))
    /\ InSequence(bs)
    /\ NoneMissed(p, bs)

HearInv ==
    /\ RuntimeTypeOK
    /\ SinceInv
    /\ \A p \in Peer : IsFiniteSet(Places(Sent(p))) /\ SentWell(p, Sent(p))

\* How many capsules each peer was sent.
Numbers == [p \in Peer |-> Cardinality(Places(Sent(p)))]

CountInv ==
    /\ sent \in Nat
    /\ IsFiniteSet(Cells(Told(events)))
    /\ IsFiniteSet(Cells(Numbers))
    /\ DeliveredAddsUp

---------------------------------------------------------------------------
(* A step of the runtime, seen from what is handed over.                   *)

\* The queue gets one or two events that hand nothing over.
Quietly ==
    \E a, b : /\ Quiet(a) /\ Quiet(b)
              /\ \/ events' = Append(events, a)
                 \/ events' = Append(Append(events, a), b)

\* Nothing is followed, published, drained or read.
Elsewhere ==
    /\ Quietly
    /\ UNCHANGED <<subscriptions, inboxes, log, historyVars>>

Follows(p, f) ==
    /\ Quietly
    /\ subscriptions' = [subscriptions EXCEPT ![f] = @ \union {p}]
    /\ since' = IF since[<<p, f>>] = None
                THEN [since EXCEPT ![<<p, f>>] = Len(log[f])] ELSE since
    /\ UNCHANGED <<inboxes, log, heard, sent, open>>

Publishes(p, f, s) ==
    /\ Publishing(p, f, s)
    /\ open' = IF feeds[f].vis = "public"
               THEN [open EXCEPT ![f] = @ \union {Len(log[f]) + 1}]
               ELSE open
    /\ \E e \in EventType : /\ e.is # "stories"
                            /\ e.delivered = Cardinality(Receivers(f))
                            /\ events' = Append(events, e)
    /\ UNCHANGED <<since, heard, sent>>

Empties(p) ==
    /\ inboxes' = [inboxes EXCEPT ![p] = <<>>]
    /\ \E e \in EventType : /\ e.is = "stories" /\ e.peer = p /\ e.delivered = 0
                            /\ e.capsules = inboxes[p]
                            /\ events' = Append(events, e)
    /\ UNCHANGED <<subscriptions, log, historyVars>>

Reads ==
    /\ events' = <<>>
    /\ heard' = [p \in Peer |-> heard[p] \o Handed(events, p)]
    /\ sent' = sent + Reported(events)
    /\ UNCHANGED <<subscriptions, inboxes, log, since, open>>

Handing ==
    \/ Elsewhere
    \/ \E p \in Peer, f \in Feed : Follows(p, f)
    \/ \E p \in Peer, f \in Feed, s \in Story : Publishes(p, f, s)
    \/ \E p \in Peer : Empties(p)
    \/ Reads
    \/ UNCHANGED <<subscriptions, inboxes, log, events, historyVars>>

\* An event that tells nothing but its kind, peer and feed.
LEMMA PlainEvent ==
    ASSUME NEW kind \in EventKind, NEW p \in Peer \union {None},
           NEW f \in Feed \union {None}
    PROVE  /\ Event(kind, p, f) \in EventType
           /\ Event(kind, p, f).is = kind /\ Event(kind, p, f).peer = p
           /\ Event(kind, p, f).delivered = 0
<1>1. <<>> \in Seq(DeliveryType) /\ <<>> \in Seq(DeliveryType \union Story)
  OBVIOUS
<1>. QED  BY <1>1 DEF Event, EventType

\* One that also tells a number, entries, or capsules.
LEMMA FullerEvent ==
    ASSUME NEW e \in EventType
    PROVE  /\ \A n \in Nat : LET d == [e EXCEPT !.delivered = n]
                             IN  d \in EventType /\ d.is = e.is /\ d.delivered = n
           /\ \A es \in SUBSET Entries :
                 LET d == [e EXCEPT !.entries = es]
                 IN  d \in EventType /\ d.is = e.is /\ d.delivered = e.delivered
<1>1. ASSUME NEW n \in Nat
      PROVE  LET d == [e EXCEPT !.delivered = n]
             IN  d \in EventType /\ d.is = e.is /\ d.delivered = n
  BY DEF EventType
<1>2. ASSUME NEW es \in SUBSET Entries
      PROVE  LET d == [e EXCEPT !.entries = es]
             IN  d \in EventType /\ d.is = e.is /\ d.delivered = e.delivered
  BY DEF EventType
<1>. QED  BY <1>1, <1>2

LEMMA HandingEvent ==
    ASSUME NEW e \in EventType, NEW cs \in Seq(DeliveryType \union Story),
           e.is = "stories" => cs \in Seq(DeliveryType)
    PROVE  LET d == [e EXCEPT !.capsules = cs]
           IN  /\ d \in EventType /\ d.is = e.is /\ d.peer = e.peer
               /\ d.delivered = e.delivered /\ d.capsules = cs
BY DEF EventType

LEMMA SnapshotEvent ==
    ASSUME NEW p \in Peer, NEW f \in Feed, NEW cs \in Seq(Story)
    PROVE  Quiet([Event("snapshot", p, f) EXCEPT !.capsules = cs])
<1>1. PICK e : e = Event("snapshot", p, f) /\ e \in EventType /\ e.is = "snapshot" /\ e.delivered = 0
  <2>1. "snapshot" \in EventKind
    BY DEF EventKind
  <2>. QED  BY <2>1, PlainEvent
<1>2. cs \in Seq(DeliveryType \union Story) /\ e.is # "stories"
  BY <1>1
<1>3. Quiet([e EXCEPT !.capsules = cs])
  BY <1>1, <1>2, HandingEvent DEF Quiet
<1>. QED  BY <1>1, <1>3

LEMMA StoriesEvent ==
    ASSUME NEW p \in Peer, NEW cs \in Seq(DeliveryType)
    PROVE  \E d : /\ d = [Event("stories", p, None) EXCEPT !.capsules = cs]
                  /\ d \in EventType /\ d.is = "stories" /\ d.peer = p
                  /\ d.delivered = 0 /\ d.capsules = cs
<1>1. PICK e : /\ e = Event("stories", p, None) /\ e \in EventType /\ e.is = "stories"
               /\ e.peer = p /\ e.delivered = 0
  <2>1. "stories" \in EventKind
    BY DEF EventKind
  <2>. QED  BY <2>1, PlainEvent
<1>2. cs \in Seq(DeliveryType \union Story)
  OBVIOUS
<1>3. PICK d : d = [e EXCEPT !.capsules = cs]
  OBVIOUS
<1>4. /\ d \in EventType /\ d.is = e.is /\ d.peer = e.peer
      /\ d.delivered = e.delivered /\ d.capsules = cs
  BY <1>1, <1>2, <1>3, HandingEvent
<1>. QED  BY <1>1, <1>3, <1>4

\* One quiet event, or two.
LEMMA TellsQuietly ==
    ASSUME NEW a, Quiet(a), events \in Seq(EventType),
           Tell(<<a>>) \/ \E b : Quiet(b) /\ Tell(<<a, b>>)
    PROVE  Quietly
<1>1. a \in EventType
  BY DEF Quiet
<1>2. CASE Tell(<<a>>)
  <2>1. events' = Append(events, a)
    BY <1>1, <1>2 DEF Tell
  <2>. QED  BY <2>1 DEF Quietly
<1>3. CASE \E b : Quiet(b) /\ Tell(<<a, b>>)
  <2>1. PICK b : Quiet(b) /\ Tell(<<a, b>>)
    BY <1>3
  <2>2. b \in EventType
    BY <2>1 DEF Quiet
  <2>3. events' = Append(Append(events, a), b)
    BY <1>1, <2>1, <2>2 DEF Tell
  <2>. QED  BY <2>1, <2>3 DEF Quietly
<1>. QED  BY <1>2, <1>3

\* Every command keeps the network's types: it is a call of a peer of the
\* current protocol, both locks of a directory call at once, or a rejection.
LEMMA CommandTypes ==
    ASSUME TypeOK, NEW p \in Peer, Command(p)
    PROVE  TypeOK'
<1>. USE CallsAssumption
<1>1. ASSUME UNCHANGED vars
      PROVE  TypeOK'
  BY <1>1, TypeStep
<1>2. ASSUME NEW es, Reject(es)
      PROVE  TypeOK'
  BY <1>1, <1>2 DEF Reject
<1>3. ASSUME p \in Current, PeerCall(p)
      PROVE  TypeOK'
  BY <1>3, TypeStep DEF Next
<1>4. ASSUME NEW rs \in JoinRoles, Join(p, rs)
      PROVE  TypeOK'
  BY <1>1, <1>3, <1>4 DEF Join, PeerCall
<1>5. ASSUME p \in HandoffPeers, Handoff(p)
      PROVE  TypeOK'
  BY <1>2, <1>3, <1>5 DEF Handoff, Able, PeerCall
<1>6. ASSUME NEW profile \in Profiles, Announce(p, profile)
      PROVE  TypeOK'
  BY <1>2, <1>3, <1>6 DEF Announce, Able, PeerCall
<1>7. ASSUME NEW m \in Certificates, Certify(p, m)
      PROVE  TypeOK'
  BY <1>2, <1>3, <1>7 DEF Certify, Able, PeerCall
<1>8. ASSUME NEW e \in Entries, NEW op, NEW rs \in {{"kad"}, {"fabric", "kad"}},
             Directory(p, e, op, rs)
      PROVE  TypeOK'
  <2>1. CASE Reject(<<Problem>>)
    BY <1>2, <2>1
  <2>2. CASE /\ IndexDirectoryEntry(e)
             /\ AddRoles(p, rs)
             /\ UNCHANGED <<feeds, orgAccess, subscriptions, grants, inflight,
                            content>>
    <3>1. rs \in SUBSET Role
      BY DEF Role
    <3>2. roles' \in [Peer -> SUBSET Role]
      BY <2>2, <3>1, AddRolesProperties DEF TypeOK
    <3>. QED  BY <2>2, <3>2, IndexKeepsTypes DEF TypeOK, content
  <2>. QED  BY <1>8, <2>1, <2>2 DEF Directory
<1>9. ASSUME NEW f \in Feed, FollowFeed(p, f)
      PROVE  TypeOK'
  BY <1>2, <1>3, <1>9 DEF FollowFeed, MayFollow, Able, PeerCall
<1>10. ASSUME NEW f \in Feed, NEW q \in Peer, Grant(p, f, q)
       PROVE  TypeOK'
  BY <1>2, <1>3, <1>10 DEF Grant, MayGrant, Able, PeerCall
<1>11. ASSUME NEW f \in Feed, NEW s \in Story, Publish(p, f, s)
       PROVE  TypeOK'
  BY <1>1, <1>2, <1>3, <1>11 DEF Publish, MayPublish, Able, PeerCall
<1>12. ASSUME NEW f \in Feed, NEW n, RequestSnapshot(p, f, n)
       PROVE  TypeOK'
  BY <1>2, <1>12 DEF RequestSnapshot
<1>13. ASSUME NEW found, NEW allowed, Discover(p, found, allowed)
       PROVE  TypeOK'
  BY <1>2, <1>13 DEF Discover
<1>14. ASSUME DrainInbox(p)
       PROVE  TypeOK'
  <2>1. CASE Reject(<<Problem>>)
    BY <1>2, <2>1
  <2>2. CASE /\ inboxes' = [inboxes EXCEPT ![p] = <<>>]
             /\ UNCHANGED <<feeds, roles, orgAccess, subscriptions, grants,
                            inflight, indexes, history, log>>
    BY <2>2 DEF TypeOK, indexes
  <2>. QED  BY <1>14, <2>1, <2>2 DEF DrainInbox
<1>. QED  BY <1>4, <1>5, <1>6, <1>7, <1>8, <1>9, <1>10, <1>11, <1>12, <1>13, <1>14
          DEF Command, DiscoverUser, DiscoverOrg, DiscoverTeam

\* A rejection, and every call that neither follows, publishes nor drains, is
\* told quietly.
LEMMA RejectsQuietly ==
    ASSUME RuntimeTypeOK, NEW a, Quiet(a), UNCHANGED <<heard, sent>>,
           Reject(<<a>>) \/ \E b : Quiet(b) /\ Reject(<<a, b>>)
    PROVE  Elsewhere
<1>1. Tell(<<a>>) \/ \E b : Quiet(b) /\ Tell(<<a, b>>)
  BY DEF Reject
<1>2. Quietly
  BY <1>1, TellsQuietly DEF RuntimeTypeOK
<1>3. UNCHANGED vars /\ UNCHANGED <<since, open>>
  BY DEF Reject
<1>. QED  BY <1>2, <1>3 DEF Elsewhere, vars, content, historyVars

LEMMA AnswersQuietly ==
    ASSUME RuntimeTypeOK, NEW a, Quiet(a), UNCHANGED <<heard, sent>>,
           Tell(<<a>>), UNCHANGED <<since, open>>,
           UNCHANGED <<subscriptions, inboxes, log>>
    PROVE  Elsewhere
<1>1. Quietly
  BY TellsQuietly DEF RuntimeTypeOK
<1>. QED  BY <1>1 DEF Elsewhere, historyVars

LEMMA PlainQuiet ==
    ASSUME NEW kind \in EventKind, kind # "stories", NEW p \in Peer \union {None},
           NEW f \in Feed \union {None}
    PROVE  Quiet(Event(kind, p, f))
BY PlainEvent DEF Quiet

\* The queue after a step in which p followed f, published on it or drained.
LEMMA FollowHands ==
    ASSUME RuntimeTypeOK, NEW p \in Peer, NEW f \in Feed, FollowFeed(p, f),
           UNCHANGED <<heard, sent>>
    PROVE  Handing
<1>1. CASE Reject(<<Problem>>)
  <2>1. Quiet(Problem)
    BY PlainQuiet DEF Problem, EventKind
  <2>. QED  BY <1>1, <2>1, RejectsQuietly DEF Handing
<1>2. CASE /\ Follow(p, f)
           /\ since' = IF since[<<p, f>>] = None
                       THEN [since EXCEPT ![<<p, f>>] = Len(log[f])] ELSE since
           /\ Tell(<<Event("followed", p, f)>>)
           /\ UNCHANGED <<peers, shutdown, open>>
  <2>1. Quiet(Event("followed", p, f))
    BY PlainQuiet DEF EventKind
  <2>2. Quietly
    BY <1>2, <2>1, TellsQuietly DEF RuntimeTypeOK
  <2>3. Follows(p, f)
    BY <1>2, <2>2 DEF Follows, Follow, content
  <2>. QED  BY <2>3 DEF Handing
<1>. QED  BY <1>1, <1>2 DEF FollowFeed

\* The receivers are peers, and there are finitely many.
LEMMA ReceiversFinite ==
    ASSUME TypeOK, NEW f \in Feed
    PROVE  /\ Receivers(f) \subseteq Peer /\ IsFiniteSet(Receivers(f))
           /\ Cardinality(Receivers(f)) \in Nat
<1>1. Receivers(f) \subseteq Peer
  BY CallsAssumption DEF Receivers, TypeOK
<1>2. IsFiniteSet(Receivers(f))
  BY <1>1, RuntimeAssumption, FS_Subset
<1>. QED  BY <1>1, <1>2, FS_CardinalityType

LEMMA PublishHands ==
    ASSUME RuntimeTypeOK, NEW p \in Peer, NEW f \in Feed, NEW s \in Story,
           Publish(p, f, s), UNCHANGED <<heard, sent>>
    PROVE  Handing
<1>1. CASE Reject(<<Event("rejected", p, f), Problem>>)
  <2>1. Quiet(Problem) /\ Quiet(Event("rejected", p, f))
    BY PlainQuiet DEF Problem, EventKind
  <2>. QED  BY <1>1, <2>1, RejectsQuietly DEF Handing
<1>2. PICK e : e = Event("accepted", p, f) /\ e \in EventType /\ e.is = "accepted"
  <2>1. "accepted" \in EventKind
    BY DEF EventKind
  <2>. QED  BY <2>1, PlainEvent
<1>3. PICK d : d = [e EXCEPT !.delivered = Reached(f, s)]
  OBVIOUS
<1>4. Reached(f, s) \in Nat
  BY ReceiversFinite DEF Reached, RuntimeTypeOK
<1>5. d \in EventType /\ d.is # "stories" /\ d.delivered = Reached(f, s)
  BY <1>2, <1>3, <1>4, FullerEvent
<1>6. CASE /\ PublishCapsule(p, f, s)
           /\ open' = IF feeds[f].vis = "public"
                      THEN [open EXCEPT ![f] = @ \union {Len(log'[f])}]
                      ELSE open
           /\ Tell(<<d>>)
           /\ UNCHANGED <<peers, shutdown, since>>
  <2>1. Publishing(p, f, s)
    BY <1>6 DEF PublishCapsule, Publishing
  <2>2. Len(log'[f]) = Len(log[f]) + 1
    BY <2>1, LogAfterPublishing DEF RuntimeTypeOK
  <2>3. Reached(f, s) = Cardinality(Receivers(f))
    BY <2>1 DEF Reached, Publishing, Accept
  <2>4. events' = Append(events, d)
    BY <1>5, <1>6 DEF Tell, RuntimeTypeOK
  <2>5. Publishes(p, f, s)
    BY <1>5, <1>6, <2>1, <2>2, <2>3, <2>4 DEF Publishes
  <2>. QED  BY <2>5 DEF Handing
<1>7. CASE /\ IsRepeat(f, s) /\ UNCHANGED <<vars, open>>
           /\ Tell(<<d>>)
           /\ UNCHANGED <<peers, shutdown, since>>
  <2>1. Reached(f, s) = 0
    BY <1>7 DEF Reached
  <2>2. Quiet(d)
    BY <1>5, <2>1 DEF Quiet
  <2>3. Elsewhere
    BY <1>7, <2>2, AnswersQuietly DEF vars, content
  <2>. QED  BY <2>3 DEF Handing
<1>8. Reject(<<Event("rejected", p, f), Problem>>)
      \/ (/\ \/ /\ PublishCapsule(p, f, s)
                /\ open' = IF feeds[f].vis = "public"
                           THEN [open EXCEPT ![f] = @ \union {Len(log'[f])}]
                           ELSE open
             \/ IsRepeat(f, s) /\ UNCHANGED <<vars, open>>
          /\ Tell(<<d>>)
          /\ UNCHANGED <<peers, shutdown, since>>)
  BY <1>2, <1>3 DEF Publish
<1>. QED  BY <1>1, <1>6, <1>7, <1>8

LEMMA DrainHands ==
    ASSUME RuntimeTypeOK, NEW p \in Peer, DrainInbox(p), UNCHANGED <<heard, sent>>
    PROVE  Handing
<1>1. CASE Reject(<<Problem>>)
  <2>1. Quiet(Problem)
    BY PlainQuiet DEF Problem, EventKind
  <2>. QED  BY <1>1, <2>1, RejectsQuietly DEF Handing
<1>2. PICK d : /\ d = [Event("stories", p, None) EXCEPT !.capsules = inboxes[p]]
               /\ d \in EventType /\ d.is = "stories" /\ d.peer = p
               /\ d.delivered = 0 /\ d.capsules = inboxes[p]
  BY StoriesEvent DEF RuntimeTypeOK, TypeOK
<1>3. CASE /\ inboxes' = [inboxes EXCEPT ![p] = <<>>]
           /\ UNCHANGED <<feeds, roles, orgAccess, subscriptions, grants,
                          inflight, indexes, history, log>>
           /\ Answer(d)
  <2>1. events' = Append(events, d)
    BY <1>2, <1>3 DEF Answer, Tell, RuntimeTypeOK
  <2>2. Empties(p)
    BY <1>2, <1>3, <2>1 DEF Empties, Answer, historyVars
  <2>. QED  BY <2>2 DEF Handing
<1>4. Reject(<<Problem>>)
      \/ (/\ inboxes' = [inboxes EXCEPT ![p] = <<>>]
          /\ UNCHANGED <<feeds, roles, orgAccess, subscriptions, grants,
                         inflight, indexes, history, log>>
          /\ Answer(d))
  BY <1>2 DEF DrainInbox
<1>. QED  BY <1>1, <1>3, <1>4

\* The other commands.
LEMMA CommandHands ==
    ASSUME RuntimeTypeOK, NEW p \in Peer, Command(p), UNCHANGED <<heard, sent>>
    PROVE  Handing
<1>. USE CallsAssumption
<1>1. Quiet(Problem)
  BY PlainQuiet DEF Problem, EventKind
<1>2. ASSUME NEW a, Quiet(a), Reject(<<a>>)
      PROVE  Elsewhere
  BY <1>2, RejectsQuietly
<1>3. ASSUME NEW a, Quiet(a), Tell(<<a>>),
             UNCHANGED <<since, open, subscriptions, inboxes, log>>
      PROVE  Elsewhere
  BY <1>3, AnswersQuietly
<1>4. ASSUME NEW rs \in JoinRoles, Join(p, rs)
      PROVE  Elsewhere
  <2>1. Quiet(Event("joined", p, None))
    BY PlainQuiet DEF EventKind
  <2>2. UNCHANGED <<since, open, subscriptions, inboxes, log>>
    BY <1>4 DEF Join, JoinFabric, vars, content
  <2>3. \E a : Quiet(a) /\ Tell(<<a>>)
    BY <1>1, <1>4, <2>1 DEF Join
  <2>. QED  BY <1>3, <2>2, <2>3
<1>5. ASSUME Handoff(p)
      PROVE  Elsewhere
  <2>1. Quiet(Event("handoff", p, None))
    BY PlainQuiet DEF EventKind
  <2>2. UNCHANGED <<since, open, subscriptions, inboxes, log>>
    BY <1>5 DEF Handoff, Answer, Reject, RegisterBrowserHandoff, vars, content
  <2>3. \E a : Quiet(a) /\ Tell(<<a>>)
    BY <1>1, <1>5, <2>1 DEF Handoff, Answer, Reject
  <2>. QED  BY <1>3, <2>2, <2>3
<1>6. ASSUME NEW profile \in Profiles, Announce(p, profile)
      PROVE  Elsewhere
  <2>1. profile.feed \in Feed
    BY DEF Profile
  <2>2. Quiet(Event("accepted", p, profile.feed))
    BY <2>1, PlainQuiet DEF EventKind
  <2>3. UNCHANGED <<since, open, subscriptions, inboxes, log>>
    BY <1>6 DEF Announce, Answer, Reject, AnnounceFeed, vars, content
  <2>4. \E a : Quiet(a) /\ Tell(<<a>>)
    BY <1>1, <1>6, <2>2 DEF Announce, Answer, Reject
  <2>. QED  BY <1>3, <2>3, <2>4
<1>7. ASSUME NEW m \in Certificates, Certify(p, m)
      PROVE  Elsewhere
  <2>1. Quiet(Event("accepted", p, None))
    BY PlainQuiet DEF EventKind
  <2>2. UNCHANGED <<since, open, subscriptions, inboxes, log>>
    BY <1>7 DEF Certify, Answer, Reject, CertifyGithubOrgAccess, vars, content
  <2>3. \E a : Quiet(a) /\ Tell(<<a>>)
    BY <1>1, <1>7, <2>1 DEF Certify, Answer, Reject
  <2>. QED  BY <1>3, <2>2, <2>3
<1>8. ASSUME NEW e \in Entries, NEW op, NEW rs, Directory(p, e, op, rs)
      PROVE  Elsewhere
  <2>1. e.feed \in Feed
    BY DEF Entry
  <2>2. Quiet(Event("entry", p, e.feed))
    BY <2>1, PlainQuiet DEF EventKind
  <2>3. UNCHANGED <<since, open, subscriptions, inboxes, log>>
    BY <1>8 DEF Directory, Answer, Reject, vars, content
  <2>4. \E a : Quiet(a) /\ Tell(<<a>>)
    BY <1>1, <1>8, <2>2 DEF Directory, Answer, Reject
  <2>. QED  BY <1>3, <2>3, <2>4
<1>9. ASSUME NEW f \in Feed, NEW q \in Peer, Grant(p, f, q)
      PROVE  Elsewhere
  <2>1. Quiet(Event("accepted", p, f))
    BY PlainQuiet DEF EventKind
  <2>2. UNCHANGED <<since, open, subscriptions, inboxes, log>>
    BY <1>9 DEF Grant, Answer, Reject, GrantSubscription, vars, content
  <2>3. \E a : Quiet(a) /\ Tell(<<a>>)
    BY <1>1, <1>9, <2>1 DEF Grant, Answer, Reject
  <2>. QED  BY <1>3, <2>2, <2>3
<1>10. ASSUME NEW f \in Feed, NEW n \in SnapshotLimits, RequestSnapshot(p, f, n)
       PROVE  Elsewhere
  <2>1. KeepLast(history[f], n) \in Seq(Story)
    BY KeepLastProperties, RuntimeAssumption DEF RuntimeTypeOK, TypeOK
  <2>2. Quiet([Event("snapshot", p, f) EXCEPT !.capsules = KeepLast(history[f], n)])
    BY <2>1, SnapshotEvent
  <2>. QED  BY <1>1, <1>2, <1>10, <2>2 DEF RequestSnapshot
<1>11. ASSUME NEW found \in SUBSET Entries, NEW allowed, Discover(p, found, allowed)
       PROVE  Elsewhere
  <2>1. PICK e : e = Event("found", None, None) /\ e \in EventType
                 /\ e.is = "found" /\ e.delivered = 0
    <3>1. "found" \in EventKind
      BY DEF EventKind
    <3>. QED  BY <3>1, PlainEvent
  <2>2. Quiet([e EXCEPT !.entries = found])
    BY <2>1, FullerEvent DEF Quiet
  <2>. QED  BY <1>1, <1>2, <1>11, <2>1, <2>2 DEF Discover
<1>12. /\ \A u \in User : DiscoverGithubUser(p, u) \subseteq Entries
       /\ \A o \in Org : DiscoverGithubOrg(p, o) \subseteq Entries
       /\ \A o \in Org, t \in Team : DiscoverGithubTeam(p, o, t) \subseteq Entries
  BY DEF DiscoverGithubUser, DiscoverGithubOrg, DiscoverGithubTeam,
         RuntimeTypeOK, TypeOK
<1>13. ASSUME \/ \E u \in User : DiscoverUser(p, u)
              \/ \E o \in Org : DiscoverOrg(p, o) \/ \E t \in Team : DiscoverTeam(p, o, t)
       PROVE  Elsewhere
  BY <1>11, <1>12, <1>13 DEF DiscoverUser, DiscoverOrg, DiscoverTeam
<1>14. Elsewhere \/ (\E f \in Feed : FollowFeed(p, f) \/ \E s \in Story : Publish(p, f, s))
       \/ DrainInbox(p)
  BY <1>4, <1>5, <1>6, <1>7, <1>8, <1>9, <1>10, <1>13 DEF Command
<1>. QED  BY <1>14, FollowHands, PublishHands, DrainHands DEF Handing

\* Every step of the runtime.
LEMMA RuntimeStep ==
    ASSUME RuntimeTypeOK, [RuntimeNext]_allVars
    PROVE  TypeOK' /\ Handing
<1>1. TypeOK
  BY DEF RuntimeTypeOK
<1>2. ASSUME NEW p \in Peer, Command(p), UNCHANGED <<heard, sent>>
      PROVE  TypeOK' /\ Handing
  BY <1>1, <1>2, CommandTypes, CommandHands
<1>3. Quiet(Event("degraded", None, None))
  BY PlainQuiet DEF EventKind
<1>4. CASE Shutdown
  <2>1. TypeOK'
    BY <1>1, <1>4, TypeStep DEF Shutdown
  <2>2. UNCHANGED <<since, open, subscriptions, inboxes, log, heard, sent>>
    BY <1>4 DEF Shutdown, vars, content, historyVars
  <2>3. Elsewhere
    BY <1>3, <1>4, <2>2, AnswersQuietly DEF Shutdown
  <2>. QED  BY <2>1, <2>3 DEF Handing
<1>5. CASE Refuse
  <2>1. TypeOK'
    BY <1>1, <1>5, TypeStep DEF Refuse, Reject
  <2>2. Elsewhere
    BY <1>3, <1>5, RejectsQuietly DEF Refuse, historyVars
  <2>. QED  BY <2>1, <2>2 DEF Handing
<1>6. CASE DrainEvents
  <2>1. TypeOK'
    BY <1>1, <1>6, TypeStep DEF DrainEvents
  <2>2. Reads
    BY <1>6 DEF DrainEvents, Reads, vars, content
  <2>. QED  BY <2>1, <2>2 DEF Handing
<1>7. CASE UNCHANGED allVars
  <2>1. TypeOK'
    BY <1>1, <1>7, TypeStep DEF allVars
  <2>2. UNCHANGED <<subscriptions, inboxes, log, events, historyVars>>
    BY <1>7 DEF allVars, vars, content, runtimeVars
  <2>. QED  BY <2>1, <2>2 DEF Handing
<1>. QED  BY <1>2, <1>4, <1>5, <1>6, <1>7 DEF RuntimeNext

---------------------------------------------------------------------------
(* What a peer was sent, after each kind of step.                          *)

\* The batches that left the inbox of p.
Body(p) == heard[p] \o Handed(events, p)

LEMMA SentIs ==
    ASSUME RuntimeTypeOK, NEW p \in Peer
    PROVE  /\ Sent(p) = Append(Body(p), inboxes[p])
           /\ Body(p) \in Batches /\ Sent(p) \in Batches
           /\ Handed(events, p) \in Batches /\ heard[p] \in Batches
           /\ inboxes[p] \in Seq(DeliveryType)
<1>1. /\ Handed(events, p) \in Batches /\ heard[p] \in Batches
      /\ inboxes[p] \in Seq(DeliveryType)
  BY HandedType DEF RuntimeTypeOK, TypeOK
<1>2. PICK b : b = Body(p)
  OBVIOUS
<1>3. b \in Batches
  BY <1>1, <1>2, ConcatProperties DEF Body, Batches
<1>4. /\ Append(b, inboxes[p]) = b \o <<inboxes[p]>>
      /\ Append(b, inboxes[p]) \in Batches
  BY <1>1, <1>3, AppendIsConcat, AppendProperties DEF Batches
<1>5. Sent(p) = b \o <<inboxes[p]>>
  BY <1>2 DEF Sent, Body
<1>. QED  BY <1>1, <1>2, <1>3, <1>4, <1>5

\* Events that hand nothing to p change nothing of it.
LEMMA HandedQuietly ==
    ASSUME RuntimeTypeOK, Quietly, NEW p
    PROVE  Handed(events', p) = Handed(events, p)
<1>1. PICK a, b : /\ Quiet(a) /\ Quiet(b)
                  /\ \/ events' = Append(events, a)
                     \/ events' = Append(Append(events, a), b)
  BY DEF Quietly
<1>2. a \in EventType /\ b \in EventType /\ ~Hands(a, p) /\ ~Hands(b, p)
  BY <1>1 DEF Quiet, Hands
<1>3. PICK es : es = Append(events, a)
  OBVIOUS
<1>4. es \in Seq(EventType) /\ Handed(es, p) = Handed(events, p)
  BY <1>2, <1>3, AppendProperties, HandedMore DEF RuntimeTypeOK
<1>5. Handed(Append(es, b), p) = Handed(es, p)
  BY <1>2, <1>4, HandedMore
<1>. QED  BY <1>1, <1>3, <1>4, <1>5

LEMMA SentQuietly ==
    ASSUME RuntimeTypeOK, Quietly, UNCHANGED <<heard, inboxes>>, NEW p
    PROVE  Sent(p)' = Sent(p)
BY HandedQuietly DEF Sent

LEMMA SentPublished ==
    ASSUME RuntimeTypeOK, NEW p \in Peer, NEW f \in Feed, NEW s \in Story,
           Publishes(p, f, s), NEW q \in Peer
    PROVE  IF q \in Receivers(f)
           THEN \E bs \in Batches, batch \in Seq(DeliveryType) :
                    Grown(Sent(q), Sent(q)', bs, batch, Delivery(f, s))
           ELSE Sent(q)' = Sent(q)
<1>1. PICK e \in EventType : e.is # "stories" /\ events' = Append(events, e)
  BY DEF Publishes
<1>2. Handed(events', q) = Handed(events, q)
  <2>1. ~Hands(e, q)
    BY <1>1 DEF Hands
  <2>. QED  BY <1>1, <2>1, HandedMore DEF RuntimeTypeOK
<1>3. heard' = heard
  BY DEF Publishes
<1>4. inboxes'[q] = IF q \in Receivers(f) THEN Append(inboxes[q], Delivery(f, s))
                                          ELSE inboxes[q]
  BY DEF Publishes, Publishing, Accept
<1>5. CASE q \notin Receivers(f)
  BY <1>2, <1>3, <1>4, <1>5 DEF Sent
<1>6. CASE q \in Receivers(f)
  <2>1. Delivery(f, s) \in DeliveryType
    BY AcceptProperties DEF Publishes, Publishing, RuntimeTypeOK
  <2>2. PICK b, m, d : b = Body(q) /\ m = inboxes[q] /\ d = Delivery(f, s)
    OBVIOUS
  <2>3. Sent(q) = Append(b, m) /\ b \in Batches /\ m \in Seq(DeliveryType)
    BY <2>2, SentIs
  <2>4. PICK n : n = Append(m, d)
    OBVIOUS
  <2>5. n \in Seq(DeliveryType) /\ n = inboxes'[q]
    BY <1>4, <1>6, <2>1, <2>2, <2>3, <2>4, AppendProperties
  <2>6. Append(b, n) = b \o <<n>>
    BY <2>3, <2>5, AppendIsConcat DEF Batches
  <2>7. Sent(q)' = b \o <<n>>
    BY <1>2, <1>3, <2>2, <2>5 DEF Sent, Body
  <2>8. Grown(Sent(q), Sent(q)', b, m, d)
    BY <2>3, <2>4, <2>6, <2>7 DEF Grown
  <2>. QED  BY <1>6, <2>2, <2>3, <2>8
<1>. QED  BY <1>5, <1>6

\* A drained inbox, if it held something, is followed by an empty batch.
LEMMA SentEmptied ==
    ASSUME RuntimeTypeOK, NEW p \in Peer, Empties(p), NEW q \in Peer
    PROVE  Sent(q)' = Sent(q) \/ Sent(q)' = Append(Sent(q), <<>>)
<1>1. PICK e \in EventType : /\ e.is = "stories" /\ e.peer = p
                             /\ e.capsules = inboxes[p]
                             /\ events' = Append(events, e)
  BY DEF Empties
<1>2. heard' = heard /\ inboxes' = [inboxes EXCEPT ![p] = <<>>]
  BY DEF Empties, historyVars
<1>3. Handed(events', q) = IF Hands(e, q) THEN Append(Handed(events, q), e.capsules)
                                          ELSE Handed(events, q)
  BY <1>1, HandedMore DEF RuntimeTypeOK
<1>4. CASE ~Hands(e, q)
  <2>1. inboxes'[q] = inboxes[q]
    <3>1. CASE q # p
      BY <1>2, <3>1 DEF RuntimeTypeOK, TypeOK
    <3>2. CASE q = p
      <4>1. inboxes[q] = <<>>
        BY <1>1, <1>4, <3>2 DEF Hands
      <4>. QED  BY <1>2, <3>2, <4>1 DEF RuntimeTypeOK, TypeOK
    <3>. QED  BY <3>1, <3>2
  <2>. QED  BY <1>2, <1>3, <1>4, <2>1 DEF Sent
<1>5. CASE Hands(e, q)
  <2>1. q = p /\ inboxes'[q] = <<>>
    BY <1>1, <1>2, <1>5 DEF Hands, RuntimeTypeOK, TypeOK
  <2>2. PICK h, g, m : h = heard[q] /\ g = Handed(events, q) /\ m = inboxes[q]
    OBVIOUS
  <2>3. h \in Batches /\ g \in Batches /\ m \in Seq(DeliveryType)
    BY <2>2, SentIs
  <2>4. Sent(q)' = (h \o Append(g, m)) \o <<<<>>>>
    BY <1>1, <1>2, <1>3, <1>5, <2>1, <2>2 DEF Sent
  <2>5. Sent(q) = (h \o g) \o <<m>>
    BY <2>2 DEF Sent
  <2>6. Append(g, m) = g \o <<m>> /\ <<m>> \in Batches
    BY <2>3, AppendIsConcat DEF Batches
  <2>7. (h \o g) \o <<m>> = h \o (g \o <<m>>)
    BY <2>3, <2>6, ConcatAssociative DEF Batches
  <2>8. Sent(q)' = Sent(q) \o <<<<>>>>
    BY <2>4, <2>5, <2>6, <2>7
  <2>9. Append(Sent(q), <<>>) = Sent(q) \o <<<<>>>>
    <3>1. Sent(q) \in Batches /\ <<>> \in Seq(DeliveryType)
      BY SentIs
    <3>. QED  BY <3>1, AppendIsConcat DEF Batches
  <2>. QED  BY <2>8, <2>9
<1>. QED  BY <1>4, <1>5

\* An empty queue hands over, and reports, nothing.
LEMMA NothingQueued ==
    /\ \A p : Handed(<<>>, p) = <<>>
    /\ IsFiniteSet(Cells(Told(<<>>))) /\ Reported(<<>>) = 0
<1>1. PICK es : es = <<>>
  OBVIOUS
<1>2. es \in Seq(EventType) /\ DOMAIN es = {}
  BY <1>1
<1>3. \A p : Handed(es, p) = <<>>
  <2>. TAKE p
  <2>1. Giving(es, p) = {}
    BY <1>2 DEF Giving
  <2>2. PICK t : t = Sublist(es, Giving(es, p))
    OBVIOUS
  <2>3. t \in Seq(EventType) /\ Len(t) = 0
    <3>1. PICK I : I = {}
      OBVIOUS
    <3>2. I \in SUBSET DOMAIN es /\ Cardinality(I) = 0
      BY <3>1, FS_EmptySet
    <3>3. Sublist(es, I) \in Seq(EventType) /\ Len(Sublist(es, I)) = 0
      BY <1>2, <3>2, SublistType
    <3>. QED  BY <2>1, <2>2, <3>1, <3>3
  <2>4. t = <<>>
    BY <2>3, EmptySeq
  <2>5. BatchesOf(t) = <<>>
    BY <2>4 DEF BatchesOf
  <2>. QED  BY <2>2, <2>5, HandedIs
<1>4. IsFiniteSet(Cells(Told(es))) /\ Total(Told(es)) = 0
  <2>1. \A x \in DOMAIN Told(es) : Told(es)[x] = 0
    BY <1>2 DEF Told
  <2>. QED  BY <2>1, TotalOfNone
<1>. QED  BY <1>1, <1>3, <1>4 DEF Reported, Told

LEMMA SentRead ==
    ASSUME RuntimeTypeOK, Reads, NEW q \in Peer
    PROVE  Sent(q)' = Sent(q) /\ heard'[q] \in Batches
<1>1. PICK h : h = heard[q] \o Handed(events, q)
  OBVIOUS
<1>2. h \in Batches
  BY <1>1, SentIs DEF Body
<1>3. heard'[q] = h /\ inboxes'[q] = inboxes[q] /\ Handed(events', q) = <<>>
  BY <1>1, NothingQueued DEF Reads
<1>4. h \o <<>> = h
  BY <1>2, ConcatEmptySeq DEF Batches
<1>5. Sent(q)' = h \o <<inboxes[q]>>
  BY <1>3, <1>4 DEF Sent
<1>. QED  BY <1>1, <1>2, <1>3, <1>5 DEF Sent

---------------------------------------------------------------------------
(* The invariant is kept.                                                  *)

LEMMA QuietType ==
    ASSUME RuntimeTypeOK, Quietly
    PROVE  events' \in Seq(EventType)
<1>1. PICK a \in EventType, b \in EventType :
              \/ events' = Append(events, a)
              \/ events' = Append(Append(events, a), b)
  BY DEF Quietly, Quiet
<1>2. PICK es : es = Append(events, a)
  OBVIOUS
<1>3. es \in Seq(EventType)
  BY <1>2, AppendProperties DEF RuntimeTypeOK
<1>4. Append(es, b) \in Seq(EventType)
  BY <1>3, AppendProperties
<1>. QED  BY <1>1, <1>2, <1>3, <1>4

LEMMA RuntimeTypeStep ==
    ASSUME RuntimeTypeOK, [RuntimeNext]_allVars
    PROVE  RuntimeTypeOK'
<1>1. TypeOK' /\ Handing
  BY RuntimeStep
<1>2. CASE Elsewhere
  BY <1>1, <1>2, QuietType DEF Elsewhere, RuntimeTypeOK, historyVars
<1>3. ASSUME NEW p \in Peer, NEW f \in Feed, Follows(p, f)
      PROVE  RuntimeTypeOK'
  <2>1. Len(log[f]) \in Nat
    BY LenProperties DEF RuntimeTypeOK, TypeOK
  <2>2. since' \in [Peer \X Feed -> Nat \union {None}]
    BY <1>3, <2>1 DEF Follows, RuntimeTypeOK
  <2>3. events' \in Seq(EventType)
    BY <1>3, QuietType DEF Follows
  <2>. QED  BY <1>1, <1>3, <2>2, <2>3 DEF Follows, RuntimeTypeOK
<1>4. ASSUME NEW p \in Peer, NEW f \in Feed, NEW s \in Story, Publishes(p, f, s)
      PROVE  RuntimeTypeOK'
  <2>1. Len(log[f]) \in Nat
    BY LenProperties DEF RuntimeTypeOK, TypeOK
  <2>2. open' \in [Feed -> SUBSET Nat]
    BY <1>4, <2>1 DEF Publishes, RuntimeTypeOK
  <2>3. events' \in Seq(EventType)
    BY <1>4, AppendProperties DEF Publishes, RuntimeTypeOK
  <2>. QED  BY <1>1, <1>4, <2>2, <2>3 DEF Publishes, RuntimeTypeOK
<1>5. ASSUME NEW p \in Peer, Empties(p)
      PROVE  RuntimeTypeOK'
  <2>1. events' \in Seq(EventType)
    BY <1>5, AppendProperties DEF Empties, RuntimeTypeOK
  <2>. QED  BY <1>1, <1>5, <2>1 DEF Empties, RuntimeTypeOK, historyVars
<1>6. CASE Reads
  <2>1. events' \in Seq(EventType)
    BY <1>6 DEF Reads
  <2>2. \A q \in Peer : heard'[q] \in Batches
    BY <1>6, SentRead
  <2>3. heard' = [q \in Peer |-> heard'[q]]
    BY <1>6 DEF Reads
  <2>4. heard' \in [Peer -> Batches]
    BY <2>2, <2>3
  <2>. QED  BY <1>1, <1>6, <2>1, <2>4 DEF Reads, RuntimeTypeOK
<1>7. CASE UNCHANGED <<subscriptions, inboxes, log, events, historyVars>>
  BY <1>1, <1>7 DEF RuntimeTypeOK, historyVars
<1>. QED  BY <1>1, <1>2, <1>3, <1>4, <1>5, <1>6, <1>7 DEF Handing

\* Batches sent before, or with an empty one more, stay well with the history.
LEMMA SentStaysWell ==
    ASSUME NEW p, NEW bs \in Batches, SentWell(p, bs), IsFiniteSet(Places(bs)),
           UNCHANGED <<log, since, open>>,
           Sent(p)' = bs \/ Sent(p)' = Append(bs, <<>>)
    PROVE  IsFiniteSet(Places(Sent(p)))' /\ SentWell(p, Sent(p))'
<1>1. PICK new : new = Sent(p)'
  OBVIOUS
<1>2. /\ Places(new) = Places(bs)
      /\ \A x \in Places(bs) : CapsuleAt(new, x) = CapsuleAt(bs, x)
  <2>1. CASE new = bs
    BY <2>1
  <2>2. CASE new = Append(bs, <<>>)
    BY <2>2, PlacesOfMore DEF CapsuleAt
  <2>. QED  BY <1>1, <2>1, <2>2
<1>3. \A x \in Places(new) : OfLog(p, CapsuleAt(new, x))
  BY <1>2 DEF SentWell
<1>4. InSequence(new)
  BY <1>2 DEF SentWell, InSequence
<1>5. NoneMissed(p, new)
  BY <1>2 DEF SentWell, NoneMissed
<1>6. \A c : OfLog(p, c)' <=> OfLog(p, c)
  BY DEF OfLog
<1>7. \A x \in Places(new) : OfLog(p, CapsuleAt(new, x))'
  BY <1>3, <1>6
<1>8. NoneMissed(p, new)'
  BY <1>5 DEF NoneMissed
<1>9. SentWell(p, new)'
  BY <1>4, <1>7, <1>8 DEF SentWell
<1>. QED  BY <1>1, <1>2, <1>9 DEF SentWell, NoneMissed, InSequence

\* A follower that comes to a feed has missed nothing yet.
LEMMA FollowStaysWell ==
    ASSUME RuntimeTypeOK, SinceInv, NEW p \in Peer, NEW f \in Feed, Follows(p, f),
           NEW q \in Peer, SentWell(q, Sent(q)), IsFiniteSet(Places(Sent(q)))
    PROVE  IsFiniteSet(Places(Sent(q)))' /\ SentWell(q, Sent(q))'
<1>1. PICK bs : bs = Sent(q)
  OBVIOUS
<1>2. Sent(q)' = bs
  BY <1>1, SentQuietly DEF Follows
<1>3. log' = log /\ open' = open
  BY DEF Follows
<1>4. \A g \in Feed : since[<<q, g>>] # None => since'[<<q, g>>] = since[<<q, g>>]
  BY DEF Follows, RuntimeTypeOK
<1>5. \A g \in Feed : since[<<q, g>>] = None /\ since'[<<q, g>>] # None =>
          g = f /\ since'[<<q, g>>] = Len(log[f])
  BY DEF Follows, RuntimeTypeOK
<1>6. \A x \in Places(bs) : OfLog(q, CapsuleAt(bs, x))'
  BY <1>1, <1>3, <1>4 DEF SentWell, OfLog
<1>7. NoneMissed(q, bs)'
  <2>. SUFFICES ASSUME NEW g \in Feed, since'[<<q, g>>] # None,
                       NEW n \in open[g], n > since'[<<q, g>>]
                PROVE  \E x \in Places(bs) : CapsuleAt(bs, x).feed = g /\ CapsuleAt(bs, x).n = n
    BY <1>3 DEF NoneMissed
  <2>1. CASE since[<<q, g>>] # None
    BY <1>1, <1>4, <2>1 DEF SentWell, NoneMissed
  <2>2. CASE since[<<q, g>>] = None
    <3>1. g = f /\ n > Len(log[f])
      BY <1>5, <2>2
    <3>2. n \in 1..Len(log[f]) /\ Len(log[f]) \in Nat
      BY <3>1, LenProperties DEF SinceInv, RuntimeTypeOK, TypeOK
    <3>. QED  BY <3>1, <3>2
  <2>. QED  BY <2>1, <2>2
<1>8. InSequence(bs)
  BY <1>1 DEF SentWell
<1>. QED  BY <1>1, <1>2, <1>6, <1>7, <1>8 DEF SentWell, NoneMissed, InSequence

\* A publication goes to the end of what its receivers were sent; who follows
\* an open feed is one of them.
LEMMA PublishStaysWell ==
    ASSUME RuntimeTypeOK, SinceInv, NEW p \in Peer, NEW f \in Feed, NEW s \in Story,
           Publishes(p, f, s),
           NEW q \in Peer, SentWell(q, Sent(q)), IsFiniteSet(Places(Sent(q)))
    PROVE  IsFiniteSet(Places(Sent(q)))' /\ SentWell(q, Sent(q))'
<1>1. PICK bs, new, d : bs = Sent(q) /\ new = Sent(q)' /\ d = Delivery(f, s)
  OBVIOUS
<1>2. PICK n \in Nat : n = Len(log[f])
  BY LenProperties DEF RuntimeTypeOK, TypeOK
<1>3. /\ Len(log'[f]) = n + 1
      /\ \A i \in 1..n : log'[f][i] = log[f][i]
      /\ log'[f][n + 1] = s
      /\ \A g \in Feed : g # f => log'[g] = log[g]
  BY <1>2, LogAfterPublishing DEF Publishes, RuntimeTypeOK
<1>4. d.feed = f /\ d.story = s /\ d.n = n + 1 /\ d \in DeliveryType
  BY <1>1, <1>2, AcceptProperties DEF Delivery, Publishes, Publishing, RuntimeTypeOK
<1>5. since' = since
  BY DEF Publishes
<1>6. bs \in Batches /\ IsFiniteSet(Places(bs))
  BY <1>1, SentIs
<1>7. ASSUME NEW c, OfLog(q, c)
      PROVE  OfLog(q, c)' /\ (c.feed = f => c.n \in 1..n)
  <2>1. CASE c.feed = f
    <3>1. c.n \in 1..n /\ c.n \in 1..(n + 1)
      BY <1>2, <1>7, <2>1 DEF OfLog
    <3>. QED  BY <1>2, <1>3, <1>5, <1>7, <2>1, <3>1 DEF OfLog
  <2>2. CASE c.feed # f
    BY <1>3, <1>5, <1>7, <2>2 DEF OfLog
  <2>. QED  BY <2>1, <2>2
<1>8. \A x \in Places(bs) : OfLog(q, CapsuleAt(bs, x))
  BY <1>1 DEF SentWell
<1>9. q \in Receivers(f) =>
          q \in subscriptions[f] /\ since[<<q, f>>] # None /\ n + 1 > since[<<q, f>>]
  <2>1. q \in Receivers(f) => since[<<q, f>>] # None /\ since[<<q, f>>] <= n
    BY <1>2 DEF Receivers, SinceInv
  <2>2. since[<<q, f>>] # None => since[<<q, f>>] \in Nat
    BY DEF RuntimeTypeOK
  <2>. QED  BY <2>1, <2>2 DEF Receivers
<1>10. \A g \in Feed : \A m \in open'[g] :
           m \in open[g] \/ (g = f /\ m = n + 1 /\ feeds[f].vis = "public")
  BY <1>2 DEF Publishes, RuntimeTypeOK
<1>11. feeds[f].vis = "public" /\ since[<<q, f>>] # None => q \in Receivers(f)
  BY DEF SinceInv, Receivers, Admitted
<1>12. CASE q \notin Receivers(f)
  <2>1. new = bs
    BY <1>1, <1>12, SentPublished
  <2>2. NoneMissed(q, bs)'
    BY <1>1, <1>5, <1>10, <1>11, <1>12 DEF SentWell, NoneMissed
  <2>3. \A x \in Places(bs) : OfLog(q, CapsuleAt(bs, x))'
    BY <1>7, <1>8
  <2>4. InSequence(bs)
    BY <1>1 DEF SentWell
  <2>. QED  BY <1>1, <1>6, <2>1, <2>2, <2>3, <2>4 DEF SentWell, NoneMissed, InSequence
<1>13. CASE q \in Receivers(f)
  <2>1. PICK b \in Batches, m \in Seq(DeliveryType) : Grown(bs, new, b, m, d)
    BY <1>1, <1>13, SentPublished
  <2>2. PICK last :
           /\ \A x : x \in Places(new) <=> (x \in Places(bs) \/ x = last)
           /\ new[last[1]][last[2]] = d
           /\ \A x \in Places(bs) : /\ new[x[1]][x[2]] = bs[x[1]][x[2]]
                                    /\ Before(x, last) /\ ~Before(last, x)
           /\ ~Before(last, last)
           /\ IsFiniteSet(Places(new))
           /\ Cardinality(Places(new)) = Cardinality(Places(bs)) + 1
    BY <1>4, <1>6, <2>1, PlacesOfGrown
  <2>3. /\ CapsuleAt(new, last) = d
        /\ \A x \in Places(bs) : CapsuleAt(new, x) = CapsuleAt(bs, x)
    BY <2>2 DEF CapsuleAt
  <2>4. OfLog(q, d)'
    BY <1>3, <1>4, <1>5, <1>9, <1>13 DEF OfLog
  <2>5. \A x \in Places(new) : OfLog(q, CapsuleAt(new, x))'
    BY <1>7, <1>8, <2>2, <2>3, <2>4
  <2>6. InSequence(new)
    <3>. SUFFICES ASSUME NEW x \in Places(new), NEW y \in Places(new), Before(x, y),
                         CapsuleAt(new, x).feed = CapsuleAt(new, y).feed
                  PROVE  CapsuleAt(new, x).n < CapsuleAt(new, y).n
      BY DEF InSequence
    <3>1. x \in Places(bs)
      BY <2>2
    <3>2. CASE y \in Places(bs)
      BY <1>1, <2>3, <3>1, <3>2 DEF SentWell, InSequence
    <3>3. CASE y = last
      <4>1. CapsuleAt(new, x).feed = f
        BY <1>4, <2>3, <3>3
      <4>2. CapsuleAt(new, x).n \in 1..n
        BY <1>7, <1>8, <2>3, <3>1, <4>1
      <4>. QED  BY <1>4, <2>3, <3>3, <4>2
    <3>. QED  BY <2>2, <3>2, <3>3
  <2>7. NoneMissed(q, new)'
    <3>. SUFFICES ASSUME NEW g \in Feed, since[<<q, g>>] # None,
                         NEW k \in open'[g], k > since[<<q, g>>]
                  PROVE  \E x \in Places(new) : CapsuleAt(new, x).feed = g /\ CapsuleAt(new, x).n = k
      BY <1>5 DEF NoneMissed
    <3>1. CASE k \in open[g]
      <4>1. PICK x \in Places(bs) : CapsuleAt(bs, x).feed = g /\ CapsuleAt(bs, x).n = k
        BY <1>1, <3>1 DEF SentWell, NoneMissed
      <4>. QED  BY <2>2, <2>3, <4>1
    <3>2. CASE g = f /\ k = n + 1
      BY <1>4, <2>2, <2>3, <3>2
    <3>. QED  BY <1>10, <3>1, <3>2
  <2>. QED  BY <1>1, <2>2, <2>5, <2>6, <2>7 DEF SentWell, NoneMissed, InSequence
<1>. QED  BY <1>12, <1>13

\* When a peer followed a feed stays within its log.
LEMMA SinceStep ==
    ASSUME RuntimeTypeOK, SinceInv, Handing, TypeOK'
    PROVE  SinceInv'
<1>1. CASE UNCHANGED <<subscriptions, log, since, open>>
  BY <1>1 DEF SinceInv
<1>2. ASSUME NEW p \in Peer, NEW f \in Feed, Follows(p, f)
      PROVE  SinceInv'
  <2>1. Len(log[f]) \in Nat
    BY LenProperties DEF RuntimeTypeOK, TypeOK
  <2>2. log' = log /\ open' = open
    BY <1>2 DEF Follows
  <2>3. ASSUME NEW g \in Feed, NEW q \in Peer
        PROVE  /\ q \in subscriptions'[g] <=> since'[<<q, g>>] # None
               /\ since'[<<q, g>>] # None => since'[<<q, g>>] <= Len(log[g])
    <3>1. CASE g = f /\ q = p
      <4>1. q \in subscriptions'[g]
        BY <1>2, <3>1 DEF Follows, RuntimeTypeOK, TypeOK
      <4>2. CASE since[<<p, f>>] = None
        <5>1. since'[<<q, g>>] = Len(log[f])
          BY <1>2, <3>1, <4>2 DEF Follows, RuntimeTypeOK
        <5>2. Len(log[f]) # None
          BY <2>1, RuntimeAssumption
        <5>. QED  BY <2>1, <3>1, <4>1, <5>1, <5>2
      <4>3. CASE since[<<p, f>>] # None
        BY <1>2, <3>1, <4>1, <4>3 DEF Follows, SinceInv
      <4>. QED  BY <4>2, <4>3
    <3>2. CASE ~(g = f /\ q = p)
      <4>1. since'[<<q, g>>] = since[<<q, g>>]
        BY <1>2, <3>2 DEF Follows, RuntimeTypeOK
      <4>2. q \in subscriptions'[g] <=> q \in subscriptions[g]
        BY <1>2, <3>2 DEF Follows, RuntimeTypeOK, TypeOK
      <4>. QED  BY <4>1, <4>2 DEF SinceInv
    <3>. QED  BY <3>1, <3>2
  <2>. QED  BY <2>2, <2>3 DEF SinceInv
<1>3. ASSUME NEW p \in Peer, NEW f \in Feed, NEW s \in Story, Publishes(p, f, s)
      PROVE  SinceInv'
  <2>1. PICK n \in Nat : n = Len(log[f])
    BY LenProperties DEF RuntimeTypeOK, TypeOK
  <2>2. Len(log'[f]) = n + 1 /\ \A g \in Feed : g # f => log'[g] = log[g]
    BY <1>3, <2>1, LogAfterPublishing DEF Publishes, RuntimeTypeOK
  <2>3. since' = since /\ subscriptions' = subscriptions
    BY <1>3 DEF Publishes, Publishing
  <2>4. \A q \in Peer : since[<<q, f>>] # None => since[<<q, f>>] <= Len(log'[f])
    <3>1. \A q \in Peer : since[<<q, f>>] # None => since[<<q, f>>] \in Nat /\ since[<<q, f>>] <= n
      BY <2>1 DEF SinceInv, RuntimeTypeOK
    <3>. QED  BY <2>2, <3>1
  <2>5. ASSUME NEW g \in Feed
        PROVE  open'[g] \subseteq 1..Len(log'[g])
    <3>1. CASE g # f
      BY <1>3, <2>2, <3>1 DEF Publishes, RuntimeTypeOK, SinceInv
    <3>2. CASE g = f
      <4>1. open'[f] \subseteq open[f] \union {n + 1}
        BY <1>3, <2>1 DEF Publishes, RuntimeTypeOK
      <4>2. open[f] \subseteq 1..n
        BY <2>1 DEF SinceInv
      <4>. QED  BY <2>2, <3>2, <4>1, <4>2
    <3>. QED  BY <3>1, <3>2
  <2>6. \A g \in Feed, q \in Peer :
            since[<<q, g>>] # None => since[<<q, g>>] <= Len(log'[g])
    BY <2>2, <2>4 DEF SinceInv
  <2>. QED  BY <2>3, <2>5, <2>6 DEF SinceInv
<1>. QED  BY <1>1, <1>2, <1>3 DEF Handing, Elsewhere, Empties, Reads, historyVars

LEMMA HearStep ==
    ASSUME HearInv, [RuntimeNext]_allVars
    PROVE  HearInv'
<1>1. RuntimeTypeOK /\ SinceInv
  BY DEF HearInv
<1>2. RuntimeTypeOK' /\ Handing /\ TypeOK'
  BY <1>1, RuntimeTypeStep, RuntimeStep
<1>3. SinceInv'
  BY <1>1, <1>2, SinceStep
<1>4. ASSUME NEW q \in Peer
      PROVE  IsFiniteSet(Places(Sent(q)))' /\ SentWell(q, Sent(q))'
  <2>1. PICK bs : bs = Sent(q)
    OBVIOUS
  <2>2. bs \in Batches /\ IsFiniteSet(Places(bs)) /\ SentWell(q, bs)
    BY <1>1, <2>1, SentIs DEF HearInv
  <2>3. CASE Elsewhere
    <3>1. Sent(q)' = bs
      BY <1>1, <2>1, <2>3, SentQuietly DEF Elsewhere, historyVars
    <3>. QED  BY <2>2, <2>3, <3>1, SentStaysWell DEF Elsewhere, historyVars
  <2>4. ASSUME NEW p \in Peer, NEW f \in Feed, Follows(p, f)
        PROVE  IsFiniteSet(Places(Sent(q)))' /\ SentWell(q, Sent(q))'
    BY <1>1, <2>1, <2>2, <2>4, FollowStaysWell
  <2>5. ASSUME NEW p \in Peer, NEW f \in Feed, NEW s \in Story, Publishes(p, f, s)
        PROVE  IsFiniteSet(Places(Sent(q)))' /\ SentWell(q, Sent(q))'
    BY <1>1, <2>1, <2>2, <2>5, PublishStaysWell
  <2>6. ASSUME NEW p \in Peer, Empties(p)
        PROVE  IsFiniteSet(Places(Sent(q)))' /\ SentWell(q, Sent(q))'
    <3>1. Sent(q)' = bs \/ Sent(q)' = Append(bs, <<>>)
      BY <1>1, <2>1, <2>6, SentEmptied
    <3>. QED  BY <2>2, <2>6, <3>1, SentStaysWell DEF Empties, historyVars
  <2>7. CASE Reads
    <3>1. Sent(q)' = bs
      BY <1>1, <2>1, <2>7, SentRead
    <3>. QED  BY <2>2, <2>7, <3>1, SentStaysWell DEF Reads
  <2>8. CASE UNCHANGED <<subscriptions, inboxes, log, events, historyVars>>
    <3>1. Sent(q)' = bs
      BY <2>1, <2>8 DEF Sent, historyVars
    <3>. QED  BY <2>2, <2>8, <3>1, SentStaysWell DEF historyVars
  <2>. QED  BY <1>2, <2>3, <2>4, <2>5, <2>6, <2>7, <2>8 DEF Handing
<1>. QED  BY <1>2, <1>3, <1>4 DEF HearInv

\* At the start nothing was sent.
LEMMA NothingSent ==
    ASSUME RuntimeInit
    PROVE  /\ RuntimeTypeOK
           /\ \A p \in Peer : Places(Sent(p)) = {}
           /\ IsFiniteSet(Cells(Told(events))) /\ Reported(events) = 0
<1>1. Quiet(Event("ready", None, None))
  BY PlainQuiet DEF EventKind
<1>2. PICK e : e = Event("ready", None, None) /\ Quiet(e) /\ e \in EventType
  BY <1>1 DEF Quiet
<1>3. events = Append(<<>>, e) /\ events \in Seq(EventType)
  BY <1>2 DEF RuntimeInit
<1>4. RuntimeTypeOK
  <2>1. TypeOK
    BY DEF RuntimeInit, Init, TypeOK
  <2>2. \A p \in Peer : heard[p] = <<>> /\ <<>> \in Batches
    BY DEF RuntimeInit, Batches
  <2>3. heard \in [Peer -> Batches]
    BY <2>2 DEF RuntimeInit
  <2>. QED  BY <1>3, <2>1, <2>3 DEF RuntimeInit, RuntimeTypeOK
<1>5. ASSUME NEW p \in Peer
      PROVE  Places(Sent(p)) = {}
  <2>1. Handed(events, p) = <<>>
    <3>1. ~Hands(e, p) /\ <<>> \in Seq(EventType)
      BY <1>2 DEF Quiet, Hands
    <3>. QED  BY <1>2, <1>3, <3>1, HandedMore, NothingQueued
  <2>2. heard[p] = <<>> /\ inboxes[p] = <<>>
    BY DEF RuntimeInit, Init
  <2>3. Body(p) = <<>>
    BY <2>1, <2>2 DEF Body
  <2>4. Sent(p) = Append(<<>>, <<>>)
    BY <1>4, <2>2, <2>3, SentIs
  <2>5. PICK z : z = <<>>
    OBVIOUS
  <2>6. z \in Batches /\ Len(z) = 0
    BY <2>5 DEF Batches
  <2>7. Places(z) = {}
    BY <2>6, PlacesAre
  <2>8. IsFiniteSet(Places(z))
    BY <2>7, FS_EmptySet
  <2>9. Places(Append(z, <<>>)) = Places(z)
    BY <2>6, <2>8, PlacesOfMore
  <2>. QED  BY <2>4, <2>5, <2>7, <2>9
<1>6. IsFiniteSet(Cells(Told(events))) /\ Reported(events) = 0
  <2>1. PICK z : z = <<>>
    OBVIOUS
  <2>2. z \in Seq(EventType) /\ IsFiniteSet(Cells(Told(z))) /\ Reported(z) = 0
    BY <2>1, NothingQueued
  <2>3. e.delivered = 0
    BY <1>2 DEF Quiet
  <2>4. /\ IsFiniteSet(Cells(Told(Append(z, e))))
        /\ Reported(Append(z, e)) = Reported(z) + e.delivered
    BY <1>2, <2>2, ReportedMore
  <2>5. events = Append(z, e)
    BY <1>3, <2>1
  <2>. QED  BY <2>2, <2>3, <2>4, <2>5
<1>. QED  BY <1>4, <1>5, <1>6

LEMMA HearInit == RuntimeInit => HearInv
<1>. SUFFICES ASSUME RuntimeInit PROVE HearInv
  OBVIOUS
<1>1. RuntimeTypeOK /\ \A p \in Peer : Places(Sent(p)) = {}
  BY NothingSent
<1>2. SinceInv
  BY DEF SinceInv, RuntimeInit, Init
<1>3. \A p \in Peer, f \in Feed : since[<<p, f>>] = None
  BY DEF RuntimeInit
<1>4. ASSUME NEW p \in Peer
      PROVE  IsFiniteSet(Places(Sent(p))) /\ SentWell(p, Sent(p))
  <2>1. PICK bs : bs = Sent(p) /\ Places(bs) = {}
    BY <1>1
  <2>2. NoneMissed(p, bs)
    BY <1>3 DEF NoneMissed
  <2>3. IsFiniteSet(Places(bs)) /\ SentWell(p, bs)
    BY <2>1, <2>2, FS_EmptySet DEF SentWell, InSequence
  <2>. QED  BY <2>1, <2>3
<1>. QED  BY <1>1, <1>2, <1>4 DEF HearInv

LEMMA HearIs == HearInv => HearsAllSince
<1>. SUFFICES ASSUME HearInv, NEW p \in Peer, NEW f \in Feed
              PROVE  LET batches == Sent(p)
                         Capsule(x) == batches[x[1]][x[2]]
                         got == {x \in Places(batches) : Capsule(x).feed = f}
                     IN
                     /\ \A x \in got : /\ since[<<p, f>>] # None
                                       /\ Capsule(x).n > since[<<p, f>>]
                                       /\ Capsule(x).story = log[f][Capsule(x).n]
                     /\ \A x, y \in got : Before(x, y) => Capsule(x).n < Capsule(y).n
                     /\ since[<<p, f>>] # None =>
                           \A n \in open[f] : n > since[<<p, f>>] =>
                               \E x \in got : Capsule(x).n = n
  BY DEF HearsAllSince
<1>1. PICK bs : bs = Sent(p) /\ SentWell(p, bs)
  BY DEF HearInv
<1>2. \A x \in Places(bs) : OfLog(p, bs[x[1]][x[2]])
  BY <1>1 DEF SentWell, CapsuleAt
<1>3. \A x, y \in Places(bs) :
          Before(x, y) /\ bs[x[1]][x[2]].feed = bs[y[1]][y[2]].feed =>
              bs[x[1]][x[2]].n < bs[y[1]][y[2]].n
  BY <1>1 DEF SentWell, InSequence, CapsuleAt
<1>4. since[<<p, f>>] # None =>
          \A n \in open[f] : n > since[<<p, f>>] =>
              \E x \in Places(bs) : bs[x[1]][x[2]].feed = f /\ bs[x[1]][x[2]].n = n
  BY <1>1 DEF SentWell, NoneMissed, CapsuleAt
<1>. QED  BY <1>1, <1>2, <1>3, <1>4 DEF OfLog

\* "peers are never subscribed automatically" (README), for every set of peers,
\* feeds and stories and any number of pending events: what the events hand a
\* peer is what was published on the feeds it follows since it followed them,
\* in that order, without repetition, and without a gap where it was public.
THEOREM HearsWhatFollows == RuntimeSpec => []HearsAllSince
BY HearInit, HearStep, HearIs, PTL DEF RuntimeSpec

---------------------------------------------------------------------------
(* The deliveries the events report.                                       *)

LEMMA ReportedQuietly ==
    ASSUME RuntimeTypeOK, Quietly, IsFiniteSet(Cells(Told(events)))
    PROVE  IsFiniteSet(Cells(Told(events'))) /\ Reported(events') = Reported(events)
<1>1. PICK a, b : /\ Quiet(a) /\ Quiet(b)
                  /\ \/ events' = Append(events, a)
                     \/ events' = Append(Append(events, a), b)
  BY DEF Quietly
<1>2. a \in EventType /\ b \in EventType /\ a.delivered = 0 /\ b.delivered = 0
  BY <1>1 DEF Quiet
<1>3. PICK es : es = Append(events, a)
  OBVIOUS
<1>4. /\ es \in Seq(EventType) /\ IsFiniteSet(Cells(Told(es)))
      /\ Reported(es) = Reported(events) + a.delivered /\ Reported(events) \in Nat
  BY <1>2, <1>3, AppendProperties, ReportedMore DEF RuntimeTypeOK
<1>5. /\ IsFiniteSet(Cells(Told(Append(es, b))))
      /\ Reported(Append(es, b)) = Reported(es) + b.delivered
  BY <1>2, <1>4, ReportedMore
<1>6. Reported(es) = Reported(events) /\ Reported(Append(es, b)) = Reported(events)
  BY <1>2, <1>4, <1>5
<1>7. CASE events' = es
  BY <1>4, <1>6, <1>7
<1>8. CASE events' = Append(es, b)
  BY <1>5, <1>6, <1>8
<1>. QED  BY <1>1, <1>3, <1>7, <1>8

\* The numbers after a step that sends nothing.
LEMMA NumbersSame ==
    ASSUME \A q \in Peer : Places(Sent(q))' = Places(Sent(q))
    PROVE  Numbers' = Numbers
BY DEF Numbers

\* A publication is counted once for every receiver.
LEMMA NumbersPublished ==
    ASSUME HearInv, NEW p \in Peer, NEW f \in Feed, NEW s \in Story,
           Publishes(p, f, s), IsFiniteSet(Cells(Numbers))
    PROVE  /\ IsFiniteSet(Cells(Numbers'))
           /\ Total(Numbers') = Total(Numbers) + Cardinality(Receivers(f))
<1>1. RuntimeTypeOK
  BY DEF HearInv
<1>2. /\ Receivers(f) \subseteq Peer /\ IsFiniteSet(Receivers(f))
  BY <1>1, ReceiversFinite DEF RuntimeTypeOK
<1>3. ASSUME NEW q \in Peer
      PROVE  Cardinality(Places(Sent(q)))' =
                 IF q \in Receivers(f) THEN Cardinality(Places(Sent(q))) + 1
                                       ELSE Cardinality(Places(Sent(q)))
  <2>1. PICK old, new, d : old = Sent(q) /\ new = Sent(q)' /\ d = Delivery(f, s)
    OBVIOUS
  <2>2. CASE q \notin Receivers(f)
    BY <1>1, <2>2, SentPublished
  <2>3. CASE q \in Receivers(f)
    <3>1. IsFiniteSet(Places(old)) /\ d \in DeliveryType
      BY <1>1, <2>1, AcceptProperties DEF HearInv, Publishes, Publishing, RuntimeTypeOK
    <3>2. PICK b \in Batches, m \in Seq(DeliveryType) : Grown(old, new, b, m, d)
      BY <1>1, <2>1, <2>3, SentPublished
    <3>3. Cardinality(Places(new)) = Cardinality(Places(old)) + 1
      BY <3>1, <3>2, PlacesOfGrown
    <3>. QED  BY <2>1, <2>3, <3>3
  <2>. QED  BY <2>2, <2>3
<1>4. PICK g, h, R : g = Numbers /\ h = Numbers' /\ R = Receivers(f)
  OBVIOUS
<1>5. DOMAIN g = Peer /\ DOMAIN h = Peer
  BY <1>4 DEF Numbers
<1>6. ASSUME NEW q \in Peer
      PROVE  /\ g[q] \in Nat
             /\ h[q] = IF q \in R THEN g[q] + 1 ELSE g[q]
  <2>1. g[q] = Cardinality(Places(Sent(q))) /\ h[q] = Cardinality(Places(Sent(q)))'
    BY <1>4 DEF Numbers
  <2>2. Cardinality(Places(Sent(q))) \in Nat
    BY FS_CardinalityType DEF HearInv
  <2>. QED  BY <1>3, <1>4, <2>1, <2>2
<1>7. R \in SUBSET DOMAIN g /\ IsFiniteSet(R) /\ IsFiniteSet(Cells(g))
  BY <1>2, <1>4, <1>5
<1>8. IsFiniteSet(Cells(h)) /\ Total(h) = Total(g) + Cardinality(R)
  BY <1>5, <1>6, <1>7, TotalOfGrown
<1>. QED  BY <1>4, <1>8

LEMMA CountStep ==
    ASSUME HearInv, CountInv, [RuntimeNext]_allVars
    PROVE  CountInv'
<1>1. RuntimeTypeOK /\ Handing
  BY RuntimeStep DEF HearInv
<1>2. /\ sent \in Nat /\ IsFiniteSet(Cells(Told(events))) /\ IsFiniteSet(Cells(Numbers))
      /\ sent + Reported(events) = Total(Numbers)
      /\ Reported(events) \in Nat /\ Total(Numbers) \in Nat
  <2>1. Told(events) = [i \in DOMAIN events |-> events[i].delivered]
    BY DEF Told
  <2>2. Reported(events) = Total(Told(events))
    BY <2>1 DEF Reported
  <2>. QED  BY <2>2, FS_CardinalityType DEF CountInv, DeliveredAddsUp, Numbers, Total
<1>3. ASSUME sent' \in Nat, IsFiniteSet(Cells(Told(events'))), IsFiniteSet(Cells(Numbers')),
             sent' + Reported(events') = Total(Numbers')
      PROVE  CountInv'
  BY <1>3 DEF CountInv, DeliveredAddsUp, Numbers
<1>4. ASSUME Quietly, sent' = sent, UNCHANGED <<heard, inboxes>>
      PROVE  CountInv'
  <2>1. Numbers' = Numbers
    BY <1>1, <1>4, SentQuietly, NumbersSame
  <2>2. IsFiniteSet(Cells(Told(events'))) /\ Reported(events') = Reported(events)
    BY <1>1, <1>2, <1>4, ReportedQuietly
  <2>. QED  BY <1>2, <1>3, <1>4, <2>1, <2>2
<1>5. ASSUME NEW p \in Peer, NEW f \in Feed, NEW s \in Story, Publishes(p, f, s)
      PROVE  CountInv'
  <2>1. /\ IsFiniteSet(Cells(Numbers'))
        /\ Total(Numbers') = Total(Numbers) + Cardinality(Receivers(f))
    BY <1>2, <1>5, NumbersPublished
  <2>2. PICK e \in EventType : /\ e.delivered = Cardinality(Receivers(f))
                               /\ events' = Append(events, e)
    BY <1>5 DEF Publishes
  <2>3. /\ IsFiniteSet(Cells(Told(events')))
        /\ Reported(events') = Reported(events) + Cardinality(Receivers(f))
    BY <1>1, <1>2, <2>2, ReportedMore DEF RuntimeTypeOK
  <2>4. sent' = sent /\ Cardinality(Receivers(f)) \in Nat
    BY <1>1, <1>5, ReceiversFinite DEF Publishes, RuntimeTypeOK
  <2>. QED  BY <1>2, <1>3, <2>1, <2>3, <2>4
<1>6. ASSUME NEW p \in Peer, Empties(p)
      PROVE  CountInv'
  <2>1. PICK e \in EventType : e.delivered = 0 /\ events' = Append(events, e)
    BY <1>6 DEF Empties
  <2>2. IsFiniteSet(Cells(Told(events'))) /\ Reported(events') = Reported(events)
    BY <1>1, <1>2, <2>1, ReportedMore DEF RuntimeTypeOK
  <2>3. ASSUME NEW q \in Peer
        PROVE  Places(Sent(q))' = Places(Sent(q))
    <3>1. PICK bs, new : bs = Sent(q) /\ new = Sent(q)'
      OBVIOUS
    <3>2. bs \in Batches /\ IsFiniteSet(Places(bs))
      BY <1>1, <3>1, SentIs DEF HearInv
    <3>3. new = bs \/ new = Append(bs, <<>>)
      BY <1>1, <1>6, <3>1, SentEmptied
    <3>4. Places(new) = Places(bs)
      BY <3>2, <3>3, PlacesOfMore
    <3>. QED  BY <3>1, <3>4
  <2>4. Numbers' = Numbers
    BY <2>3, NumbersSame
  <2>5. sent' = sent
    BY <1>6 DEF Empties, historyVars
  <2>. QED  BY <1>2, <1>3, <2>2, <2>4, <2>5
<1>7. CASE Reads
  <2>1. /\ IsFiniteSet(Cells(Told(events'))) /\ Reported(events') = 0
        /\ sent' = sent + Reported(events)
    BY <1>7, NothingQueued DEF Reads
  <2>2. Numbers' = Numbers
    BY <1>1, <1>7, SentRead, NumbersSame
  <2>. QED  BY <1>2, <1>3, <2>1, <2>2
<1>8. CASE UNCHANGED <<subscriptions, inboxes, log, events, historyVars>>
  <2>1. Numbers' = Numbers /\ sent' = sent /\ events' = events
    BY <1>8, NumbersSame DEF Sent, historyVars
  <2>. QED  BY <1>2, <1>3, <2>1
<1>9. CASE Elsewhere
  BY <1>4, <1>9 DEF Elsewhere, historyVars
<1>10. ASSUME NEW p \in Peer, NEW f \in Feed, Follows(p, f)
       PROVE  CountInv'
  BY <1>4, <1>10 DEF Follows
<1>. QED  BY <1>1, <1>5, <1>6, <1>7, <1>8, <1>9, <1>10 DEF Handing

LEMMA CountInit == RuntimeInit => CountInv
<1>. SUFFICES ASSUME RuntimeInit PROVE CountInv
  OBVIOUS
<1>1. /\ \A p \in Peer : Places(Sent(p)) = {}
      /\ IsFiniteSet(Cells(Told(events))) /\ Reported(events) = 0
  BY NothingSent
<1>2. \A p \in DOMAIN Numbers : Numbers[p] = 0
  BY <1>1, FS_EmptySet DEF Numbers
<1>3. IsFiniteSet(Cells(Numbers)) /\ Total(Numbers) = 0
  BY <1>2, TotalOfNone
<1>4. sent = 0
  BY DEF RuntimeInit
<1>. QED  BY <1>1, <1>3, <1>4 DEF CountInv, DeliveredAddsUp, Numbers

\* The deliveries that events report are the capsules handed to the peers or
\* waiting for them, for any number of peers, feeds and pending events.
THEOREM ReportsAddUp == RuntimeSpec => []DeliveredAddsUp
<1>1. CountInv => DeliveredAddsUp
  BY DEF CountInv
<1>. QED
  BY HearInit, HearStep, CountInit, CountStep, <1>1, PTL DEF RuntimeSpec
=============================================================================
