----------------------------- MODULE EdgeAccess -----------------------------
(***************************************************************************)
(* Who may read and write what at the edge.  A user signs in with GitHub   *)
(* through a browser page whose callback the edge turns into a session     *)
(* with claims: the organisation that was asked for and the user's teams   *)
(* in it, true at that moment and kept for SessionTtl.  `serve` keeps the  *)
(* session it started with.  Meanwhile GitHub changes: members leave, and  *)
(* logins change hands.                                                    *)
(*                                                                         *)
(* A publish request is one step (EdgeSnapshot has its locks, its file and *)
(* its limits).  A question is several: the edge checks the session and    *)
(* asks GitHub for the login first, then takes the feeds and the headlines *)
(* one lock at a time.  Feeds and headlines are sets; what the code takes  *)
(* from the first of a list is here taken from any.                        *)
(*                                                                         *)
(* Wording, signatures of tokens and capsules, other networks and          *)
(* protocols and an edge restricted to one organisation are left out.      *)
(***************************************************************************)
EXTENDS Integers, FiniteSets, Sequences

CONSTANTS
    User, Login, Label, Topic,
    Publisher, Reader,  \* the users that publish and the users that read
    Org, Team, OrgOf,   \* OrgOf[t] is the organisation of team t
    Public,             \* the access of what anybody may see
    None,
    Members,            \* pairs of a user and a group GitHub starts with
    Logins,             \* the login of each user at the start
    LowQuality,         \* topics whose copy is not fit for anybody
    Filters,            \* the filters of the routes that are asked for
    SessionTtl,         \* 7 days
    HeadlineTtl,        \* snapshot_headline_ttl
    FeedTtl,            \* snapshot_feed_ttl
    MaxClock,           \* bound: the time
    MaxLogins,          \* bound: sign-ins
    MaxPosts,           \* bound: requests of publishers
    MaxChanges,         \* bound: changes at GitHub
    MaxAsks             \* bound: questions

Group == Org \union Team
Access == Group \union {Public}
Feed == User \X Label           \* publish_feed_id: github:<user>:<label>

\* What a route keeps of the labels and the topics.
Filter == [labels : SUBSET Label, topics : SUBSET Topic]

Route == Login \union Group \union {Public}     \* Public: global discovery

ASSUME GroupsAssumption ==
    /\ OrgOf \in [Team -> Org] /\ Org \intersect Team = {}
    /\ Public \notin Group /\ None \notin Access
    /\ Login \intersect Access = {} /\ None \notin Login /\ None \notin User

ASSUME GithubAssumption ==
    /\ Publisher \subseteq User /\ Reader \subseteq User
    /\ Members \subseteq User \X Group
    /\ Logins \in [User -> Login \union {None}]

ASSUME FiltersAssumption == Filters \subseteq Filter

ASSUME BoundsAssumption ==
    /\ SessionTtl \in Nat \ {0} /\ HeadlineTtl \in Nat /\ FeedTtl \in Nat
    /\ MaxClock \in Nat /\ MaxLogins \in Nat /\ MaxPosts \in Nat
    /\ MaxChanges \in Nat /\ MaxAsks \in Nat

\* What a stored session holds.
Session == [user : User, login : Login \union {None},
            scopes : SUBSET {"read:org"}, groups : SUBSET Group,
            expires : Nat]

VARIABLES
    member,     \* GitHub: who belongs to what
    loginOf,    \* GitHub: the login of each user, None if not in Login
    left,       \* history variable: when a user last left a group, or -1
    stored,     \* the session of each user's client, or None
    serving,    \* what each user's `serve` publishes with, or None
    feeds, headlines,
    asking,     \* the question the edge is answering or answered last
    clock,
    count       \* logins, posts, changes and asks so far

github == <<member, loginOf, left>>
client == <<stored, serving>>
store == <<feeds, headlines>>
vars == <<github, client, store, asking, clock, count>>

Init ==
    /\ member = Members /\ loginOf = Logins
    /\ left = [m \in User \X Group |-> -1]
    /\ stored = [u \in User |-> None]
    /\ serving = [u \in User |-> None]
    /\ feeds = {} /\ headlines = {}
    /\ asking = None
    /\ clock = 0
    /\ count = [logins |-> 0, posts |-> 0, changes |-> 0, asks |-> 0]

---------------------------------------------------------------------------
(* GitHub and time.                                                        *)

\* Whoever leaves an organisation leaves its teams.
Leave(u, g) ==
    /\ <<u, g>> \in member
    /\ count.changes < MaxChanges
    /\ count' = [count EXCEPT !.changes = @ + 1]
    /\ LET gone == {<<u, h>> : h \in {g} \union {t \in Team : OrgOf[t] = g}}
                     \intersect member
       IN  /\ member' = member \ gone
           /\ left' = [m \in User \X Group |->
                          IF m \in gone THEN clock ELSE left[m]]
    /\ UNCHANGED <<loginOf, client, store, asking, clock>>

\* A user takes the login l, or one outside Login; whoever had l gave it up.
Rename(u, l) ==
    /\ loginOf[u] # l
    /\ count.changes < MaxChanges
    /\ count' = [count EXCEPT !.changes = @ + 1]
    /\ loginOf' = [v \in User |-> IF v = u THEN l
                              ELSE IF loginOf[v] = l THEN None ELSE loginOf[v]]
    /\ UNCHANGED <<member, left, client, store, asking, clock>>

Tick ==
    /\ clock < MaxClock
    /\ clock' = clock + 1
    /\ UNCHANGED <<github, client, store, asking, count>>

---------------------------------------------------------------------------
(* Signing in.                                                             *)

Live(s) == s # None /\ s.expires > clock

TeamsIn(u, org) == {t \in Team : OrgOf[t] = org /\ <<u, t>> \in member}

\* The claims of a session asked for with org: teams are left out when they
\* cannot be fetched.
Claims(u, org) ==
    IF org = None THEN {{}}
    ELSE {{org}, {org} \union TeamsIn(u, org)}

\* What callback_github grants u: claims that GitHub has just confirmed.
Grant(u, org, claims) ==
    [user |-> u, login |-> loginOf[u],
     scopes |-> IF org = None THEN {} ELSE {"read:org"},
     groups |-> claims, expires |-> clock + SessionTtl]

\* fetch_github_org_membership
IsMember(u, org) == <<u, org>> \in member

\* A sign-in, from github_cli_login to the file of the session; with an
\* organisation, GitHub must report an active member.  A sign-in that fails
\* anywhere, or whose page returns with another state, stores nothing.
SignIn(u, org) ==
    /\ count.logins < MaxLogins
    /\ org # None => IsMember(u, org)
    /\ count' = [count EXCEPT !.logins = @ + 1]
    /\ \E claims \in Claims(u, org) :
          stored' = [stored EXCEPT ![u] = Grant(u, org, claims)]
    /\ UNCHANGED <<github, serving, store, asking, clock>>

---------------------------------------------------------------------------
(* Publishing.                                                             *)

OrgOfAccess(a) == IF a \in Team THEN OrgOf[a] ELSE a

\* load_publish_session for a feed with the access a.
MayServe(s, a) ==
    /\ Live(s)
    /\ a # Public => "read:org" \in s.scopes /\ OrgOfAccess(a) \in s.groups

\* `serve` starts, for the first time or again.
Serve(u, a) ==
    /\ MayServe(stored[u], a)
    /\ serving' = [serving EXCEPT ![u] = [session |-> stored[u], access |-> a]]
    /\ UNCHANGED <<github, stored, store, asking, clock, count>>

\* verify_bearer_session and publish_access_policy.
Accepts(s, a) ==
    /\ Live(s)
    /\ a # Public => "read:org" \in s.scopes /\ a \in s.groups

RecentFeeds == {f \in feeds : clock - f.seen <= FeedTtl}
RecentHeadlines == {h \in headlines : clock - h.at <= HeadlineTtl}

\* The headlines once h is pushed: a story that is there already stays as
\* it is, with the access it was posted with.
Pushed(h) ==
    IF \E g \in RecentHeadlines : g.feed = h.feed /\ g.topic = h.topic
    THEN RecentHeadlines
    ELSE RecentHeadlines \union {h}

\* network_publish_verified with one capsule, or none to say the feed is there.
\* A request that is refused changes nothing.
Publish(u, label, topic) ==
    /\ serving[u] # None
    /\ Accepts(serving[u].session, serving[u].access)
    /\ count.posts < MaxPosts
    /\ count' = [count EXCEPT !.posts = @ + 1]
    /\ LET item == [feed |-> <<u, label>>, access |-> serving[u].access,
                    login |-> serving[u].session.login]
       IN  /\ feeds' = {f \in RecentFeeds : f.feed # item.feed} \union
                          {[feed |-> item.feed, access |-> item.access,
                            login |-> item.login, seen |-> clock]}
           /\ headlines' = IF topic = None THEN headlines
                           ELSE Pushed([feed |-> item.feed, topic |-> topic,
                                        access |-> item.access,
                                        login |-> item.login, at |-> clock])
    /\ UNCHANGED <<github, client, asking, clock>>

---------------------------------------------------------------------------
(* Questions.                                                              *)

\* session_can_access_policy
CanSee(s, a) == a = Public \/ (s # None /\ a \in s.groups)

\* Faulty variant: the route of a team shows that team alone.
OnlyOwn(g, a) == a = g

\* access_permits_org_route: the route of a team also shows the
\* feeds of its organisation.
OnRoute(g, a) == a = g \/ (g \in Team /\ a = OrgOf[g])

\* headline_matches_reel_filter and the quality of the copy.
Admits(filter, h) ==
    /\ h.feed[2] \in filter.labels /\ h.topic \in filter.topics
    /\ h.topic \notin LowQuality

\* Faulty variant: a headline is the account's by its login too.
SameLogin(q, h) == h.feed[1] = q.account \/ h.login = q.name

\* headline_matches_github_route_with_access: whose headline it is; the
\* account is known by its number.
SameAccount(q, h) == h.feed[1] = q.account

\* feed_matches_github_route_with_access: a feed is matched by login too.
FeedOfAccount(q, f) == f.feed[1] = q.account \/ f.login = q.name

\* An answer from the snapshot alone has what was posted under the login.
InName(q, i) == q.known \/ i.login = q.name

\* Whether the question q may see the item i.
Shown(q, i) ==
    \/ q.route = Public /\ CanSee(None, i.access)
    \/ q.route \in Group /\ OnRoute(q.route, i.access)
    \/ q.route \in Login /\ CanSee(q.session, i.access) /\ InName(q, i)

HeadlinesFor(q) ==
    {h \in RecentHeadlines :
        Shown(q, h) /\ Admits(q.filter, h) /\ (q.route \in Login => SameAccount(q, h))}

FeedsFor(q) ==
    {f \in RecentFeeds :
        /\ Shown(q, f)
        /\ q.route # Public => f.feed[2] \in q.filter.labels
        /\ q.route \in Login => FeedOfAccount(q, f)}

View(i) == [feed |-> i.feed, access |-> i.access]

\* feed_views_from_headlines: one view for each feed of hs.
Views(hs) ==
    {vs \in SUBSET {View(h) : h \in hs} :
        /\ \A v, w \in vs : v.feed = w.feed => v = w
        /\ {v.feed : v \in vs} = {h.feed : h \in hs}}

\* merge_resolve_feed_views: what is listed stays.
Merged(vs, more) ==
    vs \union {v \in more : \A w \in vs : w.feed # v.feed}

\* What a question reads, one lock at a time: the route of a user starts
\* with the feed records, the others with the headlines.
Plan(route, known) ==
    IF route \notin Login THEN <<"headlines", "feeds", "views">>
    ELSE IF known THEN <<"feeds", "views", "headlines">>
    ELSE <<"feeds", "headlines">>

\* resolve_org_like lets in a live session with the claims of the route; any
\* other route is open to all, and an expired session counts as none.
Admitted(s, route) ==
    route \in Group => /\ s # None /\ "read:org" \in s.scopes
                       /\ {route, OrgOfAccess(route)} \subseteq s.groups

Known(l) == \E u \in User : loginOf[u] = l

\* The accounts a login may stand for: its owner, or, when GitHub knows no
\* such login, the publisher of what may be seen under it.
Accounts(l, s) ==
    LET seen == {i \in RecentFeeds : i.login = l /\ CanSee(s, i.access)}
                  \union {i \in RecentHeadlines : /\ i.login = l
                                                  /\ CanSee(s, i.access)
                                                  /\ i.topic \notin LowQuality}
    IN  IF Known(l) THEN {u \in User : loginOf[u] = l}
        ELSE {i.feed[1] : i \in seen}

\* Faulty variant: an expired session still counts.
StaleBearer(v) == IF v = None THEN None ELSE stored[v]

\* verify_bearer_session for a question of v, None when v is not signed in.
Bearer(v) == IF v = None \/ ~Live(stored[v]) THEN None ELSE stored[v]

Answering == asking # None /\ asking.todo # <<>>

\* A question of v; one GitHub answers with an error is not one here.
Ask(v, route, filter) ==
    /\ ~Answering
    /\ count.asks < MaxAsks
    /\ count' = [count EXCEPT !.asks = @ + 1]
    /\ Admitted(Bearer(v), route)
    /\ \E account \in IF route \in Login THEN Accounts(route, Bearer(v))
                      ELSE {None} :
          asking' = [by |-> v, session |-> Bearer(v), route |-> route,
                     filter |-> filter, account |-> account,
                     name |-> IF route \in Login THEN route ELSE None,
                     known |-> Known(route),
                     todo |-> Plan(route, Known(route)), feeds |-> {}, views |-> {},
                     headlines |-> {}, at |-> clock, there |-> headlines]
    /\ UNCHANGED <<github, client, store, clock>>

\* Faulty variant: no answer lists the views of its own headlines.
FinishAsRead(q) ==
    IF q.todo # <<>> THEN {q}
    ELSE {[q EXCEPT !.feeds = Merged({View(f) : f \in q.feeds}, q.views)]}

\* The answer lists the views of its own headlines first, then the rest;
\* global discovery lists the feeds as they were read.
Finish(q) ==
    IF q.todo # <<>> THEN {q}
    ELSE {[q EXCEPT !.feeds =
              Merged(Merged(own, {View(f) : f \in q.feeds}), q.views)] :
             own \in IF q.route = Public THEN {{}} ELSE Views(q.headlines)}

ReadFeeds ==
    /\ Answering /\ Head(asking.todo) = "feeds"
    /\ asking' \in Finish([asking EXCEPT !.todo = Tail(@),
                                         !.feeds = FeedsFor(asking)])
    /\ UNCHANGED <<github, client, store, clock, count>>

ReadViews ==
    /\ Answering /\ Head(asking.todo) = "views"
    /\ \E vs \in Views(HeadlinesFor([asking EXCEPT !.filter =
                          IF asking.route = Public
                          THEN [labels |-> Label, topics |-> Topic] ELSE @])) :
          asking' \in Finish([asking EXCEPT !.todo = Tail(@), !.views = vs])
    /\ UNCHANGED <<github, client, store, clock, count>>

ReadHeadlines ==
    /\ Answering /\ Head(asking.todo) = "headlines"
    /\ asking' \in Finish([asking EXCEPT !.todo = Tail(@),
                                         !.headlines = HeadlinesFor(asking)])
    /\ UNCHANGED <<github, client, store, clock, count>>

---------------------------------------------------------------------------
Github ==
    \/ \E u \in User, g \in Group : Leave(u, g)
    \/ \E u \in User, l \in Login \union {None} : Rename(u, l)

Publishing ==
    \/ \E u \in Publisher, a \in Access : Serve(u, a)
    \/ \E u \in Publisher, l \in Label, t \in Topic \union {None} : Publish(u, l, t)

Questions ==
    \/ \E v \in Reader \union {None}, r \in Route, f \in Filters : Ask(v, r, f)
    \/ ReadFeeds \/ ReadViews \/ ReadHeadlines

Next ==
    \/ Github \/ Tick
    \/ \E u \in User, org \in Org \union {None} : SignIn(u, org)
    \/ Publishing \/ Questions

Spec == Init /\ [][Next]_vars

---------------------------------------------------------------------------
(* Properties.                                                             *)

Answered == asking # None /\ ~Answering

\* u belonged to g at the time t or less than SessionTtl before.
Recently(u, g, t) ==
    <<u, g>> \in member \/ (left[<<u, g>>] # -1 /\ t < left[<<u, g>>] + SessionTtl)

\* Whatever the order of sign-ins, departures, postings and reads: an item of
\* a group in an answer, story or feed record, went to a user GitHub counted
\* as a member less than SessionTtl before the question; in particular
\* nobody finds one without signing in, nor by global discovery (README.md:129).
OnlyRecentMembersSee ==
    asking # None =>
        \A i \in asking.headlines \union asking.feeds \union asking.views :
            i.access # Public => /\ asking.by # None
                                 /\ Recently(asking.by, i.access, asking.at)

\* The answer to a route names the feed of each of its stories, although the
\* feeds were read at another moment than the stories and a feed may have
\* been posted, forgotten or turned private in between.
HeadlinesHaveTheirFeed ==
    Answered /\ asking.route # Public =>
        \A h \in asking.headlines : \E f \in asking.feeds : f.feed = h.feed

\* The stories in the answer to a login are of the account the answer is
\* about, also when the login had another owner when they were posted.
StoriesAreTheAccounts ==
    Answered /\ asking.route \in Login =>
        \A h \in asking.headlines : h.feed[1] = asking.account

\* A member who asks for the route of a team or organisation gets every story of
\* that group, and a team's member those of its organisation too, that was
\* there before the question and still is, within the filter.
NothingVisibleMissing ==
    Answered /\ asking.route \in Group =>
        \A h \in asking.there \intersect RecentHeadlines :
            /\ h.access \in {asking.route, OrgOfAccess(asking.route)}
            /\ Admits(asking.filter, h)
            => h \in asking.headlines
=============================================================================
