-------------------------- MODULE EdgeAccessProofs --------------------------
(***************************************************************************)
(* OnlyRecentMembersSee, StoriesAreTheAccounts, HeadlinesHaveTheirFeed and *)
(* NothingVisibleMissing for every number of users, groups, postings and   *)
(* questions.  For the first, the inductive invariant adds what ties an    *)
(* answer to GitHub: every claim of a stored session was true when it was  *)
(* granted, an answer shows only what its session claims, and its session  *)
(* was live when the question came.  For the last, it follows the reads of *)
(* a question: the headlines of a group are read first, and a headline     *)
(* that was there before goes only when it is too old to be asked for.     *)
(***************************************************************************)
EXTENDS EdgeAccess, TLAPS

Pairs == User \X Group

\* Each claim of s holds still, or held less than SessionTtl before s ends.
Backed(s) ==
    /\ s.groups \subseteq Group
    /\ s.expires \in Int /\ s.expires <= clock + SessionTtl
    /\ \A g \in s.groups :
          \/ <<s.user, g>> \in member
          \/ left[<<s.user, g>>] # -1 /\ s.expires <= left[<<s.user, g>>] + SessionTtl

GithubInv ==
    /\ clock \in Nat /\ member \subseteq Pairs
    /\ left \in [Pairs -> Int]

StoredInv ==
    /\ DOMAIN stored = User
    /\ \A u \in User : stored[u] # None => stored[u].user = u /\ Backed(stored[u])

Items(q) == q.headlines \union q.feeds \union q.views

\* What the session of q lets it see.
Claimed(q, a) == a = Public \/ (q.session # None /\ a \in q.session.groups)

QuestionInv(q) ==
    /\ q.session # None => /\ q.by \in User /\ q.session.user = q.by
                           /\ Backed(q.session)
                           /\ q.at \in Int /\ q.at < q.session.expires
    /\ q.route \in Group => /\ q.session # None
                            /\ {q.route, OrgOfAccess(q.route)} \subseteq q.session.groups
    /\ \A i \in Items(q) : Claimed(q, i.access)

AccessInv ==
    /\ GithubInv /\ StoredInv
    /\ None \notin User
    /\ asking # None => QuestionInv(asking)

---------------------------------------------------------------------------

\* A backed session stays so while GitHub and the time stay as they are.
LEMMA BackedKept ==
    ASSUME NEW s, Backed(s), UNCHANGED <<member, left, clock>>
    PROVE  Backed(s)'
BY DEF Backed

\* What is shown for a question is what its session claims.
LEMMA ShownClaimed ==
    ASSUME NEW q, NEW i, Shown(q, i),
           q.route \in Group =>
               /\ q.session # None
               /\ {q.route, OrgOfAccess(q.route)} \subseteq q.session.groups
    PROVE  Claimed(q, i.access)
BY GroupsAssumption DEF Shown, CanSee, OnRoute, OrgOfAccess, Claimed, Group, Access

\* The views of headlines have the access of one of them.
LEMMA ViewsOfHeadlines ==
    ASSUME NEW hs, NEW vs \in Views(hs), NEW v \in vs
    PROVE  \E h \in hs : v.access = h.access
<1>1. PICK h \in hs : v = View(h)
  BY DEF Views
<1>. QED  BY <1>1 DEF View

\* The invariant holds at the start: nobody is signed in and nothing is asked.
THEOREM InitAccess == Init => AccessInv
BY GroupsAssumption, GithubAssumption, BoundsAssumption
   DEF Init, AccessInv, GithubInv, StoredInv, Pairs

\* A step that leaves GitHub, time and the sessions alone.
LEMMA ContextKept ==
    ASSUME AccessInv, UNCHANGED <<member, left, clock, stored>>
    PROVE  (GithubInv /\ StoredInv)'
<1>1. ASSUME NEW u \in User, stored[u] # None
      PROVE  Backed(stored[u])'
  BY <1>1, BackedKept DEF AccessInv, StoredInv
<1>. QED  BY <1>1 DEF AccessInv, GithubInv, StoredInv

\* Publishing and renaming touch nothing the invariant speaks of.
LEMMA StoreStep ==
    ASSUME AccessInv, UNCHANGED <<member, left, clock, stored, asking>>
    PROVE  AccessInv'
<1>1. (GithubInv /\ StoredInv)'
  BY ContextKept
<1>2. ASSUME asking # None
      PROVE  QuestionInv(asking)'
  BY <1>2, BackedKept DEF AccessInv, QuestionInv, Items, Claimed
<1>. QED  BY <1>1, <1>2 DEF AccessInv

\* Whoever leaves: each claim lost now ends with its session, less than
\* SessionTtl from now.
LEMMA LeaveBacked ==
    ASSUME AccessInv, NEW u \in User, NEW g \in Group, Leave(u, g),
           NEW s, s.user \in User, Backed(s)
    PROVE  Backed(s)'
<1>1. PICK gone \in SUBSET member :
        /\ member' = member \ gone
        /\ left' = [m \in Pairs |-> IF m \in gone THEN clock ELSE left[m]]
  BY DEF Leave, Pairs
<1>2. clock' = clock /\ clock \in Nat
  BY DEF Leave, AccessInv, GithubInv
<1>3. ASSUME NEW h \in s.groups
      PROVE  \/ <<s.user, h>> \in member'
             \/ left'[<<s.user, h>>] # -1
                /\ s.expires <= left'[<<s.user, h>>] + SessionTtl
  <2>1. <<s.user, h>> \in Pairs
    BY <1>3 DEF Backed, Pairs
  <2>2. CASE <<s.user, h>> \in gone
    <3>1. left'[<<s.user, h>>] = clock
      BY <1>1, <2>1, <2>2
    <3>. QED  BY <3>1, <1>2 DEF Backed
  <2>3. CASE <<s.user, h>> \notin gone
    <3>1. left'[<<s.user, h>>] = left[<<s.user, h>>]
      BY <1>1, <2>1, <2>3
    <3>. QED  BY <3>1, <1>1, <2>3 DEF Backed
  <2>. QED  BY <2>2, <2>3
<1>. QED  BY <1>2, <1>3 DEF Backed

\* A departure keeps the invariant.
LEMMA LeaveStep ==
    ASSUME AccessInv, NEW u \in User, NEW g \in Group, Leave(u, g)
    PROVE  AccessInv'
<1>1. GithubInv'
  BY DEF Leave, AccessInv, GithubInv, Pairs
<1>2. StoredInv'
  <2>1. UNCHANGED stored
    BY DEF Leave, client
  <2>2. ASSUME NEW v \in User, stored[v] # None
        PROVE  Backed(stored[v])'
    <3>1. PICK s : s = stored[v]
      OBVIOUS
    <3>2. s.user = v /\ Backed(s)
      BY <2>2, <3>1 DEF AccessInv, StoredInv
    <3>3. Backed(s)'
      BY <3>2, LeaveBacked
    <3>. QED  BY <2>1, <3>1, <3>3 DEF Backed
  <2>. QED  BY <2>1, <2>2 DEF AccessInv, StoredInv
<1>3. ASSUME asking # None
      PROVE  QuestionInv(asking)'
  <2>1. UNCHANGED asking
    BY DEF Leave
  <2>2. ASSUME asking.session # None
        PROVE  Backed(asking.session)'
    <3>1. PICK s : s = asking.session
      OBVIOUS
    <3>2. s.user \in User /\ Backed(s)
      BY <1>3, <2>2, <3>1 DEF AccessInv, QuestionInv
    <3>3. Backed(s)'
      BY <3>2, LeaveBacked
    <3>. QED  BY <2>1, <3>1, <3>3 DEF Backed
  <2>. QED  BY <1>3, <2>1, <2>2 DEF AccessInv, QuestionInv, Items, Claimed
<1>. QED  BY <1>1, <1>2, <1>3 DEF AccessInv, Leave

\* Time that passes only brings the end of a session nearer.
LEMMA TickStep ==
    ASSUME AccessInv, Tick
    PROVE  AccessInv'
<1>1. /\ UNCHANGED <<member, left, stored, asking>>
      /\ clock' = clock + 1 /\ clock \in Nat
  BY DEF Tick, github, client, AccessInv, GithubInv
<1>2. ASSUME NEW s, Backed(s)
      PROVE  Backed(s)'
  BY <1>1, <1>2, BoundsAssumption DEF Backed
<1>3. GithubInv'
  BY <1>1 DEF AccessInv, GithubInv
<1>4. StoredInv'
  BY <1>1, <1>2 DEF AccessInv, StoredInv
<1>5. ASSUME asking # None
      PROVE  QuestionInv(asking)'
  BY <1>1, <1>2, <1>5 DEF AccessInv, QuestionInv, Items, Claimed
<1>. QED  BY <1>1, <1>3, <1>4, <1>5 DEF AccessInv

\* A sign-in grants what GitHub says at that moment.
LEMMA GrantBacked ==
    ASSUME AccessInv, NEW u \in User, NEW org \in Org \union {None},
           org # None => IsMember(u, org), NEW claims \in Claims(u, org)
    PROVE  Backed(Grant(u, org, claims))
<1>1. claims \subseteq Group /\ \A g \in claims : <<u, g>> \in member
  <2>1. CASE org = None
    BY <2>1 DEF Claims
  <2>2. CASE org # None
    BY <2>2 DEF Claims, TeamsIn, IsMember, Group
  <2>. QED  BY <2>1, <2>2
<1>. QED  BY <1>1, BoundsAssumption DEF Grant, Backed, AccessInv, GithubInv

\* A sign-in keeps the invariant.
LEMMA SignInStep ==
    ASSUME AccessInv, NEW u \in User, NEW org \in Org \union {None}, SignIn(u, org)
    PROVE  AccessInv'
<1>1. PICK claims \in Claims(u, org) :
        stored' = [stored EXCEPT ![u] = Grant(u, org, claims)]
  BY DEF SignIn
<1>2. UNCHANGED <<member, left, clock, asking>>
  BY DEF SignIn, github
<1>3. Backed(Grant(u, org, claims))
  BY GrantBacked DEF SignIn
<1>4. ASSUME NEW s, Backed(s)
      PROVE  Backed(s)'
  BY <1>2, <1>4, BackedKept
<1>5. StoredInv'
  <2>1. Grant(u, org, claims).user = u
    BY DEF Grant
  <2>2. ASSUME NEW v \in User, stored'[v] # None
        PROVE  stored'[v].user = v /\ Backed(stored'[v])
    <3>1. CASE v = u
      BY <3>1, <1>1, <1>3, <2>1 DEF AccessInv, StoredInv
    <3>2. CASE v # u
      BY <3>2, <1>1, <2>2 DEF AccessInv, StoredInv
    <3>. QED  BY <3>1, <3>2
  <2>3. ASSUME NEW v \in User, stored'[v] # None
        PROVE  Backed(stored[v])'
    BY <1>2, <2>2, <2>3 DEF Backed
  <2>. QED  BY <1>1, <2>2, <2>3 DEF AccessInv, StoredInv
<1>6. ASSUME asking # None
      PROVE  QuestionInv(asking)'
  BY <1>2, <1>4, <1>6 DEF AccessInv, QuestionInv, Items, Claimed
<1>. QED  BY <1>2, <1>5, <1>6 DEF AccessInv, GithubInv

\* A question starts without items, with a live session and, on the route of a
\* group, with the claims the route requires.
LEMMA AskStep ==
    ASSUME AccessInv, NEW v \in User \union {None}, NEW r \in Route,
           NEW f \in Filters, Ask(v, r, f)
    PROVE  AccessInv'
<1>1. UNCHANGED <<member, left, clock, stored>>
  BY DEF Ask, github, client
<1>2. /\ asking'.by = v /\ asking'.session = Bearer(v) /\ asking'.route = r
      /\ Items(asking') = {} /\ asking'.at = clock
  BY DEF Ask, Items
<1>3. Bearer(v) # None =>
        /\ v \in User /\ Bearer(v).user = v /\ Backed(Bearer(v))
        /\ clock \in Int /\ clock < Bearer(v).expires
  BY DEF Bearer, Live, AccessInv, StoredInv, GithubInv, Backed
<1>4. r \in Group => /\ Bearer(v) # None
                     /\ {r, OrgOfAccess(r)} \subseteq Bearer(v).groups
  BY DEF Ask, Admitted
<1>5. Bearer(v) # None => Backed(Bearer(v))'
  BY <1>1, <1>3 DEF Backed, Bearer, Live
<1>6. QuestionInv(asking)'
  BY <1>1, <1>2, <1>3, <1>4, <1>5 DEF QuestionInv, Backed
<1>7. (GithubInv /\ StoredInv)'
  BY <1>1, ContextKept
<1>. QED  BY <1>6, <1>7 DEF AccessInv

---------------------------------------------------------------------------
(* The three reads.                                                        *)

\* The parts of a question that no read changes.
SameQuestion(p, q) ==
    /\ p.by = q.by /\ p.session = q.session /\ p.route = q.route /\ p.at = q.at

\* Putting the answer together adds nothing the session does not claim.
LEMMA FinishClaimed ==
    ASSUME NEW q, NEW p \in Finish(q),
           \A i \in Items(q) : Claimed(q, i.access)
    PROVE  SameQuestion(p, q) /\ \A i \in Items(p) : Claimed(p, i.access)
<1>1. CASE q.todo # <<>>
  BY <1>1 DEF Finish, SameQuestion
<1>2. CASE q.todo = <<>>
  <2>1. PICK own \in IF q.route = Public THEN {{}} ELSE Views(q.headlines) :
          p = [q EXCEPT !.feeds =
                  Merged(Merged(own, {View(f) : f \in q.feeds}), q.views)]
    BY <1>2 DEF Finish
  <2>2. ASSUME NEW i \in own
        PROVE  Claimed(q, i.access)
    BY <2>1, <2>2, ViewsOfHeadlines DEF Items
  <2>3. ASSUME NEW i \in Merged(Merged(own, {View(f) : f \in q.feeds}), q.views)
        PROVE  Claimed(q, i.access)
    BY <2>2, <2>3 DEF Merged, View, Items
  <2>4. SameQuestion(p, q)
    BY <2>1 DEF SameQuestion
  <2>. QED  BY <2>1, <2>3, <2>4 DEF Items, Claimed, SameQuestion
<1>. QED  BY <1>1, <1>2

\* A question that goes on as one of Finish(q) is in order if q is.
LEMMA GoesOn ==
    ASSUME AccessInv, asking # None, UNCHANGED <<member, left, clock, stored>>,
           NEW q, asking' \in Finish(q), SameQuestion(q, asking),
           \A i \in Items(q) : Claimed(q, i.access)
    PROVE  AccessInv'
<1>1. SameQuestion(asking', asking)
      /\ \A i \in Items(asking') : Claimed(asking', i.access)
  BY FinishClaimed DEF SameQuestion
<1>2. asking.session # None => Backed(asking.session)'
  BY <1>1 DEF AccessInv, QuestionInv, SameQuestion, Backed
<1>3. QuestionInv(asking)'
  BY <1>1, <1>2 DEF AccessInv, QuestionInv, SameQuestion, Backed
<1>4. (GithubInv /\ StoredInv)'
  BY ContextKept
<1>. QED  BY <1>3, <1>4 DEF AccessInv

\* Each read adds only what the question may be shown.
LEMMA ReadStep ==
    ASSUME AccessInv, ReadFeeds \/ ReadViews \/ ReadHeadlines
    PROVE  AccessInv'
<1>1. /\ UNCHANGED <<member, left, clock, stored>> /\ asking # None
      /\ QuestionInv(asking)
  BY DEF ReadFeeds, ReadViews, ReadHeadlines, Answering, github, client, AccessInv
<1>2. CASE ReadFeeds
  <2>. DEFINE q == [asking EXCEPT !.todo = Tail(@), !.feeds = FeedsFor(asking)]
  <2>1. asking' \in Finish(q) /\ SameQuestion(q, asking)
    BY <1>2 DEF ReadFeeds, SameQuestion
  <2>2. ASSUME NEW i \in FeedsFor(asking)
        PROVE  Claimed(asking, i.access)
    BY <1>1, <2>2, ShownClaimed DEF FeedsFor, QuestionInv
  <2>3. \A i \in Items(q) : Claimed(q, i.access)
    BY <1>1, <2>2 DEF Items, Claimed, QuestionInv
  <2>. QED  BY <1>1, <2>1, <2>3, GoesOn
<1>3. CASE ReadViews
  <2>. DEFINE asked == [asking EXCEPT !.filter =
                           IF asking.route = Public
                           THEN [labels |-> Label, topics |-> Topic] ELSE @]
  <2>1. PICK vs \in Views(HeadlinesFor(asked)) :
          asking' \in Finish([asking EXCEPT !.todo = Tail(@), !.views = vs])
    BY <1>3 DEF ReadViews
  <2>. DEFINE q == [asking EXCEPT !.todo = Tail(@), !.views = vs]
  <2>2. SameQuestion(q, asking) /\ SameQuestion(asked, asking)
    BY DEF SameQuestion
  <2>3. ASSUME NEW i \in HeadlinesFor(asked)
        PROVE  Claimed(asked, i.access)
    <3>1. Shown(asked, i)
      BY <2>3 DEF HeadlinesFor
    <3>. QED  BY <1>1, <2>2, <3>1, ShownClaimed DEF QuestionInv, SameQuestion
  <2>4. ASSUME NEW i \in vs
        PROVE  Claimed(asking, i.access)
    <3>1. PICK h \in HeadlinesFor(asked) : i.access = h.access
      BY <2>4, ViewsOfHeadlines
    <3>. QED  BY <2>2, <2>3, <3>1 DEF Claimed, SameQuestion
  <2>5. \A i \in Items(q) : Claimed(q, i.access)
    BY <1>1, <2>4 DEF Items, Claimed, QuestionInv
  <2>. QED  BY <1>1, <2>1, <2>2, <2>5, GoesOn
<1>4. CASE ReadHeadlines
  <2>. DEFINE q == [asking EXCEPT !.todo = Tail(@),
                                  !.headlines = HeadlinesFor(asking)]
  <2>1. asking' \in Finish(q) /\ SameQuestion(q, asking)
    BY <1>4 DEF ReadHeadlines, SameQuestion
  <2>2. ASSUME NEW i \in HeadlinesFor(asking)
        PROVE  Claimed(asking, i.access)
    BY <1>1, <2>2, ShownClaimed DEF HeadlinesFor, QuestionInv
  <2>3. \A i \in Items(q) : Claimed(q, i.access)
    BY <1>1, <2>2 DEF Items, Claimed, QuestionInv
  <2>. QED  BY <1>1, <2>1, <2>3, GoesOn
<1>. QED  BY <1>2, <1>3, <1>4

---------------------------------------------------------------------------

\* Every step keeps the invariant, one case for each action.
THEOREM NextAccess == AccessInv /\ [Next]_vars => AccessInv'
<1>. SUFFICES ASSUME AccessInv, [Next]_vars
              PROVE  AccessInv'
  OBVIOUS
<1>1. CASE Github
  <2>1. ASSUME NEW u \in User, NEW g \in Group, Leave(u, g)
        PROVE  AccessInv'
    BY <2>1, LeaveStep
  <2>2. ASSUME NEW u \in User, NEW l \in Login \union {None}, Rename(u, l)
        PROVE  AccessInv'
    BY <2>2, StoreStep DEF Rename, client
  <2>. QED  BY <1>1, <2>1, <2>2 DEF Github
<1>2. CASE Tick
  BY <1>2, TickStep
<1>3. ASSUME NEW u \in User, NEW org \in Org \union {None}, SignIn(u, org)
      PROVE  AccessInv'
  BY <1>3, SignInStep
<1>4. CASE Publishing
  BY <1>4, StoreStep DEF Publishing, Serve, Publish, github, client
<1>5. CASE Questions
  <2>1. ASSUME NEW v \in Reader \union {None}, NEW r \in Route, NEW f \in Filters,
               Ask(v, r, f)
        PROVE  AccessInv'
    BY <2>1, AskStep, GithubAssumption
  <2>. QED  BY <1>5, <2>1, ReadStep DEF Questions
<1>6. CASE UNCHANGED vars
  BY <1>6, StoreStep DEF vars, github, client
<1>. QED  BY <1>1, <1>2, <1>3, <1>4, <1>5, <1>6 DEF Next

\* Nothing of a group is shown but to those GitHub counted as its members less
\* than SessionTtl before (session_can_access_policy, resolve_org_like).
THEOREM MembersOnly == Spec => []OnlyRecentMembersSee
<1>1. AccessInv => OnlyRecentMembersSee
  <2>. SUFFICES ASSUME AccessInv, asking # None,
                       NEW i \in Items(asking), i.access # Public
                PROVE  asking.by # None /\ Recently(asking.by, i.access, asking.at)
    BY DEF OnlyRecentMembersSee, Items
  <2>1. /\ asking.session # None /\ i.access \in asking.session.groups
        /\ asking.by \in User /\ asking.session.user = asking.by
        /\ Backed(asking.session)
        /\ asking.at \in Int /\ asking.at < asking.session.expires
    BY DEF AccessInv, QuestionInv, Claimed
  <2>2. left[<<asking.by, i.access>>] \in Int
    BY <2>1 DEF AccessInv, GithubInv, Backed, Pairs
  <2>. QED  BY <2>1, <2>2, BoundsAssumption DEF Recently, Backed, AccessInv
<1>. QED  BY <1>1, InitAccess, NextAccess, PTL DEF Spec

---------------------------------------------------------------------------
(* What an answer consists of.                                             *)

\* The stories of a question, answered or not, are its account's, and once it
\* is answered each has its feed.
AnswerInv ==
    asking # None =>
        /\ {"feeds", "headlines"} \subseteq DOMAIN asking
        /\ asking.route \in Login =>
               \A h \in asking.headlines : h.feed[1] = asking.account
        /\ asking.todo = <<>> /\ asking.route # Public =>
               \A h \in asking.headlines : \E f \in asking.feeds : f.feed = h.feed

\* A finished answer to a route lists the feed of each of its headlines.
LEMMA FinishLists ==
    ASSUME NEW q, NEW p \in Finish(q), "feeds" \in DOMAIN q
    PROVE  /\ DOMAIN p = DOMAIN q
           /\ p.route = q.route /\ p.account = q.account
           /\ p.headlines = q.headlines
           /\ p.todo = <<>> /\ p.route # Public =>
                  \A h \in p.headlines : \E f \in p.feeds : f.feed = h.feed
<1>1. CASE q.todo # <<>>
  BY <1>1 DEF Finish
<1>2. CASE q.todo = <<>>
  <2>1. PICK own \in IF q.route = Public THEN {{}} ELSE Views(q.headlines) :
          p = [q EXCEPT !.feeds =
                  Merged(Merged(own, {View(f) : f \in q.feeds}), q.views)]
    BY <1>2 DEF Finish
  <2>2. p.route = q.route /\ p.account = q.account /\ p.headlines = q.headlines
    BY <2>1
  <2>3. ASSUME p.route # Public, NEW h \in p.headlines
        PROVE  \E f \in p.feeds : f.feed = h.feed
    <3>1. own \in Views(q.headlines)
      BY <2>1, <2>2, <2>3
    <3>2. h.feed \in {v.feed : v \in own}
      BY <2>2, <2>3, <3>1 DEF Views
    <3>3. PICK v \in own : v.feed = h.feed
      BY <3>2
    <3>4. own \subseteq Merged(Merged(own, {View(f) : f \in q.feeds}), q.views)
      BY DEF Merged
    <3>. QED  BY <2>1, <3>3, <3>4
  <2>. QED  BY <2>1, <2>2, <2>3
<1>. QED  BY <1>1, <1>2

\* A question that goes on from q, which differs from the one before at most in
\* its headlines, and then shows the account's.
LEMMA AnswerGoesOn ==
    ASSUME NEW q, asking' \in Finish(q), {"feeds", "headlines"} \subseteq DOMAIN q,
           q.route \in Login => \A h \in q.headlines : h.feed[1] = q.account
    PROVE  AnswerInv'
BY FinishLists DEF AnswerInv

\* Each of the three reads keeps AnswerInv.
LEMMA ReadAnswers ==
    ASSUME AnswerInv, ReadFeeds \/ ReadViews \/ ReadHeadlines
    PROVE  AnswerInv'
<1>1. asking # None
  BY DEF ReadFeeds, ReadViews, ReadHeadlines, Answering
<1>2. CASE ReadFeeds
  <2>. DEFINE q == [asking EXCEPT !.todo = Tail(@), !.feeds = FeedsFor(asking)]
  <2>1. asking' \in Finish(q)
    BY <1>2 DEF ReadFeeds
  <2>2. /\ DOMAIN q = DOMAIN asking /\ q.route = asking.route
        /\ q.headlines = asking.headlines /\ q.account = asking.account
    OBVIOUS
  <2>. QED  BY <1>1, <2>1, <2>2, AnswerGoesOn DEF AnswerInv
<1>3. CASE ReadViews
  <2>1. PICK vs : asking' \in Finish([asking EXCEPT !.todo = Tail(@), !.views = vs])
    BY <1>3 DEF ReadViews
  <2>. DEFINE q == [asking EXCEPT !.todo = Tail(@), !.views = vs]
  <2>2. /\ DOMAIN q = DOMAIN asking /\ q.route = asking.route
        /\ q.headlines = asking.headlines /\ q.account = asking.account
    OBVIOUS
  <2>. QED  BY <1>1, <2>1, <2>2, AnswerGoesOn DEF AnswerInv
<1>4. CASE ReadHeadlines
  <2>. DEFINE q == [asking EXCEPT !.todo = Tail(@),
                                  !.headlines = HeadlinesFor(asking)]
  <2>1. asking' \in Finish(q)
    BY <1>4 DEF ReadHeadlines
  <2>2. /\ DOMAIN q = DOMAIN asking /\ q.route = asking.route
        /\ q.account = asking.account
    OBVIOUS
  <2>3. q.headlines = HeadlinesFor(asking)
    BY <1>1 DEF AnswerInv
  <2>4. q.route \in Login => \A h \in q.headlines : h.feed[1] = q.account
    BY <2>2, <2>3 DEF HeadlinesFor, SameAccount
  <2>. QED  BY <1>1, <2>1, <2>2, <2>4, AnswerGoesOn DEF AnswerInv
<1>. QED  BY <1>2, <1>3, <1>4

\* A new question has no headlines yet.
LEMMA AskAnswers ==
    ASSUME NEW v, NEW r, NEW f, Ask(v, r, f)
    PROVE  AnswerInv'
<1>1. /\ {"feeds", "headlines"} \subseteq DOMAIN asking' /\ asking'.headlines = {}
  BY DEF Ask
<1>. QED  BY <1>1 DEF AnswerInv

\* Every step keeps AnswerInv.
THEOREM NextAnswer == AnswerInv /\ [Next]_vars => AnswerInv'
<1>. SUFFICES ASSUME AnswerInv, [Next]_vars
              PROVE  AnswerInv'
  OBVIOUS
<1>1. ASSUME UNCHANGED asking
      PROVE  AnswerInv'
  BY <1>1 DEF AnswerInv
<1>2. CASE Github
  BY <1>1, <1>2 DEF Github, Leave, Rename
<1>3. CASE Tick
  BY <1>1, <1>3 DEF Tick
<1>4. ASSUME NEW u \in User, NEW org \in Org \union {None}, SignIn(u, org)
      PROVE  AnswerInv'
  BY <1>1, <1>4 DEF SignIn
<1>5. CASE Publishing
  BY <1>1, <1>5 DEF Publishing, Serve, Publish
<1>6. CASE Questions
  BY <1>6, AskAnswers, ReadAnswers DEF Questions
<1>7. CASE UNCHANGED vars
  BY <1>1, <1>7 DEF vars
<1>. QED  BY <1>2, <1>3, <1>4, <1>5, <1>6, <1>7 DEF Next

\* The stories in the answer to a login are of the account it is about, whoever had
\* the login before (headline_matches_github_route_with_access).
THEOREM OneAccount == Spec => []StoriesAreTheAccounts
<1>1. Init => AnswerInv
  BY DEF Init, AnswerInv
<1>2. AnswerInv => StoriesAreTheAccounts
  BY DEF AnswerInv, StoriesAreTheAccounts, Answered
<1>. QED  BY <1>1, <1>2, NextAnswer, PTL DEF Spec

\* Each story of a route's answer has its feed in the answer, whatever happened
\* between the reads (from_ticket_and_headlines, merge_resolve_feed_views).
THEOREM FeedsListed == Spec => []HeadlinesHaveTheirFeed
<1>1. Init => AnswerInv
  BY DEF Init, AnswerInv
<1>2. AnswerInv => HeadlinesHaveTheirFeed
  BY DEF AnswerInv, HeadlinesHaveTheirFeed, Answered, Answering
<1>. QED  BY <1>1, <1>2, NextAnswer, PTL DEF Spec

---------------------------------------------------------------------------
(* What an answer leaves out.                                              *)

\* The parts of a question that the proof names.
Parts == {"todo", "route", "filter", "there", "feeds", "views", "headlines"}

\* q has every recent story of its group that was there when it came.
Complete(q) ==
    \A h \in q.there :
        /\ clock - h.at <= HeadlineTtl
        /\ h.access \in {q.route, OrgOfAccess(q.route)}
        /\ Admits(q.filter, h)
        => h \in q.headlines

\* The route of a group reads the headlines first and has them from then on;
\* a headline that was there before the question goes only by its age.
CompleteInv(q) ==
    /\ Parts \subseteq DOMAIN q
    /\ \A h \in q.there : /\ h.at \in Int
                          /\ clock - h.at <= HeadlineTtl => h \in headlines
    /\ q.route \in Group =>
           \/ q.todo = <<"headlines", "feeds", "views">>
           \/ /\ q.todo \in {<<"feeds", "views">>, <<"views">>, <<>>}
              /\ Complete(q)

VisibleInv ==
    /\ clock \in Int
    /\ \A h \in headlines : h.at \in Int
    /\ asking # None => CompleteInv(asking)

\* Time passes and old headlines go: what holds of a question still does.
LEMMA StillComplete ==
    ASSUME NEW q, CompleteInv(q), clock \in Int, clock' \in Int, clock <= clock',
           \A h \in headlines : clock' - h.at <= HeadlineTtl => h \in headlines'
    PROVE  CompleteInv(q)'
<1>1. ASSUME NEW h \in q.there
      PROVE  /\ h.at \in Int
             /\ clock' - h.at <= HeadlineTtl =>
                   clock - h.at <= HeadlineTtl /\ h \in headlines'
  BY <1>1, BoundsAssumption DEF CompleteInv
<1>2. Complete(q) => Complete(q)'
  BY <1>1 DEF Complete, Admits, OrgOfAccess
<1>. QED  BY <1>1, <1>2 DEF CompleteInv

\* A step that asks and reads nothing and only loses headlines by their age.
LEMMA OtherStep ==
    ASSUME VisibleInv, UNCHANGED asking, clock' \in Int, clock <= clock',
           \A h \in headlines : clock' - h.at <= HeadlineTtl => h \in headlines',
           \A h \in headlines' : h.at \in Int
    PROVE  VisibleInv'
<1>1. ASSUME asking # None
      PROVE  CompleteInv(asking)'
  <2>1. PICK q : q = asking
    OBVIOUS
  <2>2. CompleteInv(q)'
    BY <1>1, <2>1, StillComplete DEF VisibleInv
  <2>. QED  BY <2>1, <2>2 DEF CompleteInv, Complete
<1>. QED  BY <1>1 DEF VisibleInv

\* A story that is posted pushes out only what is too old.
LEMMA PublishVisible ==
    ASSUME VisibleInv, NEW u, NEW l, NEW t, Publish(u, l, t)
    PROVE  VisibleInv'
<1>1. UNCHANGED <<asking, clock>>
  BY DEF Publish
<1>2. \/ headlines' = headlines
      \/ \E h : h.at = clock /\ headlines' = Pushed(h)
  BY DEF Publish
<1>3. /\ \A h \in headlines : clock' - h.at <= HeadlineTtl => h \in headlines'
      /\ \A h \in headlines' : h.at \in Int
  BY <1>1, <1>2 DEF Pushed, RecentHeadlines, VisibleInv
<1>. QED  BY <1>1, <1>3, OtherStep DEF VisibleInv

\* A question for a group starts with the headlines.
LEMMA AskVisible ==
    ASSUME VisibleInv, NEW v, NEW r, NEW f, Ask(v, r, f)
    PROVE  VisibleInv'
<1>1. UNCHANGED <<headlines, clock>>
  BY DEF Ask, store
<1>2. /\ Parts \subseteq DOMAIN asking' /\ asking'.there = headlines
      /\ asking'.route = r /\ asking'.todo = Plan(r, Known(r))
  BY DEF Ask, Parts
<1>3. r \in Group => Plan(r, Known(r)) = <<"headlines", "feeds", "views">>
  BY GroupsAssumption DEF Plan, Access
<1>. QED  BY <1>1, <1>2, <1>3 DEF VisibleInv, CompleteInv

\* Putting the answer together changes the feeds alone.
LEMMA FinishKeeps ==
    ASSUME NEW q, NEW p \in Finish(q)
    PROVE  /\ DOMAIN p = DOMAIN q
           /\ \A x \in DOMAIN q \ {"feeds"} : p[x] = q[x]
<1>1. CASE q.todo # <<>>
  BY <1>1 DEF Finish
<1>2. CASE q.todo = <<>>
  BY <1>2 DEF Finish
<1>. QED  BY <1>1, <1>2

\* Reading the headlines finds every one that Complete asks for.
LEMMA HeadlinesFound ==
    ASSUME NEW q, CompleteInv(q), q.route \in Group, NEW h \in q.there,
           clock - h.at <= HeadlineTtl, h.access \in {q.route, OrgOfAccess(q.route)},
           Admits(q.filter, h)
    PROVE  h \in HeadlinesFor(q)
<1>1. h \in RecentHeadlines
  BY DEF CompleteInv, RecentHeadlines
<1>2. Shown(q, h)
  BY DEF Shown, OnRoute, OrgOfAccess
<1>3. q.route \notin Login
  BY GroupsAssumption DEF Access
<1>. QED  BY <1>1, <1>2, <1>3 DEF HeadlinesFor

\* Each read but that of the headlines leaves them as they were read.
LEMMA ReadVisible ==
    ASSUME VisibleInv, ReadFeeds \/ ReadViews \/ ReadHeadlines
    PROVE  VisibleInv'
<1>1. /\ UNCHANGED <<headlines, clock>> /\ asking # None
      /\ CompleteInv(asking)
  BY DEF ReadFeeds, ReadViews, ReadHeadlines, Answering, store, VisibleInv
<1>2. PICK q : /\ asking' \in Finish(q) /\ DOMAIN q = DOMAIN asking
               /\ \A x \in DOMAIN asking \ {"todo", "feeds", "views", "headlines"} :
                     q[x] = asking[x]
               /\ q.todo = Tail(asking.todo)
               /\ \/ /\ Head(asking.todo) # "headlines"
                     /\ q.headlines = asking.headlines
                  \/ /\ Head(asking.todo) = "headlines"
                     /\ q.headlines = HeadlinesFor(asking)
  <2>1. CASE ReadFeeds
    <3>. DEFINE q == [asking EXCEPT !.todo = Tail(@), !.feeds = FeedsFor(asking)]
    <3>1. asking' \in Finish(q) /\ Head(asking.todo) = "feeds"
      BY <2>1 DEF ReadFeeds
    <3>2. /\ DOMAIN q = DOMAIN asking /\ q.todo = Tail(asking.todo)
          /\ q.headlines = asking.headlines
          /\ \A x \in DOMAIN asking \ {"todo", "feeds", "views", "headlines"} :
                q[x] = asking[x]
      BY <1>1 DEF CompleteInv, Parts
    <3>. QED  BY <3>1, <3>2
  <2>2. CASE ReadViews
    <3>1. PICK vs : asking' \in Finish([asking EXCEPT !.todo = Tail(@), !.views = vs])
      BY <2>2 DEF ReadViews
    <3>. DEFINE q == [asking EXCEPT !.todo = Tail(@), !.views = vs]
    <3>2. /\ DOMAIN q = DOMAIN asking /\ q.todo = Tail(asking.todo)
          /\ q.headlines = asking.headlines
          /\ \A x \in DOMAIN asking \ {"todo", "feeds", "views", "headlines"} :
                q[x] = asking[x]
      BY <1>1 DEF CompleteInv, Parts
    <3>. QED  BY <2>2, <3>1, <3>2 DEF ReadViews
  <2>3. CASE ReadHeadlines
    <3>. DEFINE q == [asking EXCEPT !.todo = Tail(@),
                                    !.headlines = HeadlinesFor(asking)]
    <3>1. asking' \in Finish(q) /\ Head(asking.todo) = "headlines"
      BY <2>3 DEF ReadHeadlines
    <3>2. /\ DOMAIN q = DOMAIN asking /\ q.todo = Tail(asking.todo)
          /\ q.headlines = HeadlinesFor(asking)
          /\ \A x \in DOMAIN asking \ {"todo", "feeds", "views", "headlines"} :
                q[x] = asking[x]
      BY <1>1 DEF CompleteInv, Parts
    <3>. QED  BY <3>1, <3>2
  <2>. QED  BY <2>1, <2>2, <2>3
<1>3. /\ Parts \subseteq DOMAIN asking'
      /\ asking'.there = asking.there /\ asking'.route = asking.route
      /\ asking'.filter = asking.filter
      /\ asking'.headlines = q.headlines /\ asking'.todo = q.todo
  BY <1>1, <1>2, FinishKeeps DEF CompleteInv, Parts
<1>4. ASSUME asking.route \in Group
      PROVE  /\ q.todo \in {<<"feeds", "views">>, <<"views">>, <<>>}
             /\ Complete(asking')
  <2>1. CASE asking.todo = <<"headlines", "feeds", "views">>
    <3>1. Head(asking.todo) = "headlines" /\ Tail(asking.todo) = <<"feeds", "views">>
      BY <2>1
    <3>2. q.headlines = HeadlinesFor(asking)
      BY <1>2, <3>1
    <3>. QED  BY <1>1, <1>2, <1>3, <1>4, <3>1, <3>2, HeadlinesFound DEF Complete
  <2>2. CASE asking.todo \in {<<"feeds", "views">>, <<"views">>, <<>>} /\ Complete(asking)
    <3>1. asking.todo # <<>>
      BY DEF ReadFeeds, ReadViews, ReadHeadlines, Answering
    <3>2. /\ Head(asking.todo) # "headlines"
          /\ Tail(asking.todo) \in {<<"views">>, <<>>}
      <4>1. CASE asking.todo = <<"feeds", "views">>
        <5>1. Head(asking.todo) = "feeds" /\ Tail(asking.todo) = <<"views">>
          BY <4>1
        <5>. QED  BY <5>1
      <4>2. CASE asking.todo = <<"views">>
        <5>1. Head(asking.todo) = "views" /\ Tail(asking.todo) = <<>>
          BY <4>2
        <5>. QED  BY <5>1
      <4>. QED  BY <2>2, <3>1, <4>1, <4>2
    <3>. QED  BY <1>2, <1>3, <2>2, <3>2 DEF Complete
  <2>. QED  BY <1>1, <1>4, <2>1, <2>2 DEF CompleteInv
<1>5. CompleteInv(asking)'
  BY <1>1, <1>2, <1>3, <1>4 DEF CompleteInv, Complete
<1>. QED  BY <1>1, <1>5 DEF VisibleInv

\* Every step keeps VisibleInv.
THEOREM NextVisible == VisibleInv /\ [Next]_vars => VisibleInv'
<1>. SUFFICES ASSUME VisibleInv, [Next]_vars
              PROVE  VisibleInv'
  OBVIOUS
<1>1. ASSUME UNCHANGED <<asking, headlines, clock>>
      PROVE  VisibleInv'
  BY <1>1, OtherStep DEF VisibleInv
<1>2. CASE Github
  BY <1>1, <1>2 DEF Github, Leave, Rename, store
<1>3. CASE Tick
  BY <1>3, OtherStep DEF Tick, store, VisibleInv
<1>4. ASSUME NEW u \in User, NEW org \in Org \union {None}, SignIn(u, org)
      PROVE  VisibleInv'
  BY <1>1, <1>4 DEF SignIn, store
<1>5. CASE Publishing
  <2>1. ASSUME NEW u, NEW a, Serve(u, a)
        PROVE  VisibleInv'
    BY <1>1, <2>1 DEF Serve, store
  <2>. QED  BY <1>5, <2>1, PublishVisible DEF Publishing
<1>6. CASE Questions
  BY <1>6, AskVisible, ReadVisible DEF Questions
<1>7. CASE UNCHANGED vars
  BY <1>1, <1>7 DEF vars, store
<1>. QED  BY <1>2, <1>3, <1>4, <1>5, <1>6, <1>7 DEF Next

\* The route of a group leaves out no story of the group that was there before
\* the question and still is, although it is read in three steps among which
\* others post (resolve_org_like, access_permits_org_route, push_headline).
THEOREM NothingMissing == Spec => []NothingVisibleMissing
<1>1. Init => VisibleInv
  BY DEF Init, VisibleInv
<1>2. VisibleInv => NothingVisibleMissing
  <2>. SUFFICES ASSUME VisibleInv, Answered, asking.route \in Group,
                       NEW h \in asking.there \intersect RecentHeadlines,
                       h.access \in {asking.route, OrgOfAccess(asking.route)},
                       Admits(asking.filter, h)
                PROVE  h \in asking.headlines
    BY DEF NothingVisibleMissing
  <2>1. CompleteInv(asking) /\ asking.todo = <<>>
    BY DEF VisibleInv, Answered, Answering
  <2>2. <<>> # <<"headlines", "feeds", "views">>
    OBVIOUS
  <2>3. Complete(asking)
    BY <2>1, <2>2 DEF CompleteInv
  <2>. QED  BY <2>3 DEF Complete, RecentHeadlines
<1>. QED  BY <1>1, <1>2, NextVisible, PTL DEF Spec

=============================================================================
