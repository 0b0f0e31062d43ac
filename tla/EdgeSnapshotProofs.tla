------------------------- MODULE EdgeSnapshotProofs -------------------------
(***************************************************************************)
(* The snapshot store implements the board of HeadlineBoard, and requests  *)
(* that come one after the other leave what they stored on disk, for every *)
(* number of requests, limit and time, and across restarts.                *)
(*                                                                         *)
(* The refinement rests on an invariant of the headlines, of every copy of *)
(* them and of the file; durability on one more of the request that is     *)
(* under way alone: what it saves shows what is in memory, and the file it *)
(* writes is its own.                                                      *)
(***************************************************************************)
EXTENDS EdgeSnapshot, OrderLemmas

---------------------------------------------------------------------------
(* The invariant of the lists.                                             *)

\* A list the board can show.
IsBoard(hs) ==
    /\ hs \in Seq(Headline)
    /\ Len(hs) <= Limit
    /\ \A i \in 1..Len(hs) : hs[i] \in shown
    /\ \A i, j \in 1..Len(hs) : i # j => ~SameStory(hs[i], hs[j])

IsSnapshot(c) == c \in Contents /\ IsBoard(c.headlines)

StoreInv ==
    /\ clock \in 0..MaxClock
    /\ feeds \in Seq(FeedRecord)
    /\ IsBoard(headlines)

DiskInv ==
    /\ path \in {None, Empty, Torn} \/ IsSnapshot(path)
    /\ tmp \in {None, Empty, Torn} \/ IsSnapshot(tmp)

\* A request that pushes has a capsule, recent when it was looked at.
RequestInv(r) ==
    /\ r \in Request
    /\ r.snap # None => IsSnapshot(r.snap)
    /\ r.step \in {"copy", "open", "write", "rename", "remove"} => r.snap # None
    /\ r.step \in {"push", "feeds"} => r.pushing
    /\ r.step = "next" => ~r.pushing
    /\ r.pushing => /\ r.left # <<>> /\ r.now \in 0..clock
                    /\ r.now - r.left[1].at <= HeadlineTtl

JobInv ==
    /\ DOMAIN job = Handler
    /\ \A h \in Handler : job[h] # None => RequestInv(job[h])

Saving == {"open", "write", "rename", "remove"}

\* The mutex is held by a push that is not done.
LockInv ==
    lock # None => /\ lock \in Handler /\ job[lock] # None
                   /\ job[lock].step \in Saving \union {"feeds"}
                   /\ job[lock].pushing

SnapInv == StoreInv /\ DiskInv /\ JobInv

---------------------------------------------------------------------------
(* The invariant of requests that come one after the other.                *)

\* What anybody may see of hs now.
Visible(hs, now) ==
    Sublist(hs, {i \in DOMAIN hs : hs[i].public /\ now - hs[i].at <= HeadlineTtl})

\* hs shows what the headlines in memory show.
Matches(hs) == Visible(hs, clock) = Visible(headlines, clock)

\* The request under way alone: its snapshot matches and its file is its own.
AloneInv(r) ==
    /\ r.step \in {"write", "rename"} => r.fd = "tmp"
    /\ r.step = "write" => tmp = Empty
    /\ r.step = "rename" => tmp = r.snap
    /\ r.step # "remove"
    /\ r.step \in Saving => Matches(r.snap.headlines)

SerialInv ==
    ~overlapped =>
        /\ \A g, h \in Handler : job[g] # None /\ job[h] # None => g = h
        /\ \A h \in Handler : job[h] # None => AloneInv(job[h])
        /\ path = None \/ path \in Contents
        /\ lock = None => Matches(OnDisk)

---------------------------------------------------------------------------
(* Lemmas about the lists.                                                 *)

\* The lists a filter leaves.
LEMMA FilterTypes ==
    ASSUME NEW hs \in Seq(Headline), NEW now \in Int
    PROVE  /\ RecentHeadlines(hs, now) \in Seq(Headline)
           /\ Public(hs) \in Seq(Headline)
           /\ Visible(hs, now) \in Seq(Headline)
BY SublistType DEF RecentHeadlines, Public, Visible

\* Time only takes headlines away.
LEMMA RecentAgain ==
    ASSUME NEW hs \in Seq(Headline), NEW t \in Int, NEW now \in Int, t <= now
    PROVE  /\ Visible(RecentHeadlines(hs, t), now) = Visible(hs, now)
           /\ RecentHeadlines(Visible(hs, t), now) = Visible(hs, now)
<1>. DEFINE I == {i \in DOMAIN hs : t - hs[i].at <= HeadlineTtl}
            V == {i \in DOMAIN hs : hs[i].public /\ t - hs[i].at <= HeadlineTtl}
            K == {i \in DOMAIN hs : hs[i].public /\ now - hs[i].at <= HeadlineTtl}
<1>1. \A i \in DOMAIN hs : hs[i].at \in Int
  <2>1. \A i \in DOMAIN hs : hs[i] \in Headline
    BY ElementOfSeq, LenProperties
  <2>. QED  BY <2>1, LimitsAssumption DEF Headline, Times
<1>2. K \in SUBSET I /\ K \in SUBSET V /\ I \in SUBSET DOMAIN hs /\ V \in SUBSET DOMAIN hs
  BY <1>1, LimitsAssumption
<1>3. /\ DOMAIN Sublist(hs, I) = 1..Cardinality(I)
      /\ \A k \in 1..Cardinality(I) : /\ Place(I, k) \in I
                                      /\ Sublist(hs, I)[k] = hs[Place(I, k)]
  BY <1>2, SublistType
<1>4. /\ DOMAIN Sublist(hs, V) = 1..Cardinality(V)
      /\ \A k \in 1..Cardinality(V) : /\ Place(V, k) \in V
                                      /\ Sublist(hs, V)[k] = hs[Place(V, k)]
  BY <1>2, SublistType
<1>5. {k \in DOMAIN Sublist(hs, I) : /\ Sublist(hs, I)[k].public
                                     /\ now - Sublist(hs, I)[k].at <= HeadlineTtl}
        = {k \in DOMAIN Sublist(hs, I) : Place(I, k) \in K}
  BY <1>2, <1>3
<1>6. {k \in DOMAIN Sublist(hs, V) : now - Sublist(hs, V)[k].at <= HeadlineTtl}
        = {k \in DOMAIN Sublist(hs, V) : Place(V, k) \in K}
  BY <1>2, <1>4
<1>7. Visible(Sublist(hs, I), now) = Sublist(hs, K)
  BY <1>2, <1>5, SublistWithin DEF Visible
<1>8. RecentHeadlines(Sublist(hs, V), now) = Sublist(hs, K)
  BY <1>2, <1>6, SublistWithin DEF RecentHeadlines
<1>. QED  BY <1>7, <1>8 DEF RecentHeadlines, Visible

\* The public headlines, before or after the recent ones are taken.
LEMMA PublicAgain ==
    ASSUME NEW hs \in Seq(Headline), NEW now \in Int
    PROVE  /\ RecentHeadlines(Public(hs), now) = Visible(hs, now)
           /\ Visible(Public(hs), now) = Visible(hs, now)
<1>. DEFINE I == {i \in DOMAIN hs : hs[i].public}
            K == {i \in DOMAIN hs : hs[i].public /\ now - hs[i].at <= HeadlineTtl}
<1>1. K \in SUBSET I /\ I \in SUBSET DOMAIN hs
  OBVIOUS
<1>2. /\ DOMAIN Sublist(hs, I) = 1..Cardinality(I)
      /\ \A k \in 1..Cardinality(I) : /\ Place(I, k) \in I
                                      /\ Sublist(hs, I)[k] = hs[Place(I, k)]
  BY <1>1, SublistType
<1>3. {k \in DOMAIN Sublist(hs, I) : now - Sublist(hs, I)[k].at <= HeadlineTtl}
        = {k \in DOMAIN Sublist(hs, I) : Place(I, k) \in K}
  BY <1>1, <1>2
<1>4. {k \in DOMAIN Sublist(hs, I) : /\ Sublist(hs, I)[k].public
                                     /\ now - Sublist(hs, I)[k].at <= HeadlineTtl}
        = {k \in DOMAIN Sublist(hs, I) : Place(I, k) \in K}
  BY <1>1, <1>2
<1>5. RecentHeadlines(Sublist(hs, I), now) = Sublist(hs, K)
  BY <1>1, <1>3, SublistWithin DEF RecentHeadlines
<1>6. Visible(Sublist(hs, I), now) = Sublist(hs, K)
  BY <1>1, <1>4, SublistWithin DEF Visible
<1>. QED  BY <1>5, <1>6 DEF Public, Visible

\* What is left of a board is one.
LEMMA BoardPart ==
    ASSUME NEW hs, IsBoard(hs), NEW I \in SUBSET DOMAIN hs
    PROVE  IsBoard(Sublist(hs, I))
<1>1. hs \in Seq(Headline) /\ Len(hs) \in Nat /\ DOMAIN hs = 1..Len(hs)
  BY LenProperties DEF IsBoard
<1>. DEFINE t == Sublist(hs, I)
<1>2. /\ t \in Seq(Headline) /\ Len(t) = Cardinality(I) /\ Cardinality(I) <= Len(hs)
      /\ Cardinality(I) \in Nat
      /\ \A k \in 1..Cardinality(I) : Place(I, k) \in I /\ t[k] = hs[Place(I, k)]
      /\ \A k, l \in 1..Cardinality(I) : k < l => Place(I, k) < Place(I, l)
  BY <1>1, SublistType
<1>. HIDE DEF t
<1>3. ASSUME NEW k \in 1..Len(t), NEW l \in 1..Len(t), k # l
      PROVE  ~SameStory(t[k], t[l])
  <2>1. Place(I, k) \in 1..Len(hs) /\ Place(I, l) \in 1..Len(hs)
    BY <1>1, <1>2
  <2>2. Place(I, k) # Place(I, l)
    <3>1. k < l \/ l < k
      BY <1>3
    <3>. QED  BY <1>2, <2>1, <3>1
  <2>3. t[k] = hs[Place(I, k)] /\ t[l] = hs[Place(I, l)]
    BY <1>2
  <2>. QED  BY <2>1, <2>2, <2>3 DEF IsBoard
<1>4. \A k \in 1..Len(t) : t[k] \in shown
  BY <1>1, <1>2 DEF IsBoard
<1>5. Len(t) <= Limit
  BY <1>1, <1>2, LimitsAssumption DEF IsBoard
<1>. QED  BY <1>2, <1>3, <1>4, <1>5 DEF IsBoard, t

\* How many places of s are given away.
Gone(s) == IF Len(s) > Limit THEN Len(s) - Limit ELSE 0

\* The last of a list, as many as there may be.
LEMMA LastOfProperties ==
    ASSUME NEW S, NEW s \in Seq(S)
    PROVE  /\ LastOf(s) \in Seq(S)
           /\ Len(LastOf(s)) = Len(s) - Gone(s) /\ Len(LastOf(s)) <= Limit
           /\ Gone(s) \in Nat
           /\ \A i \in 1..Len(LastOf(s)) : LastOf(s)[i] = s[Gone(s) + i]
<1>. DEFINE gone == Gone(s)
            first == IF Len(s) > Limit THEN Len(s) - Limit + 1 ELSE 1
<1>. USE LimitsAssumption
<1>1. Len(s) \in Nat
  BY LenProperties
<1>2. /\ gone \in Nat /\ gone <= Len(s) /\ first = gone + 1
      /\ first \in Int /\ first >= 1 /\ Len(s) - gone <= Limit
  BY <1>1 DEF Gone
<1>3. LastOf(s) = SubSeq(s, first, Len(s))
  BY DEF LastOf
<1>. HIDE DEF first, gone
<1>4. \A i \in first..Len(s) : s[i] \in S
  BY <1>1, <1>2, ElementOfSeq
<1>5. /\ SubSeq(s, first, Len(s)) \in Seq(S)
      /\ Len(SubSeq(s, first, Len(s))) =
            IF first <= Len(s) THEN Len(s) - first + 1 ELSE 0
      /\ \A i \in 1..(Len(s) - first + 1) :
            SubSeq(s, first, Len(s))[i] = s[first + i - 1]
  <2>1. first \in Int /\ first >= 1 /\ Len(s) \in Nat
    BY <1>1, <1>2
  <2>. QED  BY <1>4, <2>1, SubSeqProperties
<1>6. Len(s) - first + 1 = Len(s) - gone
      /\ (first > Len(s) => Len(s) - gone = 0)
  BY <1>1, <1>2
<1>7. PICK t : t = LastOf(s)
  OBVIOUS
<1>8. /\ t \in Seq(S)
      /\ Len(t) = IF first <= Len(s) THEN Len(s) - first + 1 ELSE 0
      /\ \A i \in 1..(Len(s) - first + 1) : t[i] = s[first + i - 1]
  BY <1>3, <1>5, <1>7
<1>9. Len(t) = Len(s) - gone
  <2>1. CASE first <= Len(s)
    BY <1>6, <1>8, <2>1
  <2>2. CASE ~(first <= Len(s))
    <3>1. first > Len(s)
      BY <1>1, <1>2, <2>2
    <3>. QED  BY <1>6, <1>8, <2>2, <3>1
  <2>. QED  BY <2>1, <2>2
<1>10. \A i \in 1..(Len(s) - gone) : t[i] = s[gone + i]
  <2>1. \A i \in 1..(Len(s) - gone) : first + i - 1 = gone + i
    BY <1>1, <1>2
  <2>. QED  BY <1>6, <1>8, <2>1
<1>. QED  BY <1>2, <1>7, <1>8, <1>9, <1>10 DEF gone

---------------------------------------------------------------------------
(* The invariant of the lists is inductive.                                *)

\* A board stays one while more was shown.
LEMMA BoardKept ==
    ASSUME NEW hs, IsBoard(hs), shown \subseteq shown'
    PROVE  IsBoard(hs)'
BY DEF IsBoard, SameStory

\* A request keeps its invariant while time passes and more is shown.
LEMMA RequestKept ==
    ASSUME NEW r, RequestInv(r), shown \subseteq shown',
           clock \in Int, clock' \in Int, clock <= clock'
    PROVE  RequestInv(r)'
<1>1. IsSnapshot(r.snap) => IsSnapshot(r.snap)'
  <2>1. PICK c : c = r.snap
    OBVIOUS
  <2>2. IsSnapshot(c) => IsSnapshot(c)'
    BY BoardKept DEF IsSnapshot
  <2>. QED  BY <2>1, <2>2 DEF IsSnapshot, IsBoard
<1>. QED  BY <1>1 DEF RequestInv

\* What a handler saves of boards is one.
LEMMA SavedIsSnapshot ==
    ASSUME SnapInv, NEW fs \in Seq(FeedRecord), NEW hs, IsBoard(hs)
    PROVE  IsSnapshot(Snapshot(fs, hs))
<1>1. clock \in Int
  BY LimitsAssumption DEF SnapInv, StoreInv
<1>2. RecentFeeds(fs) \in Seq(FeedRecord)
  BY SublistType DEF RecentFeeds
<1>3. IsBoard(RecentHeadlines(hs, clock))
  BY BoardPart DEF RecentHeadlines
<1>4. RecentHeadlines(hs, clock) \in Seq(Headline)
  BY <1>3 DEF IsBoard
<1>. QED  BY <1>2, <1>3, <1>4 DEF Snapshot, IsSnapshot, Contents

\* The requests keep their invariant while time passes and more is shown.
LEMMA JobsKept ==
    ASSUME SnapInv, shown \subseteq shown', clock' \in Int, clock <= clock',
           DOMAIN job' = Handler,
           \A g \in Handler : \A q : q = job'[g] /\ q # None => RequestInv(q)
    PROVE  JobInv'
<1>1. clock \in Int
  BY LimitsAssumption DEF SnapInv, StoreInv
<1>2. \A q : RequestInv(q) => RequestInv(q)'
  BY <1>1, RequestKept
<1>3. ASSUME NEW g \in Handler, NEW q, q = job'[g], q # None
      PROVE  RequestInv(q)'
  BY <1>2, <1>3
<1>4. ASSUME NEW g \in Handler, job'[g] # None
      PROVE  RequestInv(job[g])'
  BY <1>3, <1>4 DEF RequestInv, IsSnapshot, IsBoard
<1>. QED  BY <1>4 DEF JobInv

\* So does the request of every other handler.
LEMMA OneWorks ==
    ASSUME SnapInv, shown \subseteq shown', clock' = clock,
           NEW h \in Handler, NEW r, r # None => RequestInv(r), Work(h, r)
    PROVE  JobInv'
<1>1. job' = [job EXCEPT ![h] = r] /\ DOMAIN job = Handler
  BY DEF Work, SnapInv, JobInv
<1>2. ASSUME NEW g \in Handler, NEW q, q = job'[g], q # None
      PROVE  RequestInv(q)
  <2>1. q = r \/ q = job[g]
    BY <1>1, <1>2
  <2>. QED  BY <1>2, <2>1 DEF SnapInv, JobInv
<1>3. clock \in Int
  BY LimitsAssumption DEF SnapInv, StoreInv
<1>. QED  BY <1>1, <1>2, <1>3, JobsKept

\* A step of one handler that leaves the store, the files and time as they are.
LEMMA HandlerStep ==
    ASSUME SnapInv, NEW h \in Handler, NEW r, r # None => RequestInv(r), Work(h, r),
           UNCHANGED <<feeds, headlines, path, tmp, clock, shown>>
    PROVE  SnapInv'
<1>1. \A hs : IsBoard(hs) => IsBoard(hs)'
  BY BoardKept
<1>2. StoreInv'
  BY <1>1 DEF SnapInv, StoreInv
<1>3. DiskInv'
  BY <1>1 DEF SnapInv, DiskInv, IsSnapshot
<1>. QED  BY <1>2, <1>3, OneWorks DEF SnapInv

\* The request a handler works on.
LEMMA WorkedOn ==
    ASSUME SnapInv, NEW h \in Handler, NEW step, At(h, step)
    PROVE  RequestInv(job[h]) /\ job[h] \in Request /\ job[h].step = step
BY DEF At, SnapInv, JobInv, RequestInv

\* A new request.
LEMMA ArriveStep ==
    ASSUME SnapInv, NEW h \in Handler, NEW b \in Bodies, Arrive(h, b)
    PROVE  SnapInv'
<1>1. b \in Body
  BY BodiesAssumption
<1>2. clock \in 0..MaxClock
  BY DEF SnapInv, StoreInv
<1>3. Incoming(b) \in Seq(Queued)
  <2>1. b.caps \in Seq(CapsuleType) /\ b.feed \in Feed /\ b.public \in BOOLEAN
    BY <1>1 DEF Body
  <2>2. DOMAIN b.caps = 1..Len(b.caps) /\ Len(b.caps) \in Nat
        /\ \A i \in DOMAIN b.caps : b.caps[i] \in CapsuleType
    BY <2>1, LenProperties, ElementOfSeq
  <2>3. \A i \in DOMAIN b.caps : clock - b.caps[i].age \in Times
    BY <1>2, <2>2, LimitsAssumption DEF CapsuleType, Times
  <2>. QED  BY <2>1, <2>2, <2>3 DEF Incoming, CapsuleType, Queued
<1>4. PICK r : /\ Work(h, r)
               /\ r = [step |-> IF b.presence THEN "upsert" ELSE "next",
                       pushing |-> FALSE, now |-> None,
                       feed |-> b.feed, public |-> b.public, left |-> Incoming(b),
                       snap |-> None, fd |-> None]
  BY DEF Arrive
<1>5. RequestInv(r)
  BY <1>1, <1>3, <1>4 DEF RequestInv, Request, Step, Body
<1>. QED  BY <1>4, <1>5, HandlerStep DEF Arrive, store, disk

\* The answer, and the capsules looked at one by one.
LEMMA CapsuleStep ==
    ASSUME SnapInv, NEW h \in Handler, Answer(h) \/ NextCapsule(h)
    PROVE  SnapInv'
<1>1. CASE Answer(h)
  BY <1>1, HandlerStep DEF Answer, store, disk, history
<1>2. CASE NextCapsule(h)
  <2>1. PICK r : r = job[h]
    OBVIOUS
  <2>2. RequestInv(r) /\ r \in Request /\ r.step = "next"
    BY <1>2, <2>1, WorkedOn DEF NextCapsule
  <2>3. clock \in Nat /\ clock \in 0..clock
    BY LimitsAssumption DEF SnapInv, StoreInv
  <2>4. r.left \in Seq(Queued) /\ r.left # <<>>
    BY <1>2, <2>1, <2>2 DEF NextCapsule, Request
  <2>5. r.left[1] \in Queued /\ Tail(r.left) \in Seq(Queued)
    BY <2>4
  <2>6. r.left[1].at \in Int
    BY <2>5, LimitsAssumption DEF Queued, Times
  <2>7. CASE clock - r.left[1].at > HeadlineTtl
    <3>1. Work(h, [r EXCEPT !.left = Tail(@)])
      BY <1>2, <2>1, <2>7 DEF NextCapsule
    <3>2. RequestInv([r EXCEPT !.left = Tail(@)])
      BY <2>2, <2>5 DEF RequestInv, Request
    <3>. QED  BY <1>2, <3>1, <3>2, HandlerStep DEF NextCapsule, store, disk, history
  <2>8. CASE ~(clock - r.left[1].at > HeadlineTtl)
    <3>. DEFINE q == [r EXCEPT !.step = "upsert", !.pushing = TRUE, !.now = clock]
    <3>1. Work(h, q)
      BY <1>2, <2>1, <2>8 DEF NextCapsule
    <3>2. clock - r.left[1].at <= HeadlineTtl
      BY <2>3, <2>6, <2>8, LimitsAssumption
    <3>3. q \in Request
      BY <2>2, <2>3 DEF Request, Step
    <3>4. /\ q.step = "upsert" /\ q.left = r.left /\ q.now = clock
          /\ q.snap = r.snap
      BY <2>2 DEF Request
    <3>5. RequestInv(q)
      BY <2>2, <2>3, <2>4, <3>2, <3>3, <3>4 DEF RequestInv
    <3>. HIDE DEF q
    <3>. QED  BY <1>2, <3>1, <3>5, HandlerStep DEF NextCapsule, store, disk, history
  <2>. QED  BY <2>7, <2>8
<1>. QED  BY <1>1, <1>2

\* The copies a handler takes.
LEMMA CopyStep ==
    ASSUME SnapInv, NEW h \in Handler, CopyHeadlines(h) \/ CopyFeeds(h)
    PROVE  SnapInv'
<1>1. PICK r : r = job[h]
  OBVIOUS
<1>2. RequestInv(r) /\ r \in Request /\ r.step \in {"copy", "feeds"}
  BY <1>1, WorkedOn DEF CopyHeadlines, CopyFeeds
<1>3. feeds \in Seq(FeedRecord) /\ IsBoard(headlines)
  BY DEF SnapInv, StoreInv
<1>4. PICK c : IsSnapshot(c) /\ Work(h, [r EXCEPT !.step = "open", !.snap = c])
  <2>1. CASE CopyHeadlines(h)
    <3>1. r.snap # None /\ r.snap.feeds \in Seq(FeedRecord)
      BY <1>1, <1>2, <2>1 DEF RequestInv, IsSnapshot, Contents, CopyHeadlines, At
    <3>2. IsBoard(Public(headlines))
      BY <1>3, BoardPart DEF Public
    <3>3. Work(h, [r EXCEPT !.step = "open",
                            !.snap = Snapshot(r.snap.feeds, Public(headlines))])
      <4>1. [r EXCEPT !.step = "open", !.snap = Snapshot(@.feeds, Public(headlines))]
              = [r EXCEPT !.step = "open",
                          !.snap = Snapshot(r.snap.feeds, Public(headlines))]
        BY <1>2 DEF Request
      <4>. QED  BY <1>1, <2>1, <4>1 DEF CopyHeadlines
    <3>. QED  BY <3>1, <3>2, <3>3, SavedIsSnapshot
  <2>2. CASE CopyFeeds(h)
    BY <1>1, <1>3, <2>2, SavedIsSnapshot DEF CopyFeeds
  <2>. QED  BY <2>1, <2>2
<1>. DEFINE q == [r EXCEPT !.step = "open", !.snap = c]
<1>5. q \in Request
  BY <1>2, <1>4 DEF Request, Step, IsSnapshot
<1>6. /\ q.step = "open" /\ q.left = r.left /\ q.now = r.now
      /\ q.snap = c /\ q.pushing = r.pushing
  BY <1>2 DEF Request
<1>7. RequestInv(q)
  BY <1>2, <1>4, <1>5, <1>6, ContentsAssumption DEF RequestInv, IsSnapshot
<1>. HIDE DEF q
<1>. QED  BY <1>4, <1>7, HandlerStep
          DEF CopyHeadlines, CopyFeeds, store, disk, history, q

\* The feed is registered.
LEMMA UpsertStep ==
    ASSUME SnapInv, NEW h \in Handler, UpsertFeed(h)
    PROVE  SnapInv'
<1>1. PICK r : r = job[h]
  OBVIOUS
<1>2. RequestInv(r) /\ r \in Request /\ r.step = "upsert"
  BY <1>1, WorkedOn DEF UpsertFeed
<1>3. clock \in Nat /\ clock' = clock /\ shown' = shown /\ headlines' = headlines
      /\ path' = path /\ tmp' = tmp
  BY LimitsAssumption DEF SnapInv, StoreInv, UpsertFeed, disk, history
<1>. DEFINE kept == RecentFeeds(feeds)
            f == [feed |-> r.feed, public |-> r.public, seen |-> clock]
<1>4. feeds' \in Seq(FeedRecord)
  <2>1. f \in FeedRecord
    BY <1>2, <1>3 DEF Request, FeedRecord
  <2>2. kept \in Seq(FeedRecord)
    BY SublistType DEF SnapInv, StoreInv, RecentFeeds
  <2>. HIDE DEF f, kept
  <2>3. Upsert(kept, f) \in Seq(FeedRecord)
    <3>1. DOMAIN kept = 1..Len(kept) /\ Len(kept) \in Nat
          /\ \A i \in DOMAIN kept : kept[i] \in FeedRecord
      BY <2>2, LenProperties, ElementOfSeq
    <3>2. [i \in DOMAIN kept |-> IF kept[i].feed = f.feed THEN f ELSE kept[i]]
            \in Seq(FeedRecord)
      BY <2>1, <3>1
    <3>3. Append(kept, f) \in Seq(FeedRecord)
      BY <2>1, <2>2, AppendProperties
    <3>. QED  BY <3>2, <3>3 DEF Upsert
  <2>4. feeds' = LastOf(Upsert(kept, f))
    BY <1>1 DEF UpsertFeed, kept, f
  <2>. QED  BY <2>3, <2>4, LastOfProperties
<1>5. PICK c : c = [feeds |-> feeds', headlines |-> <<>>]
  OBVIOUS
<1>. DEFINE q == [r EXCEPT !.step = "copy", !.snap = c]
<1>6. Work(h, q)
  BY <1>1, <1>5 DEF UpsertFeed
<1>7. RequestInv(q)
  <2>1. IsBoard(<<>>) /\ <<>> \in Seq(Headline)
    BY LimitsAssumption DEF IsBoard
  <2>2. c \in Contents /\ c.headlines = <<>>
    <3>1. PICK fs : fs = feeds'
      OBVIOUS
    <3>2. c = [feeds |-> fs, headlines |-> <<>>] /\ fs \in Seq(FeedRecord)
      BY <1>4, <1>5, <3>1
    <3>. QED  BY <2>1, <3>2 DEF Contents
  <2>3. IsSnapshot(c) /\ c # None
    BY <2>1, <2>2, ContentsAssumption DEF IsSnapshot
  <2>4. q \in Request
    BY <1>2, <2>2 DEF Request, Step
  <2>5. /\ q.step = "copy" /\ q.left = r.left /\ q.now = r.now
        /\ q.snap = c /\ q.pushing = r.pushing
    BY <1>2 DEF Request
  <2>. HIDE DEF q
  <2>. QED  BY <1>2, <2>3, <2>4, <2>5 DEF RequestInv
<1>. HIDE DEF q
<1>8. JobInv'
  BY <1>3, <1>6, <1>7, OneWorks
<1>9. StoreInv' /\ DiskInv'
  <2>1. \A hs : IsBoard(hs) => IsBoard(hs)'
    BY <1>3, BoardKept
  <2>. QED  BY <1>3, <1>4, <2>1 DEF SnapInv, StoreInv, DiskInv, IsSnapshot
<1>. QED  BY <1>8, <1>9 DEF SnapInv

\* A capsule that is done with leaves a request.
LEMMA DoneRequest ==
    ASSUME NEW r, RequestInv(r), r.left # <<>>
    PROVE  RequestInv(Done(r)) /\ Done(r) # None
<1>1. r \in Request
  BY DEF RequestInv
<1>2. r.left \in Seq(Queued) /\ Tail(r.left) \in Seq(Queued)
  BY <1>1 DEF Request
<1>. DEFINE d == Done(r)
<1>3. d \in Request /\ d.step = "next" /\ ~d.pushing /\ d.snap = None
  BY <1>1, <1>2 DEF Done, Request, Step
<1>. HIDE DEF d
<1>4. RequestInv(d) /\ d # None
  BY <1>3, ContentsAssumption DEF RequestInv
<1>. QED  BY <1>4 DEF d

\* A full list gives its first place away.
LEMMA LastOfAppend ==
    ASSUME NEW S, NEW s \in Seq(S), NEW e \in S, Len(s) <= Limit
    PROVE  LastOf(Append(s, e)) = IF Len(s) >= Limit THEN Append(Tail(s), e)
                                  ELSE Append(s, e)
<1>. DEFINE a == Append(s, e)
            gone == Gone(a)
<1>. USE LimitsAssumption
<1>1. Len(s) \in Nat
  BY LenProperties
<1>2. /\ a \in Seq(S) /\ Len(a) = Len(s) + 1
      /\ \A i \in 1..Len(s) : a[i] = s[i]
      /\ a[Len(s) + 1] = e
  BY AppendProperties
<1>3. gone = IF Len(s) >= Limit THEN 1 ELSE 0
  BY <1>1, <1>2 DEF Gone
<1>4. PICK t : t = LastOf(a)
  OBVIOUS
<1>5. /\ t \in Seq(S) /\ Len(t) = Len(a) - gone
      /\ \A i \in 1..Len(t) : t[i] = a[gone + i]
  BY <1>2, <1>4, LastOfProperties
<1>. HIDE DEF a, gone
<1>6. CASE Len(s) >= Limit
  <2>1. gone = 1 /\ Len(t) = Len(s) /\ Len(s) >= 1
    BY <1>1, <1>2, <1>3, <1>5, <1>6
  <2>2. s # <<>>
    BY <2>1
  <2>3. /\ Tail(s) \in Seq(S) /\ Len(Tail(s)) = Len(s) - 1
        /\ \A i \in 1..Len(Tail(s)) : Tail(s)[i] = s[i + 1]
    BY <2>2, HeadTailProperties
  <2>4. PICK u : u = Append(Tail(s), e)
    OBVIOUS
  <2>5. /\ u \in Seq(S) /\ Len(u) = Len(s)
        /\ \A i \in 1..(Len(s) - 1) : u[i] = s[i + 1]
        /\ u[Len(s)] = e
    <3>1. /\ u \in Seq(S) /\ Len(u) = Len(Tail(s)) + 1
          /\ \A i \in 1..Len(Tail(s)) : u[i] = Tail(s)[i]
          /\ u[Len(Tail(s)) + 1] = e
      BY <2>3, <2>4, AppendProperties
    <3>. QED  BY <1>1, <2>3, <3>1
  <2>6. \A i \in 1..Len(t) : t[i] = u[i]
    <3>1. TAKE i \in 1..Len(t)
    <3>2. t[i] = a[1 + i]
      BY <1>5, <2>1
    <3>3. CASE i = Len(s)
      BY <1>1, <1>2, <2>1, <2>5, <3>2, <3>3
    <3>4. CASE i # Len(s)
      <4>1. i \in 1..(Len(s) - 1) /\ i + 1 \in 1..Len(s) /\ i + 1 = 1 + i
        BY <1>1, <2>1, <3>4
      <4>. QED  BY <1>2, <2>5, <3>2, <4>1
    <3>. QED  BY <3>3, <3>4
  <2>7. t = u
    BY <1>5, <2>1, <2>5, <2>6, SeqEqual
  <2>. QED  BY <1>4, <1>6, <2>4, <2>7 DEF a
<1>7. CASE ~(Len(s) >= Limit)
  <2>1. gone = 0 /\ Len(t) = Len(a) /\ Len(a) \in Nat
    BY <1>1, <1>2, <1>3, <1>5, <1>7
  <2>2. \A i \in 1..Len(t) : t[i] = a[i]
    <3>1. \A i \in 1..Len(t) : gone + i = i
      BY <2>1
    <3>. QED  BY <1>5, <3>1
  <2>3. t = a
    BY <1>2, <1>5, <2>1, <2>2, SeqEqual
  <2>. QED  BY <1>4, <1>7, <2>3 DEF a
<1>. QED  BY <1>6, <1>7

\* A board with one more story.
LEMMA BoardPushed ==
    ASSUME NEW hs, IsBoard(hs), NEW e \in Headline,
           \A i \in DOMAIN hs : ~SameStory(hs[i], e), shown' = shown \union {e}
    PROVE  IsBoard(LastOf(Append(hs, e)))'
<1>. USE LimitsAssumption
<1>1. hs \in Seq(Headline) /\ Len(hs) \in Nat /\ DOMAIN hs = 1..Len(hs)
  BY LenProperties DEF IsBoard
<1>2. PICK a : a = Append(hs, e)
  OBVIOUS
<1>3. /\ a \in Seq(Headline) /\ Len(a) = Len(hs) + 1
      /\ \A i \in 1..Len(hs) : a[i] = hs[i]
      /\ a[Len(hs) + 1] = e
  BY <1>1, <1>2, AppendProperties
<1>4. \A i \in 1..Len(a) : i \in 1..Len(hs) \/ i = Len(hs) + 1
  BY <1>1, <1>3
<1>5. \A i \in 1..Len(a) : a[i] \in shown'
  BY <1>3, <1>4 DEF IsBoard
<1>6. ASSUME NEW i \in 1..Len(a), NEW j \in 1..Len(a), i # j
      PROVE  ~SameStory(a[i], a[j])
  <2>1. CASE i \in 1..Len(hs) /\ j \in 1..Len(hs)
    BY <1>3, <1>6, <2>1 DEF IsBoard
  <2>2. CASE i = Len(hs) + 1
    <3>1. j \in 1..Len(hs) /\ a[i] = e /\ a[j] = hs[j]
      BY <1>3, <1>4, <1>6, <2>2
    <3>. QED  BY <1>1, <3>1 DEF SameStory
  <2>3. CASE j = Len(hs) + 1
    <3>1. i \in 1..Len(hs) /\ a[j] = e /\ a[i] = hs[i]
      BY <1>3, <1>4, <1>6, <2>3
    <3>. QED  BY <1>1, <3>1 DEF SameStory
  <2>. QED  BY <1>4, <2>1, <2>2, <2>3
<1>7. PICK gone : gone = Gone(a)
  OBVIOUS
<1>8. PICK t : t = LastOf(a)
  OBVIOUS
<1>9. /\ t \in Seq(Headline) /\ Len(t) = Len(a) - gone /\ Len(t) <= Limit
      /\ gone \in Nat /\ \A i \in 1..Len(t) : t[i] = a[gone + i]
  BY <1>3, <1>7, <1>8, LastOfProperties
<1>10. Len(a) \in Nat
  BY <1>1, <1>3
<1>11. \A i \in 1..Len(t) : gone + i \in 1..Len(a)
  BY <1>9, <1>10
<1>12. \A i, j \in 1..Len(t) : i # j => gone + i # gone + j
  BY <1>9
<1>13. ASSUME NEW i \in 1..Len(t), NEW j \in 1..Len(t), i # j
       PROVE  ~SameStory(t[i], t[j])
  <2>1. ~SameStory(a[gone + i], a[gone + j])
    BY <1>6, <1>11, <1>12, <1>13
  <2>. QED  BY <1>9, <2>1
<1>14. \A i \in 1..Len(t) : t[i] \in shown'
  BY <1>5, <1>9, <1>11
<1>15. IsBoard(t)'
  BY <1>9, <1>13, <1>14 DEF IsBoard, SameStory
<1>. QED  BY <1>2, <1>8, <1>15 DEF IsBoard

\* What a push looks at.
LEMMA Pushed ==
    ASSUME SnapInv, NEW h \in Handler, At(h, "push"),
           NEW r, r = job[h], NEW c, c = r.left[1],
           NEW new, new = [feed |-> c.feed, topic |-> c.topic,
                           public |-> c.public, at |-> c.at],
           NEW kept, kept = RecentHeadlines(headlines, r.now)
    PROVE  /\ RequestInv(r) /\ r \in Request /\ r.step = "push" /\ r.pushing
           /\ r.left # <<>> /\ r.now \in 0..clock
           /\ r.now - new.at <= HeadlineTtl
           /\ new \in Headline /\ IsBoard(kept)
           /\ kept \in Seq(Headline) /\ Len(kept) <= Limit
<1>1. RequestInv(r) /\ r \in Request /\ r.step = "push"
  BY WorkedOn
<1>2. r.pushing /\ r.left # <<>> /\ r.now \in 0..clock
      /\ r.now - c.at <= HeadlineTtl
  BY <1>1 DEF RequestInv
<1>3. r.left \in Seq(Queued)
  BY <1>1 DEF Request
<1>4. c \in Queued
  BY <1>2, <1>3
<1>5. new \in Headline /\ new.at = c.at
  BY <1>4 DEF Queued, Headline
<1>6. IsBoard(kept)
  BY BoardPart DEF SnapInv, StoreInv, RecentHeadlines
<1>. QED  BY <1>1, <1>2, <1>5, <1>6 DEF IsBoard

\* A capsule is pushed.
LEMMA PushStep ==
    ASSUME SnapInv, NEW h \in Handler, Push(h)
    PROVE  SnapInv'
<1>1. PICK r, c, new, kept :
        /\ r = job[h] /\ c = r.left[1]
        /\ new = [feed |-> c.feed, topic |-> c.topic, public |-> c.public,
                  at |-> c.at]
        /\ kept = RecentHeadlines(headlines, r.now)
  OBVIOUS
<1>2. /\ RequestInv(r) /\ r \in Request /\ r.step = "push" /\ r.pushing
      /\ r.left # <<>> /\ new \in Headline
      /\ IsBoard(kept) /\ kept \in Seq(Headline) /\ Len(kept) <= Limit
  BY <1>1, Pushed DEF Push
<1>3. feeds' = feeds /\ path' = path /\ tmp' = tmp /\ clock' = clock
  BY DEF Push, disk
<1>4. \/ headlines' = kept /\ Work(h, Done(r)) /\ shown' = shown
      \/ /\ \A i \in DOMAIN kept : ~SameStory(kept[i], new)
         /\ headlines' = LastOf(Append(kept, new))
         /\ Work(h, [r EXCEPT !.step = "feeds"])
         /\ shown' = shown \union {new}
  BY <1>1 DEF Push
<1>5. \A hs : IsBoard(hs) => IsBoard(hs)'
  BY <1>4, BoardKept
<1>6. DiskInv'
  BY <1>3, <1>5 DEF SnapInv, DiskInv, IsSnapshot
<1>7. PICK hs : hs = headlines'
  OBVIOUS
<1>8. IsBoard(hs)' /\ shown \subseteq shown'
  <2>1. CASE hs = kept /\ shown' = shown
    BY <1>2, <1>5, <2>1
  <2>2. CASE /\ \A i \in DOMAIN kept : ~SameStory(kept[i], new)
             /\ hs = LastOf(Append(kept, new)) /\ shown' = shown \union {new}
    <3>1. IsBoard(LastOf(Append(kept, new)))'
      BY <1>2, <2>2, BoardPushed
    <3>. QED  BY <2>2, <3>1
  <2>. QED  BY <1>4, <1>7, <2>1, <2>2
<1>9. StoreInv'
  BY <1>3, <1>7, <1>8 DEF SnapInv, StoreInv, IsBoard
<1>10. JobInv'
  <2>1. CASE Work(h, Done(r))
    BY <1>2, <1>3, <1>8, <2>1, DoneRequest, OneWorks
  <2>2. CASE Work(h, [r EXCEPT !.step = "feeds"])
    <3>. DEFINE q == [r EXCEPT !.step = "feeds"]
    <3>1. /\ q \in Request /\ q.step = "feeds" /\ q.left = r.left
          /\ q.now = r.now /\ q.snap = r.snap /\ q.pushing = r.pushing
      BY <1>2 DEF Request, Step
    <3>2. RequestInv(q)
      BY <1>2, <3>1 DEF RequestInv
    <3>. HIDE DEF q
    <3>3. Work(h, q)
      BY <2>2 DEF q
    <3>. QED  BY <1>3, <1>8, <3>2, <3>3, OneWorks
  <2>. QED  BY <1>4, <2>1, <2>2
<1>. QED  BY <1>6, <1>9, <1>10 DEF SnapInv

\* What is written over a file is unreadable or what was saved.
LEMMA OverwrittenIs ==
    ASSUME NEW c, NEW s, IsSnapshot(s), NEW d \in Overwritten(c, s)
    PROVE  d \in {None, Empty, Torn} \/ IsSnapshot(d)
BY DEF Overwritten

\* The temporary file is opened and written.
LEMMA WriteStep ==
    ASSUME SnapInv, NEW h \in Handler, Open(h) \/ Write(h)
    PROVE  SnapInv'
<1>1. PICK r : r = job[h]
  OBVIOUS
<1>2. /\ RequestInv(r) /\ r \in Request /\ r.step \in {"open", "write"}
      /\ r.snap # None /\ IsSnapshot(r.snap)
  <2>1. RequestInv(r) /\ r \in Request /\ r.step \in {"open", "write"}
    BY <1>1, WorkedOn DEF Open, Write
  <2>. QED  BY <2>1 DEF RequestInv
<1>3. feeds' = feeds /\ headlines' = headlines /\ clock' = clock /\ shown' = shown
  BY DEF Open, Write, store, history
<1>4. \A hs : IsBoard(hs) => IsBoard(hs)'
  BY <1>3, BoardKept
<1>5. StoreInv'
  BY <1>3, <1>4 DEF SnapInv, StoreInv
<1>6. DiskInv'
  <2>1. path' \in {None, Empty, Torn} \/ IsSnapshot(path')
    BY <1>1, <1>2, OverwrittenIs DEF SnapInv, DiskInv, Open, Write
  <2>2. tmp' \in {None, Empty, Torn} \/ IsSnapshot(tmp')
    BY <1>1, <1>2, OverwrittenIs DEF SnapInv, DiskInv, Open, Write
  <2>3. PICK p, t : p = path' /\ t = tmp'
    OBVIOUS
  <2>4. p \in {None, Empty, Torn} \/ IsSnapshot(p)'
    BY <1>4, <2>1, <2>3 DEF IsSnapshot
  <2>5. t \in {None, Empty, Torn} \/ IsSnapshot(t)'
    BY <1>4, <2>2, <2>3 DEF IsSnapshot
  <2>. QED  BY <2>3, <2>4, <2>5 DEF DiskInv, IsSnapshot, IsBoard
<1>7. JobInv'
  <2>1. PICK q : /\ Work(h, q) /\ q \in Request /\ q.step \in {"write", "rename"}
                 /\ q.left = r.left /\ q.now = r.now /\ q.snap = r.snap
                 /\ q.pushing = r.pushing
    <3>1. CASE Open(h)
      <4>. DEFINE q == [r EXCEPT !.step = "write", !.fd = "tmp"]
      <4>1. /\ q \in Request /\ q.step = "write" /\ q.left = r.left
            /\ q.now = r.now /\ q.snap = r.snap /\ q.pushing = r.pushing
        BY <1>2 DEF Request, Step
      <4>2. Work(h, q)
        BY <1>1, <3>1 DEF Open
      <4>. HIDE DEF q
      <4>. QED  BY <4>1, <4>2
    <3>2. CASE Write(h)
      BY <1>1, <1>2, <3>2 DEF Write, Request, Step
    <3>. QED  BY <3>1, <3>2
  <2>2. RequestInv(q)
    BY <1>2, <2>1 DEF RequestInv
  <2>. QED  BY <1>3, <2>1, <2>2, OneWorks
<1>. QED  BY <1>5, <1>6, <1>7 DEF SnapInv

Places == {"tmp", "path", "none"}

\* The requests after one of them has saved.
LEMMA SaveJobs ==
    ASSUME SnapInv, LockInv, NEW h \in Handler, At(h, "rename") \/ At(h, "remove"),
           NEW names, \A x \in Places : names[x] \in Places, Renamed(h, names),
           clock' = clock, shown' = shown
    PROVE  JobInv'
<1>1. PICK r : r = job[h]
  OBVIOUS
<1>2. RequestInv(r) /\ r \in Request /\ r.step \in {"rename", "remove"}
  BY <1>1, WorkedOn
<1>3. PICK q : q = AfterSave(h)
  OBVIOUS
<1>4. RequestInv(q)
  <2>1. CASE lock = h
    <3>1. r.left # <<>>
      BY <1>1, <1>2, <2>1, ContentsAssumption DEF LockInv, RequestInv
    <3>. QED  BY <1>1, <1>2, <1>3, <2>1, <3>1, DoneRequest DEF AfterSave
  <2>2. CASE lock # h
    <3>1. q = [r EXCEPT !.step = IF r.pushing THEN "push" ELSE "next",
                        !.snap = None, !.fd = None]
      BY <1>1, <1>3, <2>2 DEF AfterSave
    <3>2. /\ q \in Request /\ q.left = r.left /\ q.now = r.now
          /\ q.step = IF r.pushing THEN "push" ELSE "next"
          /\ q.snap = None /\ q.pushing = r.pushing
      BY <1>2, <3>1 DEF Request, Step
    <3>. QED  BY <1>2, <3>2 DEF RequestInv
  <2>. QED  BY <2>1, <2>2
<1>5. ASSUME NEW g \in Handler, NEW p, p = job'[g], p # None
      PROVE  RequestInv(p)
  <2>1. CASE g = h
    BY <1>3, <1>4, <1>5, <2>1 DEF Renamed
  <2>2. CASE g # h /\ (job[g] = None \/ job[g].fd = None)
    <3>1. p = job[g]
      BY <1>5, <2>2 DEF Renamed
    <3>. QED  BY <1>5, <3>1 DEF SnapInv, JobInv
  <2>3. CASE g # h /\ job[g] # None /\ job[g].fd # None
    <3>1. PICK o : o = job[g]
      OBVIOUS
    <3>2. RequestInv(o) /\ o \in Request
      BY <2>3, <3>1 DEF SnapInv, JobInv, RequestInv
    <3>3. p = [o EXCEPT !.fd = names[o.fd]]
      BY <1>5, <2>3, <3>1, <3>2 DEF Renamed, Request
    <3>4. names[o.fd] \in Places
      BY <2>3, <3>1, <3>2 DEF Request, Places
    <3>5. /\ p \in Request /\ p.step = o.step /\ p.left = o.left
          /\ p.now = o.now /\ p.snap = o.snap /\ p.pushing = o.pushing
      BY <3>2, <3>3, <3>4 DEF Request, Places
    <3>. QED  BY <3>2, <3>5 DEF RequestInv
  <2>. QED  BY <2>1, <2>2, <2>3
<1>6. DOMAIN job' = Handler /\ clock \in Int
  BY LimitsAssumption DEF Renamed, SnapInv, StoreInv
<1>. QED  BY <1>5, <1>6, JobsKept

\* A request has saved, or failed to.
LEMMA SaveStep ==
    ASSUME SnapInv, LockInv, NEW h \in Handler,
           Rename(h) \/ RenameFails(h) \/ RemoveFile(h)
    PROVE  SnapInv'
<1>1. CASE RenameFails(h)
  <2>1. PICK r : r = job[h]
    OBVIOUS
  <2>2. RequestInv(r) /\ r \in Request /\ r.step = "rename"
    BY <1>1, <2>1, WorkedOn DEF RenameFails
  <2>. DEFINE q == [r EXCEPT !.step = "remove"]
  <2>3. /\ q \in Request /\ q.step = "remove" /\ q.left = r.left
        /\ q.now = r.now /\ q.snap = r.snap /\ q.pushing = r.pushing
    BY <2>2 DEF Request, Step
  <2>4. RequestInv(q)
    BY <2>2, <2>3 DEF RequestInv
  <2>5. Work(h, q)
    BY <1>1, <2>1 DEF RenameFails
  <2>. HIDE DEF q
  <2>. QED  BY <1>1, <2>4, <2>5, HandlerStep DEF RenameFails, store, disk, history
<1>2. CASE Rename(h) \/ RemoveFile(h)
  <2>1. feeds' = feeds /\ headlines' = headlines /\ clock' = clock /\ shown' = shown
    BY <1>2 DEF Rename, RemoveFile, store, history
  <2>2. \A hs : IsBoard(hs) => IsBoard(hs)'
    BY <2>1, BoardKept
  <2>3. StoreInv'
    BY <2>1, <2>2 DEF SnapInv, StoreInv
  <2>4. DiskInv'
    <3>1. PICK p, t : p = path' /\ t = tmp'
      OBVIOUS
    <3>2. (p = tmp \/ p = path) /\ t = None
      BY <1>2, <3>1 DEF Rename, RemoveFile
    <3>3. /\ p \in {None, Empty, Torn} \/ IsSnapshot(p)'
          /\ t \in {None, Empty, Torn} \/ IsSnapshot(t)'
      BY <2>2, <3>2 DEF IsSnapshot, SnapInv, DiskInv
    <3>. QED  BY <3>1, <3>3 DEF DiskInv, IsSnapshot, IsBoard
  <2>5. JobInv'
    <3>1. CASE Rename(h)
      <4>. DEFINE names == [tmp |-> "path", path |-> "none", none |-> "none"]
      <4>1. \A x \in Places : names[x] \in Places
        BY DEF Places
      <4>2. Renamed(h, names) /\ At(h, "rename")
        BY <3>1 DEF Rename
      <4>. HIDE DEF names
      <4>. QED  BY <2>1, <4>1, <4>2, SaveJobs
    <3>2. CASE RemoveFile(h)
      <4>. DEFINE names == [tmp |-> "none", path |-> "path", none |-> "none"]
      <4>1. \A x \in Places : names[x] \in Places
        BY DEF Places
      <4>2. Renamed(h, names) /\ At(h, "remove")
        BY <3>2 DEF RemoveFile
      <4>. HIDE DEF names
      <4>. QED  BY <2>1, <4>1, <4>2, SaveJobs
    <3>. QED  BY <1>2, <3>1, <3>2
  <2>. QED  BY <2>3, <2>4, <2>5 DEF SnapInv
<1>. QED  BY <1>1, <1>2

\* Time goes on.
LEMMA TickStep ==
    ASSUME SnapInv, Tick
    PROVE  SnapInv'
<1>1. /\ clock \in Nat /\ clock' = clock + 1 /\ clock' \in 0..MaxClock
      /\ shown' = shown /\ job' = job
      /\ feeds' = feeds /\ headlines' = headlines /\ path' = path /\ tmp' = tmp
  BY LimitsAssumption DEF SnapInv, StoreInv, Tick, store, disk, history
<1>2. \A hs : IsBoard(hs) => IsBoard(hs)'
  BY <1>1, BoardKept
<1>3. StoreInv' /\ DiskInv'
  BY <1>1, <1>2 DEF SnapInv, StoreInv, DiskInv, IsSnapshot
<1>4. JobInv'
  BY <1>1, JobsKept DEF SnapInv, JobInv
<1>. QED  BY <1>3, <1>4 DEF SnapInv

\* The edge comes back with what the file shows.
LEMMA RestartStep ==
    ASSUME SnapInv, Restart
    PROVE  SnapInv'
<1>1. /\ clock' = clock /\ shown' = shown /\ path' = path /\ tmp' = tmp
      /\ job' = [h \in Handler |-> None]
  BY DEF Restart, disk, history
<1>2. \A hs : IsBoard(hs) => IsBoard(hs)'
  BY <1>1, BoardKept
<1>3. PICK saved : /\ saved = IF path \in {None, Empty, Torn}
                              THEN [feeds |-> <<>>, headlines |-> <<>>] ELSE path
                   /\ feeds' = RecentFeeds(saved.feeds)
                   /\ headlines' = RecentHeadlines(saved.headlines, clock)
  BY DEF Restart
<1>4. saved.feeds \in Seq(FeedRecord) /\ IsBoard(saved.headlines)
  <2>1. CASE path \in {None, Empty, Torn}
    BY <1>3, <2>1, LimitsAssumption DEF IsBoard
  <2>2. CASE path \notin {None, Empty, Torn}
    BY <1>3, <2>2 DEF SnapInv, DiskInv, IsSnapshot, Contents
  <2>. QED  BY <2>1, <2>2
<1>5. feeds' \in Seq(FeedRecord)
  BY <1>3, <1>4, SublistType DEF RecentFeeds
<1>6. PICK hs : hs = RecentHeadlines(saved.headlines, clock)
  OBVIOUS
<1>7. IsBoard(hs)'
  BY <1>2, <1>4, <1>6, BoardPart DEF RecentHeadlines
<1>8. StoreInv' /\ DiskInv'
  <2>1. headlines' = hs
    BY <1>3, <1>6
  <2>. QED  BY <1>1, <1>2, <1>5, <1>7, <2>1
            DEF SnapInv, StoreInv, DiskInv, IsSnapshot, IsBoard
<1>9. JobInv'
  BY <1>1 DEF JobInv
<1>. QED  BY <1>8, <1>9 DEF SnapInv

---------------------------------------------------------------------------
(* The mutex.                                                              *)

\* A step of one handler that leaves the mutex as it is.
LEMMA LockKept ==
    ASSUME SnapInv, LockInv, NEW h \in Handler, NEW r, Work(h, r), lock' = lock,
           lock = h => /\ r # None /\ r.step \in Saving \union {"feeds"}
                       /\ r.pushing
    PROVE  LockInv'
<1>1. job' = [job EXCEPT ![h] = r] /\ DOMAIN job = Handler
  BY DEF Work, SnapInv, JobInv
<1>2. CASE lock = h
  <2>1. job'[lock'] = r
    BY <1>1, <1>2
  <2>. QED  BY <1>2, <2>1 DEF LockInv, Saving
<1>3. CASE lock # h /\ lock # None
  <2>1. job'[lock'] = job[lock]
    BY <1>1, <1>3 DEF LockInv
  <2>. QED  BY <1>3, <2>1 DEF LockInv, Saving
<1>4. CASE lock = None
  BY <1>4 DEF LockInv
<1>. QED  BY <1>2, <1>3, <1>4

\* The mutex is held from the push to the end of its save.
LEMMA LockStep ==
    ASSUME SnapInv, LockInv, [Next]_vars
    PROVE  LockInv'
<1>1. DOMAIN job = Handler
  BY DEF SnapInv, JobInv
<1>2. ASSUME NEW h \in Handler, NEW b \in Bodies, Arrive(h, b)
      PROVE  LockInv'
  <2>1. lock # h /\ lock' = lock
    BY <1>2, ContentsAssumption DEF Arrive, LockInv
  <2>. QED  BY <1>2, <2>1, LockKept DEF Arrive
<1>3. ASSUME NEW h \in Handler, Answer(h) \/ NextCapsule(h) \/ UpsertFeed(h)
      PROVE  LockInv'
  <2>1. job[h].step \notin Saving \union {"feeds"}
    BY <1>3 DEF Answer, NextCapsule, UpsertFeed, At, Saving
  <2>2. lock # h
    BY <2>1, ContentsAssumption DEF LockInv
  <2>3. lock' = lock
    BY <1>3 DEF Answer, NextCapsule, UpsertFeed
  <2>4. CASE Answer(h)
    BY <2>2, <2>3, <2>4, LockKept DEF Answer
  <2>5. CASE NextCapsule(h)
    BY <2>2, <2>3, <2>5, LockKept DEF NextCapsule
  <2>6. CASE UpsertFeed(h)
    <3>1. PICK r : Work(h, r)
      BY <2>6 DEF UpsertFeed
    <3>. QED  BY <2>2, <2>3, <3>1, LockKept
  <2>. QED  BY <1>3, <2>4, <2>5, <2>6
<1>4. ASSUME NEW h \in Handler, CopyHeadlines(h)
      PROVE  LockInv'
  BY <1>4 DEF CopyHeadlines, LockInv
<1>5. ASSUME NEW h \in Handler, Push(h)
      PROVE  LockInv'
  <2>1. CASE lock' = lock
    BY <1>5, <2>1 DEF Push, LockInv
  <2>2. CASE lock' # lock
    <3>1. lock' = h /\ Work(h, [job[h] EXCEPT !.step = "feeds"])
      BY <1>5, <2>2 DEF Push
    <3>2. job[h] \in Request /\ job[h].pushing
      <4>1. RequestInv(job[h]) /\ job[h].step = "push"
        BY <1>5, WorkedOn DEF Push
      <4>. QED  BY <4>1 DEF RequestInv
    <3>. DEFINE q == [job[h] EXCEPT !.step = "feeds"]
    <3>3. q \in Request /\ q.step = "feeds" /\ q.pushing
      BY <3>2 DEF Request, Step
    <3>. HIDE DEF q
    <3>4. job'[h] = q
      BY <1>1, <3>1 DEF Work, q
    <3>. QED  BY <3>1, <3>3, <3>4, ContentsAssumption DEF LockInv
  <2>. QED  BY <2>1, <2>2
<1>6. ASSUME NEW h \in Handler,
             CopyFeeds(h) \/ Open(h) \/ Write(h) \/ RenameFails(h)
      PROVE  LockInv'
  <2>1. PICK r : r = job[h]
    OBVIOUS
  <2>2. r \in Request
    BY <1>6, <2>1, WorkedOn DEF CopyFeeds, Open, Write, RenameFails
  <2>3. lock = h => r.pushing
    BY <2>1, ContentsAssumption DEF LockInv
  <2>4. PICK q : /\ Work(h, q) /\ q \in Request /\ q.pushing = r.pushing
                 /\ q.step \in Saving \union {"feeds"}
    <3>1. CASE CopyFeeds(h)
      <4>. DEFINE c == Snapshot(feeds, headlines)
                  q == [r EXCEPT !.step = "open", !.snap = c]
      <4>1. c \in Contents
        <5>1. IsSnapshot(c)
          BY SavedIsSnapshot DEF SnapInv, StoreInv
        <5>. QED  BY <5>1 DEF IsSnapshot
      <4>. HIDE DEF c
      <4>2. q \in Request /\ q.pushing = r.pushing /\ q.step = "open"
        BY <2>2, <4>1 DEF Request, Step
      <4>3. Work(h, q)
        BY <2>1, <3>1 DEF CopyFeeds, c
      <4>. HIDE DEF q
      <4>. QED  BY <4>2, <4>3 DEF Saving
    <3>2. CASE Open(h)
      <4>. DEFINE q == [r EXCEPT !.step = "write", !.fd = "tmp"]
      <4>1. q \in Request /\ q.pushing = r.pushing /\ q.step = "write"
        BY <2>2 DEF Request, Step
      <4>2. Work(h, q)
        BY <2>1, <3>2 DEF Open
      <4>. HIDE DEF q
      <4>. QED  BY <4>1, <4>2 DEF Saving
    <3>3. CASE Write(h) \/ RenameFails(h)
      <4>1. PICK step \in {"rename", "remove"} : Work(h, [r EXCEPT !.step = step])
        BY <2>1, <3>3 DEF Write, RenameFails
      <4>. DEFINE q == [r EXCEPT !.step = step]
      <4>2. q \in Request /\ q.pushing = r.pushing /\ q.step = step
        BY <2>2 DEF Request, Step
      <4>3. Work(h, q)
        BY <4>1
      <4>. HIDE DEF q
      <4>. QED  BY <4>2, <4>3 DEF Saving
    <3>. QED  BY <1>6, <3>1, <3>2, <3>3
  <2>5. lock' = lock /\ q # None
    BY <1>6, <2>4, ContentsAssumption DEF CopyFeeds, Open, Write, RenameFails
  <2>. QED  BY <2>3, <2>4, <2>5, LockKept
<1>7. ASSUME NEW h \in Handler, Rename(h) \/ RemoveFile(h)
      PROVE  LockInv'
  <2>1. PICK names : Renamed(h, names) /\ \A x \in Places : names[x] \in Places
    <3>1. CASE Rename(h)
      <4>. DEFINE n == [tmp |-> "path", path |-> "none", none |-> "none"]
      <4>1. \A x \in Places : n[x] \in Places
        BY DEF Places
      <4>. QED  BY <3>1, <4>1 DEF Rename
    <3>2. CASE RemoveFile(h)
      <4>. DEFINE n == [tmp |-> "none", path |-> "path", none |-> "none"]
      <4>1. \A x \in Places : n[x] \in Places
        BY DEF Places
      <4>. QED  BY <3>2, <4>1 DEF RemoveFile
    <3>. QED  BY <1>7, <3>1, <3>2
  <2>2. lock' = IF lock = h THEN None ELSE lock
    BY <1>7 DEF Rename, RemoveFile, Unlocked
  <2>3. CASE lock = h \/ lock = None
    BY <2>2, <2>3 DEF LockInv
  <2>4. CASE lock # h /\ lock # None
    <3>1. lock' = lock /\ lock \in Handler
      BY <2>2, <2>4 DEF LockInv
    <3>2. PICK o : o = job[lock]
      OBVIOUS
    <3>3. o # None /\ o \in Request /\ o.pushing /\ o.step \in Saving \union {"feeds"}
      BY <2>4, <3>2 DEF LockInv, SnapInv, JobInv, RequestInv
    <3>4. PICK q : q = job'[lock]
      OBVIOUS
    <3>5. q = o \/ (o.fd # None /\ q = [o EXCEPT !.fd = names[o.fd]])
      BY <2>1, <2>4, <3>1, <3>2, <3>3, <3>4 DEF Renamed, Request
    <3>6. q # None
      <4>1. o.fd # None => names[o.fd] \in Places
        BY <2>1, <3>3 DEF Request, Places
      <4>2. q \in Request
        BY <3>3, <3>5, <4>1 DEF Request, Places
      <4>. QED  BY <4>2, ContentsAssumption
    <3>7. q.pushing /\ q.step \in Saving \union {"feeds"}
      BY <3>3, <3>5 DEF Request
    <3>. QED  BY <3>1, <3>4, <3>6, <3>7 DEF LockInv
  <2>. QED  BY <2>3, <2>4
<1>8. CASE Tick \/ Restart \/ UNCHANGED vars
  BY <1>8 DEF Tick, Restart, vars, LockInv
<1>. QED  BY <1>2, <1>3, <1>4, <1>5, <1>6, <1>7, <1>8 DEF Next, Serve

\* Every step keeps the invariant of the lists.
LEMMA SnapStep ==
    ASSUME SnapInv, LockInv, [Next]_vars
    PROVE  SnapInv'
<1>1. CASE UNCHANGED vars
  BY <1>1 DEF vars, store, disk, history, SnapInv, StoreInv, DiskInv, JobInv,
              RequestInv, IsSnapshot, IsBoard
<1>. QED  BY <1>1, ArriveStep, CapsuleStep, CopyStep, UpsertStep, PushStep,
             WriteStep, SaveStep, TickStep, RestartStep DEF Next, Serve

LEMMA SnapInit == Init => SnapInv /\ LockInv
<1>. SUFFICES ASSUME Init PROVE SnapInv /\ LockInv
  OBVIOUS
<1>1. StoreInv
  BY LimitsAssumption DEF Init, StoreInv, IsBoard
<1>. QED  BY <1>1 DEF Init, SnapInv, DiskInv, JobInv, LockInv

\* Whatever requests, files and restarts do, the headlines, every copy of them
\* and what is saved are boards of stories that were accepted.
THEOREM SnapInductive == Spec => [](SnapInv /\ LockInv)
<1>1. (SnapInv /\ LockInv) /\ [Next]_vars => (SnapInv /\ LockInv)'
  BY SnapStep, LockStep
<1>. QED  BY <1>1, SnapInit, PTL DEF Spec

---------------------------------------------------------------------------
(* The headlines are a board.                                              *)

\* What the board keeps is what is recent.
LEMMA SameFilter ==
    ASSUME NEW now
    PROVE  Board!Kept(now) = RecentHeadlines(headlines, now)
<1>1. ASSUME NEW s, NEW I PROVE Board!Sublist(s, I) = Sublist(s, I)
  <2>1. ASSUME NEW k PROVE Board!Place(I, k) = Place(I, k)
    BY DEF Board!Place, Place, Board!Nth, Nth, Board!Cardinality, Cardinality
  <2>. QED  BY <2>1 DEF Board!Sublist, Sublist, Board!Cardinality, Cardinality
<1>. QED  BY <1>1 DEF Board!Kept, Board!Recent, RecentHeadlines

\* A push takes down what is too old, and shows its story if it is new.
LEMMA PushShows ==
    ASSUME SnapInv, NEW h \in Handler, Push(h)
    PROVE  [Board!Next]_(Board!vars)
<1>1. PICK r, c, new, kept :
        /\ r = job[h] /\ c = r.left[1]
        /\ new = [feed |-> c.feed, topic |-> c.topic, public |-> c.public,
                  at |-> c.at]
        /\ kept = RecentHeadlines(headlines, r.now)
  OBVIOUS
<1>2. /\ r.now \in 0..clock /\ r.now - new.at <= HeadlineTtl /\ new \in Headline
      /\ kept \in Seq(Headline) /\ Len(kept) <= Limit
  BY <1>1, Pushed DEF Push
<1>3. kept = Board!Kept(r.now) /\ clock' = clock
  BY <1>1, SameFilter DEF Push
<1>4. CASE headlines' = kept /\ shown' = shown
  BY <1>2, <1>3, <1>4 DEF Board!Next, Board!TakeDown
<1>5. CASE /\ \A i \in DOMAIN kept : ~SameStory(kept[i], new)
           /\ headlines' = LastOf(Append(kept, new))
           /\ shown' = shown \union {new}
  <2>1. headlines' = IF Len(kept) >= Limit THEN Append(Tail(kept), new)
                     ELSE Append(kept, new)
    BY <1>2, <1>5, LastOfAppend
  <2>2. \A i \in DOMAIN kept : ~Board!SameStory(kept[i], new)
    BY <1>5 DEF SameStory, Board!SameStory
  <2>3. Board!Recent(new, r.now)
    BY <1>2 DEF Board!Recent
  <2>4. Board!Show(new)
    BY <1>2, <1>3, <1>5, <2>1, <2>2, <2>3 DEF Board!Show
  <2>. QED  BY <1>2, <2>4 DEF Board!Next
<1>. QED  BY <1>1, <1>4, <1>5 DEF Push

\* Every other step leaves the board alone, ages it, or brings some of it back.
LEMMA BoardStep ==
    ASSUME SnapInv, LockInv, [Next]_vars
    PROVE  [Board!Next]_(Board!vars)
<1>1. CASE /\ UNCHANGED <<headlines, shown, clock>>
  BY <1>1 DEF Board!vars
<1>2. CASE \E h \in Handler : Push(h)
  BY <1>2, PushShows
<1>3. CASE Tick
  BY <1>3 DEF Tick, store, history, Board!Next, Board!Age
<1>4. CASE Restart
  <2>1. SnapInv'
    BY <1>4, RestartStep
  <2>2. shown' = shown /\ clock' = clock
    BY <1>4 DEF Restart, history
  <2>3. IsBoard(headlines)'
    BY <2>1 DEF SnapInv, StoreInv
  <2>4. PICK hs : hs = headlines'
    OBVIOUS
  <2>5. /\ hs \in Seq(Headline) /\ Len(hs) <= Limit
        /\ \A i \in 1..Len(hs) : hs[i] \in shown
        /\ \A i, j \in 1..Len(hs) : i # j => ~SameStory(hs[i], hs[j])
    BY <2>2, <2>3, <2>4 DEF IsBoard, SameStory
  <2>6. DOMAIN hs = 1..Len(hs)
    BY <2>5
  <2>7. /\ \A i \in DOMAIN hs : hs[i] \in shown
        /\ \A i, j \in 1..Len(hs) : i # j => ~Board!SameStory(hs[i], hs[j])
    BY <2>5, <2>6 DEF SameStory, Board!SameStory
  <2>. QED  BY <2>2, <2>4, <2>5, <2>7 DEF Board!Next, Board!Return
<1>5. ASSUME NEW h \in Handler,
             \/ \E b \in Bodies : Arrive(h, b)
             \/ Answer(h) \/ NextCapsule(h) \/ UpsertFeed(h) \/ CopyHeadlines(h)
             \/ CopyFeeds(h) \/ Open(h) \/ Write(h) \/ Rename(h)
             \/ RenameFails(h) \/ RemoveFile(h)
      PROVE  UNCHANGED <<headlines, shown, clock>>
  BY <1>5 DEF Arrive, Answer, NextCapsule, UpsertFeed, CopyHeadlines, CopyFeeds,
              Open, Write, Rename, RenameFails, RemoveFile, store, history
<1>6. CASE UNCHANGED vars
  BY <1>1, <1>6 DEF vars, store, history
<1>. QED  BY <1>1, <1>2, <1>3, <1>4, <1>5, <1>6 DEF Next, Serve

\* However many requests overlap, wherever the file is torn and whenever the
\* edge restarts, its headlines are a board: each story of a feed once, taken
\* down for its age or for newer ones only, and never one that was not accepted.
THEOREM StoreImplementsBoard == Spec => ImplementsBoard
<1>1. Init => Board!Init
  BY DEF Init, Board!Init
<1>2. SnapInv /\ LockInv /\ [Next]_vars => [Board!Next]_(Board!vars)
  BY BoardStep
<1>. QED  BY <1>1, <1>2, SnapInductive, PTL DEF Spec, ImplementsBoard, Board!Spec

---------------------------------------------------------------------------
(* Requests that come one after the other.                                 *)

\* The lists that are compared.
LEMMA ListsAre ==
    ASSUME SnapInv
    PROVE  /\ clock \in Nat /\ headlines \in Seq(Headline)
           /\ path = None \/ path \in Contents => OnDisk \in Seq(Headline)
           /\ \A h \in Handler : job[h] # None =>
                /\ job[h] \in Request
                /\ job[h].step \in Saving => /\ job[h].snap \in Contents
                                             /\ job[h].snap.headlines \in Seq(Headline)
<1>1. ASSUME NEW c \in Contents PROVE c.headlines \in Seq(Headline)
  BY DEF Contents
<1>2. path = None \/ path \in Contents => OnDisk \in Seq(Headline)
  BY <1>1 DEF OnDisk
<1>3. ASSUME NEW h \in Handler, job[h] # None
      PROVE  /\ job[h] \in Request
             /\ job[h].step \in Saving => /\ job[h].snap \in Contents
                                          /\ job[h].snap.headlines \in Seq(Headline)
  BY <1>1, <1>3 DEF SnapInv, JobInv, RequestInv, Saving, IsSnapshot
<1>. QED  BY <1>2, <1>3, LimitsAssumption DEF SnapInv, StoreInv, IsBoard

\* A step of the request under way alone.
LEMMA AloneStep ==
    ASSUME SnapInv, SerialInv, overlapped' = overlapped,
           NEW h \in Handler, job[h] # None, NEW r, DOMAIN job' = Handler,
           job'[h] = r, \A g \in Handler : g # h /\ job[g] = None => job'[g] = None,
           ~overlapped => /\ r # None => AloneInv(r)'
                          /\ path' = None \/ path' \in Contents
                          /\ lock' = None => Matches(OnDisk)'
    PROVE  SerialInv'
<1>. SUFFICES ASSUME ~overlapped
     PROVE  /\ \A f, g \in Handler : job'[f] # None /\ job'[g] # None => f = g
            /\ \A g \in Handler : job'[g] # None => AloneInv(job[g])'
            /\ path' = None \/ path' \in Contents
            /\ lock' = None => Matches(OnDisk)'
  BY DEF SerialInv
<1>1. \A g \in Handler : g # h => job[g] = None
  BY DEF SerialInv
<1>2. \A g \in Handler : g # h => job'[g] = None
  BY <1>1
<1>3. ASSUME NEW g \in Handler, job'[g] # None
      PROVE  AloneInv(job[g])'
  <2>1. job'[g] = r
    BY <1>2, <1>3
  <2>. QED  BY <1>3, <2>1 DEF AloneInv, Matches
<1>. QED  BY <1>2, <1>3

\* A step of one handler.
LEMMA AloneWorks ==
    ASSUME SnapInv, SerialInv, overlapped' = overlapped,
           NEW h \in Handler, job[h] # None, NEW r, Work(h, r),
           ~overlapped => /\ r # None => AloneInv(r)'
                          /\ path' = None \/ path' \in Contents
                          /\ lock' = None => Matches(OnDisk)'
    PROVE  SerialInv'
<1>1. /\ DOMAIN job' = Handler /\ job'[h] = r
      /\ \A g \in Handler : g # h => job'[g] = job[g]
  BY DEF Work, SnapInv, JobInv
<1>. QED  BY <1>1, AloneStep

\* The steps that leave the headlines, the file and time as they are.
LEMMA AloneSame ==
    ASSUME SnapInv, SerialInv, overlapped' = overlapped,
           NEW h \in Handler, job[h] # None, NEW r, Work(h, r),
           ~overlapped /\ r # None => AloneInv(r)',
           UNCHANGED <<headlines, path, clock, lock>>
    PROVE  SerialInv'
<1>1. ~overlapped => /\ path' = None \/ path' \in Contents
                     /\ lock' = None => Matches(OnDisk)'
  BY DEF SerialInv, Matches, OnDisk
<1>. QED  BY <1>1, AloneWorks

\* A request that comes, that looks at a capsule or registers the feed.
LEMMA SerialEarly ==
    ASSUME SnapInv, LockInv, SerialInv, NEW h \in Handler,
           \/ \E b \in Bodies : Arrive(h, b)
           \/ Answer(h) \/ NextCapsule(h) \/ UpsertFeed(h)
    PROVE  SerialInv'
<1>1. ASSUME NEW b \in Bodies, Arrive(h, b)
      PROVE  SerialInv'
  <2>. SUFFICES ASSUME ~overlapped'
       PROVE  /\ \A f, g \in Handler : job'[f] # None /\ job'[g] # None => f = g
              /\ \A g \in Handler : job'[g] # None => AloneInv(job[g])'
              /\ path' = None \/ path' \in Contents
              /\ lock' = None => Matches(OnDisk)'
    BY DEF SerialInv
  <2>1. ~overlapped /\ \A g \in Handler : job[g] = None
    BY <1>1 DEF Arrive
  <2>2. /\ headlines' = headlines /\ path' = path /\ clock' = clock /\ lock' = lock
    BY <1>1 DEF Arrive, store, disk
  <2>3. PICK r : Work(h, r) /\ r.step \in {"upsert", "next"}
    <3>1. PICK r : /\ Work(h, r)
                   /\ r = [step |-> IF b.presence THEN "upsert" ELSE "next",
                           pushing |-> FALSE, now |-> None,
                           feed |-> b.feed, public |-> b.public,
                           left |-> Incoming(b), snap |-> None, fd |-> None]
      BY <1>1 DEF Arrive
    <3>2. r.step \in {"upsert", "next"}
      BY <3>1
    <3>. QED  BY <3>1, <3>2
  <2>4. job'[h] = r /\ \A g \in Handler : g # h => job'[g] = None
    BY <2>1, <2>3 DEF Work, SnapInv, JobInv
  <2>5. ASSUME NEW g \in Handler, job'[g] # None
        PROVE  AloneInv(job[g])'
    <3>1. PICK q : q = job'[g]
      OBVIOUS
    <3>2. q.step \in {"upsert", "next"}
      BY <2>3, <2>4, <2>5, <3>1
    <3>. QED  BY <3>1, <3>2 DEF AloneInv, Saving
  <2>. QED  BY <2>1, <2>2, <2>4, <2>5 DEF SerialInv, Matches, OnDisk
<1>2. CASE Answer(h)
  BY <1>2, AloneSame DEF Answer, At, store, disk, history
<1>3. CASE NextCapsule(h)
  <2>1. PICK r : r = job[h]
    OBVIOUS
  <2>2. r \in Request /\ r.step = "next" /\ r # None
    BY <1>3, <2>1, WorkedOn DEF NextCapsule, At
  <2>3. PICK q : Work(h, q) /\ q.step \in {"next", "upsert"}
    <3>. DEFINE q == [r EXCEPT !.left = Tail(@)]
                p == [r EXCEPT !.step = "upsert", !.pushing = TRUE, !.now = clock]
    <3>1. q.step = "next" /\ p.step = "upsert"
      BY <2>2 DEF Request
    <3>2. Work(h, q) \/ Work(h, p)
      BY <1>3, <2>1 DEF NextCapsule
    <3>. HIDE DEF p, q
    <3>. QED  BY <3>1, <3>2
  <2>4. AloneInv(q)'
    BY <2>3 DEF AloneInv, Saving
  <2>. QED  BY <1>3, <2>1, <2>2, <2>3, <2>4, AloneSame
            DEF NextCapsule, store, disk, history
<1>4. CASE UpsertFeed(h)
  <2>1. PICK r : r = job[h]
    OBVIOUS
  <2>2. r \in Request /\ r # None
    BY <1>4, <2>1, WorkedOn DEF UpsertFeed, At
  <2>3. PICK c : Work(h, [r EXCEPT !.step = "copy", !.snap = c])
    BY <1>4, <2>1 DEF UpsertFeed
  <2>4. PICK q : q = [r EXCEPT !.step = "copy", !.snap = c]
    OBVIOUS
  <2>5. q.step = "copy"
    BY <2>2, <2>4 DEF Request
  <2>6. AloneInv(q)'
    BY <2>5 DEF AloneInv, Saving
  <2>. QED  BY <1>4, <2>1, <2>2, <2>3, <2>4, <2>6, AloneSame
            DEF UpsertFeed, disk, history
<1>. QED  BY <1>1, <1>2, <1>3, <1>4

\* What is saved, of the public headlines or of all, shows what is in memory.
LEMMA SavedMatches ==
    ASSUME SnapInv, NEW fs, NEW hs, hs = headlines \/ hs = Public(headlines)
    PROVE  Matches(Snapshot(fs, hs).headlines)
<1>1. clock \in Int /\ headlines \in Seq(Headline) /\ Public(headlines) \in Seq(Headline)
  BY ListsAre, FilterTypes
<1>2. Snapshot(fs, hs).headlines = RecentHeadlines(hs, clock)
  BY DEF Snapshot
<1>3. Visible(RecentHeadlines(hs, clock), clock) = Visible(hs, clock)
  BY <1>1, RecentAgain
<1>4. Visible(hs, clock) = Visible(headlines, clock)
  BY <1>1, PublicAgain
<1>. QED  BY <1>2, <1>3, <1>4 DEF Matches

\* A copy is taken.
LEMMA SerialCopy ==
    ASSUME SnapInv, SerialInv, NEW h \in Handler, CopyHeadlines(h) \/ CopyFeeds(h)
    PROVE  SerialInv'
<1>1. PICK r : r = job[h]
  OBVIOUS
<1>2. r \in Request /\ r # None
  BY <1>1, WorkedOn DEF CopyHeadlines, CopyFeeds, At
<1>3. PICK c : Matches(c.headlines) /\ Work(h, [r EXCEPT !.step = "open", !.snap = c])
  <2>1. CASE CopyHeadlines(h)
    <3>1. [r EXCEPT !.step = "open", !.snap = Snapshot(@.feeds, Public(headlines))]
            = [r EXCEPT !.step = "open",
                        !.snap = Snapshot(r.snap.feeds, Public(headlines))]
      BY <1>2 DEF Request
    <3>. QED  BY <1>1, <2>1, <3>1, SavedMatches DEF CopyHeadlines
  <2>2. CASE CopyFeeds(h)
    BY <1>1, <2>2, SavedMatches DEF CopyFeeds
  <2>. QED  BY <2>1, <2>2
<1>4. PICK q : q = [r EXCEPT !.step = "open", !.snap = c]
  OBVIOUS
<1>5. q.step = "open" /\ q.snap = c
  BY <1>2, <1>4 DEF Request
<1>6. /\ headlines' = headlines /\ path' = path /\ clock' = clock /\ lock' = lock
      /\ overlapped' = overlapped
  BY DEF CopyHeadlines, CopyFeeds, store, disk, history
<1>7. AloneInv(q)'
  BY <1>3, <1>5, <1>6 DEF AloneInv, Matches
<1>. QED  BY <1>1, <1>2, <1>3, <1>4, <1>6, <1>7, AloneSame

\* A push that finds its story there changes nothing that shows; one that
\* stores it holds the mutex until the file has it.
LEMMA SerialPush ==
    ASSUME SnapInv, SerialInv, NEW h \in Handler, Push(h)
    PROVE  SerialInv'
<1>1. PICK r, c, new, kept :
        /\ r = job[h] /\ c = r.left[1]
        /\ new = [feed |-> c.feed, topic |-> c.topic, public |-> c.public,
                  at |-> c.at]
        /\ kept = RecentHeadlines(headlines, r.now)
  OBVIOUS
<1>2. r \in Request /\ r # None /\ r.now \in 0..clock
  BY <1>1, Pushed DEF Push, At
<1>3. path' = path /\ clock' = clock /\ overlapped' = overlapped /\ lock = None
  BY DEF Push, disk
<1>4. CASE headlines' = kept /\ lock' = lock /\ Work(h, Done(r))
  <2>1. PICK d : d = Done(r)
    OBVIOUS
  <2>2. d.step = "next"
    BY <1>2, <2>1 DEF Done, Request
  <2>3. AloneInv(d)'
    BY <2>2 DEF AloneInv, Saving
  <2>4. Visible(kept, clock) = Visible(headlines, clock)
    <3>1. clock \in Nat /\ headlines \in Seq(Headline)
      BY ListsAre
    <3>2. r.now \in Int /\ r.now <= clock
      BY <1>2, <3>1
    <3>. QED  BY <1>1, <3>1, <3>2, RecentAgain
  <2>5. ~overlapped => /\ path' = None \/ path' \in Contents
                       /\ lock' = None => Matches(OnDisk)'
    BY <1>3, <1>4, <2>4 DEF SerialInv, Matches, OnDisk
  <2>. QED  BY <1>1, <1>2, <1>3, <1>4, <2>1, <2>3, <2>5, AloneWorks
<1>5. CASE Work(h, [r EXCEPT !.step = "feeds"]) /\ lock' = h
  <2>1. PICK q : q = [r EXCEPT !.step = "feeds"]
    OBVIOUS
  <2>2. q.step = "feeds"
    BY <1>2, <2>1 DEF Request
  <2>3. AloneInv(q)'
    BY <2>2 DEF AloneInv, Saving
  <2>4. ~overlapped => /\ path' = None \/ path' \in Contents
                       /\ lock' = None => Matches(OnDisk)'
    BY <1>3, <1>5, ContentsAssumption DEF SerialInv
  <2>. QED  BY <1>1, <1>2, <1>3, <1>5, <2>1, <2>3, <2>4, AloneWorks
<1>. QED  BY <1>1, <1>3, <1>4, <1>5 DEF Push

\* The request writes its own file.
LEMMA SerialWrite ==
    ASSUME SnapInv, SerialInv, NEW h \in Handler, Open(h) \/ Write(h)
    PROVE  SerialInv'
<1>1. PICK r : r = job[h]
  OBVIOUS
<1>2. r \in Request /\ r # None /\ r.step \in Saving
  BY <1>1, WorkedOn DEF Open, Write, At, Saving
<1>3. /\ headlines' = headlines /\ clock' = clock /\ lock' = lock
      /\ overlapped' = overlapped
  BY DEF Open, Write, store, history
<1>4. ~overlapped => AloneInv(r)
  BY <1>1, <1>2 DEF SerialInv
<1>5. CASE Open(h)
  <2>1. PICK q : q = [r EXCEPT !.step = "write", !.fd = "tmp"]
    OBVIOUS
  <2>2. q.step = "write" /\ q.fd = "tmp" /\ q.snap = r.snap
    BY <1>2, <2>1 DEF Request
  <2>3. ~overlapped => AloneInv(q)'
    BY <1>2, <1>3, <1>4, <1>5, <2>2 DEF AloneInv, Matches, Saving, Open
  <2>4. Work(h, q) /\ path' = path
    BY <1>1, <1>5, <2>1 DEF Open
  <2>. QED  BY <1>1, <1>2, <1>3, <2>3, <2>4, AloneSame
<1>6. CASE Write(h)
  <2>1. PICK q : q = [r EXCEPT !.step = "rename"]
    OBVIOUS
  <2>2. q.step = "rename" /\ q.fd = r.fd /\ q.snap = r.snap
    BY <1>2, <2>1 DEF Request
  <2>3. ~overlapped => tmp' = r.snap /\ path' = path /\ q.fd = "tmp"
    BY <1>1, <1>4, <1>6, <2>2 DEF AloneInv, Write, At, Overwritten
  <2>4. ~overlapped => AloneInv(q)'
    BY <1>2, <1>3, <1>4, <2>2, <2>3 DEF AloneInv, Matches, Saving
  <2>5. Work(h, q)
    BY <1>1, <1>6, <2>1 DEF Write
  <2>6. ~overlapped => /\ path' = None \/ path' \in Contents
                       /\ lock' = None => Matches(OnDisk)'
    BY <1>3, <2>3 DEF SerialInv, Matches, OnDisk
  <2>. QED  BY <1>1, <1>2, <1>3, <2>4, <2>5, <2>6, AloneWorks
<1>. QED  BY <1>5, <1>6

\* The file is the one that was written.
LEMMA SerialSave ==
    ASSUME SnapInv, LockInv, SerialInv, NEW h \in Handler,
           Rename(h) \/ RenameFails(h) \/ RemoveFile(h)
    PROVE  SerialInv'
<1>1. PICK r : r = job[h]
  OBVIOUS
<1>2. r \in Request /\ r # None /\ r.step \in Saving
  BY <1>1, WorkedOn DEF Rename, RenameFails, RemoveFile, At, Saving
<1>3. /\ headlines' = headlines /\ clock' = clock /\ overlapped' = overlapped
  BY DEF Rename, RenameFails, RemoveFile, store, history
<1>. SUFFICES ASSUME ~overlapped PROVE SerialInv'
  BY <1>3 DEF SerialInv
<1>4. AloneInv(r)
  BY <1>1, <1>2 DEF SerialInv
<1>5. r.snap \in Contents
  BY <1>1, <1>2, ListsAre
<1>6. Rename(h) /\ r.step = "rename" /\ tmp = r.snap
  <2>1. ~RemoveFile(h)
    BY <1>1, <1>4 DEF RemoveFile, At, AloneInv
  <2>2. ~RenameFails(h)
    BY <1>1, <1>4, <1>5, ContentsAssumption DEF RenameFails, At, AloneInv
  <2>. QED  BY <1>1, <1>4, <2>1, <2>2 DEF Rename, At, AloneInv
<1>7. path' = r.snap
  BY <1>6 DEF Rename
<1>8. Matches(OnDisk)'
  <2>1. OnDisk' = r.snap.headlines
    BY <1>5, <1>7, ContentsAssumption DEF OnDisk
  <2>. QED  BY <1>2, <1>3, <1>4, <2>1 DEF AloneInv, Matches
<1>9. PICK q : q = AfterSave(h)
  OBVIOUS
<1>10. q.step \in {"push", "next"}
  <2>1. CASE lock = h
    BY <1>1, <1>2, <1>9, <2>1 DEF AfterSave, Done, Request
  <2>2. CASE lock # h
    <3>1. PICK s : s = IF r.pushing THEN "push" ELSE "next"
      OBVIOUS
    <3>2. q = [r EXCEPT !.step = s, !.snap = None, !.fd = None]
      BY <1>1, <1>9, <2>2, <3>1 DEF AfterSave
    <3>. QED  BY <1>2, <3>1, <3>2 DEF Request
  <2>. QED  BY <2>1, <2>2
<1>11. AloneInv(q)'
  BY <1>10 DEF AloneInv, Saving
<1>12. /\ DOMAIN job' = Handler /\ job'[h] = q
       /\ \A g \in Handler : g # h /\ job[g] = None => job'[g] = None
  BY <1>6, <1>9 DEF Rename, Renamed
<1>. QED  BY <1>1, <1>2, <1>3, <1>5, <1>7, <1>8, <1>11, <1>12, AloneStep

\* Lists that show the same go on showing the same.
LEMMA SerialTick ==
    ASSUME SnapInv, SerialInv, Tick
    PROVE  SerialInv'
<1>1. /\ clock' = clock + 1 /\ headlines' = headlines /\ lock' = lock
      /\ job' = job /\ path' = path /\ tmp' = tmp /\ overlapped' = overlapped
  BY DEF Tick, store, disk, history
<1>2. clock \in Nat /\ headlines \in Seq(Headline)
  BY ListsAre
<1>3. ASSUME NEW hs \in Seq(Headline), Matches(hs)
      PROVE  Visible(hs, clock + 1) = Visible(headlines, clock + 1)
  <2>1. clock \in Int /\ clock + 1 \in Int /\ clock <= clock + 1
    BY <1>2
  <2>2. /\ RecentHeadlines(Visible(hs, clock), clock + 1) = Visible(hs, clock + 1)
        /\ RecentHeadlines(Visible(headlines, clock), clock + 1)
              = Visible(headlines, clock + 1)
    BY <1>2, <2>1, RecentAgain
  <2>. QED  BY <1>3, <2>2 DEF Matches
<1>. SUFFICES ASSUME ~overlapped PROVE SerialInv'
  BY <1>1 DEF SerialInv
<1>4. lock' = None => Matches(OnDisk)'
  <2>1. lock = None => Matches(OnDisk) /\ OnDisk \in Seq(Headline)
    BY ListsAre DEF SerialInv
  <2>2. OnDisk' = OnDisk
    BY <1>1 DEF OnDisk
  <2>. QED  BY <1>1, <1>3, <2>1, <2>2 DEF Matches
<1>5. ASSUME NEW h \in Handler, job'[h] # None
      PROVE  AloneInv(job[h])'
  <2>1. PICK r : r = job[h]
    OBVIOUS
  <2>2. AloneInv(r)
    BY <1>1, <1>5, <2>1 DEF SerialInv
  <2>3. r.step \in Saving => r.snap.headlines \in Seq(Headline)
    BY <1>1, <1>5, <2>1, ListsAre
  <2>4. AloneInv(r)'
    BY <1>1, <1>3, <2>2, <2>3 DEF AloneInv, Matches
  <2>. QED  BY <1>1, <2>1, <2>4 DEF AloneInv, Matches
<1>. QED  BY <1>1, <1>4, <1>5 DEF SerialInv

\* What comes back is what the file shows.
LEMMA SerialRestart ==
    ASSUME SnapInv, SerialInv, Restart
    PROVE  SerialInv'
<1>1. /\ clock' = clock /\ path' = path /\ overlapped' = overlapped
      /\ job' = [h \in Handler |-> None]
  BY DEF Restart, disk, history
<1>. SUFFICES ASSUME ~overlapped PROVE SerialInv'
  BY <1>1 DEF SerialInv
<1>2. path = None \/ path \in Contents
  BY DEF SerialInv
<1>3. headlines' = RecentHeadlines(OnDisk, clock)
  BY <1>2, ContentsAssumption DEF Restart, OnDisk
<1>4. Visible(RecentHeadlines(OnDisk, clock), clock) = Visible(OnDisk, clock)
  BY <1>2, ListsAre, RecentAgain
<1>5. Matches(OnDisk)'
  BY <1>1, <1>3, <1>4 DEF Matches, OnDisk
<1>. QED  BY <1>1, <1>2, <1>5 DEF SerialInv

LEMMA SerialStep ==
    ASSUME SnapInv, LockInv, SerialInv, [Next]_vars
    PROVE  SerialInv'
<1>1. CASE UNCHANGED vars
  BY <1>1 DEF vars, store, disk, history, SerialInv, AloneInv, Matches, OnDisk
<1>. QED  BY <1>1, SerialEarly, SerialCopy, SerialPush, SerialWrite, SerialSave,
             SerialTick, SerialRestart DEF Next, Serve

\* While requests come one after the other, every public headline that may
\* still be shown is in the file whenever none is under way: a restart of the
\* edge loses none of them, however many there were before it.
THEOREM SerialDurable == Spec => []SerialIsDurable
<1>1. Init => SerialInv
  BY DEF Init, SerialInv, Matches, OnDisk
<1>2. SnapInv /\ LockInv /\ SerialInv /\ [Next]_vars => SerialInv'
  BY SerialStep
<1>3. SnapInv /\ LockInv /\ SerialInv => SerialIsDurable
  <2>. SUFFICES ASSUME SnapInv, LockInv, SerialInv, Idle, ~overlapped
       PROVE  RecentHeadlines(Public(OnDisk), clock)
                = RecentHeadlines(Public(headlines), clock)
    BY DEF SerialIsDurable
  <2>1. lock = None
    BY DEF LockInv, Idle
  <2>2. Matches(OnDisk) /\ OnDisk \in Seq(Headline)
    BY <2>1, ListsAre DEF SerialInv
  <2>3. clock \in Int /\ headlines \in Seq(Headline)
    BY ListsAre
  <2>. QED  BY <2>2, <2>3, PublicAgain DEF Matches
<1>. QED  BY <1>1, <1>2, <1>3, SnapInductive, PTL DEF Spec
=============================================================================
