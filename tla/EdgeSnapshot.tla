---------------------------- MODULE EdgeSnapshot ----------------------------
(***************************************************************************)
(* The snapshot store of agent_feed_edge under concurrent publish          *)
(* requests: feeds and headlines behind two mutexes, and the file they are *)
(* saved to.  A request first registers the feed of its publisher, then    *)
(* pushes its capsules one by one; each of these saves the snapshot, the   *)
(* first without a lock, the second while it holds the headlines.          *)
(*                                                                         *)
(* Saving is fs::write of a temporary file every request shares, then a    *)
(* rename.  A write goes to the file that was opened, wherever a rename of *)
(* another request moved it meanwhile, and two writers of one file may     *)
(* leave a mixture, which a restart cannot read.                           *)
(*                                                                         *)
(* The feeds mutex is never kept from one step to the next, so only the    *)
(* holder of the headlines is a variable.  Requests refused before they    *)
(* reach the store, and an edge without a snapshot path, are left out.     *)
(***************************************************************************)
EXTENDS Sublists

CONSTANTS
    Handler,            \* requests that may be under way at once
    Feed, Topic,
    Bodies,             \* the requests that arrive
    None,
    Empty, Torn,        \* unreadable contents of a file
    FeedTtl,            \* snapshot_feed_ttl
    HeadlineTtl,        \* snapshot_headline_ttl
    MaxPublishCapsules, \* MAX_PUBLISH_CAPSULES
    Limit,              \* SNAPSHOT_HEADLINE_LIMIT
    MaxRequests,        \* bound: requests that arrive
    MaxClock,           \* bound: the time
    MaxRestarts         \* bound: restarts of the edge

\* A capsule of a request: whether it passes the checks of the handler, and
\* how old it is when it arrives.
CapsuleType == [topic : Topic, age : 0..1, ok : BOOLEAN]

Body == [feed : Feed, public : BOOLEAN, presence : BOOLEAN,
         caps : Seq(CapsuleType)]

Times == (0 - 1)..MaxClock

Headline == [feed : Feed, topic : Topic, public : BOOLEAN, at : Times]

FeedRecord == [feed : Feed, public : BOOLEAN, seen : Nat]

\* A snapshot, in memory or in a file.
Contents == [feeds : Seq(FeedRecord), headlines : Seq(Headline)]

Step == {"upsert", "copy", "next", "push", "feeds", "open", "write", "rename",
         "remove"}

Queued == [feed : Feed, topic : Topic, public : BOOLEAN, at : Times,
           ok : BOOLEAN]

\* What a handler knows of its request: the capsules it has left, the snapshot
\* it saves and the file it writes.
Request == [step : Step, pushing : BOOLEAN, now : Nat \union {None},
            feed : Feed, public : BOOLEAN,
            left : Seq(Queued), snap : Contents \union {None},
            fd : {"tmp", "path", "none", None}]

ASSUME BodiesAssumption == Bodies \subseteq Body

ASSUME ContentsAssumption ==
    /\ \A c \in {None, Empty, Torn} : c \notin Contents
    /\ None \notin Request /\ None \notin Handler

ASSUME LimitsAssumption ==
    /\ FeedTtl \in Nat /\ HeadlineTtl \in Nat
    /\ MaxPublishCapsules \in Nat \ {0} /\ Limit \in Nat \ {0}
    /\ MaxRequests \in Nat /\ MaxClock \in Nat /\ MaxRestarts \in Nat

VARIABLES
    feeds,      \* the feed records, oldest first
    headlines,  \* the headlines, oldest first
    lock,       \* the handler that holds the headlines mutex, or None
    job,        \* handler -> the request it works on, or None
    path,       \* the snapshot file: a snapshot, Empty, Torn, or None
    tmp,        \* the temporary file, likewise
    clock,
    shown,      \* history variable: every headline ever stored
    overlapped, \* history variable: two requests were under way at once
    count       \* requests and restarts so far

store == <<feeds, headlines>>
disk == <<path, tmp>>
history == <<shown, overlapped>>
vars == <<store, lock, job, disk, clock, history, count>>

---------------------------------------------------------------------------
(* Retention and the two lists.                                            *)

RecentFeeds(fs) == Sublist(fs, {i \in DOMAIN fs : clock - fs[i].seen <= FeedTtl})

\* The headlines of hs within retention at the time now.
RecentHeadlines(hs, now) ==
    Sublist(hs, {i \in DOMAIN hs : now - hs[i].at <= HeadlineTtl})

\* Faulty variant: a full list takes nothing new.
FirstOf(s) == SubSeq(s, 1, IF Len(s) > Limit THEN Limit ELSE Len(s))

LastOf(s) == SubSeq(s, IF Len(s) > Limit THEN Len(s) - Limit + 1 ELSE 1, Len(s))

\* upsert_feed_view
Upsert(list, f) ==
    IF \E i \in DOMAIN list : list[i].feed = f.feed
    THEN [i \in DOMAIN list |-> IF list[i].feed = f.feed THEN f ELSE list[i]]
    ELSE Append(list, f)

SameStory(h, g) == h.feed = g.feed /\ h.topic = g.topic

\* What anybody may see of hs.
Public(hs) == Sublist(hs, {i \in DOMAIN hs : hs[i].public})

\* What persist_snapshot saves of fs and hs.
Snapshot(fs, hs) ==
    [feeds |-> RecentFeeds(fs), headlines |-> RecentHeadlines(hs, clock)]

---------------------------------------------------------------------------
(* A request.                                                              *)

Init ==
    /\ feeds = <<>> /\ headlines = <<>>
    /\ lock = None
    /\ job = [h \in Handler |-> None]
    /\ path = None /\ tmp = None
    /\ clock = 0
    /\ shown = {} /\ overlapped = FALSE
    /\ count = [requests |-> 0, restarts |-> 0]

At(h, step) == job[h] # None /\ job[h].step = step

\* The request of h goes on as r.
Work(h, r) == job' = [job EXCEPT ![h] = r]

\* The capsules of a body that arrives now.
Incoming(b) ==
    [i \in DOMAIN b.caps |->
        [feed |-> b.feed, topic |-> b.caps[i].topic, public |-> b.public,
         at |-> clock - b.caps[i].age, ok |-> b.caps[i].ok]]

\* Requests are alike, so a new one takes the first free handler.
Arrive(h, b) ==
    /\ job[h] = None
    /\ h = CHOOSE g \in Handler : job[g] = None
    /\ count.requests < MaxRequests
    /\ count' = [count EXCEPT !.requests = @ + 1]
    /\ overlapped' = (overlapped \/ \E g \in Handler : job[g] # None)
    /\ Work(h, [step |-> IF b.presence THEN "upsert" ELSE "next",
                pushing |-> FALSE, now |-> None,
                feed |-> b.feed, public |-> b.public, left |-> Incoming(b),
                snap |-> None, fd |-> None])
    /\ UNCHANGED <<store, lock, disk, clock, shown>>

\* The answer, an error or not.
Answer(h) ==
    /\ At(h, "next")
    /\ LET left == job[h].left IN
          left # <<>> /\ Len(left) <= MaxPublishCapsules => ~left[1].ok
    /\ Work(h, None)
    /\ UNCHANGED <<store, lock, disk, clock, history, count>>

\* The next capsule that passes the checks: a stale one is ignored, for any
\* other the feed is registered first.
NextCapsule(h) ==
    /\ At(h, "next")
    /\ LET left == job[h].left IN
       /\ left # <<>> /\ Len(left) <= MaxPublishCapsules /\ left[1].ok
       /\ IF clock - left[1].at > HeadlineTtl
          THEN Work(h, [job[h] EXCEPT !.left = Tail(@)])
          ELSE Work(h, [job[h] EXCEPT !.step = "upsert", !.pushing = TRUE,
                                      !.now = clock])
    /\ UNCHANGED <<store, lock, disk, clock, history, count>>

\* upsert_feed up to the end of its block, which releases the feeds.
UpsertFeed(h) ==
    /\ At(h, "upsert")
    /\ feeds' = LastOf(Upsert(RecentFeeds(feeds),
                              [feed |-> job[h].feed, public |-> job[h].public,
                               seen |-> clock]))
    /\ Work(h, [job[h] EXCEPT !.step = "copy",
                              !.snap = [feeds |-> feeds', headlines |-> <<>>]])
    /\ UNCHANGED <<headlines, lock, disk, clock, history, count>>

\* Faulty variant: a registration saves the feeds alone.
SaveFeedsAlone(h) ==
    /\ At(h, "copy")
    /\ Work(h, [job[h] EXCEPT !.step = "open"])
    /\ UNCHANGED <<store, lock, disk, clock, history, count>>

\* The rest of upsert_feed before it saves: a copy of headlines().
CopyHeadlines(h) ==
    /\ At(h, "copy")
    /\ lock = None
    /\ Work(h, [job[h] EXCEPT !.step = "open",
                              !.snap = Snapshot(@.feeds, Public(headlines))])
    /\ UNCHANGED <<store, lock, disk, clock, history, count>>

\* A capsule is done with.
Done(r) == [r EXCEPT !.step = "next", !.pushing = FALSE, !.now = None,
                     !.left = Tail(@), !.snap = None, !.fd = None]

Push(h) ==
    /\ At(h, "push")
    /\ lock = None
    /\ LET c == job[h].left[1]
           new == [feed |-> c.feed, topic |-> c.topic, public |-> c.public,
                   at |-> c.at]
           kept == RecentHeadlines(headlines, job[h].now)
       IN  IF \E i \in DOMAIN kept : SameStory(kept[i], new)
           THEN /\ headlines' = kept
                /\ Work(h, Done(job[h]))
                /\ UNCHANGED <<lock, shown>>
           ELSE /\ headlines' = LastOf(Append(kept, new))
                /\ Work(h, [job[h] EXCEPT !.step = "feeds"])
                /\ lock' = h
                /\ shown' = shown \union {new}
    /\ UNCHANGED <<feeds, disk, clock, overlapped, count>>

\* Faulty variant: the copy is headlines(), which locks what h has locked.
CopyFeedsRelocking(h) ==
    /\ At(h, "feeds")
    /\ lock = None
    /\ Work(h, [job[h] EXCEPT !.step = "open",
                              !.snap = Snapshot(feeds, headlines)])
    /\ UNCHANGED <<store, lock, disk, clock, history, count>>

\* Still in push, which holds the headlines: a copy of the feeds.
CopyFeeds(h) ==
    /\ At(h, "feeds")
    /\ Work(h, [job[h] EXCEPT !.step = "open",
                              !.snap = Snapshot(feeds, headlines)])
    /\ UNCHANGED <<store, lock, disk, clock, history, count>>

---------------------------------------------------------------------------
(* Saving: fs::write of the temporary file, then a rename.  The file of a  *)
(* writer is the one at `tmp` or `path`, or one without a name.            *)

Open(h) ==
    /\ At(h, "open")
    /\ tmp' = Empty
    /\ Work(h, [job[h] EXCEPT !.step = "write", !.fd = "tmp"])
    /\ UNCHANGED <<store, lock, path, clock, history, count>>

\* What a file with content c holds after snapshot s is written over it.
Overwritten(c, s) == IF c \in {Empty, s} THEN {s} ELSE {s, Torn}

Write(h) ==
    /\ At(h, "write")
    /\ IF job[h].fd = "tmp"
       THEN tmp' \in Overwritten(tmp, job[h].snap) ELSE tmp' = tmp
    /\ IF job[h].fd = "path"
       THEN path' \in Overwritten(path, job[h].snap) ELSE path' = path
    /\ Work(h, [job[h] EXCEPT !.step = "rename"])
    /\ UNCHANGED <<store, lock, clock, history, count>>

\* The request of h after saving: a push releases the headlines and is done,
\* a registration goes on to the push it was for, or to the first capsule.
AfterSave(h) ==
    LET r == job[h] IN
    IF lock = h THEN Done(r)
    ELSE [r EXCEPT !.step = IF r.pushing THEN "push" ELSE "next",
                   !.snap = None, !.fd = None]

\* Every writer's file after the files were renamed as in names.
Renamed(h, names) ==
    job' = [g \in Handler |->
              IF g = h THEN AfterSave(h)
              ELSE IF job[g] = None \/ job[g].fd = None THEN job[g]
              ELSE [job[g] EXCEPT !.fd = names[@]]]

Unlocked(h) == lock' = IF lock = h THEN None ELSE lock

Rename(h) ==
    /\ At(h, "rename")
    /\ tmp # None
    /\ path' = tmp /\ tmp' = None
    /\ Renamed(h, [tmp |-> "path", path |-> "none", none |-> "none"])
    /\ Unlocked(h)
    /\ UNCHANGED <<store, clock, history, count>>

\* Another request renamed the temporary file first.
RenameFails(h) ==
    /\ At(h, "rename")
    /\ tmp = None
    /\ Work(h, [job[h] EXCEPT !.step = "remove"])
    /\ UNCHANGED <<store, lock, disk, clock, history, count>>

\* Removes whatever is the temporary file by now.
RemoveFile(h) ==
    /\ At(h, "remove")
    /\ tmp' = None
    /\ Renamed(h, [tmp |-> "none", path |-> "path", none |-> "none"])
    /\ Unlocked(h)
    /\ UNCHANGED <<store, path, clock, history, count>>

---------------------------------------------------------------------------
(* Time and restarts.                                                      *)

Tick ==
    /\ clock < MaxClock
    /\ clock' = clock + 1
    /\ UNCHANGED <<store, lock, job, disk, history, count>>

\* from_path: a file that cannot be read counts as none.
Restart ==
    /\ count.restarts < MaxRestarts
    /\ count' = [count EXCEPT !.restarts = @ + 1]
    /\ LET saved == IF path \in {None, Empty, Torn}
                    THEN [feeds |-> <<>>, headlines |-> <<>>] ELSE path
       IN  /\ feeds' = RecentFeeds(saved.feeds)
           /\ headlines' = RecentHeadlines(saved.headlines, clock)
    /\ job' = [h \in Handler |-> None]
    /\ lock' = None
    /\ UNCHANGED <<disk, clock, history>>

Serve(h) ==
    \/ Answer(h) \/ NextCapsule(h) \/ UpsertFeed(h) \/ CopyHeadlines(h)
    \/ Push(h) \/ CopyFeeds(h)
    \/ Open(h) \/ Write(h) \/ Rename(h) \/ RenameFails(h) \/ RemoveFile(h)

Next ==
    \/ \E h \in Handler : Serve(h) \/ \E b \in Bodies : Arrive(h, b)
    \/ Tick \/ Restart

\* A request under way gets its turns; that others arrive is not assumed.
Spec == Init /\ [][Next]_vars /\ \A h \in Handler : WF_vars(Serve(h))

---------------------------------------------------------------------------
(* Properties.                                                             *)

\* However requests overlap and the file is torn or lost, the headlines are a
\* board: each story of a feed once, taken down for its age or for newer ones
\* only, and a restart shows nothing that was never accepted.
Board == INSTANCE HeadlineBoard WITH board <- headlines

ImplementsBoard == Board!Spec

Idle == \A h \in Handler : job[h] = None

OnDisk == IF path = None THEN <<>> ELSE path.headlines

\* Requests that come one after the other leave every public headline on
\* disk, although the two paths that save copy the lists separately and one
\* of them copies without a lock: a restart then loses none of them.
SerialIsDurable ==
    Idle /\ ~overlapped =>
        RecentHeadlines(Public(OnDisk), clock)
            = RecentHeadlines(Public(headlines), clock)

\* Every request is answered: the two mutexes are never waited for in a
\* circle, nor by their own holder.
EveryRequestAnswered == \A h \in Handler : job[h] # None ~> job[h] = None
===========================================================================
