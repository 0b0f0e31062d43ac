-------------------------- MODULE ServePublisher --------------------------
(***************************************************************************)
(* The publisher threads of `agent-feed serve --publish` and the edge they *)
(* post to.  Each publisher takes settled stories from its channel,        *)
(* summarises them story by story, and posts the capsules that do not      *)
(* repeat a recent one; once a minute it registers its presence, and       *)
(* replays its recent capsules when the edge answers that it holds no      *)
(* headline.                                                               *)
(*                                                                         *)
(* A POST (curl, 20 s) is two steps: the request goes on the wire, and the *)
(* reply, or no reply, ends it.  A request whose client gave up may be     *)
(* lost or reach the edge later.  A story is named by its number on its    *)
(* publisher's channel; its topic stands for the headline and deck the     *)
(* summariser makes of it, up to the similarity that counts as a repeat.   *)
(***************************************************************************)
EXTENDS Naturals, FiniteSets, SequencesExt

CONSTANTS
    Publisher,
    Topic,
    Public,             \* the publishers whose feed is public
    Severe,             \* topics that score at least 90
    Dull,               \* topics the guardrails or the quality gate reject
    TurnTopic,          \* topics of the Turn story family
    RecentWindow,       \* publish.recent_window
    ReplayWindow,       \* publish.recent_window.max(8)
    BatchSize,          \* pending stories that are published at once
    MaxPublishCapsules, \* MAX_PUBLISH_CAPSULES of the edge
    EdgeLimit,          \* SNAPSHOT_HEADLINE_LIMIT
    None,
    MaxStories,         \* bound: stories per publisher
    MaxFailures,        \* bound: POSTs and summaries that fail
    MaxRestarts,        \* bound: restarts of a publisher
    MaxEdgeRestarts,    \* bound: restarts of the edge
    MaxQuietPeriods     \* bound: retention periods that pass

ASSUME SetsAssumption ==
    /\ Public \subseteq Publisher
    /\ Severe \subseteq Topic /\ Dull \subseteq Topic
    /\ TurnTopic \subseteq Topic

ASSUME WindowsAssumption ==
    /\ RecentWindow \in Nat \ {0}
    /\ ReplayWindow \in Nat \ {0}
    /\ BatchSize \in Nat \ {0}
    /\ MaxPublishCapsules \in Nat \ {0}
    /\ EdgeLimit \in Nat \ {0}

\* A capsule: its publisher, its story, its sequence number and the retention
\* period it was built in.
Capsule == [pub : Publisher, id : Nat, seq : Nat, at : Nat]

\* The stories and capsules of the POST of a batch.
Batch == [ids : Seq(Nat), caps : Seq(Capsule)]

ASSUME NoneAssumption == None \notin Batch

VARIABLES
    stories,     \* publisher -> topics of all stories sent on its channel
    taken,       \* publisher -> how many of them it received
    closed,      \* publisher -> whether the server dropped the sender
    pc,          \* publisher -> where its loop is
    pending,     \* publisher -> story numbers not published yet
    batch,       \* publisher -> the stories and capsules of the POST of a
                 \* batch under way, or None
    recent,      \* publisher -> recent summaries, newest first
    replayable,  \* publisher -> recent_capsules, newest batch first
    nextSeq,     \* publisher -> next_seq
    due,         \* publisher -> the timers that ran out
    wire,        \* publisher -> capsules of the POST under way, or None
    reply,       \* publisher -> the edge's answer to it, or None
    late,        \* the capsules of requests whose client gave up
    edge,        \* headlines at the edge, oldest first
    fate,        \* history variable: publisher -> what became of a story
    seen,        \* history variable: <<publisher, topic>> ever at the edge
    count        \* failures, restarts and retention periods so far

channel == <<stories, taken, closed>>
memory == <<recent, nextSeq>>
edgeVars == <<edge, seen, late>>
post == <<wire, reply>>
vars == <<channel, pc, pending, batch, memory, replayable, due, post,
          edgeVars, fate, count>>

---------------------------------------------------------------------------
(* Operators.                                                              *)

TopicOf(c) == stories[c.pub][c.id]

\* headline_is_within_retention: the capsule is of the current period.
Fresh(c) == c.at = count.quiet

FirstOf(s, n) == SubSeq(s, 1, IF Len(s) > n THEN n ELSE Len(s))

LastOf(s, n) == SubSeq(s, IF Len(s) > n THEN Len(s) - n + 1 ELSE 1, Len(s))

\* How a story is remembered: its topic and whether it is of family Turn.
Summary(t) == [topic |-> t, turn |-> t \in TurnTopic]

\* apply_publish_decision, with the guardrails before it.
Decision(t, memo) ==
    IF t \in Dull THEN "dull"
    ELSE IF Summary(t) \in ToSet(memo) THEN "repeat" ELSE "built"

\* One story of a batch after those acc stands for: push_publishable_summary,
\* and signed_capsules_from_summaries, which numbers a capsule by the
\* summaries before it.
Told(p, acc, id) ==
    LET t == stories[p][id]
        d == Decision(t, acc.memo)
    IN  [caps |-> IF d # "built" THEN acc.caps
                  ELSE Append(acc.caps,
                              [pub |-> p, id |-> id,
                               seq |-> nextSeq[p] + Len(acc.caps),
                               at |-> count.quiet]),
         memo |-> IF d # "built" THEN acc.memo
                  ELSE FirstOf(<<Summary(t)>> \o acc.memo, RecentWindow),
         fate |-> [acc.fate EXCEPT ![id] = d]]

\* summarize_feed_with_recent over the stories ids of p: the capsules, the
\* memory and the decisions it ends with.
Summarize(p, ids) ==
    LET After[n \in 0..Len(ids)] ==
            IF n = 0
            THEN [caps |-> <<>>, memo |-> recent[p], fate |-> fate[p]]
            ELSE Told(p, After[n - 1], ids[n])
    IN  After[Len(ids)]

\* SnapshotStore::push for each capsule of a request.
Push(headlines, c) ==
    LET kept == SelectSeq(headlines, Fresh) IN
    IF ~Fresh(c) THEN headlines
    ELSE IF \E h \in ToSet(kept) : h.pub = c.pub /\ TopicOf(h) = TopicOf(c)
    THEN kept
    ELSE LastOf(Append(kept, c), EdgeLimit)

\* The edge's headlines after it handled a request with capsules caps.
Pushed(caps) == FoldLeft(Push, edge, caps)

\* What a stopping process forgets.
Lost(fates) ==
    [id \in DOMAIN fates |->
        IF fates[id] \in {"waiting", "built"} THEN "lost" ELSE fates[id]]

\* The headlines any ack and the public snapshot count.
Visible(headlines) ==
    SelectSeq(headlines, LAMBDA c : c.pub \in Public /\ Fresh(c))

\* seed_recent_summaries_from_edge: p's own headlines, newest first, all
\* taken for Turn stories.
Seeds(p) ==
    LET own == Reverse(SelectSeq(Visible(edge), LAMBDA c : c.pub = p)) IN
    FirstOf([i \in 1..Len(own) |-> [topic |-> TopicOf(own[i]), turn |-> TRUE]],
            RecentWindow)

Init ==
    /\ stories = [p \in Publisher |-> <<>>]
    /\ taken = [p \in Publisher |-> 0]
    /\ closed = [p \in Publisher |-> FALSE]
    /\ pc = [p \in Publisher |-> "receive"]
    /\ pending = [p \in Publisher |-> <<>>]
    /\ batch = [p \in Publisher |-> None]
    /\ recent = [p \in Publisher |-> <<>>]
    /\ replayable = [p \in Publisher |-> <<>>]
    /\ nextSeq = [p \in Publisher |-> 1]
    /\ due = [p \in Publisher |-> {"presence"}]
    /\ wire = [p \in Publisher |-> None]
    /\ reply = [p \in Publisher |-> None]
    /\ late = {}
    /\ edge = <<>>
    /\ fate = [p \in Publisher |-> <<>>]
    /\ seen = {}
    /\ count = [failures |-> 0, restarts |-> 0, edge |-> 0, quiet |-> 0]

---------------------------------------------------------------------------
(* The surroundings: the server that settles stories, the clock, the edge. *)

\* forward_stories sends a settled story.
Settle(p, t) ==
    /\ ~closed[p]
    /\ Len(stories[p]) < MaxStories
    /\ stories' = [stories EXCEPT ![p] = Append(@, t)]
    /\ fate' = [fate EXCEPT ![p] = Append(@, "waiting")]
    /\ UNCHANGED <<taken, closed, pc, pending, batch, memory, replayable,
                   due, post, edgeVars, count>>

\* The server stops and drops its end of the channel.
Close(p) ==
    /\ count.restarts < MaxRestarts
    /\ ~closed[p]
    /\ closed' = [closed EXCEPT ![p] = TRUE]
    /\ count' = [count EXCEPT !.restarts = @ + 1]
    /\ UNCHANGED <<stories, taken, pc, pending, batch, memory, replayable,
                   due, post, edgeVars, fate>>

\* A minute passed since the last presence, or publish_interval since the
\* last publish.
TimerRunsOut(p, timer) ==
    /\ timer \notin due[p]
    /\ due' = [due EXCEPT ![p] = @ \union {timer}]
    /\ UNCHANGED <<channel, pc, pending, batch, memory, replayable, post,
                   edgeVars, fate, count>>

\* 45 minutes pass: every capsule built so far leaves the retention window.
\* No request takes that long.
QuietPeriod ==
    /\ count.quiet < MaxQuietPeriods
    /\ late = {} /\ \A p \in Publisher : wire[p] = None /\ batch[p] = None
    /\ count' = [count EXCEPT !.quiet = @ + 1]
    /\ UNCHANGED <<channel, pc, pending, batch, memory, replayable, due,
                   post, edgeVars, fate>>

\* network_publish_verified stores the capsules of a request, one by one.
Store(caps) ==
    /\ edge' = Pushed(caps)
    /\ seen' = seen \union {<<c.pub, TopicOf(c)>> : c \in ToSet(Pushed(caps))}

Answer(p, ok, empty) ==
    reply' = [reply EXCEPT ![p] = [ok |-> ok, empty |-> empty]]

EdgeHandles(p) ==
    /\ wire[p] # None
    /\ wire' = [wire EXCEPT ![p] = None]
    /\ \/ /\ Len(wire[p]) <= MaxPublishCapsules
          /\ Store(wire[p])
          /\ Answer(p, TRUE, Visible(edge') = <<>>)
       \/ /\ Len(wire[p]) > MaxPublishCapsules
          /\ Answer(p, FALSE, FALSE)
          /\ UNCHANGED <<edge, seen>>
    /\ UNCHANGED <<channel, pc, pending, batch, memory, replayable, due, late,
                   fate, count>>

EdgeHandlesLate(r) ==
    /\ late' = late \ {r}
    /\ Store(r)
    /\ UNCHANGED <<channel, pc, pending, batch, memory, replayable, due, post,
                   fate, count>>

\* The edge keeps its headlines in memory unless a snapshot path is set.
EdgeRestarts ==
    /\ count.edge < MaxEdgeRestarts
    /\ count' = [count EXCEPT !.edge = @ + 1]
    /\ edge' = <<>>
    /\ UNCHANGED <<channel, pc, pending, batch, memory, replayable, due, post,
                   seen, late, fate>>

---------------------------------------------------------------------------
(* The loop of run_serve_publisher.                                        *)

Goto(p, place) == pc' = [pc EXCEPT ![p] = place]

Send(p, caps) == wire' = [wire EXCEPT ![p] = caps]

\* recv_timeout: a story, half a second without one, or a closed channel,
\* which ends the thread and what it still had pending.
Receive(p) ==
    /\ pc[p] = "receive"
    /\ IF taken[p] < Len(stories[p])
       THEN /\ taken' = [taken EXCEPT ![p] = @ + 1]
            /\ pending' = [pending EXCEPT ![p] = Append(@, taken[p] + 1)]
            /\ Goto(p, "presence")
            /\ UNCHANGED fate
       ELSE /\ UNCHANGED taken
            /\ IF closed[p]
               THEN /\ Goto(p, "stopped")
                    /\ pending' = [pending EXCEPT ![p] = <<>>]
                    /\ fate' = [fate EXCEPT ![p] = Lost(@)]
               ELSE /\ Goto(p, "presence")
                    /\ UNCHANGED <<pending, fate>>
    /\ UNCHANGED <<stories, closed, batch, memory, replayable, due, post,
                   edgeVars, count>>

\* publish_feed_presence, when it is due.
Presence(p) ==
    /\ pc[p] = "presence"
    /\ IF "presence" \in due[p]
       THEN Send(p, <<>>) /\ Goto(p, "registering")
       ELSE Goto(p, "decide") /\ UNCHANGED wire
    /\ UNCHANGED <<channel, pending, batch, memory, replayable, due, reply,
                   edgeVars, fate, count>>

\* Faulty variant: nothing is replayed.
RegisteredOnly(p) ==
    /\ pc[p] = "registering" /\ reply[p] # None /\ reply[p].ok
    /\ reply' = [reply EXCEPT ![p] = None]
    /\ due' = [due EXCEPT ![p] = @ \ {"presence"}]
    /\ Goto(p, "decide")
    /\ UNCHANGED <<channel, pending, batch, memory, replayable, wire,
                   edgeVars, fate, count>>

\* The presence is registered; an empty edge gets the recent capsules.
Registered(p) ==
    /\ pc[p] = "registering" /\ reply[p] # None /\ reply[p].ok
    /\ reply' = [reply EXCEPT ![p] = None]
    /\ due' = [due EXCEPT ![p] = @ \ {"presence"}]
    /\ IF reply[p].empty /\ replayable[p] # <<>>
       THEN Send(p, replayable[p]) /\ Goto(p, "replaying")
       ELSE Goto(p, "decide") /\ UNCHANGED wire
    /\ UNCHANGED <<channel, pending, batch, memory, replayable, edgeVars,
                   fate, count>>

Replayed(p) ==
    /\ pc[p] = "replaying" /\ reply[p] # None /\ reply[p].ok
    /\ reply' = [reply EXCEPT ![p] = None]
    /\ Goto(p, "decide")
    /\ UNCHANGED <<channel, pending, batch, memory, replayable, due, wire,
                   edgeVars, fate, count>>

\* Faulty variant: the interval is not looked at.
ShouldPublishLater(p) ==
    /\ pending[p] # <<>>
    /\ \/ \E id \in ToSet(pending[p]) : stories[p][id] \in Severe
       \/ Len(pending[p]) >= BatchSize

ShouldPublish(p) ==
    /\ pending[p] # <<>>
    /\ \/ "interval" \in due[p]
       \/ \E id \in ToSet(pending[p]) : stories[p][id] \in Severe
       \/ Len(pending[p]) >= BatchSize

Wait(p) ==
    /\ pc[p] = "decide"
    /\ ~ShouldPublish(p)
    /\ Goto(p, "receive")
    /\ UNCHANGED <<channel, pending, batch, memory, replayable, due, post,
                   edgeVars, fate, count>>

\* The summariser fails: nothing of the batch is remembered.
SummaryFails(p) ==
    /\ pc[p] = "decide"
    /\ ShouldPublish(p)
    /\ count.failures < MaxFailures
    /\ count' = [count EXCEPT !.failures = @ + 1]
    /\ Goto(p, "receive")
    /\ UNCHANGED <<channel, pending, batch, memory, replayable, due, post,
                   edgeVars, fate>>

\* publish_story_batch up to its POST: the summaries are remembered and the
\* sequence numbers used before the edge has answered.
Publish(p) ==
    /\ pc[p] = "decide"
    /\ ShouldPublish(p)
    /\ LET s == Summarize(p, pending[p]) IN
       /\ recent' = [recent EXCEPT ![p] = s.memo]
       /\ nextSeq' = [nextSeq EXCEPT ![p] = @ + Len(s.caps)]
       /\ fate' = [fate EXCEPT ![p] = s.fate]
       /\ IF s.caps = <<>>
          THEN /\ due' = [due EXCEPT ![p] = @ \ {"interval"}]
               /\ Goto(p, "receive")
               /\ UNCHANGED <<batch, wire>>
          ELSE /\ batch' = [batch EXCEPT ![p] =
                                [ids |-> pending[p], caps |-> s.caps]]
               /\ Send(p, s.caps)
               /\ Goto(p, "posting")
               /\ UNCHANGED due
    /\ pending' = [pending EXCEPT ![p] = <<>>]
    /\ UNCHANGED <<channel, replayable, reply, edgeVars, count>>

Posted(p) ==
    /\ pc[p] = "posting" /\ reply[p] # None /\ reply[p].ok
    /\ reply' = [reply EXCEPT ![p] = None]
    /\ due' = [due EXCEPT ![p] = @ \ {"interval"}]
    /\ replayable' = [replayable EXCEPT ![p] =
                          FirstOf(batch[p].caps \o @, ReplayWindow)]
    /\ fate' = [fate EXCEPT ![p] = [id \in DOMAIN @ |->
                    IF @[id] = "built" THEN "acked" ELSE @[id]]]
    /\ batch' = [batch EXCEPT ![p] = None]
    /\ Goto(p, "receive")
    /\ UNCHANGED <<channel, pending, memory, wire, edgeVars, count>>

\* Faulty variant: only the capsules' stories are pending again, in front.
ErrorDropsSkipped(p) ==
    IF pc[p] = "posting"
    THEN /\ pending' = [pending EXCEPT ![p] =
                            [i \in 1..Len(batch[p].caps) |->
                                batch[p].caps[i].id] \o @]
         /\ fate' = [fate EXCEPT ![p] = [id \in DOMAIN @ |->
                         IF id \in ToSet(batch[p].ids) THEN "waiting"
                         ELSE @[id]]]
         /\ batch' = [batch EXCEPT ![p] = None]
         /\ Goto(p, "receive")
    ELSE /\ Goto(p, "decide")
         /\ UNCHANGED <<pending, fate, batch>>

\* A POST that ends in an error: a batch's stories are pending again, a
\* presence or a replay is left for the next time round.
Error(p) ==
    IF pc[p] = "posting"
    THEN /\ pending' = [pending EXCEPT ![p] = @ \o batch[p].ids]
         /\ fate' = [fate EXCEPT ![p] = [id \in DOMAIN @ |->
                         IF id \in ToSet(batch[p].ids) THEN "waiting"
                         ELSE @[id]]]
         /\ batch' = [batch EXCEPT ![p] = None]
         /\ Goto(p, "receive")
    ELSE /\ Goto(p, "decide")
         /\ UNCHANGED <<pending, fate, batch>>

Rejected(p) ==
    /\ reply[p] # None /\ ~reply[p].ok
    /\ reply' = [reply EXCEPT ![p] = None]
    /\ Error(p)
    /\ UNCHANGED <<channel, memory, replayable, due, wire, edgeVars,
                   count>>

\* What a client that gives up may leave on the wire.
LeftBehind(p) ==
    \/ UNCHANGED late
    \/ /\ wire[p] \notin {None, <<>>}
       /\ Len(wire[p]) <= MaxPublishCapsules
       /\ late' = late \union {wire[p]}

\* No reply comes: the request or the reply is lost, or the request is still
\* on its way.
NoReply(p) ==
    /\ wire[p] # None \/ reply[p] # None
    /\ count.failures < MaxFailures
    /\ count' = [count EXCEPT !.failures = @ + 1]
    /\ wire' = [wire EXCEPT ![p] = None]
    /\ reply' = [reply EXCEPT ![p] = None]
    /\ LeftBehind(p)
    /\ Error(p)
    /\ UNCHANGED <<channel, memory, replayable, due, edge, seen>>

\* The process ends, wherever it is, and starts again.  The memory is seeded
\* from the edge if the edge can be reached.
Restart(p) ==
    /\ count.restarts < MaxRestarts
    /\ count' = [count EXCEPT !.restarts = @ + 1]
    /\ taken' = [taken EXCEPT ![p] = Len(stories[p])]
    /\ closed' = [closed EXCEPT ![p] = FALSE]
    /\ Goto(p, "receive")
    /\ pending' = [pending EXCEPT ![p] = <<>>]
    /\ batch' = [batch EXCEPT ![p] = None]
    /\ \E memo \in {Seeds(p), <<>>} : recent' = [recent EXCEPT ![p] = memo]
    /\ replayable' = [replayable EXCEPT ![p] = <<>>]
    /\ nextSeq' = [nextSeq EXCEPT ![p] = 1]
    /\ due' = [due EXCEPT ![p] = {"presence"}]
    /\ wire' = [wire EXCEPT ![p] = None]
    /\ reply' = [reply EXCEPT ![p] = None]
    /\ LeftBehind(p)
    /\ fate' = [fate EXCEPT ![p] = Lost(@)]
    /\ UNCHANGED <<stories, edge, seen>>

Step(p) ==
    \/ Receive(p) \/ Presence(p) \/ Registered(p) \/ Replayed(p)
    \/ Wait(p) \/ Publish(p) \/ Posted(p) \/ Rejected(p)

Next ==
    \/ \E p \in Publisher :
          \/ Step(p) \/ SummaryFails(p) \/ NoReply(p) \/ Restart(p)
          \/ EdgeHandles(p) \/ Close(p)
          \/ \E t \in Topic : Settle(p, t)
          \/ \E timer \in {"presence", "interval"} : TimerRunsOut(p, timer)
    \/ \E r \in late : EdgeHandlesLate(r)
    \/ EdgeRestarts \/ QuietPeriod

\* The thread runs, time passes, and the edge answers what reaches it.  A
\* request whose client gave up is owed nothing.
Fairness ==
    \A p \in Publisher :
        /\ WF_vars(Step(p))
        /\ WF_vars(EdgeHandles(p))
        /\ \A timer \in {"presence", "interval"} :
              WF_vars(TimerRunsOut(p, timer))

Spec == Init /\ [][Next]_vars /\ Fairness

---------------------------------------------------------------------------
(* Properties.                                                             *)

\* A story received is, until it is settled, in exactly one of the two lists
\* the thread keeps, and in order: failed summaries, rejected and unanswered
\* POSTs put every story of the batch back, and none twice.
NothingForgotten ==
    \A p \in Publisher :
        LET ids == IF batch[p] = None THEN pending[p]
                   ELSE batch[p].ids \o pending[p]
        IN  /\ \A i, j \in 1..Len(ids) : i < j => ids[i] < ids[j]
            /\ \A id \in 1..taken[p] :
                  fate[p][id] \in {"waiting", "built"} => id \in ToSet(ids)

Settled(p, id) ==
    id <= Len(stories[p]) /\ fate[p][id] \notin {"waiting", "built"}

\* Every story sent to a publisher is eventually published, judged a repeat
\* or dull, or lost with a process that ended.
EveryStorySettles ==
    \A p \in Publisher : \A id \in 1..MaxStories :
        id <= Len(stories[p]) ~> Settled(p, id)

\* An edge that lost its headlines shows a recent story of a public feed
\* again, unless the publisher ends or its stories grow too old first.
EmptyEdgeRefilled ==
    \A p \in Public :
        (Visible(edge) = <<>> /\ \E c \in ToSet(replayable[p]) : Fresh(c))
            ~> \/ Visible(edge) # <<>>
               \/ pc[p] = "stopped"
               \/ \A c \in ToSet(replayable[p]) : ~Fresh(c)

\* "headline did not meaningfully change from a recent published summary": a
\* story skipped as a repeat repeats a story that was published.
SkippedWasPublished ==
    \A p \in Publisher : \A id \in 1..taken[p] :
        fate[p][id] = "repeat" => <<p, stories[p][id]>> \in seen
===========================================================================
