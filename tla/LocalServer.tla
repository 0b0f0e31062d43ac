---------------------------- MODULE LocalServer ----------------------------
(***************************************************************************)
(* The local server (agent_feed_server): requests and the flush loop run   *)
(* as tasks that share the story compiler, the event store, the reel, the  *)
(* counters, the broadcast channel and the publisher's queue.  Each of     *)
(* these has a lock of its own, so a task works on them one after the      *)
(* other and the tasks interleave between any two of them.                 *)
(*                                                                         *)
(* The story compiler is StoryCompiler's subject; here it is what the      *)
(* server sees of it: the sessions with a story in the making, and stories *)
(* that come out, numbered in the order in which they settle.  A bulletin  *)
(* is named by its story.                                                  *)
(***************************************************************************)
EXTENDS Naturals, Sequences, FiniteSets, SequencesExt, FiniteSetsExt

CONSTANTS
    Session,          \* sessions of agents
    Request,          \* tasks that serve ingest requests
    Flusher,          \* the task of spawn_story_flush_loop
    Credential,       \* what requests carry: [header, bearer, displayParam, tokenParam]
    DisplayToken,     \* SecurityConfig.display_token
    NoToken,
    Loopback,         \* the server is bound to a loopback address
    MaxEvents,        \* bound: events accepted in a behaviour
    StoreCapacity,    \* InMemoryStore.capacity
    ReelCapacity      \* ReelBuffer.capacity

Task == Request \cup {Flusher}

ASSUME ServerAssumption ==
    /\ Flusher \notin Request
    /\ {MaxEvents, StoreCapacity, ReelCapacity} \subseteq Nat \ {0}
    /\ Loopback \in BOOLEAN

VARIABLES
    accepted,       \* events accepted so far; their names are 1..accepted
    open,           \* sessions with a story in the making
    settled,        \* stories settled so far; their names are 1..settled
    events,         \* InMemoryStore.events
    reel,           \* ReelBuffer.bulletins
    ingested,       \* Metrics.ingested_events
    emitted,        \* Metrics.emitted_bulletins
    channel,        \* what went over AppState.tx, all of it
    sink,           \* what went into story_sink, in order
    sinkOpen,       \* the publisher still holds its end
    task,           \* what each task is doing
    view            \* a status request under way: where it is, and the counters it read

shared  == <<accepted, open, settled>>
stores  == <<events, reel, ingested, emitted>>
outlets == <<channel, sink, sinkOpen>>
vars == <<shared, stores, outlets, task, view>>

------------------------------------------------------------------------------
(* Access.                                                                 *)

\* A server on an open address does not start without a display token.
MayBind == Loopback \/ DisplayToken # NoToken

TokenRequired == ~Loopback /\ DisplayToken # NoToken

\* The first of the four places that holds a token is the one that counts.
TokenOf(c) ==
    LET places  == <<c.header, c.bearer, c.displayParam, c.tokenParam>>
        present == {i \in DOMAIN places : places[i] # NoToken}
    IN IF present = {} THEN NoToken
       ELSE places[CHOOSE i \in present : \A j \in present : i <= j]

Admitted(c) == TokenRequired => TokenOf(c) = DisplayToken

------------------------------------------------------------------------------
(* The two rings.                                                          *)

Pushed(ring, x, capacity) ==
    Append(IF Len(ring) >= capacity THEN Tail(ring) ELSE ring, x)

Names(n, k) == [i \in 1..k |-> n + i]

------------------------------------------------------------------------------
(* Tasks.                                                                  *)

Idle == [at |-> "idle", event |-> 0, stories |-> <<>>, bulletins |-> <<>>, answer |-> <<>>]

At(t, place) == task[t].at = place

Started(t, event, stories) ==
    task' = [task EXCEPT ![t] = [at |-> "forward", event |-> event, stories |-> stories,
                                 bulletins |-> stories, answer |-> stories]]

GoesTo(t, place) == task' = [task EXCEPT ![t].at = place]

Init ==
    /\ MayBind
    /\ accepted = 0 /\ open = {} /\ settled = 0
    /\ events = <<>> /\ reel = <<>> /\ ingested = 0 /\ emitted = 0
    /\ channel = <<>> /\ sink = <<>> /\ sinkOpen = TRUE
    /\ task = [t \in Task |-> Idle]
    /\ view = [at |-> "none", ingested |-> 0, emitted |-> 0]

IngestCounts(r, s, ends) ==
    /\ At(r, "idle")
    /\ accepted < MaxEvents
    /\ accepted' = accepted + 1
    /\ open' = IF ends THEN open \ {s} ELSE open \cup {s}
    /\ settled' = IF ends THEN settled + 1 ELSE settled
    /\ Started(r, accepted', Names(settled, IF ends THEN 1 ELSE 0))
    /\ ingested' = ingested + 1
    /\ UNCHANGED <<events, reel, emitted, outlets, view>>

(* ingest_event: under the compiler's lock an event joins its session's    *)
(* story or ends it.                                                       *)
Ingest(r, s, ends) ==
    /\ At(r, "idle")
    /\ accepted < MaxEvents
    /\ \E c \in Credential : Admitted(c)
    /\ accepted' = accepted + 1
    /\ open' = IF ends THEN open \ {s} ELSE open \cup {s}
    /\ settled' = IF ends THEN settled + 1 ELSE settled
    /\ Started(r, accepted', Names(settled, IF ends THEN 1 ELSE 0))
    /\ UNCHANGED <<stores, outlets, view>>

(* flush_story_windows: the stories of the windows that are due come out.  *)
Flush(due) ==
    /\ At(Flusher, "idle")
    /\ due # {} /\ due \subseteq open
    /\ open' = open \ due
    /\ settled' = settled + Cardinality(due)
    /\ Started(Flusher, 0, Names(settled, Cardinality(due)))
    /\ UNCHANGED <<accepted, stores, outlets, view>>

ForwardStoryKept(t) ==
    /\ At(t, "forward")
    /\ task[t].stories # <<>>
    /\ Len(sink) < 2 * MaxEvents
    /\ sink' = IF sinkOpen THEN Append(sink, Head(task[t].stories)) ELSE sink
    /\ UNCHANGED <<shared, stores, channel, sinkOpen, task, view>>

(* forward_stories: one story after the other into the publisher's queue;  *)
(* the first one that fails ends it.                                       *)
ForwardStory(t) ==
    /\ At(t, "forward")
    /\ task[t].stories # <<>>
    /\ IF sinkOpen
       THEN /\ sink' = Append(sink, Head(task[t].stories))
            /\ task' = [task EXCEPT ![t].stories = Tail(@)]
       ELSE /\ task' = [task EXCEPT ![t].stories = <<>>]
            /\ UNCHANGED sink
    /\ UNCHANGED <<shared, stores, channel, sinkOpen, view>>

\* Nothing is left to forward.
Forwarded(t) == At(t, "forward") /\ task[t].stories = <<>>

StoreEvent(r) ==
    /\ r # Flusher
    /\ Forwarded(r)
    /\ events' = Pushed(events, task[r].event, StoreCapacity)
    /\ GoesTo(r, "count")
    /\ UNCHANGED <<shared, reel, ingested, emitted, outlets, view>>

CountEvent(r) ==
    /\ At(r, "count")
    /\ ingested' = ingested + 1
    /\ GoesTo(r, "emit")
    /\ UNCHANGED <<shared, events, reel, emitted, outlets, view>>

(* emit_bulletins, for one bulletin: into the reel, counted, sent.         *)
Emitting(t) == At(t, "emit") \/ (t = Flusher /\ Forwarded(t))

PushBulletinNot(t) ==
    /\ Emitting(t)
    /\ task[t].bulletins # <<>>
    /\ GoesTo(t, "counted")
    /\ UNCHANGED <<shared, stores, outlets, view>>

PushBulletin(t) ==
    /\ Emitting(t)
    /\ task[t].bulletins # <<>>
    /\ reel' = Pushed(reel, Head(task[t].bulletins), ReelCapacity)
    /\ GoesTo(t, "counted")
    /\ UNCHANGED <<shared, events, ingested, emitted, outlets, view>>

CountBulletin(t) ==
    /\ At(t, "counted")
    /\ emitted' = emitted + 1
    /\ GoesTo(t, "send")
    /\ UNCHANGED <<shared, events, reel, ingested, outlets, view>>

SendBulletin(t) ==
    /\ At(t, "send")
    /\ channel' = Append(channel, Head(task[t].bulletins))
    /\ task' = [task EXCEPT ![t].at = "emit", ![t].bulletins = Tail(@)]
    /\ UNCHANGED <<shared, stores, sink, sinkOpen, view>>

AnswerEarly(r) ==
    /\ r # Flusher
    /\ At(r, "emit")
    /\ task' = [task EXCEPT ![r] = Idle]
    /\ UNCHANGED <<shared, stores, outlets, view>>

Answer(r) ==
    /\ r # Flusher
    /\ At(r, "emit")
    /\ task[r].bulletins = <<>>
    /\ task' = [task EXCEPT ![r] = Idle]
    /\ UNCHANGED <<shared, stores, outlets, view>>

FlushEnds ==
    /\ Emitting(Flusher)
    /\ task[Flusher].bulletins = <<>>
    /\ task' = [task EXCEPT ![Flusher] = Idle]
    /\ UNCHANGED <<shared, stores, outlets, view>>

(* The publisher's thread ends and drops its end of the queue.             *)
SinkCloses ==
    /\ sinkOpen
    /\ sinkOpen' = FALSE
    /\ UNCHANGED <<shared, stores, channel, sink, task, view>>

------------------------------------------------------------------------------
(* status: the counters first, then the store, then the reel, each under   *)
(* its own lock; the answer goes out with the last.                        *)
NoView == [at |-> "none", ingested |-> 0, emitted |-> 0]

ReadCounters ==
    /\ view = NoView
    /\ view' = [at |-> "events", ingested |-> ingested, emitted |-> emitted]
    /\ UNCHANGED <<shared, stores, outlets, task>>

ReadEvents ==
    /\ view.at = "events"
    /\ view' = [view EXCEPT !.at = "reel", !.ingested = 0]
    /\ UNCHANGED <<shared, stores, outlets, task>>

ReadReel ==
    /\ view.at = "reel"
    /\ view' = NoView
    /\ UNCHANGED <<shared, stores, outlets, task>>

Next ==
    \/ \E r \in Request :
          \/ \E s \in Session, ends \in BOOLEAN : Ingest(r, s, ends)
          \/ StoreEvent(r) \/ CountEvent(r) \/ Answer(r)
    \/ \E due \in SUBSET open : Flush(due)
    \/ \E t \in Task :
          \/ ForwardStory(t) \/ PushBulletin(t) \/ CountBulletin(t) \/ SendBulletin(t)
    \/ FlushEnds \/ SinkCloses
    \/ ReadCounters \/ ReadEvents \/ ReadReel

(* Tasks run to their end, and the flush loop finds a window due some day. *)
Fairness ==
    /\ \A t \in Task : WF_vars(ForwardStory(t) \/ PushBulletin(t) \/ CountBulletin(t) \/ SendBulletin(t))
    /\ \A r \in Request : WF_vars(StoreEvent(r) \/ CountEvent(r) \/ Answer(r))
    /\ WF_vars(FlushEnds)
    /\ \A s \in Session : SF_vars(\E due \in SUBSET open : s \in due /\ Flush(due))

Spec == Init /\ [][Next]_vars /\ Fairness

------------------------------------------------------------------------------
Story == 1..settled

Point == {"idle", "forward", "count", "emit", "counted", "send"}

\* What a task may be at: it has stories to forward only while it forwards,
\* and a bulletin in hand once it pushed one.
Job ==
    {j \in [at : Point, event : Nat, stories : Seq(Nat), bulletins : Seq(Nat),
             answer : Seq(Nat)] :
        /\ j.stories # <<>> => j.at = "forward"
        /\ j.at \in {"counted", "send"} => j.bulletins # <<>>}

(* Every variable has its type, and the rings keep to their capacity.      *)
TypeOK ==
    /\ accepted \in Nat /\ settled \in Nat
    /\ open \subseteq Session /\ IsFiniteSet(open)
    /\ events \in Seq(Nat) /\ Len(events) <= StoreCapacity
    /\ reel \in Seq(Nat) /\ Len(reel) <= ReelCapacity
    /\ ingested \in Nat /\ emitted \in Nat
    /\ channel \in Seq(Nat)
    /\ sink \in Seq(Nat) /\ sinkOpen \in BOOLEAN
    /\ task \in [Task -> Job]

(* A client that gets its answer (ingest_event) finds its event in the     *)
(* store and every bulletin the answer names in the reel and on the        *)
(* stream, unless younger ones have pushed it out of a full ring.          *)
Visible(job) ==
    /\ job.event \in ToSet(events) \/ Len(events) = StoreCapacity
    /\ \A n \in ToSet(job.answer) :
          /\ n \in ToSet(channel)
          /\ n \in ToSet(reel) \/ Len(reel) = ReelCapacity

AnsweredIsVisible ==
    [][\A r \in Request : task[r] # Idle /\ task'[r] = Idle => Visible(task[r])]_vars

StillToForward(t) == ToSet(task[t].stories)

(* Whichever tasks interleave (forward_stories), a settled story goes to   *)
(* the publisher exactly once: it is in its queue, or one task has yet to  *)
(* send it, or the publisher is gone.                                      *)
ForwardedOnce ==
    /\ \A i, j \in DOMAIN sink : sink[i] = sink[j] => i = j
    /\ \A n \in Story :
          LET holders == {t \in Task : n \in StillToForward(t)}
          IN IF n \in ToSet(sink) THEN holders = {}
             ELSE Cardinality(holders) = 1 \/ (holders = {} /\ ~sinkOpen)

(* The status view takes its counters before it looks at the rings, and    *)
(* the tasks fill the rings before they count: a status never counts an    *)
(* event or a bulletin it does not have, unless the ring is full.          *)
StatusCovers ==
    /\ [][view.at = "events" /\ view'.at = "reel"
          => Len(events) >= Min({view.ingested, StoreCapacity})]_view
    /\ [][view.at = "reel" /\ view'.at = "none"
          => Len(reel) >= Min({view.emitted, ReelCapacity})]_view

\* What came into the reel: what was sent, and what a task has yet to send.
PushedStories ==
    ToSet(channel) \cup {Head(task[t].bulletins) : t \in {u \in Task : task[u].at \in {"counted", "send"}}}

Feed == INSTANCE ReelFeed WITH MaxStories <- MaxEvents, pushed <- PushedStories

(* The server keeps what it promises its pages: every story settled by a   *)
(* request or by the flush loop comes into the reel once and goes over the *)
(* stream once, and it does so in the end.                                 *)
ImplementsFeed == Feed!FeedSpec
=============================================================================
