--------------------------- MODULE StoryCompiler ---------------------------
(***************************************************************************)
(* The story compiler of agent_feed_story.  Events are gathered in windows *)
(* by turn and story family; an event that settles its window compiles it  *)
(* into a story at once, and a periodic flush compiles the rest: updates   *)
(* of turns that are still open, and windows no later event settled.  A    *)
(* story whose fingerprint is among the recent ones is dropped.            *)
(*                                                                         *)
(* The server holds a mutex around each call: an ingest is one action, a   *)
(* flush one per window with no ingest in between.  A turn stands for the  *)
(* agent, project, session and turn id of a key.  The wording of a story   *)
(* is the family, the kinds of event and the note (the substantive         *)
(* summary) it is made from; StoryNotes says how the code reads a note.    *)
(* Events here have a session or a turn id.  Left out: permission, MCP,    *)
(* plan, recap and error events, and the diagnostics.                      *)
(***************************************************************************)
EXTENDS StoryNotes, Naturals, Sequences, FiniteSets

CONSTANTS
    Turn,
    ProjectOf,        \* turn -> its project, or None for a generic label
    Score,            \* event kind -> the score its adapter gives it
    Events,           \* the events that may arrive
    Rank,             \* key -> its place in the order of the windows map
    MinScore,         \* config.min_score
    MinContext,       \* config.min_context_score
    DedupeWindow,     \* config.dedupe_window_events
    BurstCommands,    \* commands that make a burst
    CheckpointEvents, \* publishable events that allow a checkpoint
    RetainScore,      \* lowest score of an open turn that is retained
    RetainEvents,     \* events at which it is not retained any more
    MaxEvents         \* bound: events that arrive

Kind == {"message", "start", "command", "tool", "edit", "pass", "fail",
         "tool_fail", "turn_fail", "complete"}

Family == {"turn", "command", "edit", "test", "incident"}

Key == Turn \X Family

\* A note of None is a missing summary.
Event == [turn : Turn, kind : Kind, note : Note \union {None},
          startup : BOOLEAN]

ASSUME EventsAssumption ==
    /\ Events \subseteq Event
    /\ Score \in [Kind -> 0..100]
    /\ Rank \in [Key -> Nat]
    /\ \A k, l \in Key : Rank[k] = Rank[l] => k = l

ASSUME LimitsAssumption ==
    /\ MinScore \in Nat /\ MinContext \in Nat
    /\ DedupeWindow \in Nat \ {0}
    /\ BurstCommands \in Nat /\ CheckpointEvents \in Nat
    /\ RetainScore \in Nat /\ RetainEvents \in Nat
    /\ MaxEvents \in Nat

VARIABLES
    windows,   \* key -> its open window, or None
    recent,    \* recent_fingerprints, oldest first
    updates,   \* key -> the fingerprint of its last active update, or None
    flushing,  \* the keys a flush under way has still to visit
    emitted,   \* history variable: every story returned, oldest first
    finished,  \* history variable: <<project, note>> of completed turns
    count      \* events so far

vars == <<windows, recent, updates, flushing, emitted, finished, count>>

---------------------------------------------------------------------------
(* Windows.                                                                *)

\* family_for
FamilyOf == [message |-> "turn", start |-> "turn", complete |-> "turn",
             command |-> "command", tool |-> "command", edit |-> "edit",
             pass |-> "test", fail |-> "test",
             tool_fail |-> "incident", turn_fail |-> "incident"]

NewWindow == [events |-> {}, live |-> {}, kinds |-> {}, latest |-> None,
              note |-> None, commands |-> 0, score |-> 0]

Larger(a, b) == IF a > b THEN a ELSE b

\* The summary of an event replaces its window's unless it says nothing.
Informs(e) == e.note # None /\ ~IsRedundant(e.note)

Observe(w, e) ==
    [events |-> w.events \union {count + 1},
     live |-> IF e.startup THEN w.live ELSE w.live \union {count + 1},
     kinds |-> w.kinds \union {e.kind},
     latest |-> e.kind,
     note |-> IF Informs(e) THEN e.note ELSE w.note,
     commands |-> w.commands + IF e.kind \in {"command", "tool"} THEN 1 ELSE 0,
     score |-> Larger(w.score, Score[e.kind])]

Touch(ws, k, e) ==
    [ws EXCEPT ![k] = Observe(IF @ = None THEN NewWindow ELSE @, e)]

IsTurn(k) == k[2] = "turn"

HasBurst(k, w) ==
    /\ IsTurn(k)
    /\ w.commands >= BurstCommands
    /\ w.kinds \intersect {"edit", "pass", "fail"} = {}

\* The window's summary may be published for its project; None may not.
Publishes(k, w) == w.note # None /\ IsPublishable(w.note, ProjectOf[k[1]])

Explains(w) == w.note # None /\ IsMeaningful(w.note)

StoryScore(k, w) ==
    LET floor == IF IsTurn(k) /\ Publishes(k, w) THEN 74 ELSE 0
        extra == IF w.commands > 8 THEN 8 ELSE w.commands
        burst == IF HasBurst(k, w) THEN 68 + extra ELSE 0
    IN  Larger(w.score, Larger(floor, burst))

\* The agent and a latest kind are always known; severity is left out, for
\* it never decides: without a project, a tool and an outcome the sum stays
\* below the default threshold with it, and otherwise reaches it without.
ContextScore(k, w) ==
    36
    + (IF ProjectOf[k[1]] # None
          \/ w.kinds \intersect {"edit", "command", "tool"} # {}
       THEN 18 ELSE 0)
    + (IF w.latest \notin {"command", "start"} THEN 22 ELSE 0)
    + (IF StoryScore(k, w) >= MinScore THEN 16 ELSE 0)

\* is_low_quality_story
IsLowQuality(k, w) ==
    \/ w.note # None /\ IsChatter(w.note)
    \/ /\ IsTurn(k)
       /\ \/ ~Publishes(k, w)
          \/ /\ ProjectOf[k[1]] = None /\ w.score < 90
             /\ ~NamesProject(w.note)
    \/ k[2] = "edit" /\ ~Explains(w)
    \/ k[2] = "test" /\ "fail" \notin w.kinds /\ ~Explains(w)
    \/ k[2] = "incident" /\ "tool_fail" \in w.kinds

\* compile_rejection
Rejects(k, w) ==
    \/ StoryScore(k, w) < MinScore
    \/ ContextScore(k, w) < MinContext
    \/ IsLowQuality(k, w)

Retainable(k, w) ==
    /\ IsTurn(k)
    /\ w.score >= RetainScore
    /\ Cardinality(w.events) < RetainEvents

IsOpenTurn(k, w) == IsTurn(k) /\ w.latest \notin {"complete", "turn_fail"}

---------------------------------------------------------------------------
(* Stories and their fingerprints.                                         *)

\* The wording of a compiled window.  A turn's story is its summary's; one that
\* makes no headline goes below what the events show, as elsewhere.
Copy(k, w) ==
    LET project == ProjectOf[k[1]]
        outcome == IF "fail" \in w.kinds THEN {"fail"}
                   ELSE w.kinds \intersect {"pass", "edit"}
        headed  == /\ w.note # None
                   /\ \/ MakesHeadline(w.note, project)
                      \/ IsRewritten(w.note, project)
    IN  [kinds |-> CASE ~IsTurn(k) -> w.kinds \intersect {"fail", "turn_fail"}
                     [] IsTurn(k) /\ headed -> {}
                     [] IsTurn(k) /\ ~headed -> outcome,
         note |-> CASE w.note = None -> None
                    [] w.note # None /\ IsTurn(k) -> Telling(w.note, project)
                    [] w.note # None /\ ~IsTurn(k) -> Sentence(w.note)]

\* The wording of an activity checkpoint, or None.
Checkpoint(k, w) ==
    LET red == "fail" \in w.kinds
        told == w.kinds \intersect {"pass", "edit"}
    IN  IF /\ ProjectOf[k[1]] # None
           /\ Cardinality(w.live) >= CheckpointEvents
           /\ red \/ "pass" \in w.kinds
        THEN [kinds |-> IF red THEN {"fail"} ELSE told, note |-> None]
        ELSE None

\* compile_active_update: the wording of an open turn's update, or None.
Update(k, w) ==
    IF /\ w.note # None /\ IsActive(w.note, ProjectOf[k[1]])
       /\ ~IsLowQuality(k, w) \/ HasOutcome(w.note)
    THEN Copy(k, w)
    ELSE Checkpoint(k, w)

\* Faulty variant: stories of all projects are compared.
FingerprintAnyProject(k, copy, extra) ==
    [project |-> None, family |-> k[2], copy |-> copy, extra |-> extra]

\* The fingerprint accept_story compares; extra is the note an active update
\* is made from, which active_update_fingerprint adds, or "final".
Fingerprint(k, copy, extra) ==
    [project |-> ProjectOf[k[1]], family |-> k[2], copy |-> copy,
     extra |-> extra]

Story(k, w, f, settled) ==
    [key |-> k, print |-> f, events |-> w.events, live |-> w.live,
     settled |-> settled]

---------------------------------------------------------------------------
Init ==
    /\ windows = [k \in Key |-> None]
    /\ recent = <<>>
    /\ updates = [k \in Key |-> None]
    /\ flushing = {}
    /\ emitted = <<>>
    /\ finished = {}
    /\ count = 0

Remember(f) ==
    LET all == Append(recent, f) IN
    SubSeq(all,
           IF Len(all) > DedupeWindow THEN Len(all) - DedupeWindow + 1 ELSE 1,
           Len(all))

\* Faulty variant: nothing is compared.
Unseen(f) == TRUE

IsNew(f) == \A i \in 1..Len(recent) : recent[i] # f

\* accept_story_with_extra: a new story is remembered and returned, a repeat
\* is dropped.
Accept(k, w, f, settled) ==
    IF IsNew(f)
    THEN /\ recent' = Remember(f)
         /\ emitted' = Append(emitted, Story(k, w, f, settled))
    ELSE UNCHANGED <<recent, emitted>>

\* Faulty variant: the settled window stays in the map.
SettleOpen(ws, k) ==
    LET w == ws[k] IN
    /\ windows' = ws
    /\ IF Rejects(k, w) THEN UNCHANGED <<recent, emitted>>
       ELSE Accept(k, w, Fingerprint(k, Copy(k, w), "final"), TRUE)

\* The window of key k among ws is done: it goes, whether it is rejected,
\* dropped as a repeat, or becomes a story.
Settle(ws, k) ==
    LET w == ws[k] IN
    /\ windows' = [ws EXCEPT ![k] = None]
    /\ IF Rejects(k, w) THEN UNCHANGED <<recent, emitted>>
       ELSE Accept(k, w, Fingerprint(k, Copy(k, w), "final"), TRUE)

---------------------------------------------------------------------------
(* flush: the keys in order, one step each; the mutex is held throughout.  *)

FlushStart ==
    /\ flushing = {}
    /\ flushing' = {k \in Key : windows[k] # None}
    /\ UNCHANGED <<windows, recent, updates, emitted, finished, count>>

HasActivity(w) == w.live # {}

\* Faulty variant: an open turn waits for its end.
UpdateDueNever(k, w) == FALSE

UpdateDue(k, w) ==
    HasActivity(w) /\ IsOpenTurn(k, w) /\ Update(k, w) # None

\* Faulty variant: the turn's last update is not looked at.
AnyUpdate(k, f) == TRUE

IsChange(k, f) == updates[k] # f

\* The update of an open turn, unless it is the last one again or recent.
FlushUpdate(k, w) ==
    /\ UpdateDue(k, w)
    /\ LET f == Fingerprint(k, Update(k, w), w.note) IN
       IF IsChange(k, f)
       THEN /\ Accept(k, w, f, FALSE)
            /\ updates' = IF IsNew(f) THEN [updates EXCEPT ![k] = f]
                          ELSE updates
       ELSE UNCHANGED <<recent, updates, emitted>>
    /\ UNCHANGED windows

\* Startup context, an open turn without an update, a turn too weak yet.
Retained(k, w) ==
    \/ ~HasActivity(w)
    \/ /\ Retainable(k, w)
       /\ IsOpenTurn(k, w) \/ StoryScore(k, w) < MinScore

FlushRetain(k, w) ==
    /\ ~UpdateDue(k, w)
    /\ Retained(k, w)
    /\ UNCHANGED <<windows, recent, updates, emitted>>

FlushSettle(k, w) ==
    /\ ~UpdateDue(k, w)
    /\ ~Retained(k, w)
    /\ Settle(windows, k)
    /\ updates' = IF emitted' = emitted THEN updates
                  ELSE [updates EXCEPT ![k] = None]

FlushNext(k) ==
    /\ k \in flushing
    /\ \A l \in flushing : Rank[k] <= Rank[l]
    /\ \/ FlushUpdate(k, windows[k])
       \/ FlushRetain(k, windows[k])
       \/ FlushSettle(k, windows[k])
    /\ flushing' = flushing \ {k}
    /\ UNCHANGED <<finished, count>>

---------------------------------------------------------------------------
(* ingest.                                                                 *)

PrimaryKey(e) == <<e.turn, FamilyOf[e.kind]>>

TurnKey(e) == <<e.turn, "turn">>

\* is_never_publish_event
NeverPublishes(e) ==
    \/ e.kind \in {"start", "command"}
    \/ /\ e.kind = "message"
       /\ e.note # None => ~IsPublishable(e.note, ProjectOf[e.turn])

\* should_settle
Settles(e) ==
    e.kind \in {"complete", "turn_fail", "edit", "pass", "fail", "tool_fail"}

\* touch_turn_rollup, then touch_window_with_key: the event is seen by its
\* turn's window and by its own; startup context by its turn's only.
Gather(e) ==
    LET rolled == IF TurnKey(e) = PrimaryKey(e) THEN windows
                  ELSE Touch(windows, TurnKey(e), e)
    IN  IF e.startup /\ TurnKey(e) # PrimaryKey(e) THEN rolled
        ELSE Touch(rolled, PrimaryKey(e), e)

Gathers(e) == e.startup \/ NeverPublishes(e) \/ ~Settles(e)

Arrives ==
    /\ flushing = {}
    /\ count < MaxEvents
    /\ count' = count + 1
    /\ UNCHANGED <<updates, flushing>>

\* Startup context, events that never publish on their own, and those that do
\* not settle their window.
IngestGathering(e) ==
    /\ Arrives
    /\ Gathers(e)
    /\ windows' = Gather(e)
    /\ UNCHANGED <<recent, emitted, finished>>

IngestSettling(e) ==
    /\ Arrives
    /\ ~Gathers(e)
    /\ Settle(Gather(e), PrimaryKey(e))
    /\ finished' =
          IF e.kind = "complete"
          THEN finished \union
                  {<<ProjectOf[e.turn], Gather(e)[PrimaryKey(e)].note>>}
          ELSE finished

Next ==
    \/ FlushStart
    \/ \E k \in Key : FlushNext(k)
    \/ \E e \in Events : IngestGathering(e) \/ IngestSettling(e)

\* The server flushes every 15 seconds, and a flush runs to its end.
Spec ==
    /\ Init /\ [][Next]_vars
    /\ WF_vars(FlushStart)
    /\ WF_vars(\E k \in Key : FlushNext(k))

---------------------------------------------------------------------------
(* Properties.                                                             *)

Window == [events : SUBSET (1..MaxEvents), live : SUBSET (1..MaxEvents),
           kinds : SUBSET Kind, latest : Kind, note : Note \union {None},
           commands : Nat, score : 0..100]

Wording == [kinds : SUBSET Kind, note : Note \union Topic \union {Masked, None}]

Mark == [project : {ProjectOf[t] : t \in Turn} \union {None},
          family : Family, copy : Wording, extra : Note \union {None, "final"}]

\* Every variable keeps its type; the memory of recent stories is bounded; a
\* window's events all came, and only a turn's can be startup context alone.
TypeOK ==
    /\ windows \in [Key -> Window \union {None}]
    /\ recent \in Seq(Mark) /\ Len(recent) <= DedupeWindow
    /\ updates \in [Key -> Mark \union {None}]
    /\ flushing \subseteq {k \in Key : windows[k] # None}
    /\ count \in 0..MaxEvents
    /\ \A k \in Key : windows[k] # None =>
          /\ windows[k].live \subseteq windows[k].events
          /\ windows[k].events \subseteq 1..count
          /\ windows[k].live = {} => IsTurn(k)

\* "similar story was already published recently": of the stories within one
\* dedupe window no two have the same fingerprint, whichever mixture of
\* settling events and flushed updates of several turns they come from.
NoRecentRepeat ==
    \A i, j \in 1..Len(emitted) :
        i < j /\ j <= i + DedupeWindow => emitted[i].print # emitted[j].print

\* An event is told once: the windows that settled stories of one key were
\* made of, and the window open for it now, share no event.
NoEventTwice ==
    /\ \A i, j \in 1..Len(emitted) :
          /\ i < j
          /\ emitted[i].key = emitted[j].key
          /\ emitted[i].settled
          => emitted[i].events \intersect emitted[j].events = {}
    /\ \A i \in 1..Len(emitted) :
          emitted[i].settled /\ windows[emitted[i].key] # None =>
             emitted[i].events \intersect windows[emitted[i].key].events = {}

\* "startup context is waiting for future activity": every story rests on at
\* least one event that is not startup context.
ContextNeverAlone == \A i \in 1..Len(emitted) : emitted[i].live # {}

\* "active update did not meaningfully change": two successive updates of an
\* open turn differ, however many other stories came in between and pushed
\* the first out of the recent ones.
UpdatesDiffer ==
    \A i, j \in 1..Len(emitted) :
        /\ i < j
        /\ emitted[i].key = emitted[j].key
        /\ ~emitted[i].settled /\ ~emitted[j].settled
        /\ \A m \in (i + 1)..(j - 1) : emitted[m].key # emitted[i].key
        => emitted[i].print # emitted[j].print

Told(project, note) ==
    \E i \in 1..Len(emitted) :
        /\ ProjectOf[emitted[i].key[1]] = project
        /\ emitted[i].print.copy.note = Telling(note, project)

\* The outcome of a completed turn of a known project is told, unless the same
\* was: the deduplication never swallows what nobody has read.
OutcomesAreTold ==
    \A f \in finished :
        f[1] # None /\ f[2] # None /\ IsPublishable(f[2], f[1])
            => Told(f[1], f[2])

Shows(t, note) ==
    LET w == windows[<<t, "turn">>] IN
    w # None /\ w.note = note /\ w.live # {} /\ IsOpenTurn(<<t, "turn">>, w)

\* A meaningful update of an open turn is told without waiting for its end,
\* unless a later note replaces it first.
UpdatesAreTold ==
    \A t \in {u \in Turn : ProjectOf[u] # None} :
    \A n \in {m \in Note : IsActive(m, ProjectOf[t])} :
        Shows(t, n) ~> Told(ProjectOf[t], n) \/ ~Shows(t, n)
===========================================================================
