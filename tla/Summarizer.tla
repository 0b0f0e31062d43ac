----------------------------- MODULE Summarizer -----------------------------
(***************************************************************************)
(* agent_feed_summarize at work: the publishers of several feeds, each in  *)
(* a process of its own, turn their pending stories into summaries.  A     *)
(* request is answered from the stories themselves or by a child process,  *)
(* codex or another command, that the runner polls until it exits or 45    *)
(* seconds have passed.  The codex-memory processor keeps the session to   *)
(* resume in a file that the feeds share; it is read before the child runs *)
(* and written, whole, after it.                                           *)
(***************************************************************************)
EXTENDS SummaryText, SequencesExt

CONSTANTS
    Feed,
    StoryKinds,     \* the stories that may settle
    Outputs,        \* what a child may print
    Configs,        \* the processors the feeds may be configured with
    Mode,           \* "PerStory" or "FeedRollup"
    MaxRollup,      \* budget.max_feed_rollup_stories
    ImageEnabled,   \* image.enabled, and the decision is not "never"
    PipeCapacity,   \* what a pipe holds, in units of output
    MaxOutput,      \* PROCESSOR_MAX_OUTPUT_BYTES, in the same units
    Torn,           \* a store that does not parse
    None,
    MaxStories,     \* bound: stories that settle, over all feeds
    MaxFailures,    \* bound: starts, writes and images that fail
    MaxRestarts     \* bound: publishers that end and start again

ASSUME ModeAssumption == Mode \in {"PerStory", "FeedRollup"}

Processor == {"deterministic", "codex-memory", "process"}

\* What a child prints, and how much.
Output == [text : Answer, form : {"json", "message", "prose"}, size : Nat]

ASSUME InputsAssumption ==
    /\ Configs \subseteq [Feed -> Processor]
    /\ StoryKinds \subseteq Story
    /\ Outputs \subseteq Output
    /\ None \notin Outputs

ASSUME SizesAssumption ==
    /\ MaxRollup \in Nat \ {0}
    /\ PipeCapacity \in Nat \ {0}
    /\ MaxOutput \in Nat \ {0}
    /\ ImageEnabled \in BOOLEAN

VARIABLES
    processor,  \* feed -> its configured processor
    stories,    \* feed -> the stories sent to it, in order
    pending,    \* feed -> numbers of the stories not summarised yet
    pc,         \* feed -> where its call is
    work,       \* feed -> the requests left of the call, story numbers each
    memo,       \* feed -> recent summaries as the call sees them, newest first
    made,       \* feed -> the summaries of the call so far
    recent,     \* feed -> recent summaries, newest first
    file,       \* the store of the codex-memory processors
    held,       \* feed -> the store as it read it
    child,      \* feed -> the child process that runs for it, or None
    answer,     \* feed -> the answer to the request, or None
    out,        \* history variable: feed -> summaries since it started
    fate,       \* history variable: feed -> what became of each story
    started,    \* history variable: session -> the feed that began it
    count       \* failures and restarts so far

call == <<pc, work, memo, made>>
store == <<file, held>>
history == <<out, fate, started>>
vars == <<processor, stories, pending, call, recent, store, child, answer,
          history, count>>

---------------------------------------------------------------------------
(* From stories to a summary.                                              *)

\* The stories of a request.
Requested(f) == [i \in DOMAIN Head(work[f]) |-> stories[f][Head(work[f])[i]]]

UsesMemory(f) == processor[f] = "codex-memory"

\* representative_story: of the stories with the highest score the first.
Representative(ss) ==
    {i \in DOMAIN ss :
        /\ StoryHasOutcome(ss[i])
        /\ \A j \in DOMAIN ss :
              StoryHasOutcome(ss[j]) =>
                 ss[j].score < ss[i].score \/ (ss[j].score = ss[i].score /\ i <= j)}

Told(headline, deck, lower, chips) ==
    [headline |-> headline, deck |-> deck, lower |-> lower, chips |-> chips,
     publish |-> "unsaid", unchanged |-> FALSE]

\* strict_lower_third.
LowerThird(s) ==
    Says({"agent", "settled"} \union
             IF s.project = "public" THEN {"own"} ELSE {})

\* deterministic_output: a story's own words, or counts.
Deterministic(ss) ==
    LET chosen == IF Len(ss) = 1 THEN {1} ELSE Representative(ss) IN
    IF chosen # {}
    THEN LET s == ss[CHOOSE i \in chosen : TRUE] IN
         Told(s.headline, s.deck, LowerThird(s), s.chips)
    ELSE Told(Says({"agent", "settled", "generic"}), Says({"settled", "generic"}),
              Says({"agent", "settled"}), {Says({"settled"})})

FallbackHeadline(ss) ==
    Says({"agent", "settled"} \union IF Len(ss) = 1 THEN {} ELSE {"generic"})

FallbackDeck(ss) ==
    Says({"settled"} \union IF Len(ss) = 1 THEN {} ELSE {"generic"})

\* local_story_fallback_allowed: the processor found nothing new in a story
\* that has something to say.
MayFallBack(ss, a, recents) ==
    /\ a.publish = "no"
    /\ Len(ss) = 1
    /\ ss[1].score >= StrongScore
    /\ \/ a.unchanged
       \/ IsNoChange(Phrases(a.headline) \union Phrases(a.deck))
    /\ StoryHasOutcome(ss[1])
    /\ IsDistinct(ss[1], recents)

TopScore(ss) ==
    CHOOSE n \in {ss[i].score : i \in DOMAIN ss} :
        \A i \in DOMAIN ss : ss[i].score <= n

\* Faulty variant: the headline is not cleaned.
HeadlineAsSaid(ss, a) == OrElse(Clamp(a.headline), FallbackHeadline(ss))

Headline(ss, a) ==
    OrElse(Unplaced(Clean(a.headline, HasTags(ss))), FallbackHeadline(ss))

\* build_summary, when the guardrails reject nothing.
Build(ss, a) ==
    LET own == HasTags(ss)
        score == TopScore(ss)
    IN  Fitted(Polished(
          [headline |-> Headline(ss, a),
           deck |-> OrElse(Unplaced(Clean(a.deck, own)), FallbackDeck(ss)),
           lower |-> [Clean(a.lower, own) EXCEPT !.body =
                          @ \union IF own THEN {"own"} ELSE {}],
           chips |-> (IF own THEN {Says({"own"})} ELSE {})
                         \union CleanChips(a.chips, own),
           family |-> IF Len(ss) > 1 THEN "IdleRecap" ELSE ss[1].family,
           score |-> score, tagged |-> own,
           skip |-> a.publish = "no" /\ AllowProcessorSkip
                        /\ score < SevereScore]))

\* How a candidate compares with the recent summary nearest to it.
Comparison(s, recents) ==
    LET near == Nearest(s, recents) IN
    IF near = {} THEN [relation |-> "new_topic", headline |-> 0, deck |-> 0]
    ELSE LET r == recents[CHOOSE i \in near : TRUE]
         IN  [relation |-> Relation(s, r),
              headline |-> Similarity(s.headline, r.headline),
              deck |-> Similarity(s.deck, r.deck)]

\* Faulty variant: a severe summary is no duplicate.
IsDuplicateUnlessSevere(s, c) ==
    /\ s.score < SevereScore
    /\ c.headline = 100 /\ c.deck = 100

IsDuplicate(s, c) ==
    \/ c.headline = 100 /\ c.deck = 100
    \/ c.headline = 100 /\ c.relation \notin Changed
    \/ /\ c.relation \in {"exact_repeat", "same_state"}
       /\ c.headline >= MaxHeadlineSimilarity
       /\ c.deck >= MaxDeckSimilarity

IsNews(c) ==
    \/ c.relation \in Changed \union {"new_topic"}
    \/ c.headline < MaxHeadlineSimilarity
    \/ c.deck < MaxDeckSimilarity

\* Faulty variant: the memory has the last word.
NeverOverruled(f, s, c) == FALSE

\* "codex-memory skip overridden".
Overruled(f, s, c) == UsesMemory(f) /\ s.score >= StrongScore /\ IsNews(c)

\* apply_publish_decision.
Decision(f, s, recents) ==
    LET c == Comparison(s, recents) IN
    IF IsLowSignal(s) THEN "dull"
    ELSE IF IsDuplicate(s, c) THEN "duplicate"
    ELSE IF s.skip /\ ~Overruled(f, s, c) THEN "declined"
    ELSE "published"

\* The requests of a call: story by story, or in chunks.
Requests(ids) ==
    LET size == IF Mode = "PerStory" THEN 1 ELSE MaxRollup
        Chunk(k) == SubSeq(ids, (k - 1) * size + 1,
                           IF k * size > Len(ids) THEN Len(ids) ELSE k * size)
    IN  [k \in 1..((Len(ids) + size - 1) \div size) |-> Chunk(k)]

Fresh == [as |-> "pending", alone |-> FALSE]

Init ==
    /\ processor \in Configs
    /\ stories = [f \in Feed |-> <<>>]
    /\ pending = [f \in Feed |-> <<>>]
    /\ pc = [f \in Feed |-> "idle"]
    /\ work = [f \in Feed |-> <<>>]
    /\ memo = [f \in Feed |-> <<>>]
    /\ made = [f \in Feed |-> <<>>]
    /\ recent = [f \in Feed |-> <<>>]
    /\ file = [f \in Feed |-> 0]
    /\ held = [f \in Feed |-> None]
    /\ child = [f \in Feed |-> None]
    /\ answer = [f \in Feed |-> None]
    /\ out = [f \in Feed |-> <<>>]
    /\ fate = [f \in Feed |-> <<>>]
    /\ started = <<>>
    /\ count = [failures |-> 0, restarts |-> 0]

\* What becomes of the stories with the given numbers.
Become(fates, ids, what) ==
    [id \in DOMAIN fates |-> IF id \in ToSet(ids) THEN what ELSE fates[id]]

Goto(f, place) == pc' = [pc EXCEPT ![f] = place]

Fail == /\ count.failures < MaxFailures
        /\ count' = [count EXCEPT !.failures = @ + 1]

\* How many stories have settled, over all feeds.
Settled == FoldFunction(LAMBDA ss, n : Len(ss) + n, 0, stories)

\* A story settles and reaches the publisher of feed f.
Settle(f, s) ==
    /\ Settled < MaxStories
    /\ stories' = [stories EXCEPT ![f] = Append(@, s)]
    /\ pending' = [pending EXCEPT ![f] = Append(@, Len(stories[f]) + 1)]
    /\ fate' = [fate EXCEPT ![f] = Append(@, Fresh)]
    /\ UNCHANGED <<processor, call, recent, store, child, answer, out, started,
                   count>>

---------------------------------------------------------------------------
(* summarize_feed_inner.                                                   *)

Begin(f) ==
    /\ pc[f] = "idle" /\ pending[f] # <<>>
    /\ work' = [work EXCEPT ![f] = Requests(pending[f])]
    /\ memo' = [memo EXCEPT ![f] = FirstOf(recent[f], RecentWindow)]
    /\ made' = [made EXCEPT ![f] = <<>>]
    /\ Goto(f, "ready")
    /\ UNCHANGED <<processor, stories, pending, recent, store, child, answer,
                   history, count>>

\* Faulty variant: a rejected chunk is given up whole.
RejectChunk(f) ==
    LET ids == Head(work[f]) IN
    /\ work' = [work EXCEPT ![f] = Tail(@)]
    /\ fate' = [fate EXCEPT ![f] = Become(@, ids,
                   [as |-> "rejected", alone |-> Len(ids) = 1])]
    /\ Goto(f, "ready")

\* The guardrails reject the request or its answer: a single story is given
\* up, the stories of a chunk are tried one by one.
Reject(f) ==
    LET ids == Head(work[f]) IN
    /\ work' = [work EXCEPT ![f] =
                    (IF Len(ids) > 1 THEN [i \in DOMAIN ids |-> <<ids[i]>>]
                                     ELSE <<>>) \o Tail(@)]
    /\ fate' = [fate EXCEPT ![f] =
                    IF Len(ids) > 1 THEN @
                    ELSE Become(@, ids, [as |-> "rejected", alone |-> TRUE])]
    /\ Goto(f, "ready")

\* The call returns an error: its stories stay pending, as they were.
Abort(f) ==
    /\ Goto(f, "idle")
    /\ answer' = [answer EXCEPT ![f] = None]
    /\ work' = [work EXCEPT ![f] = <<>>]
    /\ memo' = [memo EXCEPT ![f] = <<>>]
    /\ made' = [made EXCEPT ![f] = <<>>]
    /\ fate' = [fate EXCEPT ![f] = Become(@, pending[f], Fresh)]

\* The processor has no answer: codex-memory falls back to the stories' own
\* words, with any other the call fails.
Unavailable(f) ==
    IF UsesMemory(f)
    THEN /\ answer' = [answer EXCEPT ![f] = Deterministic(Requested(f))]
         /\ Goto(f, "judging")
         /\ UNCHANGED <<work, memo, made, fate>>
    ELSE Abort(f)

\* Faulty variant: some record of the store is resumed.
SessionOfAny(f) ==
    CHOOSE n \in {file[g] : g \in Feed} :
        n # 0 \/ \A g \in Feed : file[g] = 0

\* The session the store has for the feed, 0 if none.
SessionOf(f) == file[f]

NewChild(f, session) ==
    [asked |-> Redacted(Requested(f)), session |-> session,
     says |-> None, size |-> 0, pipe |-> 0, status |-> "running"]

\* summarize_request_inner up to the answer of a processor.
Ask(f) ==
    /\ pc[f] = "ready" /\ work[f] # <<>>
    /\ IF processor[f] = "deterministic"
       THEN /\ answer' = [answer EXCEPT ![f] = Deterministic(Requested(f))]
            /\ Goto(f, "judging")
            /\ UNCHANGED <<work, memo, made, child, held, fate>>
       ELSE IF RequestIsRejected(Requested(f), memo[f])
       THEN Reject(f) /\ UNCHANGED <<memo, made, child, held, answer>>
       ELSE IF UsesMemory(f) /\ file = Torn
       THEN Unavailable(f) /\ UNCHANGED <<child, held>>
       ELSE /\ child' = [child EXCEPT ![f] =
                            NewChild(f, IF UsesMemory(f) THEN SessionOf(f)
                                                         ELSE 0)]
            /\ held' = [held EXCEPT ![f] = IF UsesMemory(f) THEN file ELSE None]
            /\ Goto(f, "running")
            /\ UNCHANGED <<work, memo, made, answer, fate>>
    /\ UNCHANGED <<processor, stories, pending, recent, file, out, started,
                   count>>

---------------------------------------------------------------------------
(* The child, which the model does not know, and run_process_with_options. *)

\* A codex child that resumes nothing begins a session.
Begins(f) == UsesMemory(f) /\ child[f].session = 0

\* What is printed goes into the pipe, which nobody empties while the child
\* runs.
HasPrinted(f, o) ==
    [child[f] EXCEPT !.says = o, !.size = o.size,
                     !.pipe = IF o.size < PipeCapacity THEN o.size
                                                       ELSE PipeCapacity,
                     !.session = IF Begins(f) THEN Len(started) + 1 ELSE @]

ChildPrints(f, o) ==
    /\ child[f] # None /\ child[f].says = None
    /\ child[f].status = "running"
    /\ child' = [child EXCEPT ![f] = HasPrinted(f, o)]
    /\ started' = IF Begins(f) THEN Append(started, f) ELSE started
    /\ UNCHANGED <<processor, stories, pending, call, recent, store, answer,
                   out, fate, count>>

\* The child exits once all of its output is in the pipe.
ChildExits(f, status) ==
    /\ child[f] # None /\ child[f].says # None
    /\ child[f].status = "running"
    /\ child[f].pipe = child[f].size
    /\ child' = [child EXCEPT ![f].status = status]
    /\ UNCHANGED <<processor, stories, pending, call, recent, store, answer,
                   history, count>>

\* Faulty variant: the deadline is looked at when the child has exited.
KillExited(f) ==
    /\ child[f] # None /\ child[f].status # "running"
    /\ pc[f] = "running"
    /\ child' = [child EXCEPT ![f] = None]
    /\ Unavailable(f)
    /\ UNCHANGED <<processor, stories, pending, recent, store, out, started,
                   count>>

\* PROCESSOR_TIMEOUT has passed: sooner or later it has, at any speed of the
\* child, which may even have exited after the poll just before.
Kill(f) ==
    /\ pc[f] = "running"
    /\ child' = [child EXCEPT ![f] = None]
    /\ Unavailable(f)
    /\ UNCHANGED <<processor, stories, pending, recent, store, out, started,
                   count>>

\* parse_processor_output: prose instead of JSON becomes the deck of a
\* headline that says nothing.
Parsed(o) ==
    IF o.form \in {"json", "message"} THEN o.text
    ELSE Told(Says({"generic"}), Clamp(o.text.deck), Says({"settled"}),
              {Says({"settled"})})

\* The poll finds that the child has exited.
Collect(f) ==
    /\ pc[f] = "running" /\ child[f].status # "running"
    /\ IF child[f].status = "failed" \/ child[f].size > MaxOutput
       THEN /\ child' = [child EXCEPT ![f] = None]
            /\ Unavailable(f)
       ELSE /\ answer' = [answer EXCEPT ![f] = Parsed(child[f].says)]
            /\ IF UsesMemory(f)
               THEN Goto(f, "saving") /\ UNCHANGED child
               ELSE Goto(f, "judging") /\ child' = [child EXCEPT ![f] = None]
            /\ UNCHANGED <<work, memo, made, fate>>
    /\ UNCHANGED <<processor, stories, pending, recent, store, out, started,
                   count>>

---------------------------------------------------------------------------
(* The store.  fs::write empties the file and then writes it.              *)

Truncate(f) ==
    /\ pc[f] = "saving"
    /\ file' = Torn
    /\ Goto(f, "writing")
    /\ UNCHANGED <<processor, stories, pending, work, memo, made, recent, held,
                   child, answer, history, count>>

\* The output names the session unless it is nothing but the summary.
SessionAfter(f) ==
    IF child[f].says.form = "json" THEN held[f][f] ELSE child[f].session

Write(f) ==
    /\ pc[f] = "writing"
    /\ file' = [held[f] EXCEPT ![f] = SessionAfter(f)]
    /\ held' = [held EXCEPT ![f] = None]
    /\ child' = [child EXCEPT ![f] = None]
    /\ Goto(f, "judging")
    /\ UNCHANGED <<processor, stories, pending, work, memo, made, recent,
                   answer, history, count>>

\* The store cannot be written; the answer is dropped with it.
WriteFails(f) ==
    /\ pc[f] = "writing"
    /\ Fail
    /\ held' = [held EXCEPT ![f] = None]
    /\ child' = [child EXCEPT ![f] = None]
    /\ Unavailable(f)
    /\ UNCHANGED <<processor, stories, pending, recent, file, out, started>>

---------------------------------------------------------------------------
(* summarize_request_inner from the answer on, and push_publishable_summary. *)

\* The answer that is judged.
Considered(f) ==
    IF UsesMemory(f) /\ MayFallBack(Requested(f), answer[f], memo[f])
    THEN Deterministic(Requested(f)) ELSE answer[f]

Candidate(f) == Build(Requested(f), Considered(f))

WantsImage(s) ==
    /\ ImageEnabled
    /\ s.score >= ImageScore
    /\ s.family \in {"Turn", "Test", "Permission", "FileChange", "Incident",
                     "IdleRecap"}

Judge(f) ==
    /\ pc[f] = "judging"
    /\ IF IsRefused(Considered(f))
       THEN Reject(f) /\ UNCHANGED <<memo, made>>
       ELSE LET ids == Head(work[f])
                s == Candidate(f)
                d == Decision(f, s, memo[f])
            IN  /\ fate' = [fate EXCEPT ![f] = Become(@, ids,
                       [as |-> d, alone |-> Len(ids) = 1])]
                /\ IF d = "published"
                   THEN /\ memo' = [memo EXCEPT ![f] =
                                        FirstOf(<<s>> \o @, RecentWindow)]
                        /\ made' = [made EXCEPT ![f] = Append(@, s)]
                   ELSE UNCHANGED <<memo, made>>
                /\ work' = [work EXCEPT ![f] = Tail(@)]
                /\ Goto(f, "ready")
    /\ answer' = [answer EXCEPT ![f] = None]
    /\ UNCHANGED <<processor, stories, pending, recent, store, child, out,
                   started, count>>

\* attach_optional_image fails, or the image is not allowed: so does the call.
ImageFails(f) ==
    /\ pc[f] = "judging"
    /\ ~IsRefused(Considered(f))
    /\ WantsImage(Candidate(f))
    /\ Fail
    /\ Abort(f)
    /\ UNCHANGED <<processor, stories, pending, recent, store, child, out,
                   started>>

\* How many stories the call was about; later ones wait behind them.
Taken(f) ==
    Cardinality({i \in DOMAIN pending[f] : fate[f][pending[f][i]].as # "pending"})

\* The call returns its summaries.
Finish(f) ==
    /\ pc[f] = "ready" /\ work[f] = <<>>
    /\ recent' = [recent EXCEPT ![f] = memo[f]]
    /\ out' = [out EXCEPT ![f] = @ \o made[f]]
    /\ pending' = [pending EXCEPT ![f] = SubSeq(@, Taken(f) + 1, Len(@))]
    /\ memo' = [memo EXCEPT ![f] = <<>>]
    /\ made' = [made EXCEPT ![f] = <<>>]
    /\ Goto(f, "idle")
    /\ UNCHANGED <<processor, stories, work, store, child, answer, fate,
                   started, count>>

\* The publisher's process ends, wherever it is, and starts again.  A
\* child it leaves behind answers nobody.
Restart(f) ==
    /\ count.restarts < MaxRestarts
    /\ count' = [count EXCEPT !.restarts = @ + 1]
    /\ pending' = [pending EXCEPT ![f] = <<>>]
    /\ work' = [work EXCEPT ![f] = <<>>]
    /\ memo' = [memo EXCEPT ![f] = <<>>]
    /\ made' = [made EXCEPT ![f] = <<>>]
    /\ recent' = [recent EXCEPT ![f] = <<>>]
    /\ held' = [held EXCEPT ![f] = None]
    /\ child' = [child EXCEPT ![f] = None]
    /\ answer' = [answer EXCEPT ![f] = None]
    /\ out' = [out EXCEPT ![f] = <<>>]
    /\ fate' = [fate EXCEPT ![f] = Become(@, pending[f],
                   [Fresh EXCEPT !.as = "lost"])]
    /\ Goto(f, "idle")
    /\ UNCHANGED <<processor, stories, file, started>>

\* The runner's wait for the child, and what the thread does between waits.
Await(f) == Collect(f) \/ Kill(f)

Work(f) ==
    \/ Begin(f) \/ Ask(f) \/ Truncate(f) \/ Write(f) \/ Judge(f) \/ Finish(f)

Next ==
    \E f \in Feed :
        \/ Await(f) \/ Work(f) \/ WriteFails(f) \/ ImageFails(f)
        \/ Restart(f)
        \/ \E s \in StoryKinds : Settle(f, s)
        \/ \E o \in Outputs : ChildPrints(f, o)
        \/ \E status \in {"ok", "failed"} : ChildExits(f, status)

\* ENABLED <<Work(f)>>_vars.
HasWork(f) ==
    \/ pc[f] = "idle" /\ pending[f] # <<>>
    \/ pc[f] \in {"ready", "saving", "writing", "judging"}

\* The publisher's thread runs, and with it the clock: weak fairness of Await
\* and of Work, the latter written out.  Nothing is asked of the child.
Fairness ==
    \A f \in Feed :
        /\ WF_vars(Await(f))
        /\ []<>~HasWork(f) \/ []<><<Work(f)>>_vars

Spec == Init /\ [][Next]_vars /\ Fairness

---------------------------------------------------------------------------
(* Properties.                                                             *)

Places == {"idle", "ready", "running", "saving", "writing", "judging"}

Fate ==
    [as : {"pending", "published", "dull", "duplicate", "declined", "rejected",
           "lost"},
     alone : BOOLEAN]

Child ==
    [asked : Seq(Story), session : Nat, says : Outputs \union {None},
     size : Nat, pipe : Nat, status : {"running", "ok", "failed"}]

VariablesTyped ==
    /\ processor \in [Feed -> Processor]
    /\ stories \in [Feed -> Seq(Story)]
    /\ pc \in [Feed -> Places]
    /\ pending \in [Feed -> Seq(Nat)]
    /\ work \in [Feed -> Seq(Seq(Nat))]
    /\ memo \in [Feed -> Seq(Summary)] /\ made \in [Feed -> Seq(Summary)]
    /\ recent \in [Feed -> Seq(Summary)] /\ out \in [Feed -> Seq(Summary)]
    /\ file = Torn \/ file \in [Feed -> Nat]
    /\ DOMAIN held = Feed /\ DOMAIN child = Feed
    /\ answer \in [Feed -> Answer \union {None}]
    /\ fate \in [Feed -> Seq(Fate)]
    /\ started \in Seq(Feed)
    /\ count \in [failures : Nat, restarts : Nat]

\* A call that waits for a child or stores its session has a child, and one
\* that stores or judges has an answer.
Attended ==
    \A f \in Feed :
        /\ pc[f] \in {"running", "saving", "writing"} \/ child[f] # None =>
              child[f] \in Child
        /\ pc[f] \in {"saving", "writing", "judging"} => answer[f] \in Answer

\* Every variable keeps its type, and every call what it works on.
TypeOK == VariablesTyped /\ Attended

\* Phrases that must not leave the machine.
Private(own) ==
    {"key", "contact", "leak"}
        \union (IF AllowProjectNames THEN {} ELSE {"project"})
        \union (IF AllowProjectNames \/ own THEN {} ELSE {"own"})
        \union (IF AllowCommandText THEN {} ELSE {"command"})

Leaks(s, own) ==
    \E t \in TextsOf(s) : Phrases(t) \intersect Private(own) # {}

\* "Use only the redacted story facts": no field of a summary, nor of a
\* request to a child, holds what the guardrails keep private, whatever the
\* stories and the children say and however the copy was repaired.
NothingPrivateLeaves ==
    \A f \in Feed :
        /\ \A i \in DOMAIN out[f] : ~Leaks(out[f][i], out[f][i].tagged)
        /\ child[f] # None =>
              \A i \in DOMAIN child[f].asked :
                 ~Leaks(child[f].asked[i], HasTag(child[f].asked[i]))

\* One story the guardrails reject does not take the others of its chunk with
\* it: a story is given up only when it was judged on its own.
RejectedAlone ==
    \A f \in Feed : \A id \in DOMAIN fate[f] :
        fate[f][id].as = "rejected" => fate[f][id].alone

\* The memory cannot silence a strong story: if the private session declines,
\* dies or hangs, the story is published unless it repeats a recent one or
\* fails the quality gate.
MemoryNeverSilences ==
    \A f \in Feed : \A id \in DOMAIN fate[f] :
        fate[f][id].as = "declined" /\ stories[f][id].score >= StrongScore =>
            ~UsesMemory(f)

\* Summaries at most RecentWindow apart differ, unless the headline has nothing
\* in it to compare.
AllDifferent(ss) ==
    \A i, j \in DOMAIN ss :
        i < j /\ j <= i + RecentWindow /\ Phrases(ss[j].headline) # {} =>
            \/ ss[i].family # ss[j].family
            \/ ss[i].headline # ss[j].headline
            \/ ss[i].deck # ss[j].deck

\* No two summaries within one memory window say the same, whatever calls
\* fail in between.
NoSummaryTwice == \A f \in Feed : AllDifferent(out[f])

\* The session a child resumes, and the one on record for a feed, was begun
\* for that feed, however the feeds' reads and writes of the file interleave.
SessionIsOwn ==
    \A f \in Feed :
        /\ child[f] # None /\ child[f].session # 0 =>
              started[child[f].session] = f
        /\ file # Torn /\ file[f] # 0 => started[file[f]] = f

\* Every call ends, although a child may hang, or block on a full pipe.
EveryCallEnds == \A f \in Feed : pc[f] # "idle" ~> pc[f] = "idle"
===========================================================================
