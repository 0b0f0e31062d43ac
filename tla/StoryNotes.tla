------------------------------ MODULE StoryNotes ------------------------------
(***************************************************************************)
(* What the story compiler reads in the summary an agent gives an event    *)
(* (agent_feed_story): whether it says anything at all, whether it may be  *)
(* published for a project, whether it is progress worth telling before a  *)
(* turn ends, and the sentence a reader is shown for it.                   *)
(*                                                                         *)
(* A note is such a summary, known by the classes of wording it holds: the *)
(* code's lists of phrases, one sign for each.                             *)
(***************************************************************************)
CONSTANTS
    Note,
    Says,             \* note -> the signs it holds
    Impact,           \* note -> the topic whose rewrite it calls for, or None
    Topic,            \* topics of story_impact_rewrite
    Owner,            \* topic -> the public project it is about, or None
    None

\* The classes of wording.  opening: "i'm ", "status ", "implemented and
\* pushed", ...; mechanics: "raw diff omitted", "worktree is clean", ...; path:
\* a home directory; answer: the JSON of a summary; done: begins with "done";
\* future: "i will ", ...; waiting: "waiting for the build", "polling at";
\* context: a word of the work; name: a public project's; long: 80 characters;
\* secret: "token", "password", "stdout", ...; bare: an outcome and no more.
Sign == {"opening", "mechanics", "path", "answer", "done", "future",
         "waiting", "chatter", "context", "name", "outcome", "verb", "long",
         "secret", "bare"}

ASSUME SignsAssumption == Says \in [Note -> SUBSET Sign]

ASSUME ImpactAssumption == Impact \in [Note -> Topic \union {None}]

\* The sentence shown for every summary that may hold a secret.
Masked == "display-safe summary recorded"

ASSUME WordsAssumption ==
    None \notin Note /\ None \notin Topic /\ Masked \notin Note \union Topic

Signs(n) == Says[n]

\* summary_has_work_context and summary_mentions_public_project
HasContext(n) == Signs(n) \intersect {"context", "name"} # {}

NamesProject(n) == "name" \in Signs(n)

\* project_has_feed_context: None is a project with a generic label, or none.
IsFeed(project) == project # None

\* active_summary_has_release_outcome
HasOutcome(n) == "outcome" \in Signs(n)

\* summary_is_operator_chatter
IsChatter(n) == "chatter" \in Signs(n)

\* active_progress_verb
HasProgressVerb(n) == "verb" \in Signs(n)

\* summary_is_redundant
IsRedundant(n) ==
    \/ Signs(n) \intersect {"opening", "mechanics", "path", "answer"} # {}
    \/ "done" \in Signs(n) /\ ~HasContext(n)

\* meaningful_summary
IsMeaningful(n) == ~IsRedundant(n) /\ HasContext(n) /\ ~IsChatter(n)

IsAbout(n, project) == HasContext(n) \/ NamesProject(n) \/ IsFeed(project)

\* active_update_summary_for_project
IsUpdate(n, project) ==
    /\ ~IsRedundant(n)
    /\ Signs(n) \intersect {"future", "waiting"} = {}
    /\ ~IsChatter(n)
    /\ IsAbout(n, project)
    /\ HasOutcome(n)

\* active_progress_summary_for_project
IsProgress(n, project) ==
    /\ ~IsRedundant(n)
    /\ "long" \in Signs(n)
    /\ "future" \notin Signs(n)
    /\ ~IsChatter(n)
    /\ IsAbout(n, project)
    /\ HasProgressVerb(n)

\* What compile_active_update looks for.
IsActive(n, project) == IsUpdate(n, project) \/ IsProgress(n, project)

\* publishable_agent_summary_for_project
IsPublishable(n, project) == IsMeaningful(n) \/ IsActive(n, project)

\* safe_sentence: the first sentence that says something, for a summary that
\* cannot hold a secret.
Sentence(n) == IF "secret" \in Signs(n) THEN Masked ELSE n

\* summary_headline: whether the summary makes a headline.
MakesHeadline(n, project) ==
    IsPublishable(n, project) /\ "bare" \notin Signs(n)

\* story_impact_rewrite: a summary on a topic of a public project, of that
\* project or naming it, is told in the topic's fixed words.
IsRewritten(n, project) ==
    /\ Impact[n] # None
    /\ Owner[Impact[n]] \in {None, project} \/ NamesProject(n)

\* What a turn's story says of the summary.
Telling(n, project) ==
    IF IsRewritten(n, project) THEN Impact[n] ELSE Sentence(n)
=============================================================================
