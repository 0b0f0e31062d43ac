---------------------------- MODULE SummaryText ----------------------------
(***************************************************************************)
(* What agent_feed_summarize does to the text of a story on its way to a   *)
(* capsule: redaction before an outside processor sees it, the guardrails  *)
(* on what comes back, the polishing of public copy, the quality gate, and *)
(* the comparison with recent headlines.                                   *)
(*                                                                         *)
(* A text is the set of phrases it holds: topics, state words, and one     *)
(* phrase for each class of wording the code looks for.  What lies beyond  *)
(* the length a field may have is its tail, which clamping cuts off.       *)
(***************************************************************************)
EXTENDS Naturals, FiniteSets, Sequences

CONSTANTS
    Topic,               \* words that say what a story is about
    State,               \* words state_label knows (failing, passing, ...)
    AllowProjectTags,    \* guardrails.allow_project_tags
    AllowProjectNames,   \* guardrails.allow_project_names
    AllowCommandText,    \* guardrails.allow_command_text
    AllowProcessorSkip,  \* publish.allow_processor_skip
    RecentWindow         \* publish.recent_window

ASSUME GuardrailsAssumption ==
    {AllowProjectTags, AllowProjectNames, AllowCommandText,
     AllowProcessorSkip} \subseteq BOOLEAN

ASSUME RecentAssumption == RecentWindow \in Nat \ {0}

\* Scores: image_warranted, local_story_fallback_allowed and
\* severe_score_bypass.
ImageScore == 75
StrongScore == 76
SevereScore == 90

\* PublishDecisionConfig: similarities from which two texts say the same.
MaxHeadlineSimilarity == 88
MaxDeckSimilarity == 82

PromptRecentLimit == 8

\* The classes of wording: rejected and masked by the guardrails (key,
\* contact), prompt text (leak), path-like words, of which "own" is the
\* story's project, shell commands, words of public impact (outcome), and
\* wording the quality gate or the polishing looks for; "settled" is the
\* wording nobody looks for.
Wording == {"key", "contact", "leak", "project", "own", "command",
            "placeholder", "outcome", "nochange", "mechanics", "files",
            "generic", "banned", "slang", "agent", "cut", "canned",
            "settled"}

Phrase == Topic \union State \union Wording

ASSUME PhrasesAssumption == IsFiniteSet(Phrase)

Text == [body : SUBSET Phrase, tail : SUBSET Phrase]

Says(phrases) == [body |-> phrases, tail |-> {}]

Blank == Says({})

Phrases(t) == t.body \union t.tail

Without(t, phrases) == [body |-> t.body \ phrases, tail |-> t.tail \ phrases]

\* clamp_chars: what is too long is cut off.
Clamp(t) == Says(t.body)

\* StoryFamily.
Family == {"Turn", "Plan", "Test", "Permission", "Command", "FileChange",
           "Mcp", "Incident", "IdleRecap"}

\* A score is a byte.
Score == 0..255

\* CompiledStory; a project's name is missing, public or private.
Story ==
    [headline : Text, deck : Text, lower : Text, chips : SUBSET Text,
     project : {"none", "public", "private"}, family : Family, score : Score]

\* ProcessorSummary.
Answer ==
    [headline : Text, deck : Text, lower : Text, chips : SUBSET Text,
     publish : {"yes", "no", "unsaid"}, unchanged : BOOLEAN]

\* FeedSummary.
Summary ==
    [headline : Text, deck : Text, lower : Text, chips : SUBSET Text,
     family : Family, score : Score, tagged : BOOLEAN, skip : BOOLEAN]

---------------------------------------------------------------------------
(* Guardrails.                                                             *)

\* is_allowed_project_tag_word: the project's own tag may be spoken of.
Hidden(own) == IF own THEN {"project"} ELSE {"project", "own"}

Masked(phrases, own) ==
    IF phrases \intersect Hidden(own) = {} THEN phrases
    ELSE (phrases \ Hidden(own)) \union {"placeholder"}

MaskProjects(t, own) ==
    IF AllowProjectNames THEN t
    ELSE [body |-> Masked(t.body, own /\ AllowProjectTags),
          tail |-> Masked(t.tail, own /\ AllowProjectTags)]

MaskCommands(t) == IF AllowCommandText THEN t ELSE Without(t, {"command"})

StripLeakage(t) == Without(t, {"leak"})

\* SummaryGuardrails::clean_text fails.
IsRejected(t) == "key" \in Phrases(t)

MaskContacts(t) == Without(t, {"contact"})

\* clean_and_clamp_with_project_tags, when it does not fail.
Clean(t, own) ==
    Clamp(MaskContacts(StripLeakage(MaskCommands(MaskProjects(t, own)))))

\* A project's name is public if it looks like a plain tag.
HasTag(story) == AllowProjectTags /\ story.project = "public"

HasTags(stories) == \E i \in DOMAIN stories : HasTag(stories[i])

Unplaced(t) == Without(t, {"placeholder"})

\* clean_chip, for all chips of a summary; names of agents are no chips.
CleanChips(chips, own) ==
    {Unplaced(Clean(c, own)) : c \in {d \in chips : "agent" \notin Phrases(d)}}
        \ {Blank}

TextsOf(s) == {s.headline, s.deck, s.lower} \union s.chips

\* The request for an outside processor, when nothing in it is rejected.
Redacted(stories) ==
    [i \in DOMAIN stories |->
        LET s == stories[i]
            own == HasTag(s)
        IN  [s EXCEPT !.project =
                          IF AllowProjectNames \/ own THEN @ ELSE "none",
                      !.headline = Clean(@, own),
                      !.deck = Clean(@, own),
                      !.lower = Clean(@, own),
                      !.chips = CleanChips(@, own)]]

\* clean_and_clamp fails on a field; names of agents are not looked at.
IsRefused(s) ==
    \E t \in TextsOf([s EXCEPT !.chips =
                          {c \in @ : "agent" \notin Phrases(c)}]) :
        IsRejected(t)

RequestIsRejected(stories, memo) ==
    \/ \E i \in DOMAIN stories : IsRefused(stories[i])
    \/ \E i \in DOMAIN memo : \E t \in {memo[i].headline, memo[i].deck} :
          IsRejected(t)

---------------------------------------------------------------------------
(* Quality.                                                                *)

HasOutcome(phrases) == "outcome" \in phrases

\* Commands, plans, polling, file counts, test counts or an agent's name
\* without an outcome the public would care about.
IsMechanics(headline, phrases) ==
    /\ ~HasOutcome(phrases)
    /\ \/ phrases \intersect {"mechanics", "files"} # {}
       \/ "agent" \in Phrases(headline)

IsNoChange(phrases) == "nochange" \in phrases

HasBanned(phrases) == phrases \intersect {"banned", "slang"} # {}

IsLowSignal(s) ==
    LET phrases == Phrases(s.headline) \union Phrases(s.deck) IN
    \/ HasBanned(phrases)
    \/ "generic" \in phrases
    \/ IsNoChange(phrases)
    \/ IsMechanics(s.headline, phrases)
    \/ /\ s.family = "FileChange"
       /\ "files" \in Phrases(s.headline) \intersect Phrases(s.deck)
       /\ phrases \intersect State = {}

StoryHasOutcome(story) ==
    LET phrases == Phrases(story.headline) \union Phrases(story.deck) IN
    /\ HasOutcome(phrases)
    /\ ~HasBanned(phrases)
    /\ ~IsMechanics(story.headline, phrases)

---------------------------------------------------------------------------
(* Public copy.                                                            *)

\* polish_public_copy: slang gets other words.
Reworded(t) ==
    IF "slang" \in Phrases(t)
    THEN [body |-> (t.body \ {"slang"}) \union {"settled"},
          tail |-> t.tail \ {"slang"}]
    ELSE t

\* headline_has_incomplete_tail or headline_starts_with_first_person.
IsIncomplete(t) == "cut" \in Phrases(t)

\* repair_incomplete_public_headline.
Repaired(headline, deck) ==
    IF IsIncomplete(headline) /\ deck # Blank /\ ~IsIncomplete(deck)
    THEN Clamp(deck) ELSE headline

\* impact_rewrite: topics of the project itself get a fixed headline and deck.
Canned == Says({"canned", "outcome"})

IsCanned(s) == "canned" \in Phrases(s.headline) \union Phrases(s.deck)

\* A field is never empty.
OrElse(t, default) == IF t = Blank THEN default ELSE t

\* polish_public_summary.
Polished(s) ==
    LET headline == IF IsCanned(s) THEN Canned ELSE s.headline
        deck == Reworded(IF IsCanned(s) THEN Canned ELSE s.deck)
        chips == {Reworded(c) : c \in {d \in s.chips :
                                          "agent" \notin Phrases(d)}} \ {Blank}
    IN  [s EXCEPT !.headline =
                      Repaired(Without(Reworded(headline), {"agent"}), deck),
                  !.deck = deck,
                  !.lower = OrElse(Without(Unplaced(Reworded(@)), {"agent"}),
                                   Says({"settled"})),
                  !.chips = IF chips = {} THEN {Says({"settled"})} ELSE chips]

\* fit_capsule_budget cleans the deck again, with the projects among the chips.
Fitted(s) ==
    LET own == AllowProjectTags /\ Says({"own"}) \in s.chips IN
    [s EXCEPT !.deck = OrElse(Unplaced(Clean(@, own)), Says({"settled"}))]

---------------------------------------------------------------------------
(* Likeness.                                                               *)

\* meaningful_terms: names of agents are stop words.
Terms(t) == Phrases(t) \ {"agent"}

Overlap(left, right) ==
    (Cardinality(left \intersect right) * 100)
        \div Cardinality(left \union right)

Similarity(left, right) ==
    IF Phrases(left) = {} \/ Phrases(right) = {} THEN 0
    ELSE IF Phrases(left) = Phrases(right) THEN 100
    ELSE IF Terms(left) = {} \/ Terms(right) = {} THEN 0
    ELSE Overlap(Terms(left), Terms(right))

\* story_update_signature of a headline and its deck.
Signature(s) ==
    LET phrases == Phrases(s.headline) \union Phrases(s.deck) IN
    [topic |-> phrases \intersect Topic,
     state |-> phrases \intersect State,
     impact |-> phrases \intersect {"outcome"}]

SameTopic(left, right) ==
    \/ left = right
    \/ /\ left # {} /\ right # {}
       /\ Overlap(left, right) >= 60

\* story_update_relation: how a candidate relates to an earlier story.
Relation(s, earlier) ==
    LET new == Signature(s)
        old == Signature(earlier)
    IN  IF new = old THEN "exact_repeat"
        ELSE IF ~SameTopic(new.topic, old.topic) THEN "new_topic"
        ELSE IF new.state # old.state THEN "state_changed"
        ELSE IF new.impact # old.impact THEN "impact_changed"
        ELSE "same_state"

Changed == {"state_changed", "impact_changed"}

FirstOf(s, n) == SubSeq(s, 1, IF Len(s) > n THEN n ELSE Len(s))

\* Where in the memory are the summaries a candidate is compared with.
SameFamily(s, memo, n) ==
    {i \in DOMAIN memo : i <= n /\ memo[i].family = s.family}

\* story_is_distinct_from_recent, against every recent summary.
IsDistinct(story, memo) ==
    \A i \in SameFamily(story, memo, PromptRecentLimit) :
        LET alike == Similarity(story.headline, memo[i].headline)
            relation == Relation(story, memo[i])
        IN  /\ alike = 100 => relation \in Changed
            /\ relation \in {"exact_repeat", "same_state"} => alike < 80

\* How alike are two summaries: their headlines, then their decks.
Likeness(s, r) ==
    <<Similarity(s.headline, r.headline), Similarity(s.deck, r.deck)>>

IsAbove(a, b) == a[1] > b[1] \/ (a[1] = b[1] /\ a[2] > b[2])

\* Where the recent summary most like the candidate is: the newest of those
\* that are alike at all, or none.
Nearest(s, memo) ==
    LET near == SameFamily(s, memo, RecentWindow) IN
    {i \in near :
        /\ IsAbove(Likeness(s, memo[i]), <<0, 0>>)
        /\ \A j \in near :
              /\ ~IsAbove(Likeness(s, memo[j]), Likeness(s, memo[i]))
              /\ Likeness(s, memo[j]) = Likeness(s, memo[i]) => i <= j}
===========================================================================
