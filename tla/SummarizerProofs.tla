-------------------------- MODULE SummarizerProofs --------------------------
(***************************************************************************)
(* Proofs about Summarizer, for every number of feeds, stories and         *)
(* restarts, every story, every output of a child and every setting of the *)
(* guardrails.  First what the operators of Summarizer and SummaryText     *)
(* return: texts and summaries hold nothing private, the decision about a  *)
(* candidate is one of the memory's bounds.                                *)
(***************************************************************************)
EXTENDS Summarizer, OrderLemmas

---------------------------------------------------------------------------
(* Texts: what is private never survives cleaning.                         *)

\* Nothing in the text is private.
Safe(t, own) == t \in Text /\ \A p \in Phrases(t) : p \notin Private(own)

LEMMA SaysText ==
    ASSUME NEW S, S \subseteq Phrase
    PROVE  Says(S) \in Text /\ Phrases(Says(S)) = S
BY DEF Says, Text, Phrases

LEMMA WordingIsPhrase == Wording \subseteq Phrase
BY DEF Phrase

\* clean_and_clamp_with_project_tags: whatever the text, if it does not fail.
LEMMA CleanSafe ==
    ASSUME NEW t \in Text, NEW own \in BOOLEAN, own => AllowProjectTags
    PROVE  /\ Clean(t, own) \in Text
           /\ Phrases(Clean(t, own)) \subseteq Phrases(t) \union {"placeholder"}
           /\ ~IsRejected(t) => Safe(Clean(t, own), own)
<1> DEFINE mine == own /\ AllowProjectTags
           u == MaskProjects(t, own)
           v == MaskCommands(u)
           w == MaskContacts(StripLeakage(v))
<1>1. \A S : S \subseteq Phrase => Masked(S, mine) \subseteq Phrase
  BY DEF Masked, Phrase, Wording
<1>2. u \in Text
  BY <1>1 DEF MaskProjects, Text
<1>3. v \in Text
  BY <1>2 DEF MaskCommands, Without, Text
<1>4. w \in Text
  BY <1>3 DEF MaskContacts, StripLeakage, Without, Text
<1>5. Clean(t, own) = Says(w.body)
  BY DEF Clean, Clamp
<1>6. w.body \subseteq Phrase
  BY <1>4 DEF Text
<1>7. Clean(t, own) \in Text /\ Phrases(Clean(t, own)) = w.body
  BY <1>5, <1>6, SaysText
<1>8. ASSUME NEW p \in w.body
      PROVE  /\ p \in Phrases(t) \union {"placeholder"}
             /\ ~IsRejected(t) => p \notin Private(own)
  <2>1. w.body = v.body \ {"leak", "contact"}
    BY <1>3 DEF MaskContacts, StripLeakage, Without
  <2>2. p \in v.body /\ p # "leak" /\ p # "contact"
    BY <2>1, <1>8
  <2>3. p \in u.body /\ (p = "command" => AllowCommandText)
    BY <2>2 DEF MaskCommands, Without
  <2>4. AllowProjectNames => p \in t.body
    BY <2>3 DEF MaskProjects
  <2>5. ~AllowProjectNames => p \in Masked(t.body, mine)
    BY <2>3 DEF MaskProjects
  <2>6. p = "placeholder" \/ p \in t.body
    BY <2>4, <2>5 DEF Masked
  <2>7. p \in Phrases(t) \union {"placeholder"}
    BY <2>6 DEF Phrases
  <2>10. ~IsRejected(t) => p # "key"
    BY <2>7 DEF IsRejected
  <2>8. ~AllowProjectNames => p # "project" /\ (p = "own" => own)
    BY <2>5, <2>6 DEF Masked, Hidden
  <2>9. QED
    BY <2>2, <2>3, <2>7, <2>8, <2>10 DEF Private
<1>9. QED
  BY <1>7, <1>8 DEF Safe

\* Taking phrases away, or clamping, makes nothing private.
LEMMA WithoutSafe ==
    ASSUME NEW t, NEW own, NEW S, Safe(t, own)
    PROVE  Safe(Without(t, S), own)
BY DEF Safe, Without, Text, Phrases

LEMMA ClampSafe ==
    ASSUME NEW t, NEW own, Safe(t, own)
    PROVE  Safe(Clamp(t), own)
BY DEF Safe, Clamp, Says, Text, Phrases

\* The wording the code itself puts in is not private.
LEMMA WordsSafe ==
    ASSUME NEW S, NEW own, S \subseteq Phrase,
           \A p \in S : p \notin Private(own)
    PROVE  Safe(Says(S), own)
BY SaysText DEF Safe

LEMMA SaysSafe ==
    ASSUME NEW S, NEW own \in BOOLEAN,
           S \subseteq {"agent", "settled", "generic", "canned", "outcome"}
    PROVE  Safe(Says(S), own)
<1>1. S \subseteq Phrase
  BY WordingIsPhrase DEF Wording
<1>2. \A p \in S : p \notin Private(own)
  BY DEF Private
<1>3. QED
  BY <1>1, <1>2, WordsSafe

LEMMA OwnSafe ==
    ASSUME NEW own \in BOOLEAN, own
    PROVE  Safe(Says({"own"}), own)
<1>1. {"own"} \subseteq Phrase
  BY WordingIsPhrase DEF Wording
<1>2. \A p \in {"own"} : p \notin Private(own)
  BY DEF Private
<1>3. QED
  BY <1>1, <1>2, WordsSafe

\* polish_public_copy: wording nobody minds in the place of slang.
LEMMA RewordedSafe ==
    ASSUME NEW t, NEW own \in BOOLEAN, Safe(t, own)
    PROVE  Safe(Reworded(t), own)
<1>1. "settled" \in Phrase /\ "settled" \notin Private(own)
  BY WordingIsPhrase DEF Wording, Private
<1>2. QED
  BY <1>1 DEF Safe, Reworded, Text, Phrases

\* A field that would be empty gets another text.
LEMMA OrElseSafe ==
    ASSUME NEW t, NEW d, NEW own, Safe(t, own), Safe(d, own)
    PROVE  Safe(OrElse(t, d), own)
BY DEF OrElse

LEMMA RepairedSafe ==
    ASSUME NEW t, NEW d, NEW own, Safe(t, own), Safe(d, own)
    PROVE  Safe(Repaired(t, d), own)
BY ClampSafe DEF Repaired

\* A text that is safe is not rejected.
LEMMA SafeNotRejected ==
    ASSUME NEW t, NEW own, Safe(t, own)
    PROVE  ~IsRejected(t)
BY DEF Safe, IsRejected, Private

---------------------------------------------------------------------------
(* Summaries: no field of one is private, whatever was answered.           *)

\* clean_chip: the chips that are left.
LEMMA ChipsSafe ==
    ASSUME NEW chips \in SUBSET Text, NEW own \in BOOLEAN,
           own => AllowProjectTags
    PROVE  /\ CleanChips(chips, own) \in SUBSET Text
           /\ (\A d \in chips : "agent" \notin Phrases(d) => ~IsRejected(d))
                 => \A c \in CleanChips(chips, own) : Safe(c, own)
<1> SUFFICES ASSUME NEW c \in CleanChips(chips, own)
             PROVE  /\ c \in Text
                    /\ (\A d \in chips :
                            "agent" \notin Phrases(d) => ~IsRejected(d))
                          => Safe(c, own)
  OBVIOUS
<1>1. PICK d \in chips : /\ "agent" \notin Phrases(d)
                         /\ c = Unplaced(Clean(d, own))
  BY DEF CleanChips
<1>2. d \in Text
  OBVIOUS
<1>3. Clean(d, own) \in Text
  BY <1>2, CleanSafe
<1>4. c \in Text
  BY <1>1, <1>3 DEF Unplaced, Without, Text
<1>5. ASSUME ~IsRejected(d) PROVE Safe(c, own)
  <2>1. Safe(Clean(d, own), own)
    BY <1>2, <1>5, CleanSafe
  <2>2. QED
    BY <2>1, <1>1, WithoutSafe DEF Unplaced
<1>6. QED
  BY <1>1, <1>4, <1>5

\* What clean_and_clamp did not fail on.
LEMMA NotRefused ==
    ASSUME NEW s, s \in Answer \/ s \in Story, ~IsRefused(s)
    PROVE  /\ ~IsRejected(s.headline)
           /\ ~IsRejected(s.deck)
           /\ ~IsRejected(s.lower)
           /\ \A d \in s.chips : "agent" \notin Phrases(d) => ~IsRejected(d)
<1> DEFINE r == [s EXCEPT !.chips = {c \in @ : "agent" \notin Phrases(c)}]
<1>1. /\ r.headline = s.headline /\ r.deck = s.deck /\ r.lower = s.lower
      /\ r.chips = {c \in s.chips : "agent" \notin Phrases(c)}
  BY DEF Answer, Story
<1>2. \A t \in TextsOf(r) : ~IsRejected(t)
  BY DEF IsRefused
<1>3. \A t \in {s.headline, s.deck, s.lower}
                 \union {c \in s.chips : "agent" \notin Phrases(c)} :
         ~IsRejected(t)
  BY <1>1, <1>2 DEF TextsOf
<1>4. QED
  BY <1>3

\* Nothing in any text of the summary is private.
AllSafe(s, own) ==
    /\ Safe(s.headline, own) /\ Safe(s.deck, own) /\ Safe(s.lower, own)
    /\ \A c \in s.chips : Safe(c, own)

\* The fields the polishing leaves alone.
Same(r, s) ==
    /\ r.family = s.family /\ r.score = s.score
    /\ r.tagged = s.tagged /\ r.skip = s.skip

LEMMA PolishedSafe ==
    ASSUME NEW s \in Summary, AllSafe(s, s.tagged)
    PROVE  /\ Polished(s) \in Summary
           /\ Same(Polished(s), s)
           /\ AllSafe(Polished(s), s.tagged)
<1> DEFINE own == s.tagged
           h1 == IF IsCanned(s) THEN Canned ELSE s.headline
           d1 == Reworded(IF IsCanned(s) THEN Canned ELSE s.deck)
           h2 == Repaired(Without(Reworded(h1), {"agent"}), d1)
           l2 == OrElse(Without(Unplaced(Reworded(s.lower)), {"agent"}),
                        Says({"settled"}))
           cs == {Reworded(c) : c \in {d \in s.chips :
                                          "agent" \notin Phrases(d)}} \ {Blank}
           c2 == IF cs = {} THEN {Says({"settled"})} ELSE cs
<1>1. own \in BOOLEAN
  BY DEF Summary
<1>2. Safe(Canned, own) /\ Safe(Says({"settled"}), own)
  BY <1>1, SaysSafe DEF Canned
<1>3. Safe(h1, own) /\ Safe(d1, own)
  BY <1>1, <1>2, RewordedSafe DEF AllSafe
<1>4. Safe(h2, own)
  <2>1. Safe(Reworded(h1), own)
    BY <1>1, <1>3, RewordedSafe
  <2>2. Safe(Without(Reworded(h1), {"agent"}), own)
    BY <2>1, WithoutSafe
  <2>3. QED
    BY <2>2, <1>3, RepairedSafe
<1>5. Safe(l2, own)
  <2>1. Safe(Reworded(s.lower), own)
    BY <1>1, RewordedSafe DEF AllSafe
  <2>2. Safe(Without(Unplaced(Reworded(s.lower)), {"agent"}), own)
    BY <2>1, WithoutSafe DEF Unplaced
  <2>3. QED
    BY <2>2, <1>2, OrElseSafe
<1>6. \A c \in c2 : Safe(c, own)
  <2>1. \A d \in s.chips : Safe(Reworded(d), own)
    BY <1>1, RewordedSafe DEF AllSafe
  <2>2. \A c \in cs : Safe(c, own)
    BY <2>1
  <2>3. QED
    BY <2>2, <1>2
<1> DEFINE r == [s EXCEPT !.headline = h2, !.deck = d1, !.lower = l2,
                          !.chips = c2]
<1>7. Polished(s) = r
  BY DEF Polished
<1> HIDE DEF h1, d1, h2, l2, cs, c2
<1>8. /\ r.headline = h2 /\ r.deck = d1 /\ r.lower = l2 /\ r.chips = c2
      /\ Same(r, s)
  BY DEF Same, Summary
<1>9. h2 \in Text /\ d1 \in Text /\ l2 \in Text /\ c2 \in SUBSET Text
  BY <1>3, <1>4, <1>5, <1>6 DEF Safe
<1>10. r \in Summary
  BY <1>9 DEF Summary
<1>11. AllSafe(r, own)
  BY <1>3, <1>4, <1>5, <1>6, <1>8 DEF AllSafe
<1>12. QED
  BY <1>7, <1>8, <1>10, <1>11

\* fit_capsule_budget cleans the deck with the tags it finds on the chips,
\* which may be more than the stories had.
LEMMA FittedSafe ==
    ASSUME NEW s \in Summary, AllSafe(s, s.tagged)
    PROVE  /\ Fitted(s) \in Summary
           /\ Same(Fitted(s), s)
           /\ AllSafe(Fitted(s), s.tagged)
           /\ Phrases(Fitted(s).deck) # {}
<1> DEFINE own == s.tagged
           tag == AllowProjectTags /\ Says({"own"}) \in s.chips
           c == Clean(s.deck, tag)
           d == OrElse(Unplaced(c), Says({"settled"}))
<1>1. own \in BOOLEAN /\ tag \in BOOLEAN /\ s.deck \in Text
  BY GuardrailsAssumption DEF Summary
<1>2. /\ c \in Text
      /\ Phrases(c) \subseteq Phrases(s.deck) \union {"placeholder"}
  BY <1>1, CleanSafe
<1>3. "placeholder" \notin Private(own)
  BY DEF Private
<1>4. Safe(c, own)
  BY <1>2, <1>3 DEF AllSafe, Safe
<1>5. Safe(d, own)
  BY <1>1, <1>4, WithoutSafe, OrElseSafe, SaysSafe DEF Unplaced
<1>11. Phrases(d) # {}
  <2>1. c.tail = {}
    BY DEF Clean, Clamp, Says
  <2>2. Unplaced(c) = Says(c.body \ {"placeholder"})
    BY <2>1, <1>2 DEF Unplaced, Without, Says
  <2>3. CASE Unplaced(c) = Blank
    BY <2>3 DEF OrElse, Phrases, Says
  <2>4. CASE Unplaced(c) # Blank
    <3>1. c.body \ {"placeholder"} # {}
      BY <2>2, <2>4 DEF Blank
    <3>2. QED
      BY <3>1, <2>2, <2>4 DEF OrElse, Phrases, Says
  <2>5. QED
    BY <2>3, <2>4
<1> DEFINE r == [s EXCEPT !.deck = d]
<1>6. Fitted(s) = r
  BY DEF Fitted
<1> HIDE DEF d
<1>7. /\ r.headline = s.headline /\ r.deck = d /\ r.lower = s.lower
      /\ r.chips = s.chips /\ Same(r, s)
  BY DEF Same, Summary
<1>8. r \in Summary
  BY <1>5 DEF Summary, Safe
<1>9. AllSafe(r, own)
  BY <1>5, <1>7 DEF AllSafe
<1>10. QED
  BY <1>6, <1>7, <1>8, <1>9, <1>11

LEMMA ScoreBounds ==
    ASSUME NEW n \in Score
    PROVE  n \in Nat /\ n <= 255
BY DEF Score

\* The highest score of the stories of a request.
LEMMA TopScoreProperties ==
    ASSUME NEW ss \in Seq(Story), ss # <<>>
    PROVE  /\ TopScore(ss) \in Score
           /\ \A i \in DOMAIN ss : ss[i].score <= TopScore(ss)
<1> DEFINE S == {ss[i].score : i \in DOMAIN ss}
<1>1. \A i \in DOMAIN ss : ss[i] \in Story
  OBVIOUS
<1>0. \A i \in DOMAIN ss : ss[i].score \in Score
  BY <1>1 DEF Story
<1>2. S \subseteq Score
  BY <1>0
<1>8. S \in SUBSET Nat /\ \A n \in S : n <= 255
  BY <1>2, ScoreBounds
<1>3. S # {}
  <2>1. 1 \in DOMAIN ss
    BY EmptySeq, LenProperties
  <2>2. QED
    BY <2>1
<1>4. \E m \in S : \A n \in S : n <= m
  <2>1. 255 \in Nat
    OBVIOUS
  <2> HIDE DEF S
  <2>2. QED
    BY <1>8, <1>3, <2>1, HasGreatest
<1>5. \E m \in S : \A i \in DOMAIN ss : ss[i].score <= m
  BY <1>4
<1>6. TopScore(ss) \in S /\ \A i \in DOMAIN ss : ss[i].score <= TopScore(ss)
  BY <1>5 DEF TopScore
<1>7. QED
  BY <1>2, <1>6

\* deterministic_output gives an answer of the right shape.
LEMMA DeterministicAnswer ==
    ASSUME NEW ss \in Seq(Story), ss # <<>>
    PROVE  Deterministic(ss) \in Answer
<1> DEFINE chosen == IF Len(ss) = 1 THEN {1} ELSE Representative(ss)
           s == ss[CHOOSE i \in chosen : TRUE]
<1>1. \A S : S \subseteq {"agent", "settled", "generic", "own"} => Says(S) \in Text
  BY SaysText, WordingIsPhrase DEF Wording
<1>2. CASE chosen # {}
  <2>1. chosen \subseteq DOMAIN ss
    BY LenProperties DEF Representative
  <2>2. (CHOOSE i \in chosen : TRUE) \in DOMAIN ss
    BY <1>2, <2>1
  <2>3. s \in Story
    BY <2>2
  <2>4. LowerThird(s) \in Text
    BY <1>1 DEF LowerThird
  <2>5. Deterministic(ss) = Told(s.headline, s.deck, LowerThird(s), s.chips)
    BY <1>2 DEF Deterministic
  <2>6. QED
    BY <2>3, <2>4, <2>5 DEF Told, Story, Answer
<1>3. CASE chosen = {}
  <2>1. Deterministic(ss) =
           Told(Says({"agent", "settled", "generic"}),
                Says({"settled", "generic"}), Says({"agent", "settled"}),
                {Says({"settled"})})
    BY <1>3 DEF Deterministic
  <2>2. QED
    BY <1>1, <2>1 DEF Told, Answer
<1>4. QED
  BY <1>2, <1>3

\* build_summary, on an answer the guardrails did not fail on.
LEMMA BuildProperties ==
    ASSUME NEW ss \in Seq(Story), ss # <<>>, NEW a \in Answer, ~IsRefused(a)
    PROVE  /\ Build(ss, a) \in Summary
           /\ Build(ss, a).score = TopScore(ss)
           /\ AllSafe(Build(ss, a), Build(ss, a).tagged)
           /\ Phrases(Build(ss, a).deck) # {}
<1> DEFINE own == HasTags(ss)
           score == TopScore(ss)
           h == Headline(ss, a)
           d == OrElse(Unplaced(Clean(a.deck, own)), FallbackDeck(ss))
           l == [Clean(a.lower, own) EXCEPT !.body =
                          @ \union IF own THEN {"own"} ELSE {}]
           cs == (IF own THEN {Says({"own"})} ELSE {})
                         \union CleanChips(a.chips, own)
           fam == IF Len(ss) > 1 THEN "IdleRecap" ELSE ss[1].family
           skip == a.publish = "no" /\ AllowProcessorSkip /\ score < SevereScore
<1>1. own \in BOOLEAN /\ (own => AllowProjectTags)
  BY DEF HasTags, HasTag
<1>2. /\ a.headline \in Text /\ a.deck \in Text /\ a.lower \in Text
      /\ a.chips \in SUBSET Text
  BY DEF Answer
<1>3. /\ ~IsRejected(a.headline) /\ ~IsRejected(a.deck) /\ ~IsRejected(a.lower)
      /\ \A c \in a.chips : "agent" \notin Phrases(c) => ~IsRejected(c)
  BY NotRefused
<1>4. /\ Safe(Clean(a.headline, own), own)
      /\ Safe(Clean(a.deck, own), own)
      /\ Safe(Clean(a.lower, own), own)
  BY <1>1, <1>2, <1>3, CleanSafe
<1>5. Safe(h, own)
  <2>1. Safe(FallbackHeadline(ss), own)
    BY <1>1, SaysSafe DEF FallbackHeadline
  <2>2. QED
    BY <1>4, <2>1, WithoutSafe, OrElseSafe DEF Headline, Unplaced
<1>6. Safe(d, own)
  <2>1. Safe(FallbackDeck(ss), own)
    BY <1>1, SaysSafe DEF FallbackDeck
  <2>2. QED
    BY <1>4, <2>1, WithoutSafe, OrElseSafe DEF Unplaced
<1>7. Safe(l, own)
  <2>1. own => "own" \in Phrase /\ "own" \notin Private(own)
    BY WordingIsPhrase DEF Wording, Private
  <2>2. QED
    BY <1>1, <1>4, <2>1 DEF Safe, Text, Phrases
<1>8. \A c \in cs : Safe(c, own)
  <2>1. own => Safe(Says({"own"}), own)
    BY <1>1, OwnSafe
  <2>2. \A c \in CleanChips(a.chips, own) : Safe(c, own)
    BY <1>1, <1>2, <1>3, ChipsSafe
  <2>3. QED
    BY <2>1, <2>2
<1>9. score \in Score
  BY TopScoreProperties
<1>10. fam \in Family
  <2>1. ss[1] \in Story
    BY EmptySeq, LenProperties
  <2>2. QED
    BY <2>1 DEF Story, Family
<1>11. skip \in BOOLEAN
  BY GuardrailsAssumption
<1> DEFINE s == [headline |-> h, deck |-> d, lower |-> l, chips |-> cs,
                 family |-> fam, score |-> score, tagged |-> own, skip |-> skip]
<1>12. Build(ss, a) = Fitted(Polished(s))
  BY DEF Build
<1> HIDE DEF own, score, h, d, l, cs, fam, skip
<1>13. s \in Summary
  <2>1. h \in Text /\ d \in Text /\ l \in Text /\ cs \in SUBSET Text
    BY <1>5, <1>6, <1>7, <1>8 DEF Safe
  <2>2. QED
    BY <2>1, <1>1, <1>9, <1>10, <1>11 DEF Summary
<1>14. AllSafe(s, s.tagged)
  BY <1>5, <1>6, <1>7, <1>8 DEF AllSafe
<1>15. s.score = score /\ s.tagged = own
  OBVIOUS
<1> HIDE DEF s
<1>16. /\ Polished(s) \in Summary /\ Same(Polished(s), s)
       /\ AllSafe(Polished(s), s.tagged)
  BY <1>13, <1>14, PolishedSafe
<1>17. Polished(s).tagged = s.tagged /\ Polished(s).score = score
  BY <1>15, <1>16 DEF Same
<1>18. /\ Fitted(Polished(s)) \in Summary
       /\ Same(Fitted(Polished(s)), Polished(s))
       /\ AllSafe(Fitted(Polished(s)), s.tagged)
       /\ Phrases(Fitted(Polished(s)).deck) # {}
  BY <1>16, <1>17, FittedSafe
<1>19. QED
  BY <1>12, <1>17, <1>18 DEF Same, score

\* request_for_external_processor, when it does not fail.
LEMMA RedactedSafe ==
    ASSUME NEW ss \in Seq(Story),
           \A i \in DOMAIN ss : ~IsRefused(ss[i])
    PROVE  /\ Redacted(ss) \in Seq(Story)
           /\ \A i \in DOMAIN Redacted(ss) :
                 AllSafe(Redacted(ss)[i], HasTag(Redacted(ss)[i]))
<1>1. ASSUME NEW s \in Story, ~IsRefused(s), NEW r,
             r = [s EXCEPT !.project = IF AllowProjectNames \/ HasTag(s)
                                       THEN @ ELSE "none",
                           !.headline = Clean(@, HasTag(s)),
                           !.deck = Clean(@, HasTag(s)),
                           !.lower = Clean(@, HasTag(s)),
                           !.chips = CleanChips(@, HasTag(s))]
      PROVE  r \in Story /\ AllSafe(r, HasTag(r))
  <2> DEFINE own == HasTag(s)
  <2>1. own \in BOOLEAN /\ (own => AllowProjectTags)
    BY DEF HasTag
  <2>2. /\ s.headline \in Text /\ s.deck \in Text /\ s.lower \in Text
        /\ s.chips \in SUBSET Text
        /\ s.project \in {"none", "public", "private"}
    BY DEF Story
  <2>3. /\ Safe(Clean(s.headline, own), own) /\ Safe(Clean(s.deck, own), own)
        /\ Safe(Clean(s.lower, own), own)
    BY <1>1, <2>1, <2>2, NotRefused, CleanSafe
  <2>4. /\ CleanChips(s.chips, own) \in SUBSET Text
        /\ \A c \in CleanChips(s.chips, own) : Safe(c, own)
    BY <1>1, <2>1, <2>2, NotRefused, ChipsSafe
  <2>5. /\ r.headline = Clean(s.headline, own) /\ r.deck = Clean(s.deck, own)
        /\ r.lower = Clean(s.lower, own) /\ r.chips = CleanChips(s.chips, own)
        /\ r.project = IF AllowProjectNames \/ own THEN s.project ELSE "none"
    BY <1>1 DEF Story
  <2>6. HasTag(r) = own
    BY <2>5 DEF HasTag
  <2>7. r \in Story
    <3>1. /\ Clean(s.headline, own) \in Text /\ Clean(s.deck, own) \in Text
          /\ Clean(s.lower, own) \in Text
      BY <2>3 DEF Safe
    <3>2. QED
      BY <3>1, <2>4, <1>1 DEF Story
  <2>8. QED
    BY <2>3, <2>4, <2>5, <2>6, <2>7 DEF AllSafe
<1>2. /\ DOMAIN Redacted(ss) = DOMAIN ss
      /\ \A i \in DOMAIN ss :
            Redacted(ss)[i] \in Story
            /\ AllSafe(Redacted(ss)[i], HasTag(Redacted(ss)[i]))
  <2>1. DOMAIN Redacted(ss) = DOMAIN ss
    BY DEF Redacted
  <2>2. ASSUME NEW i \in DOMAIN ss
        PROVE  /\ Redacted(ss)[i] \in Story
               /\ AllSafe(Redacted(ss)[i], HasTag(Redacted(ss)[i]))
    <3>1. ss[i] \in Story /\ ~IsRefused(ss[i])
      OBVIOUS
    <3>2. Redacted(ss)[i] =
             [ss[i] EXCEPT !.project = IF AllowProjectNames \/ HasTag(ss[i])
                                       THEN @ ELSE "none",
                           !.headline = Clean(@, HasTag(ss[i])),
                           !.deck = Clean(@, HasTag(ss[i])),
                           !.lower = Clean(@, HasTag(ss[i])),
                           !.chips = CleanChips(@, HasTag(ss[i]))]
      BY DEF Redacted
    <3>3. QED
      BY <3>1, <3>2, <1>1
  <2>3. QED
    BY <2>1, <2>2
<1>3. DOMAIN ss = 1..Len(ss) /\ Len(ss) \in Nat
  BY LenProperties
<1>4. Redacted(ss) = [i \in 1..Len(ss) |-> Redacted(ss)[i]]
  BY <1>3 DEF Redacted
<1>5. Redacted(ss) \in Seq(Story)
  BY <1>2, <1>3, <1>4
<1>6. QED
  BY <1>2, <1>5

---------------------------------------------------------------------------
(* Likeness and the publish decision.                                      *)

\* text_similarity is a percentage, and 100 for the same words.
LEMMA OverlapBounds ==
    ASSUME NEW l \in SUBSET Phrase, NEW r \in SUBSET Phrase, l # {}
    PROVE  Overlap(l, r) \in Nat /\ Overlap(l, r) <= 100
<1> DEFINE m == Cardinality(l \intersect r)
           n == Cardinality(l \union r)
<1>1. IsFiniteSet(l \union r)
  BY PhrasesAssumption, FS_Subset
<1>2. n \in Nat /\ n # 0
  BY <1>1, FS_CardinalityType, FS_EmptySet
<1>3. m \in Nat /\ m <= n
  BY <1>1, FS_Subset, FS_CardinalityType
<1> HIDE DEF m, n
<1>4. (m * 100) \div n \in Nat /\ (m * 100) \div n <= 100
  BY <1>2, <1>3
<1>5. QED
  BY <1>4 DEF Overlap, m, n

LEMMA SimilarityBounds ==
    ASSUME NEW l \in Text, NEW r \in Text
    PROVE  /\ Similarity(l, r) \in Nat /\ Similarity(l, r) <= 100
           /\ Phrases(l) = Phrases(r) /\ Phrases(l) # {} =>
                 Similarity(l, r) = 100
<1>1. Terms(l) \in SUBSET Phrase /\ Terms(r) \in SUBSET Phrase
  BY DEF Terms, Phrases, Text
<1>2. Terms(l) # {} => /\ Overlap(Terms(l), Terms(r)) \in Nat
                       /\ Overlap(Terms(l), Terms(r)) <= 100
  BY <1>1, OverlapBounds
<1>3. QED
  BY <1>2 DEF Similarity

LEMMA RelationKinds ==
    ASSUME NEW s, NEW r
    PROVE  Relation(s, r) \in {"exact_repeat", "new_topic", "state_changed",
                               "impact_changed", "same_state"}
BY DEF Relation

\* How alike two summaries are, as one number.
Rank(s, r) ==
    101 * Similarity(s.headline, r.headline) + Similarity(s.deck, r.deck)

LEMMA FieldBounds ==
    ASSUME NEW s \in Summary, NEW q \in Summary
    PROVE  /\ Similarity(s.headline, q.headline) \in Nat
           /\ Similarity(s.headline, q.headline) <= 100
           /\ Similarity(s.deck, q.deck) \in Nat
           /\ Similarity(s.deck, q.deck) <= 100
BY SimilarityBounds DEF Summary

LEMMA RankBounds ==
    ASSUME NEW s \in Summary, NEW q \in Summary
    PROVE  Rank(s, q) \in Nat /\ Rank(s, q) <= 10200
<1> DEFINE m == Similarity(s.headline, q.headline)
           n == Similarity(s.deck, q.deck)
<1>1. m \in Nat /\ m <= 100 /\ n \in Nat /\ n <= 100
  BY FieldBounds
<1>2. Rank(s, q) = 101 * m + n
  BY DEF Rank
<1> HIDE DEF m, n
<1>3. QED
  BY <1>1, <1>2

LEMMA RankPositive ==
    ASSUME NEW s \in Summary, NEW q \in Summary
    PROVE  IsAbove(Likeness(s, q), <<0, 0>>) <=> Rank(s, q) > 0
<1> DEFINE m == Similarity(s.headline, q.headline)
           n == Similarity(s.deck, q.deck)
<1>1. m \in Nat /\ n \in Nat
  BY FieldBounds
<1>2. Likeness(s, q) = <<m, n>> /\ Rank(s, q) = 101 * m + n
  BY DEF Likeness, Rank
<1> HIDE DEF m, n
<1>3. IsAbove(<<m, n>>, <<0, 0>>) <=> 101 * m + n > 0
  BY <1>1 DEF IsAbove
<1>4. QED
  BY <1>2, <1>3

LEMMA RankOrders ==
    ASSUME NEW s \in Summary, NEW q \in Summary, NEW r \in Summary
    PROVE  /\ IsAbove(Likeness(s, q), Likeness(s, r)) <=> Rank(s, q) > Rank(s, r)
           /\ Likeness(s, q) = Likeness(s, r) <=> Rank(s, q) = Rank(s, r)
<1> DEFINE m == Similarity(s.headline, q.headline)
           n == Similarity(s.deck, q.deck)
           k == Similarity(s.headline, r.headline)
           l == Similarity(s.deck, r.deck)
<1>1. /\ m \in Nat /\ m <= 100 /\ n \in Nat /\ n <= 100
      /\ k \in Nat /\ k <= 100 /\ l \in Nat /\ l <= 100
  BY FieldBounds
<1>2. /\ Likeness(s, q) = <<m, n>> /\ Rank(s, q) = 101 * m + n
      /\ Likeness(s, r) = <<k, l>> /\ Rank(s, r) = 101 * k + l
  BY DEF Likeness, Rank
<1> HIDE DEF m, n, k, l
<1>3. IsAbove(<<m, n>>, <<k, l>>) <=> 101 * m + n > 101 * k + l
  BY <1>1 DEF IsAbove
<1>4. <<m, n>> = <<k, l>> <=> 101 * m + n = 101 * k + l
  BY <1>1
<1>5. QED
  BY <1>2, <1>3, <1>4

\* The highest rank there is.
TopRank == 10200

\* If some summary in the window is like the candidate, the comparison is
\* with one that is at least as much so.
LEMMA NearestExists ==
    ASSUME NEW s \in Summary, NEW ms \in Seq(Summary),
           NEW k \in SameFamily(s, ms, RecentWindow), Rank(s, ms[k]) > 0
    PROVE  Nearest(s, ms) # {}
<1> DEFINE near == SameFamily(s, ms, RecentWindow)
           S == {Rank(s, ms[i]) : i \in near}
<1>1. \A i \in near : i \in Nat /\ ms[i] \in Summary
  BY LenProperties DEF SameFamily
<1>2. k \in near
  OBVIOUS
<1> HIDE DEF near
<1>3. ASSUME NEW i \in near
      PROVE  Rank(s, ms[i]) \in Nat /\ Rank(s, ms[i]) <= 10200
  <2> DEFINE q == ms[i]
  <2>1. q \in Summary
    BY <1>1
  <2> HIDE DEF q
  <2>2. Rank(s, q) \in Nat /\ Rank(s, q) <= 10200
    BY <2>1, RankBounds
  <2>3. QED
    BY <2>2 DEF q
<1>4. PICK m \in S : \A n \in S : n <= m
  <2>1. TopRank \in Nat /\ S \in SUBSET Nat /\ \A n \in S : n <= TopRank
    BY <1>3 DEF TopRank
  <2>4. S # {}
    BY <1>2
  <2> HIDE DEF S
  <2>2. QED
    BY <2>1, <2>4, HasGreatest
<1> DEFINE T == {i \in near : Rank(s, ms[i]) = m}
<1>5. PICK i \in T : \A j \in T : i <= j
  <2>1. T \subseteq Nat
    BY <1>1
  <2>2. T # {}
    BY <1>4
  <2> HIDE DEF T
  <2>3. QED
    BY <2>1, <2>2, HasLeast
<1>6. i \in near /\ Rank(s, ms[i]) = m
  BY <1>5
<1>7. \A j \in near : Rank(s, ms[j]) <= m /\ (Rank(s, ms[j]) = m => i <= j)
  BY <1>4, <1>5
<1> HIDE DEF S, T
<1>8. m \in Nat /\ m <= 10200 /\ Rank(s, ms[k]) \in Nat /\ Rank(s, ms[k]) <= 10200
  BY <1>2, <1>3, <1>6
<1>9. Rank(s, ms[k]) <= m
  BY <1>2, <1>7
<1>10. Rank(s, ms[i]) > 0
  <2> DEFINE r == Rank(s, ms[k])
  <2>1. r \in Nat /\ r > 0 /\ r <= m
    BY <1>8, <1>9
  <2> HIDE DEF r
  <2>2. m > 0
    BY <2>1, <1>8
  <2>3. QED
    BY <2>2, <1>6
<1>11. IsAbove(Likeness(s, ms[i]), <<0, 0>>)
  <2> DEFINE q == ms[i]
  <2>1. q \in Summary /\ Rank(s, q) > 0
    BY <1>1, <1>6, <1>10
  <2> HIDE DEF q
  <2>2. IsAbove(Likeness(s, q), <<0, 0>>)
    BY <2>1, RankPositive
  <2>3. QED
    BY <2>2 DEF q
<1>12. ASSUME NEW j \in near
       PROVE  /\ ~IsAbove(Likeness(s, ms[j]), Likeness(s, ms[i]))
              /\ Likeness(s, ms[j]) = Likeness(s, ms[i]) => i <= j
  <2>1. ms[i] \in Summary /\ ms[j] \in Summary
    BY <1>1, <1>6
  <2>2. Rank(s, ms[j]) \in Nat /\ Rank(s, ms[j]) <= 10200 /\ Rank(s, ms[j]) <= m
    BY <1>3, <1>7
  <2>3. ~(Rank(s, ms[j]) > m)
    BY <2>2, <1>8
  <2>4. ~IsAbove(Likeness(s, ms[j]), Likeness(s, ms[i]))
    BY <2>1, <2>3, <1>6, RankOrders
  <2>5. Likeness(s, ms[j]) = Likeness(s, ms[i]) => Rank(s, ms[j]) = m
    BY <2>1, <1>6, RankOrders
  <2>6. QED
    BY <2>4, <2>5, <1>7
<1>13. i \in Nearest(s, ms)
  BY <1>6, <1>11, <1>12 DEF Nearest, near
<1>14. QED
  BY <1>13

\* What apply_publish_decision compares with.
LEMMA ComparisonProperties ==
    ASSUME NEW s \in Summary, NEW ms \in Seq(Summary)
    PROVE  /\ Comparison(s, ms).headline \in Nat /\ Comparison(s, ms).headline <= 100
           /\ Comparison(s, ms).deck \in Nat /\ Comparison(s, ms).deck <= 100
           /\ Comparison(s, ms).relation \in
                 Changed \union {"exact_repeat", "new_topic", "same_state"}
           /\ \A k \in SameFamily(s, ms, RecentWindow) :
                 Rank(s, ms[k]) = 10200 =>
                    Comparison(s, ms).headline = 100
                    /\ Comparison(s, ms).deck = 100
<1> DEFINE near == Nearest(s, ms)
           c == Comparison(s, ms)
           best == CHOOSE i \in near : TRUE
<1>1. CASE near = {}
  <2>1. c = [relation |-> "new_topic", headline |-> 0, deck |-> 0]
    BY <1>1 DEF Comparison
  <2>2. \A k \in SameFamily(s, ms, RecentWindow) : ~(Rank(s, ms[k]) > 0)
    BY <1>1, NearestExists
  <2>3. QED
    BY <2>1, <2>2
<1>2. CASE near # {}
  <2>1. best \in near
    BY <1>2
  <2>2. best \in SameFamily(s, ms, RecentWindow)
    BY <2>1 DEF Nearest
  <2>3. ms[best] \in Summary
    BY <2>2 DEF SameFamily
  <2>4. c = [relation |-> Relation(s, ms[best]),
             headline |-> Similarity(s.headline, ms[best].headline),
             deck |-> Similarity(s.deck, ms[best].deck)]
    BY <1>2 DEF Comparison
  <2>5. c.headline \in Nat /\ c.headline <= 100 /\ c.deck \in Nat /\ c.deck <= 100
    <3>1. /\ Similarity(s.headline, ms[best].headline) \in Nat
          /\ Similarity(s.headline, ms[best].headline) <= 100
          /\ Similarity(s.deck, ms[best].deck) \in Nat
          /\ Similarity(s.deck, ms[best].deck) <= 100
      <4> DEFINE q == ms[best]
      <4>1. q \in Summary
        BY <2>3
      <4> HIDE DEF q
      <4>2. /\ Similarity(s.headline, q.headline) \in Nat
            /\ Similarity(s.headline, q.headline) <= 100
            /\ Similarity(s.deck, q.deck) \in Nat
            /\ Similarity(s.deck, q.deck) <= 100
        BY <4>1, FieldBounds
      <4>3. QED
        BY <4>2 DEF q
    <3> HIDE DEF c, best
    <3>2. QED
      BY <2>4, <3>1
  <2>6. c.relation \in Changed \union {"exact_repeat", "new_topic", "same_state"}
    BY <2>4, RelationKinds DEF Changed
  <2>7. ASSUME NEW k \in SameFamily(s, ms, RecentWindow), Rank(s, ms[k]) = 10200
        PROVE  c.headline = 100 /\ c.deck = 100
    <3>1. ms[k] \in Summary
      BY DEF SameFamily
    <3>2. ~IsAbove(Likeness(s, ms[k]), Likeness(s, ms[best]))
      BY <2>1 DEF Nearest
    <3>3. Rank(s, ms[best]) >= 10200
      <4>1. Rank(s, ms[best]) \in Nat
        <5> DEFINE q == ms[best]
        <5>1. q \in Summary
          BY <2>3
        <5> HIDE DEF q
        <5>2. Rank(s, q) \in Nat
          BY <5>1, RankBounds
        <5>3. QED
          BY <5>2 DEF q
      <4>2. ~(Rank(s, ms[k]) > Rank(s, ms[best]))
        BY <2>3, <3>1, <3>2, RankOrders
      <4> DEFINE r == Rank(s, ms[best])
      <4>3. r \in Nat /\ ~(10200 > r)
        BY <4>1, <4>2, <2>7
      <4> HIDE DEF r
      <4>4. r >= 10200
        BY <4>3
      <4>5. QED
        BY <4>4 DEF r
    <3>4. Rank(s, ms[best]) = 101 * c.headline + c.deck
      BY <2>4 DEF Rank
    <3> HIDE DEF best, c
    <3>5. QED
      BY <2>5, <3>3, <3>4
  <2>8. QED
    BY <2>5, <2>6, <2>7
<1>3. QED
  BY <1>1, <1>2

\* apply_publish_decision: a skip of the memory does not stand for a strong
\* summary, and what is published repeats nothing in the window.
LEMMA DecisionProperties ==
    ASSUME NEW s \in Summary, NEW ms \in Seq(Summary), NEW f \in Feed,
           Phrases(s.deck) # {}
    PROVE  /\ Decision(f, s, ms) \in {"dull", "duplicate", "declined", "published"}
           /\ Decision(f, s, ms) = "declined" /\ s.score >= StrongScore
                 => ~UsesMemory(f)
           /\ Decision(f, s, ms) = "published" =>
                 \A k \in DOMAIN ms :
                    /\ k <= RecentWindow
                    /\ ms[k].family = s.family
                    /\ ms[k].headline = s.headline /\ ms[k].deck = s.deck
                    => Phrases(s.headline) = {}
<1> DEFINE c == Comparison(s, ms)
<1>1. Decision(f, s, ms) =
         IF IsLowSignal(s) THEN "dull"
         ELSE IF IsDuplicate(s, c) THEN "duplicate"
         ELSE IF s.skip /\ ~Overruled(f, s, c) THEN "declined"
         ELSE "published"
  BY DEF Decision
<1>2. /\ c.headline \in Nat /\ c.headline <= 100 /\ c.deck \in Nat /\ c.deck <= 100
      /\ c.relation \in Changed \union {"exact_repeat", "new_topic", "same_state"}
      /\ \A k \in SameFamily(s, ms, RecentWindow) :
            Rank(s, ms[k]) = 10200 => c.headline = 100 /\ c.deck = 100
  BY ComparisonProperties
<1> HIDE DEF c
<1>3. Decision(f, s, ms) \in {"dull", "duplicate", "declined", "published"}
  BY <1>1
<1>4. ASSUME Decision(f, s, ms) = "declined", s.score >= StrongScore,
             UsesMemory(f)
      PROVE  FALSE
  <2>1. ~IsDuplicate(s, c) /\ ~Overruled(f, s, c)
    BY <1>1, <1>4
  <2>2. ~IsNews(c)
    BY <2>1, <1>4 DEF Overruled
  <2>3. /\ c.relation \in {"exact_repeat", "same_state"}
        /\ c.headline >= MaxHeadlineSimilarity
        /\ c.deck >= MaxDeckSimilarity
    <3>1. /\ c.relation \notin Changed \union {"new_topic"}
          /\ ~(c.headline < 88) /\ ~(c.deck < 82)
      BY <2>2 DEF IsNews, MaxHeadlineSimilarity, MaxDeckSimilarity
    <3>4. c.headline \in Nat /\ c.headline <= 100 /\ c.deck \in Nat /\ c.deck <= 100
      BY <1>2
    <3>2. c.headline >= 88 /\ c.deck >= 82
      BY <3>1, <3>4
    <3>3. QED
      BY <3>1, <3>2, <1>2 DEF MaxHeadlineSimilarity, MaxDeckSimilarity
  <2>4. QED
    BY <2>1, <2>3 DEF IsDuplicate
<1>5. ASSUME Decision(f, s, ms) = "published", NEW k \in DOMAIN ms,
             k <= RecentWindow, ms[k].family = s.family,
             ms[k].headline = s.headline, ms[k].deck = s.deck,
             Phrases(s.headline) # {}
      PROVE  FALSE
  <2>1. k \in SameFamily(s, ms, RecentWindow)
    BY <1>5 DEF SameFamily
  <2>2. s.headline \in Text /\ s.deck \in Text
    BY DEF Summary
  <2>3. Similarity(s.headline, ms[k].headline) = 100
        /\ Similarity(s.deck, ms[k].deck) = 100
    BY <2>2, <1>5, SimilarityBounds
  <2>4. Rank(s, ms[k]) = 10200
    BY <2>3 DEF Rank
  <2>5. c.headline = 100 /\ c.deck = 100
    BY <2>1, <2>4, <1>2
  <2>6. IsDuplicate(s, c)
    BY <2>5 DEF IsDuplicate
  <2>7. QED
    BY <1>1, <1>5, <2>6
<1>6. QED
  BY <1>3, <1>4, <1>5

---------------------------------------------------------------------------
(* Sequences of stories and of what became of them.                        *)

LEMMA BecomeType ==
    ASSUME NEW fates \in Seq(Fate), NEW ids, NEW what \in Fate
    PROVE  /\ Become(fates, ids, what) \in Seq(Fate)
           /\ Len(Become(fates, ids, what)) = Len(fates)
           /\ \A id \in 1..Len(fates) :
                 Become(fates, ids, what)[id] =
                    IF id \in ToSet(ids) THEN what ELSE fates[id]
BY DEF Become

\* What lies between two places.
LEMMA PartOf ==
    ASSUME NEW S, NEW s \in Seq(S), NEW a \in Nat, NEW b \in Nat,
           a <= b, b <= Len(s)
    PROVE  /\ SubSeq(s, a + 1, b) \in Seq(S)
           /\ Len(SubSeq(s, a + 1, b)) = b - a
           /\ \A i \in 1..(b - a) : SubSeq(s, a + 1, b)[i] = s[a + i]
<1>1. a + 1 \in Int /\ b \in Int /\ \A i \in (a + 1)..b : s[i] \in S
  OBVIOUS
<1>2. /\ SubSeq(s, a + 1, b) \in Seq(S)
      /\ Len(SubSeq(s, a + 1, b)) = IF a + 1 <= b THEN b - (a + 1) + 1 ELSE 0
      /\ \A i \in 1..(b - (a + 1) + 1) :
            SubSeq(s, a + 1, b)[i] = s[(a + 1) + i - 1]
  BY <1>1, SubSeqProperties
<1>3. b - (a + 1) + 1 = b - a /\ \A i \in 1..(b - a) : (a + 1) + i - 1 = a + i
  OBVIOUS
<1>4. QED
  BY <1>2, <1>3

LEMMA RequestsType ==
    ASSUME NEW ids \in Seq(Nat)
    PROVE  /\ Requests(ids) \in Seq(Seq(Nat))
           /\ \A k \in DOMAIN Requests(ids) :
                 /\ Requests(ids)[k] # <<>>
                 /\ \A i \in DOMAIN Requests(ids)[k] :
                       \E j \in DOMAIN ids : Requests(ids)[k][i] = ids[j]
<1> DEFINE size == IF Mode = "PerStory" THEN 1 ELSE MaxRollup
           n == (Len(ids) + size - 1) \div size
           Chunk(k) == SubSeq(ids, (k - 1) * size + 1,
                              IF k * size > Len(ids) THEN Len(ids) ELSE k * size)
<1>1. size \in Nat \ {0} /\ Len(ids) \in Nat
  BY SizesAssumption
<1>2. Requests(ids) = [k \in 1..n |-> Chunk(k)]
  BY DEF Requests
<1> HIDE DEF size
<1>3. n \in Nat /\ n * size <= Len(ids) + size - 1
  BY <1>1
<1> HIDE DEF n
<1>4. ASSUME NEW k \in 1..n
      PROVE  /\ Chunk(k) \in Seq(Nat) /\ Chunk(k) # <<>>
             /\ \A i \in DOMAIN Chunk(k) : \E j \in DOMAIN ids : Chunk(k)[i] = ids[j]
  <2> DEFINE a == (k - 1) * size
             b == IF k * size > Len(ids) THEN Len(ids) ELSE k * size
  <2>1. k \in Nat /\ k >= 1 /\ k <= n
    BY <1>3
  <2>2. k * size <= n * size /\ k * size \in Nat
    BY <1>1, <1>3, <2>1
  <2>3. a = k * size - size /\ a \in Nat
    BY <1>1, <2>1
  <2>4. a + 1 <= Len(ids) /\ b \in Nat /\ b >= a + 1 /\ b <= Len(ids)
    BY <1>1, <1>3, <2>2, <2>3
  <2> HIDE DEF a, b
  <2> DEFINE c == SubSeq(ids, a + 1, b)
  <2>5. c \in Seq(Nat) /\ Len(c) = b - a /\ \A i \in 1..(b - a) : c[i] = ids[a + i]
    <3>1. a \in Nat /\ b \in Nat /\ a <= b /\ b <= Len(ids)
      BY <2>3, <2>4
    <3>2. QED
      BY <3>1, PartOf
  <2>6. Chunk(k) = c
    BY DEF a, b
  <2> HIDE DEF c, Chunk
  <2>7. c # <<>> /\ DOMAIN c = 1..(b - a)
    BY <2>3, <2>4, <2>5
  <2>8. \A i \in 1..(b - a) : a + i \in DOMAIN ids
    BY <2>3, <2>4
  <2>9. QED
    BY <2>5, <2>6, <2>7, <2>8
<1> HIDE DEF Chunk
<1>5. QED
  BY <1>2, <1>3, <1>4

---------------------------------------------------------------------------
(* The requests of a call name stories that were sent.                     *)

WorkOK(w, n) ==
    /\ w \in Seq(Seq(Nat))
    /\ \A k \in DOMAIN w :
          w[k] # <<>> /\ \A i \in DOMAIN w[k] : w[k][i] \in 1..n

PendingOK(p, n) == p \in Seq(Nat) /\ \A i \in DOMAIN p : p[i] \in 1..n

LEMMA EmptyOK == ASSUME NEW n PROVE WorkOK(<<>>, n) /\ PendingOK(<<>>, n)
BY DEF WorkOK, PendingOK

LEMMA WorkGrows ==
    ASSUME NEW n \in Nat, NEW w, NEW p, WorkOK(w, n), PendingOK(p, n)
    PROVE  WorkOK(w, n + 1) /\ PendingOK(Append(p, n + 1), n + 1)
<1>1. WorkOK(w, n + 1)
  BY DEF WorkOK
<1>2. PendingOK(Append(p, n + 1), n + 1)
  BY DEF PendingOK
<1>3. QED
  BY <1>1, <1>2

LEMMA RequestsOK ==
    ASSUME NEW n, NEW p, PendingOK(p, n)
    PROVE  WorkOK(Requests(p), n)
<1>1. p \in Seq(Nat) /\ \A i \in DOMAIN p : p[i] \in 1..n
  BY DEF PendingOK
<1>2. QED
  BY <1>1, RequestsType DEF WorkOK

LEMMA TailOK ==
    ASSUME NEW n, NEW w, WorkOK(w, n), w # <<>>
    PROVE  /\ WorkOK(Tail(w), n)
           /\ Head(w) \in Seq(Nat) /\ Head(w) # <<>>
           /\ \A i \in DOMAIN Head(w) : Head(w)[i] \in 1..n
<1>1. w \in Seq(Seq(Nat)) /\ Len(w) \in Nat /\ Len(w) >= 1
  BY DEF WorkOK
<1>2. Head(w) = w[1] /\ 1 \in DOMAIN w
  BY <1>1
<1>3. PICK t : t = Tail(w)
  OBVIOUS
<1>4. t \in Seq(Seq(Nat)) /\ \A i \in DOMAIN t : i + 1 \in DOMAIN w /\ t[i] = w[i + 1]
  BY <1>1, <1>3
<1>5. WorkOK(t, n)
  BY <1>4 DEF WorkOK
<1>6. QED
  BY <1>2, <1>3, <1>5 DEF WorkOK

\* A chunk that is tried again, story by story.
Apart(ids) == IF Len(ids) > 1 THEN [i \in DOMAIN ids |-> <<ids[i]>>] ELSE <<>>

LEMMA ApartOK ==
    ASSUME NEW n, NEW w, WorkOK(w, n), w # <<>>
    PROVE  WorkOK(Apart(Head(w)) \o Tail(w), n)
<1>1. PICK h, t : h = Head(w) /\ t = Tail(w)
  OBVIOUS
<1>2. /\ WorkOK(t, n) /\ h \in Seq(Nat) /\ h # <<>>
      /\ \A i \in DOMAIN h : h[i] \in 1..n
  BY <1>1, TailOK
<1>3. PICK a : a = Apart(h)
  OBVIOUS
<1>4. /\ a \in Seq(Seq(Nat))
      /\ \A i \in DOMAIN a : i \in DOMAIN h /\ a[i] = <<h[i]>>
  <2>1. CASE Len(h) > 1
    <3>1. a = [i \in 1..Len(h) |-> <<h[i]>>]
      BY <1>2, <1>3, <2>1 DEF Apart
    <3>2. \A i \in 1..Len(h) : <<h[i]>> \in Seq(Nat)
      BY <1>2
    <3>3. QED
      BY <1>2, <3>1, <3>2
  <2>2. CASE ~(Len(h) > 1)
    BY <1>3, <2>2 DEF Apart
  <2>3. QED
    BY <2>1, <2>2
<1>5. WorkOK(a, n)
  <2>1. ASSUME NEW i \in DOMAIN a
        PROVE  a[i] # <<>> /\ \A k \in DOMAIN a[i] : a[i][k] \in 1..n
    <3>1. h[i] \in 1..n /\ a[i] = <<h[i]>>
      BY <1>2, <1>4
    <3>2. QED
      BY <3>1
  <2>2. QED
    BY <1>4, <2>1 DEF WorkOK
<1>6. PICK c : c = a \o t
  OBVIOUS
<1>7. /\ a \in Seq(Seq(Nat)) /\ t \in Seq(Seq(Nat))
  BY <1>2, <1>4 DEF WorkOK
<1>8. /\ c \in Seq(Seq(Nat)) /\ Len(c) = Len(a) + Len(t)
      /\ \A i \in 1..Len(c) : c[i] = IF i <= Len(a) THEN a[i] ELSE t[i - Len(a)]
  BY <1>6, <1>7
<1>9. WorkOK(c, n)
  <2>1. ASSUME NEW i \in DOMAIN c
        PROVE  (\E j \in DOMAIN a : c[i] = a[j]) \/ \E j \in DOMAIN t : c[i] = t[j]
    <3>1. i \in 1..Len(c) /\ Len(a) \in Nat /\ Len(t) \in Nat
      BY <1>7, <1>8
    <3>2. CASE i <= Len(a)
      <4>1. c[i] = a[i] /\ i \in DOMAIN a
        BY <1>7, <1>8, <3>1, <3>2
      <4>2. QED
        BY <4>1
    <3>3. CASE ~(i <= Len(a))
      <4>1. c[i] = t[i - Len(a)] /\ i - Len(a) \in 1..Len(t)
        BY <1>8, <3>1, <3>3
      <4>2. DOMAIN t = 1..Len(t)
        BY <1>7
      <4>3. QED
        BY <4>1, <4>2
    <3>4. QED
      BY <3>2, <3>3
  <2>2. QED
    BY <1>2, <1>5, <1>8, <2>1 DEF WorkOK
<1>10. QED
  BY <1>1, <1>3, <1>6, <1>9

LEMMA RestOK ==
    ASSUME NEW n, NEW p, PendingOK(p, n), NEW k \in Nat
    PROVE  PendingOK(SubSeq(p, k + 1, Len(p)), n)
<1>1. PICK s : s = SubSeq(p, k + 1, Len(p))
  OBVIOUS
<1>2. p \in Seq(Nat) /\ \A i \in 1..Len(p) : p[i] \in 1..n
  BY DEF PendingOK
<1>3. s \in Seq(Nat) /\ \A i \in 1..Len(s) : \E j \in 1..Len(p) : s[i] = p[j]
  <2>1. CASE k <= Len(p)
    <3>1. Len(p) \in Nat
      BY <1>2
    <3>2. /\ s \in Seq(Nat) /\ Len(s) = Len(p) - k
          /\ \A i \in 1..(Len(p) - k) : s[i] = p[k + i]
      BY <1>1, <1>2, <2>1, <3>1, PartOf
    <3>3. ASSUME NEW i \in 1..Len(s) PROVE \E j \in 1..Len(p) : s[i] = p[j]
      <4>1. i \in 1..(Len(p) - k) /\ k + i \in 1..Len(p)
        BY <2>1, <3>1, <3>2
      <4>2. QED
        BY <3>2, <4>1
    <3>4. QED
      BY <3>2, <3>3
  <2>2. CASE ~(k <= Len(p))
    <3>1. Len(p) \in Nat
      BY <1>2
    <3>2. s = <<>>
      BY <1>1, <2>2, <3>1, SubSeqEmpty
    <3>3. QED
      BY <3>2
  <2>3. QED
    BY <2>1, <2>2
<1>4. QED
  BY <1>1, <1>2, <1>3 DEF PendingOK

---------------------------------------------------------------------------
(* The stories of a request, and what may be answered to it.               *)

\* The numbers of stories that a feed has waiting and at work were given out.
Numbered ==
    \A f \in Feed :
        /\ Len(fate[f]) = Len(stories[f])
        /\ PendingOK(pending[f], Len(stories[f]))
        /\ WorkOK(work[f], Len(stories[f]))

\* A call that waits for an answer has a request; one that has a child has
\* what the child printed when it is gone, and the store as it was read.
Busy ==
    \A f \in Feed :
        /\ pc[f] \in {"running", "saving", "writing", "judging"} => work[f] # <<>>
        /\ pc[f] \in {"running", "saving", "writing"} \/ child[f] # None =>
              (child[f].status # "running" => child[f].says # None)
        /\ pc[f] \in {"saving", "writing"} =>
              UsesMemory(f) /\ child[f].says # None
        /\ pc[f] \in {"running", "saving", "writing"} /\ UsesMemory(f) =>
              held[f] \in [Feed -> Nat]

WellFormed == TypeOK /\ Numbered /\ Busy

LEMMA RequestedType ==
    ASSUME TypeOK, Numbered, NEW f \in Feed, work[f] # <<>>
    PROVE  /\ Head(work[f]) \in Seq(Nat) /\ Head(work[f]) # <<>>
           /\ \A i \in DOMAIN Head(work[f]) : Head(work[f])[i] \in 1..Len(stories[f])
           /\ Requested(f) \in Seq(Story) /\ Requested(f) # <<>>
           /\ DOMAIN Requested(f) = DOMAIN Head(work[f])
           /\ \A i \in DOMAIN Head(work[f]) :
                 Requested(f)[i] = stories[f][Head(work[f])[i]]
<1>1. PICK h, ss : h = Head(work[f]) /\ ss = stories[f]
  OBVIOUS
<1>2. /\ h \in Seq(Nat) /\ h # <<>> /\ ss \in Seq(Story)
      /\ \A i \in DOMAIN h : h[i] \in 1..Len(ss)
  BY <1>1, TailOK DEF Numbered, TypeOK, VariablesTyped, Attended
<1>3. Requested(f) = [i \in DOMAIN h |-> ss[h[i]]]
  BY <1>1 DEF Requested
<1>4. DOMAIN h = 1..Len(h) /\ Len(h) \in Nat /\ Len(h) >= 1
  BY <1>2
<1>5. \A i \in 1..Len(h) : ss[h[i]] \in Story
  BY <1>2, <1>4
<1>6. Requested(f) \in [1..Len(h) -> Story]
  BY <1>3, <1>4, <1>5
<1>7. Requested(f) \in Seq(Story) /\ Len(Requested(f)) = Len(h)
  BY <1>4, <1>6
<1>8. Requested(f) # <<>>
  BY <1>4, <1>7
<1>9. QED
  BY <1>1, <1>2, <1>3, <1>4, <1>7, <1>8

LEMMA ParsedType ==
    ASSUME NEW o \in Outputs
    PROVE  Parsed(o) \in Answer
<1>1. o \in Output
  BY InputsAssumption
<1>2. o.text \in Answer
  BY <1>1 DEF Output
<1>3. o.text.deck \in Text
  BY <1>2 DEF Answer
<1>4. Clamp(o.text.deck) \in Text
  BY <1>3 DEF Clamp, Says, Text
<1>5. \A w \in Wording : Says({w}) \in Text
  BY SaysText, WordingIsPhrase
<1>6. Says({"generic"}) \in Text /\ Says({"settled"}) \in Text
  BY <1>5 DEF Wording
<1>7. Told(Says({"generic"}), Clamp(o.text.deck), Says({"settled"}),
           {Says({"settled"})}) \in Answer
  BY <1>4, <1>6 DEF Told, Answer
<1>8. QED
  BY <1>2, <1>7 DEF Parsed

LEMMA ConsideredType ==
    ASSUME TypeOK, Numbered, NEW f \in Feed, work[f] # <<>>, answer[f] \in Answer
    PROVE  Considered(f) \in Answer
BY RequestedType, DeterministicAnswer DEF Considered

---------------------------------------------------------------------------
(* The actions keep the state well formed.                                 *)

LEMMA InitWell == ASSUME Init PROVE WellFormed
<1>1. TypeOK
  BY InputsAssumption DEF Init, TypeOK, VariablesTyped, Attended, Places
<1>2. Numbered
  BY EmptyOK DEF Init, Numbered
<1>3. Busy
  BY DEF Init, Busy
<1>4. QED
  BY <1>1, <1>2, <1>3 DEF WellFormed

LEMMA SettleWell ==
    ASSUME WellFormed, NEW f \in Feed, NEW s \in StoryKinds, Settle(f, s)
    PROVE  WellFormed'
<1> USE DEF WellFormed
<1>1. s \in Story /\ Fresh \in Fate
  BY InputsAssumption DEF Fresh, Fate
<1>2. TypeOK'
  BY <1>1 DEF Settle, TypeOK, VariablesTyped, Attended, call, store
<1>3. Numbered'
  <2>1. PICK n, p, w : n = Len(stories[f]) /\ p = pending[f] /\ w = work[f]
    OBVIOUS
  <2>2. n \in Nat /\ PendingOK(p, n) /\ WorkOK(w, n)
    BY <2>1 DEF Numbered, TypeOK, VariablesTyped, Attended
  <2>3. WorkOK(w, n + 1) /\ PendingOK(Append(p, n + 1), n + 1)
    BY <2>2, WorkGrows
  <2>4. /\ Len(stories'[f]) = n + 1 /\ Len(fate'[f]) = n + 1
        /\ pending'[f] = Append(p, n + 1) /\ work'[f] = w
    <3>1. /\ stories'[f] = Append(stories[f], s) /\ fate'[f] = Append(fate[f], Fresh)
          /\ pending'[f] = Append(pending[f], Len(stories[f]) + 1)
          /\ work'[f] = work[f]
      BY DEF Settle, TypeOK, VariablesTyped, Attended, call
    <3>2. /\ stories[f] \in Seq(Story) /\ fate[f] \in Seq(Fate)
          /\ Len(fate[f]) = Len(stories[f])
      BY DEF TypeOK, VariablesTyped, Attended, Numbered
    <3>3. QED
      BY <1>1, <2>1, <3>1, <3>2
  <2>5. \A g \in Feed : g # f =>
            /\ stories'[g] = stories[g] /\ fate'[g] = fate[g]
            /\ pending'[g] = pending[g] /\ work'[g] = work[g]
    BY DEF Settle, TypeOK, VariablesTyped, Attended, call
  <2>6. QED
    BY <2>3, <2>4, <2>5 DEF Numbered
<1>4. Busy'
  BY DEF Busy, Settle, call, store, UsesMemory
<1>5. QED
  BY <1>2, <1>3, <1>4

\* The newest entries of a memory.
LEMMA FirstType ==
    ASSUME NEW S, NEW s \in Seq(S), NEW n \in Nat
    PROVE  /\ FirstOf(s, n) \in Seq(S)
           /\ Len(FirstOf(s, n)) = IF Len(s) > n THEN n ELSE Len(s)
           /\ \A i \in 1..Len(FirstOf(s, n)) : FirstOf(s, n)[i] = s[i]
<1> DEFINE b == IF Len(s) > n THEN n ELSE Len(s)
<1>1. b \in Nat /\ b <= Len(s) /\ 0 <= b
  OBVIOUS
<1> HIDE DEF b
<1>2. /\ SubSeq(s, 0 + 1, b) \in Seq(S)
      /\ Len(SubSeq(s, 0 + 1, b)) = b - 0
      /\ \A i \in 1..(b - 0) : SubSeq(s, 0 + 1, b)[i] = s[0 + i]
  BY <1>1, PartOf
<1>3. 0 + 1 = 1 /\ b - 0 = b /\ \A i \in 1..b : 0 + i = i
  BY <1>1
<1>4. FirstOf(s, n) = SubSeq(s, 1, b)
  BY DEF FirstOf, b
<1>5. QED
  BY <1>2, <1>3, <1>4 DEF b

LEMMA BeginWell ==
    ASSUME WellFormed, NEW f \in Feed, Begin(f)
    PROVE  WellFormed'
<1> USE DEF WellFormed
<1>1. FirstOf(recent[f], RecentWindow) \in Seq(Summary)
  BY FirstType, RecentAssumption DEF TypeOK, VariablesTyped, Attended
<1>2. WorkOK(Requests(pending[f]), Len(stories[f]))
  BY RequestsOK DEF Numbered
<1>3. Requests(pending[f]) \in Seq(Seq(Nat))
  BY <1>2 DEF WorkOK
<1>4. TypeOK'
  <2>1. VariablesTyped'
    BY <1>1, <1>3 DEF Begin, TypeOK, VariablesTyped, Goto, Places, store, history
  <2>2. Attended'
    BY DEF Begin, TypeOK, VariablesTyped, Attended, Goto, store
  <2>3. QED
    BY <2>1, <2>2 DEF TypeOK
<1>5. Numbered'
  BY <1>2 DEF Begin, Numbered, TypeOK, VariablesTyped, Attended, store, history
<1>6. Busy'
  BY DEF Begin, Busy, TypeOK, VariablesTyped, Attended, Goto, UsesMemory, store, history
<1>7. QED
  BY <1>4, <1>5, <1>6

\* A request the guardrails reject.
LEMMA RejectWell ==
    ASSUME WellFormed, NEW f \in Feed, work[f] # <<>>, Reject(f)
    PROVE  /\ work' \in [Feed -> Seq(Seq(Nat))]
           /\ fate' \in [Feed -> Seq(Fate)]
           /\ \A g \in Feed : /\ Len(fate'[g]) = Len(fate[g])
                              /\ WorkOK(work'[g], Len(stories[g]))
           /\ pc' = [pc EXCEPT ![f] = "ready"]
<1> USE DEF WellFormed
<1>1. PICK ids, w : ids = Head(work[f]) /\ w = Apart(ids) \o Tail(work[f])
  OBVIOUS
<1>2. WorkOK(w, Len(stories[f]))
  BY <1>1, ApartOK DEF Numbered
<1>3. PICK r : r = Become(fate[f], ids, [as |-> "rejected", alone |-> TRUE])
  OBVIOUS
<1>4. r \in Seq(Fate) /\ Len(r) = Len(fate[f])
  <2>1. fate[f] \in Seq(Fate)
    BY DEF TypeOK, VariablesTyped, Attended
  <2>2. [as |-> "rejected", alone |-> TRUE] \in Fate
    BY DEF Fate
  <2>3. QED
    BY <1>3, <2>1, <2>2, BecomeType
<1>5. work' = [work EXCEPT ![f] = w]
  BY <1>1 DEF Reject, Apart
<1>6. fate' = [fate EXCEPT ![f] = IF Len(ids) > 1 THEN fate[f] ELSE r]
  BY <1>1, <1>3 DEF Reject
<1>7. pc' = [pc EXCEPT ![f] = "ready"]
  BY DEF Reject, Goto
<1>8. w \in Seq(Seq(Nat))
  BY <1>2 DEF WorkOK
<1>9. /\ work \in [Feed -> Seq(Seq(Nat))] /\ fate \in [Feed -> Seq(Fate)]
      /\ \A g \in Feed : WorkOK(work[g], Len(stories[g]))
  BY DEF TypeOK, VariablesTyped, Numbered
<1>10. QED
  BY <1>2, <1>4, <1>5, <1>6, <1>7, <1>8, <1>9

LEMMA AbortWell ==
    ASSUME WellFormed, NEW f \in Feed, Abort(f)
    PROVE  /\ work' = [work EXCEPT ![f] = <<>>]
           /\ fate' \in [Feed -> Seq(Fate)]
           /\ \A g \in Feed : /\ Len(fate'[g]) = Len(fate[g])
                              /\ WorkOK(work'[g], Len(stories[g]))
           /\ pc' = [pc EXCEPT ![f] = "idle"]
           /\ answer' = [answer EXCEPT ![f] = None]
<1> USE DEF WellFormed
<1>1. PICK r : r = Become(fate[f], pending[f], Fresh)
  OBVIOUS
<1>2. r \in Seq(Fate) /\ Len(r) = Len(fate[f])
  <2>1. fate[f] \in Seq(Fate)
    BY DEF TypeOK, VariablesTyped, Attended
  <2>2. Fresh \in Fate
    BY DEF Fate, Fresh
  <2>3. QED
    BY <1>1, <2>1, <2>2, BecomeType
<1>3. fate' = [fate EXCEPT ![f] = r]
  BY <1>1 DEF Abort
<1>4. QED
  BY <1>2, <1>3, EmptyOK DEF Abort, Goto, TypeOK, VariablesTyped, Attended, Numbered

\* A processor that has no answer: the state is as well formed as the child
\* and the store it leaves behind.
LEMMA UnavailableWell ==
    ASSUME WellFormed, NEW f \in Feed, work[f] # <<>>, Unavailable(f),
           UNCHANGED <<processor, stories, pending, recent, file, out, started>>,
           child' \in {child, [child EXCEPT ![f] = None]},
           held' \in {held, [held EXCEPT ![f] = None]},
           count' \in [failures : Nat, restarts : Nat]
    PROVE  WellFormed'
<1> USE DEF WellFormed
<1>1. CASE UsesMemory(f)
  <2>1. PICK a : a = Deterministic(Requested(f))
    OBVIOUS
  <2>2. a \in Answer
    BY <2>1, RequestedType, DeterministicAnswer
  <2>3. /\ answer' = [answer EXCEPT ![f] = a]
        /\ pc' = [pc EXCEPT ![f] = "judging"]
        /\ UNCHANGED <<work, memo, made, fate>>
    BY <1>1, <2>1 DEF Unavailable, Goto
  <2>4. TypeOK'
    BY <2>2, <2>3 DEF TypeOK, VariablesTyped, Attended, Places
  <2>5. Numbered'
    BY <2>3 DEF Numbered
  <2>6. Busy'
    BY <2>3 DEF Busy, UsesMemory, TypeOK, VariablesTyped, Attended
  <2>7. QED
    BY <2>4, <2>5, <2>6
<1>2. CASE ~UsesMemory(f)
  <2>1. Abort(f)
    BY <1>2 DEF Unavailable
  <2>2. /\ work' = [work EXCEPT ![f] = <<>>]
        /\ fate' \in [Feed -> Seq(Fate)]
        /\ \A g \in Feed : /\ Len(fate'[g]) = Len(fate[g])
                           /\ WorkOK(work'[g], Len(stories[g]))
        /\ pc' = [pc EXCEPT ![f] = "idle"]
        /\ answer' = [answer EXCEPT ![f] = None]
    BY <2>1, AbortWell
  <2>3. memo' = [memo EXCEPT ![f] = <<>>] /\ made' = [made EXCEPT ![f] = <<>>]
    BY <2>1 DEF Abort
  <2>4. TypeOK'
    <3>1. VariablesTyped'
      BY <2>2, <2>3 DEF TypeOK, VariablesTyped, Places
    <3>2. Attended'
      BY <2>2 DEF TypeOK, VariablesTyped, Attended
    <3>3. QED
      BY <3>1, <3>2 DEF TypeOK
  <2>5. Numbered'
    BY <2>2 DEF Numbered
  <2>6. Busy'
    BY <2>2 DEF Busy, UsesMemory, TypeOK, VariablesTyped
  <2>7. QED
    BY <2>4, <2>5, <2>6
<1>3. QED
  BY <1>1, <1>2

\* The request that a child is given.
LEMMA NewChildType ==
    ASSUME WellFormed, NEW f \in Feed, work[f] # <<>>, NEW n \in Nat,
           ~RequestIsRejected(Requested(f), memo[f])
    PROVE  /\ NewChild(f, n) \in Child
           /\ NewChild(f, n).status = "running" /\ NewChild(f, n).says = None
           /\ NewChild(f, n).session = n
           /\ \A i \in DOMAIN NewChild(f, n).asked :
                 AllSafe(NewChild(f, n).asked[i], HasTag(NewChild(f, n).asked[i]))
<1>1. Requested(f) \in Seq(Story)
  BY RequestedType DEF WellFormed
<1>2. \A i \in DOMAIN Requested(f) : ~IsRefused(Requested(f)[i])
  BY DEF RequestIsRejected
<1>3. PICK r : r = Redacted(Requested(f))
  OBVIOUS
<1>4. r \in Seq(Story) /\ \A i \in DOMAIN r : AllSafe(r[i], HasTag(r[i]))
  BY <1>1, <1>2, <1>3, RedactedSafe
<1>5. NewChild(f, n) = [asked |-> r, session |-> n, says |-> None, size |-> 0,
                        pipe |-> 0, status |-> "running"]
  BY <1>3 DEF NewChild
<1>6. QED
  BY <1>4, <1>5 DEF Child

LEMMA AskWell ==
    ASSUME WellFormed, NEW f \in Feed, Ask(f)
    PROVE  WellFormed'
<1> USE DEF WellFormed
<1>1. /\ pc[f] = "ready" /\ work[f] # <<>>
      /\ UNCHANGED <<processor, stories, pending, recent, file, out, started,
                     count>>
  BY DEF Ask
<1>2. CASE processor[f] = "deterministic"
  <2>1. PICK a : a = Deterministic(Requested(f))
    OBVIOUS
  <2>2. a \in Answer
    BY <1>1, <2>1, RequestedType, DeterministicAnswer
  <2>3. /\ answer' = [answer EXCEPT ![f] = a]
        /\ pc' = [pc EXCEPT ![f] = "judging"]
        /\ UNCHANGED <<work, memo, made, child, held, fate>>
    BY <1>2, <2>1 DEF Ask, Goto
  <2>4. TypeOK'
    BY <1>1, <2>2, <2>3 DEF TypeOK, VariablesTyped, Attended, Places
  <2>5. Numbered'
    BY <1>1, <2>3 DEF Numbered
  <2>6. Busy'
    BY <1>1, <2>3 DEF Busy, UsesMemory, TypeOK, VariablesTyped
  <2>7. QED
    BY <2>4, <2>5, <2>6
<1>3. CASE /\ processor[f] # "deterministic"
           /\ RequestIsRejected(Requested(f), memo[f])
  <2>1. Reject(f) /\ UNCHANGED <<memo, made, child, held, answer>>
    BY <1>3 DEF Ask
  <2>2. /\ work' \in [Feed -> Seq(Seq(Nat))]
        /\ fate' \in [Feed -> Seq(Fate)]
        /\ \A g \in Feed : /\ Len(fate'[g]) = Len(fate[g])
                           /\ WorkOK(work'[g], Len(stories[g]))
        /\ pc' = [pc EXCEPT ![f] = "ready"]
    BY <1>1, <2>1, RejectWell
  <2>3. \A g \in Feed : g # f => work'[g] = work[g]
    BY <2>1 DEF Reject, TypeOK, VariablesTyped
  <2>4. TypeOK'
    <3>1. VariablesTyped'
      BY <1>1, <2>1, <2>2 DEF TypeOK, VariablesTyped, Places
    <3>2. Attended'
      BY <2>1, <2>2 DEF TypeOK, VariablesTyped, Attended
    <3>3. QED
      BY <3>1, <3>2 DEF TypeOK
  <2>5. Numbered'
    BY <1>1, <2>2 DEF Numbered
  <2>6. Busy'
    BY <1>1, <2>1, <2>2, <2>3 DEF Busy, UsesMemory, TypeOK, VariablesTyped
  <2>7. QED
    BY <2>4, <2>5, <2>6
<1>4. CASE /\ processor[f] # "deterministic"
           /\ ~RequestIsRejected(Requested(f), memo[f])
           /\ UsesMemory(f) /\ file = Torn
  <2>1. Unavailable(f) /\ UNCHANGED <<child, held>>
    BY <1>4 DEF Ask
  <2>2. QED
    <3>1. /\ UNCHANGED <<processor, stories, pending, recent, file, out, started>>
          /\ child' = child /\ held' = held
          /\ count' \in [failures : Nat, restarts : Nat]
      BY <1>1, <2>1 DEF TypeOK, VariablesTyped
    <3>2. QED
      BY <1>1, <2>1, <3>1, UnavailableWell
<1>5. CASE /\ processor[f] # "deterministic"
           /\ ~RequestIsRejected(Requested(f), memo[f])
           /\ ~(UsesMemory(f) /\ file = Torn)
  <2>1. PICK n : n = IF UsesMemory(f) THEN SessionOf(f) ELSE 0
    OBVIOUS
  <2>2. n \in Nat
    BY <1>5, <2>1 DEF SessionOf, TypeOK, VariablesTyped
  <2>3. PICK c : c = NewChild(f, n)
    OBVIOUS
  <2>4. c \in Child /\ c.status = "running" /\ c.says = None
    BY <1>1, <1>5, <2>2, <2>3, NewChildType
  <2>5. /\ child' = [child EXCEPT ![f] = c]
        /\ held' = [held EXCEPT ![f] = IF UsesMemory(f) THEN file ELSE None]
        /\ pc' = [pc EXCEPT ![f] = "running"]
        /\ UNCHANGED <<work, memo, made, answer, fate>>
    BY <1>5, <2>1, <2>3 DEF Ask, Goto
  <2>6. TypeOK'
    <3>1. VariablesTyped'
      BY <1>1, <2>5 DEF TypeOK, VariablesTyped, Places
    <3>2. Attended'
      BY <2>4, <2>5 DEF TypeOK, VariablesTyped, Attended
    <3>3. QED
      BY <3>1, <3>2 DEF TypeOK
  <2>7. Numbered'
    BY <1>1, <2>5 DEF Numbered
  <2>8. Busy'
    BY <1>1, <1>5, <2>4, <2>5 DEF Busy, UsesMemory, TypeOK, VariablesTyped
  <2>9. QED
    BY <2>6, <2>7, <2>8
<1>6. QED
  BY <1>2, <1>3, <1>4, <1>5

LEMMA ChildPrintsWell ==
    ASSUME WellFormed, NEW f \in Feed, NEW o \in Outputs, ChildPrints(f, o)
    PROVE  WellFormed'
<1> USE DEF WellFormed
<1>1. child[f] # None /\ child[f].says = None /\ child[f].status = "running"
  BY DEF ChildPrints
<1>2. child[f] \in Child /\ o \in Output /\ o # None
  BY <1>1, InputsAssumption DEF TypeOK, Attended
<1>3. PICK p, n :
         /\ p = IF o.size < PipeCapacity THEN o.size ELSE PipeCapacity
         /\ n = IF Begins(f) THEN Len(started) + 1 ELSE child[f].session
  OBVIOUS
<1>4. PICK c : c = HasPrinted(f, o)
  OBVIOUS
<1>5. c \in Child /\ c.says = o /\ c.status = "running"
  <2>1. o.size \in Nat /\ Len(started) \in Nat /\ PipeCapacity \in Nat
    BY <1>2, SizesAssumption DEF Output, TypeOK, VariablesTyped
  <2>2. p \in Nat
    BY <1>3, <2>1
  <2>3. n \in Nat
    BY <1>2, <1>3, <2>1 DEF Child
  <2>4. c = [child[f] EXCEPT !.says = o, !.size = o.size, !.pipe = p,
                             !.session = n]
    BY <1>3, <1>4 DEF HasPrinted
  <2>5. QED
    BY <1>1, <1>2, <2>1, <2>2, <2>3, <2>4 DEF Child
<1>6. /\ child' = [child EXCEPT ![f] = c]
      /\ started' = IF Begins(f) THEN Append(started, f) ELSE started
      /\ UNCHANGED <<processor, stories, pending, call, recent, store, answer,
                     out, fate, count>>
  BY <1>4 DEF ChildPrints
<1>7. TypeOK'
  <2>1. VariablesTyped'
    BY <1>6 DEF TypeOK, VariablesTyped, call, store
  <2>2. Attended'
    BY <1>5, <1>6 DEF TypeOK, VariablesTyped, Attended, call
  <2>3. QED
    BY <2>1, <2>2 DEF TypeOK
<1>8. Numbered'
  BY <1>6 DEF Numbered, call
<1>9. Busy'
  BY <1>2, <1>5, <1>6 DEF Busy, UsesMemory, call, store, TypeOK, VariablesTyped
<1>10. QED
  BY <1>7, <1>8, <1>9

LEMMA ChildExitsWell ==
    ASSUME WellFormed, NEW f \in Feed, NEW status \in {"ok", "failed"},
           ChildExits(f, status)
    PROVE  WellFormed'
<1> USE DEF WellFormed
<1>1. /\ child[f] # None /\ child[f].says # None
      /\ child' = [child EXCEPT ![f].status = status]
      /\ UNCHANGED <<processor, stories, pending, call, recent, store, answer,
                     history, count>>
  BY DEF ChildExits
<1>2. PICK c : c = [child[f] EXCEPT !.status = status]
  OBVIOUS
<1>3. c \in Child /\ c.says # None
  BY <1>1, <1>2 DEF TypeOK, Attended, Child
<1>4. child' = [child EXCEPT ![f] = c]
  BY <1>1, <1>2 DEF TypeOK, VariablesTyped
<1>5. TypeOK'
  <2>1. VariablesTyped'
    BY <1>1, <1>4 DEF TypeOK, VariablesTyped, call, store, history
  <2>2. Attended'
    BY <1>1, <1>3, <1>4 DEF TypeOK, VariablesTyped, Attended, call
  <2>3. QED
    BY <2>1, <2>2 DEF TypeOK
<1>6. Numbered'
  BY <1>1 DEF Numbered, call, history
<1>7. Busy'
  BY <1>1, <1>3, <1>4 DEF Busy, UsesMemory, call, store, TypeOK, VariablesTyped
<1>8. QED
  BY <1>5, <1>6, <1>7

LEMMA KillWell ==
    ASSUME WellFormed, NEW f \in Feed, Kill(f)
    PROVE  WellFormed'
<1>1. /\ pc[f] = "running" /\ Unavailable(f)
      /\ child' = [child EXCEPT ![f] = None]
      /\ UNCHANGED <<processor, stories, pending, recent, file, held, out,
                     started, count>>
  BY DEF Kill, store
<1>2. /\ work[f] # <<>> /\ child'[f] = None
      /\ count' \in [failures : Nat, restarts : Nat]
  BY <1>1 DEF WellFormed, Busy, TypeOK, VariablesTyped
<1>3. QED
  BY <1>1, <1>2, UnavailableWell

LEMMA CollectWell ==
    ASSUME WellFormed, NEW f \in Feed, Collect(f)
    PROVE  WellFormed'
<1> USE DEF WellFormed
<1>1. /\ pc[f] = "running" /\ child[f].status # "running" /\ work[f] # <<>>
      /\ child[f].says # None /\ child[f] \in Child
      /\ UNCHANGED <<processor, stories, pending, recent, file, held, out,
                     started, count>>
  BY DEF Collect, store, Busy, TypeOK, Attended
<1>2. CASE child[f].status = "failed" \/ child[f].size > MaxOutput
  <2>1. /\ Unavailable(f) /\ child' = [child EXCEPT ![f] = None]
        /\ count' \in [failures : Nat, restarts : Nat]
    BY <1>1, <1>2 DEF Collect, TypeOK, VariablesTyped
  <2>2. QED
    BY <1>1, <2>1, UnavailableWell
<1>3. CASE ~(child[f].status = "failed" \/ child[f].size > MaxOutput)
  <2>1. PICK a : a = Parsed(child[f].says)
    OBVIOUS
  <2>2. a \in Answer
    BY <1>1, <2>1, ParsedType DEF Child
  <2>3. /\ answer' = [answer EXCEPT ![f] = a]
        /\ UNCHANGED <<work, memo, made, fate>>
    BY <1>3, <2>1 DEF Collect
  <2>4. CASE UsesMemory(f)
    <3>1. pc' = [pc EXCEPT ![f] = "saving"] /\ UNCHANGED child
      BY <1>3, <2>4 DEF Collect, Goto
    <3>2. TypeOK'
      BY <1>1, <2>2, <2>3, <3>1 DEF TypeOK, VariablesTyped, Attended, Places
    <3>3. Numbered'
      BY <1>1, <2>3 DEF Numbered
    <3>4. Busy'
      BY <1>1, <2>3, <2>4, <3>1 DEF Busy, UsesMemory, TypeOK, VariablesTyped
    <3>5. QED
      BY <3>2, <3>3, <3>4
  <2>5. CASE ~UsesMemory(f)
    <3>1. pc' = [pc EXCEPT ![f] = "judging"] /\ child' = [child EXCEPT ![f] = None]
      BY <1>3, <2>5 DEF Collect, Goto
    <3>2. TypeOK'
      BY <1>1, <2>2, <2>3, <3>1 DEF TypeOK, VariablesTyped, Attended, Places
    <3>3. Numbered'
      BY <1>1, <2>3 DEF Numbered
    <3>4. Busy'
      BY <1>1, <2>3, <3>1 DEF Busy, UsesMemory, TypeOK, VariablesTyped
    <3>5. QED
      BY <3>2, <3>3, <3>4
  <2>6. QED
    BY <2>4, <2>5
<1>4. QED
  BY <1>2, <1>3

LEMMA TruncateWell ==
    ASSUME WellFormed, NEW f \in Feed, Truncate(f)
    PROVE  WellFormed'
<1> USE DEF WellFormed
<1>1. TypeOK'
  BY DEF Truncate, Goto, TypeOK, VariablesTyped, Attended, Places, history
<1>2. Numbered'
  BY DEF Truncate, Numbered, history
<1>3. Busy'
  BY DEF Truncate, Goto, Busy, UsesMemory, TypeOK, VariablesTyped
<1>4. QED
  BY <1>1, <1>2, <1>3

LEMMA SessionAfterType ==
    ASSUME WellFormed, NEW f \in Feed, pc[f] = "writing"
    PROVE  SessionAfter(f) \in Nat /\ held[f] \in [Feed -> Nat]
<1>1. held[f] \in [Feed -> Nat] /\ child[f] \in Child
  BY DEF WellFormed, Busy, TypeOK, Attended
<1>2. QED
  BY <1>1 DEF SessionAfter, Child

LEMMA WriteWell ==
    ASSUME WellFormed, NEW f \in Feed, Write(f)
    PROVE  WellFormed'
<1> USE DEF WellFormed
<1>1. PICK n, h : n = SessionAfter(f) /\ h = held[f]
  OBVIOUS
<1>2. n \in Nat /\ h \in [Feed -> Nat]
  BY <1>1, SessionAfterType DEF Write
<1>3. file' = [h EXCEPT ![f] = n]
  BY <1>1 DEF Write
<1>4. TypeOK'
  <2>1. VariablesTyped'
    <3>1. file' \in [Feed -> Nat]
      BY <1>2, <1>3
    <3>2. /\ held' = [held EXCEPT ![f] = None]
          /\ child' = [child EXCEPT ![f] = None]
          /\ pc' = [pc EXCEPT ![f] = "judging"]
          /\ UNCHANGED <<processor, stories, pending, work, memo, made, recent,
                         answer, out, fate, started, count>>
      BY DEF Write, Goto, history
    <3>3. QED
      BY <3>1, <3>2 DEF TypeOK, VariablesTyped, Places
  <2>2. Attended'
    BY DEF Write, Goto, TypeOK, VariablesTyped, Attended
  <2>3. QED
    BY <2>1, <2>2 DEF TypeOK
<1>5. Numbered'
  BY DEF Write, Numbered, history
<1>6. Busy'
  BY DEF Write, Goto, Busy, UsesMemory, TypeOK, VariablesTyped
<1>7. QED
  BY <1>4, <1>5, <1>6

LEMMA FailType ==
    ASSUME count \in [failures : Nat, restarts : Nat], Fail
    PROVE  count' \in [failures : Nat, restarts : Nat]
BY DEF Fail

LEMMA WriteFailsWell ==
    ASSUME WellFormed, NEW f \in Feed, WriteFails(f)
    PROVE  WellFormed'
<1>1. /\ pc[f] = "writing" /\ Unavailable(f)
      /\ child' = [child EXCEPT ![f] = None] /\ held' = [held EXCEPT ![f] = None]
      /\ UNCHANGED <<processor, stories, pending, recent, file, out, started>>
  BY DEF WriteFails
<1>2. work[f] # <<>>
  BY <1>1 DEF WellFormed, Busy
<1>4. count' \in [failures : Nat, restarts : Nat]
  BY FailType DEF WriteFails, WellFormed, TypeOK, VariablesTyped
<1>5. QED
  BY <1>1, <1>2, <1>4, UnavailableWell

\* A call that was ended: nothing is left of it but its stories.
LEMMA EndedWell ==
    ASSUME WellFormed, NEW f \in Feed, Abort(f),
           UNCHANGED <<processor, stories, pending, recent, store, child, out,
                       started>>,
           count' \in [failures : Nat, restarts : Nat]
    PROVE  WellFormed'
<1> USE DEF WellFormed
<1>1. /\ work' = [work EXCEPT ![f] = <<>>]
      /\ fate' \in [Feed -> Seq(Fate)]
      /\ \A g \in Feed : /\ Len(fate'[g]) = Len(fate[g])
                         /\ WorkOK(work'[g], Len(stories[g]))
      /\ pc' = [pc EXCEPT ![f] = "idle"]
      /\ answer' = [answer EXCEPT ![f] = None]
  BY AbortWell
<1>2. memo' = [memo EXCEPT ![f] = <<>>] /\ made' = [made EXCEPT ![f] = <<>>]
  BY DEF Abort
<1>3. TypeOK'
  <2>1. VariablesTyped'
    BY <1>1, <1>2 DEF TypeOK, VariablesTyped, Places, store
  <2>2. Attended'
    BY <1>1 DEF TypeOK, VariablesTyped, Attended
  <2>3. QED
    BY <2>1, <2>2 DEF TypeOK
<1>4. Numbered'
  BY <1>1 DEF Numbered
<1>5. Busy'
  BY <1>1 DEF Busy, UsesMemory, TypeOK, VariablesTyped, store
<1>6. QED
  BY <1>3, <1>4, <1>5

LEMMA ImageFailsWell ==
    ASSUME WellFormed, NEW f \in Feed, ImageFails(f)
    PROVE  WellFormed'
<1>1. /\ Abort(f)
      /\ UNCHANGED <<processor, stories, pending, recent, store, child, out,
                     started>>
  BY DEF ImageFails
<1>2. count' \in [failures : Nat, restarts : Nat]
  BY FailType DEF ImageFails, WellFormed, TypeOK, VariablesTyped
<1>3. QED
  BY <1>1, <1>2, EndedWell

LEMMA FinishWell ==
    ASSUME WellFormed, NEW f \in Feed, Finish(f)
    PROVE  WellFormed'
<1> USE DEF WellFormed
<1>1. Taken(f) \in Nat
  <2>1. pending[f] \in Seq(Nat)
    BY DEF TypeOK, VariablesTyped
  <2>2. IsFiniteSet(1..Len(pending[f]))
    BY <2>1, FS_Interval
  <2>3. IsFiniteSet({i \in DOMAIN pending[f] :
                        fate[f][pending[f][i]].as # "pending"})
    BY <2>1, <2>2, FS_Subset
  <2>4. QED
    BY <2>3, FS_CardinalityType DEF Taken
<1>2. PICK p : p = SubSeq(pending[f], Taken(f) + 1, Len(pending[f]))
  OBVIOUS
<1>3. PendingOK(p, Len(stories[f]))
  BY <1>1, <1>2, RestOK DEF Numbered
<1>4. p \in Seq(Nat)
  BY <1>3 DEF PendingOK
<1>5. pending' = [pending EXCEPT ![f] = p]
  BY <1>2 DEF Finish
<1>6. PICK o : o = out[f] \o made[f]
  OBVIOUS
<1>7. o \in Seq(Summary)
  BY <1>6 DEF TypeOK, VariablesTyped
<1>8. TypeOK'
  <2>1. VariablesTyped'
    <3>1. /\ recent' = [recent EXCEPT ![f] = memo[f]]
          /\ out' = [out EXCEPT ![f] = o]
          /\ memo' = [memo EXCEPT ![f] = <<>>]
          /\ made' = [made EXCEPT ![f] = <<>>]
          /\ pc' = [pc EXCEPT ![f] = "idle"]
          /\ UNCHANGED <<processor, stories, work, file, held, child, answer,
                         fate, started, count>>
      BY <1>6 DEF Finish, Goto, store
    <3>2. QED
      BY <1>4, <1>5, <1>7, <3>1 DEF TypeOK, VariablesTyped, Places
  <2>2. Attended'
    BY DEF Finish, Goto, TypeOK, VariablesTyped, Attended
  <2>3. QED
    BY <2>1, <2>2 DEF TypeOK
<1>9. Numbered'
  BY <1>3, <1>5 DEF Finish, Numbered, TypeOK, VariablesTyped
<1>10. Busy'
  BY DEF Finish, Goto, Busy, UsesMemory, TypeOK, VariablesTyped, store
<1>11. QED
  BY <1>8, <1>9, <1>10

LEMMA RestartWell ==
    ASSUME WellFormed, NEW f \in Feed, Restart(f)
    PROVE  WellFormed'
<1> USE DEF WellFormed
<1>1. PICK r : r = Become(fate[f], pending[f], [Fresh EXCEPT !.as = "lost"])
  OBVIOUS
<1>2. r \in Seq(Fate) /\ Len(r) = Len(fate[f])
  <2>1. fate[f] \in Seq(Fate)
    BY DEF TypeOK, VariablesTyped
  <2>2. [Fresh EXCEPT !.as = "lost"] \in Fate
    BY DEF Fate, Fresh
  <2>3. QED
    BY <1>1, <2>1, <2>2, BecomeType
<1>3. fate' = [fate EXCEPT ![f] = r]
  BY <1>1 DEF Restart
<1>4. TypeOK'
  <2>1. VariablesTyped'
    <3>1. /\ pending' = [pending EXCEPT ![f] = <<>>]
          /\ work' = [work EXCEPT ![f] = <<>>]
          /\ memo' = [memo EXCEPT ![f] = <<>>]
          /\ made' = [made EXCEPT ![f] = <<>>]
          /\ recent' = [recent EXCEPT ![f] = <<>>]
          /\ held' = [held EXCEPT ![f] = None]
          /\ child' = [child EXCEPT ![f] = None]
          /\ answer' = [answer EXCEPT ![f] = None]
          /\ out' = [out EXCEPT ![f] = <<>>]
          /\ pc' = [pc EXCEPT ![f] = "idle"]
          /\ UNCHANGED <<processor, stories, file, started>>
      BY DEF Restart, Goto
    <3>2. count' \in [failures : Nat, restarts : Nat]
      <4>1. /\ count \in [failures : Nat, restarts : Nat]
            /\ count' = [count EXCEPT !.restarts = @ + 1]
        BY DEF Restart, TypeOK, VariablesTyped
      <4>2. QED
        BY <4>1
    <3>3. QED
      BY <1>2, <1>3, <3>1, <3>2 DEF TypeOK, VariablesTyped, Places
  <2>2. Attended'
    BY DEF Restart, Goto, TypeOK, VariablesTyped, Attended
  <2>3. QED
    BY <2>1, <2>2 DEF TypeOK
<1>5. Numbered'
  BY <1>2, <1>3, EmptyOK DEF Restart, Numbered, TypeOK, VariablesTyped
<1>6. Busy'
  BY DEF Restart, Goto, Busy, UsesMemory, TypeOK, VariablesTyped
<1>7. QED
  BY <1>4, <1>5, <1>6

\* The candidate that is judged, and the decision about it.
LEMMA CandidateType ==
    ASSUME WellFormed, NEW f \in Feed, pc[f] = "judging", ~IsRefused(Considered(f))
    PROVE  /\ Candidate(f) \in Summary
           /\ AllSafe(Candidate(f), Candidate(f).tagged)
           /\ \A i \in DOMAIN Requested(f) :
                 Requested(f)[i].score <= Candidate(f).score
           /\ Phrases(Candidate(f).deck) # {}
<1>1. work[f] # <<>> /\ answer[f] \in Answer
  BY DEF WellFormed, Busy, TypeOK, Attended
<1>2. /\ Requested(f) \in Seq(Story) /\ Requested(f) # <<>>
      /\ Considered(f) \in Answer
  BY <1>1, RequestedType, ConsideredType DEF WellFormed
<1>3. QED
  BY <1>2, BuildProperties, TopScoreProperties DEF Candidate

\* What a judgement that is no rejection does.
Judged(f, d, s) ==
    /\ fate' = [fate EXCEPT ![f] = Become(@, Head(work[f]),
                   [as |-> d, alone |-> Len(Head(work[f])) = 1])]
    /\ IF d = "published"
       THEN /\ memo' = [memo EXCEPT ![f] = FirstOf(<<s>> \o @, RecentWindow)]
            /\ made' = [made EXCEPT ![f] = Append(@, s)]
       ELSE UNCHANGED <<memo, made>>
    /\ work' = [work EXCEPT ![f] = Tail(@)]
    /\ pc' = [pc EXCEPT ![f] = "ready"]

LEMMA JudgeCases ==
    ASSUME NEW f \in Feed, Judge(f)
    PROVE  /\ pc[f] = "judging"
           /\ answer' = [answer EXCEPT ![f] = None]
           /\ UNCHANGED <<processor, stories, pending, recent, file, held, child,
                          out, started, count>>
           /\ IF IsRefused(Considered(f))
              THEN Reject(f) /\ UNCHANGED <<memo, made>>
              ELSE Judged(f, Decision(f, Candidate(f), memo[f]), Candidate(f))
BY DEF Judge, Judged, Goto, store

LEMMA JudgeWell ==
    ASSUME WellFormed, NEW f \in Feed, Judge(f)
    PROVE  WellFormed'
<1> USE DEF WellFormed
<1>1. /\ pc[f] = "judging"
      /\ answer' = [answer EXCEPT ![f] = None]
      /\ UNCHANGED <<processor, stories, pending, recent, file, held, child,
                     out, started, count>>
      /\ work[f] # <<>>
  BY JudgeCases DEF Busy
<1>2. CASE IsRefused(Considered(f))
  <2>1. Reject(f) /\ UNCHANGED <<memo, made>>
    BY <1>2, JudgeCases
  <2>2. /\ work' \in [Feed -> Seq(Seq(Nat))]
        /\ fate' \in [Feed -> Seq(Fate)]
        /\ \A g \in Feed : /\ Len(fate'[g]) = Len(fate[g])
                           /\ WorkOK(work'[g], Len(stories[g]))
        /\ pc' = [pc EXCEPT ![f] = "ready"]
    BY <1>1, <2>1, RejectWell
  <2>3. \A g \in Feed : g # f => work'[g] = work[g]
    BY <2>1 DEF Reject, TypeOK, VariablesTyped
  <2>4. TypeOK'
    <3>1. VariablesTyped'
      BY <1>1, <2>1, <2>2 DEF TypeOK, VariablesTyped, Places
    <3>2. Attended'
      BY <1>1, <2>2 DEF TypeOK, VariablesTyped, Attended
    <3>3. QED
      BY <3>1, <3>2 DEF TypeOK
  <2>5. Numbered'
    BY <1>1, <2>2 DEF Numbered
  <2>6. Busy'
    BY <1>1, <2>1, <2>2, <2>3 DEF Busy, UsesMemory, TypeOK, VariablesTyped
  <2>7. QED
    BY <2>4, <2>5, <2>6
<1>3. CASE ~IsRefused(Considered(f))
  <2>1. PICK s, d : s = Candidate(f) /\ d = Decision(f, s, memo[f])
    OBVIOUS
  <2>2. Judged(f, d, s)
    BY <1>3, <2>1, JudgeCases
  <2>3. s \in Summary /\ Phrases(s.deck) # {}
    BY <1>1, <1>3, <2>1, CandidateType
  <2>4. memo[f] \in Seq(Summary) /\ made[f] \in Seq(Summary) /\ fate[f] \in Seq(Fate)
    BY DEF TypeOK, VariablesTyped
  <2>5. d \in {"dull", "duplicate", "declined", "published"}
    BY <2>1, <2>3, <2>4, DecisionProperties
  <2>6. PICK ids, t : ids = Head(work[f]) /\ t = Tail(work[f])
    OBVIOUS
  <2>7. WorkOK(t, Len(stories[f]))
    BY <1>1, <2>6, TailOK DEF Numbered
  <2>8. PICK r : r = Become(fate[f], ids, [as |-> d, alone |-> Len(ids) = 1])
    OBVIOUS
  <2>9. r \in Seq(Fate) /\ Len(r) = Len(fate[f])
    <3>1. [as |-> d, alone |-> Len(ids) = 1] \in Fate
      BY <2>5 DEF Fate
    <3>2. QED
      BY <2>4, <2>8, <3>1, BecomeType
  <2>10. PICK m, k : /\ m = FirstOf(<<s>> \o memo[f], RecentWindow)
                     /\ k = Append(made[f], s)
    OBVIOUS
  <2>11. m \in Seq(Summary) /\ k \in Seq(Summary)
    <3>1. PICK c : c = <<s>> \o memo[f]
      OBVIOUS
    <3>2. c \in Seq(Summary)
      BY <2>3, <2>4, <3>1
    <3>3. m = FirstOf(c, RecentWindow)
      BY <2>10, <3>1
    <3>4. m \in Seq(Summary)
      BY <3>2, <3>3, FirstType, RecentAssumption
    <3>5. k \in Seq(Summary)
      BY <2>3, <2>4, <2>10
    <3>6. QED
      BY <3>4, <3>5
  <2>12. /\ fate' = [fate EXCEPT ![f] = r]
         /\ work' = [work EXCEPT ![f] = t]
         /\ pc' = [pc EXCEPT ![f] = "ready"]
         /\ \/ /\ memo' = [memo EXCEPT ![f] = m]
               /\ made' = [made EXCEPT ![f] = k]
            \/ UNCHANGED <<memo, made>>
    BY <2>2, <2>6, <2>8, <2>10 DEF Judged
  <2>13. t \in Seq(Seq(Nat))
    BY <2>7 DEF WorkOK
  <2>14. TypeOK'
    <3>0. memo' \in [Feed -> Seq(Summary)] /\ made' \in [Feed -> Seq(Summary)]
      <4>1. memo \in [Feed -> Seq(Summary)] /\ made \in [Feed -> Seq(Summary)]
        BY DEF TypeOK, VariablesTyped
      <4>2. \/ /\ memo' = [memo EXCEPT ![f] = m]
               /\ made' = [made EXCEPT ![f] = k]
            \/ memo' = memo /\ made' = made
        BY <2>12
      <4>3. QED
        BY <2>11, <4>1, <4>2
    <3>1. VariablesTyped'
      BY <1>1, <2>9, <2>12, <2>13, <3>0 DEF TypeOK, VariablesTyped, Places
    <3>2. Attended'
      BY <1>1, <2>12 DEF TypeOK, VariablesTyped, Attended
    <3>3. QED
      BY <3>1, <3>2 DEF TypeOK
  <2>15. Numbered'
    BY <1>1, <2>7, <2>9, <2>12 DEF Numbered, TypeOK, VariablesTyped
  <2>16. Busy'
    BY <1>1, <2>12 DEF Busy, UsesMemory, TypeOK, VariablesTyped
  <2>17. QED
    BY <2>14, <2>15, <2>16
<1>4. QED
  BY <1>2, <1>3

\* Every step keeps the state well formed.
LEMMA WellStep ==
    ASSUME WellFormed, [Next]_vars
    PROVE  WellFormed'
<1>1. CASE UNCHANGED vars
  BY <1>1 DEF vars, call, store, history, WellFormed, TypeOK, VariablesTyped,
              Attended, Numbered, Busy, UsesMemory
<1>2. ASSUME NEW f \in Feed, Await(f)
      PROVE  WellFormed'
  BY <1>2, CollectWell, KillWell DEF Await
<1>3. ASSUME NEW f \in Feed, Work(f)
      PROVE  WellFormed'
  BY <1>3, BeginWell, AskWell, TruncateWell, WriteWell, JudgeWell, FinishWell
     DEF Work
<1>4. ASSUME NEW f \in Feed,
             \/ WriteFails(f) \/ ImageFails(f) \/ Restart(f)
             \/ \E s \in StoryKinds : Settle(f, s)
             \/ \E o \in Outputs : ChildPrints(f, o)
             \/ \E status \in {"ok", "failed"} : ChildExits(f, status)
      PROVE  WellFormed'
  BY <1>4, WriteFailsWell, ImageFailsWell, RestartWell, SettleWell,
     ChildPrintsWell, ChildExitsWell
<1>5. QED
  BY <1>1, <1>2, <1>3, <1>4 DEF Next

\* Every variable keeps its type, a call that waits for a child has one, and a
\* call that judges has an answer, wherever publishers and children stop.
THEOREM TypeCorrect == Spec => []TypeOK
<1>1. Init => WellFormed
  BY InitWell
<1>2. WellFormed /\ [Next]_vars => WellFormed'
  BY WellStep
<1>3. WellFormed => TypeOK
  BY DEF WellFormed
<1>4. QED
  BY <1>1, <1>2, <1>3, PTL DEF Spec

---------------------------------------------------------------------------
(* Children and sessions.                                                  *)

Tended == {"running", "saving", "writing"}

HasChild(f) == pc[f] \in Tended \/ child[f] # None

\* In a step, a feed keeps the child it has, with the store as it read it, or
\* lets go of it; it gets no new one, and the child does nothing.
Quiet(g) ==
    \/ pc'[g] \notin Tended /\ child'[g] \in {child[g], None}
    \/ /\ pc[g] \in Tended /\ pc'[g] \in Tended
       /\ child'[g] = child[g] /\ held'[g] = held[g]

QuietStep ==
    /\ \A g \in Feed : Quiet(g)
    /\ UNCHANGED <<processor, started>>

LEMMA UnavailableQuiet ==
    ASSUME WellFormed, NEW f \in Feed, Unavailable(f),
           child' \in {child, [child EXCEPT ![f] = None]},
           held' \in {held, [held EXCEPT ![f] = None]}
    PROVE  \A g \in Feed : Quiet(g)
<1>1. /\ pc' \in {[pc EXCEPT ![f] = "judging"], [pc EXCEPT ![f] = "idle"]}
      /\ pc \in [Feed -> Places] /\ DOMAIN held = Feed /\ DOMAIN child = Feed
  BY DEF Unavailable, Abort, Goto, WellFormed, TypeOK, VariablesTyped
<1>2. QED
  BY <1>1 DEF Quiet, Tended

\* A request that a child is started for.
Starts(f) ==
    /\ processor[f] # "deterministic"
    /\ ~RequestIsRejected(Requested(f), memo[f])
    /\ ~(UsesMemory(f) /\ file = Torn)

LEMMA QuietSteps ==
    ASSUME WellFormed, NEW f \in Feed,
           \/ Begin(f) \/ Kill(f) \/ Collect(f) \/ Truncate(f) \/ Write(f)
           \/ WriteFails(f) \/ Judge(f) \/ ImageFails(f) \/ Finish(f)
           \/ Restart(f)
           \/ \E s \in StoryKinds : Settle(f, s)
           \/ Ask(f) /\ ~Starts(f)
    PROVE  QuietStep
<1>1. pc \in [Feed -> Places] /\ DOMAIN held = Feed /\ DOMAIN child = Feed
  BY DEF WellFormed, TypeOK, VariablesTyped
<1>2. CASE Begin(f) \/ Finish(f)
  <2>1. /\ pc' \in {[pc EXCEPT ![f] = "ready"], [pc EXCEPT ![f] = "idle"]}
        /\ UNCHANGED <<processor, started, child, held>>
    BY <1>2 DEF Begin, Finish, Goto, store, history
  <2>2. QED
    BY <1>1, <2>1 DEF QuietStep, Quiet, Tended
<1>3. CASE Kill(f) \/ WriteFails(f)
  <2>1. /\ Unavailable(f) /\ UNCHANGED <<processor, started>>
        /\ child' = [child EXCEPT ![f] = None]
        /\ held' \in {held, [held EXCEPT ![f] = None]}
    BY <1>3 DEF Kill, WriteFails, store
  <2>2. QED
    BY <2>1, UnavailableQuiet DEF QuietStep
<1>4. CASE Collect(f)
  <2>1. UNCHANGED <<processor, started, held>> /\ pc[f] = "running"
    BY <1>4 DEF Collect, store
  <2>2. CASE child[f].status = "failed" \/ child[f].size > MaxOutput
    <3>1. Unavailable(f) /\ child' = [child EXCEPT ![f] = None]
      BY <1>4, <2>2 DEF Collect
    <3>2. QED
      BY <2>1, <3>1, UnavailableQuiet DEF QuietStep
  <2>3. CASE ~(child[f].status = "failed" \/ child[f].size > MaxOutput)
    <3>1. \/ pc' = [pc EXCEPT ![f] = "saving"] /\ UNCHANGED child
          \/ /\ pc' = [pc EXCEPT ![f] = "judging"]
             /\ child' = [child EXCEPT ![f] = None]
      BY <1>4, <2>3 DEF Collect, Goto
    <3>2. QED
      BY <1>1, <2>1, <3>1 DEF QuietStep, Quiet, Tended
  <2>4. QED
    BY <2>2, <2>3
<1>5. CASE Truncate(f) \/ Write(f)
  <2>1. /\ pc[f] \in {"saving", "writing"} /\ UNCHANGED <<processor, started>>
        /\ \/ pc' = [pc EXCEPT ![f] = "writing"] /\ UNCHANGED <<child, held>>
           \/ /\ pc' = [pc EXCEPT ![f] = "judging"]
              /\ child' = [child EXCEPT ![f] = None]
              /\ held' = [held EXCEPT ![f] = None]
    BY <1>5 DEF Truncate, Write, Goto, history
  <2>2. QED
    BY <1>1, <2>1 DEF QuietStep, Quiet, Tended
<1>6. CASE Judge(f) \/ ImageFails(f) \/ (Ask(f) /\ ~Starts(f))
  <2>1. UNCHANGED <<processor, started, child, held>>
    BY <1>6 DEF Judge, ImageFails, Ask, Starts, store
  <2>2. pc' \in {[pc EXCEPT ![f] = "ready"], [pc EXCEPT ![f] = "idle"],
                 [pc EXCEPT ![f] = "judging"]}
    BY <1>6 DEF Judge, ImageFails, Ask, Starts, Reject, Abort, Unavailable, Goto
  <2>3. QED
    BY <1>1, <2>1, <2>2 DEF QuietStep, Quiet, Tended
<1>7. CASE Restart(f)
  <2>1. /\ pc' = [pc EXCEPT ![f] = "idle"] /\ UNCHANGED <<processor, started>>
        /\ child' = [child EXCEPT ![f] = None]
        /\ held' = [held EXCEPT ![f] = None]
    BY <1>7 DEF Restart, Goto
  <2>2. QED
    BY <1>1, <2>1 DEF QuietStep, Quiet, Tended
<1>8. CASE \E s \in StoryKinds : Settle(f, s)
  <2>1. UNCHANGED <<processor, started, pc, child, held>>
    BY <1>8 DEF Settle, call, store
  <2>2. QED
    BY <1>1, <2>1 DEF QuietStep, Quiet, Tended
<1>9. QED
  BY <1>2, <1>3, <1>4, <1>5, <1>6, <1>7, <1>8

\* Session n, if it is one, was begun for feed g.
OwnSession(n, g) == n = 0 \/ (n \in 1..Len(started) /\ started[n] = g)

\* The sessions on record, those that the feeds read, and those of children.
Sessions ==
    /\ file # Torn => \A g \in Feed : OwnSession(file[g], g)
    /\ \A f \in Feed :
          /\ pc[f] \in Tended /\ UsesMemory(f) =>
                \A g \in Feed : OwnSession(held[f][g], g)
          /\ HasChild(f) => OwnSession(child[f].session, f)

LEMMA SessionsStay ==
    ASSUME WellFormed, Sessions, QuietStep, file' \in {file, Torn}
    PROVE  Sessions'
<1>1. \A n, g : OwnSession(n, g)' <=> OwnSession(n, g)
  BY DEF QuietStep, OwnSession
<1>2. file' # Torn => \A g \in Feed : OwnSession(file[g], g) /\ file'[g] = file[g]
  BY DEF Sessions
<1>3. ASSUME NEW f \in Feed
      PROVE  /\ pc'[f] \in Tended /\ UsesMemory(f)' =>
                   \A g \in Feed : OwnSession(held'[f][g], g)
             /\ HasChild(f)' => OwnSession(child'[f].session, f)
  <2>1. Quiet(f) /\ (UsesMemory(f)' <=> UsesMemory(f))
    BY DEF QuietStep, UsesMemory
  <2>2. QED
    BY <2>1 DEF Sessions, Quiet, HasChild
<1>4. QED
  BY <1>1, <1>2, <1>3 DEF Sessions

LEMMA SessionsGrow ==
    ASSUME WellFormed, NEW f \in Feed,
           started' = started \/ started' = Append(started, f)
    PROVE  \A n, g : OwnSession(n, g) => OwnSession(n, g)'
<1>1. started \in Seq(Feed)
  BY DEF WellFormed, TypeOK, VariablesTyped
<1>2. CASE started' = started
  BY <1>2 DEF OwnSession
<1>3. CASE started' = Append(started, f)
  <2>1. /\ Len(started') = Len(started) + 1 /\ Len(started) \in Nat
        /\ \A n \in 1..Len(started) : started'[n] = started[n]
    BY <1>1, <1>3
  <2>2. QED
    BY <2>1 DEF OwnSession
<1>4. QED
  BY <1>2, <1>3

LEMMA AskSessions ==
    ASSUME WellFormed, Sessions, NEW f \in Feed, Ask(f), Starts(f)
    PROVE  Sessions'
<1>1. /\ pc[f] = "ready" /\ work[f] # <<>>
      /\ UNCHANGED <<processor, file, started>>
  BY DEF Ask
<1>2. PICK n : n = IF UsesMemory(f) THEN SessionOf(f) ELSE 0
  OBVIOUS
<1>3. n \in Nat /\ OwnSession(n, f)
  BY <1>2 DEF Starts, Sessions, SessionOf, OwnSession, WellFormed, TypeOK,
              VariablesTyped
<1>4. PICK c : c = NewChild(f, n)
  OBVIOUS
<1>5. c.session = n
  BY <1>1, <1>3, <1>4, NewChildType DEF Starts
<1>6. /\ child' = [child EXCEPT ![f] = c]
      /\ held' = [held EXCEPT ![f] = IF UsesMemory(f) THEN file ELSE None]
      /\ pc' = [pc EXCEPT ![f] = "running"]
  BY <1>2, <1>4 DEF Ask, Starts, Goto
<1>7. \A m, g : OwnSession(m, g)' <=> OwnSession(m, g)
  BY <1>1 DEF OwnSession
<1>8. \A g \in Feed : UsesMemory(g)' <=> UsesMemory(g)
  BY <1>1 DEF UsesMemory
<1>9. /\ DOMAIN child = Feed /\ DOMAIN held = Feed /\ pc \in [Feed -> Places]
  BY DEF WellFormed, TypeOK, VariablesTyped
<1>10. ASSUME NEW g \in Feed
       PROVE  /\ pc'[g] \in Tended /\ UsesMemory(g)' =>
                    \A h \in Feed : OwnSession(held'[g][h], h)
              /\ HasChild(g)' => OwnSession(child'[g].session, g)
  <2>1. CASE g = f
    <3>1. child'[f] = c /\ (UsesMemory(f) => held'[f] = file)
      BY <1>6, <1>9
    <3>2. UsesMemory(f) => \A h \in Feed : OwnSession(file[h], h)
      BY DEF Starts, Sessions
    <3>3. QED
      BY <1>3, <1>5, <1>8, <2>1, <3>1, <3>2
  <2>2. CASE g # f
    <3>1. pc'[g] = pc[g] /\ child'[g] = child[g] /\ held'[g] = held[g]
      BY <1>6, <1>9, <2>2
    <3>2. QED
      BY <1>8, <3>1 DEF Sessions, HasChild
  <2>3. QED
    BY <2>1, <2>2
<1>11. QED
  BY <1>1, <1>7, <1>10 DEF Sessions

LEMMA ChildPrintsSessions ==
    ASSUME WellFormed, Sessions, NEW f \in Feed, NEW o \in Outputs,
           ChildPrints(f, o)
    PROVE  Sessions'
<1>1. PICK c : c = HasPrinted(f, o)
  OBVIOUS
<1>2. /\ child[f] # None
      /\ child' = [child EXCEPT ![f] = c]
      /\ started' = IF Begins(f) THEN Append(started, f) ELSE started
      /\ UNCHANGED <<processor, pc, file, held>>
  BY <1>1 DEF ChildPrints, call, store
<1>3. \A n, g : OwnSession(n, g) => OwnSession(n, g)'
  BY <1>2, SessionsGrow
<1>4. child[f] \in Child /\ DOMAIN child = Feed /\ started \in Seq(Feed)
  BY <1>2 DEF WellFormed, TypeOK, VariablesTyped, Attended
<1>5. c.session = IF Begins(f) THEN Len(started) + 1 ELSE child[f].session
  BY <1>1, <1>4 DEF HasPrinted, Child
<1>6. OwnSession(c.session, f)'
  <2>1. CASE Begins(f)
    <3>1. started' = Append(started, f) /\ c.session = Len(started) + 1
      BY <1>2, <1>5, <2>1
    <3>2. /\ Len(started') = Len(started) + 1 /\ Len(started) \in Nat
          /\ started'[Len(started) + 1] = f
      BY <1>4, <3>1
    <3>3. QED
      BY <1>2, <3>1, <3>2 DEF OwnSession
  <2>2. CASE ~Begins(f)
    <3>1. OwnSession(child[f].session, f)
      BY <1>2 DEF Sessions, HasChild
    <3>2. QED
      BY <1>2, <1>3, <1>5, <2>2, <3>1
  <2>3. QED
    BY <2>1, <2>2
<1>7. QED
  BY <1>2, <1>3, <1>4, <1>6 DEF Sessions, HasChild, UsesMemory

LEMMA ChildExitsSessions ==
    ASSUME WellFormed, Sessions, NEW f \in Feed, NEW status \in {"ok", "failed"},
           ChildExits(f, status)
    PROVE  Sessions'
<1>1. PICK c : c = [child[f] EXCEPT !.status = status]
  OBVIOUS
<1>2. /\ child[f] # None /\ child[f] \in Child /\ DOMAIN child = Feed
  BY DEF ChildExits, WellFormed, TypeOK, VariablesTyped, Attended
<1>3. /\ child' = [child EXCEPT ![f] = c]
      /\ UNCHANGED <<processor, started, pc, file, held>>
  BY <1>1, <1>2 DEF ChildExits, call, store, history
<1>4. c.session = child[f].session /\ OwnSession(child[f].session, f)
  BY <1>1, <1>2 DEF Child, Sessions, HasChild
<1>5. \A n, g : OwnSession(n, g)' <=> OwnSession(n, g)
  BY <1>3 DEF OwnSession
<1>6. QED
  BY <1>2, <1>3, <1>4, <1>5 DEF Sessions, HasChild, UsesMemory

LEMMA WriteSessions ==
    ASSUME WellFormed, Sessions, NEW f \in Feed, Write(f)
    PROVE  Sessions'
<1>1. PICK n, h : n = SessionAfter(f) /\ h = held[f]
  OBVIOUS
<1>2. pc[f] = "writing" /\ UsesMemory(f) /\ file' = [h EXCEPT ![f] = n]
  BY <1>1 DEF Write, WellFormed, Busy
<1>3. n \in Nat /\ h \in [Feed -> Nat]
  BY <1>1, <1>2, SessionAfterType
<1>4. /\ \A g \in Feed : OwnSession(h[g], g)
      /\ OwnSession(child[f].session, f)
  BY <1>1, <1>2 DEF Sessions, HasChild, Tended
<1>5. OwnSession(n, f)
  BY <1>1, <1>4 DEF SessionAfter
<1>6. QuietStep
  BY QuietSteps
<1>7. \A m, g : OwnSession(m, g)' <=> OwnSession(m, g)
  BY <1>6 DEF QuietStep, OwnSession
<1>8. \A g \in Feed : OwnSession(file'[g], g)
  BY <1>2, <1>3, <1>4, <1>5
<1>9. ASSUME NEW g \in Feed
      PROVE  /\ pc'[g] \in Tended /\ UsesMemory(g)' =>
                   \A i \in Feed : OwnSession(held'[g][i], i)
             /\ HasChild(g)' => OwnSession(child'[g].session, g)
  <2>1. Quiet(g) /\ (UsesMemory(g)' <=> UsesMemory(g))
    BY <1>6 DEF QuietStep, UsesMemory
  <2>2. QED
    BY <2>1 DEF Sessions, Quiet, HasChild
<1>10. QED
  BY <1>7, <1>8, <1>9 DEF Sessions

LEMMA SessionsStep ==
    ASSUME WellFormed, Sessions, [Next]_vars
    PROVE  Sessions'
<1>1. CASE UNCHANGED vars
  BY <1>1 DEF vars, call, store, history, Sessions, HasChild, UsesMemory,
              OwnSession
<1>2. ASSUME NEW f \in Feed,
             \/ Begin(f) \/ Kill(f) \/ Collect(f) \/ Truncate(f)
             \/ WriteFails(f) \/ Judge(f) \/ ImageFails(f) \/ Finish(f)
             \/ Restart(f)
             \/ \E s \in StoryKinds : Settle(f, s)
             \/ Ask(f) /\ ~Starts(f)
      PROVE  Sessions'
  <2>1. QuietStep
    BY <1>2, QuietSteps
  <2>2. file' \in {file, Torn}
    BY <1>2 DEF Begin, Kill, Collect, Truncate, WriteFails, Judge, ImageFails,
                Finish, Restart, Settle, Ask, store
  <2>3. QED
    BY <2>1, <2>2, SessionsStay
<1>3. ASSUME NEW f \in Feed,
             \/ (Ask(f) /\ Starts(f)) \/ Write(f)
             \/ \E o \in Outputs : ChildPrints(f, o)
             \/ \E status \in {"ok", "failed"} : ChildExits(f, status)
      PROVE  Sessions'
  BY <1>3, AskSessions, WriteSessions, ChildPrintsSessions, ChildExitsSessions
<1>4. QED
  BY <1>1, <1>2, <1>3 DEF Next, Await, Work

\* The session that a child resumes, and the one on record for a feed, was
\* begun for that feed: in store_codex_memory_session no interleaving of the
\* feeds' reads and writes of the file they share puts the session of one feed
\* under the name of another, although it may lose one.
THEOREM SessionsAreOwn == Spec => []SessionIsOwn
<1>1. Init => WellFormed /\ Sessions
  <2>1. Init => Sessions
    BY DEF Init, Sessions, HasChild, Tended, OwnSession
  <2>2. QED
    BY <2>1, InitWell
<1>2. WellFormed /\ Sessions /\ [Next]_vars => (WellFormed /\ Sessions)'
  BY WellStep, SessionsStep
<1>3. WellFormed /\ Sessions => SessionIsOwn
  BY DEF Sessions, SessionIsOwn, HasChild, OwnSession
<1>4. QED
  BY <1>1, <1>2, <1>3, PTL DEF Spec

---------------------------------------------------------------------------
(* What becomes of the stories.                                            *)

\* A story is given up only alone, and one that counts is declined only by a
\* processor without memory.
Fair(fa, score, memory) ==
    /\ fa.as = "rejected" => fa.alone
    /\ fa.as = "declined" /\ score >= StrongScore => ~memory

Fates ==
    \A f \in Feed : \A id \in 1..Len(fate[f]) :
        Fair(fate[f][id], stories[f][id].score, UsesMemory(f))

LEMMA FatesStay ==
    ASSUME WellFormed, Fates, NEW f \in Feed,
           UNCHANGED <<processor, stories>>,
           NEW ids, NEW what \in Fate,
           fate' = fate \/ fate' = [fate EXCEPT ![f] = Become(@, ids, what)],
           fate' # fate =>
              \A id \in 1..Len(fate[f]) :
                 id \in ToSet(ids) =>
                    Fair(what, stories[f][id].score, UsesMemory(f))
    PROVE  Fates'
<1>1. CASE fate' = fate
  BY <1>1 DEF Fates, UsesMemory
<1>2. CASE fate' # fate
  <2>1. PICK r : r = Become(fate[f], ids, what)
    OBVIOUS
  <2>2. fate[f] \in Seq(Fate) /\ fate' = [fate EXCEPT ![f] = r] /\ DOMAIN fate = Feed
    BY <1>2, <2>1 DEF WellFormed, TypeOK, VariablesTyped
  <2>3. /\ Len(r) = Len(fate[f])
        /\ \A id \in 1..Len(fate[f]) :
              r[id] = IF id \in ToSet(ids) THEN what ELSE fate[f][id]
    BY <2>1, <2>2, BecomeType
  <2>4. ASSUME NEW g \in Feed, NEW id \in 1..Len(fate'[g])
        PROVE  Fair(fate'[g][id], stories[g][id].score, UsesMemory(g))
    <3>1. CASE g = f
      <4>1. id \in 1..Len(fate[f]) /\ fate'[g] = r
        BY <2>2, <2>3, <2>4, <3>1
      <4>2. CASE id \in ToSet(ids)
        BY <1>2, <2>3, <3>1, <4>1, <4>2
      <4>3. CASE id \notin ToSet(ids)
        BY <2>3, <3>1, <4>1, <4>3 DEF Fates
      <4>4. QED
        BY <4>2, <4>3
    <3>2. CASE g # f
      <4>1. fate'[g] = fate[g] /\ id \in 1..Len(fate[g])
        BY <2>2, <2>4, <3>2
      <4>2. QED
        BY <4>1 DEF Fates
    <3>3. QED
      BY <3>1, <3>2
  <2>5. QED
    BY <2>4 DEF Fates, UsesMemory
<1>3. QED
  BY <1>1, <1>2

\* A call that stops leaves its stories as they were.
LEMMA UnavailableFates ==
    ASSUME WellFormed, Fates, NEW f \in Feed, UNCHANGED <<processor, stories>>,
           Unavailable(f) \/ Abort(f)
    PROVE  Fates'
<1>1. Fresh \in Fate /\ \A n, m : Fair(Fresh, n, m)
  BY DEF Fresh, Fate, Fair
<1>2. fate' = fate \/ fate' = [fate EXCEPT ![f] = Become(@, pending[f], Fresh)]
  BY DEF Unavailable, Abort
<1>3. PICK ids, what : ids = pending[f] /\ what = Fresh
  OBVIOUS
<1>4. QED
  BY <1>1, <1>2, <1>3, FatesStay

LEMMA RejectFates ==
    ASSUME WellFormed, Fates, NEW f \in Feed, UNCHANGED <<processor, stories>>,
           Reject(f)
    PROVE  Fates'
<1>1. PICK ids, what : /\ ids = Head(work[f])
                       /\ what = [as |-> "rejected", alone |-> TRUE]
  OBVIOUS
<1>2. what \in Fate /\ \A n, m : Fair(what, n, m)
  BY <1>1 DEF Fate, Fair
<1>3. fate' = fate \/ fate' = [fate EXCEPT ![f] = Become(@, ids, what)]
  <2>1. CASE Len(ids) > 1
    <3>1. fate' = [fate EXCEPT ![f] = @]
      BY <1>1, <2>1 DEF Reject
    <3>2. QED
      BY <3>1 DEF WellFormed, TypeOK, VariablesTyped
  <2>2. CASE ~(Len(ids) > 1)
    BY <1>1, <2>2 DEF Reject
  <2>3. QED
    BY <2>1, <2>2
<1>4. QED
  BY <1>2, <1>3, FatesStay

LEMMA JudgeFates ==
    ASSUME WellFormed, Fates, NEW f \in Feed, Judge(f)
    PROVE  Fates'
<1>1. pc[f] = "judging" /\ UNCHANGED <<processor, stories>> /\ work[f] # <<>>
  BY JudgeCases DEF WellFormed, Busy
<1>2. CASE IsRefused(Considered(f))
  BY <1>1, <1>2, JudgeCases, RejectFates
<1>3. CASE ~IsRefused(Considered(f))
  <2>1. PICK s, d : s = Candidate(f) /\ d = Decision(f, s, memo[f])
    OBVIOUS
  <2>2. Judged(f, d, s)
    BY <1>3, <2>1, JudgeCases
  <2>3. /\ s \in Summary /\ Phrases(s.deck) # {}
        /\ \A i \in DOMAIN Requested(f) : Requested(f)[i].score <= s.score
    BY <1>1, <1>3, <2>1, CandidateType
  <2>4. memo[f] \in Seq(Summary)
    BY DEF WellFormed, TypeOK, VariablesTyped
  <2>5. /\ d \in {"dull", "duplicate", "declined", "published"}
        /\ d = "declined" /\ s.score >= StrongScore => ~UsesMemory(f)
    BY <2>1, <2>3, <2>4, DecisionProperties
  <2>6. PICK ids, what : /\ ids = Head(work[f])
                         /\ what = [as |-> d, alone |-> Len(ids) = 1]
    OBVIOUS
  <2>7. what \in Fate /\ what.as = d
    BY <2>5, <2>6 DEF Fate
  <2>8. fate' = [fate EXCEPT ![f] = Become(@, ids, what)]
    BY <2>2, <2>6 DEF Judged
  <2>9. ASSUME NEW id \in 1..Len(fate[f]), id \in ToSet(ids)
        PROVE  Fair(what, stories[f][id].score, UsesMemory(f))
    <3>1. PICK i \in DOMAIN ids : id = ids[i]
      BY <2>9 DEF ToSet
    <3>2. /\ Requested(f)[i] = stories[f][id] /\ i \in DOMAIN Requested(f)
          /\ Requested(f) \in Seq(Story)
      BY <1>1, <2>6, <3>1, RequestedType DEF WellFormed
    <3>3. stories[f][id] \in Story
      BY <3>2
    <3>4. stories[f][id].score \in Score /\ s.score \in Score
      BY <2>3, <3>3 DEF Story, Summary
    <3>5. stories[f][id].score \in Nat /\ s.score \in Nat
      BY <3>4, ScoreBounds
    <3>6. stories[f][id].score >= StrongScore => s.score >= StrongScore
      BY <2>3, <3>2, <3>5 DEF StrongScore
    <3>7. QED
      BY <2>5, <2>7, <3>6 DEF Fair
  <2>10. QED
    BY <1>1, <2>7, <2>8, <2>9, FatesStay
<1>4. QED
  BY <1>2, <1>3

LEMMA SettleFates ==
    ASSUME WellFormed, Fates, NEW f \in Feed, NEW s \in StoryKinds, Settle(f, s)
    PROVE  Fates'
<1>1. /\ stories' = [stories EXCEPT ![f] = Append(@, s)]
      /\ fate' = [fate EXCEPT ![f] = Append(@, Fresh)]
      /\ processor' = processor
  BY DEF Settle
<1>2. /\ stories[f] \in Seq(Story) /\ fate[f] \in Seq(Fate)
      /\ Len(fate[f]) = Len(stories[f])
      /\ DOMAIN stories = Feed /\ DOMAIN fate = Feed
      /\ s \in Story /\ Fresh \in Fate
  BY InputsAssumption DEF WellFormed, TypeOK, VariablesTyped, Numbered, Fresh, Fate
<1>3. \A n, m : Fair(Fresh, n, m)
  BY DEF Fair, Fresh
<1>4. PICK n : n = Len(fate[f])
  OBVIOUS
<1>5. /\ Len(fate'[f]) = n + 1 /\ n \in Nat /\ fate'[f][n + 1] = Fresh
      /\ \A id \in 1..n : /\ fate'[f][id] = fate[f][id]
                          /\ stories'[f][id] = stories[f][id]
  BY <1>1, <1>2, <1>4
<1>6. ASSUME NEW g \in Feed, NEW id \in 1..Len(fate'[g])
      PROVE  Fair(fate'[g][id], stories'[g][id].score, UsesMemory(g))
  <2>1. CASE g = f
    <3>1. id = n + 1 \/ id \in 1..n
      BY <1>5, <1>6, <2>1
    <3>2. QED
      BY <1>3, <1>4, <1>5, <2>1, <3>1 DEF Fates
  <2>2. CASE g # f
    BY <1>1, <1>2, <1>6, <2>2 DEF Fates
  <2>3. QED
    BY <2>1, <2>2
<1>7. QED
  BY <1>1, <1>6 DEF Fates, UsesMemory

LEMMA FatesStep ==
    ASSUME WellFormed, Fates, [Next]_vars
    PROVE  Fates'
<1>1. CASE UNCHANGED vars
  BY <1>1 DEF vars, history, Fates, UsesMemory
<1>2. ASSUME NEW f \in Feed,
             \/ Begin(f) \/ Truncate(f) \/ Write(f) \/ Finish(f)
             \/ \E o \in Outputs : ChildPrints(f, o)
             \/ \E status \in {"ok", "failed"} : ChildExits(f, status)
      PROVE  Fates'
  <2>1. UNCHANGED <<processor, stories, fate>>
    BY <1>2 DEF Begin, Truncate, Write, Finish, ChildPrints, ChildExits, history
  <2>2. QED
    BY <2>1 DEF Fates, UsesMemory
<1>3. ASSUME NEW f \in Feed, Kill(f) \/ WriteFails(f) \/ ImageFails(f)
      PROVE  Fates'
  <2>1. UNCHANGED <<processor, stories>> /\ (Unavailable(f) \/ Abort(f))
    BY <1>3 DEF Kill, WriteFails, ImageFails
  <2>2. QED
    BY <2>1, UnavailableFates
<1>4. ASSUME NEW f \in Feed, Collect(f) \/ Ask(f)
      PROVE  Fates'
  <2>1. /\ UNCHANGED <<processor, stories>>
        /\ Unavailable(f) \/ Reject(f) \/ UNCHANGED fate
    BY <1>4 DEF Collect, Ask
  <2>2. CASE UNCHANGED fate
    BY <2>1, <2>2 DEF Fates, UsesMemory
  <2>3. QED
    BY <2>1, <2>2, UnavailableFates, RejectFates
<1>5. ASSUME NEW f \in Feed, Restart(f)
      PROVE  Fates'
  <2>1. PICK ids, what : /\ ids = pending[f]
                         /\ what = [Fresh EXCEPT !.as = "lost"]
    OBVIOUS
  <2>2. what \in Fate /\ \A n, m : Fair(what, n, m)
    BY <2>1 DEF Fresh, Fate, Fair
  <2>3. /\ UNCHANGED <<processor, stories>>
        /\ fate' = [fate EXCEPT ![f] = Become(@, ids, what)]
    BY <1>5, <2>1 DEF Restart
  <2>4. QED
    BY <2>2, <2>3, FatesStay
<1>6. ASSUME NEW f \in Feed, Judge(f) \/ \E s \in StoryKinds : Settle(f, s)
      PROVE  Fates'
  BY <1>6, JudgeFates, SettleFates
<1>7. QED
  BY <1>1, <1>2, <1>3, <1>4, <1>5, <1>6 DEF Next, Await, Work

LEMMA FatesAreFair == Spec => [](WellFormed /\ Fates)
<1>1. Init => WellFormed /\ Fates
  <2>1. Init => Fates
    BY DEF Init, Fates
  <2>2. QED
    BY <2>1, InitWell
<1>2. WellFormed /\ Fates /\ [Next]_vars => (WellFormed /\ Fates)'
  BY WellStep, FatesStep
<1>3. QED
  BY <1>1, <1>2, PTL DEF Spec

LEMMA FatesByPlace ==
    ASSUME WellFormed, NEW f \in Feed
    PROVE  DOMAIN fate[f] = 1..Len(fate[f])
BY DEF WellFormed, TypeOK, VariablesTyped

\* One story that summarize_feed_inner has to reject does not take the others
\* of its chunk with it, however chunks are split, calls fail and publishers
\* restart.
THEOREM OthersAreSpared == Spec => []RejectedAlone
<1>1. WellFormed /\ Fates => RejectedAlone
  BY FatesByPlace DEF Fates, Fair, RejectedAlone
<1>2. QED
  BY <1>1, FatesAreFair, PTL

\* apply_publish_decision: whatever the memory's session answers, a story that
\* scores high enough is never declined because of it.
THEOREM StrongStoriesAreHeard == Spec => []MemoryNeverSilences
<1>1. WellFormed /\ Fates => MemoryNeverSilences
  BY FatesByPlace DEF Fates, Fair, MemoryNeverSilences
<1>2. QED
  BY <1>1, FatesAreFair, PTL

---------------------------------------------------------------------------
(* What leaves the machine.                                                *)

Clear(ss) == \A i \in DOMAIN ss : AllSafe(ss[i], ss[i].tagged)

Published == \A f \in Feed : Clear(out[f]) /\ Clear(made[f])

Asked ==
    \A f \in Feed :
        HasChild(f) =>
           \A i \in DOMAIN child[f].asked :
              AllSafe(child[f].asked[i], HasTag(child[f].asked[i]))

LEMMA AskedStep ==
    ASSUME WellFormed, Asked, [Next]_vars
    PROVE  Asked'
<1>1. CASE UNCHANGED vars
  BY <1>1 DEF vars, call, Asked, HasChild
<1>2. ASSUME NEW f \in Feed,
             \/ Begin(f) \/ Kill(f) \/ Collect(f) \/ Truncate(f) \/ Write(f)
             \/ WriteFails(f) \/ Judge(f) \/ ImageFails(f) \/ Finish(f)
             \/ Restart(f)
             \/ \E s \in StoryKinds : Settle(f, s)
             \/ Ask(f) /\ ~Starts(f)
      PROVE  Asked'
  <2>1. QuietStep
    BY <1>2, QuietSteps
  <2>2. QED
    BY <2>1 DEF QuietStep, Quiet, Asked, HasChild
<1>3. ASSUME NEW f \in Feed, Ask(f), Starts(f)
      PROVE  Asked'
  <2>1. pc[f] = "ready" /\ work[f] # <<>>
    BY <1>3 DEF Ask
  <2>2. PICK n : n = IF UsesMemory(f) THEN SessionOf(f) ELSE 0
    OBVIOUS
  <2>3. n \in Nat
    BY <1>3, <2>2 DEF Starts, SessionOf, WellFormed, TypeOK, VariablesTyped
  <2>4. PICK c : c = NewChild(f, n)
    OBVIOUS
  <2>5. \A i \in DOMAIN c.asked : AllSafe(c.asked[i], HasTag(c.asked[i]))
    BY <1>3, <2>1, <2>3, <2>4, NewChildType DEF Starts
  <2>6. /\ child' = [child EXCEPT ![f] = c]
        /\ pc' = [pc EXCEPT ![f] = "running"]
    BY <1>3, <2>2, <2>4 DEF Ask, Starts, Goto
  <2>7. DOMAIN child = Feed /\ DOMAIN pc = Feed
    BY DEF WellFormed, TypeOK, VariablesTyped
  <2>8. QED
    BY <2>5, <2>6, <2>7 DEF Asked, HasChild
<1>4. ASSUME NEW f \in Feed,
             \/ \E o \in Outputs : ChildPrints(f, o)
             \/ \E status \in {"ok", "failed"} : ChildExits(f, status)
      PROVE  Asked'
  <2>1. PICK c : /\ child' = [child EXCEPT ![f] = c]
                 /\ child[f] # None /\ pc' = pc
                 /\ \/ \E o \in Outputs : c = HasPrinted(f, o)
                    \/ \E status : c = [child[f] EXCEPT !.status = status]
    BY <1>4 DEF ChildPrints, ChildExits, call
  <2>2. child[f] \in Child /\ DOMAIN child = Feed
    BY <2>1 DEF WellFormed, TypeOK, VariablesTyped, Attended
  <2>3. c.asked = child[f].asked
    BY <2>1, <2>2 DEF HasPrinted, Child
  <2>4. QED
    BY <2>1, <2>2, <2>3 DEF Asked, HasChild
<1>5. QED
  BY <1>1, <1>2, <1>3, <1>4 DEF Next, Await, Work

LEMMA ClearSequences ==
    /\ Clear(<<>>)
    /\ \A s \in Seq(Summary), t \in Seq(Summary) :
          Clear(s) /\ Clear(t) => Clear(s \o t)
    /\ \A s \in Seq(Summary), r \in Summary :
          Clear(s) /\ AllSafe(r, r.tagged) => Clear(Append(s, r))
<1>1. Clear(<<>>)
  BY DEF Clear
<1>2. ASSUME NEW s \in Seq(Summary), NEW t \in Seq(Summary), Clear(s), Clear(t)
      PROVE  Clear(s \o t)
  <2>1. PICK c : c = s \o t
    OBVIOUS
  <2>2. /\ c \in Seq(Summary) /\ Len(c) = Len(s) + Len(t)
        /\ \A i \in 1..Len(c) : c[i] = IF i <= Len(s) THEN s[i] ELSE t[i - Len(s)]
    BY <2>1
  <2>3. ASSUME NEW i \in DOMAIN c
        PROVE  AllSafe(c[i], c[i].tagged)
    <3>1. i \in 1..Len(c) /\ Len(s) \in Nat /\ Len(t) \in Nat
      BY <2>2
    <3>2. CASE i <= Len(s)
      <4>1. c[i] = s[i] /\ i \in DOMAIN s
        BY <2>2, <3>1, <3>2
      <4>2. QED
        BY <1>2, <4>1 DEF Clear
    <3>3. CASE ~(i <= Len(s))
      <4>1. c[i] = t[i - Len(s)] /\ i - Len(s) \in 1..Len(t)
        BY <2>2, <3>1, <3>3
      <4>2. i - Len(s) \in DOMAIN t
        BY <4>1
      <4>3. QED
        BY <1>2, <4>1, <4>2 DEF Clear
    <3>4. QED
      BY <3>2, <3>3
  <2>4. QED
    BY <2>1, <2>3 DEF Clear
<1>3. ASSUME NEW s \in Seq(Summary), NEW r \in Summary, Clear(s),
             AllSafe(r, r.tagged)
      PROVE  Clear(Append(s, r))
  <2>1. PICK c : c = Append(s, r)
    OBVIOUS
  <2>2. /\ c \in Seq(Summary) /\ Len(c) = Len(s) + 1 /\ c[Len(s) + 1] = r
        /\ \A i \in 1..Len(s) : c[i] = s[i]
    BY <2>1
  <2>3. ASSUME NEW i \in DOMAIN c
        PROVE  AllSafe(c[i], c[i].tagged)
    <3>1. i \in 1..(Len(s) + 1) /\ Len(s) \in Nat /\ DOMAIN s = 1..Len(s)
      BY <2>2
    <3>2. CASE i = Len(s) + 1
      BY <1>3, <2>2, <3>2
    <3>3. CASE i \in 1..Len(s)
      <4>1. c[i] = s[i] /\ i \in DOMAIN s
        BY <2>2, <3>1, <3>3
      <4>2. QED
        BY <1>3, <4>1 DEF Clear
    <3>4. QED
      BY <3>1, <3>2, <3>3
  <2>4. QED
    BY <2>1, <2>3 DEF Clear
<1>4. QED
  BY <1>1, <1>2, <1>3

---------------------------------------------------------------------------
(* What happens to the summaries of a feed.                                *)

Keeps ==
    /\ UNCHANGED <<memo, made, recent, out>>
    /\ \A g \in Feed : pc'[g] # "idle" => pc[g] # "idle"

Drops(f) ==
    /\ memo' = [memo EXCEPT ![f] = <<>>]
    /\ made' = [made EXCEPT ![f] = <<>>]
    /\ pc' = [pc EXCEPT ![f] = "idle"]
    /\ UNCHANGED <<recent, out>>

LEMMA UnavailableMade ==
    ASSUME WellFormed, NEW f \in Feed, UNCHANGED <<recent, out>>,
           pc[f] # "idle", Unavailable(f)
    PROVE  Keeps \/ Drops(f)
<1>1. pc \in [Feed -> Places]
  BY DEF WellFormed, TypeOK, VariablesTyped
<1>2. CASE UsesMemory(f)
  <2>1. pc' = [pc EXCEPT ![f] = "judging"] /\ UNCHANGED <<memo, made>>
    BY <1>2 DEF Unavailable, Goto
  <2>2. QED
    BY <1>1, <2>1 DEF Keeps
<1>3. CASE ~UsesMemory(f)
  BY <1>3 DEF Unavailable, Abort, Goto, Drops
<1>4. QED
  BY <1>2, <1>3

\* What a published summary does to the memory.
Publishes(f, s) ==
    /\ memo' = [memo EXCEPT ![f] = FirstOf(<<s>> \o @, RecentWindow)]
    /\ made' = [made EXCEPT ![f] = Append(@, s)]
    /\ pc' = [pc EXCEPT ![f] = "ready"]
    /\ UNCHANGED <<recent, out>>

LEMMA JudgeMade ==
    ASSUME WellFormed, NEW f \in Feed, Judge(f)
    PROVE  \/ Keeps
           \/ /\ pc[f] # "idle"
              /\ ~IsRefused(Considered(f)) /\ pc[f] = "judging"
              /\ Decision(f, Candidate(f), memo[f]) = "published"
              /\ Publishes(f, Candidate(f))
<1>1. /\ pc[f] = "judging" /\ UNCHANGED <<recent, out>>
      /\ pc \in [Feed -> Places]
  BY JudgeCases DEF WellFormed, TypeOK, VariablesTyped
<1>2. CASE IsRefused(Considered(f))
  <2>1. UNCHANGED <<memo, made>> /\ pc' = [pc EXCEPT ![f] = "ready"]
    BY <1>2, JudgeCases DEF Reject, Goto
  <2>2. QED
    BY <1>1, <2>1 DEF Keeps
<1>3. CASE ~IsRefused(Considered(f))
  <2>1. PICK s, d : s = Candidate(f) /\ d = Decision(f, s, memo[f])
    OBVIOUS
  <2>2. Judged(f, d, s)
    BY <1>3, <2>1, JudgeCases
  <2>3. CASE d = "published"
    <3>1. Publishes(f, s)
      BY <1>1, <2>2, <2>3 DEF Judged, Publishes
    <3>2. QED
      BY <1>1, <1>3, <2>1, <2>3, <3>1
  <2>4. CASE d # "published"
    <3>1. UNCHANGED <<memo, made>> /\ pc' = [pc EXCEPT ![f] = "ready"]
      BY <2>2, <2>4 DEF Judged
    <3>2. QED
      BY <1>1, <3>1 DEF Keeps
  <2>5. QED
    BY <2>3, <2>4
<1>4. QED
  BY <1>2, <1>3

LEMMA MadeSteps ==
    ASSUME WellFormed, [Next]_vars
    PROVE  \/ Keeps
           \/ \E f \in Feed :
                 Drops(f) \/ Judge(f) \/ Begin(f) \/ Finish(f) \/ Restart(f)
<1>1. pc \in [Feed -> Places]
  BY DEF WellFormed, TypeOK, VariablesTyped
<1>2. CASE UNCHANGED vars
  BY <1>2 DEF vars, call, history, Keeps
<1>3. ASSUME NEW f \in Feed,
             \/ \E s \in StoryKinds : Settle(f, s)
             \/ \E o \in Outputs : ChildPrints(f, o)
             \/ \E status \in {"ok", "failed"} : ChildExits(f, status)
      PROVE  Keeps
  BY <1>3 DEF Settle, ChildPrints, ChildExits, call, history, Keeps
<1>4. ASSUME NEW f \in Feed, Truncate(f) \/ Write(f)
      PROVE  Keeps
  <2>1. /\ UNCHANGED <<memo, made, recent, out>> /\ pc[f] # "idle"
        /\ pc' \in {[pc EXCEPT ![f] = "writing"], [pc EXCEPT ![f] = "judging"]}
    BY <1>4 DEF Truncate, Write, Goto, history
  <2>2. QED
    BY <1>1, <2>1 DEF Keeps
<1>5. ASSUME NEW f \in Feed, Kill(f) \/ WriteFails(f)
      PROVE  Keeps \/ Drops(f)
  <2>1. UNCHANGED <<recent, out>> /\ pc[f] # "idle" /\ Unavailable(f)
    BY <1>5 DEF Kill, WriteFails
  <2>2. QED
    BY <2>1, UnavailableMade
<1>6. ASSUME NEW f \in Feed, ImageFails(f)
      PROVE  Drops(f)
  BY <1>6 DEF ImageFails, Abort, Goto, Drops
<1>7. ASSUME NEW f \in Feed, Collect(f) \/ Ask(f)
      PROVE  Keeps \/ Drops(f)
  <2>1. /\ UNCHANGED <<recent, out>> /\ pc[f] # "idle"
        /\ \/ Unavailable(f)
           \/ /\ UNCHANGED <<memo, made>>
              /\ pc' \in {[pc EXCEPT ![f] = "judging"], [pc EXCEPT ![f] = "saving"],
                          [pc EXCEPT ![f] = "ready"], [pc EXCEPT ![f] = "running"]}
    BY <1>7 DEF Collect, Ask, Reject, Goto
  <2>2. CASE Unavailable(f)
    BY <2>1, <2>2, UnavailableMade
  <2>3. CASE ~Unavailable(f)
    BY <1>1, <2>1, <2>3 DEF Keeps
  <2>4. QED
    BY <2>2, <2>3
<1>8. QED
  BY <1>2, <1>3, <1>4, <1>5, <1>6, <1>7 DEF Next, Await, Work

LEMMA PublishedStep ==
    ASSUME WellFormed, Published, [Next]_vars
    PROVE  Published'
<1>1. /\ made \in [Feed -> Seq(Summary)] /\ out \in [Feed -> Seq(Summary)]
  BY DEF WellFormed, TypeOK, VariablesTyped
<1>2. CASE Keeps
  BY <1>2 DEF Keeps, Published
<1>3. ASSUME NEW f \in Feed, Drops(f) \/ Begin(f) \/ Restart(f)
      PROVE  Published'
  <2>1. /\ made' = [made EXCEPT ![f] = <<>>]
        /\ out' \in {out, [out EXCEPT ![f] = <<>>]}
    BY <1>3 DEF Drops, Begin, Restart, history
  <2>2. QED
    BY <1>1, <2>1, ClearSequences DEF Published
<1>4. ASSUME NEW f \in Feed, Finish(f)
      PROVE  Published'
  <2>1. PICK o : o = out[f] \o made[f]
    OBVIOUS
  <2>2. Clear(o)
    BY <1>1, <2>1, ClearSequences DEF Published
  <2>3. out' = [out EXCEPT ![f] = o] /\ made' = [made EXCEPT ![f] = <<>>]
    BY <1>4, <2>1 DEF Finish
  <2>4. QED
    BY <1>1, <2>2, <2>3, ClearSequences DEF Published
<1>5. ASSUME NEW f \in Feed, Judge(f), ~Keeps
      PROVE  Published'
  <2>1. PICK s : s = Candidate(f)
    OBVIOUS
  <2>2. Publishes(f, s) /\ pc[f] = "judging" /\ ~IsRefused(Considered(f))
    BY <1>5, <2>1, JudgeMade
  <2>3. s \in Summary /\ AllSafe(s, s.tagged)
    BY <2>1, <2>2, CandidateType
  <2>4. PICK k : k = Append(made[f], s)
    OBVIOUS
  <2>5. Clear(k)
    BY <1>1, <2>3, <2>4, ClearSequences DEF Published
  <2>6. made' = [made EXCEPT ![f] = k] /\ out' = out
    BY <2>2, <2>4 DEF Publishes
  <2>7. QED
    BY <1>1, <2>5, <2>6 DEF Published
<1>6. QED
  BY <1>2, <1>3, <1>4, <1>5, MadeSteps

LEMMA SafeLeaksNothing ==
    ASSUME NEW s, NEW own, AllSafe(s, own)
    PROVE  ~Leaks(s, own)
<1>1. \A t \in TextsOf(s) : Safe(t, own)
  BY DEF TextsOf, AllSafe
<1>2. QED
  BY <1>1 DEF Leaks, Safe

\* SummaryGuardrails and the polishing that follows them: no summary that is
\* published, and no request an outside processor is given, holds a phrase the
\* guardrails keep private, whatever stories say and children answer, also when
\* a deck stands in for a broken headline and the capsule's budget cleans once
\* more with other tags.
THEOREM PrivateStays == Spec => []NothingPrivateLeaves
<1>1. Init => WellFormed /\ Published /\ Asked
  <2>1. Init => Published /\ Asked
    BY ClearSequences DEF Init, Published, Asked, HasChild, Tended
  <2>2. QED
    BY <2>1, InitWell
<1>2. WellFormed /\ Published /\ Asked /\ [Next]_vars
         => (WellFormed /\ Published /\ Asked)'
  BY WellStep, PublishedStep, AskedStep
<1>3. WellFormed /\ Published /\ Asked => NothingPrivateLeaves
  BY SafeLeaksNothing
     DEF Published, Clear, Asked, HasChild, NothingPrivateLeaves
<1>4. QED
  BY <1>1, <1>2, <1>3, PTL DEF Spec

---------------------------------------------------------------------------
(* The memory of what was published.                                       *)

\* ms holds the last RecentWindow summaries of ss, newest first.
Newest(ms, ss) ==
    /\ Len(ms) = IF Len(ss) > RecentWindow THEN RecentWindow ELSE Len(ss)
    /\ \A i \in 1..Len(ms) : ms[i] = ss[Len(ss) + 1 - i]

Remembered ==
    \A f \in Feed :
        /\ Newest(recent[f], out[f]) /\ AllDifferent(out[f])
        /\ pc[f] # "idle" =>
              /\ Newest(memo[f], out[f] \o made[f])
              /\ AllDifferent(out[f] \o made[f])

LEMMA NothingRemembered == Newest(<<>>, <<>>) /\ AllDifferent(<<>>)
BY RecentAssumption DEF Newest, AllDifferent

\* A memory that fits the window is its own newest part.
LEMMA NewestFits ==
    ASSUME NEW ms \in Seq(Summary), NEW ss \in Seq(Summary), Newest(ms, ss)
    PROVE  Newest(FirstOf(ms, RecentWindow), ss)
<1>1. PICK m : m = FirstOf(ms, RecentWindow)
  OBVIOUS
<1>2. /\ m \in Seq(Summary)
      /\ Len(m) = IF Len(ms) > RecentWindow THEN RecentWindow ELSE Len(ms)
      /\ \A i \in 1..Len(m) : m[i] = ms[i]
  BY <1>1, FirstType, RecentAssumption
<1>3. /\ Len(ss) \in Nat /\ RecentWindow \in Nat /\ Len(ms) \in Nat
  BY RecentAssumption
<1>4. Len(m) = Len(ms)
  BY <1>2, <1>3 DEF Newest
<1>5. QED
  BY <1>1, <1>2, <1>4 DEF Newest

LEMMA NewestGrows ==
    ASSUME NEW ms \in Seq(Summary), NEW ss \in Seq(Summary), NEW s \in Summary,
           Newest(ms, ss)
    PROVE  Newest(FirstOf(<<s>> \o ms, RecentWindow), Append(ss, s))
<1>1. PICK c, m, tt : /\ c = <<s>> \o ms /\ m = FirstOf(c, RecentWindow)
                      /\ tt = Append(ss, s)
  OBVIOUS
<1>2. /\ c \in Seq(Summary) /\ Len(c) = Len(ms) + 1 /\ c[1] = s
      /\ \A i \in 1..Len(ms) : c[i + 1] = ms[i]
  BY <1>1
<1>3. /\ m \in Seq(Summary)
      /\ Len(m) = IF Len(c) > RecentWindow THEN RecentWindow ELSE Len(c)
      /\ \A i \in 1..Len(m) : m[i] = c[i]
  BY <1>1, <1>2, FirstType, RecentAssumption
<1>4. /\ tt \in Seq(Summary) /\ Len(tt) = Len(ss) + 1 /\ tt[Len(ss) + 1] = s
      /\ \A i \in 1..Len(ss) : tt[i] = ss[i]
  BY <1>1
<1>5. /\ Len(ss) \in Nat /\ RecentWindow \in Nat /\ RecentWindow >= 1
      /\ Len(ms) \in Nat
      /\ Len(ms) = IF Len(ss) > RecentWindow THEN RecentWindow ELSE Len(ss)
      /\ \A i \in 1..Len(ms) : ms[i] = ss[Len(ss) + 1 - i]
  BY RecentAssumption DEF Newest
<1>6. Len(m) = IF Len(tt) > RecentWindow THEN RecentWindow ELSE Len(tt)
  BY <1>2, <1>3, <1>4, <1>5
<1>7. ASSUME NEW i \in 1..Len(m)
      PROVE  m[i] = tt[Len(tt) + 1 - i]
  <2>1. m[i] = c[i] /\ i \in Nat /\ i >= 1 /\ i <= Len(ms) + 1
    BY <1>2, <1>3, <1>5
  <2>2. CASE i = 1
    <3>1. Len(tt) + 1 - i = Len(ss) + 1
      BY <1>4, <1>5, <2>2
    <3>2. QED
      BY <1>2, <1>4, <2>1, <2>2, <3>1
  <2>3. CASE i # 1
    <3>1. PICK j \in 1..Len(ms) : i = j + 1
      <4>1. i - 1 \in 1..Len(ms) /\ i = (i - 1) + 1
        BY <1>5, <2>1, <2>3
      <4>2. QED
        BY <4>1
    <3>2. m[i] = ss[Len(ss) + 1 - j]
      BY <1>2, <1>5, <2>1, <3>1
    <3>3. /\ Len(ss) + 1 - j \in 1..Len(ss)
          /\ Len(tt) + 1 - i = Len(ss) + 1 - j
      BY <1>4, <1>5, <3>1
    <3>4. QED
      BY <1>4, <3>2, <3>3
  <2>4. QED
    BY <2>2, <2>3
<1>8. QED
  BY <1>1, <1>6, <1>7 DEF Newest

\* A summary unlike any in the memory is unlike any within the window.
LEMMA DifferentGrows ==
    ASSUME NEW ms \in Seq(Summary), NEW ss \in Seq(Summary), NEW s \in Summary,
           Newest(ms, ss), AllDifferent(ss),
           \A k \in DOMAIN ms :
              /\ k <= RecentWindow
              /\ ms[k].family = s.family
              /\ ms[k].headline = s.headline /\ ms[k].deck = s.deck
              => Phrases(s.headline) = {}
    PROVE  AllDifferent(Append(ss, s))
<1>1. PICK tt : tt = Append(ss, s)
  OBVIOUS
<1>2. /\ tt \in Seq(Summary) /\ Len(tt) = Len(ss) + 1 /\ tt[Len(ss) + 1] = s
      /\ \A i \in 1..Len(ss) : tt[i] = ss[i]
      /\ DOMAIN tt = 1..(Len(ss) + 1) /\ DOMAIN ss = 1..Len(ss)
      /\ DOMAIN ms = 1..Len(ms)
  BY <1>1
<1>3. /\ Len(ss) \in Nat /\ RecentWindow \in Nat /\ Len(ms) \in Nat
      /\ Len(ms) = IF Len(ss) > RecentWindow THEN RecentWindow ELSE Len(ss)
      /\ \A i \in 1..Len(ms) : ms[i] = ss[Len(ss) + 1 - i]
  BY RecentAssumption DEF Newest
<1>4. ASSUME NEW i \in DOMAIN tt, NEW j \in DOMAIN tt,
             i < j, j <= i + RecentWindow, Phrases(tt[j].headline) # {},
             tt[i].family = tt[j].family, tt[i].headline = tt[j].headline,
             tt[i].deck = tt[j].deck
      PROVE  FALSE
  <2>1. i \in 1..Len(ss) /\ tt[i] = ss[i] /\ j \in 1..(Len(ss) + 1)
    BY <1>2, <1>3, <1>4
  <2>2. CASE j = Len(ss) + 1
    <3>1. PICK k : k = Len(ss) + 1 - i
      OBVIOUS
    <3>2. k \in 1..Len(ms) /\ k <= RecentWindow /\ Len(ss) + 1 - k = i
      <4>1. /\ i \in Nat /\ i >= 1 /\ i <= Len(ss)
            /\ Len(ss) + 1 <= i + RecentWindow
        BY <1>3, <1>4, <2>1, <2>2
      <4>2. /\ k \in Nat /\ k >= 1 /\ k <= Len(ss) /\ k <= RecentWindow
            /\ Len(ss) + 1 - k = i
        BY <1>3, <3>1, <4>1
      <4>3. k <= Len(ms)
        BY <1>3, <4>2
      <4>4. QED
        BY <1>3, <4>2, <4>3
    <3>3. ms[k] = ss[i] /\ k \in DOMAIN ms
      BY <1>2, <1>3, <3>2
    <3>4. tt[j] = s
      BY <1>2, <2>2
    <3>5. QED
      BY <1>4, <2>1, <3>2, <3>3, <3>4
  <2>3. CASE j # Len(ss) + 1
    <3>1. j \in DOMAIN ss /\ tt[j] = ss[j] /\ i \in DOMAIN ss
      BY <1>2, <1>3, <2>1, <2>3
    <3>2. QED
      BY <1>4, <2>1, <3>1 DEF AllDifferent
  <2>4. QED
    BY <2>2, <2>3
<1>5. AllDifferent(tt)
  BY <1>4 DEF AllDifferent
<1>6. QED
  BY <1>1, <1>5

LEMMA RememberedStep ==
    ASSUME WellFormed, Remembered, [Next]_vars
    PROVE  Remembered'
<1>1. /\ made \in [Feed -> Seq(Summary)] /\ out \in [Feed -> Seq(Summary)]
      /\ memo \in [Feed -> Seq(Summary)] /\ recent \in [Feed -> Seq(Summary)]
      /\ pc \in [Feed -> Places]
  BY DEF WellFormed, TypeOK, VariablesTyped
<1>2. CASE Keeps
  BY <1>2 DEF Keeps, Remembered
<1>3. ASSUME NEW f \in Feed, Drops(f)
      PROVE  Remembered'
  <2>1. pc'[f] = "idle" /\ UNCHANGED <<recent, out>>
    BY <1>1, <1>3 DEF Drops
  <2>2. \A g \in Feed : g # f =>
            pc'[g] = pc[g] /\ memo'[g] = memo[g] /\ made'[g] = made[g]
    BY <1>1, <1>3 DEF Drops
  <2>3. QED
    BY <2>1, <2>2 DEF Remembered
<1>4. ASSUME NEW f \in Feed, Begin(f)
      PROVE  Remembered'
  <2>1. /\ memo'[f] = FirstOf(recent[f], RecentWindow) /\ made'[f] = <<>>
        /\ UNCHANGED <<recent, out>>
        /\ \A g \in Feed : g # f =>
              pc'[g] = pc[g] /\ memo'[g] = memo[g] /\ made'[g] = made[g]
    BY <1>1, <1>4 DEF Begin, Goto, history
  <2>2. out[f] \o <<>> = out[f]
    BY <1>1, ConcatEmptySeq
  <2>3. Newest(memo'[f], out[f] \o made'[f])
    BY <1>1, <2>1, <2>2, NewestFits DEF Remembered
  <2>4. QED
    BY <2>1, <2>2, <2>3 DEF Remembered
<1>5. ASSUME NEW f \in Feed, Finish(f)
      PROVE  Remembered'
  <2>1. /\ pc[f] = "ready" /\ pc'[f] = "idle"
        /\ recent'[f] = memo[f] /\ out'[f] = out[f] \o made[f]
        /\ \A g \in Feed : g # f =>
              /\ pc'[g] = pc[g] /\ memo'[g] = memo[g] /\ made'[g] = made[g]
              /\ recent'[g] = recent[g] /\ out'[g] = out[g]
    BY <1>1, <1>5 DEF Finish, Goto
  <2>2. QED
    BY <2>1 DEF Remembered
<1>6. ASSUME NEW f \in Feed, Restart(f)
      PROVE  Remembered'
  <2>1. /\ pc'[f] = "idle" /\ recent'[f] = <<>> /\ out'[f] = <<>>
        /\ \A g \in Feed : g # f =>
              /\ pc'[g] = pc[g] /\ memo'[g] = memo[g] /\ made'[g] = made[g]
              /\ recent'[g] = recent[g] /\ out'[g] = out[g]
    BY <1>1, <1>6 DEF Restart, Goto
  <2>2. QED
    BY <2>1, NothingRemembered DEF Remembered
<1>7. ASSUME NEW f \in Feed, Judge(f), ~Keeps
      PROVE  Remembered'
  <2>1. PICK s, ss, ms : /\ s = Candidate(f) /\ ss = out[f] \o made[f]
                         /\ ms = memo[f]
    OBVIOUS
  <2>2. /\ Publishes(f, s) /\ pc[f] = "judging" /\ ~IsRefused(Considered(f))
        /\ Decision(f, s, ms) = "published"
    BY <1>7, <2>1, JudgeMade
  <2>3. /\ s \in Summary /\ Phrases(s.deck) # {}
    BY <2>1, <2>2, CandidateType
  <2>4. ms \in Seq(Summary) /\ ss \in Seq(Summary)
    BY <1>1, <2>1
  <2>5. Newest(ms, ss) /\ AllDifferent(ss)
    BY <2>1, <2>2 DEF Remembered
  <2>6. /\ Newest(FirstOf(<<s>> \o ms, RecentWindow), Append(ss, s))
        /\ AllDifferent(Append(ss, s))
    <3>1. \A k \in DOMAIN ms :
              /\ k <= RecentWindow
              /\ ms[k].family = s.family
              /\ ms[k].headline = s.headline /\ ms[k].deck = s.deck
              => Phrases(s.headline) = {}
      BY <2>2, <2>3, <2>4, DecisionProperties
    <3>2. QED
      BY <2>3, <2>4, <2>5, <3>1, NewestGrows, DifferentGrows
  <2>7. out[f] \o Append(made[f], s) = Append(ss, s)
    <3>1. PICK o, m : o = out[f] /\ m = made[f]
      OBVIOUS
    <3>2. o \in Seq(Summary) /\ m \in Seq(Summary) /\ <<s>> \in Seq(Summary)
      BY <1>1, <2>3, <3>1
    <3>3. Append(m, s) = m \o <<s>> /\ Append(o \o m, s) = (o \o m) \o <<s>>
      BY <2>3, <3>2, AppendIsConcat
    <3>4. (o \o m) \o <<s>> = o \o (m \o <<s>>)
      BY <3>2, ConcatAssociative
    <3>5. QED
      BY <2>1, <3>1, <3>3, <3>4
  <2>8. /\ memo'[f] = FirstOf(<<s>> \o ms, RecentWindow)
        /\ made'[f] = Append(made[f], s)
        /\ UNCHANGED <<recent, out>>
        /\ \A g \in Feed : g # f =>
              pc'[g] = pc[g] /\ memo'[g] = memo[g] /\ made'[g] = made[g]
    BY <1>1, <2>1, <2>2 DEF Publishes
  <2>9. QED
    BY <2>6, <2>7, <2>8 DEF Remembered
<1>8. QED
  BY <1>2, <1>3, <1>4, <1>5, <1>6, <1>7, MadeSteps

\* summarize_feed_inner and its recent summaries: two summaries of a feed that
\* are at most RecentWindow apart differ in family, headline or deck, whatever
\* calls fail between them and are made again.
THEOREM NothingTwice == Spec => []NoSummaryTwice
<1>1. Init => WellFormed /\ Remembered
  <2>1. Init => Remembered
    BY NothingRemembered DEF Init, Remembered
  <2>2. QED
    BY <2>1, InitWell
<1>2. WellFormed /\ Remembered /\ [Next]_vars => (WellFormed /\ Remembered)'
  BY WellStep, RememberedStep
<1>3. WellFormed /\ Remembered => NoSummaryTwice
  BY DEF Remembered, NoSummaryTwice
<1>4. QED
  BY <1>1, <1>2, <1>3, PTL DEF Spec
===========================================================================
