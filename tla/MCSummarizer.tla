--------------------------- MODULE MCSummarizer ---------------------------
(* Instances of Summarizer: the stories and the output of children.        *)
EXTENDS Summarizer

Kind(headline, deck, project, family, score) ==
    [headline |-> Says(headline), deck |-> Says(deck),
     lower |-> Says({"agent", "own"}), chips |-> {Says({"own"}), Says({"agent"})},
     project |-> project, family |-> family, score |-> score]

Failing == Kind({"agent", "cut", "release", "failing"},
                {"release", "failing", "outcome", "command"}, "public", "Turn", 95)

Passing == Kind({"release", "passing", "outcome"}, {"release", "passing", "own", "project"},
                "private", "Plan", 80)

Keyed == [Kind({"release", "passing"}, {"outcome", "contact"}, "none", "Plan", 80)
            EXCEPT !.deck.tail = {"key"}]

MCStoryKinds == {Failing, Passing, Keyed}

Printed(text, form, size) == [text |-> text, form |-> form, size |-> size]

Said(headline, deck, publish, unchanged) ==
    [headline |-> Says(headline), deck |-> Says(deck),
     lower |-> Says({"settled", "leak"}), chips |-> {Says({"contact"})},
     publish |-> publish, unchanged |-> unchanged]

News == Said({"cut", "project"}, {"release", "passing", "outcome", "contact"},
             "yes", FALSE)

NoNews == Said({"nochange"}, {"nochange"}, "no", TRUE)

Declined == Said({"release", "passing", "own"}, {"outcome"}, "no", FALSE)

MCOutputs ==
    {Printed(News, "message", 1), Printed(NoNews, "json", 1),
     Printed(Declined, "message", 1), Printed(NoNews, "prose", 1),
     Printed(News, "prose", 3)}

MCConfigs == {[f \in Feed |-> p] :
                 p \in {"codex-memory", "process", "deterministic"}}
===========================================================================
