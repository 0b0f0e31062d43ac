-------------------------- MODULE MCStoryCompiler --------------------------
(* Instances of StoryCompiler for TLC.                                     *)
EXTENDS StoryCompiler, TLC

CONSTANTS t1, t2, feed, site, green, report, chatter, readiness

\* An outcome of the feed's release, which the code tells in fixed words; a
\* report of it that may hold a secret; and talk about the work.
Signed == (green :> {"name", "outcome", "long"})
          @@ (report :> {"context", "secret", "done"})
          @@ (chatter :> {"chatter", "context", "verb", "long"})

ReleaseNotes == [n \in Note |-> IF n = green THEN readiness ELSE None]

FeedOwns == [x \in Topic |-> feed]

\* The scores the codex adapter gives its events.
CodexScore == [message |-> 36, start |-> 45, command |-> 42, tool |-> 48,
               edit |-> 78, pass |-> 76, fail |-> 90, tool_fail |-> 84,
               turn_fail |-> 92, complete |-> 82]

TwoProjects == [t \in Turn |-> IF t = t1 THEN feed ELSE site]

FamilyRank == [turn |-> 0, test |-> 1, command |-> 2, edit |-> 3,
               incident |-> 4]

\* StoryKey orders by turn, then by family.
TurnThenFamily ==
    [k \in Key |-> (IF k[1] = t1 THEN 0 ELSE 5) + FamilyRank[k[2]]]

Ev(t, k, n) == [turn |-> t, kind |-> k, note |-> n, startup |-> FALSE]

\* One busy turn, with startup context, beside a second one.
BusyTurn ==
    {Ev(t1, "message", n) : n \in {green, report, chatter}}
        \union {[Ev(t1, "message", green) EXCEPT !.startup = TRUE],
                Ev(t1, "command", None), Ev(t1, "fail", None),
                Ev(t1, "tool_fail", None), Ev(t1, "turn_fail", None),
                Ev(t1, "complete", None), Ev(t1, "complete", report),
                Ev(t1, "tool", None),
                Ev(t1, "pass", None), Ev(t1, "edit", report),
                Ev(t2, "message", green), Ev(t2, "complete", report)}
============================================================================
