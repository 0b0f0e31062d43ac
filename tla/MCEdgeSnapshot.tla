--------------------------- MODULE MCEdgeSnapshot ---------------------------
(* Instances of EdgeSnapshot for TLC.                                      *)
EXTENDS EdgeSnapshot

CONSTANTS h1, h2, f1, f2, change, alarm

Fresh(t) == [topic |-> t, age |-> 0, ok |-> TRUE]
Old(t) == [topic |-> t, age |-> 1, ok |-> TRUE]
Unsigned(t) == [topic |-> t, age |-> 0, ok |-> FALSE]

Publish(f, presence, caps) ==
    [feed |-> f, public |-> TRUE, presence |-> presence, caps |-> caps]

\* A batch that ends with a bad capsule, a whole one, one that is too large,
\* and that of a private feed; one story is old when it arrives.
Traffic ==
    {Publish(f1, TRUE, <<Fresh(change), Unsigned(alarm)>>),
     Publish(f1, FALSE, <<Old(alarm), Fresh(change)>>),
     Publish(f2, TRUE, <<Fresh(change), Fresh(change), Fresh(alarm)>>),
     [Publish(f2, FALSE, <<Fresh(alarm)>>) EXCEPT !.public = FALSE]}
===========================================================================
