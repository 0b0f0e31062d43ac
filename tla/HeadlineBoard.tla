--------------------------- MODULE HeadlineBoard ---------------------------
(***************************************************************************)
(* What the edge promises about its headlines, whatever requests run at    *)
(* once: it shows each story of a feed once, oldest first, and takes one   *)
(* down only when it is too old or newer ones need its place.  A restart   *)
(* brings back some of what was shown, and nothing else.                   *)
(***************************************************************************)
EXTENDS Sublists

CONSTANTS
    Headline,   \* records with a feed, a topic and the time `at`
    HeadlineTtl,
    Limit

VARIABLES
    board,  \* the headlines shown, oldest first
    shown,  \* every headline that was ever shown
    clock

vars == <<board, shown, clock>>

Init == board = <<>> /\ shown = {} /\ clock = 0

\* Whoever takes a headline down, or puts one up, looked at the clock before.
Recent(h, now) == now - h.at <= HeadlineTtl

Kept(now) == Sublist(board, {i \in DOMAIN board : Recent(board[i], now)})

SameStory(h, g) == h.feed = g.feed /\ h.topic = g.topic

TakeDown ==
    /\ \E now \in 0..clock : board' = Kept(now)
    /\ UNCHANGED <<shown, clock>>

Show(h) ==
    /\ \E now \in 0..clock :
          /\ Recent(h, now)
          /\ \A i \in DOMAIN Kept(now) : ~SameStory(Kept(now)[i], h)
          /\ board' = IF Len(Kept(now)) >= Limit
                      THEN Append(Tail(Kept(now)), h)
                      ELSE Append(Kept(now), h)
    /\ shown' = shown \union {h}
    /\ UNCHANGED clock

Age == clock' = clock + 1 /\ UNCHANGED <<board, shown>>

Return ==
    /\ \A i \in DOMAIN board' : board'[i] \in shown
    /\ Len(board') <= Limit
    /\ \A i, j \in 1..Len(board') : i # j => ~SameStory(board'[i], board'[j])
    /\ UNCHANGED <<shown, clock>>

Next == TakeDown \/ Age \/ Return \/ \E h \in Headline : Show(h)

Spec == Init /\ [][Next]_vars
===========================================================================
