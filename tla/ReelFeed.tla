----------------------------- MODULE ReelFeed ------------------------------
(***************************************************************************)
(* What the local server promises the pages that are open on it: every     *)
(* settled story comes into the reel once, and then goes over the event    *)
(* stream once.  Nothing is promised about the order: tasks that settle    *)
(* stories at the same time overtake each other.                           *)
(***************************************************************************)
EXTENDS Naturals, SequencesExt

CONSTANTS
    MaxStories,     \* bound: stories in a behaviour
    ReelCapacity    \* how many bulletins the reel holds

ASSUME ReelAssumption == MaxStories \in Nat /\ ReelCapacity \in Nat \ {0}

VARIABLES
    settled,   \* stories settled so far; their names are 1..settled
    pushed,    \* stories that came into the reel
    reel,      \* the youngest of them
    channel    \* bulletins sent, in order

feedVars == <<settled, pushed, reel, channel>>

InReel(ring, x) == Append(IF Len(ring) >= ReelCapacity THEN Tail(ring) ELSE ring, x)

FeedInit == settled = 0 /\ pushed = {} /\ reel = <<>> /\ channel = <<>>

Settle(n) ==
    /\ settled < n
    /\ settled' = n
    /\ UNCHANGED <<pushed, reel, channel>>

Push(n) ==
    /\ n <= settled /\ n \notin pushed
    /\ pushed' = pushed \cup {n}
    /\ reel' = InReel(reel, n)
    /\ UNCHANGED <<settled, channel>>

Send(n) ==
    /\ n \in pushed /\ n \notin ToSet(channel)
    /\ channel' = Append(channel, n)
    /\ UNCHANGED <<settled, pushed, reel>>

FeedNext == \E n \in 1..MaxStories : Settle(n) \/ Push(n) \/ Send(n)

(* The server's tasks run to their end.                                    *)
FeedFairness == \A n \in 1..MaxStories : WF_feedVars(Push(n)) /\ WF_feedVars(Send(n))

FeedSpec == FeedInit /\ [][FeedNext]_feedVars /\ FeedFairness
=============================================================================
