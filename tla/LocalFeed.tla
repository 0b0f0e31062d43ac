----------------------------- MODULE LocalFeed -----------------------------
(***************************************************************************)
(* A page open on the local server: what the server promises (ReelFeed,    *)
(* which LocalServer implements), the event stream it reads and the        *)
(* snapshots it fetches, interleaved.                                      *)
(***************************************************************************)
EXTENDS ReelFeed, StagePage

CONSTANT ChannelCapacity   \* of the broadcast channel

ASSUME ChannelAssumption == ChannelCapacity \in Nat \ {0}

VARIABLE stream   \* the place in channel the page reads next, 0 without a stream

vars == <<feedVars, pageVars, stream>>

Init == FeedInit /\ PageInit /\ stream = 0

(* events_sse: a stream gets what is sent from now on.                     *)
Subscribe ==
    /\ stream = 0
    /\ stream' = Len(channel) + 1
    /\ UNCHANGED <<feedVars, pageVars>>

\* A stream that lagged goes on at the oldest bulletin the channel still holds.
NextInStream ==
    IF Len(channel) - stream >= ChannelCapacity
    THEN Len(channel) - ChannelCapacity + 1
    ELSE stream

(* The page's stream hands it the next bulletin.                           *)
StreamDelivers ==
    /\ stream > 0 /\ stream <= Len(channel)
    /\ stream' = NextInStream + 1
    /\ Incoming(channel[NextInStream])
    /\ UNCHANGED <<feedVars, signature, fetch>>

PageReload ==
    /\ Reload
    /\ stream' = 0
    /\ UNCHANGED feedVars

PageNext ==
    \/ \E f \in Fetch :
          SnapshotTaken(f, reel) \/ SnapshotLost(f) \/ ApplySnapshot(f)
    \/ Dwelt
    \/ Ages(settled)

Next ==
    \/ FeedNext /\ UNCHANGED <<pageVars, stream>>
    \/ PageNext /\ UNCHANGED <<feedVars, stream>>
    \/ Subscribe
    \/ StreamDelivers
    \/ PageReload

(* The page asks for snapshots every few seconds and some of them arrive;  *)
(* its timer fires.  Nothing is assumed of the stream.                     *)
Fairness ==
    /\ WF_vars(Dwelt /\ UNCHANGED <<feedVars, stream>>)
    /\ \A f \in Fetch :
          /\ WF_vars(SnapshotTaken(f, reel) /\ UNCHANGED <<feedVars, stream>>)
          /\ SF_vars(ApplySnapshot(f) /\ UNCHANGED <<feedVars, stream>>)

Spec == Init /\ [][Next]_vars /\ Fairness

------------------------------------------------------------------------------
(* Every story that is in the reel while it is fresh comes to its end on   *)
(* the stage, or is pushed out of the reel by younger ones: a bulletin     *)
(* sent before the page subscribed, or lost by a stream that lagged, comes *)
(* with a snapshot (reel.ts, hydrate).                                     *)
EveryStoryShown ==
    \A n \in 1..MaxStories :
        (n \in ToSet(reel)) ~> (n \in seen \/ ~Fresh(n) \/ n \notin ToSet(reel))
=============================================================================
