------------------------------ MODULE FeedBus ------------------------------
(***************************************************************************)
(* What a peer network promises a follower, without saying how: a feed is  *)
(* a log of publications; publishing hands the new publication to some of  *)
(* the followers, in the order of the log, and to nobody else; a follower  *)
(* takes what it was handed.  Following is the only way to become a        *)
(* follower, and it is for good.                                           *)
(***************************************************************************)
EXTENDS Naturals, Sequences

CONSTANTS Peer, Feed, Story

VARIABLES
    followers,  \* feed -> the peers that follow it
    log,        \* feed -> its publications, oldest first
    mail        \* peer -> the <<feed, number>> it was handed and did not take

vars == <<followers, log, mail>>

Init ==
    /\ followers = [f \in Feed |-> {}]
    /\ log = [f \in Feed |-> <<>>]
    /\ mail = [p \in Peer |-> <<>>]

Follow(p, f) ==
    /\ followers' = [followers EXCEPT ![f] = @ \union {p}]
    /\ UNCHANGED <<log, mail>>

Publish(f, s, receivers) ==
    /\ log' = [log EXCEPT ![f] = Append(@, s)]
    /\ mail' = [p \in Peer |->
                  IF p \in receivers
                  THEN Append(mail[p], <<f, Len(log[f]) + 1>>)
                  ELSE mail[p]]
    /\ UNCHANGED followers

Take(p) ==
    /\ mail' = [mail EXCEPT ![p] = <<>>]
    /\ UNCHANGED <<followers, log>>

Next ==
    \/ \E p \in Peer, f \in Feed : Follow(p, f)
    \/ \E f \in Feed, s \in Story :
          \E receivers \in SUBSET followers[f] : Publish(f, s, receivers)
    \/ \E p \in Peer : Take(p)

Spec == Init /\ [][Next]_vars
============================================================================
