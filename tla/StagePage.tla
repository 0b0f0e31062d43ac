----------------------------- MODULE StagePage -----------------------------
(***************************************************************************)
(* The stage of the local page (reel.ts): the queue of bulletins it shows  *)
(* one after the other, filled by the event stream and by snapshots that   *)
(* are fetched every few seconds and may come back late and out of order.  *)
(* What has been shown to its end is remembered across reloads.            *)
(* A bulletin is a number; a higher one is younger.                        *)
(***************************************************************************)
EXTENDS SequencesExt, Sublists

CONSTANTS
    Fetch,       \* snapshot requests that may be under way at once
    Urgent,      \* bulletins that interrupt the stage
    MaxStage,    \* MAX_STAGE_BULLETINS
    MaxReloads,  \* bound: reloads of the page
    MaxStale     \* bound: bulletins that get too old

ASSUME StageAssumption == MaxStage \in Nat \ {0}

VARIABLES
    queue,       \* bulletins
    active,      \* activeIndex, from 1
    timer,       \* dwellTimer is set
    seen,        \* seenBulletinIds, kept in localStorage
    signature,   \* localSnapshotSignature
    fetch,       \* the requests under way and what came back
    staleUpTo,   \* bulletins 1..staleUpTo are older than STAGE_HEADLINE_MAX_AGE_MS
    reloads

stage == <<queue, active, timer, seen>>
pageVars == <<stage, signature, fetch, staleUpTo, reloads>>

Fresh(b) == b > staleUpTo
Queued == ToSet(queue)
NoBulletin == 0
ActiveOf(q, i) == IF i \in DOMAIN q THEN q[i] ELSE NoBulletin
Active == ActiveOf(queue, active)

\* The place of b in a queue, or the given one.
PlaceOf(q, b, otherwise) ==
    IF b \in ToSet(q) THEN CHOOSE i \in DOMAIN q : q[i] = b ELSE otherwise

LastOf(s, n) == SubSeq(s, (IF Len(s) > n THEN Len(s) - n ELSE 0) + 1, Len(s))

\* A queue without b.
Without(q, b) == Sublist(q, {i \in DOMAIN q : q[i] # b})

\* trimBulletinQueue: the end of the queue, and in any case what is on stage.
Trimmed(q, keep) ==
    IF Len(q) <= MaxStage \/ keep \notin ToSet(q) \/ keep \in ToSet(LastOf(q, MaxStage))
    THEN LastOf(q, MaxStage)
    ELSE <<keep>> \o LastOf(Without(q, keep), MaxStage - 1)

SignatureByLength(snapshot) == <<Len(snapshot), NoBulletin>>

\* snapshotSignature: how many, and the last one.
SignatureOf(snapshot) ==
    <<Len(snapshot), IF snapshot = <<>> THEN NoBulletin ELSE snapshot[Len(snapshot)]>>

NoFetch == [at |-> "none", bulletins |-> <<>>]

PageInit ==
    /\ queue = <<>> /\ active = 1 /\ timer = FALSE /\ seen = {}
    /\ signature = <<>>
    /\ fetch = [f \in Fetch |-> NoFetch]
    /\ staleUpTo = 0 /\ reloads = 0

\* showQueuedBulletin: b comes on stage and its time starts.
Show(b) ==
    /\ active' = PlaceOf(queue', b, Len(queue'))
    /\ timer' = TRUE

\* ensureQueuedAdvance: what is on stage stays there; its time runs if others wait.
Keep(b) ==
    /\ active' = PlaceOf(queue', b, 1)
    /\ timer' = (timer \/ Len(queue') > 1)

IncomingAgain(b) ==
    /\ queue' = Trimmed(IF b \in Queued THEN queue ELSE Append(queue, b), Active)
    /\ IF Active = NoBulletin THEN Show(b) ELSE Keep(Active)
    /\ UNCHANGED <<seen, staleUpTo, reloads>>

(* queueIncomingBulletin                                                   *)
Incoming(b) ==
    /\ IF b \in seen \/ ~Fresh(b)
       THEN UNCHANGED stage
       ELSE /\ queue' = Trimmed(IF b \in Queued THEN queue ELSE Append(queue, b), Active)
            /\ IF Active = NoBulletin \/ Len(queue') = 1 \/ (b \notin Queued /\ b \in Urgent)
               THEN Show(b) ELSE Keep(Active)
            /\ UNCHANGED seen
    /\ UNCHANGED <<staleUpTo, reloads>>

\* stageCandidateBulletins that are not on the queue yet, youngest first.
Additions(snapshot) ==
    Reverse(Sublist(snapshot, {i \in DOMAIN snapshot :
                                  /\ snapshot[i] \notin Queued \cup seen
                                  /\ Fresh(snapshot[i])}))

\* What stays of the queue: what was not shown, and is fresh or on stage.
Existing ==
    Sublist(queue, {i \in DOMAIN queue :
                       /\ queue[i] \notin seen
                       /\ queue[i] = Active \/ Fresh(queue[i])})

\* latestInterruptBulletin: the last of the candidates that interrupts.
LatestInterrupt(additions) ==
    LET at == {i \in DOMAIN additions : additions[i] \in Urgent}
    IN  IF at = {} THEN NoBulletin
        ELSE additions[CHOOSE i \in at : \A j \in at : j <= i]

\* The queue a snapshot leaves; an interrupting bulletin that was trimmed comes back.
Merged(additions, urgent) ==
    LET merged == Trimmed(Existing \o additions, Active)
    IN  IF urgent \in {NoBulletin} \cup ToSet(merged) THEN merged
        ELSE Trimmed(Append(merged, urgent), Active)

(* applyBulletinQueueUpdate                                                *)
Update(additions, urgent) ==
    /\ queue' = Merged(additions, urgent)
    /\ IF queue' = <<>> THEN active' = 1 /\ timer' = FALSE
       ELSE IF urgent # NoBulletin THEN Show(urgent)
       ELSE IF Active \notin ToSet(queue') THEN Show(Head(queue'))
       ELSE Keep(Active)
    /\ UNCHANGED seen

(* applySnapshot, which does nothing about a snapshot like the last one.   *)
ApplySnapshot(f) ==
    /\ fetch[f].at = "back"
    /\ fetch' = [fetch EXCEPT ![f] = NoFetch]
    /\ signature' = SignatureOf(fetch[f].bulletins)
    /\ IF signature' = signature THEN UNCHANGED stage
       ELSE \E additions \in {Additions(fetch[f].bulletins)} :
               Update(additions, LatestInterrupt(additions))
    /\ UNCHANGED <<staleUpTo, reloads>>

(* hydrate: a snapshot is asked for, on loading and every few seconds; it  *)
(* is of the moment the server answers, and is applied when it is here.    *)
SnapshotTaken(f, reel) ==
    /\ fetch[f].at = "none"
    /\ fetch' = [fetch EXCEPT ![f] = [at |-> "back", bulletins |-> reel]]
    /\ UNCHANGED <<stage, signature, staleUpTo, reloads>>

(* The request fails; the next one is a few seconds away.                  *)
SnapshotLost(f) ==
    /\ fetch[f].at = "back"
    /\ fetch' = [fetch EXCEPT ![f] = NoFetch]
    /\ UNCHANGED <<stage, signature, staleUpTo, reloads>>

(* completeActiveBulletin, when the time on stage is over                  *)
Dwelt ==
    /\ timer
    /\ seen' = IF Active = NoBulletin THEN seen ELSE seen \cup {Active}
    /\ queue' = Without(queue, Active)
    /\ active' = IF queue' = <<>> THEN 1
                 ELSE IF active <= Len(queue') THEN active ELSE Len(queue')
    /\ timer' = (queue' # <<>>)
    /\ UNCHANGED <<signature, fetch, staleUpTo, reloads>>

(* The page is loaded anew; what was seen is read from localStorage.       *)
Reload ==
    /\ reloads < MaxReloads
    /\ reloads' = reloads + 1
    /\ queue' = <<>> /\ active' = 1 /\ timer' = FALSE
    /\ signature' = <<>>
    /\ fetch' = [f \in Fetch |-> NoFetch]
    /\ UNCHANGED <<seen, staleUpTo>>

\* Half an hour passes for the oldest bulletin that is still fresh.
Ages(newest) ==
    /\ staleUpTo < newest /\ staleUpTo < MaxStale
    /\ staleUpTo' = staleUpTo + 1
    /\ UNCHANGED <<stage, signature, fetch, reloads>>

-----------------------------------------------------------------------------
(* A headline that was on stage to its end does not come back, whether the *)
(* stream, a late snapshot or a reload brings it again (reel.ts,           *)
(* applyBulletinQueueUpdate), and none is queued twice.                    *)
ShownOnce ==
    /\ ToSet(queue) \cap seen = {}
    /\ \A i, j \in DOMAIN queue : queue[i] = queue[j] => i = j
=============================================================================
