------------------------- MODULE LocalServerProofs -------------------------
(***************************************************************************)
(* Proofs about LocalServer, for every number of tasks, sessions and       *)
(* events and every capacity of the rings.                                 *)
(***************************************************************************)
EXTENDS LocalServer, StagePage, OrderLemmas

---------------------------------------------------------------------------
(* Lemmas about the operators.                                             *)

\* The names of k stories that settle after n others.
LEMMA NamesProperties ==
    ASSUME NEW n \in Nat, NEW k \in Nat
    PROVE  /\ Names(n, k) \in Seq(Nat)
           /\ Len(Names(n, k)) = k
           /\ \A i \in 1..k : Names(n, k)[i] = n + i
BY DEF Names

\* A ring that was within its capacity stays so (InMemoryStore::push,
\* ReelBuffer::push).
LEMMA PushedProperties ==
    ASSUME NEW ring \in Seq(Nat), NEW x \in Nat, NEW c \in Nat \ {0},
           Len(ring) <= c
    PROVE  Pushed(ring, x, c) \in Seq(Nat) /\ Len(Pushed(ring, x, c)) <= c
<1>1. CASE Len(ring) >= c
  <2>1. ring # <<>> /\ Len(ring) \in Nat
    BY <1>1, EmptySeq, LenProperties
  <2>2. Tail(ring) \in Seq(Nat) /\ Len(Tail(ring)) = Len(ring) - 1
    BY <2>1, HeadTailProperties
  <2>3. Append(Tail(ring), x) \in Seq(Nat)
        /\ Len(Append(Tail(ring), x)) = Len(ring)
    BY <2>1, <2>2, AppendProperties
  <2>4. QED
    BY <1>1, <2>3 DEF Pushed
<1>2. CASE ~(Len(ring) >= c)
  <2>1. Append(ring, x) \in Seq(Nat) /\ Len(Append(ring, x)) = Len(ring) + 1
    BY AppendProperties
  <2>2. QED
    BY <1>2, <2>1, LenProperties DEF Pushed
<1>3. QED
  BY <1>1, <1>2

---------------------------------------------------------------------------
(* Type correctness.                                                       *)

\* A task that starts on stories (ingest_event, flush_story_windows).
LEMMA StartedTypes ==
    ASSUME TypeOK, NEW t \in Task, NEW e \in Nat, NEW ss \in Seq(Nat),
           Started(t, e, ss)
    PROVE  task' \in [Task -> Job]
BY DEF Started, TypeOK, Job, Point

\* A task that has nothing to forward moves on.
LEMMA GoesToTypes ==
    ASSUME TypeOK, NEW t \in Task, task[t].stories = <<>>,
           NEW place \in Point, GoesTo(t, place),
           place \in {"counted", "send"} => task[t].bulletins # <<>>
    PROVE  task' \in [Task -> Job]
BY DEF GoesTo, TypeOK, Job, Point

\* A task that is done.
LEMMA IdleTypes ==
    ASSUME TypeOK, NEW t \in Task, task' = [task EXCEPT ![t] = Idle]
    PROVE  task' \in [Task -> Job]
<1>1. Idle \in Job
  BY DEF Idle, Job, Point
<1>2. QED
  BY <1>1 DEF TypeOK, Idle

LEMMA TypeStep == TypeOK /\ [Next]_vars => TypeOK'
<1> SUFFICES ASSUME TypeOK, [Next]_vars
             PROVE  TypeOK'
  OBVIOUS
<1> USE ServerAssumption
<1>1. ASSUME NEW r \in Request, NEW s \in Session, NEW ends \in BOOLEAN,
             Ingest(r, s, ends)
      PROVE  TypeOK'
  <2>1. /\ accepted' \in Nat /\ settled' \in Nat
        /\ open' \subseteq Session
    BY <1>1 DEF Ingest, TypeOK
  <2>2. IsFiniteSet(open')
    BY <1>1, FS_AddElement, FS_RemoveElement DEF Ingest, TypeOK
  <2>3. r \in Task /\ Names(settled, IF ends THEN 1 ELSE 0) \in Seq(Nat)
    BY NamesProperties DEF Task, TypeOK
  <2>4. QED
    BY <1>1, <2>1, <2>2, <2>3, StartedTypes DEF Ingest, TypeOK, stores, outlets
<1>2. ASSUME NEW due \in SUBSET open, Flush(due)
      PROVE  TypeOK'
  <2>1. IsFiniteSet(due) /\ IsFiniteSet(open \ due)
    BY FS_Subset DEF TypeOK
  <2>2. Cardinality(due) \in Nat
    BY <2>1, FS_CardinalityType
  <2>3. Flusher \in Task /\ Names(settled, Cardinality(due)) \in Seq(Nat)
    BY <2>2, NamesProperties DEF Task, TypeOK
  <2>4. QED
    BY <1>2, <2>1, <2>2, <2>3, StartedTypes DEF Flush, TypeOK, stores, outlets
<1>3. ASSUME NEW t \in Task, ForwardStory(t)
      PROVE  TypeOK'
  <2>1. /\ task[t].at = "forward"
        /\ task[t].stories \in Seq(Nat) /\ task[t].stories # <<>>
    BY <1>3 DEF ForwardStory, At, TypeOK, Job
  <2>2. PICK x \in Nat, rest \in Seq(Nat) :
           x = Head(task[t].stories) /\ rest = Tail(task[t].stories)
    BY <2>1, HeadTailProperties
  <2>3. sink' = Append(sink, x) \/ sink' = sink
    BY <1>3, <2>2 DEF ForwardStory
  <2>4. sink' \in Seq(Nat)
    <3>1. sink \in Seq(Nat)
      BY DEF TypeOK
    <3>2. Append(sink, x) \in Seq(Nat)
      BY <3>1, AppendProperties
    <3>3. QED
      BY <2>3, <3>1, <3>2
  <2>5. PICK left \in Seq(Nat) : task' = [task EXCEPT ![t].stories = left]
    <3>1. CASE sinkOpen
      BY <1>3, <2>2, <3>1 DEF ForwardStory
    <3>2. CASE ~sinkOpen
      <4>1. <<>> \in Seq(Nat)
        BY EmptySeq
      <4>2. QED
        BY <1>3, <3>2, <4>1 DEF ForwardStory
    <3>3. QED
      BY <3>1, <3>2
  <2>6. task' = [task EXCEPT ![t] = [@ EXCEPT !.stories = left]]
    BY <2>5 DEF TypeOK
  <2>7. QED
    BY <1>3, <2>1, <2>4, <2>6 DEF ForwardStory, TypeOK, shared, stores, Job
<1>4. ASSUME NEW r \in Request, StoreEvent(r)
      PROVE  TypeOK'
  <2>1. r \in Task /\ task[r].stories = <<>> /\ task[r].event \in Nat
    BY <1>4 DEF StoreEvent, Forwarded, Task, TypeOK, Job
  <2>2. events' \in Seq(Nat) /\ Len(events') <= StoreCapacity
    BY <1>4, <2>1, PushedProperties DEF StoreEvent, TypeOK
  <2>3. QED
    BY <1>4, <2>1, <2>2, GoesToTypes DEF StoreEvent, TypeOK, shared, outlets,
       Point
<1>5. ASSUME NEW r \in Request, CountEvent(r)
      PROVE  TypeOK'
  <2>1. r \in Task /\ task[r].stories = <<>>
    BY <1>5 DEF CountEvent, At, Task, TypeOK, Job
  <2>2. QED
    BY <1>5, <2>1, GoesToTypes DEF CountEvent, TypeOK, shared, outlets, Point
<1>6. ASSUME NEW t \in Task, PushBulletin(t)
      PROVE  TypeOK'
  <2>1. /\ task[t].stories = <<>>
        /\ task[t].bulletins \in Seq(Nat) /\ task[t].bulletins # <<>>
    BY <1>6 DEF PushBulletin, Emitting, Forwarded, At, TypeOK, Job
  <2>2. Head(task[t].bulletins) \in Nat
    BY <2>1, HeadTailProperties
  <2>3. reel' \in Seq(Nat) /\ Len(reel') <= ReelCapacity
    BY <1>6, <2>2, PushedProperties DEF PushBulletin, TypeOK
  <2>4. QED
    BY <1>6, <2>1, <2>3, GoesToTypes DEF PushBulletin, TypeOK, shared,
       outlets, Point
<1>7. ASSUME NEW t \in Task, CountBulletin(t)
      PROVE  TypeOK'
  <2>1. task[t].stories = <<>> /\ task[t].bulletins # <<>>
    BY <1>7 DEF CountBulletin, At, TypeOK, Job
  <2>2. QED
    BY <1>7, <2>1, GoesToTypes DEF CountBulletin, TypeOK, shared, outlets,
       Point
<1>8. ASSUME NEW t \in Task, SendBulletin(t)
      PROVE  TypeOK'
  <2>1. /\ task[t].stories = <<>>
        /\ task[t].bulletins \in Seq(Nat) /\ task[t].bulletins # <<>>
    BY <1>8 DEF SendBulletin, At, TypeOK, Job
  <2>2. PICK x \in Nat, rest \in Seq(Nat) :
           x = Head(task[t].bulletins) /\ rest = Tail(task[t].bulletins)
    BY <2>1, HeadTailProperties
  <2>3. channel' \in Seq(Nat)
    BY <1>8, <2>2, AppendProperties DEF SendBulletin, TypeOK
  <2>4. task' = [task EXCEPT ![t].at = "emit", ![t].bulletins = rest]
    BY <1>8, <2>2 DEF SendBulletin
  <2>5. task' = [task EXCEPT ![t] =
                    [@ EXCEPT !.at = "emit", !.bulletins = rest]]
    BY <2>4 DEF TypeOK
  <2>6. task' \in [Task -> Job]
    BY <2>1, <2>5 DEF TypeOK, Job, Point
  <2>7. QED
    BY <1>8, <2>3, <2>6 DEF SendBulletin, TypeOK, shared, stores
<1>9. ASSUME NEW t \in Task, task' = [task EXCEPT ![t] = Idle],
             UNCHANGED <<shared, stores, outlets, view>>
      PROVE  TypeOK'
  BY <1>9, IdleTypes DEF TypeOK, shared, stores, outlets
<1>10. CASE SinkCloses
  BY <1>10 DEF SinkCloses, TypeOK, shared, stores
<1>11. CASE UNCHANGED <<shared, stores, outlets, task>>
  BY <1>11 DEF TypeOK, shared, stores, outlets
<1>12. ASSUME NEW r \in Request, Answer(r)
       PROVE  TypeOK'
  BY <1>9, <1>12 DEF Answer, Task
<1>13. CASE FlushEnds
  BY <1>9, <1>13 DEF FlushEnds, Task
<1>14. CASE ReadCounters \/ ReadEvents \/ ReadReel \/ UNCHANGED vars
  BY <1>11, <1>14 DEF ReadCounters, ReadEvents, ReadReel, vars
<1>15. QED
  BY <1>1, <1>2, <1>3, <1>4, <1>5, <1>6, <1>7, <1>8, <1>10, <1>12, <1>13,
     <1>14 DEF Next

LEMMA TypeInitially == Init => TypeOK
BY ServerAssumption, FS_EmptySet DEF Init, TypeOK, Idle, Job, Point

\* Type correctness: whichever tasks interleave, the rings keep to their
\* capacities and a task forwards what it has before it goes on.
THEOREM TypeCorrect == Spec => []TypeOK
<1>1. QED
  BY TypeInitially, TypeStep, PTL DEF Spec

---------------------------------------------------------------------------
(* Every settled story is forwarded once.                                  *)

\* With n stories settled, queue q into the publisher, which still listens if
\* o, and ss[t] what task t has yet to send: no story is in two places, and
\* while the publisher listens every story is in one.
Once(n, q, o, ss) ==
    /\ \A i \in 1..Len(q) : q[i] \in 1..n
    /\ \A i, j \in 1..Len(q) : q[i] = q[j] => i = j
    /\ \A t \in Task : \A i \in 1..Len(ss[t]) :
          /\ ss[t][i] \in 1..n
          /\ \A j \in 1..Len(ss[t]) : ss[t][i] = ss[t][j] => i = j
          /\ \A j \in 1..Len(q) : ss[t][i] # q[j]
          /\ \A u \in Task \ {t} : \A j \in 1..Len(ss[u]) : ss[t][i] # ss[u][j]
    /\ o => \A m \in 1..n :
               \/ \E i \in 1..Len(q) : q[i] = m
               \/ \E t \in Task : \E i \in 1..Len(ss[t]) : ss[t][i] = m

\* k more stories settle and a task without any takes them.
LEMMA OnceSettling ==
    ASSUME NEW n \in Nat, NEW q \in Seq(Nat), NEW o \in BOOLEAN,
           NEW ss \in [Task -> Seq(Nat)], Once(n, q, o, ss),
           NEW t \in Task, ss[t] = <<>>, NEW k \in Nat
    PROVE  Once(n + k, q, o, [ss EXCEPT ![t] = Names(n, k)])
<1> DEFINE ss2 == [ss EXCEPT ![t] = Names(n, k)]
<1>1. /\ Len(Names(n, k)) = k
      /\ \A i \in 1..k : Names(n, k)[i] = n + i
  BY NamesProperties
<1>2. ss2[t] = Names(n, k) /\ \A u \in Task \ {t} : ss2[u] = ss[u]
  OBVIOUS
<1>3. Len(q) \in Nat /\ \A u \in Task : Len(ss[u]) \in Nat
  BY LenProperties
<1> HIDE DEF ss2
<1>4. /\ \A i \in 1..Len(q) : q[i] \in 1..(n + k)
      /\ \A i, j \in 1..Len(q) : q[i] = q[j] => i = j
  BY DEF Once
<1>5. ASSUME NEW u \in Task, NEW i \in 1..Len(ss2[u])
      PROVE  /\ ss2[u][i] \in 1..(n + k)
             /\ \A j \in 1..Len(ss2[u]) : ss2[u][i] = ss2[u][j] => i = j
             /\ \A j \in 1..Len(q) : ss2[u][i] # q[j]
             /\ \A v \in Task \ {u} :
                   \A j \in 1..Len(ss2[v]) : ss2[u][i] # ss2[v][j]
  <2>1. CASE u = t
    <3>1. i \in 1..k /\ ss2[u][i] = n + i
      BY <1>1, <1>2, <1>5, <2>1
    <3>2. \A j \in 1..Len(ss2[u]) : ss2[u][j] = n + j
      BY <1>1, <1>2, <2>1
    <3>3. \A j \in 1..Len(q) : q[j] <= n
      BY DEF Once
    <3>4. \A v \in Task \ {u} : \A j \in 1..Len(ss2[v]) : ss2[v][j] <= n
      BY <1>2, <2>1 DEF Once
    <3>5. n + i \in 1..(n + k) /\ ~(n + i <= n)
      BY <3>1
    <3>6. \A j \in 1..Len(ss2[u]) : ss2[u][i] = ss2[u][j] => i = j
      <4>1. SUFFICES ASSUME NEW j \in 1..Len(ss2[u]), n + i = n + j
                     PROVE  i = j
        BY <3>1, <3>2
      <4>2. QED
        BY <3>1, <4>1
    <3>7. QED
      BY <3>1, <3>3, <3>4, <3>5, <3>6
  <2>2. CASE u # t
    <3>1. ss2[u] = ss[u] /\ i \in 1..Len(ss[u])
      BY <1>2, <1>5, <2>2
    <3>2. /\ ss[u][i] \in 1..n
          /\ \A j \in 1..Len(ss[u]) : ss[u][i] = ss[u][j] => i = j
          /\ \A j \in 1..Len(q) : ss[u][i] # q[j]
          /\ \A v \in Task \ {u} : \A j \in 1..Len(ss[v]) : ss[u][i] # ss[v][j]
      BY <3>1 DEF Once
    <3>3. ASSUME NEW v \in Task \ {u}, NEW j \in 1..Len(ss2[v])
          PROVE  ss2[u][i] # ss2[v][j]
      <4>1. CASE v = t
        <5>1. ss2[v][j] = n + j /\ j \in 1..k
          BY <1>1, <1>2, <3>3, <4>1
        <5>2. QED
          BY <3>1, <3>2, <5>1
      <4>2. CASE v # t
        BY <1>2, <3>1, <3>2, <3>3, <4>2
      <4>3. QED
        BY <4>1, <4>2
    <3>4. QED
      BY <3>1, <3>2, <3>3
  <2>3. QED
    BY <2>1, <2>2
<1>6. ASSUME o, NEW m \in 1..(n + k)
      PROVE  \/ \E i \in 1..Len(q) : q[i] = m
             \/ \E u \in Task : \E i \in 1..Len(ss2[u]) : ss2[u][i] = m
  <2>1. CASE m \in 1..n
    <3>1. CASE \E i \in 1..Len(q) : q[i] = m
      BY <3>1
    <3>2. CASE \E u \in Task : \E i \in 1..Len(ss[u]) : ss[u][i] = m
      <4>1. PICK u \in Task : \E i \in 1..Len(ss[u]) : ss[u][i] = m
        BY <3>2
      <4>2. u # t
        BY <1>3, <4>1
      <4>3. QED
        BY <1>2, <4>1, <4>2
    <3>3. QED
      BY <1>6, <2>1, <3>1, <3>2 DEF Once
  <2>2. CASE m \notin 1..n
    <3>1. m - n \in 1..k /\ n + (m - n) = m
      BY <2>2
    <3>2. ss2[t][m - n] = m
      BY <1>1, <1>2, <3>1
    <3>3. QED
      BY <1>1, <1>2, <3>1, <3>2
  <2>3. QED
    BY <2>1, <2>2
<1>7. QED
  BY <1>4, <1>5, <1>6 DEF Once, ss2

\* A task sends the first of its stories to a publisher that listens.
LEMMA OnceForwarding ==
    ASSUME NEW n \in Nat, NEW q \in Seq(Nat),
           NEW ss \in [Task -> Seq(Nat)], Once(n, q, TRUE, ss),
           NEW t \in Task, ss[t] # <<>>
    PROVE  Once(n, Append(q, Head(ss[t])), TRUE, [ss EXCEPT ![t] = Tail(@)])
<1> DEFINE x == Head(ss[t])
           q2 == Append(q, x)
           ss2 == [ss EXCEPT ![t] = Tail(@)]
<1>1. /\ ss[t] \in Seq(Nat) /\ Len(ss[t]) \in Nat /\ Len(ss[t]) >= 1
      /\ x \in Nat /\ x = ss[t][1]
  BY HeadTailProperties, LenProperties, EmptySeq
<1>2. /\ Len(q2) = Len(q) + 1 /\ Len(q) \in Nat
      /\ \A i \in 1..Len(q) : q2[i] = q[i]
      /\ q2[Len(q) + 1] = x
  BY <1>1, AppendProperties, LenProperties
<1>3. /\ Len(Tail(ss[t])) = Len(ss[t]) - 1
      /\ \A i \in 1..Len(Tail(ss[t])) : Tail(ss[t])[i] = ss[t][i + 1]
  BY <1>1, HeadTailProperties
<1>4. ss2[t] = Tail(ss[t]) /\ \A u \in Task \ {t} : ss2[u] = ss[u]
  OBVIOUS
<1> HIDE DEF ss2, q2, x
<1>5. ASSUME NEW u \in Task, NEW i \in 1..Len(ss2[u])
      PROVE  \E j \in 1..Len(ss[u]) :
                /\ ss2[u][i] = ss[u][j]
                /\ IF u = t THEN j = i + 1 ELSE j = i
  <2>1. CASE u = t
    <3>1. i + 1 \in 1..Len(ss[t])
      BY <1>1, <1>3, <1>4, <1>5, <2>1
    <3>2. QED
      BY <1>3, <1>4, <1>5, <2>1, <3>1
  <2>2. CASE u # t
    BY <1>4, <1>5, <2>2
  <2>3. QED
    BY <2>1, <2>2
<1>6. /\ x \in 1..n
      /\ \A i \in 1..Len(q) : q[i] # x
      /\ \A j \in 2..Len(ss[t]) : ss[t][j] # x
      /\ \A u \in Task \ {t} : \A j \in 1..Len(ss[u]) : ss[u][j] # x
  <2>1. 1 \in 1..Len(ss[t])
    BY <1>1
  <2>2. QED
    BY <1>1, <2>1 DEF Once
<1>7. ASSUME NEW i \in 1..Len(q2)
      PROVE  /\ q2[i] \in 1..n
             /\ \A j \in 1..Len(q2) : q2[i] = q2[j] => i = j
  <2>1. \A j \in 1..Len(q2) : j \in 1..Len(q) \/ j = Len(q) + 1
    BY <1>2
  <2>2. /\ \A j \in 1..Len(q) : q[j] \in 1..n
        /\ \A j, k \in 1..Len(q) : q[j] = q[k] => j = k
    BY DEF Once
  <2>3. QED
    BY <1>2, <1>6, <1>7, <2>1, <2>2
<1>8. ASSUME NEW u \in Task, NEW i \in 1..Len(ss2[u])
      PROVE  /\ ss2[u][i] \in 1..n
             /\ \A j \in 1..Len(ss2[u]) : ss2[u][i] = ss2[u][j] => i = j
             /\ \A j \in 1..Len(q2) : ss2[u][i] # q2[j]
             /\ \A v \in Task \ {u} :
                   \A j \in 1..Len(ss2[v]) : ss2[u][i] # ss2[v][j]
  <2>1. PICK k \in 1..Len(ss[u]) : /\ ss2[u][i] = ss[u][k]
                                   /\ IF u = t THEN k = i + 1 ELSE k = i
    BY <1>5
  <2>2. /\ ss[u][k] \in 1..n
        /\ \A j \in 1..Len(ss[u]) : ss[u][k] = ss[u][j] => k = j
        /\ \A j \in 1..Len(q) : ss[u][k] # q[j]
        /\ \A v \in Task \ {u} : \A j \in 1..Len(ss[v]) : ss[u][k] # ss[v][j]
    BY DEF Once
  <2>3. ASSUME NEW j \in 1..Len(ss2[u]), ss2[u][i] = ss2[u][j]
        PROVE  i = j
    <3>1. PICK l \in 1..Len(ss[u]) : /\ ss2[u][j] = ss[u][l]
                                     /\ IF u = t THEN l = j + 1 ELSE l = j
      BY <1>5
    <3>2. k = l
      BY <2>1, <2>2, <2>3, <3>1
    <3>3. QED
      BY <2>1, <3>1, <3>2
  <2>4. ASSUME NEW j \in 1..Len(q2)
        PROVE  ss2[u][i] # q2[j]
    <3>1. CASE j \in 1..Len(q)
      BY <1>2, <2>1, <2>2, <3>1
    <3>2. CASE j = Len(q) + 1
      <4>1. ss[u][k] # x
        <5>1. CASE u = t
          <6>1. k \in 2..Len(ss[t])
            BY <1>1, <2>1, <5>1
          <6>2. QED
            BY <1>6, <5>1, <6>1
        <5>2. CASE u # t
          BY <1>6, <5>2
        <5>3. QED
          BY <5>1, <5>2
      <4>2. QED
        BY <1>2, <2>1, <3>2, <4>1
    <3>3. QED
      BY <1>2, <2>4, <3>1, <3>2
  <2>5. ASSUME NEW v \in Task \ {u}, NEW j \in 1..Len(ss2[v])
        PROVE  ss2[u][i] # ss2[v][j]
    <3>1. PICK l \in 1..Len(ss[v]) : ss2[v][j] = ss[v][l]
      BY <1>5
    <3>2. QED
      BY <2>1, <2>2, <3>1
  <2>6. QED
    BY <2>1, <2>2, <2>3, <2>4, <2>5
<1>9. ASSUME NEW m \in 1..n
      PROVE  \/ \E i \in 1..Len(q2) : q2[i] = m
             \/ \E u \in Task : \E i \in 1..Len(ss2[u]) : ss2[u][i] = m
  <2>1. CASE \E i \in 1..Len(q) : q[i] = m
    BY <1>2, <2>1
  <2>2. ASSUME NEW u \in Task, NEW i \in 1..Len(ss[u]), ss[u][i] = m
        PROVE  \/ \E j \in 1..Len(q2) : q2[j] = m
               \/ \E j \in 1..Len(ss2[u]) : ss2[u][j] = m
    <3>1. CASE u # t
      BY <1>4, <2>2, <3>1
    <3>2. CASE u = t /\ i = 1
      <4>1. x = m /\ Len(q) + 1 \in 1..Len(q2)
        BY <1>1, <1>2, <2>2, <3>2
      <4>2. QED
        BY <1>2, <4>1
    <3>3. CASE u = t /\ i # 1
      <4>1. i - 1 \in 1..Len(ss2[t]) /\ (i - 1) + 1 = i
        BY <1>1, <1>3, <1>4, <3>3
      <4>2. ss2[t][i - 1] = m
        BY <1>3, <1>4, <2>2, <3>3, <4>1
      <4>3. QED
        BY <3>3, <4>1, <4>2
    <3>4. QED
      BY <3>1, <3>2, <3>3
  <2>3. QED
    BY <2>1, <2>2 DEF Once
<1>10. QED
  BY <1>7, <1>8, <1>9 DEF Once, q2, ss2, x

\* A task drops its stories when the publisher is gone, and the publisher goes.
LEMMA OnceDropping ==
    ASSUME NEW n \in Nat, NEW q \in Seq(Nat), NEW o \in BOOLEAN,
           NEW ss \in [Task -> Seq(Nat)], Once(n, q, o, ss), NEW t \in Task
    PROVE  /\ Once(n, q, FALSE, [ss EXCEPT ![t] = <<>>])
           /\ Once(n, q, FALSE, ss)
<1> DEFINE ss2 == [ss EXCEPT ![t] = <<>>]
<1>1. Once(n, q, FALSE, ss)
  BY DEF Once
<1>2. /\ \A u \in Task \ {t} : ss2[u] = ss[u]
      /\ Len(ss2[t]) = 0
  BY EmptySeq
<1> HIDE DEF ss2
<1>3. \A u \in Task : \A i \in 1..Len(ss2[u]) :
         u # t /\ i \in 1..Len(ss[u]) /\ ss2[u] = ss[u]
  BY <1>2
<1>4. Once(n, q, FALSE, ss2)
  <2>1. ASSUME NEW u \in Task, NEW i \in 1..Len(ss2[u])
        PROVE  /\ ss2[u][i] \in 1..n
               /\ \A j \in 1..Len(ss2[u]) : ss2[u][i] = ss2[u][j] => i = j
               /\ \A j \in 1..Len(q) : ss2[u][i] # q[j]
               /\ \A v \in Task \ {u} :
                     \A j \in 1..Len(ss2[v]) : ss2[u][i] # ss2[v][j]
    <3>1. ss2[u] = ss[u] /\ i \in 1..Len(ss[u])
      BY <1>3
    <3>2. /\ ss[u][i] \in 1..n
          /\ \A j \in 1..Len(ss[u]) : ss[u][i] = ss[u][j] => i = j
          /\ \A j \in 1..Len(q) : ss[u][i] # q[j]
          /\ \A v \in Task \ {u} : \A j \in 1..Len(ss[v]) : ss[u][i] # ss[v][j]
      BY <1>1, <3>1 DEF Once
    <3>3. ASSUME NEW v \in Task \ {u}, NEW j \in 1..Len(ss2[v])
          PROVE  ss2[u][i] # ss2[v][j]
      <4>1. ss2[v] = ss[v] /\ j \in 1..Len(ss[v])
        BY <1>3
      <4>2. QED
        BY <3>1, <3>2, <4>1
    <3>4. QED
      BY <3>1, <3>2, <3>3
  <2>2. QED
    BY <1>1, <2>1 DEF Once
<1>5. QED
  BY <1>1, <1>4 DEF ss2

waits == [t \in Task |-> task[t].stories]

NowOnce == Once(settled, sink, sinkOpen, waits)

\* Seen from the stories on their way to the publisher, a step settles some,
\* forwards one, drops a task's, closes the queue, or does nothing.
LEMMA ForwardSteps ==
    ASSUME TypeOK, [Next]_vars
    PROVE  \/ \E t \in Task, k \in Nat :
                 /\ waits[t] = <<>>
                 /\ settled' = settled + k
                 /\ waits' = [waits EXCEPT ![t] = Names(settled, k)]
                 /\ UNCHANGED <<sink, sinkOpen>>
           \/ \E t \in Task :
                 /\ sinkOpen /\ waits[t] # <<>>
                 /\ sink' = Append(sink, Head(waits[t]))
                 /\ waits' = [waits EXCEPT ![t] = Tail(@)]
                 /\ UNCHANGED <<settled, sinkOpen>>
           \/ \E t \in Task :
                 /\ ~sinkOpen
                 /\ waits' = [waits EXCEPT ![t] = <<>>]
                 /\ UNCHANGED <<settled, sink, sinkOpen>>
           \/ sinkOpen' = FALSE /\ UNCHANGED <<settled, sink, waits>>
           \/ UNCHANGED <<settled, sink, sinkOpen, waits>>
<1>1. \A t \in Task : waits[t] = task[t].stories
  BY DEF waits
<1>2. \A t \in Task : task[t].at # "forward" => waits[t] = <<>>
  BY <1>1 DEF TypeOK, Job
<1>3. ASSUME NEW t \in Task, NEW e, NEW ss, Started(t, e, ss)
      PROVE  waits' = [waits EXCEPT ![t] = ss]
  BY <1>3 DEF Started, waits, TypeOK
<1>4. ASSUME NEW t \in Task, NEW place, GoesTo(t, place)
      PROVE  UNCHANGED waits
  BY <1>4 DEF GoesTo, waits, TypeOK, Job
<1>5. ASSUME NEW t \in Task, waits[t] = <<>>,
             task' = [task EXCEPT ![t] = Idle]
      PROVE  UNCHANGED waits
  BY <1>5 DEF waits, TypeOK, Idle
<1>6. ASSUME NEW r \in Request, NEW s \in Session, NEW ends \in BOOLEAN,
             Ingest(r, s, ends)
      PROVE  \E t \in Task, k \in Nat :
                 /\ waits[t] = <<>>
                 /\ settled' = settled + k
                 /\ waits' = [waits EXCEPT ![t] = Names(settled, k)]
                 /\ UNCHANGED <<sink, sinkOpen>>
  <2> DEFINE k == IF ends THEN 1 ELSE 0
  <2>1. r \in Task /\ waits[r] = <<>>
    BY <1>2, <1>6 DEF Ingest, At, Task
  <2>2. waits' = [waits EXCEPT ![r] = Names(settled, k)]
    BY <1>3, <1>6, <2>1 DEF Ingest
  <2>3. k \in Nat /\ settled' = settled + k
    BY <1>6 DEF Ingest, TypeOK
  <2>4. QED
    BY <1>6, <2>1, <2>2, <2>3 DEF Ingest, outlets
<1>7. ASSUME NEW due \in SUBSET open, Flush(due)
      PROVE  \E t \in Task, k \in Nat :
                 /\ waits[t] = <<>>
                 /\ settled' = settled + k
                 /\ waits' = [waits EXCEPT ![t] = Names(settled, k)]
                 /\ UNCHANGED <<sink, sinkOpen>>
  <2>1. Flusher \in Task /\ waits[Flusher] = <<>>
    BY <1>2, <1>7 DEF Flush, At, Task
  <2>2. Cardinality(due) \in Nat
    BY FS_Subset, FS_CardinalityType DEF TypeOK
  <2>3. waits' = [waits EXCEPT ![Flusher] = Names(settled, Cardinality(due))]
    BY <1>3, <1>7, <2>1 DEF Flush
  <2>4. QED
    BY <1>7, <2>1, <2>2, <2>3 DEF Flush, outlets
<1>8. ASSUME NEW t \in Task, ForwardStory(t)
      PROVE  \/ /\ sinkOpen /\ waits[t] # <<>>
                /\ sink' = Append(sink, Head(waits[t]))
                /\ waits' = [waits EXCEPT ![t] = Tail(@)]
                /\ UNCHANGED <<settled, sinkOpen>>
             \/ /\ ~sinkOpen
                /\ waits' = [waits EXCEPT ![t] = <<>>]
                /\ UNCHANGED <<settled, sink, sinkOpen>>
  <2>1. ASSUME NEW rest, task' = [task EXCEPT ![t].stories = rest]
        PROVE  waits' = [waits EXCEPT ![t] = rest]
    BY <2>1 DEF waits, TypeOK, Job
  <2>2. CASE sinkOpen
    <3>1. waits' = [waits EXCEPT ![t] = Tail(task[t].stories)]
      BY <1>8, <2>1, <2>2 DEF ForwardStory
    <3>2. QED
      BY <1>1, <1>8, <2>2, <3>1 DEF ForwardStory, shared
  <2>3. CASE ~sinkOpen
    <3>1. waits' = [waits EXCEPT ![t] = <<>>]
      BY <1>8, <2>1, <2>3 DEF ForwardStory
    <3>2. QED
      BY <1>8, <2>3, <3>1 DEF ForwardStory, shared
  <2>4. QED
    BY <2>2, <2>3
<1>9. ASSUME NEW r \in Request,
             StoreEvent(r) \/ CountEvent(r) \/ Answer(r)
      PROVE  UNCHANGED <<settled, sink, sinkOpen, waits>>
  <2>1. r \in Task
    BY DEF Task
  <2>2. UNCHANGED <<settled, sink, sinkOpen>>
    BY <1>9 DEF StoreEvent, CountEvent, Answer, shared, outlets
  <2>3. QED
    BY <1>2, <1>4, <1>5, <1>9, <2>1, <2>2 DEF StoreEvent, CountEvent, Answer, At
<1>10. ASSUME NEW t \in Task,
              PushBulletin(t) \/ CountBulletin(t) \/ SendBulletin(t)
       PROVE  UNCHANGED <<settled, sink, sinkOpen, waits>>
  <2>1. UNCHANGED <<settled, sink, sinkOpen>>
    BY <1>10 DEF PushBulletin, CountBulletin, SendBulletin, shared, outlets
  <2>2. ASSUME SendBulletin(t)
        PROVE  UNCHANGED waits
    BY <2>2 DEF SendBulletin, waits, TypeOK, Job
  <2>3. QED
    BY <1>4, <1>10, <2>1, <2>2 DEF PushBulletin, CountBulletin
<1>11. CASE FlushEnds
  <2>1. Flusher \in Task /\ waits[Flusher] = <<>>
    BY <1>1, <1>2, <1>11 DEF FlushEnds, Emitting, Forwarded, At, Task
  <2>2. QED
    BY <1>5, <1>11, <2>1 DEF FlushEnds, shared, outlets
<1>12. CASE SinkCloses
  BY <1>12 DEF SinkCloses, shared, waits
<1>13. CASE ReadCounters \/ ReadEvents \/ ReadReel \/ UNCHANGED vars
  BY <1>13 DEF ReadCounters, ReadEvents, ReadReel, vars, shared, outlets, waits
<1>14. QED
  BY <1>6, <1>7, <1>8, <1>9, <1>10, <1>11, <1>12, <1>13 DEF Next

LEMMA OnceStep == TypeOK /\ NowOnce /\ [Next]_vars => NowOnce'
<1> SUFFICES ASSUME TypeOK, NowOnce, [Next]_vars
             PROVE  Once(settled', sink', sinkOpen', waits')
  BY DEF NowOnce, Once
<1>1. /\ settled \in Nat /\ sink \in Seq(Nat) /\ sinkOpen \in BOOLEAN
      /\ waits \in [Task -> Seq(Nat)]
  BY DEF TypeOK, Job, waits
<1>2. Once(settled, sink, sinkOpen, waits)
  BY DEF NowOnce
<1>3. ASSUME NEW t \in Task, NEW k \in Nat,
             waits[t] = <<>>, settled' = settled + k,
             waits' = [waits EXCEPT ![t] = Names(settled, k)],
             UNCHANGED <<sink, sinkOpen>>
      PROVE  Once(settled', sink', sinkOpen', waits')
  BY <1>1, <1>2, <1>3, OnceSettling
<1>4. ASSUME NEW t \in Task, sinkOpen, waits[t] # <<>>,
             sink' = Append(sink, Head(waits[t])),
             waits' = [waits EXCEPT ![t] = Tail(@)],
             UNCHANGED <<settled, sinkOpen>>
      PROVE  Once(settled', sink', sinkOpen', waits')
  <2>1. sinkOpen = TRUE /\ Once(settled, sink, TRUE, waits)
    BY <1>1, <1>2, <1>4
  <2>2. QED
    BY <1>1, <1>4, <2>1, OnceForwarding
<1>5. ASSUME NEW t \in Task, ~sinkOpen,
             waits' = [waits EXCEPT ![t] = <<>>],
             UNCHANGED <<settled, sink, sinkOpen>>
      PROVE  Once(settled', sink', sinkOpen', waits')
  <2>1. sinkOpen' = FALSE
    BY <1>1, <1>5
  <2>2. QED
    BY <1>1, <1>2, <1>5, <2>1, OnceDropping
<1>6. CASE sinkOpen' = FALSE /\ UNCHANGED <<settled, sink, waits>>
  BY <1>2, <1>6 DEF Once
<1>7. CASE UNCHANGED <<settled, sink, sinkOpen, waits>>
  BY <1>2, <1>7
<1>8. QED
  BY <1>3, <1>4, <1>5, <1>6, <1>7, ForwardSteps

LEMMA OnceImplies == TypeOK /\ NowOnce => ForwardedOnce
<1> SUFFICES ASSUME TypeOK, NowOnce
             PROVE  ForwardedOnce
  OBVIOUS
<1>1. sink \in Seq(Nat) /\ DOMAIN sink = 1..Len(sink)
  BY LenProperties DEF TypeOK
<1>2. \A t \in Task : /\ waits[t] = task[t].stories
                      /\ task[t].stories \in Seq(Nat)
                      /\ DOMAIN task[t].stories = 1..Len(task[t].stories)
  BY LenProperties DEF TypeOK, Job, waits
<1>3. \A i, j \in DOMAIN sink : sink[i] = sink[j] => i = j
  BY <1>1 DEF NowOnce, Once
<1>4. ASSUME NEW n \in Story
      PROVE  LET holders == {t \in Task : n \in StillToForward(t)}
             IN  IF n \in ToSet(sink) THEN holders = {}
                 ELSE Cardinality(holders) = 1 \/ (holders = {} /\ ~sinkOpen)
  <2> DEFINE holders == {t \in Task : n \in StillToForward(t)}
  <2>1. \A t \in Task : t \in holders
           <=> \E i \in 1..Len(waits[t]) : waits[t][i] = n
    BY <1>2 DEF StillToForward, ToSet
  <2>2. n \in ToSet(sink) <=> \E i \in 1..Len(sink) : sink[i] = n
    BY <1>1 DEF ToSet
  <2>3. holders \subseteq Task
    OBVIOUS
  <2> HIDE DEF holders
  <2>4. ASSUME n \in ToSet(sink)
        PROVE  holders = {}
    BY <2>1, <2>2, <2>3, <2>4 DEF NowOnce, Once
  <2>5. ASSUME n \notin ToSet(sink), holders # {}
        PROVE  Cardinality(holders) = 1
    <3>1. PICK t \in Task : t \in holders
      BY <2>3, <2>5
    <3>2. \A u \in holders : u = t
      BY <2>1, <2>3, <3>1 DEF NowOnce, Once
    <3>3. holders = {t}
      BY <3>1, <3>2
    <3>4. QED
      BY <3>3, FS_Singleton
  <2>6. ASSUME n \notin ToSet(sink), sinkOpen
        PROVE  holders # {}
    BY <2>1, <2>2, <2>6 DEF NowOnce, Once, Story
  <2>7. QED
    BY <2>4, <2>5, <2>6 DEF holders
<1>5. QED
  BY <1>3, <1>4 DEF ForwardedOnce

\* For any number of requests and flushes that interleave at every lock, a
\* settled story is in the publisher's queue once, or waits in one task, or
\* the publisher is gone.
THEOREM ForwardedExactlyOnce == Spec => []ForwardedOnce
<1>1. Init => NowOnce
  <2> SUFFICES ASSUME Init
               PROVE  NowOnce
    OBVIOUS
  <2>1. settled = 0 /\ sink = <<>> /\ \A t \in Task : waits[t] = <<>>
    BY DEF Init, waits, Idle
  <2>2. QED
    BY <2>1 DEF NowOnce, Once
<1>2. QED
  BY <1>1, OnceStep, OnceImplies, TypeCorrect, PTL DEF Spec

---------------------------------------------------------------------------
(* The page open on the server.  What LocalFeed says of a page is proved   *)
(* with the variables of the server in the place of those of ReelFeed.     *)

CONSTANT ChannelCapacity

VARIABLE stream

Page == INSTANCE LocalFeed WITH MaxStories <- MaxEvents,
                                pushed <- PushedStories

---------------------------------------------------------------------------
(* Lists in which nothing is twice.                                        *)

OneEach(s) ==
    /\ s \in Seq(Nat)
    /\ \A i, j \in 1..Len(s) : s[i] = s[j] => i = j

LEMMA ToSetIs ==
    ASSUME NEW s \in Seq(Nat)
    PROVE  /\ ToSet(s) = {s[i] : i \in 1..Len(s)} /\ ToSet(s) \subseteq Nat
           /\ DOMAIN s = 1..Len(s)
           /\ Page!ToSet(s) = ToSet(s)
BY DEF ToSet, Page!ToSet

LEMMA PageSublist ==
    ASSUME NEW s, NEW I
    PROVE  Page!Sublist(s, I) = Sublist(s, I)
<1>0. \A S : Page!Cardinality(S) = Cardinality(S)
  BY DEF Page!Cardinality, Cardinality, Page!IsFiniteSet, IsFiniteSet
<1>1. \A i : Page!Nth(I, i) = Nth(I, i)
  BY <1>0 DEF Page!Nth, Nth
<1>2. \A k : Page!Place(I, k) = Place(I, k)
  BY <1>1 DEF Page!Place, Place
<1>3. QED  BY <1>0, <1>2 DEF Page!Sublist, Sublist

LEMMA SublistOnce ==
    ASSUME NEW s, OneEach(s), NEW I \in SUBSET DOMAIN s
    PROVE  /\ OneEach(Sublist(s, I))
           /\ ToSet(Sublist(s, I)) = {s[i] : i \in I}
<1>. DEFINE t == Sublist(s, I)
<1>1. s \in Seq(Nat) /\ DOMAIN s = 1..Len(s)
  BY ToSetIs DEF OneEach
<1>2. /\ t \in Seq(Nat) /\ Len(t) = Cardinality(I)
      /\ \A k \in 1..Cardinality(I) : /\ Place(I, k) \in I
                                      /\ t[k] = s[Place(I, k)]
      /\ \A k, l \in 1..Cardinality(I) : k < l => Place(I, k) < Place(I, l)
      /\ \A i \in I : \E k \in 1..Cardinality(I) : Place(I, k) = i
      /\ Cardinality(I) \in Nat
  BY <1>1, SublistType
<1>. HIDE DEF t
<1>3. ASSUME NEW k \in 1..Len(t), NEW l \in 1..Len(t), t[k] = t[l]
      PROVE  k = l
  <2>1. /\ Place(I, k) \in 1..Len(s) /\ Place(I, l) \in 1..Len(s)
        /\ s[Place(I, k)] = s[Place(I, l)]
    BY <1>1, <1>2, <1>3
  <2>2. Place(I, k) = Place(I, l)
    BY <2>1 DEF OneEach
  <2>3. ~(k < l) /\ ~(l < k)
    BY <1>1, <1>2, <2>1, <2>2
  <2>4. QED  BY <1>2, <2>3
<1>4. OneEach(t)
  BY <1>2, <1>3 DEF OneEach
<1>5. ToSet(t) = {s[i] : i \in I}
  <2>1. ToSet(t) = {t[k] : k \in 1..Cardinality(I)}
    BY <1>2, ToSetIs
  <2>2. QED  BY <1>2, <2>1
<1>6. QED  BY <1>4, <1>5 DEF t

LEMMA LastOfOnce ==
    ASSUME NEW s, OneEach(s), NEW n \in Nat
    PROVE  /\ OneEach(Page!LastOf(s, n))
           /\ ToSet(Page!LastOf(s, n)) \subseteq ToSet(s)
<1>1. s \in Seq(Nat) /\ Len(s) \in Nat
  BY DEF OneEach
<1>2. PICK k \in Nat : /\ k <= Len(s)
                       /\ Page!LastOf(s, n) = SubSeq(s, k + 1, Len(s))
  <2>. DEFINE m == IF Len(s) > n THEN Len(s) - n ELSE 0
  <2>1. m \in Nat /\ m <= Len(s)
    BY <1>1
  <2>2. Page!LastOf(s, n) = SubSeq(s, m + 1, Len(s))
    BY DEF Page!LastOf
  <2>. HIDE DEF m
  <2>3. QED  BY <2>1, <2>2
<1>. DEFINE t == SubSeq(s, k + 1, Len(s))
<1>3. /\ t \in Seq(Nat) /\ Len(t) = Len(s) - k
      /\ \A i \in 1..(Len(s) - k) : t[i] = s[k + i]
  <2>1. \A i \in (k + 1)..Len(s) : s[i] \in Nat
    BY <1>1
  <2>2. t \in Seq(Nat) /\ Len(t) = Len(s) - k
    BY <1>1, <1>2, <2>1
  <2>3. \A i \in 1..(Len(s) - k) : t[i] = s[k + i]
    BY <1>1, <1>2
  <2>4. QED  BY <2>2, <2>3
<1>. HIDE DEF t
<1>4. OneEach(t)
  <2>1. ASSUME NEW i \in 1..Len(t), NEW j \in 1..Len(t), t[i] = t[j]
        PROVE  i = j
    <3>1. i \in 1..(Len(s) - k) /\ j \in 1..(Len(s) - k)
      BY <1>3
    <3>2. k + i \in 1..Len(s) /\ k + j \in 1..Len(s)
      BY <1>1, <1>2, <3>1
    <3>3. s[k + i] = s[k + j]
      BY <1>3, <2>1, <3>1
    <3>4. k + i = k + j
      BY <3>2, <3>3 DEF OneEach
    <3>5. QED  BY <3>1, <3>4
  <2>2. QED  BY <1>3, <2>1 DEF OneEach
<1>5. ToSet(t) \subseteq ToSet(s)
  <2>1. ASSUME NEW i \in 1..Len(t) PROVE t[i] \in ToSet(s)
    <3>1. k + i \in 1..Len(s) /\ t[i] = s[k + i]
      BY <1>1, <1>2, <1>3
    <3>2. QED  BY <1>1, <3>1, ToSetIs
  <2>2. QED  BY <1>3, <2>1, ToSetIs
<1>6. QED  BY <1>2, <1>4, <1>5 DEF t

LEMMA ConcatOnce ==
    ASSUME NEW s, OneEach(s), NEW t, OneEach(t), ToSet(s) \cap ToSet(t) = {}
    PROVE  OneEach(s \o t) /\ ToSet(s \o t) = ToSet(s) \cup ToSet(t)
<1>1. PICK m \in Nat, n \in Nat : m = Len(s) /\ n = Len(t)
  BY DEF OneEach
<1>2. /\ \A i \in 1..m : s[i] \in ToSet(s) /\ s[i] \in Nat
      /\ \A i \in 1..n : t[i] \in ToSet(t) /\ t[i] \in Nat
  BY <1>1, ToSetIs DEF OneEach
<1>. DEFINE u == s \o t
<1>3. /\ u \in Seq(Nat) /\ Len(u) = m + n
      /\ \A i \in 1..m : u[i] = s[i]
      /\ \A i \in 1..n : u[m + i] = t[i]
  BY <1>1, ConcatProperties DEF OneEach
<1>. HIDE DEF u
<1>4. ASSUME NEW i \in 1..(m + n)
      PROVE  \/ i \in 1..m /\ u[i] = s[i]
             \/ i - m \in 1..n /\ u[i] = t[i - m]
  <2>1. CASE i \in 1..m
    BY <2>1, <1>3
  <2>2. CASE i \notin 1..m
    <3>1. i - m \in 1..n /\ m + (i - m) = i
      BY <2>2
    <3>2. u[m + (i - m)] = t[i - m]
      BY <1>3, <3>1
    <3>3. QED  BY <3>1, <3>2
  <2>3. QED  BY <2>1, <2>2
<1>5. ASSUME NEW i \in 1..(m + n), NEW j \in 1..(m + n), u[i] = u[j]
      PROVE  i = j
  <2>1. CASE i \in 1..m /\ u[i] = s[i] /\ j \in 1..m /\ u[j] = s[j]
    BY <1>1, <1>5, <2>1 DEF OneEach
  <2>2. CASE /\ i - m \in 1..n /\ u[i] = t[i - m]
             /\ j - m \in 1..n /\ u[j] = t[j - m]
    <3>1. i - m = j - m
      BY <1>1, <1>5, <2>2 DEF OneEach
    <3>2. QED  BY <3>1
  <2>3. ~ \E k \in 1..m : \E l \in 1..n : s[k] = t[l]
    BY <1>2
  <2>4. QED  BY <1>4, <1>5, <2>1, <2>2, <2>3
<1>6. OneEach(u)
  BY <1>3, <1>5 DEF OneEach
<1>7. ToSet(u) = ToSet(s) \cup ToSet(t)
  <2>1. /\ ToSet(u) = {u[i] : i \in 1..(m + n)}
        /\ ToSet(s) = {s[i] : i \in 1..m} /\ ToSet(t) = {t[i] : i \in 1..n}
    BY <1>1, <1>3, ToSetIs DEF OneEach
  <2>2. ToSet(u) \subseteq ToSet(s) \cup ToSet(t)
    BY <1>4, <2>1
  <2>3. \A i \in 1..m : i \in 1..(m + n)
    OBVIOUS
  <2>4. \A i \in 1..n : m + i \in 1..(m + n)
    OBVIOUS
  <2>5. ToSet(s) \subseteq ToSet(u)
    BY <1>3, <2>1, <2>3
  <2>6. ToSet(t) \subseteq ToSet(u)
    BY <1>3, <2>1, <2>4
  <2>7. QED  BY <2>2, <2>5, <2>6
<1>8. QED  BY <1>6, <1>7 DEF u

LEMMA ReverseOnce ==
    ASSUME NEW s, OneEach(s)
    PROVE  /\ OneEach(Page!Reverse(s)) /\ ToSet(Page!Reverse(s)) = ToSet(s)
<1>1. PICK n \in Nat : n = Len(s)
  BY DEF OneEach
<1>2. s \in Seq(Nat) /\ \A i \in 1..n : s[i] \in Nat
  BY <1>1 DEF OneEach
<1>3. \A i \in 1..n : (n - i) + 1 \in 1..n /\ (n - ((n - i) + 1)) + 1 = i
  OBVIOUS
<1>. DEFINE t == [i \in 1..n |-> s[(n - i) + 1]]
<1>4. Page!Reverse(s) = t
  BY <1>1 DEF Page!Reverse
<1>5. t \in Seq(Nat) /\ Len(t) = n /\ \A i \in 1..n : t[i] = s[(n - i) + 1]
  BY <1>2, <1>3
<1>. HIDE DEF t
<1>6. ASSUME NEW i \in 1..n, NEW j \in 1..n, t[i] = t[j]
      PROVE  i = j
  <2>1. (n - i) + 1 = (n - j) + 1
    BY <1>1, <1>3, <1>5, <1>6 DEF OneEach
  <2>2. QED  BY <2>1
<1>7. OneEach(t)
  BY <1>5, <1>6 DEF OneEach
<1>8. ToSet(t) = ToSet(s)
  <2>1. ToSet(t) = {t[i] : i \in 1..n} /\ ToSet(s) = {s[i] : i \in 1..n}
    BY <1>1, <1>2, <1>5, ToSetIs
  <2>2. \A i \in 1..n : t[i] = s[(n - i) + 1] /\ s[i] = t[(n - i) + 1]
    BY <1>3, <1>5
  <2>3. ToSet(t) \subseteq ToSet(s)
    BY <1>3, <2>1, <2>2
  <2>4. ToSet(s) \subseteq ToSet(t)
    BY <1>3, <2>1, <2>2
  <2>5. QED  BY <2>3, <2>4
<1>9. QED  BY <1>4, <1>7, <1>8

---------------------------------------------------------------------------
(* The queue of the page.                                                  *)

LEMMA AppendAdds ==
    ASSUME NEW s \in Seq(Nat), NEW x \in Nat
    PROVE  ToSet(Append(s, x)) = ToSet(s) \cup {x} /\ Len(Append(s, x)) = Len(s) + 1
<1>1. PICK n \in Nat : n = Len(s)
  BY LenProperties
<1>2. /\ Append(s, x) \in Seq(Nat) /\ Len(Append(s, x)) = n + 1
      /\ \A i \in 1..n : Append(s, x)[i] = s[i]
      /\ Append(s, x)[n + 1] = x
  BY <1>1, AppendProperties
<1>3. /\ ToSet(s) = {s[i] : i \in 1..n}
      /\ ToSet(Append(s, x)) = {Append(s, x)[i] : i \in 1..(n + 1)}
  BY <1>1, <1>2, ToSetIs
<1>4. 1..(n + 1) = (1..n) \cup {n + 1}
  OBVIOUS
<1>5. ToSet(Append(s, x)) = ToSet(s) \cup {x}
  BY <1>2, <1>3, <1>4
<1>6. QED  BY <1>1, <1>2, <1>5

LEMMA HeadOrTail ==
    ASSUME NEW s \in Seq(Nat), s # <<>>
    PROVE  \A x \in ToSet(s) : x = Head(s) \/ x \in ToSet(Tail(s))
<1>1. PICK n \in Nat : n = Len(s) /\ n > 0
  BY EmptySeq, LenProperties
<1>2. /\ Tail(s) \in Seq(Nat) /\ Len(Tail(s)) = n - 1 /\ Head(s) = s[1]
      /\ \A i \in 1..(n - 1) : Tail(s)[i] = s[i + 1]
  BY <1>1, HeadTailProperties
<1>3. /\ ToSet(s) = {s[i] : i \in 1..n}
      /\ ToSet(Tail(s)) = {Tail(s)[i] : i \in 1..(n - 1)}
  BY <1>1, <1>2, ToSetIs
<1>4. ASSUME NEW i \in 1..n
      PROVE  s[i] = Head(s) \/ s[i] \in ToSet(Tail(s))
  <2>1. CASE i = 1
    BY <1>2, <2>1
  <2>2. CASE i # 1
    <3>1. i - 1 \in 1..(n - 1) /\ (i - 1) + 1 = i
      BY <2>2
    <3>2. QED  BY <1>2, <1>3, <3>1
  <2>3. QED  BY <2>1, <2>2
<1>5. QED  BY <1>3, <1>4

LEMMA WithoutOnce ==
    ASSUME NEW q, OneEach(q), NEW b
    PROVE  /\ OneEach(Page!Without(q, b))
           /\ ToSet(Page!Without(q, b)) = ToSet(q) \ {b}
<1>. DEFINE I == {i \in DOMAIN q : q[i] # b}
<1>1. Page!Without(q, b) = Sublist(q, I)
  BY PageSublist DEF Page!Without
<1>2. /\ OneEach(Sublist(q, I)) /\ ToSet(Sublist(q, I)) = {q[i] : i \in I}
  BY SublistOnce
<1>3. {q[i] : i \in I} = ToSet(q) \ {b}
  BY ToSetIs DEF OneEach
<1>4. QED  BY <1>1, <1>2, <1>3

LEMMA SingleOnce ==
    ASSUME NEW b \in Nat
    PROVE  OneEach(<<b>>) /\ ToSet(<<b>>) = {b}
BY ToSetIs DEF OneEach, ToSet

LEMMA TailOnce ==
    ASSUME NEW s, OneEach(s)
    PROVE  s # <<>> => OneEach(Tail(s)) /\ ToSet(Tail(s)) \subseteq ToSet(s)
<1>. SUFFICES ASSUME s # <<>>
              PROVE  OneEach(Tail(s)) /\ ToSet(Tail(s)) \subseteq ToSet(s)
  OBVIOUS
<1>1. PICK n \in Nat : n = Len(s) /\ n > 0
  BY DEF OneEach
<1>2. /\ Tail(s) \in Seq(Nat) /\ Len(Tail(s)) = n - 1
      /\ \A i \in 1..(n - 1) : Tail(s)[i] = s[i + 1] /\ i + 1 \in 1..n
  BY <1>1 DEF OneEach
<1>3. \A i, j \in 1..(n - 1) : Tail(s)[i] = Tail(s)[j] => i = j
  BY <1>1, <1>2 DEF OneEach
<1>4. OneEach(Tail(s))
  BY <1>2, <1>3 DEF OneEach
<1>5. ToSet(Tail(s)) = {Tail(s)[i] : i \in 1..(n - 1)} /\ ToSet(s) = {s[i] : i \in 1..n}
  BY <1>1, <1>2, ToSetIs DEF OneEach
<1>6. ToSet(Tail(s)) \subseteq ToSet(s)
  BY <1>2, <1>5
<1>7. QED  BY <1>4, <1>6

LEMMA TrimmedOnce ==
    ASSUME NEW q, OneEach(q), NEW keep
    PROVE  /\ OneEach(Page!Trimmed(q, keep))
           /\ ToSet(Page!Trimmed(q, keep)) \subseteq ToSet(q)
<1>1. OneEach(Page!LastOf(q, MaxStage)) /\ ToSet(Page!LastOf(q, MaxStage)) \subseteq ToSet(q)
  BY LastOfOnce, StageAssumption
<1>2. Page!ToSet(q) = ToSet(q) /\ ToSet(q) \subseteq Nat
  BY ToSetIs DEF OneEach
<1>3. CASE Page!Trimmed(q, keep) = Page!LastOf(q, MaxStage)
  BY <1>1, <1>3
<1>. DEFINE rest == Page!LastOf(Page!Without(q, keep), MaxStage - 1)
<1>4. CASE keep \in ToSet(q) /\ Page!Trimmed(q, keep) = <<keep>> \o rest
  <2>0. MaxStage - 1 \in Nat
    BY StageAssumption
  <2>1. OneEach(rest) /\ ToSet(rest) \subseteq ToSet(q) \ {keep}
    BY <2>0, WithoutOnce, LastOfOnce
  <2>2. OneEach(<<keep>>) /\ ToSet(<<keep>>) = {keep}
    BY <1>2, <1>4, SingleOnce
  <2>. HIDE DEF rest
  <2>3. ToSet(<<keep>>) \cap ToSet(rest) = {}
    BY <2>1, <2>2
  <2>4. /\ OneEach(<<keep>> \o rest)
        /\ ToSet(<<keep>> \o rest) = {keep} \cup ToSet(rest)
    BY <2>1, <2>2, <2>3, ConcatOnce
  <2>5. QED  BY <1>4, <2>1, <2>4
<1>5. QED  BY <1>2, <1>3, <1>4 DEF Page!Trimmed

LEMMA AppendOnce ==
    ASSUME NEW q, OneEach(q), NEW b \in Nat, b \notin ToSet(q)
    PROVE  OneEach(Append(q, b)) /\ ToSet(Append(q, b)) = ToSet(q) \cup {b}
<1>1. OneEach(<<b>>) /\ ToSet(<<b>>) = {b}
  BY SingleOnce
<1>2. Append(q, b) = q \o <<b>>
  BY DEF OneEach
<1>3. OneEach(q \o <<b>>) /\ ToSet(q \o <<b>>) = ToSet(q) \cup {b}
  BY <1>1, ConcatOnce
<1>4. QED  BY <1>2, <1>3

\* What the queue is when its step is over: nothing on it twice, and nothing
\* that was seen.
Unseen(q, s) == OneEach(q) /\ ToSet(q) \cap s = {}

\* A bulletin of the stream, into the queue.
LEMMA IncomingOnce ==
    ASSUME Unseen(queue, seen), NEW b \in Nat, Page!Incoming(b)
    PROVE  Unseen(queue, seen)'
<1>1. Page!Queued = ToSet(queue)
  BY ToSetIs DEF Page!Queued, Unseen, OneEach
<1>2. CASE queue' = queue /\ seen' = seen
  BY <1>2 DEF Unseen
<1>. DEFINE q == IF b \in Page!Queued THEN queue ELSE Append(queue, b)
<1>3. CASE /\ b \notin seen
           /\ queue' = Page!Trimmed(q, Page!Active) /\ seen' = seen
  <2>1. OneEach(q) /\ ToSet(q) \subseteq ToSet(queue) \cup {b}
    BY <1>1, AppendOnce DEF Unseen
  <2>. HIDE DEF q
  <2>2. /\ OneEach(Page!Trimmed(q, Page!Active))
        /\ ToSet(Page!Trimmed(q, Page!Active)) \subseteq ToSet(q)
    BY <2>1, TrimmedOnce
  <2>3. QED  BY <1>3, <2>1, <2>2 DEF Unseen
<1>4. QED
  BY <1>2, <1>3 DEF Page!Incoming, Page!stage

\* What a snapshot adds: each once, and neither queued nor seen.
LEMMA AdditionsOnce ==
    ASSUME NEW snapshot, OneEach(snapshot), OneEach(queue)
    PROVE  /\ OneEach(Page!Additions(snapshot))
           /\ ToSet(Page!Additions(snapshot)) \cap (ToSet(queue) \cup seen) = {}
<1>. DEFINE I == {i \in DOMAIN snapshot : /\ snapshot[i] \notin Page!Queued \cup seen
                                         /\ Page!Fresh(snapshot[i])}
<1>1. Page!Additions(snapshot) = Page!Reverse(Sublist(snapshot, I))
  BY PageSublist DEF Page!Additions
<1>2. /\ OneEach(Sublist(snapshot, I))
      /\ ToSet(Sublist(snapshot, I)) = {snapshot[i] : i \in I}
  BY SublistOnce
<1>3. Page!Queued = ToSet(queue)
  BY ToSetIs DEF Page!Queued, OneEach
<1>4. {snapshot[i] : i \in I} \cap (ToSet(queue) \cup seen) = {}
  BY <1>3
<1>5. QED  BY <1>1, <1>2, <1>4, ReverseOnce

\* What stays of the queue when a snapshot is applied.
LEMMA ExistingOnce ==
    ASSUME OneEach(queue)
    PROVE  /\ OneEach(Page!Existing)
           /\ ToSet(Page!Existing) \subseteq ToSet(queue) /\ ToSet(Page!Existing) \cap seen = {}
<1>. DEFINE Stays(i) == /\ queue[i] \notin seen
                        /\ queue[i] = Page!Active \/ Page!Fresh(queue[i])
            I == {i \in DOMAIN queue : Stays(i)}
<1>1. Page!Existing = Sublist(queue, I)
  BY PageSublist DEF Page!Existing
<1>2. OneEach(Sublist(queue, I)) /\ ToSet(Sublist(queue, I)) = {queue[i] : i \in I}
  BY SublistOnce
<1>3. \A i \in I : i \in 1..Len(queue) /\ queue[i] \notin seen
  BY ToSetIs DEF OneEach
<1>. HIDE DEF I
<1>4. {queue[i] : i \in I} \subseteq ToSet(queue) /\ {queue[i] : i \in I} \cap seen = {}
  BY <1>3, ToSetIs DEF OneEach
<1>5. QED  BY <1>1, <1>2, <1>4

\* The bulletin that interrupts is one of the additions.
LEMMA InterruptAdded ==
    ASSUME NEW additions, OneEach(additions)
    PROVE  Page!LatestInterrupt(additions) \in {Page!NoBulletin} \cup ToSet(additions)
<1>. DEFINE at == {i \in DOMAIN additions : additions[i] \in Urgent}
<1>1. additions \in Seq(Nat) /\ DOMAIN additions = 1..Len(additions)
  BY ToSetIs DEF OneEach
<1>2. CASE at = {}
  BY <1>2 DEF Page!LatestInterrupt
<1>3. CASE at # {}
  <2>1. at \in SUBSET Nat /\ \A i \in at : i <= Len(additions)
    BY <1>1
  <2>2. PICK n \in Nat : n = Len(additions)
    BY DEF OneEach
  <2>3. \A i \in at : i <= n
    BY <2>1, <2>2
  <2>4. \E i \in at : \A j \in at : j <= i
    <3>. HIDE DEF at
    <3>1. QED  BY <1>3, <2>1, <2>3, HasGreatest
  <2>5. (CHOOSE i \in at : \A j \in at : j <= i) \in at
    BY <2>4
  <2>6. QED
    BY <1>1, <1>3, <2>5, ToSetIs DEF Page!LatestInterrupt
<1>4. QED  BY <1>2, <1>3

\* The queue a snapshot leaves.
LEMMA MergedOnce ==
    ASSUME OneEach(queue), NEW additions, OneEach(additions),
           ToSet(additions) \cap (ToSet(queue) \cup seen) = {},
           NEW urgent \in {Page!NoBulletin} \cup ToSet(additions)
    PROVE  Unseen(Page!Merged(additions, urgent), seen)
<1>. DEFINE all    == Page!Existing \o additions
            merged == Page!Trimmed(all, Page!Active)
<1>1. OneEach(all) /\ ToSet(all) \cap seen = {} /\ ToSet(all) = ToSet(Page!Existing) \cup ToSet(additions)
  BY ExistingOnce, ConcatOnce
<1>. HIDE DEF all
<1>2. OneEach(merged) /\ ToSet(merged) \subseteq ToSet(all)
  BY <1>1, TrimmedOnce
<1>. HIDE DEF merged
<1>3. Page!ToSet(merged) = ToSet(merged)
  BY <1>2, ToSetIs DEF OneEach
<1>4. CASE Page!Merged(additions, urgent) = merged
  BY <1>1, <1>2, <1>4 DEF Unseen
<1>5. CASE /\ urgent \in ToSet(additions) /\ urgent \notin ToSet(merged)
           /\ Page!Merged(additions, urgent) = Page!Trimmed(Append(merged, urgent), Page!Active)
  <2>1. urgent \in Nat /\ urgent \notin seen
    BY <1>5, ToSetIs DEF OneEach
  <2>2. /\ OneEach(Append(merged, urgent))
        /\ ToSet(Append(merged, urgent)) = ToSet(merged) \cup {urgent}
    BY <1>2, <1>5, <2>1, AppendOnce
  <2>3. QED  BY <1>1, <1>2, <1>5, <2>1, <2>2, TrimmedOnce DEF Unseen
<1>6. QED
  BY <1>3, <1>4, <1>5 DEF Page!Merged, merged, all

---------------------------------------------------------------------------
(* The page: what is queued is on the queue once and was not seen, and the *)
(* same holds of what is on its way to it.                                 *)

PageInv ==
    /\ channel \in Seq(Nat) /\ stream \in Nat
    /\ OneEach(reel) /\ ToSet(reel) \subseteq PushedStories
    /\ fetch \in [Fetch -> [at : {"none", "back"}, bulletins : Seq(Nat)]]
    /\ \A f \in Fetch : OneEach(fetch[f].bulletins)
    /\ Unseen(queue, seen)

LEMMA EmptyOnce == OneEach(<<>>) /\ ToSet(<<>>) = {}
BY ToSetIs DEF OneEach, ToSet

LEMMA PageInitially == Page!Init => PageInv
<1>. SUFFICES ASSUME Page!Init PROVE PageInv
  OBVIOUS
<1>1. channel = <<>> /\ reel = <<>> /\ queue = <<>> /\ seen = {} /\ stream = 0
  BY DEF Page!Init, Page!FeedInit, Page!PageInit
<1>2. fetch = [f \in Fetch |-> [at |-> "none", bulletins |-> <<>>]]
  BY DEF Page!Init, Page!PageInit, Page!NoFetch
<1>3. fetch \in [Fetch -> [at : {"none", "back"}, bulletins : Seq(Nat)]]
  BY <1>2
<1>4. QED
  BY <1>1, <1>2, <1>3, EmptyOnce DEF PageInv, Unseen

\* A story that comes into the reel is not there yet.
LEMMA PageFeed ==
    ASSUME PageInv, Page!FeedNext, UNCHANGED <<Page!pageVars, stream>>,
           MaxEvents \in Nat
    PROVE  PageInv'
<1>1. /\ queue' = queue /\ seen' = seen /\ fetch' = fetch /\ stream' = stream
  BY DEF Page!pageVars, Page!stage
<1>2. PICK n \in 1..MaxEvents : Page!Settle(n) \/ Page!Push(n) \/ Page!Send(n)
  BY DEF Page!FeedNext
<1>3. /\ channel' \in Seq(Nat)
      /\ OneEach(reel') /\ ToSet(reel') \subseteq PushedStories'
  <2>1. CASE Page!Settle(n)
    BY <2>1 DEF Page!Settle, PageInv
  <2>2. CASE Page!Send(n)
    BY <1>2, <2>2 DEF Page!Send, PageInv
  <2>3. CASE Page!Push(n)
    <3>1. /\ channel' = channel /\ n \notin PushedStories
          /\ PushedStories' = PushedStories \cup {n}
          /\ reel' = Append(IF Len(reel) >= ReelCapacity THEN Tail(reel) ELSE reel, n)
      BY <2>3 DEF Page!Push, Page!InReel
    <3>. DEFINE kept == IF Len(reel) >= ReelCapacity THEN Tail(reel) ELSE reel
    <3>0. Len(reel) >= ReelCapacity => reel # <<>>
      BY ServerAssumption
    <3>2. OneEach(kept) /\ ToSet(kept) \subseteq ToSet(reel)
      BY <3>0, TailOnce DEF PageInv
    <3>. HIDE DEF kept
    <3>3. OneEach(Append(kept, n)) /\ ToSet(Append(kept, n)) = ToSet(kept) \cup {n}
      BY <1>2, <3>1, <3>2, AppendOnce DEF PageInv
    <3>4. QED  BY <3>1, <3>2, <3>3 DEF PageInv, kept
  <2>4. QED  BY <1>2, <2>1, <2>2, <2>3
<1>4. QED  BY <1>1, <1>3 DEF PageInv, Unseen

LEMMA PageSnapshots ==
    ASSUME PageInv, NEW f \in Fetch,
           UNCHANGED <<Page!feedVars, stream>>,
           \/ Page!SnapshotTaken(f, reel) \/ Page!SnapshotLost(f)
           \/ Page!ApplySnapshot(f)
    PROVE  PageInv'
<1>1. /\ channel' = channel /\ reel' = reel /\ stream' = stream
      /\ PushedStories' = PushedStories
  BY DEF Page!feedVars
<1>2. PICK r : fetch' = [fetch EXCEPT ![f] = r] /\ r \in {Page!NoFetch, [at |-> "back", bulletins |-> reel]}
  BY DEF Page!SnapshotTaken, Page!SnapshotLost, Page!ApplySnapshot
<1>3. r \in [at : {"none", "back"}, bulletins : Seq(Nat)] /\ OneEach(r.bulletins)
  <2>1. CASE r = [at |-> "none", bulletins |-> <<>>]
    BY <2>1, EmptyOnce
  <2>2. CASE r = [at |-> "back", bulletins |-> reel]
    <3>1. reel \in Seq(Nat) /\ OneEach(reel)
      BY DEF PageInv, OneEach
    <3>2. QED  BY <2>2, <3>1
  <2>3. QED  BY <1>2, <2>1, <2>2 DEF Page!NoFetch
<1>4. /\ fetch' \in [Fetch -> [at : {"none", "back"}, bulletins : Seq(Nat)]]
      /\ \A g \in Fetch : OneEach(fetch[g].bulletins)'
  BY <1>2, <1>3 DEF PageInv
<1>5. Unseen(queue, seen)'
  <2>1. CASE queue' = queue /\ seen' = seen
    BY <2>1 DEF PageInv, Unseen
  <2>2. CASE \E additions \in {Page!Additions(fetch[f].bulletins)} :
               Page!Update(additions, Page!LatestInterrupt(additions))
    <3>. DEFINE additions == Page!Additions(fetch[f].bulletins)
                urgent    == Page!LatestInterrupt(additions)
    <3>1. queue' = Page!Merged(additions, urgent) /\ seen' = seen
      BY <2>2 DEF Page!Update
    <3>2. OneEach(queue) /\ OneEach(fetch[f].bulletins)
      BY DEF PageInv, Unseen
    <3>3. OneEach(additions) /\ ToSet(additions) \cap (ToSet(queue) \cup seen) = {}
      BY <3>2, AdditionsOnce
    <3>. HIDE DEF additions
    <3>4. urgent \in {Page!NoBulletin} \cup ToSet(additions)
      BY <3>3, InterruptAdded
    <3>. HIDE DEF urgent
    <3>5. Unseen(Page!Merged(additions, urgent), seen)
      BY <3>2, <3>3, <3>4, MergedOnce
    <3>6. QED  BY <3>1, <3>5 DEF Unseen
  <2>3. QED
    BY <2>1, <2>2 DEF Page!SnapshotTaken, Page!SnapshotLost, Page!ApplySnapshot, Page!stage
<1>6. QED  BY <1>1, <1>4, <1>5 DEF PageInv

\* What is over is taken from the queue in the step that remembers it.
LEMMA PageDwelt ==
    ASSUME PageInv, Page!Dwelt, UNCHANGED <<Page!feedVars, stream>>
    PROVE  PageInv'
<1>1. /\ channel' = channel /\ reel' = reel /\ stream' = stream
      /\ PushedStories' = PushedStories /\ fetch' = fetch
  BY DEF Page!feedVars, Page!Dwelt
<1>2. /\ queue' = Page!Without(queue, Page!Active)
      /\ seen' \subseteq seen \cup {Page!Active}
  BY DEF Page!Dwelt
<1>3. /\ OneEach(Page!Without(queue, Page!Active))
      /\ ToSet(Page!Without(queue, Page!Active)) = ToSet(queue) \ {Page!Active}
  BY WithoutOnce DEF PageInv, Unseen
<1>4. Unseen(queue', seen')
  BY <1>2, <1>3 DEF PageInv, Unseen
<1>5. QED  BY <1>1, <1>4 DEF PageInv, Unseen

LEMMA PageStream ==
    ASSUME PageInv, Page!StreamDelivers, ChannelCapacity \in Nat \ {0}
    PROVE  PageInv'
<1>1. /\ channel' = channel /\ reel' = reel /\ PushedStories' = PushedStories
      /\ fetch' = fetch
  BY DEF Page!StreamDelivers, Page!feedVars
<1>2. PICK at \in 1..Len(channel) : at = Page!NextInStream
  BY DEF Page!StreamDelivers, Page!NextInStream, PageInv
<1>3. channel[at] \in Nat
  BY <1>2 DEF PageInv
<1>4. stream' \in Nat
  BY <1>2 DEF Page!StreamDelivers
<1>5. Page!Incoming(channel[at])
  BY <1>2 DEF Page!StreamDelivers
<1>6. Unseen(queue, seen)'
  BY <1>3, <1>5, IncomingOnce DEF PageInv
<1>7. QED  BY <1>1, <1>4, <1>6 DEF PageInv

LEMMA PageStep ==
    ASSUME PageInv, [Page!Next]_(Page!vars), ChannelCapacity \in Nat \ {0}, MaxEvents \in Nat
    PROVE  PageInv'
<1>1. CASE Page!FeedNext /\ UNCHANGED <<Page!pageVars, stream>>
  BY <1>1, PageFeed
<1>2. CASE Page!PageNext /\ UNCHANGED <<Page!feedVars, stream>>
  <2>1. ASSUME NEW f \in Fetch,
               \/ Page!SnapshotTaken(f, reel) \/ Page!SnapshotLost(f)
               \/ Page!ApplySnapshot(f)
        PROVE  PageInv'
    BY <1>2, <2>1, PageSnapshots
  <2>2. CASE Page!Dwelt
    BY <1>2, <2>2, PageDwelt
  <2>3. CASE Page!Ages(settled)
    <3>1. UNCHANGED <<channel, reel, PushedStories, stream, queue, seen, fetch>>
      BY <1>2, <2>3 DEF Page!Ages, Page!feedVars, Page!stage
    <3>2. QED  BY <3>1 DEF PageInv, Unseen
  <2>4. QED  BY <1>2, <2>1, <2>2, <2>3 DEF Page!PageNext
<1>3. CASE Page!Subscribe
  <2>1. UNCHANGED <<channel, reel, PushedStories, queue, seen, fetch>>
    BY <1>3 DEF Page!Subscribe, Page!feedVars, Page!pageVars, Page!stage
  <2>2. stream' \in Nat
    BY <1>3 DEF Page!Subscribe, PageInv
  <2>3. QED  BY <2>1, <2>2 DEF PageInv, Unseen
<1>4. CASE Page!StreamDelivers
  BY <1>4, PageStream
<1>5. CASE Page!PageReload
  <2>1. UNCHANGED <<channel, reel, PushedStories, seen>>
    BY <1>5 DEF Page!PageReload, Page!Reload, Page!feedVars
  <2>2. /\ stream' = 0 /\ queue' = <<>>
        /\ fetch' = [f \in Fetch |-> [at |-> "none", bulletins |-> <<>>]]
    BY <1>5 DEF Page!PageReload, Page!Reload, Page!NoFetch
  <2>3. fetch' \in [Fetch -> [at : {"none", "back"}, bulletins : Seq(Nat)]]
    BY <2>2
  <2>4. Unseen(queue', seen') /\ \A f \in Fetch : OneEach(fetch'[f].bulletins)
    BY <2>1, <2>2, EmptyOnce DEF Unseen
  <2>5. QED  BY <2>1, <2>2, <2>3, <2>4 DEF PageInv, Unseen
<1>6. CASE UNCHANGED Page!vars
  <2>1. UNCHANGED <<channel, reel, PushedStories, queue, seen, fetch, stream>>
    BY <1>6 DEF Page!vars, Page!feedVars, Page!pageVars, Page!stage
  <2>2. QED  BY <2>1 DEF PageInv, Unseen
<1>7. QED
  BY <1>1, <1>2, <1>3, <1>4, <1>5, <1>6 DEF Page!Next

LEMMA PageImplies == PageInv => ShownOnce
BY ToSetIs DEF PageInv, Unseen, OneEach, ShownOnce

\* What was on stage to its end does not come back, and nothing is queued
\* twice, whatever the stream repeats or loses, however late snapshots come
\* and however often the page is loaded.
THEOREM PageShowsOnce ==
    ASSUME ChannelCapacity \in Nat \ {0}
    PROVE  Page!Spec => []ShownOnce
<1>1. MaxEvents \in Nat
  BY ServerAssumption
<1>2. PageInv /\ [Page!Next]_(Page!vars) => PageInv'
  BY <1>1, PageStep
<1>3. QED
  BY <1>2, PageInitially, PageImplies, PTL DEF Page!Spec

---------------------------------------------------------------------------
(* The server keeps what it promises its pages.  Seen from the reel and    *)
(* the stream, a settled story is in the hands of one task, and then on    *)
(* the stream.                                                             *)

hands == [t \in Task |-> task[t].bulletins]

\* The tasks whose first bulletin is in the reel and not sent yet.
InReelOnly == {u \in Task : task[u].at \in {"counted", "send"}}

HandsOnce == Once(settled, channel, TRUE, hands)

\* A task at rest holds nothing.
Resting == \A t \in Task : task[t].at = "idle" => hands[t] = <<>>

\* Every story that settled, and every session that has one in the making,
\* stands for an event.
Covered == settled + Cardinality(open) <= accepted /\ accepted <= MaxEvents

FeedInv == HandsOnce /\ Resting /\ Covered

LEMMA CoveredStep ==
    ASSUME TypeOK, Covered, [Next]_vars
    PROVE  Covered'
<1>1. /\ accepted \in Nat /\ settled \in Nat /\ IsFiniteSet(open)
      /\ Cardinality(open) \in Nat
  BY FS_CardinalityType DEF TypeOK
<1>2. ASSUME NEW r \in Request, NEW s \in Session, NEW ends \in BOOLEAN,
             Ingest(r, s, ends)
      PROVE  Covered'
  <2>1. /\ accepted < MaxEvents /\ accepted' = accepted + 1
        /\ open' = IF ends THEN open \ {s} ELSE open \cup {s}
        /\ settled' = IF ends THEN settled + 1 ELSE settled
    BY <1>2 DEF Ingest
  <2>2. CASE ends
    <3>1. Cardinality(open \ {s}) <= Cardinality(open) /\ Cardinality(open \ {s}) \in Nat
      BY <1>1, FS_Subset, FS_CardinalityType
    <3>2. QED  BY <1>1, <2>1, <2>2, <3>1, ServerAssumption DEF Covered
  <2>3. CASE ~ends
    <3>1. /\ Cardinality(open \cup {s}) <= Cardinality(open) + 1
          /\ Cardinality(open \cup {s}) \in Nat
      <4>1. Cardinality(open \cup {s}) \in {Cardinality(open), Cardinality(open) + 1}
        BY <1>1, FS_AddElement
      <4>2. QED  BY <1>1, <4>1
    <3>2. QED  BY <1>1, <2>1, <2>3, <3>1, ServerAssumption DEF Covered
  <2>4. QED  BY <2>2, <2>3
<1>3. ASSUME NEW due \in SUBSET open, Flush(due)
      PROVE  Covered'
  <2>1. /\ open' = open \ due /\ settled' = settled + Cardinality(due)
        /\ accepted' = accepted
    BY <1>3 DEF Flush
  <2>2. /\ open \cap due = due
        /\ Cardinality(open \ due) = Cardinality(open) - Cardinality(open \cap due)
        /\ Cardinality(due) \in Nat
    BY <1>1, FS_Difference, FS_Subset, FS_CardinalityType
  <2>3. Cardinality(open') = Cardinality(open) - Cardinality(due)
    BY <2>1, <2>2
  <2>4. PICK c \in Nat, d \in Nat : c = Cardinality(open) /\ d = Cardinality(due)
    BY <1>1, <2>2
  <2>5. settled' + Cardinality(open') = settled + Cardinality(open)
    BY <1>1, <2>1, <2>3, <2>4
  <2>6. QED  BY <1>1, <2>1, <2>5 DEF Covered
<1>4. CASE UNCHANGED shared
  BY <1>4 DEF shared, Covered
<1>5. ASSUME NEW r \in Request, StoreEvent(r) \/ CountEvent(r) \/ Answer(r)
      PROVE  UNCHANGED shared
  BY <1>5 DEF StoreEvent, CountEvent, Answer
<1>6. ASSUME NEW t \in Task,
             \/ ForwardStory(t) \/ PushBulletin(t) \/ CountBulletin(t)
             \/ SendBulletin(t)
      PROVE  UNCHANGED shared
  BY <1>6 DEF ForwardStory, PushBulletin, CountBulletin, SendBulletin
<1>7. ASSUME \/ FlushEnds \/ SinkCloses \/ ReadCounters \/ ReadEvents \/ ReadReel
             \/ UNCHANGED vars
      PROVE  UNCHANGED shared
  BY <1>7 DEF FlushEnds, SinkCloses, ReadCounters, ReadEvents, ReadReel, vars
<1>8. QED  BY <1>2, <1>3, <1>4, <1>5, <1>6, <1>7 DEF Next

LEMMA HandsTypes ==
    ASSUME TypeOK
    PROVE  /\ hands \in [Task -> Seq(Nat)]
           /\ \A t \in Task : hands[t] = task[t].bulletins
           /\ \A t \in InReelOnly : t \in Task /\ hands[t] # <<>>
BY DEF TypeOK, Job, hands, InReelOnly

\* Seen from the reel and the stream, a step settles stories, pushes one,
\* sends one, or does nothing.
LEMMA FeedSteps ==
    ASSUME TypeOK, Resting, [Next]_vars
    PROVE  \/ \E t \in Task, k \in Nat :
                 /\ hands[t] = <<>>
                 /\ settled' = settled + k
                 /\ hands' = [hands EXCEPT ![t] = Names(settled, k)]
                 /\ UNCHANGED <<reel, channel, InReelOnly>>
           \/ \E t \in Task \ InReelOnly :
                 /\ hands[t] # <<>>
                 /\ reel' = Pushed(reel, Head(hands[t]), ReelCapacity)
                 /\ InReelOnly' = InReelOnly \cup {t}
                 /\ UNCHANGED <<settled, channel, hands>>
           \/ \E t \in InReelOnly :
                 /\ channel' = Append(channel, Head(hands[t]))
                 /\ hands' = [hands EXCEPT ![t] = Tail(@)]
                 /\ InReelOnly' = InReelOnly \ {t}
                 /\ UNCHANGED <<settled, reel>>
           \/ UNCHANGED <<settled, reel, channel, hands, InReelOnly>>
<1>1. \A t \in Task : hands[t] = task[t].bulletins
  BY DEF hands
<1>2. ASSUME NEW t \in Task, NEW e, NEW ss, At(t, "idle"), Started(t, e, ss)
      PROVE  /\ hands' = [hands EXCEPT ![t] = ss] /\ hands[t] = <<>>
             /\ UNCHANGED InReelOnly
  <2>1. hands' = [hands EXCEPT ![t] = ss]
    BY <1>2 DEF Started, hands, TypeOK
  <2>2. hands[t] = <<>>
    BY <1>2 DEF At, Resting
  <2>3. InReelOnly' = InReelOnly
    BY <1>2 DEF Started, At, InReelOnly, TypeOK
  <2>4. QED  BY <2>1, <2>2, <2>3
<1>3. ASSUME NEW t \in Task, NEW place, GoesTo(t, place)
      PROVE  /\ UNCHANGED hands
             /\ \A u \in Task \ {t} : task'[u].at = task[u].at
             /\ task'[t].at = place
  BY <1>3 DEF GoesTo, hands, TypeOK, Job
<1>4. ASSUME NEW r \in Request, NEW s \in Session, NEW ends \in BOOLEAN,
             Ingest(r, s, ends)
      PROVE  \E t \in Task, k \in Nat :
                 /\ hands[t] = <<>>
                 /\ settled' = settled + k
                 /\ hands' = [hands EXCEPT ![t] = Names(settled, k)]
                 /\ UNCHANGED <<reel, channel, InReelOnly>>
  <2> DEFINE k == IF ends THEN 1 ELSE 0
  <2>1. r \in Task
    BY DEF Task
  <2>2. /\ hands' = [hands EXCEPT ![r] = Names(settled, k)] /\ hands[r] = <<>>
        /\ UNCHANGED InReelOnly
    BY <1>2, <1>4, <2>1 DEF Ingest
  <2>3. k \in Nat /\ settled' = settled + k
    BY <1>4 DEF Ingest, TypeOK
  <2>4. QED
    BY <1>4, <2>1, <2>2, <2>3 DEF Ingest, stores, outlets
<1>5. ASSUME NEW due \in SUBSET open, Flush(due)
      PROVE  \E t \in Task, k \in Nat :
                 /\ hands[t] = <<>>
                 /\ settled' = settled + k
                 /\ hands' = [hands EXCEPT ![t] = Names(settled, k)]
                 /\ UNCHANGED <<reel, channel, InReelOnly>>
  <2>1. Flusher \in Task
    BY DEF Task
  <2>2. Cardinality(due) \in Nat
    BY FS_Subset, FS_CardinalityType DEF TypeOK
  <2>3. /\ hands' = [hands EXCEPT ![Flusher] = Names(settled, Cardinality(due))]
        /\ hands[Flusher] = <<>> /\ UNCHANGED InReelOnly
    BY <1>2, <1>5, <2>1 DEF Flush
  <2>4. QED
    BY <1>5, <2>1, <2>2, <2>3 DEF Flush, stores, outlets
<1>6. ASSUME NEW t \in Task, PushBulletin(t)
      PROVE  /\ t \notin InReelOnly /\ hands[t] # <<>>
             /\ reel' = Pushed(reel, Head(hands[t]), ReelCapacity)
             /\ InReelOnly' = InReelOnly \cup {t}
             /\ UNCHANGED <<settled, channel, hands>>
  <2>1. task[t].at \in {"emit", "forward"}
    BY <1>6 DEF PushBulletin, Emitting, Forwarded, At
  <2>2. /\ UNCHANGED hands /\ task'[t].at = "counted"
        /\ \A u \in Task \ {t} : task'[u].at = task[u].at
    BY <1>3, <1>6 DEF PushBulletin
  <2>3. t \notin InReelOnly /\ InReelOnly' = InReelOnly \cup {t}
    BY <2>1, <2>2 DEF InReelOnly
  <2>4. QED
    BY <1>1, <1>6, <2>2, <2>3 DEF PushBulletin, shared, outlets
<1>7. ASSUME NEW t \in Task, SendBulletin(t)
      PROVE  /\ t \in InReelOnly
             /\ channel' = Append(channel, Head(hands[t]))
             /\ hands' = [hands EXCEPT ![t] = Tail(@)]
             /\ InReelOnly' = InReelOnly \ {t}
             /\ UNCHANGED <<settled, reel>>
  <2>1. t \in InReelOnly
    BY <1>7 DEF SendBulletin, At, InReelOnly
  <2>2. hands' = [hands EXCEPT ![t] = Tail(@)]
    BY <1>7 DEF SendBulletin, hands, TypeOK, Job
  <2>3. InReelOnly' = InReelOnly \ {t}
    BY <1>7 DEF SendBulletin, InReelOnly, TypeOK, Job
  <2>4. QED
    BY <1>1, <1>7, <2>1, <2>2, <2>3 DEF SendBulletin, shared, stores
<1>8. ASSUME NEW t \in Task, ForwardStory(t)
      PROVE  UNCHANGED <<settled, reel, channel, hands, InReelOnly>>
  <2>1. task' \in [Task -> Job] /\ \A u \in Task : /\ task'[u].bulletins = task[u].bulletins
                                                  /\ task'[u].at = task[u].at
    <3>1. PICK rest : task' = [task EXCEPT ![t].stories = rest]
      BY <1>8 DEF ForwardStory
    <3>2. QED  BY <3>1, <1>8, TypeStep DEF TypeOK, Job, Next
  <2>2. UNCHANGED <<hands, InReelOnly>>
    BY <2>1 DEF hands, InReelOnly
  <2>3. QED
    BY <1>8, <2>2 DEF ForwardStory, shared, stores
<1>9. ASSUME NEW t \in Task, NEW place, NEW from, GoesTo(t, place), At(t, from),
             \/ {place, from} \cap {"counted", "send"} = {}
             \/ {place, from} \subseteq {"counted", "send"}
      PROVE  UNCHANGED <<hands, InReelOnly>>
  BY <1>3, <1>9 DEF At, InReelOnly
<1>10. ASSUME NEW r \in Request, StoreEvent(r) \/ CountEvent(r)
       PROVE  UNCHANGED <<settled, reel, channel, hands, InReelOnly>>
  <2>1. r \in Task
    BY DEF Task
  <2>2. UNCHANGED <<settled, reel, channel>>
    BY <1>10 DEF StoreEvent, CountEvent, shared, outlets
  <2>3. UNCHANGED <<hands, InReelOnly>>
    BY <1>9, <1>10, <2>1 DEF StoreEvent, CountEvent, Forwarded, At
  <2>4. QED  BY <2>2, <2>3
<1>11. ASSUME NEW t \in Task, CountBulletin(t)
       PROVE  UNCHANGED <<settled, reel, channel, hands, InReelOnly>>
  <2>1. UNCHANGED <<hands, InReelOnly>>
    BY <1>9, <1>11 DEF CountBulletin
  <2>2. QED  BY <1>11, <2>1 DEF CountBulletin, shared, outlets
<1>12. ASSUME NEW t \in Task, task[t].bulletins = <<>>,
              task' = [task EXCEPT ![t] = Idle]
       PROVE  UNCHANGED <<hands, InReelOnly>>
  <2>1. UNCHANGED hands
    BY <1>12 DEF hands, TypeOK, Idle
  <2>2. task[t].at \notin {"counted", "send"}
    BY <1>12 DEF TypeOK, Job
  <2>3. UNCHANGED InReelOnly
    BY <1>12, <2>2 DEF InReelOnly, TypeOK, Idle
  <2>4. QED  BY <2>1, <2>3
<1>13. ASSUME NEW r \in Request, Answer(r)
       PROVE  UNCHANGED <<settled, reel, channel, hands, InReelOnly>>
  <2>1. r \in Task
    BY DEF Task
  <2>2. QED
    BY <1>12, <1>13, <2>1 DEF Answer, shared, stores, outlets
<1>14. CASE FlushEnds
  <2>1. Flusher \in Task
    BY DEF Task
  <2>2. QED
    BY <1>12, <1>14, <2>1 DEF FlushEnds, shared, stores, outlets
<1>15. CASE SinkCloses
  BY <1>15 DEF SinkCloses, shared, stores, hands, InReelOnly
<1>16. CASE ReadCounters \/ ReadEvents \/ ReadReel \/ UNCHANGED vars
  BY <1>16 DEF ReadCounters, ReadEvents, ReadReel, vars, shared, stores, outlets,
               hands, InReelOnly
<1>17. QED
  BY <1>4, <1>5, <1>6, <1>7, <1>8, <1>10, <1>11, <1>13, <1>14, <1>15, <1>16 DEF Next

LEMMA RestingStep ==
    ASSUME TypeOK, Resting, [Next]_vars
    PROVE  Resting'
<1>. DEFINE Rests(j) == j.at = "idle" => j.bulletins = <<>>
<1>1. \A t \in Task : Rests(task[t])
  BY DEF Resting, hands
<1>2. Resting' <=> \A t \in Task : Rests(task'[t])
  BY DEF Resting, hands
<1>3. ASSUME NEW t \in Task, NEW j, Rests(j), task' = [task EXCEPT ![t] = j]
      PROVE  Resting'
  BY <1>1, <1>2, <1>3 DEF TypeOK
<1>4. ASSUME NEW t \in Task, NEW e, NEW ss, Started(t, e, ss)
      PROVE  Resting'
  BY <1>1, <1>2, <1>4 DEF Started, TypeOK
<1>5. ASSUME NEW t \in Task, NEW place \in Point \ {"idle"}, GoesTo(t, place)
      PROVE  Resting'
  BY <1>1, <1>2, <1>5 DEF GoesTo, TypeOK, Job
<1>6. ASSUME NEW t \in Task, task' = [task EXCEPT ![t] = Idle]
      PROVE  Resting'
  BY <1>3, <1>6 DEF Idle
<1>7. ASSUME NEW r \in Request, NEW s \in Session, NEW ends \in BOOLEAN,
             Ingest(r, s, ends)
      PROVE  Resting'
  BY <1>4, <1>7 DEF Ingest, Task
<1>8. ASSUME NEW due \in SUBSET open, Flush(due)
      PROVE  Resting'
  BY <1>4, <1>8 DEF Flush, Task
<1>9. ASSUME NEW t \in Task, ForwardStory(t)
      PROVE  Resting'
  <2>1. PICK rest : task' = [task EXCEPT ![t].stories = rest]
    BY <1>9 DEF ForwardStory
  <2>2. QED  BY <1>1, <1>2, <2>1 DEF TypeOK, Job
<1>10. ASSUME NEW t \in Task, SendBulletin(t)
       PROVE  Resting'
  BY <1>1, <1>2, <1>10 DEF SendBulletin, TypeOK, Job
<1>11. ASSUME NEW t \in Task, PushBulletin(t) \/ CountBulletin(t)
       PROVE  Resting'
  BY <1>5, <1>11 DEF PushBulletin, CountBulletin, Point
<1>12. ASSUME NEW r \in Request, StoreEvent(r) \/ CountEvent(r) \/ Answer(r)
       PROVE  Resting'
  BY <1>5, <1>6, <1>12 DEF StoreEvent, CountEvent, Answer, Point, Task
<1>13. CASE FlushEnds
  BY <1>6, <1>13 DEF FlushEnds, Task
<1>14. CASE task' = task
  BY <1>1, <1>2, <1>14
<1>15. SinkCloses \/ ReadCounters \/ ReadEvents \/ ReadReel \/ UNCHANGED vars => task' = task
  BY DEF SinkCloses, ReadCounters, ReadEvents, ReadReel, vars
<1>16. QED
  BY <1>7, <1>8, <1>9, <1>10, <1>11, <1>12, <1>13, <1>14, <1>15 DEF Next

\* The stories that came into the reel.
LEMMA PushedStoriesAre ==
    /\ PushedStories = ToSet(channel) \cup {Head(hands[t]) : t \in InReelOnly}
    /\ PushedStories' = ToSet(channel') \cup {Head(hands'[t]) : t \in InReelOnly'}
BY DEF PushedStories, hands, InReelOnly

\* A step of the server is a step of what it promises, or changes nothing of it.
LEMMA FeedStep ==
    ASSUME TypeOK, FeedInv, [Next]_vars
    PROVE  FeedInv' /\ [Feed!FeedNext]_(Feed!feedVars)
<1>1. /\ settled \in Nat /\ channel \in Seq(Nat) /\ hands \in [Task -> Seq(Nat)]
      /\ reel \in Seq(Nat) /\ accepted \in Nat
  BY HandsTypes DEF TypeOK
<1>2. Once(settled, channel, TRUE, hands) /\ Resting /\ Covered
  BY DEF FeedInv, HandsOnce
<1>3. Resting' /\ Covered'
  BY <1>2, RestingStep, CoveredStep
<1>4. settled' \in Nat /\ settled' <= MaxEvents /\ settled <= MaxEvents
  <2>1. \A x, y : x \in Nat /\ y \in Nat /\ x + y <= accepted /\ accepted <= MaxEvents => x <= MaxEvents
    BY <1>1, ServerAssumption
  <2>2. TypeOK'
    BY TypeStep
  <2>3. settled' \in Nat /\ accepted' \in Nat /\ Cardinality(open') \in Nat
    BY <2>2, FS_CardinalityType DEF TypeOK
  <2>4. Cardinality(open) \in Nat
    BY FS_CardinalityType DEF TypeOK
  <2>5. settled' <= MaxEvents
    BY <1>3, <2>3, ServerAssumption DEF Covered
  <2>6. settled <= MaxEvents
    BY <1>1, <1>2, <2>4, ServerAssumption DEF Covered
  <2>7. QED  BY <2>3, <2>5, <2>6
<1>. DEFINE Goal == Once(settled', channel', TRUE, hands') /\ [Feed!FeedNext]_(Feed!feedVars)
<1>5. ASSUME NEW t \in Task, NEW k \in Nat, hands[t] = <<>>,
             settled' = settled + k,
             hands' = [hands EXCEPT ![t] = Names(settled, k)],
             UNCHANGED <<reel, channel, InReelOnly>>
      PROVE  Goal
  <2>1. Once(settled', channel', TRUE, hands')
    BY <1>1, <1>2, <1>5, OnceSettling
  <2>2. t \notin InReelOnly /\ InReelOnly \subseteq Task
    BY <1>5, HandsTypes DEF InReelOnly
  <2>3. \A u \in InReelOnly : hands'[u] = hands[u]
    BY <1>1, <1>5, <2>2
  <2>4. PushedStories' = PushedStories
    BY <1>5, <2>3, PushedStoriesAre
  <2>5. CASE k = 0
    <3>1. settled' = settled
      BY <1>1, <1>5, <2>5
    <3>2. QED  BY <1>5, <2>1, <2>4, <3>1 DEF Feed!feedVars
  <2>6. CASE k # 0
    <3>1. settled' \in 1..MaxEvents /\ settled < settled'
      BY <1>1, <1>4, <1>5, <2>6
    <3>2. Feed!Settle(settled')
      BY <1>5, <2>4, <3>1 DEF Feed!Settle
    <3>3. QED  BY <2>1, <3>1, <3>2 DEF Feed!FeedNext
  <2>7. QED  BY <2>5, <2>6
<1>6. ASSUME NEW t \in Task, hands[t] # <<>>
      PROVE  /\ Head(hands[t]) \in 1..settled /\ Head(hands[t]) \in 1..MaxEvents
             /\ Head(hands[t]) \notin ToSet(channel)
             /\ \A u \in Task \ {t} : hands[u] # <<>> => Head(hands[u]) # Head(hands[t])
  <2>1. \A u \in Task : hands[u] # <<>> => Head(hands[u]) = hands[u][1] /\ 1 \in 1..Len(hands[u])
    BY <1>1, EmptySeq, HeadTailProperties, LenProperties
  <2>2. /\ hands[t][1] \in 1..settled
        /\ \A j \in 1..Len(channel) : hands[t][1] # channel[j]
        /\ \A u \in Task \ {t} : \A j \in 1..Len(hands[u]) : hands[t][1] # hands[u][j]
    BY <1>2, <1>6, <2>1 DEF Once
  <2>3. hands[t][1] \notin ToSet(channel)
    <3>1. ToSet(channel) = {channel[j] : j \in 1..Len(channel)}
      BY <1>1, ToSetIs
    <3>2. QED  BY <2>2, <3>1
  <2>4. hands[t][1] \in 1..MaxEvents
    BY <1>1, <1>4, <2>2, ServerAssumption
  <2>5. QED  BY <1>6, <2>1, <2>2, <2>3, <2>4
<1>7. ASSUME NEW t \in Task \ InReelOnly, hands[t] # <<>>,
             reel' = Pushed(reel, Head(hands[t]), ReelCapacity),
             InReelOnly' = InReelOnly \cup {t},
             UNCHANGED <<settled, channel, hands>>
      PROVE  Goal
  <2>. DEFINE n == Head(hands[t])
  <2>1. n \in 1..MaxEvents /\ n <= settled
    BY <1>1, <1>6, <1>7
  <2>2. n \notin PushedStories
    BY <1>6, <1>7, HandsTypes, PushedStoriesAre
  <2>3. PushedStories' = PushedStories \cup {n}
    BY <1>7, PushedStoriesAre
  <2>4. reel' = Feed!InReel(reel, n)
    BY <1>7 DEF Pushed, Feed!InReel
  <2>5. Feed!Push(n)
    BY <1>7, <2>1, <2>2, <2>3, <2>4 DEF Feed!Push
  <2>6. Feed!FeedNext
    BY <2>1, <2>5 DEF Feed!FeedNext
  <2>7. QED  BY <1>2, <1>7, <2>6
<1>8. ASSUME NEW t \in InReelOnly,
             channel' = Append(channel, Head(hands[t])),
             hands' = [hands EXCEPT ![t] = Tail(@)],
             InReelOnly' = InReelOnly \ {t},
             UNCHANGED <<settled, reel>>
      PROVE  Goal
  <2>. DEFINE n == Head(hands[t])
  <2>1. t \in Task /\ hands[t] # <<>> /\ InReelOnly \subseteq Task
    BY HandsTypes
  <2>2. /\ n \in 1..MaxEvents /\ n \in Nat /\ n \notin ToSet(channel)
    BY <1>1, <1>6, <2>1
  <2>3. n \in PushedStories
    BY PushedStoriesAre
  <2>4. Once(settled', channel', TRUE, hands')
    BY <1>1, <1>2, <1>8, <2>1, OnceForwarding
  <2>5. ToSet(channel') = ToSet(channel) \cup {n}
    <3>1. OneEach(channel)
      BY <1>1, <1>2 DEF Once, OneEach
    <3>2. QED  BY <1>8, <2>2, <3>1, AppendOnce
  <2>6. \A u \in InReelOnly \ {t} : hands'[u] = hands[u]
    BY <1>1, <1>8, <2>1
  <2>7. PushedStories' = PushedStories
    BY <1>8, <2>5, <2>6, PushedStoriesAre
  <2>8. channel' = Append(channel, n)
    BY <1>8
  <2>9. n \notin Feed!ToSet(channel)
    BY <1>1, <2>2 DEF Feed!ToSet, ToSet
  <2>10. Feed!Send(n)
    BY <1>8, <2>3, <2>7, <2>8, <2>9 DEF Feed!Send
  <2>11. Feed!FeedNext
    BY <2>2, <2>10 DEF Feed!FeedNext
  <2>12. QED  BY <2>4, <2>11
<1>9. ASSUME UNCHANGED <<settled, reel, channel, hands, InReelOnly>>
      PROVE  Goal
  <2>1. PushedStories' = PushedStories
    BY <1>9, PushedStoriesAre
  <2>2. UNCHANGED Feed!feedVars
    BY <1>9, <2>1 DEF Feed!feedVars
  <2>3. Once(settled', channel', TRUE, hands')
    BY <1>2, <1>9
  <2>4. QED  BY <2>2, <2>3
<1>10. Goal
  <2>. HIDE DEF Goal
  <2>1. QED  BY <1>2, <1>5, <1>7, <1>8, <1>9, FeedSteps
<1>11. QED
  BY <1>3, <1>10 DEF FeedInv, HandsOnce

LEMMA FeedInitially == Init => FeedInv /\ Feed!FeedInit
<1>. SUFFICES ASSUME Init PROVE FeedInv /\ Feed!FeedInit
  OBVIOUS
<1>1. /\ settled = 0 /\ accepted = 0 /\ open = {} /\ channel = <<>> /\ reel = <<>>
      /\ \A t \in Task : hands[t] = <<>> /\ task[t].at = "idle"
  BY DEF Init, hands, Idle
<1>2. PushedStories = {}
  <2>1. InReelOnly = {}
    BY <1>1 DEF InReelOnly
  <2>2. QED  BY <1>1, <2>1, EmptyOnce, PushedStoriesAre
<1>3. HandsOnce
  BY <1>1 DEF HandsOnce, Once
<1>4. Covered
  BY <1>1, FS_EmptySet, ServerAssumption DEF Covered
<1>5. QED  BY <1>1, <1>2, <1>3, <1>4 DEF FeedInv, Resting, Feed!FeedInit

\* The feed of the page is the feed of the server.
LEMMA SameFeed == [Feed!FeedNext]_(Feed!feedVars) => [Page!FeedNext]_(Page!feedVars)
<1>1. /\ \A s : Page!ToSet(s) = Feed!ToSet(s)
      /\ \A ring, x : Page!InReel(ring, x) = Feed!InReel(ring, x)
  BY DEF Page!ToSet, Feed!ToSet, Page!InReel, Feed!InReel
<1>2. \A n : /\ Feed!Settle(n) => Page!Settle(n)
             /\ Feed!Push(n) => Page!Push(n)
             /\ Feed!Send(n) => Page!Send(n)
  BY <1>1 DEF Page!Settle, Feed!Settle, Page!Push, Feed!Push, Page!Send, Feed!Send
<1>3. QED
  BY <1>2 DEF Page!FeedNext, Feed!FeedNext, Page!feedVars, Feed!feedVars

LEMMA FeedUnchanged == UNCHANGED vars => UNCHANGED Page!feedVars
BY DEF vars, shared, stores, outlets, PushedStories, Page!feedVars

\* The server does for its pages what ReelFeed says, and nothing else: a story
\* comes into the reel once, when it has settled, and goes over the stream
\* once, after that.
THEOREM StoriesReachThePages == Spec => Feed!FeedInit /\ [][Feed!FeedNext]_(Feed!feedVars)
<1>1. TypeOK /\ FeedInv /\ [Next]_vars => FeedInv' /\ [Feed!FeedNext]_(Feed!feedVars)
  BY FeedStep
<1>2. QED
  BY <1>1, FeedInitially, TypeCorrect, PTL DEF Spec

---------------------------------------------------------------------------
(* The two together: the server as it is, with every lock and every task,  *)
(* and a page open on it.                                                  *)

ServedInit == Init /\ Page!PageInit /\ stream = 0

ServedNext ==
    \/ Next /\ UNCHANGED <<Page!pageVars, stream>>
    \/ Page!PageNext /\ UNCHANGED <<vars, stream>>
    \/ (Page!Subscribe \/ Page!StreamDelivers \/ Page!PageReload) /\ UNCHANGED vars

servedVars == <<vars, Page!pageVars, stream>>

\* On the real server, too, what was on stage to its end does not come back
\* and nothing is queued twice.
THEOREM ServedPageShowsOnce ==
    ASSUME ChannelCapacity \in Nat \ {0}
    PROVE  ServedInit /\ [][ServedNext]_servedVars => []ShownOnce
<1>. DEFINE ServedInv == TypeOK /\ FeedInv /\ PageInv
<1>1. ServedInit => ServedInv
  <2>. SUFFICES ASSUME ServedInit PROVE ServedInv
    OBVIOUS
  <2>1. TypeOK /\ FeedInv /\ Feed!FeedInit
    BY TypeInitially, FeedInitially DEF ServedInit
  <2>2. Page!FeedInit
    BY <2>1 DEF Feed!FeedInit, Page!FeedInit
  <2>3. QED
    BY <2>1, <2>2, PageInitially DEF ServedInit, Page!Init
<1>2. ServedInv /\ [ServedNext]_servedVars => ServedInv'
  <2>. SUFFICES ASSUME ServedInv, [ServedNext]_servedVars PROVE ServedInv'
    OBVIOUS
  <2>1. [Next]_vars
    BY DEF ServedNext, servedVars
  <2>2. (TypeOK /\ FeedInv)' /\ [Feed!FeedNext]_(Feed!feedVars)
    BY <2>1, TypeStep, FeedStep
  <2>3. [Page!FeedNext]_(Page!feedVars)
    BY <2>2, SameFeed
  <2>4. [Page!Next]_(Page!vars)
    <3>1. CASE Next /\ UNCHANGED <<Page!pageVars, stream>>
      BY <2>3, <3>1 DEF Page!Next, Page!vars
    <3>2. UNCHANGED vars => UNCHANGED Page!feedVars
      BY FeedUnchanged
    <3>3. CASE Page!PageNext /\ UNCHANGED <<vars, stream>>
      BY <3>2, <3>3 DEF Page!Next
    <3>4. CASE Page!Subscribe \/ Page!StreamDelivers \/ Page!PageReload
      BY <3>4 DEF Page!Next
    <3>5. CASE UNCHANGED servedVars
      BY <3>2, <3>5 DEF servedVars, Page!vars
    <3>6. QED  BY <3>1, <3>3, <3>4, <3>5 DEF ServedNext
  <2>5. MaxEvents \in Nat
    BY ServerAssumption
  <2>6. PageInv'
    BY <2>4, <2>5, PageStep
  <2>7. QED  BY <2>2, <2>6
<1>3. QED
  BY <1>1, <1>2, PageImplies, PTL

---------------------------------------------------------------------------
(* What a client is told is there.                                         *)

\* x is in the ring, or younger ones have filled it.
Shown(x, ring, c) == x \in ToSet(ring) \/ Len(ring) = c

LEMMA PushedShows ==
    ASSUME NEW ring \in Seq(Nat), NEW x \in Nat, NEW c \in Nat \ {0},
           Len(ring) <= c
    PROVE  /\ x \in ToSet(Pushed(ring, x, c))
           /\ \A y : Shown(y, ring, c) => Shown(y, Pushed(ring, x, c), c)
           /\ Len(Pushed(ring, x, c)) = c \/ Len(Pushed(ring, x, c)) = Len(ring) + 1
           /\ Len(ring) = c => Len(Pushed(ring, x, c)) = c
<1>1. Len(ring) \in Nat
  BY LenProperties
<1>2. \A s \in Seq(Nat) : /\ Len(Append(s, x)) = Len(s) + 1
                          /\ ToSet(Append(s, x)) = ToSet(s) \cup {x}
  BY AppendAdds
<1>3. CASE Len(ring) = c
  <2>1. ring # <<>>
    BY <1>3, EmptySeq
  <2>2. Tail(ring) \in Seq(Nat) /\ Len(Tail(ring)) = c - 1
    BY <1>3, <2>1, HeadTailProperties
  <2>3. Pushed(ring, x, c) = Append(Tail(ring), x)
    BY <1>3 DEF Pushed
  <2>4. PICK s \in Seq(Nat) : s = Tail(ring) /\ Len(s) = c - 1
    BY <2>2
  <2>5. /\ Len(Append(s, x)) = Len(s) + 1
        /\ ToSet(Append(s, x)) = ToSet(s) \cup {x}
    BY <1>2
  <2>6. Len(Append(Tail(ring), x)) = c /\ x \in ToSet(Append(Tail(ring), x))
    BY <2>4, <2>5
  <2>7. QED  BY <2>3, <2>6 DEF Shown
<1>4. CASE Len(ring) # c
  <2>1. Pushed(ring, x, c) = Append(ring, x)
    BY <1>1, <1>4 DEF Pushed
  <2>2. /\ Len(Append(ring, x)) = Len(ring) + 1
        /\ ToSet(Append(ring, x)) = ToSet(ring) \cup {x}
    BY <1>2
  <2>3. QED  BY <1>4, <2>1, <2>2 DEF Shown
<1>5. QED  BY <1>3, <1>4

\* Of a task with job j: its event is in the store once it was stored, and a
\* bulletin its answer names is yet to come, or is in the reel and was sent.
Accounted(t, j, ev, re, ch) ==
    /\ t \in Request /\ j.at \in {"count", "emit", "counted", "send"}
       => Shown(j.event, ev, StoreCapacity)
    /\ j.at \in {"counted", "send"} => Shown(Head(j.bulletins), re, ReelCapacity)
    /\ \A n \in ToSet(j.answer) :
          \/ n \in ToSet(j.bulletins)
          \/ n \in ToSet(ch) /\ Shown(n, re, ReelCapacity)

VisibleInv == \A t \in Task : Accounted(t, task[t], events, reel, channel)

LEMMA JobTypes ==
    ASSUME TypeOK
    PROVE  \A t \in Task :
              /\ task[t].event \in Nat /\ task[t].bulletins \in Seq(Nat)
              /\ task[t].answer \in Seq(Nat) /\ task[t].at \in Point
              /\ task[t].at \in {"counted", "send"} => task[t].bulletins # <<>>
BY DEF TypeOK, Job

\* Of the rings and of the stream nothing is lost but by younger ones.
LEMMA OutletsGrow ==
    ASSUME TypeOK, [Next]_vars
    PROVE  /\ \A y : Shown(y, events, StoreCapacity) => Shown(y, events', StoreCapacity)
           /\ \A y : Shown(y, reel, ReelCapacity) => Shown(y, reel', ReelCapacity)
           /\ ToSet(channel) \subseteq ToSet(channel')
<1>1. /\ events \in Seq(Nat) /\ Len(events) <= StoreCapacity
      /\ reel \in Seq(Nat) /\ Len(reel) <= ReelCapacity /\ channel \in Seq(Nat)
      /\ StoreCapacity \in Nat \ {0} /\ ReelCapacity \in Nat \ {0}
  BY ServerAssumption DEF TypeOK
<1>2. ASSUME NEW r \in Request, StoreEvent(r)
      PROVE  \A y : Shown(y, events, StoreCapacity) => Shown(y, events', StoreCapacity)
  <2>1. task[r].event \in Nat /\ events' = Pushed(events, task[r].event, StoreCapacity)
    BY <1>2, JobTypes DEF StoreEvent, Task
  <2>2. QED  BY <1>1, <2>1, PushedShows
<1>3. ASSUME NEW t \in Task, PushBulletin(t)
      PROVE  \A y : Shown(y, reel, ReelCapacity) => Shown(y, reel', ReelCapacity)
  <2>1. task[t].bulletins \in Seq(Nat) /\ task[t].bulletins # <<>>
    BY <1>3, JobTypes DEF PushBulletin
  <2>2. /\ Head(task[t].bulletins) \in Nat
        /\ reel' = Pushed(reel, Head(task[t].bulletins), ReelCapacity)
    BY <1>3, <2>1 DEF PushBulletin
  <2>3. QED  BY <1>1, <2>2, PushedShows
<1>4. ASSUME NEW t \in Task, SendBulletin(t)
      PROVE  ToSet(channel) \subseteq ToSet(channel')
  <2>1. task[t].bulletins \in Seq(Nat) /\ task[t].bulletins # <<>>
    BY <1>4, JobTypes DEF SendBulletin, At
  <2>2. /\ Head(task[t].bulletins) \in Nat
        /\ channel' = Append(channel, Head(task[t].bulletins))
    BY <1>4, <2>1 DEF SendBulletin
  <2>3. QED  BY <1>1, <2>2, AppendAdds
<1>5. events' = events \/ \E r \in Request : StoreEvent(r)
  BY DEF Next, Ingest, CountEvent, Answer, Flush, ForwardStory, PushBulletin,
         CountBulletin, SendBulletin, FlushEnds, SinkCloses, ReadCounters,
         ReadEvents, ReadReel, vars, stores
<1>6. reel' = reel \/ \E t \in Task : PushBulletin(t)
  BY DEF Next, Ingest, StoreEvent, CountEvent, Answer, Flush, ForwardStory,
         CountBulletin, SendBulletin, FlushEnds, SinkCloses, ReadCounters,
         ReadEvents, ReadReel, vars, stores
<1>7. channel' = channel \/ \E t \in Task : SendBulletin(t)
  BY DEF Next, Ingest, StoreEvent, CountEvent, Answer, Flush, ForwardStory,
         PushBulletin, CountBulletin, FlushEnds, SinkCloses, ReadCounters,
         ReadEvents, ReadReel, vars, outlets
<1>8. QED  BY <1>2, <1>3, <1>4, <1>5, <1>6, <1>7

\* What a task has accounted for stays so while the rings and the stream grow.
LEMMA AccountedStays ==
    ASSUME TypeOK, VisibleInv, [Next]_vars, NEW t \in Task, NEW j,
           j.at = task[t].at /\ j.event = task[t].event,
           j.bulletins = task[t].bulletins /\ j.answer = task[t].answer
    PROVE  Accounted(t, j, events', reel', channel')
<1>1. Accounted(t, task[t], events, reel, channel)
  BY DEF VisibleInv
<1>2. QED  BY <1>1, OutletsGrow DEF Accounted

\* A step changes the job of one task at most, and leaves it accounted for.
LEMMA VisibleStep ==
    ASSUME TypeOK, VisibleInv, [Next]_vars
    PROVE  VisibleInv'
<1>. DEFINE After(t) == Accounted(t, task'[t], events', reel', channel')
<1>1. VisibleInv' <=> \A t \in Task : After(t)
  BY DEF VisibleInv
<1>2. ASSUME NEW u \in Task, task'[u] = task[u]
      PROVE  After(u)
  BY <1>2, AccountedStays
<1>3. ASSUME NEW t \in Task, NEW j, task' = [task EXCEPT ![t] = j],
             Accounted(t, j, events', reel', channel')
      PROVE  VisibleInv'
  <2>1. task'[t] = j /\ \A u \in Task \ {t} : task'[u] = task[u]
    BY <1>3 DEF TypeOK
  <2>2. \A u \in Task \ {t} : After(u)
    BY <1>2, <2>1
  <2>3. After(t)
    BY <1>3, <2>1
  <2>. HIDE DEF After
  <2>4. QED  BY <1>1, <2>2, <2>3
<1>4. ASSUME NEW t \in Task, NEW e \in Nat, NEW ss \in Seq(Nat), Started(t, e, ss)
      PROVE  VisibleInv'
  <2>. DEFINE j == [at |-> "forward", event |-> e, stories |-> ss,
                    bulletins |-> ss, answer |-> ss]
  <2>1. Accounted(t, j, events', reel', channel')
    BY DEF Accounted
  <2>2. task' = [task EXCEPT ![t] = j]
    BY <1>4 DEF Started
  <2>. HIDE DEF j
  <2>3. QED  BY <1>3, <2>1, <2>2
<1>5. ASSUME NEW t \in Task, task' = [task EXCEPT ![t] = Idle]
      PROVE  VisibleInv'
  <2>1. Accounted(t, Idle, events', reel', channel')
    BY EmptyOnce DEF Accounted, Idle
  <2>2. QED  BY <1>3, <1>5, <2>1
<1>6. ASSUME NEW t \in Task, NEW place, GoesTo(t, place),
             /\ t \in Request /\ place \in {"count", "emit", "counted", "send"}
                => Shown(task[t].event, events', StoreCapacity)
             /\ place \in {"counted", "send"}
                => Shown(Head(task[t].bulletins), reel', ReelCapacity)
      PROVE  VisibleInv'
  <2>. DEFINE j == [task[t] EXCEPT !.at = place]
  <2>1. /\ j.at = place /\ j.event = task[t].event
        /\ j.bulletins = task[t].bulletins /\ j.answer = task[t].answer
    BY DEF TypeOK, Job
  <2>2. task' = [task EXCEPT ![t] = j]
    BY <1>6 DEF GoesTo
  <2>. HIDE DEF j
  <2>3. Accounted(t, task[t], events', reel', channel')
    BY AccountedStays
  <2>4. Accounted(t, j, events', reel', channel')
    BY <1>6, <2>1, <2>3 DEF Accounted
  <2>5. QED  BY <1>3, <2>2, <2>4
<1>7. ASSUME NEW r \in Request, NEW s \in Session, NEW ends \in BOOLEAN,
             Ingest(r, s, ends)
      PROVE  VisibleInv'
  <2>1. (IF ends THEN 1 ELSE 0) \in Nat /\ r \in Task /\ accepted' \in Nat /\ settled \in Nat
    BY <1>7 DEF Ingest, Task, TypeOK
  <2>2. Names(settled, IF ends THEN 1 ELSE 0) \in Seq(Nat)
    BY <2>1, NamesProperties
  <2>3. QED  BY <1>4, <1>7, <2>1, <2>2 DEF Ingest
<1>8. ASSUME NEW due \in SUBSET open, Flush(due)
      PROVE  VisibleInv'
  <2>1. Cardinality(due) \in Nat /\ Flusher \in Task /\ settled \in Nat
    BY FS_Subset, FS_CardinalityType DEF TypeOK, Task
  <2>2. Names(settled, Cardinality(due)) \in Seq(Nat)
    BY <2>1, NamesProperties
  <2>3. QED  BY <1>4, <1>8, <2>1, <2>2 DEF Flush
<1>9. ASSUME NEW t \in Task, ForwardStory(t)
      PROVE  VisibleInv'
  <2>1. PICK rest : task' = [task EXCEPT ![t].stories = rest]
    BY <1>9 DEF ForwardStory
  <2>. DEFINE j == [task[t] EXCEPT !.stories = rest]
  <2>2. /\ j.at = task[t].at /\ j.event = task[t].event
        /\ j.bulletins = task[t].bulletins /\ j.answer = task[t].answer
    BY DEF TypeOK, Job
  <2>3. task' = [task EXCEPT ![t] = j]
    BY <2>1
  <2>. HIDE DEF j
  <2>4. Accounted(t, j, events', reel', channel')
    BY <2>2, AccountedStays
  <2>5. QED  BY <1>3, <2>3, <2>4
<1>10. ASSUME NEW r \in Request, StoreEvent(r)
       PROVE  VisibleInv'
  <2>1. r \in Task /\ task[r].event \in Nat
    BY JobTypes DEF Task
  <2>2. Shown(task[r].event, events', StoreCapacity)
    BY <1>10, <2>1, PushedShows, ServerAssumption DEF StoreEvent, TypeOK, Shown
  <2>3. QED  BY <1>6, <1>10, <2>1, <2>2 DEF StoreEvent
<1>11. ASSUME NEW r \in Request, CountEvent(r)
       PROVE  VisibleInv'
  <2>1. r \in Task /\ Accounted(r, task[r], events', reel', channel')
    BY AccountedStays DEF Task
  <2>2. QED  BY <1>6, <1>11, <2>1 DEF CountEvent, At, Accounted
<1>12. ASSUME NEW t \in Task, PushBulletin(t)
       PROVE  VisibleInv'
  <2>1. Head(task[t].bulletins) \in Nat
    BY <1>12, JobTypes DEF PushBulletin
  <2>2. Shown(Head(task[t].bulletins), reel', ReelCapacity)
    BY <1>12, <2>1, PushedShows, ServerAssumption DEF PushBulletin, TypeOK, Shown
  <2>3. Accounted(t, task[t], events', reel', channel')
    BY AccountedStays
  <2>4. t \in Request => task[t].at = "emit"
    BY <1>12, ServerAssumption DEF PushBulletin, Emitting, At
  <2>5. QED  BY <1>6, <1>12, <2>2, <2>3, <2>4 DEF PushBulletin, Accounted
<1>13. ASSUME NEW t \in Task, CountBulletin(t)
       PROVE  VisibleInv'
  <2>1. Accounted(t, task[t], events', reel', channel')
    BY AccountedStays
  <2>2. QED  BY <1>6, <1>13, <2>1 DEF CountBulletin, At, Accounted
<1>14. ASSUME NEW t \in Task, SendBulletin(t)
       PROVE  VisibleInv'
  <2>1. /\ task[t].at = "send" /\ task[t].bulletins \in Seq(Nat)
        /\ task[t].bulletins # <<>>
    BY <1>14, JobTypes DEF SendBulletin, At
  <2>. DEFINE j == [task[t] EXCEPT !.at = "emit", !.bulletins = Tail(@)]
              n == Head(task[t].bulletins)
  <2>2. /\ j.at = "emit" /\ j.event = task[t].event
        /\ j.bulletins = Tail(task[t].bulletins) /\ j.answer = task[t].answer
    BY DEF TypeOK, Job
  <2>3. task' = [task EXCEPT ![t] = j]
    BY <1>14 DEF SendBulletin
  <2>4. Accounted(t, task[t], events', reel', channel')
    BY AccountedStays
  <2>5. channel' = Append(channel, n) /\ n \in Nat
    BY <1>14, <2>1 DEF SendBulletin
  <2>6. Shown(n, reel', ReelCapacity)
    BY <2>1, <2>4 DEF Accounted
  <2>7. n \in ToSet(channel')
    BY <2>5, AppendAdds DEF TypeOK
  <2>8. \A x \in ToSet(task[t].bulletins) : x = n \/ x \in ToSet(j.bulletins)
    BY <2>1, <2>2, HeadOrTail
  <2>. HIDE DEF j, n
  <2>9. Accounted(t, j, events', reel', channel')
    BY <2>1, <2>2, <2>4, <2>6, <2>7, <2>8 DEF Accounted
  <2>10. QED  BY <1>3, <2>3, <2>9
<1>15. ASSUME NEW r \in Request, Answer(r)
       PROVE  VisibleInv'
  BY <1>5, <1>15 DEF Answer, Task
<1>16. CASE FlushEnds
  BY <1>5, <1>16 DEF FlushEnds, Task
<1>17. ASSUME \/ SinkCloses \/ ReadCounters \/ ReadEvents \/ ReadReel
              \/ UNCHANGED vars
       PROVE  VisibleInv'
  <2>1. task' = task
    BY <1>17 DEF SinkCloses, ReadCounters, ReadEvents, ReadReel, vars
  <2>2. QED  BY <1>1, <1>2, <2>1
<1>18. QED
  BY <1>7, <1>8, <1>9, <1>10, <1>11, <1>12, <1>13, <1>14, <1>15, <1>16, <1>17
  DEF Next

\* Only an answer ends a request.
LEMMA OnlyAnswersEnd ==
    ASSUME TypeOK, [Next]_vars, NEW r \in Request, task[r] # Idle, task'[r] = Idle
    PROVE  Answer(r)
<1>1. r \in Task /\ Idle.at = "idle" /\ r # Flusher
  BY ServerAssumption DEF Task, Idle
<1>2. ASSUME NEW t \in Task, NEW j, task' = [task EXCEPT ![t] = j], j.at # "idle"
      PROVE  FALSE
  BY <1>1, <1>2 DEF TypeOK
<1>3. \A t \in Task : \A e, ss : ~Started(t, e, ss)
  <2>. SUFFICES ASSUME NEW t \in Task, NEW e, NEW ss, Started(t, e, ss)
                PROVE  FALSE
    OBVIOUS
  <2>. DEFINE j == [at |-> "forward", event |-> e, stories |-> ss,
                    bulletins |-> ss, answer |-> ss]
  <2>1. j.at # "idle"
    OBVIOUS
  <2>2. task' = [task EXCEPT ![t] = j]
    BY DEF Started
  <2>. HIDE DEF j
  <2>3. QED  BY <1>2, <2>1, <2>2
<1>4. \A t \in Task : \A place : place # "idle" => ~GoesTo(t, place)
  <2>. SUFFICES ASSUME NEW t \in Task, NEW place, place # "idle", GoesTo(t, place)
                PROVE  FALSE
    OBVIOUS
  <2>1. [task[t] EXCEPT !.at = place].at = place
    BY DEF TypeOK, Job
  <2>2. task' = [task EXCEPT ![t] = [task[t] EXCEPT !.at = place]]
    BY DEF GoesTo
  <2>3. QED  BY <1>2, <2>1, <2>2
<1>5. ASSUME NEW t \in Task, ForwardStory(t)
      PROVE  FALSE
  <2>1. PICK rest : task' = [task EXCEPT ![t] = [task[t] EXCEPT !.stories = rest]]
    BY <1>5 DEF ForwardStory
  <2>2. [task[t] EXCEPT !.stories = rest].at = "forward"
    BY <1>5 DEF ForwardStory, At, TypeOK, Job
  <2>3. QED  BY <1>2, <2>1, <2>2
<1>6. ASSUME NEW t \in Task, SendBulletin(t)
      PROVE  FALSE
  <2>1. [task[t] EXCEPT !.at = "emit", !.bulletins = Tail(@)].at = "emit"
    BY DEF TypeOK, Job
  <2>2. task' = [task EXCEPT ![t] = [task[t] EXCEPT !.at = "emit", !.bulletins = Tail(@)]]
    BY <1>6 DEF SendBulletin
  <2>3. QED  BY <1>2, <2>1, <2>2
<1>7. \A t \in Task : t # r => task' # [task EXCEPT ![t] = Idle]
  BY <1>1 DEF TypeOK
<1>8. ASSUME NEW q \in Request
      PROVE  /\ \A s \in Session, ends \in BOOLEAN : ~Ingest(q, s, ends)
             /\ ~StoreEvent(q) /\ ~CountEvent(q) /\ (Answer(q) => q = r)
  BY <1>3, <1>4, <1>7 DEF Task, Ingest, StoreEvent, CountEvent, Answer
<1>9. /\ \A due \in SUBSET open : ~Flush(due)
      /\ ~FlushEnds
  BY <1>1, <1>3, <1>7 DEF Task, Flush, FlushEnds
<1>10. \A t \in Task : ~PushBulletin(t) /\ ~CountBulletin(t)
  BY <1>4 DEF PushBulletin, CountBulletin
<1>11. ~SinkCloses /\ ~ReadCounters /\ ~ReadEvents /\ ~ReadReel /\ ~UNCHANGED vars
  BY DEF SinkCloses, ReadCounters, ReadEvents, ReadReel, vars
<1>12. QED
  BY <1>5, <1>6, <1>8, <1>9, <1>10, <1>11 DEF Next

\* A client that has its answer finds its event and the bulletins the answer
\* names, or rings that younger ones have filled.
THEOREM AnswersAreVisible == Spec => AnsweredIsVisible
<1>1. Init => VisibleInv
  <2>. SUFFICES ASSUME Init, NEW t \in Task
                PROVE  Accounted(t, task[t], events, reel, channel)
    BY DEF VisibleInv
  <2>1. task[t] = Idle
    BY DEF Init
  <2>2. QED  BY <2>1, EmptyOnce DEF Accounted, Idle
<1>2. TypeOK /\ VisibleInv /\ [Next]_vars => VisibleInv'
  BY VisibleStep
<1>3. TypeOK /\ VisibleInv /\ [Next]_vars
      => \A r \in Request : task[r] # Idle /\ task'[r] = Idle => Visible(task[r])
  <2>. SUFFICES ASSUME TypeOK, VisibleInv, [Next]_vars, NEW r \in Request,
                       task[r] # Idle, task'[r] = Idle
                PROVE  Visible(task[r])
    OBVIOUS
  <2>1. Answer(r) /\ r \in Task
    BY OnlyAnswersEnd DEF Task
  <2>2. task[r].at = "emit" /\ ToSet(task[r].bulletins) = {}
    BY <2>1, EmptyOnce DEF Answer, At
  <2>3. Accounted(r, task[r], events, reel, channel)
    BY <2>1 DEF VisibleInv
  <2>4. QED  BY <2>2, <2>3 DEF Accounted, Shown, Visible
<1>4. QED
  BY <1>1, <1>2, <1>3, TypeCorrect, PTL DEF Spec, AnsweredIsVisible

---------------------------------------------------------------------------
(* What a status counts is there.                                          *)

AtPlace(place) == {t \in Task : task[t].at = place}

\* The ring holds the n that were counted and the tasks S have yet to count,
\* or it is full.
RingCovers(ring, c, n, S) ==
    IsFiniteSet(S) /\ (Len(ring) = c \/ n + Cardinality(S) <= Len(ring))

LEMMA PushedCovers ==
    ASSUME NEW ring \in Seq(Nat), NEW c \in Nat \ {0}, Len(ring) <= c,
           NEW n \in Nat, NEW S, RingCovers(ring, c, n, S), NEW x \in Nat, NEW t
    PROVE  RingCovers(Pushed(ring, x, c), c, n, S \cup {t})
<1>1. /\ IsFiniteSet(S \cup {t}) /\ Cardinality(S) \in Nat /\ Len(ring) \in Nat
      /\ Cardinality(S \cup {t}) \in {Cardinality(S), Cardinality(S) + 1}
  BY FS_AddElement, FS_CardinalityType, LenProperties DEF RingCovers
<1>2. /\ Len(Pushed(ring, x, c)) = c \/ Len(Pushed(ring, x, c)) = Len(ring) + 1
      /\ Len(ring) = c => Len(Pushed(ring, x, c)) = c
  BY PushedShows
<1>3. QED  BY <1>1, <1>2 DEF RingCovers

LEMMA CountedCovers ==
    ASSUME NEW ring \in Seq(Nat), NEW c \in Nat, NEW n \in Nat, NEW S,
           RingCovers(ring, c, n, S), NEW t \in S
    PROVE  RingCovers(ring, c, n + 1, S \ {t})
<1>1. /\ IsFiniteSet(S \ {t}) /\ Cardinality(S \ {t}) = Cardinality(S) - 1
      /\ Cardinality(S) \in Nat /\ Len(ring) \in Nat
  BY FS_RemoveElement, FS_CardinalityType, LenProperties DEF RingCovers
<1>2. QED  BY <1>1 DEF RingCovers

CoverInv ==
    /\ RingCovers(events, StoreCapacity, ingested, AtPlace("count"))
    /\ RingCovers(reel, ReelCapacity, emitted, AtPlace("counted"))
    /\ view \in [at : {"none", "events", "reel"}, ingested : Nat, emitted : Nat]
    /\ view.ingested <= ingested /\ view.emitted <= emitted

\* Where a step that gives task t the job j takes it.
LEMMA Moves ==
    ASSUME TypeOK, NEW t \in Task, NEW j, task' = [task EXCEPT ![t] = j], NEW place
    PROVE  AtPlace(place)' = IF j.at = place THEN AtPlace(place) \cup {t}
                             ELSE AtPlace(place) \ {t}
BY DEF TypeOK, AtPlace

LEMMA MovesTo ==
    ASSUME TypeOK, NEW t \in Task, NEW to, GoesTo(t, to), NEW place
    PROVE  AtPlace(place)' = IF to = place THEN AtPlace(place) \cup {t}
                             ELSE AtPlace(place) \ {t}
<1>. DEFINE j == [task[t] EXCEPT !.at = to]
<1>1. j.at = to
  BY DEF TypeOK, Job
<1>2. task' = [task EXCEPT ![t] = j]
  BY DEF GoesTo
<1>. HIDE DEF j
<1>3. QED  BY <1>1, <1>2, Moves

\* Seen from the counters, a step stores an event or counts one, pushes a
\* bulletin or counts one, or is none of these.
LEMMA CountingSteps ==
    ASSUME TypeOK, [Next]_vars
    PROVE  \/ \E t \in Task, x \in Nat :
                 /\ events' = Pushed(events, x, StoreCapacity)
                 /\ AtPlace("count")' = AtPlace("count") \cup {t}
                 /\ UNCHANGED <<reel, ingested, emitted, view, AtPlace("counted")>>
           \/ \E t \in AtPlace("count") :
                 /\ ingested' = ingested + 1
                 /\ AtPlace("count")' = AtPlace("count") \ {t}
                 /\ UNCHANGED <<events, reel, emitted, view, AtPlace("counted")>>
           \/ \E t \in Task, x \in Nat :
                 /\ reel' = Pushed(reel, x, ReelCapacity)
                 /\ AtPlace("counted")' = AtPlace("counted") \cup {t}
                 /\ UNCHANGED <<events, ingested, emitted, view, AtPlace("count")>>
           \/ \E t \in AtPlace("counted") :
                 /\ emitted' = emitted + 1
                 /\ AtPlace("counted")' = AtPlace("counted") \ {t}
                 /\ UNCHANGED <<events, reel, ingested, view, AtPlace("count")>>
           \/ /\ UNCHANGED <<stores, AtPlace("count"), AtPlace("counted")>>
              /\ UNCHANGED view \/ ReadCounters \/ ReadEvents \/ ReadReel
<1>. DEFINE Elsewhere == /\ UNCHANGED <<stores, AtPlace("count"), AtPlace("counted")>>
                         /\ UNCHANGED view \/ ReadCounters \/ ReadEvents \/ ReadReel
<1>1. ASSUME NEW t \in Task, NEW j, task' = [task EXCEPT ![t] = j],
             {j.at, task[t].at} \cap {"count", "counted"} = {}
      PROVE  UNCHANGED <<AtPlace("count"), AtPlace("counted")>>
  <2>1. /\ j.at # "count" /\ j.at # "counted"
        /\ t \notin AtPlace("count") /\ t \notin AtPlace("counted")
    BY <1>1 DEF AtPlace
  <2>2. /\ AtPlace("count")' = AtPlace("count") \ {t}
        /\ AtPlace("counted")' = AtPlace("counted") \ {t}
    BY <1>1, <2>1, Moves
  <2>3. QED  BY <2>1, <2>2
<1>2. ASSUME NEW t \in Task, NEW e, NEW ss, At(t, "idle"), Started(t, e, ss)
      PROVE  UNCHANGED <<AtPlace("count"), AtPlace("counted")>>
  <2>. DEFINE j == [at |-> "forward", event |-> e, stories |-> ss,
                    bulletins |-> ss, answer |-> ss]
  <2>1. {j.at, task[t].at} \cap {"count", "counted"} = {}
    BY <1>2 DEF At
  <2>2. task' = [task EXCEPT ![t] = j]
    BY <1>2 DEF Started
  <2>. HIDE DEF j
  <2>3. QED  BY <1>1, <2>1, <2>2
<1>3. ASSUME NEW t \in Task, task[t].at \in {"emit", "forward"},
             task' = [task EXCEPT ![t] = Idle]
      PROVE  UNCHANGED <<AtPlace("count"), AtPlace("counted")>>
  <2>1. {Idle.at, task[t].at} \cap {"count", "counted"} = {}
    BY <1>3 DEF Idle
  <2>2. QED  BY <1>1, <1>3, <2>1
<1>4. ASSUME NEW r \in Request, NEW s \in Session, NEW ends \in BOOLEAN,
             Ingest(r, s, ends)
      PROVE  Elsewhere
  BY <1>2, <1>4 DEF Ingest, Task
<1>5. ASSUME NEW due \in SUBSET open, Flush(due)
      PROVE  Elsewhere
  BY <1>2, <1>5 DEF Flush, Task
<1>6. ASSUME NEW t \in Task, ForwardStory(t)
      PROVE  Elsewhere
  <2>1. PICK rest : task' = [task EXCEPT ![t] = [task[t] EXCEPT !.stories = rest]]
    BY <1>6 DEF ForwardStory
  <2>. DEFINE j == [task[t] EXCEPT !.stories = rest]
  <2>2. {j.at, task[t].at} \cap {"count", "counted"} = {}
    BY <1>6 DEF ForwardStory, At, TypeOK, Job
  <2>. HIDE DEF j
  <2>3. UNCHANGED <<AtPlace("count"), AtPlace("counted")>>
    BY <1>1, <2>1, <2>2 DEF j
  <2>4. QED  BY <1>6, <2>3 DEF ForwardStory
<1>7. ASSUME NEW t \in Task, SendBulletin(t)
      PROVE  Elsewhere
  <2>. DEFINE j == [task[t] EXCEPT !.at = "emit", !.bulletins = Tail(@)]
  <2>1. {j.at, task[t].at} \cap {"count", "counted"} = {}
    BY <1>7 DEF SendBulletin, At, TypeOK, Job
  <2>2. task' = [task EXCEPT ![t] = j]
    BY <1>7 DEF SendBulletin
  <2>. HIDE DEF j
  <2>3. QED  BY <1>1, <1>7, <2>1, <2>2 DEF SendBulletin
<1>8. ASSUME NEW r \in Request, Answer(r)
      PROVE  Elsewhere
  BY <1>3, <1>8 DEF Answer, At, Task
<1>9. ASSUME FlushEnds
      PROVE  Elsewhere
  BY <1>3, <1>9 DEF FlushEnds, Emitting, Forwarded, At, Task
<1>10. ASSUME \/ SinkCloses \/ ReadCounters \/ ReadEvents \/ ReadReel
              \/ UNCHANGED vars
       PROVE  Elsewhere
  BY <1>10 DEF SinkCloses, ReadCounters, ReadEvents, ReadReel, vars, AtPlace
<1>11. ASSUME NEW r \in Request, StoreEvent(r)
       PROVE  /\ events' = Pushed(events, task[r].event, StoreCapacity)
              /\ task[r].event \in Nat /\ r \in Task
              /\ AtPlace("count")' = AtPlace("count") \cup {r}
              /\ UNCHANGED <<reel, ingested, emitted, view, AtPlace("counted")>>
  <2>1. r \in Task /\ task[r].event \in Nat
    BY JobTypes DEF Task
  <2>2. /\ AtPlace("count")' = AtPlace("count") \cup {r}
        /\ AtPlace("counted")' = AtPlace("counted") \ {r}
    BY <1>11, <2>1, MovesTo DEF StoreEvent
  <2>3. r \notin AtPlace("counted")
    BY <1>11 DEF StoreEvent, Forwarded, At, AtPlace
  <2>4. QED  BY <1>11, <2>1, <2>2, <2>3 DEF StoreEvent
<1>12. ASSUME NEW r \in Request, CountEvent(r)
       PROVE  /\ r \in AtPlace("count")
              /\ ingested' = ingested + 1
              /\ AtPlace("count")' = AtPlace("count") \ {r}
              /\ UNCHANGED <<events, reel, emitted, view, AtPlace("counted")>>
  <2>1. r \in AtPlace("count") /\ r \in Task /\ r \notin AtPlace("counted")
    BY <1>12 DEF CountEvent, At, AtPlace, Task
  <2>2. /\ AtPlace("count")' = AtPlace("count") \ {r}
        /\ AtPlace("counted")' = AtPlace("counted") \ {r}
    BY <1>12, <2>1, MovesTo DEF CountEvent
  <2>3. QED  BY <1>12, <2>1, <2>2 DEF CountEvent
<1>13. ASSUME NEW t \in Task, PushBulletin(t)
       PROVE  /\ reel' = Pushed(reel, Head(task[t].bulletins), ReelCapacity)
              /\ Head(task[t].bulletins) \in Nat
              /\ AtPlace("counted")' = AtPlace("counted") \cup {t}
              /\ UNCHANGED <<events, ingested, emitted, view, AtPlace("count")>>
  <2>1. Head(task[t].bulletins) \in Nat
    BY <1>13, JobTypes DEF PushBulletin
  <2>2. /\ AtPlace("counted")' = AtPlace("counted") \cup {t}
        /\ AtPlace("count")' = AtPlace("count") \ {t}
    BY <1>13, MovesTo DEF PushBulletin
  <2>3. t \notin AtPlace("count")
    BY <1>13 DEF PushBulletin, Emitting, Forwarded, At, AtPlace
  <2>4. QED  BY <1>13, <2>1, <2>2, <2>3 DEF PushBulletin
<1>14. ASSUME NEW t \in Task, CountBulletin(t)
       PROVE  /\ t \in AtPlace("counted")
              /\ emitted' = emitted + 1
              /\ AtPlace("counted")' = AtPlace("counted") \ {t}
              /\ UNCHANGED <<events, reel, ingested, view, AtPlace("count")>>
  <2>1. t \in AtPlace("counted") /\ t \notin AtPlace("count")
    BY <1>14 DEF CountBulletin, At, AtPlace
  <2>2. /\ AtPlace("counted")' = AtPlace("counted") \ {t}
        /\ AtPlace("count")' = AtPlace("count") \ {t}
    BY <1>14, MovesTo DEF CountBulletin
  <2>3. QED  BY <1>14, <2>1, <2>2 DEF CountBulletin
<1>. HIDE DEF Elsewhere
<1>15. \/ Elsewhere
       \/ \E r \in Request : StoreEvent(r) \/ CountEvent(r)
       \/ \E t \in Task : PushBulletin(t) \/ CountBulletin(t)
  BY <1>4, <1>5, <1>6, <1>7, <1>8, <1>9, <1>10 DEF Next
<1>16. CASE Elsewhere
  BY <1>16 DEF Elsewhere
<1>17. ASSUME NEW r \in Request, StoreEvent(r)
       PROVE  \E t \in Task, x \in Nat :
                 /\ events' = Pushed(events, x, StoreCapacity)
                 /\ AtPlace("count")' = AtPlace("count") \cup {t}
                 /\ UNCHANGED <<reel, ingested, emitted, view, AtPlace("counted")>>
  BY <1>11, <1>17
<1>18. ASSUME NEW t \in Task, PushBulletin(t)
       PROVE  \E u \in Task, x \in Nat :
                 /\ reel' = Pushed(reel, x, ReelCapacity)
                 /\ AtPlace("counted")' = AtPlace("counted") \cup {u}
                 /\ UNCHANGED <<events, ingested, emitted, view, AtPlace("count")>>
  BY <1>13, <1>18
<1>19. QED
  BY <1>12, <1>14, <1>15, <1>16, <1>17, <1>18

LEMMA CoverStep ==
    ASSUME TypeOK, CoverInv, [Next]_vars
    PROVE  CoverInv'
<1>1. /\ events \in Seq(Nat) /\ Len(events) <= StoreCapacity
      /\ reel \in Seq(Nat) /\ Len(reel) <= ReelCapacity
      /\ StoreCapacity \in Nat \ {0} /\ ReelCapacity \in Nat \ {0}
      /\ ingested \in Nat /\ emitted \in Nat
  BY ServerAssumption DEF TypeOK
<1>2. /\ RingCovers(events, StoreCapacity, ingested, AtPlace("count"))
      /\ RingCovers(reel, ReelCapacity, emitted, AtPlace("counted"))
      /\ view \in [at : {"none", "events", "reel"}, ingested : Nat, emitted : Nat]
      /\ view.ingested <= ingested /\ view.emitted <= emitted
  BY DEF CoverInv
<1>. DEFINE Goal == /\ RingCovers(events', StoreCapacity, ingested', AtPlace("count")')
                    /\ RingCovers(reel', ReelCapacity, emitted', AtPlace("counted")')
                    /\ view' \in [at : {"none", "events", "reel"}, ingested : Nat, emitted : Nat]
                    /\ view'.ingested <= ingested' /\ view'.emitted <= emitted'
<1>3. ASSUME NEW t \in Task, NEW x \in Nat,
             events' = Pushed(events, x, StoreCapacity),
             AtPlace("count")' = AtPlace("count") \cup {t},
             UNCHANGED <<reel, ingested, emitted, view, AtPlace("counted")>>
      PROVE  Goal
  <2>1. RingCovers(Pushed(events, x, StoreCapacity), StoreCapacity, ingested, AtPlace("count") \cup {t})
    BY <1>1, <1>2, PushedCovers
  <2>2. QED  BY <1>2, <1>3, <2>1
<1>4. ASSUME NEW t \in AtPlace("count"), ingested' = ingested + 1,
             AtPlace("count")' = AtPlace("count") \ {t},
             UNCHANGED <<events, reel, emitted, view, AtPlace("counted")>>
      PROVE  Goal
  <2>1. RingCovers(events, StoreCapacity, ingested + 1, AtPlace("count") \ {t})
    BY <1>1, <1>2, CountedCovers
  <2>2. view.ingested <= ingested + 1
    BY <1>1, <1>2
  <2>3. QED  BY <1>2, <1>4, <2>1, <2>2
<1>5. ASSUME NEW t \in Task, NEW x \in Nat,
             reel' = Pushed(reel, x, ReelCapacity),
             AtPlace("counted")' = AtPlace("counted") \cup {t},
             UNCHANGED <<events, ingested, emitted, view, AtPlace("count")>>
      PROVE  Goal
  <2>1. RingCovers(Pushed(reel, x, ReelCapacity), ReelCapacity, emitted, AtPlace("counted") \cup {t})
    BY <1>1, <1>2, PushedCovers
  <2>2. QED  BY <1>2, <1>5, <2>1
<1>6. ASSUME NEW t \in AtPlace("counted"), emitted' = emitted + 1,
             AtPlace("counted")' = AtPlace("counted") \ {t},
             UNCHANGED <<events, reel, ingested, view, AtPlace("count")>>
      PROVE  Goal
  <2>1. RingCovers(reel, ReelCapacity, emitted + 1, AtPlace("counted") \ {t})
    BY <1>1, <1>2, CountedCovers
  <2>2. view.emitted <= emitted + 1
    BY <1>1, <1>2
  <2>3. QED  BY <1>2, <1>6, <2>1, <2>2
<1>7. ASSUME UNCHANGED <<stores, AtPlace("count"), AtPlace("counted")>>,
             UNCHANGED view \/ ReadCounters \/ ReadEvents \/ ReadReel
      PROVE  Goal
  <2>1. UNCHANGED <<events, reel, ingested, emitted>>
    BY <1>7 DEF stores
  <2>2. /\ view' \in [at : {"none", "events", "reel"}, ingested : Nat, emitted : Nat]
        /\ view'.ingested <= ingested /\ view'.emitted <= emitted
    <3>1. CASE view' = view
      BY <1>2, <3>1
    <3>2. CASE ReadCounters
      BY <1>1, <3>2 DEF ReadCounters
    <3>3. CASE ReadEvents
      <4>1. view' = [at |-> "reel", ingested |-> 0, emitted |-> view.emitted]
        BY <1>2, <3>3 DEF ReadEvents
      <4>2. view.emitted \in Nat
        BY <1>2
      <4>3. QED  BY <1>1, <1>2, <4>1, <4>2
    <3>4. CASE ReadReel
      BY <1>1, <3>4 DEF ReadReel, NoView
    <3>5. QED  BY <1>7, <3>1, <3>2, <3>3, <3>4
  <2>3. QED  BY <1>2, <1>7, <2>1, <2>2
<1>8. Goal
  <2>. HIDE DEF Goal
  <2>1. QED  BY <1>3, <1>4, <1>5, <1>6, <1>7, CountingSteps
<1>9. QED  BY <1>8 DEF CoverInv

LEMMA CoverImplies ==
    ASSUME TypeOK, CoverInv
    PROVE  /\ Len(events) >= Min({view.ingested, StoreCapacity})
           /\ Len(reel) >= Min({view.emitted, ReelCapacity})
<1>1. ASSUME NEW a \in Nat, NEW b \in Nat
      PROVE  Min({a, b}) <= a /\ Min({a, b}) <= b /\ Min({a, b}) \in Nat
  <2>1. CASE a <= b
    <3>1. \E x \in {a, b} : \A y \in {a, b} : x <= y
      BY <2>1
    <3>2. QED  BY <3>1 DEF Min
  <2>2. CASE b <= a
    <3>1. \E x \in {a, b} : \A y \in {a, b} : x <= y
      BY <2>2
    <3>2. QED  BY <3>1 DEF Min
  <2>3. QED  BY <2>1, <2>2
<1>2. ASSUME NEW ring \in Seq(Nat), NEW c \in Nat, NEW n \in Nat, NEW S,
             RingCovers(ring, c, n, S), NEW k \in Nat, k <= n
      PROVE  Len(ring) >= Min({k, c})
  <2>1. Cardinality(S) \in Nat /\ Len(ring) \in Nat
    BY <1>2, FS_CardinalityType, LenProperties DEF RingCovers
  <2>2. Min({k, c}) <= k /\ Min({k, c}) <= c /\ Min({k, c}) \in Nat
    BY <1>1
  <2>3. QED  BY <1>2, <2>1, <2>2 DEF RingCovers
<1>3. /\ events \in Seq(Nat) /\ reel \in Seq(Nat)
      /\ StoreCapacity \in Nat /\ ReelCapacity \in Nat
      /\ ingested \in Nat /\ emitted \in Nat
      /\ view.ingested \in Nat /\ view.emitted \in Nat
      /\ view.ingested <= ingested /\ view.emitted <= emitted
  BY ServerAssumption DEF TypeOK, CoverInv
<1>4. /\ RingCovers(events, StoreCapacity, ingested, AtPlace("count"))
      /\ RingCovers(reel, ReelCapacity, emitted, AtPlace("counted"))
  BY DEF CoverInv
<1>5. QED  BY <1>2, <1>3, <1>4

\* A status never counts an event or a bulletin it does not have, unless the
\* ring is full: the counters are read first, and counted last.
THEOREM StatusesCover == Spec => StatusCovers
<1>1. Init => CoverInv
  <2>. SUFFICES ASSUME Init PROVE CoverInv
    OBVIOUS
  <2>1. AtPlace("count") = {} /\ AtPlace("counted") = {}
    BY DEF Init, Idle, AtPlace
  <2>2. /\ events = <<>> /\ reel = <<>> /\ ingested = 0 /\ emitted = 0
        /\ view = [at |-> "none", ingested |-> 0, emitted |-> 0]
    BY DEF Init
  <2>3. RingCovers(<<>>, StoreCapacity, 0, {}) /\ RingCovers(<<>>, ReelCapacity, 0, {})
    BY FS_EmptySet DEF RingCovers
  <2>4. QED  BY <2>1, <2>2, <2>3 DEF CoverInv
<1>2. TypeOK /\ CoverInv /\ [Next]_vars => CoverInv'
  BY CoverStep
<1>3. TypeOK /\ CoverInv
      => /\ Len(events) >= Min({view.ingested, StoreCapacity})
         /\ Len(reel) >= Min({view.emitted, ReelCapacity})
  BY CoverImplies
<1>4. QED
  BY <1>1, <1>2, <1>3, TypeCorrect, PTL DEF Spec, StatusCovers
=============================================================================
