---------------------------- MODULE CaptureProofs ----------------------------
(***************************************************************************)
(* Proofs about the two ends of capture: TranscriptTail, for any files,    *)
(* lines and bounds, and StoryCompiler, for every set of turns, notes and  *)
(* events, every scoring and every threshold and window.                   *)
(***************************************************************************)
EXTENDS TranscriptTail, StoryCompiler, OrderLemmas

---------------------------------------------------------------------------
(***************************************************************************)
(* PART 1.  TranscriptTail: what a watcher owes of its file is what it     *)
(* posted and the lines that end behind its offset.                        *)
(***************************************************************************)

---------------------------------------------------------------------------
(* The invariant.                                                          *)

IsRest(t, i) == t[i].part = "rest"

\* The text of an agent that began n lines since it has the file: heads and
\* rests in turn, the lines in their order, the last of them the last begun.
IsTranscript(t, n) ==
    /\ t \in Seq(Piece)
    /\ t # <<>> => ~IsRest(t, 1) /\ t[Len(t)].line = n
    /\ \A i \in 1..Len(t) : i < Len(t) =>
          /\ IsRest(t, i + 1) <=> ~IsRest(t, i)
          /\ IsRest(t, i + 1) => t[i + 1].line = t[i].line
    /\ \A i, j \in 1..Len(t) : i < j =>
          /\ t[i].line <= t[j].line
          /\ ~IsRest(t, j) => t[i].line < t[j].line

\* The ends of the lines of t that a watcher which began at base owes when it
\* has read up to offset.  A line half written at base is never told.
Ends(t, offset, base) ==
    {i \in DOMAIN t : IsRest(t, i) /\ i > offset /\ i > base + 1}

Owed(t, offset, base) == Sublist(Lines(t), Ends(t, offset, base))

\* The watcher w of a file with text t: how far it is, and what is pending.
WatcherInv(t, w) ==
    /\ w.shrunk => w.base = 0 /\ w.pending = <<>>
    /\ ~w.shrunk =>
          /\ w.base <= w.offset /\ w.offset <= Len(t)
          /\ w.pending = IF w.offset > w.base /\ ~IsRest(t, w.offset)
                         THEN <<t[w.offset]>> ELSE <<>>

Read(w) == IF w.shrunk THEN 0 ELSE w.offset

AttachedInv(f) ==
    clean[f] /\ Attached(f) =>
        /\ IsPrefix(posted[f], due[f])
        /\ text[f] # Absent =>
              /\ WatcherInv(text[f], watcher[f])
              /\ due[f] = posted[f] \o Owed(text[f], Read(watcher[f]), watcher[f].base)
              /\ thread.pc = "read" /\ thread.file = f =>
                    /\ ~watcher[f].shrunk
                    /\ watcher[f].offset < thread.len /\ thread.len <= Len(text[f])

AttachingInv(f) ==
    /\ ~Attached(f) => startup[f] = {} /\ posted[f] = <<>>
    /\ ~Attached(f) /\ ~Attaching(f) /\ thread.pc # "stopped" => due[f] = <<>>
    /\ clean[f] /\ text[f] # Absent /\ Attaching(f) =>
          /\ thread.len <= Len(text[f])
          /\ due[f] = Owed(text[f], thread.len, thread.len)

TextInv(f) ==
    /\ text[f] # Absent => IsTranscript(text[f], begun[f])
    /\ begun[f] = 0 => text[f] = Absent /\ ~Attached(f) /\ ~Attaching(f)

StartupInv(f) ==
    /\ \A x \in startup[f] : x <= begun[f]
    /\ text[f] # Absent /\ Halfway(f) => begun[f] \notin startup[f]
    /\ clean[f] => startup[f] \intersect ToSet(due[f]) = {}

Pcs == {"loop", "attach", "poll", "read", "stopped"}

TailType ==
    /\ text \in [File -> Seq(Piece) \union {Absent}]
    /\ begun \in [File -> Nat]
    /\ watchers \in Seq(File)
    /\ watcher \in [File -> Watcher \union {Absent}]
    /\ startup \in [File -> SUBSET Nat]
    /\ posted \in [File -> Seq(Nat)]
    /\ due \in [File -> Seq(Nat)]
    /\ clean \in [File -> BOOLEAN]

ThreadInv ==
    /\ thread \in [pc : Pcs, file : File \union {Absent}, len : Nat, next : Nat]
    /\ \A i \in DOMAIN watchers : Attached(watchers[i])
    /\ thread.pc \in {"poll", "read"} => thread.next \in DOMAIN watchers
    /\ thread.pc \in {"attach", "read"} => thread.file \in File
    /\ thread.pc = "attach" => ~Attached(thread.file)
    /\ thread.pc = "read" => Attached(thread.file)

FileInv(f) ==
    TextInv(f) /\ AttachedInv(f) /\ AttachingInv(f) /\ StartupInv(f)

TailInv == TailType /\ ThreadInv /\ \A f \in File : FileInv(f)

---------------------------------------------------------------------------
(* Text.                                                                   *)

LEMMA LinesType ==
    ASSUME NEW t \in Seq(Piece)
    PROVE  /\ Lines(t) \in Seq(Nat) /\ Len(Lines(t)) = Len(t) /\ Len(t) \in Nat
           /\ DOMAIN Lines(t) = 1..Len(t) /\ DOMAIN t = 1..Len(t)
           /\ \A i \in 1..Len(t) : Lines(t)[i] = t[i].line /\ t[i] \in Piece
<1>1. Len(t) \in Nat /\ DOMAIN t = 1..Len(t) /\ \A i \in 1..Len(t) : t[i] \in Piece
  BY LenProperties, ElementOfSeq
<1>2. \A i \in 1..Len(t) : t[i].line \in Nat
  BY <1>1 DEF Piece
<1>3. /\ Lines(t) \in [1..Len(t) -> Nat]
      /\ \A i \in 1..Len(t) : Lines(t)[i] = t[i].line
  BY <1>1, <1>2 DEF Lines
<1>4. Lines(t) \in Seq(Nat) /\ Len(Lines(t)) = Len(t)
  BY <1>1, <1>3, SMT
<1>. QED  BY <1>1, <1>3, <1>4

\* The places J of u are the places I of s, moved by r.
Moved(s, I, u, J, r) ==
    /\ \A j \in J : r + j \in I /\ u[j] = s[r + j]
    /\ \A i \in I : i - r \in J

\* Places that are moved together list the same.
LEMMA SublistShift ==
    ASSUME NEW s \in Seq(Nat), NEW u \in Seq(Nat),
           NEW I \in SUBSET DOMAIN s, NEW J \in SUBSET DOMAIN u, NEW r \in Int,
           Moved(s, I, u, J, r)
    PROVE  Sublist(u, J) = Sublist(s, I)
<1> DEFINE v == Sublist(u, J)
           c == Cardinality(J)
           f == [k \in 1..c |-> r + Place(J, k)]
<1>0. /\ \A j \in J : r + j \in I /\ u[j] = s[r + j]
      /\ \A i \in I : i - r \in J
  BY DEF Moved
<1>1. PICK n \in Nat : n = Len(u) /\ DOMAIN u = 1..n
  BY LenProperties
<1>2. /\ c \in Nat
      /\ \A k \in 1..c : Place(J, k) \in J
      /\ \A k, l \in 1..c : k < l => Place(J, k) < Place(J, l)
      /\ \A j \in J : \E k \in 1..c : Place(J, k) = j
  BY <1>1, PlacesInOrder
<1>3. /\ v \in Seq(Nat) /\ Len(v) = c
      /\ \A k \in 1..c : v[k] = u[Place(J, k)]
  <2>1. /\ Sublist(u, J) \in Seq(Nat) /\ Len(Sublist(u, J)) = Cardinality(J)
        /\ \A k \in 1..Cardinality(J) : Sublist(u, J)[k] = u[Place(J, k)]
    <3>. HIDE DEF v, c, f
    <3>. QED  BY SublistType
  <2>. QED  BY <2>1
<1>4. J \subseteq Int /\ I \subseteq Int
  BY <1>1, LenProperties
<1>5. Lists(f, Len(v), I)
  <2>1. f \in [1..Len(v) -> I]
    BY <1>0, <1>2, <1>3
  <2>2. \A k, l \in 1..Len(v) : k < l => f[k] < f[l]
    BY <1>2, <1>3, <1>4
  <2>3. ASSUME NEW i \in I PROVE \E k \in 1..Len(v) : f[k] = i
    <3>1. PICK k \in 1..c : Place(J, k) = i - r
      BY <1>0, <1>2
    <3>. QED  BY <3>1, <1>3, <1>4
  <2>. QED  BY <2>1, <2>2, <2>3 DEF Lists
<1>6. \A k \in 1..Len(v) : v[k] = s[f[k]]
  BY <1>0, <1>2, <1>3
<1> HIDE DEF v, f, c
<1>7. v = Sublist(s, I)
  BY <1>3, <1>5, <1>6, SublistIs
<1>. QED  BY <1>7 DEF v

LEMMA SublistNone ==
    ASSUME NEW S, NEW s \in Seq(S)
    PROVE  Sublist(s, {}) = <<>>
<1>1. Sublist(s, {}) \in Seq(S) /\ Len(Sublist(s, {})) = Cardinality({})
  BY SublistType
<1>2. Cardinality({}) = 0
  BY FS_EmptySet
<1>. QED  BY <1>1, <1>2, EmptySeq

LEMMA EndsPlaces ==
    ASSUME NEW t \in Seq(Piece), NEW o, NEW b
    PROVE  /\ Ends(t, o, b) \in SUBSET DOMAIN Lines(t)
           /\ Owed(t, o, b) \in Seq(Nat)
<1>1. Ends(t, o, b) \in SUBSET DOMAIN Lines(t)
  BY LinesType DEF Ends
<1>. QED  BY <1>1, LinesType, SublistType DEF Owed

LEMMA MaxIs ==
    ASSUME NEW S \in SUBSET Nat, NEW m \in S, \A x \in S : x <= m
    PROVE  Max(S) = m
<1>1. \A y \in S : m >= y
  OBVIOUS
<1>2. Max(S) \in S /\ \A y \in S : Max(S) >= y
  BY <1>1 DEF Max
<1>3. Max(S) \in Nat /\ Max(S) >= m /\ Max(S) <= m
  BY <1>2
<1>. QED  BY <1>3

\* The text of a transcript from some place on.
LEMMA FromIs ==
    ASSUME NEW t \in Seq(Piece), NEW r \in Nat, r <= Len(t)
    PROVE  /\ From(t, r) \in Seq(Piece) /\ Len(From(t, r)) = Len(t) - r
           /\ DOMAIN From(t, r) = 1..(Len(t) - r)
           /\ \A j \in 1..(Len(t) - r) : From(t, r)[j] = t[r + j]
BY DEF From

\* Where the last line of it ends.
LEMMA LastNewlineIs ==
    ASSUME NEW n, NEW t, IsTranscript(t, n), NEW r \in Nat, r < Len(t),
           NEW m \in Nat, m = Len(t) - r
    PROVE  LastNewline(From(t, r)) = IF IsRest(t, Len(t)) THEN m ELSE m - 1
<1> DEFINE g == From(t, r)
           S == {0} \union {i \in DOMAIN g : g[i].part = "rest"}
<1>0. t \in Seq(Piece) /\ Len(t) \in Nat
  BY DEF IsTranscript
<1>1. DOMAIN g = 1..m /\ \A j \in 1..m : g[j] = t[r + j]
  <2>1. r <= Len(t)
    BY <1>0
  <2>2. DOMAIN g = 1..(Len(t) - r) /\ \A j \in 1..(Len(t) - r) : g[j] = t[r + j]
    BY <1>0, <2>1, FromIs
  <2>. QED  BY <2>2
<1>2. S \in SUBSET Nat /\ \A x \in S : x <= m
  BY <1>1
<1>3. LastNewline(g) = Max(S)
  BY DEF LastNewline
<1>4. CASE IsRest(t, Len(t))
  <2>1. m \in S
    BY <1>0, <1>1, <1>4 DEF IsRest
  <2>. QED  BY <1>2, <1>3, <1>4, <2>1, MaxIs
<1>5. CASE ~IsRest(t, Len(t))
  <2>1. m \notin S
    BY <1>0, <1>1, <1>5 DEF IsRest
  <2>2. \A x \in S : x <= m - 1
    BY <1>0, <1>2, <2>1
  <2>3. m - 1 \in S
    <3>1. CASE m = 1
      BY <3>1
    <3>2. CASE m # 1
      <4>1. Len(t) - 1 \in 1..Len(t) /\ Len(t) - 1 < Len(t) /\ m - 1 \in 1..m
            /\ r + (m - 1) = Len(t) - 1 /\ (Len(t) - 1) + 1 = Len(t)
        BY <1>0, <3>2
      <4>2. IsRest(t, Len(t) - 1)
        BY <4>1, <1>5 DEF IsTranscript
      <4>3. g[m - 1] = t[Len(t) - 1]
        BY <4>1, <1>1
      <4>. QED  BY <4>1, <4>2, <4>3, <1>1 DEF IsRest
    <3>. QED  BY <3>1, <3>2
  <2>. QED  BY <1>2, <1>3, <1>5, <2>2, <2>3, MaxIs
<1>. QED  BY <1>4, <1>5

\* The k pieces of c are those of t behind place r.
IsPart(c, t, r, k) == Len(c) = k /\ \A j \in 1..k : c[j] = t[r + j]

\* The lines that end in this part, but not with its first piece.
EndsIn(t, r, k) == {i \in 1..Len(t) : IsRest(t, i) /\ i > r + 1 /\ i <= r + k}

\* The lines of a piece of a transcript that parse: those that end in it, but
\* not with its first piece.
LEMMA ParsedIs ==
    ASSUME NEW n, NEW t, IsTranscript(t, n), NEW r \in Nat, NEW k \in Nat,
           r + k <= Len(t), NEW c \in Seq(Piece), IsPart(c, t, r, k)
    PROVE  Parsed(c) = Sublist(Lines(t), EndsIn(t, r, k))
<1> DEFINE I == {i \in 1..Len(t) : IsRest(t, i) /\ i > r + 1 /\ i <= r + k}
           J == {i \in DOMAIN c : IsWhole(c, i)}
<1>0. Len(c) = k /\ \A j \in 1..k : c[j] = t[r + j]
  BY DEF IsPart
<1>1. t \in Seq(Piece) /\ Len(t) \in Nat
  BY LenProperties DEF IsTranscript
<1>2. /\ DOMAIN c = 1..k /\ Lines(c) \in Seq(Nat) /\ DOMAIN Lines(c) = 1..k
      /\ \A j \in 1..k : Lines(c)[j] = c[j].line
  BY <1>0, LinesType
<1>3. /\ Lines(t) \in Seq(Nat) /\ DOMAIN Lines(t) = 1..Len(t)
      /\ \A j \in 1..Len(t) : Lines(t)[j] = t[j].line
  BY <1>1, LinesType
<1>4. ASSUME NEW j \in J PROVE r + j \in I /\ Lines(c)[j] = Lines(t)[r + j]
  <2>1. j \in 1..k /\ c[j].part = "rest" /\ j > 1
    BY <1>2 DEF IsWhole
  <2>2. r + j \in 1..Len(t) /\ c[j] = t[r + j]
    BY <1>0, <1>1, <2>1
  <2>3. IsRest(t, r + j)
    BY <2>1, <2>2 DEF IsRest
  <2>4. r + j > r + 1 /\ r + j <= r + k
    BY <2>1
  <2>. QED  BY <1>2, <1>3, <2>1, <2>2, <2>3, <2>4
<1>5. ASSUME NEW i \in I PROVE i - r \in J
  <2> DEFINE j == i - r
  <2>1. j \in 1..k /\ j > 1 /\ j - 1 \in 1..k /\ r + j = i /\ r + (j - 1) = i - 1
    <3>1. i \in Nat /\ i > r + 1 /\ i <= r + k
      BY <1>1
    <3>. QED  BY <3>1
  <2>2. i - 1 \in 1..Len(t) /\ i - 1 < Len(t) /\ (i - 1) + 1 = i
    BY <1>1, <2>1
  <2>3. c[j] = t[i] /\ c[j - 1] = t[i - 1]
    BY <1>0, <2>1
  <2>4. t[i].part = "rest" /\ t[i - 1].part # "rest" /\ t[i].line = t[i - 1].line
    BY <2>2 DEF IsTranscript, IsRest
  <2>5. j = 2 \/ c[j - 2].part = "rest"
    <3>1. CASE j # 2
      <4>1. j - 2 \in 1..k /\ r + (j - 2) = i - 2
        BY <2>1, <3>1
      <4>2. i - 2 \in 1..Len(t) /\ i - 2 < Len(t) /\ (i - 2) + 1 = i - 1
        BY <2>1, <2>2, <4>1
      <4>3. t[i - 2].part = "rest"
        BY <2>4, <4>2 DEF IsTranscript, IsRest
      <4>. QED  BY <1>0, <4>1, <4>3
    <3>. QED  BY <3>1
  <2>. QED  BY <1>2, <2>1, <2>3, <2>4, <2>5 DEF IsWhole
<1>6. I \in SUBSET DOMAIN Lines(t) /\ J \in SUBSET DOMAIN Lines(c) /\ r \in Int
  BY <1>2, <1>3
<1>7. Sublist(Lines(c), J) = Sublist(Lines(t), I)
  <2>. HIDE DEF I, J
  <2>1. PICK u, v : u = Lines(c) /\ v = Lines(t)
    OBVIOUS
  <2>2. u \in Seq(Nat) /\ v \in Seq(Nat) /\ I \in SUBSET DOMAIN v /\ J \in SUBSET DOMAIN u
    BY <1>2, <1>3, <1>6, <2>1
  <2>3. Moved(v, I, u, J, r)
    BY <1>4, <1>5, <2>1 DEF Moved
  <2>4. Sublist(u, J) = Sublist(v, I)
    BY <1>6, <2>2, <2>3, SublistShift
  <2>. QED  BY <2>1, <2>4
<1>. QED  BY <1>7 DEF Parsed, EndsIn

\* What a watcher reads, joined with what was pending, is a piece of the text,
\* and the lines that end behind its first piece are those it owes.
LEMMA JoinedIs ==
    ASSUME NEW n, NEW t, IsTranscript(t, n), NEW w \in Watcher, WatcherInv(t, w),
           ~w.shrunk, w.offset < Len(t)
    PROVE  \E r \in Nat :
              /\ r < Len(t) /\ w.base <= r
              /\ w.pending \o From(t, w.offset) = From(t, r)
              /\ Ends(t, w.offset, w.base)
                   = {i \in 1..Len(t) : IsRest(t, i) /\ i > r + 1}
<1> DEFINE q == w.offset
           b == w.base
<1>1. /\ t \in Seq(Piece) /\ Len(t) \in Nat /\ q \in Nat /\ b \in Nat
      /\ b <= q /\ q < Len(t) /\ DOMAIN t = 1..Len(t)
      /\ w.pending = IF q > b /\ ~IsRest(t, q) THEN <<t[q]>> ELSE <<>>
  BY LenProperties DEF IsTranscript, WatcherInv, Watcher
<1>2. /\ From(t, q) \in Seq(Piece) /\ Len(From(t, q)) = Len(t) - q
      /\ \A j \in 1..(Len(t) - q) : From(t, q)[j] = t[q + j]
  <2>1. q <= Len(t)
    BY <1>1
  <2>. HIDE DEF q
  <2>. QED  BY <1>1, <2>1, FromIs
<1>. HIDE DEF q, b
<1>3. CASE q > b /\ ~IsRest(t, q)
  <2>1. q - 1 \in Nat /\ q - 1 < Len(t) /\ b <= q - 1 /\ q \in 1..Len(t)
    BY <1>1, <1>3
  <2>2. /\ From(t, q - 1) \in Seq(Piece) /\ Len(From(t, q - 1)) = Len(t) - (q - 1)
        /\ \A j \in 1..(Len(t) - (q - 1)) : From(t, q - 1)[j] = t[(q - 1) + j]
    <3>1. q - 1 <= Len(t)
      BY <2>1, <1>1
    <3>. QED  BY <1>1, <2>1, <3>1, FromIs
  <2>3. <<t[q]>> \o From(t, q) = From(t, q - 1)
    <3>1. t[q] \in Piece
      BY <1>1, <2>1, ElementOfSeq
    <3> DEFINE g == <<t[q]>> \o From(t, q)
    <3>2. /\ g \in Seq(Piece) /\ Len(g) = 1 + (Len(t) - q)
          /\ \A j \in 1..Len(g) : g[j] = IF j = 1 THEN t[q] ELSE From(t, q)[j - 1]
      <4>1. PICK h : h = From(t, q)
        OBVIOUS
      <4>2. h \in Seq(Piece) /\ Len(h) = Len(t) - q
        BY <1>2, <4>1
      <4>3. PICK e : e = t[q]
        OBVIOUS
      <4>4. e \in Piece
        BY <3>1, <4>3
      <4>5. /\ <<e>> \o h \in Seq(Piece) /\ Len(<<e>> \o h) = 1 + (Len(t) - q)
            /\ \A j \in 1..Len(<<e>> \o h) :
                  (<<e>> \o h)[j] = IF j = 1 THEN e ELSE h[j - 1]
        BY <4>2, <4>4
      <4>. QED  BY <4>1, <4>3, <4>5
    <3>3. ASSUME NEW j \in 1..Len(g) PROVE g[j] = From(t, q - 1)[j]
      <4>1. CASE j = 1
        <5>1. 1 \in 1..(Len(t) - (q - 1)) /\ (q - 1) + 1 = q
          BY <1>1, <2>1
        <5>. QED  BY <2>2, <3>2, <4>1, <5>1
      <4>2. CASE j # 1
        <5>1. /\ j - 1 \in 1..(Len(t) - q) /\ q + (j - 1) = (q - 1) + j
              /\ j \in 1..(Len(t) - (q - 1))
          BY <1>1, <2>1, <3>2, <4>2
        <5>. QED  BY <1>2, <2>2, <3>2, <4>2, <5>1
      <4>. QED  BY <4>1, <4>2
    <3>4. Len(g) = Len(From(t, q - 1))
      BY <1>1, <2>2, <3>2
    <3>. HIDE DEF g
    <3>5. g = From(t, q - 1)
      BY <2>2, <3>2, <3>3, <3>4, SeqEqual
    <3>. QED  BY <3>5 DEF g
  <2>4. Ends(t, q, b) = {i \in 1..Len(t) : IsRest(t, i) /\ i > (q - 1) + 1}
    BY <1>1, <2>1 DEF Ends
  <2>. QED  BY <1>1, <1>3, <2>1, <2>3, <2>4 DEF q, b
<1>4. CASE ~(q > b /\ ~IsRest(t, q))
  <2>1. <<>> \o From(t, q) = From(t, q)
    BY <1>2
  <2>2. Ends(t, q, b) = {i \in 1..Len(t) : IsRest(t, i) /\ i > q + 1}
    <3>1. CASE q = b
      BY <1>1, <3>1 DEF Ends
    <3>2. CASE q # b
      <4>1. q > b /\ IsRest(t, q) /\ q \in 1..Len(t)
        BY <1>1, <1>4, <3>2
      <4>2. ~IsRest(t, q + 1)
        BY <1>1, <4>1 DEF IsTranscript
      <4>3. ASSUME NEW i \in 1..Len(t), IsRest(t, i)
            PROVE  (i > q /\ i > b + 1) <=> i > q + 1
        <5>1. i # q + 1
          BY <4>2, <4>3
        <5>. QED  BY <1>1, <4>1, <5>1
      <4>. QED  BY <1>1, <4>3 DEF Ends
    <3>. QED  BY <3>1, <3>2
  <2>. QED  BY <1>1, <1>4, <2>1, <2>2 DEF q, b
<1>. QED  BY <1>3, <1>4

\* What is made of the text from some place on.
LEMMA CutIs ==
    ASSUME NEW n, NEW t, IsTranscript(t, n), NEW r \in Nat, r < Len(t),
           NEW got, got = From(t, r)
    PROVE  /\ Parsed(Complete(got))
                = Sublist(Lines(t), {i \in 1..Len(t) : IsRest(t, i) /\ i > r + 1})
           /\ Pending(got) = IF ~IsRest(t, Len(t)) THEN <<t[Len(t)]>> ELSE <<>>
<1>2. t \in Seq(Piece) /\ Len(t) \in Nat /\ DOMAIN t = 1..Len(t)
  BY LenProperties DEF IsTranscript
<1>3. PICK m \in Nat : m = Len(t) - r /\ m >= 1 /\ r + m = Len(t)
  <2>1. Len(t) - r \in Nat /\ Len(t) - r >= 1 /\ r + (Len(t) - r) = Len(t)
    BY <1>2
  <2>. QED  BY <2>1
<1>4. /\ got \in Seq(Piece) /\ Len(got) = m
      /\ \A j \in 1..m : got[j] = t[r + j]
  <2>1. r <= Len(t)
    BY <1>2
  <2>. QED  BY <1>2, <1>3, <2>1, FromIs
<1>5. LastNewline(got) = IF IsRest(t, Len(t)) THEN m ELSE m - 1
  BY <1>3, LastNewlineIs
<1>6. PICK k \in Nat : k = LastNewline(got) /\ k <= m
                       /\ (IsRest(t, Len(t)) => k = m)
                       /\ (~IsRest(t, Len(t)) => k = m - 1)
  <2>1. m - 1 \in Nat
    BY <1>3
  <2>. QED  BY <1>3, <1>5, <2>1
<1>7. Complete(got) = SubSeq(got, 1, k) /\ Pending(got) = SubSeq(got, k + 1, m)
  BY <1>4, <1>6 DEF Complete, Pending
<1>8. Parsed(Complete(got))
         = Sublist(Lines(t), {i \in 1..Len(t) : IsRest(t, i) /\ i > r + 1})
  <2>1. PICK c : c = SubSeq(got, 1, k)
    OBVIOUS
  <2>2. c \in Seq(Piece) /\ Len(c) = k /\ \A j \in 1..k : c[j] = got[j]
    BY <1>4, <1>6, <2>1
  <2>3. \A j \in 1..k : c[j] = t[r + j]
    BY <1>4, <1>6, <2>2
  <2>4. r + k <= Len(t)
    BY <1>2, <1>3, <1>6
  <2>5. Parsed(c) = Sublist(Lines(t), EndsIn(t, r, k))
    <3>1. IsPart(c, t, r, k)
      BY <2>2, <2>3 DEF IsPart
    <3>. QED  BY <2>2, <2>4, <3>1, ParsedIs
  <2>6. ASSUME NEW i \in 1..Len(t), IsRest(t, i) PROVE i <= r + k
    <3>1. CASE IsRest(t, Len(t))
      BY <1>2, <1>3, <1>6, <3>1
    <3>2. CASE ~IsRest(t, Len(t))
      <4>1. i # Len(t)
        BY <2>6, <3>2
      <4>2. k = m - 1
        BY <1>6, <3>2
      <4>3. PICK l \in Nat : l = Len(t) /\ i \in 1..l /\ i # l /\ r + m = l
        BY <1>2, <1>3, <4>1
      <4>. QED  BY <4>2, <4>3
    <3>. QED  BY <3>1, <3>2
  <2>7. EndsIn(t, r, k) = {i \in 1..Len(t) : IsRest(t, i) /\ i > r + 1}
    BY <2>6 DEF EndsIn
  <2>. QED  BY <1>7, <2>1, <2>5, <2>7
<1>9. CASE IsRest(t, Len(t))
  <2>1. SubSeq(got, k + 1, m) = <<>>
    BY <1>3, <1>4, <1>6, <1>9
  <2>. QED  BY <1>7, <1>8, <1>9, <2>1
<1>10. CASE ~IsRest(t, Len(t))
  <2>0. k = m - 1
    BY <1>6, <1>10
  <2>1. k + 1 = m /\ m \in 1..m /\ got[m] = t[Len(t)]
    BY <1>2, <1>3, <1>4, <2>0
  <2>2. SubSeq(got, m, m) = <<got[m]>>
    <3>1. m \in DOMAIN got
      BY <1>3, <1>4, LenProperties
    <3>2. m \in 1..Len(got) /\ got[m] \in Piece
      BY <1>3, <1>4, <3>1, ElementOfSeq
    <3>3. \A j \in m..m : got[j] \in Piece
      BY <3>2
    <3>4. /\ SubSeq(got, m, m) \in Seq(Piece) /\ Len(SubSeq(got, m, m)) = m - m + 1
          /\ \A j \in 1..(m - m + 1) : SubSeq(got, m, m)[j] = got[m + j - 1]
      BY <3>3, SubSeqProperties
    <3>5. Len(SubSeq(got, m, m)) = 1 /\ SubSeq(got, m, m)[1] = got[m]
      BY <3>4
    <3>6. PICK e, h : e = got[m] /\ h = SubSeq(got, m, m)
      OBVIOUS
    <3>7. e \in Piece /\ h \in Seq(Piece) /\ Len(h) = 1 /\ h[1] = e
      BY <3>2, <3>4, <3>5, <3>6
    <3>8. <<e>> \in Seq(Piece) /\ Len(<<e>>) = 1 /\ <<e>>[1] = e
      BY <3>7
    <3>9. h = <<e>>
      BY <3>7, <3>8, SeqEqual
    <3>. QED  BY <3>6, <3>9
  <2>. QED  BY <1>7, <1>8, <1>10, <2>1, <2>2
<1>. QED  BY <1>9, <1>10

LEMMA ReadIs ==
    ASSUME NEW n, NEW t, IsTranscript(t, n), NEW w \in Watcher, WatcherInv(t, w),
           ~w.shrunk, w.offset < Len(t), NEW got, got = w.pending \o From(t, w.offset)
    PROVE  /\ Parsed(Complete(got)) = Owed(t, w.offset, w.base)
           /\ Pending(got) = IF ~IsRest(t, Len(t)) THEN <<t[Len(t)]>> ELSE <<>>
<1>1. PICK r \in Nat :
         /\ r < Len(t) /\ got = From(t, r)
         /\ Ends(t, w.offset, w.base)
              = {i \in 1..Len(t) : IsRest(t, i) /\ i > r + 1}
  BY JoinedIs
<1>. QED  BY <1>1, CutIs DEF Owed

\* What is read is text, and lines are numbers.
LEMMA ReadTypes ==
    ASSUME NEW s \in Seq(Piece)
    PROVE  /\ Complete(s) \in Seq(Piece) /\ Pending(s) \in Seq(Piece)
           /\ Parsed(s) \in Seq(Nat)
<1> DEFINE S == {0} \union {i \in DOMAIN s : s[i].part = "rest"}
<1>1. Len(s) \in Nat /\ DOMAIN s = 1..Len(s)
  BY LenProperties
<1>2. S \in SUBSET Nat /\ S # {} /\ \A x \in S : x <= Len(s)
  BY <1>1
<1>3. PICK m \in S : \A x \in S : x <= m
  <2>. HIDE DEF S
  <2>. QED  BY <1>1, <1>2, HasGreatest
<1>4. LastNewline(s) = m /\ m \in Nat /\ m <= Len(s)
  <2>1. Max(S) = m
    <3>. HIDE DEF S
    <3>. QED  BY <1>2, <1>3, MaxIs
  <2>. QED  BY <1>2, <1>3, <2>1 DEF LastNewline
<1>5. SubSeq(s, 1, m) \in Seq(Piece) /\ SubSeq(s, m + 1, Len(s)) \in Seq(Piece)
  <2>. HIDE DEF S
  <2>. QED  BY <1>1, <1>4
<1>6. Parsed(s) \in Seq(Nat)
  <2>1. {i \in DOMAIN s : IsWhole(s, i)} \in SUBSET DOMAIN Lines(s)
    BY <1>1, LinesType
  <2>2. Lines(s) \in Seq(Nat)
    BY LinesType
  <2>. QED  BY <2>1, <2>2, SublistType DEF Parsed
<1>. QED  BY <1>4, <1>5, <1>6 DEF Complete, Pending

LEMMA FromType ==
    ASSUME NEW t \in Seq(Piece), NEW r \in Nat
    PROVE  From(t, r) \in Seq(Piece)
BY LenProperties DEF From

\* No line ends twice.
LEMMA EndsDistinct ==
    ASSUME NEW n, NEW t, IsTranscript(t, n), NEW i \in 1..Len(t), NEW j \in 1..Len(t),
           IsRest(t, i), IsRest(t, j), i < j
    PROVE  t[i].line < t[j].line
<1>1. t \in Seq(Piece) /\ Len(t) \in Nat
  BY LenProperties DEF IsTranscript
<1>2. j - 1 \in 1..Len(t) /\ j - 1 < Len(t) /\ (j - 1) + 1 = j
  BY <1>1
<1>3. ~IsRest(t, j - 1) /\ t[j].line = t[j - 1].line
  BY <1>2 DEF IsTranscript
<1>4. i # j - 1
  BY <1>3
<1>5. i < j - 1
  BY <1>1, <1>4
<1>6. t[i].line < t[j - 1].line
  BY <1>2, <1>3, <1>5 DEF IsTranscript
<1>. QED  BY <1>3, <1>6

\* All lines were begun; one that ends before a line half written is older.
LEMMA LinesBegun ==
    ASSUME NEW n, NEW t, IsTranscript(t, n), NEW i \in 1..Len(t)
    PROVE  /\ t[i].line \in Nat /\ t[i].line <= n
           /\ IsRest(t, i) /\ ~IsRest(t, Len(t)) => t[i].line < n
<1>1. t \in Seq(Piece) /\ Len(t) \in Nat /\ Len(t) \in 1..Len(t) /\ t # <<>>
  BY LenProperties DEF IsTranscript
<1>2. t[Len(t)].line = n /\ t[i].line \in Nat
  BY <1>1, LinesType DEF IsTranscript, Piece
<1>3. CASE i = Len(t)
  BY <1>2, <1>3
<1>4. CASE i # Len(t)
  <2>1. i < Len(t)
    BY <1>1, <1>4
  <2>. QED  BY <1>1, <1>2, <2>1 DEF IsTranscript
<1>. QED  BY <1>3, <1>4

---------------------------------------------------------------------------
(* How a transcript grows, and what is owed of it then.                    *)

\* A line begun goes to the end.
LEMMA BeginIs ==
    ASSUME NEW n \in Nat, NEW t, IsTranscript(t, n), t = <<>> \/ IsRest(t, Len(t)),
           NEW e \in Piece, e.line = n + 1, e.part # "rest"
    PROVE  IsTranscript(Append(t, e), n + 1)
<1>1. PICK m \in Nat : m = Len(t)
  BY LenProperties DEF IsTranscript
<1>2. /\ t \in Seq(Piece) /\ DOMAIN t = 1..m
      /\ t # <<>> => ~IsRest(t, 1) /\ t[m].line = n
      /\ \A i \in 1..m : i < m =>
            /\ IsRest(t, i + 1) <=> ~IsRest(t, i)
            /\ IsRest(t, i + 1) => t[i + 1].line = t[i].line
      /\ \A i, j \in 1..m : i < j =>
            /\ t[i].line <= t[j].line
            /\ ~IsRest(t, j) => t[i].line < t[j].line
  BY <1>1, LenProperties DEF IsTranscript
<1>3. \A i \in 1..m : t[i].line \in Nat /\ t[i].line <= n
  BY <1>1, LinesBegun
<1>4. PICK u : u = Append(t, e)
  OBVIOUS
<1>5. /\ u \in Seq(Piece) /\ Len(u) = m + 1 /\ u[m + 1] = e
      /\ \A i \in 1..m : u[i] = t[i]
  BY <1>1, <1>2, <1>4
<1>6. /\ \A i \in 1..m : IsRest(u, i) <=> IsRest(t, i)
      /\ ~IsRest(u, m + 1) /\ u[m + 1].line = n + 1
  BY <1>5 DEF IsRest
<1>7. ~IsRest(u, 1)
  <2>1. CASE m = 0
    BY <1>6, <2>1
  <2>2. CASE m # 0
    <3>1. 1 \in 1..m /\ t # <<>>
      BY <1>1, <2>2
    <3>. QED  BY <1>2, <1>6, <3>1
  <2>. QED  BY <2>1, <2>2
<1>8. ASSUME NEW i \in 1..(m + 1), i < m + 1
      PROVE  /\ IsRest(u, i + 1) <=> ~IsRest(u, i)
             /\ IsRest(u, i + 1) => u[i + 1].line = u[i].line
  <2>1. i \in 1..m
    BY <1>8
  <2>2. CASE i = m
    <3>1. t # <<>>
      BY <1>1, <2>1
    <3>. QED  BY <1>1, <1>6, <2>1, <2>2, <3>1
  <2>3. CASE i # m
    <3>1. i < m /\ i + 1 \in 1..m
      BY <2>1, <2>3
    <3>. QED  BY <1>2, <1>5, <1>6, <2>1, <3>1
  <2>. QED  BY <2>2, <2>3
<1>9. ASSUME NEW i \in 1..(m + 1), NEW j \in 1..(m + 1), i < j
      PROVE  /\ u[i].line <= u[j].line
             /\ ~IsRest(u, j) => u[i].line < u[j].line
  <2>1. i \in 1..m
    BY <1>9
  <2>2. CASE j = m + 1
    BY <1>3, <1>5, <1>6, <2>1, <2>2
  <2>3. CASE j # m + 1
    <3>1. j \in 1..m
      BY <2>3
    <3>. QED  BY <1>2, <1>5, <1>6, <1>9, <2>1, <3>1
  <2>. QED  BY <2>2, <2>3
<1>. QED  BY <1>4, <1>5, <1>6, <1>7, <1>8, <1>9 DEF IsTranscript

\* So does the rest of the last.
LEMMA FinishIs ==
    ASSUME NEW n \in Nat, NEW t, IsTranscript(t, n), t # <<>>, ~IsRest(t, Len(t)),
           NEW e \in Piece, e.line = t[Len(t)].line, e.part = "rest"
    PROVE  IsTranscript(Append(t, e), n)
<1>1. PICK m \in Nat : m = Len(t) /\ m \in 1..m
  <2>1. Len(t) \in Nat /\ Len(t) \in 1..Len(t)
    BY LenProperties DEF IsTranscript
  <2>. QED  BY <2>1
<1>2. /\ t \in Seq(Piece) /\ DOMAIN t = 1..m
      /\ ~IsRest(t, 1) /\ t[m].line = n
      /\ \A i \in 1..m : i < m =>
            /\ IsRest(t, i + 1) <=> ~IsRest(t, i)
            /\ IsRest(t, i + 1) => t[i + 1].line = t[i].line
      /\ \A i, j \in 1..m : i < j =>
            /\ t[i].line <= t[j].line
            /\ ~IsRest(t, j) => t[i].line < t[j].line
  BY <1>1, LenProperties DEF IsTranscript
<1>3. \A i \in 1..m : t[i].line \in Nat /\ t[i].line <= n
  BY <1>1, LinesBegun
<1>4. PICK u : u = Append(t, e)
  OBVIOUS
<1>5. /\ u \in Seq(Piece) /\ Len(u) = m + 1 /\ u[m + 1] = e
      /\ \A i \in 1..m : u[i] = t[i]
  BY <1>1, <1>2, <1>4
<1>6. /\ \A i \in 1..m : IsRest(u, i) <=> IsRest(t, i)
      /\ IsRest(u, m + 1) /\ u[m + 1].line = n /\ ~IsRest(t, m)
  BY <1>1, <1>2, <1>5 DEF IsRest
<1>7. ~IsRest(u, 1)
  <2>1. 1 \in 1..m
    BY <1>1
  <2>. QED  BY <1>2, <1>6, <2>1
<1>8. ASSUME NEW i \in 1..(m + 1), i < m + 1
      PROVE  /\ IsRest(u, i + 1) <=> ~IsRest(u, i)
             /\ IsRest(u, i + 1) => u[i + 1].line = u[i].line
  <2>1. i \in 1..m
    BY <1>8
  <2>2. CASE i = m
    BY <1>2, <1>5, <1>6, <2>1, <2>2
  <2>3. CASE i # m
    <3>1. i < m /\ i + 1 \in 1..m
      BY <2>1, <2>3
    <3>. QED  BY <1>2, <1>5, <1>6, <2>1, <3>1
  <2>. QED  BY <2>2, <2>3
<1>9. ASSUME NEW i \in 1..(m + 1), NEW j \in 1..(m + 1), i < j
      PROVE  /\ u[i].line <= u[j].line
             /\ ~IsRest(u, j) => u[i].line < u[j].line
  <2>1. i \in 1..m
    BY <1>9
  <2>2. CASE j = m + 1
    BY <1>3, <1>5, <1>6, <2>1, <2>2
  <2>3. CASE j # m + 1
    <3>1. j \in 1..m
      BY <2>3
    <3>. QED  BY <1>2, <1>5, <1>6, <1>9, <2>1, <3>1
  <2>. QED  BY <2>2, <2>3
<1>10. u # <<>> /\ u[Len(u)].line = n
  BY <1>5, <1>6
<1>. QED  BY <1>4, <1>5, <1>7, <1>8, <1>9, <1>10 DEF IsTranscript

LEMMA EmptyIs ==
    ASSUME NEW n
    PROVE  IsTranscript(<<>>, n)
BY DEF IsTranscript

LEMMA LinesAppend ==
    ASSUME NEW t \in Seq(Piece), NEW e \in Piece
    PROVE  Lines(Append(t, e)) = Append(Lines(t), e.line)
<1>1. PICK u, l : u = Append(t, e) /\ l = Lines(t)
  OBVIOUS
<1>2. PICK m \in Nat : m = Len(t)
  BY LenProperties
<1>3. u \in Seq(Piece) /\ Len(u) = m + 1 /\ u[m + 1] = e /\ \A i \in 1..m : u[i] = t[i]
  BY <1>1, <1>2
<1>4. l \in Seq(Nat) /\ Len(l) = m /\ \A i \in 1..m : l[i] = t[i].line
  BY <1>1, <1>2, LinesType
<1>5. e.line \in Nat
  BY DEF Piece
<1>6. /\ Append(l, e.line) \in Seq(Nat) /\ Len(Append(l, e.line)) = m + 1
      /\ Append(l, e.line)[m + 1] = e.line
      /\ \A i \in 1..m : Append(l, e.line)[i] = l[i]
  BY <1>4, <1>5
<1>7. /\ Lines(u) \in Seq(Nat) /\ Len(Lines(u)) = m + 1
      /\ \A i \in 1..(m + 1) : Lines(u)[i] = u[i].line
  BY <1>3, LinesType
<1>8. \A i \in 1..(m + 1) : Lines(u)[i] = Append(l, e.line)[i]
  <2>1. \A i \in 1..(m + 1) : i \in 1..m \/ i = m + 1
    BY <1>2
  <2>. QED  BY <1>3, <1>4, <1>6, <1>7, <2>1
<1>9. Lines(u) = Append(l, e.line)
  BY <1>6, <1>7, <1>8, SeqEqual
<1>. QED  BY <1>1, <1>9

LEMMA NumbersAppend ==
    ASSUME NEW l \in Seq(Nat), NEW x \in Nat, NEW I \in SUBSET DOMAIN l
    PROVE  /\ Sublist(Append(l, x), I) = Sublist(l, I)
           /\ Sublist(Append(l, x), I \union {Len(l) + 1}) = Append(Sublist(l, I), x)
BY SublistAppend

\* What is owed when a piece comes: the line that it ends, if it was begun
\* behind the base.
LEMMA OwedGrows ==
    ASSUME NEW t \in Seq(Piece), NEW e \in Piece, NEW o \in Nat, NEW b \in Nat,
           o <= Len(t)
    PROVE  Owed(Append(t, e), o, b)
              = IF e.part = "rest" /\ Len(t) > b
                THEN Append(Owed(t, o, b), e.line) ELSE Owed(t, o, b)
<1>1. PICK u, l : u = Append(t, e) /\ l = Lines(t)
  OBVIOUS
<1>2. PICK m \in Nat : m = Len(t) /\ DOMAIN t = 1..m
  BY LenProperties
<1>3. /\ u \in Seq(Piece) /\ Len(u) = m + 1 /\ DOMAIN u = 1..(m + 1)
      /\ u[m + 1] = e /\ \A i \in 1..m : u[i] = t[i]
  BY <1>1, <1>2
<1>4. l \in Seq(Nat) /\ Len(l) = m /\ e.line \in Nat /\ Lines(u) = Append(l, e.line)
  <2>1. e.line \in Nat
    BY DEF Piece
  <2>. QED  BY <1>1, <1>2, <2>1, LinesType, LinesAppend
<1>5. Ends(t, o, b) \in SUBSET DOMAIN l
  BY <1>1, EndsPlaces
<1>6. \A i \in 1..(m + 1) : i \in 1..m \/ i = m + 1
  BY <1>2
<1>7. PICK I, x : I = Ends(t, o, b) /\ x = e.line
  OBVIOUS
<1>8. /\ Sublist(Append(l, x), I) = Sublist(l, I)
      /\ Sublist(Append(l, x), I \union {m + 1}) = Append(Sublist(l, I), x)
  <2>1. x \in Nat /\ I \in SUBSET DOMAIN l /\ l \in Seq(Nat) /\ Len(l) = m
    BY <1>4, <1>5, <1>7
  <2>2. PICK a, k : a = Append(l, x) /\ k = Len(l) + 1
    OBVIOUS
  <2>3. Sublist(a, I) = Sublist(l, I) /\ Sublist(a, I \union {k}) = Append(Sublist(l, I), x)
    BY <2>1, <2>2, NumbersAppend
  <2>. QED  BY <2>1, <2>2, <2>3
<1>9. CASE e.part = "rest" /\ m > b
  <2>1. Ends(u, o, b) = Ends(t, o, b) \union {m + 1}
    BY <1>2, <1>3, <1>6, <1>9 DEF Ends, IsRest
  <2>. QED  BY <1>1, <1>2, <1>4, <1>7, <1>8, <1>9, <2>1 DEF Owed
<1>10. CASE ~(e.part = "rest" /\ m > b)
  <2>1. Ends(u, o, b) = Ends(t, o, b)
    BY <1>2, <1>3, <1>6, <1>10 DEF Ends, IsRest
  <2>. QED  BY <1>1, <1>2, <1>4, <1>7, <1>8, <1>10, <2>1 DEF Owed
<1>. QED  BY <1>9, <1>10

\* Nothing is owed at the end.
LEMMA OwedNone ==
    ASSUME NEW t \in Seq(Piece), NEW o \in Nat, NEW b, Len(t) <= o
    PROVE  Owed(t, o, b) = <<>>
<1>1. Ends(t, o, b) = {}
  BY LenProperties DEF Ends
<1>2. Lines(t) \in Seq(Nat)
  BY LinesType
<1>. QED  BY <1>1, <1>2, SublistNone DEF Owed

LEMMA WatcherGrows ==
    ASSUME NEW t \in Seq(Piece), NEW e \in Piece, NEW w \in Watcher, WatcherInv(t, w)
    PROVE  WatcherInv(Append(t, e), w)
<1>1. PICK u : u = Append(t, e)
  OBVIOUS
<1>2. PICK m \in Nat : m = Len(t)
  BY LenProperties
<1>3. Len(u) = m + 1 /\ \A i \in 1..m : u[i] = t[i]
  BY <1>1, <1>2
<1>4. w.offset \in Nat /\ w.base \in Nat
  BY DEF Watcher
<1>5. CASE w.shrunk
  BY <1>1, <1>5 DEF WatcherInv
<1>6. CASE ~w.shrunk
  <2>1. /\ w.base <= w.offset /\ w.offset <= m
        /\ w.pending = IF w.offset > w.base /\ ~IsRest(t, w.offset)
                       THEN <<t[w.offset]>> ELSE <<>>
    BY <1>2, <1>6 DEF WatcherInv
  <2>2. w.offset <= m + 1
    BY <1>4, <2>1
  <2>3. w.offset > w.base => u[w.offset] = t[w.offset]
    BY <1>3, <1>4, <2>1
  <2>4. w.pending = IF w.offset > w.base /\ ~IsRest(u, w.offset)
                    THEN <<u[w.offset]>> ELSE <<>>
    BY <2>1, <2>3 DEF IsRest
  <2>. QED  BY <1>1, <1>3, <1>6, <2>1, <2>2, <2>4 DEF WatcherInv
<1>. QED  BY <1>5, <1>6

---------------------------------------------------------------------------
(* What is replayed on attaching.                                          *)

\* A sublist has elements of the list only.
LEMMA SublistElements ==
    ASSUME NEW s \in Seq(Nat), NEW I \in SUBSET DOMAIN s
    PROVE  /\ Sublist(s, I) \in Seq(Nat)
           /\ \A x \in ToSet(Sublist(s, I)) : \E i \in I : s[i] = x
           /\ ToSet(Sublist(s, I)) \subseteq ToSet(s)
<1>1. /\ Sublist(s, I) \in Seq(Nat)
      /\ DOMAIN Sublist(s, I) = 1..Cardinality(I)
      /\ \A k \in 1..Cardinality(I) : /\ Place(I, k) \in I
                                      /\ Sublist(s, I)[k] = s[Place(I, k)]
  BY SublistType
<1>. QED  BY <1>1 DEF ToSet

LEMMA WithoutNone ==
    ASSUME NEW s \in Seq(Nat)
    PROVE  Without(s, {}) = s
<1>1. DOMAIN s \ {} = DOMAIN s
  OBVIOUS
<1>2. Sublist(s, DOMAIN s) = s
  BY SublistAll
<1>. QED  BY <1>1, <1>2 DEF Without

LEMMA WithoutIs ==
    ASSUME NEW s \in Seq(Nat), NEW lost
    PROVE  /\ Without(s, lost) \in Seq(Nat)
           /\ ToSet(Without(s, lost)) \subseteq ToSet(s)
<1>1. DOMAIN s \ lost \in SUBSET DOMAIN s
  OBVIOUS
<1>. QED  BY <1>1, SublistElements DEF Without

LEMMA ReplayedIs ==
    ASSUME NEW s \in Seq(Nat)
    PROVE  Replayed(s) \in Seq(Nat) /\ ToSet(Replayed(s)) \subseteq ToSet(s)
<1>1. {i \in DOMAIN s : s[i] \in Context} \in SUBSET DOMAIN s
  OBVIOUS
<1>2. CASE IncludeHistory
  BY <1>2 DEF Replayed
<1>3. CASE ~IncludeHistory
  <2>1. PICK I \in SUBSET DOMAIN s : I = {i \in DOMAIN s : s[i] \in Context}
    BY <1>1
  <2>2. Replayed(s) = Sublist(s, I)
    BY <1>3, <2>1 DEF Replayed
  <2>3. Sublist(s, I) \in Seq(Nat) /\ ToSet(Sublist(s, I)) \subseteq ToSet(s)
    BY SublistElements
  <2>. QED  BY <2>2, <2>3
<1>. QED  BY <1>2, <1>3

LEMMA PrefixIs ==
    ASSUME NEW t \in Seq(Piece), NEW len \in Nat
    PROVE  \E k \in Nat : /\ k <= len /\ k <= Len(t) /\ Prefix(t, len) = SubSeq(t, 1, k)
                          /\ Prefix(t, len) \in Seq(Piece) /\ Len(Prefix(t, len)) = k
                          /\ \A j \in 1..k : Prefix(t, len)[j] = t[j]
<1>1. PICK m \in Nat : m = Len(t)
  BY LenProperties
<1>2. \E x \in {len, m} : \A y \in {len, m} : x <= y
  <2>1. len <= m \/ m <= len
    BY <1>1
  <2>. QED  BY <1>1, <2>1
<1>3. Min({len, m}) \in {len, m} /\ \A y \in {len, m} : Min({len, m}) <= y
  BY <1>2 DEF Min
<1>4. PICK k \in Nat : k = Min({len, m}) /\ k <= len /\ k <= m
  BY <1>1, <1>3
<1>5. /\ SubSeq(t, 1, k) \in Seq(Piece) /\ Len(SubSeq(t, 1, k)) = k
      /\ \A j \in 1..k : SubSeq(t, 1, k)[j] = t[j]
  <2>1. \A j \in 1..k : t[j] \in Piece
    BY <1>1, <1>4, ElementOfSeq
  <2>2. /\ SubSeq(t, 1, k) \in Seq(Piece)
        /\ Len(SubSeq(t, 1, k)) = IF 1 <= k THEN k - 1 + 1 ELSE 0
        /\ \A j \in 1..(k - 1 + 1) : SubSeq(t, 1, k)[j] = t[1 + j - 1]
    BY <2>1, SubSeqProperties
  <2>. QED  BY <2>2
<1>. QED  BY <1>1, <1>4, <1>5 DEF Prefix

LEMMA ParsedFromStart ==
    ASSUME NEW n, NEW t, IsTranscript(t, n), NEW k \in Nat, k <= Len(t),
           NEW c \in Seq(Piece), Len(c) = k, \A j \in 1..k : c[j] = t[j]
    PROVE  Parsed(c) = Sublist(Lines(t), {i \in 1..Len(t) :
                                            IsRest(t, i) /\ i > 1 /\ i <= k})
<1>1. PICK r \in Nat : r = 0
  OBVIOUS
<1>2. r + k <= Len(t) /\ IsPart(c, t, r, k)
  BY <1>1 DEF IsPart
<1>3. Parsed(c) = Sublist(Lines(t), EndsIn(t, r, k))
  BY <1>2, ParsedIs
<1>4. EndsIn(t, r, k) = {i \in 1..Len(t) : IsRest(t, i) /\ i > 1 /\ i <= k}
  BY <1>1 DEF EndsIn
<1>. QED  BY <1>3, <1>4

\* Only lines that ended before the boundary are replayed.
LEMMA StartupIs ==
    ASSUME NEW n, NEW t, IsTranscript(t, n), NEW len \in Nat, NEW lost,
           NEW told, told = Replayed(Parsed(Prefix(t, len)))
    PROVE  /\ ToSet(Without(told, lost)) \subseteq Nat
           /\ \A x \in ToSet(Without(told, lost)) : \E i \in 1..Len(t) :
                 i <= len /\ IsRest(t, i) /\ t[i].line = x
<1>1. t \in Seq(Piece) /\ DOMAIN t = 1..Len(t)
  BY LenProperties DEF IsTranscript
<1>0. PICK c : c = Prefix(t, len)
  OBVIOUS
<1>2. PICK k \in Nat :
         /\ k <= len /\ k <= Len(t)
         /\ c \in Seq(Piece) /\ Len(c) = k /\ \A j \in 1..k : c[j] = t[j]
  BY <1>0, <1>1, PrefixIs
<1> DEFINE I == {i \in 1..Len(t) : IsRest(t, i) /\ i > 1 /\ i <= k}
<1>3. Parsed(c) = Sublist(Lines(t), I)
  BY <1>2, ParsedFromStart
<1>4. /\ Lines(t) \in Seq(Nat) /\ I \in SUBSET DOMAIN Lines(t)
      /\ \A i \in I : Lines(t)[i] = t[i].line /\ i <= len
  <2>1. /\ Lines(t) \in Seq(Nat) /\ DOMAIN Lines(t) = 1..Len(t)
        /\ \A i \in 1..Len(t) : Lines(t)[i] = t[i].line
    BY <1>1, LinesType
  <2>. QED  BY <1>2, <2>1
<1>5. PICK l : l = Lines(t)
  OBVIOUS
<1> HIDE DEF I
<1>6. l \in Seq(Nat) /\ I \in SUBSET DOMAIN l /\ Parsed(c) = Sublist(l, I)
  BY <1>3, <1>4, <1>5
<1>7. Parsed(c) \in Seq(Nat) /\ \A x \in ToSet(Parsed(c)) : \E i \in I : l[i] = x
  BY <1>6, SublistElements
<1>8. told \in Seq(Nat) /\ ToSet(told) \subseteq ToSet(Parsed(c))
  BY <1>0, <1>7, ReplayedIs
<1>9. Without(told, lost) \in Seq(Nat) /\ ToSet(Without(told, lost)) \subseteq ToSet(told)
  BY <1>8, WithoutIs
<1>10. ToSet(Without(told, lost)) \subseteq Nat
  <2>1. \A v \in Seq(Nat) : ToSet(v) \subseteq Nat
    BY ElementOfSeq, LenProperties DEF ToSet
  <2>. QED  BY <1>9, <2>1
<1>11. ASSUME NEW x \in ToSet(Without(told, lost))
       PROVE  \E i \in 1..Len(t) : i <= len /\ IsRest(t, i) /\ t[i].line = x
  <2>1. PICK i \in I : l[i] = x
    BY <1>7, <1>8, <1>9
  <2>2. i \in 1..Len(t) /\ IsRest(t, i)
    BY DEF I
  <2>. QED  BY <1>4, <1>5, <2>1, <2>2
<1>. QED  BY <1>10, <1>11

---------------------------------------------------------------------------
(* Steps.                                                                  *)

\* Nothing happens to f.
Same(f) ==
    /\ text'[f] = text[f] /\ begun'[f] = begun[f] /\ watcher'[f] = watcher[f]
    /\ startup'[f] = startup[f] /\ posted'[f] = posted[f] /\ due'[f] = due[f]
    /\ clean'[f] = clean[f]

\* The thread begins nothing with f.
Elsewhere(f) ==
    /\ Attaching(f)' => Attaching(f) /\ thread'.len = thread.len
    /\ ~Attaching(f)' /\ thread'.pc # "stopped" =>
          ~Attaching(f) /\ thread.pc # "stopped"
    /\ thread'.pc = "read" /\ thread'.file = f =>
          thread.pc = "read" /\ thread.file = f /\ thread'.len = thread.len

LEMMA FileKept ==
    ASSUME NEW f \in File, FileInv(f), Same(f), Elsewhere(f)
    PROVE  FileInv(f)'
<1>1. TextInv(f)' /\ StartupInv(f)'
  BY DEF FileInv, TextInv, StartupInv, Same, Halfway, Elsewhere, Attached
<1>2. AttachedInv(f)'
  BY DEF FileInv, AttachedInv, Same, Elsewhere, Attached
<1>3. AttachingInv(f)'
  BY DEF FileInv, AttachingInv, Same, Elsewhere, Attached
<1>. QED  BY <1>1, <1>2, <1>3 DEF FileInv

LEMMA SameThread ==
    ASSUME NEW f, thread' = thread
    PROVE  Elsewhere(f)
BY DEF Elsewhere, Attaching

LEMMA ThreadKept ==
    ASSUME ThreadInv, thread' = thread, watchers' = watchers,
           \A f \in File : Attached(f)' <=> Attached(f), TailType
    PROVE  ThreadInv'
<1>1. \A i \in DOMAIN watchers : watchers[i] \in File
  BY ElementOfSeq, LenProperties DEF TailType
<1>. QED  BY <1>1 DEF ThreadInv

LEMMA TailInitially == TailInit => TailInv
<1>. SUFFICES ASSUME TailInit PROVE TailInv
  OBVIOUS
<1>. USE DEF TailInit
<1>1. TailType
  BY DEF TailType
<1>2. ThreadInv
  BY DEF ThreadInv, Pcs
<1>3. ASSUME NEW f \in File PROVE FileInv(f)
  <2>1. TextInv(f)
    BY <1>3 DEF TextInv, Attached, Attaching
  <2>2. AttachedInv(f)
    BY <1>3 DEF AttachedInv, Attached
  <2>3. AttachingInv(f)
    BY <1>3 DEF AttachingInv, Attached, Attaching
  <2>4. StartupInv(f)
    BY <1>3 DEF StartupInv
  <2>. QED  BY <2>1, <2>2, <2>3, <2>4 DEF FileInv
<1>. QED  BY <1>1, <1>2, <1>3 DEF TailInv

\* A list begins with what it was put together from.
LEMMA PrefixConcat ==
    ASSUME NEW s \in Seq(Nat), NEW u \in Seq(Nat)
    PROVE  IsPrefix(s, s \o u)
<1>0. PICK v : v = s \o u
  OBVIOUS
<1>1. PICK m \in Nat : m = Len(s)
  BY LenProperties
<1>2. /\ v \in Seq(Nat) /\ Len(v) = m + Len(u) /\ Len(u) \in Nat
      /\ \A i \in 1..m : v[i] = s[i]
  BY <1>0, <1>1, ConcatProperties, LenProperties
<1>3. \A i \in 1..m : s[i] \in Nat /\ v[i] \in Nat
  BY <1>1, <1>2, ElementOfSeq
<1>4. /\ SubSeq(s, 1, m) \in Seq(Nat) /\ Len(SubSeq(s, 1, m)) = m
      /\ \A i \in 1..m : SubSeq(s, 1, m)[i] = s[i]
  BY <1>1, <1>3
<1>5. /\ SubSeq(v, 1, m) \in Seq(Nat) /\ Len(SubSeq(v, 1, m)) = m
      /\ \A i \in 1..m : SubSeq(v, 1, m)[i] = v[i]
  <2>1. m <= Len(v)
    BY <1>2
  <2>. QED  BY <1>2, <1>3, <2>1
<1>6. SubSeq(s, 1, m) = SubSeq(v, 1, m)
  <2>1. PICK a, b : a = SubSeq(s, 1, m) /\ b = SubSeq(v, 1, m)
    OBVIOUS
  <2>2. a \in Seq(Nat) /\ b \in Seq(Nat) /\ Len(a) = Len(b)
        /\ \A i \in 1..Len(a) : a[i] = b[i]
    BY <1>2, <1>4, <1>5, <2>1
  <2>. QED  BY <2>1, <2>2, SeqEqual
<1>7. Len(s) <= Len(v)
  BY <1>1, <1>2
<1>. QED  BY <1>0, <1>1, <1>6, <1>7 DEF IsPrefix

LEMMA AppendConcat ==
    ASSUME NEW p \in Seq(Nat), NEW o \in Seq(Nat), NEW x \in Nat
    PROVE  p \o Append(o, x) = Append(p \o o, x)
OBVIOUS

\* A piece more does no harm to what the watcher of f owes.
LEMMA Grown ==
    ASSUME NEW f \in File, TailType, ThreadInv, FileInv(f),
           NEW t, text[f] = t, t # Absent, NEW e \in Piece, text'[f] = Append(t, e),
           due'[f] = IF e.part = "rest" /\ (Attached(f) \/ Attaching(f))
                                        /\ Len(t) > Base(f)
                     THEN Append(due[f], e.line) ELSE due[f],
           UNCHANGED <<watcher, thread, startup, posted, clean>>
    PROVE  AttachedInv(f)' /\ AttachingInv(f)'
<1>1. /\ t \in Seq(Piece) /\ Len(t) \in Nat /\ e.line \in Nat
      /\ Append(t, e) \in Seq(Piece) /\ Len(Append(t, e)) = Len(t) + 1
      /\ posted[f] \in Seq(Nat) /\ thread.len \in Nat
  BY LenProperties DEF TailType, ThreadInv, Piece
<1>2. ASSUME clean[f], Attached(f)
      PROVE  /\ IsPrefix(posted[f], due'[f])
             /\ WatcherInv(Append(t, e), watcher[f])
             /\ due'[f] = posted[f] \o Owed(Append(t, e), Read(watcher[f]), watcher[f].base)
             /\ thread.pc = "read" /\ thread.file = f =>
                   /\ ~watcher[f].shrunk
                   /\ watcher[f].offset < thread.len
                   /\ thread.len <= Len(Append(t, e))
  <2>1. PICK w \in Watcher : w = watcher[f]
    BY <1>2 DEF TailType, Attached
  <2>2. /\ WatcherInv(t, w)
        /\ due[f] = posted[f] \o Owed(t, Read(w), w.base)
        /\ thread.pc = "read" /\ thread.file = f =>
              ~w.shrunk /\ w.offset < thread.len /\ thread.len <= Len(t)
    BY <1>2, <2>1 DEF FileInv, AttachedInv
  <2>3. ~Attaching(f) /\ Base(f) = w.base
    BY <1>2, <2>1 DEF ThreadInv, Attaching, Base
  <2>4. w.base \in Nat /\ Read(w) \in Nat /\ Read(w) <= Len(t)
    BY <1>1, <2>2 DEF Watcher, Read, WatcherInv
  <2>5. PICK o : o = Owed(t, Read(w), w.base)
    OBVIOUS
  <2>6. o \in Seq(Nat)
    BY <1>1, <2>5, EndsPlaces
  <2>7. Owed(Append(t, e), Read(w), w.base)
          = IF e.part = "rest" /\ Len(t) > w.base THEN Append(o, e.line) ELSE o
    <3>1. PICK r, b : r = Read(w) /\ b = w.base
      OBVIOUS
    <3>2. r \in Nat /\ b \in Nat /\ r <= Len(t)
      BY <2>4, <3>1
    <3>3. Owed(Append(t, e), r, b)
            = IF e.part = "rest" /\ Len(t) > b
              THEN Append(Owed(t, r, b), e.line) ELSE Owed(t, r, b)
      BY <1>1, <3>2, OwedGrows
    <3>. QED  BY <2>5, <3>1, <3>3
  <2>8. posted[f] \o Append(o, e.line) = Append(posted[f] \o o, e.line)
    <3>1. PICK p, x : p = posted[f] /\ x = e.line
      OBVIOUS
    <3>2. p \in Seq(Nat) /\ x \in Nat
      BY <1>1, <3>1
    <3>3. p \o Append(o, x) = Append(p \o o, x)
      BY <2>6, <3>2, AppendConcat
    <3>. QED  BY <3>1, <3>3
  <2>9. due'[f] = posted[f] \o Owed(Append(t, e), Read(w), w.base)
    <3>1. CASE e.part = "rest" /\ Len(t) > w.base
      <4>1. due'[f] = Append(due[f], e.line)
        BY <1>2, <2>3, <3>1
      <4>. QED  BY <2>2, <2>5, <2>7, <2>8, <3>1, <4>1
    <3>2. CASE ~(e.part = "rest" /\ Len(t) > w.base)
      <4>1. due'[f] = due[f]
        BY <1>2, <2>3, <3>2
      <4>. QED  BY <2>2, <2>5, <2>7, <3>2, <4>1
    <3>. QED  BY <3>1, <3>2
  <2>10. IsPrefix(posted[f], due'[f])
    <3>1. Owed(Append(t, e), Read(w), w.base) \in Seq(Nat)
      BY <1>1, EndsPlaces
    <3>. QED  BY <1>1, <2>9, <3>1, PrefixConcat
  <2>11. WatcherInv(Append(t, e), w)
    BY <1>1, <2>2, WatcherGrows
  <2>12. thread.len <= Len(t) => thread.len <= Len(Append(t, e))
    BY <1>1
  <2>. QED  BY <2>1, <2>2, <2>9, <2>10, <2>11, <2>12
<1>3. AttachedInv(f)'
  BY <1>2 DEF AttachedInv, Attached
<1>4. AttachingInv(f)'
  <2>1. ~Attached(f) => startup[f] = {} /\ posted[f] = <<>>
    BY DEF FileInv, AttachingInv
  <2>2. ~Attached(f) /\ ~Attaching(f) /\ thread.pc # "stopped" => due'[f] = <<>>
    BY DEF FileInv, AttachingInv
  <2>3. ASSUME clean[f], Attaching(f)
        PROVE  /\ thread.len <= Len(Append(t, e))
               /\ due'[f] = Owed(Append(t, e), thread.len, thread.len)
    <3>1. thread.len <= Len(t) /\ due[f] = Owed(t, thread.len, thread.len)
      BY <2>3 DEF FileInv, AttachingInv
    <3>2. Base(f) = thread.len
      BY <2>3 DEF Base
    <3>3. Owed(Append(t, e), thread.len, thread.len)
            = IF e.part = "rest" /\ Len(t) > thread.len
              THEN Append(Owed(t, thread.len, thread.len), e.line)
              ELSE Owed(t, thread.len, thread.len)
      BY <1>1, <3>1, OwedGrows
    <3>4. thread.len <= Len(Append(t, e))
      BY <1>1, <3>1
    <3>5. CASE e.part = "rest" /\ Len(t) > thread.len
      BY <2>3, <3>1, <3>2, <3>3, <3>4, <3>5
    <3>6. CASE ~(e.part = "rest" /\ Len(t) > thread.len)
      BY <2>3, <3>1, <3>2, <3>3, <3>4, <3>6
    <3>. QED  BY <3>5, <3>6
  <2>. QED  BY <2>1, <2>2, <2>3 DEF AttachingInv, Attached, Attaching
<1>. QED  BY <1>3, <1>4

LEMMA BeginStep ==
    ASSUME TailInv, NEW f \in File, Begin(f)
    PROVE  TailInv'
<1>1. TailType /\ ThreadInv /\ \A g \in File : FileInv(g)
  BY DEF TailInv
<1>2. /\ begun' = [begun EXCEPT ![f] = @ + 1]
      /\ text[f] = Absent => begun[f] = 0
      /\ text[f] # Absent => ~Halfway(f)
      /\ UNCHANGED <<due, watchers, watcher, thread, startup, posted, clean>>
  BY DEF Begin
<1>3. PICK part \in {"head", "split"} :
         text' = [text EXCEPT ![f] = Append(IF @ = Absent THEN <<>> ELSE @,
                                            [line |-> begun'[f], part |-> part])]
  BY DEF Begin
<1>4. /\ begun[f] \in Nat /\ begun'[f] = begun[f] + 1
      /\ text \in [File -> Seq(Piece) \union {Absent}]
  BY <1>1, <1>2 DEF TailType
<1>5. PICK t : t = IF text[f] = Absent THEN <<>> ELSE text[f]
  OBVIOUS
<1>6. PICK e : e = [line |-> begun'[f], part |-> part]
  OBVIOUS
<1>7. e \in Piece /\ e.line = begun[f] + 1 /\ e.part # "rest"
  BY <1>4, <1>6 DEF Piece
<1>8. text'[f] = Append(t, e) /\ \A g \in File : g # f => text'[g] = text[g]
  BY <1>3, <1>4, <1>5, <1>6
<1>9. IsTranscript(t, begun[f]) /\ (t = <<>> \/ IsRest(t, Len(t)))
  <2>1. CASE text[f] = Absent
    BY <1>5, <2>1, EmptyIs
  <2>2. CASE text[f] # Absent
    BY <1>1, <1>2, <1>5, <2>2 DEF FileInv, TextInv, Halfway, IsRest, Last
  <2>. QED  BY <2>1, <2>2
<1>10. IsTranscript(text'[f], begun'[f]) /\ text'[f] \in Seq(Piece)
  <2>1. IsTranscript(Append(t, e), begun[f] + 1)
    BY <1>4, <1>7, <1>9, BeginIs
  <2>. QED  BY <1>4, <1>8, <2>1 DEF IsTranscript
<1>11. text'[f] # Absent /\ t \in Seq(Piece)
  BY <1>9, <1>10, AbsentAssumption DEF IsTranscript
<1>12. TailType'
  <2>1. text' \in [File -> Seq(Piece) \union {Absent}]
    BY <1>3, <1>4, <1>8, <1>10
  <2>2. begun' \in [File -> Nat]
    BY <1>1, <1>2, <1>4 DEF TailType
  <2>. QED  BY <1>1, <1>2, <2>1, <2>2 DEF TailType
<1>13. ThreadInv'
  <2>1. \A g \in File : Attached(g)' <=> Attached(g)
    BY <1>2 DEF Attached
  <2>. QED  BY <1>1, <1>2, <2>1, ThreadKept
<1>14. FileInv(f)'
  <2>1. TextInv(f)'
    BY <1>4, <1>10 DEF TextInv
  <2>2. StartupInv(f)'
    BY <1>1, <1>2, <1>4 DEF FileInv, StartupInv, TailType
  <2>3. CASE text[f] = Absent
    <3>1. ~Attached(f) /\ ~Attaching(f)
      BY <1>1, <1>2, <2>3 DEF FileInv, TextInv
    <3>2. AttachedInv(f)' /\ AttachingInv(f)'
      BY <1>1, <1>2, <3>1 DEF FileInv, AttachedInv, AttachingInv, Attached, Attaching
    <3>. QED  BY <2>1, <2>2, <3>2 DEF FileInv
  <2>4. CASE text[f] # Absent
    <3>1. text[f] = t /\ t # Absent
      BY <1>5, <2>4
    <3>2. due'[f] = due[f]
      BY <1>2
    <3>3. AttachedInv(f)' /\ AttachingInv(f)'
      BY <1>1, <1>2, <1>7, <1>8, <3>1, <3>2, Grown
    <3>. QED  BY <2>1, <2>2, <3>3 DEF FileInv
  <2>. QED  BY <2>3, <2>4
<1>15. ASSUME NEW g \in File, g # f PROVE FileInv(g)'
  <2>1. Same(g) /\ Elsewhere(g)
    BY <1>2, <1>4, <1>8, <1>15, <1>1, SameThread DEF Same, TailType
  <2>. QED  BY <1>1, <2>1, FileKept
<1>. QED  BY <1>12, <1>13, <1>14, <1>15 DEF TailInv

LEMMA ToSetAppend ==
    ASSUME NEW s \in Seq(Nat), NEW x \in Nat
    PROVE  ToSet(Append(s, x)) = ToSet(s) \union {x}
<1>1. PICK m \in Nat : m = Len(s) /\ DOMAIN s = 1..m
  BY LenProperties
<1>2. PICK u : u = Append(s, x)
  OBVIOUS
<1>3. DOMAIN u = 1..(m + 1) /\ u[m + 1] = x /\ \A i \in 1..m : u[i] = s[i]
  BY <1>1, <1>2
<1>4. \A i \in 1..(m + 1) : i \in 1..m \/ i = m + 1
  BY <1>1
<1>5. m + 1 \in 1..(m + 1) /\ \A i \in 1..m : i \in 1..(m + 1)
  BY <1>1
<1>6. ToSet(u) = ToSet(s) \union {x}
  BY <1>1, <1>3, <1>4, <1>5 DEF ToSet
<1>. QED  BY <1>2, <1>6

LEMMA FinishStep ==
    ASSUME TailInv, NEW f \in File, Finish(f)
    PROVE  TailInv'
<1>1. TailType /\ ThreadInv /\ \A g \in File : FileInv(g)
  BY DEF TailInv
<1>2. /\ text[f] # Absent /\ Halfway(f)
      /\ due' = IF (Attached(f) \/ Attaching(f)) /\ Len(text[f]) > Base(f)
                THEN [due EXCEPT ![f] = Append(@, Last(text[f]).line)] ELSE due
      /\ UNCHANGED <<begun, watchers, watcher, thread, startup, posted, clean>>
  BY DEF Finish
<1>3. PICK t : t = text[f]
  OBVIOUS
<1>4. PICK e : e = [line |-> Last(t).line, part |-> "rest"]
  OBVIOUS
<1>5. text' = [text EXCEPT ![f] = Append(t, e)]
  BY <1>3, <1>4 DEF Finish
<1>6. begun[f] \in Nat /\ text \in [File -> Seq(Piece) \union {Absent}]
      /\ due \in [File -> Seq(Nat)]
  BY <1>1 DEF TailType
<1>7. /\ IsTranscript(t, begun[f]) /\ t # <<>> /\ ~IsRest(t, Len(t))
      /\ t \in Seq(Piece)
  BY <1>1, <1>2, <1>3 DEF FileInv, TextInv, Halfway, IsRest, Last, IsTranscript
<1>8. t[Len(t)].line = begun[f]
  BY <1>7 DEF IsTranscript
<1>9. e \in Piece /\ e.line = t[Len(t)].line /\ e.part = "rest" /\ e.line = begun[f]
  BY <1>4, <1>6, <1>8 DEF Piece, Last
<1>10. text'[f] = Append(t, e) /\ \A g \in File : g # f => text'[g] = text[g]
  BY <1>5, <1>6
<1>11. IsTranscript(Append(t, e), begun[f]) /\ Append(t, e) \in Seq(Piece)
  <2>1. IsTranscript(Append(t, e), begun[f])
    BY <1>6, <1>7, <1>9, FinishIs
  <2>. QED  BY <2>1 DEF IsTranscript
<1>12. /\ due' \in [File -> Seq(Nat)]
       /\ \A g \in File : g # f => due'[g] = due[g]
       /\ due'[f] = IF e.part = "rest" /\ (Attached(f) \/ Attaching(f)) /\ Len(t) > Base(f)
                    THEN Append(due[f], e.line) ELSE due[f]
  <2>1. due[f] \in Seq(Nat) /\ Append(due[f], e.line) \in Seq(Nat)
    BY <1>6, <1>9
  <2>2. due' = IF (Attached(f) \/ Attaching(f)) /\ Len(t) > Base(f)
               THEN [due EXCEPT ![f] = Append(@, e.line)] ELSE due
    BY <1>2, <1>3, <1>4
  <2>3. CASE (Attached(f) \/ Attaching(f)) /\ Len(t) > Base(f)
    BY <1>6, <1>9, <2>1, <2>2, <2>3
  <2>4. CASE ~((Attached(f) \/ Attaching(f)) /\ Len(t) > Base(f))
    BY <1>6, <1>9, <2>2, <2>4
  <2>. QED  BY <2>3, <2>4
<1>13. TailType'
  <2>1. text' \in [File -> Seq(Piece) \union {Absent}]
    BY <1>5, <1>6, <1>11
  <2>. QED  BY <1>1, <1>2, <1>12, <2>1 DEF TailType
<1>14. ThreadInv'
  <2>1. \A g \in File : Attached(g)' <=> Attached(g)
    BY <1>2 DEF Attached
  <2>. QED  BY <1>1, <1>2, <2>1, ThreadKept
<1>15. FileInv(f)'
  <2>1. TextInv(f)'
    BY <1>1, <1>2, <1>10, <1>11, <1>3 DEF FileInv, TextInv, Attached, Attaching
  <2>2. begun[f] \notin startup[f]
    BY <1>1, <1>2 DEF FileInv, StartupInv
  <2>3. StartupInv(f)'
    <3>1. \A x \in startup[f] : x <= begun[f]
      BY <1>1 DEF FileInv, StartupInv
    <3>2. ASSUME clean[f] PROVE startup[f] \intersect ToSet(due'[f]) = {}
      <4>1. startup[f] \intersect ToSet(due[f]) = {}
        BY <1>1, <3>2 DEF FileInv, StartupInv
      <4>2. ToSet(due'[f]) \subseteq ToSet(due[f]) \union {begun[f]}
        <5>1. due[f] \in Seq(Nat)
          BY <1>6
        <5>2. ToSet(Append(due[f], e.line)) = ToSet(due[f]) \union {begun[f]}
          BY <1>6, <1>9, <5>1, ToSetAppend
        <5>. QED  BY <1>12, <5>2
      <4>. QED  BY <2>2, <4>1, <4>2
    <3>. QED  BY <1>2, <2>2, <3>1, <3>2 DEF StartupInv
  <2>4. t # Absent /\ text[f] = t
    BY <1>2, <1>3
  <2>5. AttachedInv(f)' /\ AttachingInv(f)'
    BY <1>1, <1>2, <1>9, <1>10, <1>12, <2>4, Grown
  <2>. QED  BY <2>1, <2>3, <2>5 DEF FileInv
<1>16. ASSUME NEW g \in File, g # f PROVE FileInv(g)'
  <2>1. Same(g) /\ Elsewhere(g)
    BY <1>2, <1>10, <1>12, <1>16, SameThread DEF Same
  <2>. QED  BY <1>1, <2>1, FileKept
<1>. QED  BY <1>13, <1>14, <1>15, <1>16 DEF TailInv

LEMMA Restarted ==
    ASSUME NEW w \in Watcher, NEW v, v = [w EXCEPT !.base = 0, !.shrunk = TRUE]
    PROVE  v \in Watcher /\ v.base = 0 /\ v.shrunk /\ v.pending = w.pending
<1>1. PICK o \in Nat, b \in Nat, p \in Seq(Piece), x \in BOOLEAN :
         w = [offset |-> o, pending |-> p, base |-> b, shrunk |-> x]
  BY DEF Watcher
<1>2. v = [offset |-> o, pending |-> p, base |-> 0, shrunk |-> TRUE]
  BY <1>1
<1>3. [offset |-> o, pending |-> p, base |-> 0, shrunk |-> TRUE] \in Watcher
  BY SMT DEF Watcher
<1>4. v.base = 0 /\ v.shrunk = TRUE /\ v.pending = p /\ w.pending = p
  BY <1>1, <1>2
<1>. QED  BY <1>2, <1>3, <1>4

LEMMA TruncateStep ==
    ASSUME TailInv, NEW f \in File, Truncate(f)
    PROVE  TailInv'
<1>1. TailType /\ ThreadInv /\ \A g \in File : FileInv(g)
  BY DEF TailInv
<1>2. /\ text[f] # Absent /\ text' = [text EXCEPT ![f] = <<>>]
      /\ watcher' = IF Attached(f)
                    THEN [watcher EXCEPT ![f].base = 0, ![f].shrunk = TRUE] ELSE watcher
      /\ clean' = [clean EXCEPT ![f] = @ /\ ~Attaching(f)
                      /\ (Attached(f) => CaughtUp(f) /\ ~watcher[f].shrunk)]
      /\ UNCHANGED <<begun, due, watchers, thread, startup, posted>>
  BY DEF Truncate
<1>3. /\ text \in [File -> Seq(Piece) \union {Absent}]
      /\ watcher \in [File -> Watcher \union {Absent}]
      /\ clean \in [File -> BOOLEAN] /\ posted[f] \in Seq(Nat)
  BY <1>1 DEF TailType
<1>4. PICK w : w = watcher[f]
  OBVIOUS
<1>5. PICK v : v = [w EXCEPT !.base = 0, !.shrunk = TRUE]
  OBVIOUS
<1>6. /\ text'[f] = <<>>
      /\ watcher'[f] = IF Attached(f) THEN v ELSE w
      /\ clean'[f] = (clean[f] /\ ~Attaching(f)
                        /\ (Attached(f) => CaughtUp(f) /\ ~w.shrunk))
      /\ \A g \in File : g # f => /\ text'[g] = text[g] /\ watcher'[g] = watcher[g]
                                  /\ clean'[g] = clean[g]
  BY <1>2, <1>3, <1>4, <1>5
<1>7. Attached(f) => /\ w \in Watcher /\ v \in Watcher /\ v.base = 0 /\ v.shrunk
                     /\ v.pending = w.pending /\ v # Absent
  <2>1. SUFFICES ASSUME Attached(f) PROVE v \in Watcher /\ w \in Watcher
                     /\ v.base = 0 /\ v.shrunk /\ v.pending = w.pending
    BY AbsentAssumption
  <2>2. w \in Watcher
    BY <1>3, <1>4, <2>1 DEF Attached
  <2>3. v \in Watcher /\ v.base = 0 /\ v.shrunk /\ v.pending = w.pending
    BY <1>5, <2>2, Restarted
  <2>. QED  BY <2>2, <2>3
<1>8. <<>> \in Seq(Piece) /\ <<>> # Absent
  <2>1. <<>> \in Seq(Piece)
    OBVIOUS
  <2>. QED  BY <2>1, AbsentAssumption
<1>9. TailType'
  <2>1. text' \in [File -> Seq(Piece) \union {Absent}]
    BY <1>2, <1>3, <1>8
  <2>2. watcher' \in [File -> Watcher \union {Absent}]
    <3>1. CASE Attached(f)
      <4>1. watcher' = [watcher EXCEPT ![f] = v]
        BY <1>2, <1>3, <1>4, <1>5, <3>1
      <4>. QED  BY <1>3, <1>7, <3>1, <4>1
    <3>2. CASE ~Attached(f)
      BY <1>2, <1>3, <3>2
    <3>. QED  BY <3>1, <3>2
  <2>3. clean' \in [File -> BOOLEAN]
    BY <1>2, <1>3
  <2>. QED  BY <1>1, <1>2, <2>1, <2>2, <2>3 DEF TailType
<1>10. \A g \in File : Attached(g)' <=> Attached(g)
  BY <1>4, <1>6, <1>7 DEF Attached
<1>11. ThreadInv'
  BY <1>1, <1>2, <1>10, ThreadKept
<1>12. FileInv(f)'
  <2>1. TextInv(f)'
    BY <1>1, <1>2, <1>6, <1>10, EmptyIs DEF FileInv, TextInv, Attaching
  <2>2. StartupInv(f)'
    BY <1>1, <1>2, <1>6 DEF FileInv, StartupInv, Halfway
  <2>3. AttachingInv(f)'
    BY <1>1, <1>2, <1>6, <1>10 DEF FileInv, AttachingInv, Attaching
  <2>4. ASSUME clean'[f], Attached(f)
        PROVE  /\ IsPrefix(posted[f], due[f])
               /\ WatcherInv(<<>>, v)
               /\ due[f] = posted[f] \o Owed(<<>>, Read(v), v.base)
               /\ ~(thread.pc = "read" /\ thread.file = f)
    <3>1. clean[f] /\ CaughtUp(f) /\ ~w.shrunk
      BY <1>6, <2>4
    <3>2. /\ WatcherInv(text[f], w)
          /\ due[f] = posted[f] \o Owed(text[f], Read(w), w.base)
          /\ IsPrefix(posted[f], due[f])
          /\ thread.pc = "read" /\ thread.file = f =>
                w.offset < thread.len /\ thread.len <= Len(text[f])
      BY <1>1, <1>2, <1>4, <2>4, <3>1 DEF FileInv, AttachedInv
    <3>3. /\ w.offset = Len(text[f]) /\ w.pending = <<>> /\ w.offset \in Nat
          /\ text[f] \in Seq(Piece) /\ thread.len \in Nat
      BY <1>1, <1>2, <1>3, <1>4, <1>7, <2>4, <3>1 DEF CaughtUp, Watcher, ThreadInv
    <3>4. Owed(text[f], Read(w), w.base) = <<>>
      <4>1. Read(w) = w.offset
        BY <3>1 DEF Read
      <4>. QED  BY <3>3, <4>1, OwedNone
    <3>5. Owed(<<>>, Read(v), v.base) = <<>>
      <4>1. Read(v) = 0
        BY <1>7, <2>4 DEF Read
      <4>2. Owed(<<>>, 0, v.base) = <<>>
        <5>1. PICK e, z, b : e = <<>> /\ z = 0 /\ b = v.base
          OBVIOUS
        <5>2. e \in Seq(Piece) /\ z \in Nat /\ Len(e) <= z
          BY <5>1
        <5>3. Owed(e, z, b) = <<>>
          BY <5>2, OwedNone
        <5>. QED  BY <5>1, <5>3
      <4>. QED  BY <4>1, <4>2
    <3>6. WatcherInv(<<>>, v)
      BY <1>7, <2>4, <3>3 DEF WatcherInv
    <3>7. ~(thread.pc = "read" /\ thread.file = f)
      BY <3>2, <3>3
    <3>. QED  BY <3>2, <3>4, <3>5, <3>6, <3>7
  <2>5. AttachedInv(f)'
    BY <1>2, <1>6, <1>10, <2>4 DEF AttachedInv
  <2>. QED  BY <2>1, <2>2, <2>3, <2>5 DEF FileInv
<1>13. ASSUME NEW g \in File, g # f PROVE FileInv(g)'
  <2>1. Same(g) /\ Elsewhere(g)
    BY <1>2, <1>6, <1>13, SameThread DEF Same
  <2>. QED  BY <1>1, <2>1, FileKept
<1>. QED  BY <1>9, <1>11, <1>12, <1>13 DEF TailInv

LEMMA DeleteStep ==
    ASSUME TailInv, NEW f \in File, Delete(f)
    PROVE  TailInv'
<1>1. TailType /\ ThreadInv /\ \A g \in File : FileInv(g)
  BY DEF TailInv
<1>2. /\ text' = [text EXCEPT ![f] = Absent]
      /\ UNCHANGED <<begun, due, watchers, watcher, thread, startup, posted, clean>>
  BY DEF Delete
<1>3. /\ text \in [File -> Seq(Piece) \union {Absent}]
      /\ text' \in [File -> Seq(Piece) \union {Absent}]
      /\ text'[f] = Absent /\ \A g \in File : g # f => text'[g] = text[g]
  BY <1>1, <1>2 DEF TailType
<1>4. TailType'
  BY <1>1, <1>2, <1>3 DEF TailType
<1>5. ThreadInv'
  <2>1. \A g \in File : Attached(g)' <=> Attached(g)
    BY <1>2 DEF Attached
  <2>. QED  BY <1>1, <1>2, <2>1, ThreadKept
<1>6. FileInv(f)'
  <2>1. TextInv(f)'
    BY <1>1, <1>2, <1>3 DEF FileInv, TextInv, Attached, Attaching
  <2>2. StartupInv(f)'
    BY <1>1, <1>2, <1>3 DEF FileInv, StartupInv, Halfway
  <2>3. AttachedInv(f)'
    BY <1>1, <1>2, <1>3 DEF FileInv, AttachedInv, Attached
  <2>4. AttachingInv(f)'
    BY <1>1, <1>2, <1>3 DEF FileInv, AttachingInv, Attached, Attaching
  <2>. QED  BY <2>1, <2>2, <2>3, <2>4 DEF FileInv
<1>7. ASSUME NEW g \in File, g # f PROVE FileInv(g)'
  <2>1. Same(g) /\ Elsewhere(g)
    BY <1>2, <1>3, <1>7, SameThread DEF Same
  <2>. QED  BY <1>1, <2>1, FileKept
<1>. QED  BY <1>4, <1>5, <1>6, <1>7 DEF TailInv

---------------------------------------------------------------------------
(* Steps of the capture thread.                                            *)

\* What the thread does to no file changes only where it is.
LEMMA OnlyThread ==
    ASSUME TailInv, ThreadInv',
           UNCHANGED <<agent, watchers, watcher, startup, posted, clean>>,
           \A f \in File : Elsewhere(f)
    PROVE  TailInv'
<1>1. TailType /\ \A f \in File : FileInv(f)
  BY DEF TailInv
<1>2. TailType'
  BY <1>1 DEF TailType, agent
<1>3. ASSUME NEW f \in File PROVE FileInv(f)'
  <2>1. Same(f)
    BY DEF Same, agent
  <2>. QED  BY <1>1, <2>1, FileKept
<1>. QED  BY <1>2, <1>3 DEF TailInv

LEMMA StopStep ==
    ASSUME TailInv, Stop
    PROVE  TailInv'
<1>1. TailType /\ ThreadInv
  BY DEF TailInv
<1>2. /\ thread' = [thread EXCEPT !.pc = "stopped"]
      /\ UNCHANGED <<agent, watchers, watcher, startup, posted, clean>>
  BY DEF Stop
<1>3. /\ thread' \in [pc : Pcs, file : File \union {Absent}, len : Nat, next : Nat]
      /\ thread'.pc = "stopped" /\ thread'.len = thread.len
  BY <1>1, <1>2 DEF ThreadInv, Pcs
<1>4. ThreadInv'
  BY <1>1, <1>2, <1>3 DEF ThreadInv, Attached
<1>5. \A f \in File : Elsewhere(f)
  BY <1>3 DEF Elsewhere, Attaching
<1>. QED  BY <1>2, <1>4, <1>5, OnlyThread

LEMMA StartPollStep ==
    ASSUME TailInv, StartPoll
    PROVE  TailInv'
<1>1. TailType /\ ThreadInv
  BY DEF TailInv
<1>2. /\ thread.pc = "loop" /\ watchers # <<>>
      /\ thread' = [thread EXCEPT !.pc = "poll", !.next = 1]
      /\ UNCHANGED <<agent, watchers, watcher, startup, posted, clean>>
  BY DEF StartPoll
<1>3. thread \in [pc : Pcs, file : File \union {Absent}, len : Nat, next : Nat]
  BY <1>1 DEF ThreadInv
<1>4. thread' = [pc |-> "poll", file |-> thread.file, len |-> thread.len, next |-> 1]
  BY <1>2, <1>3
<1>5. thread' \in [pc : Pcs, file : File \union {Absent}, len : Nat, next : Nat]
  BY <1>3, <1>4 DEF Pcs
<1>6. thread'.pc = "poll" /\ thread'.next = 1 /\ thread'.len = thread.len
  BY <1>4
<1>7. 1 \in DOMAIN watchers
  BY <1>1, <1>2, EmptySeq, LenProperties DEF TailType
<1>8. ThreadInv'
  BY <1>1, <1>2, <1>5, <1>6, <1>7 DEF ThreadInv, Attached
<1>9. \A f \in File : Elsewhere(f)
  BY <1>2, <1>6 DEF Elsewhere, Attaching
<1>. QED  BY <1>2, <1>8, <1>9, OnlyThread

LEMMA AttachStatStep ==
    ASSUME TailInv, NEW f \in File, AttachStat(f)
    PROVE  TailInv'
<1>1. TailType /\ ThreadInv /\ \A g \in File : FileInv(g)
  BY DEF TailInv
<1>2. /\ thread.pc = "loop" /\ text[f] # Absent /\ ~Attached(f)
      /\ thread' = [thread EXCEPT !.pc = "attach", !.file = f, !.len = Len(text[f])]
      /\ UNCHANGED <<agent, watchers, watcher, startup, posted, clean>>
  BY DEF AttachStat
<1>3. text[f] \in Seq(Piece) /\ Len(text[f]) \in Nat
  BY <1>1, <1>2, LenProperties DEF TailType
<1>4. thread \in [pc : Pcs, file : File \union {Absent}, len : Nat, next : Nat]
  BY <1>1 DEF ThreadInv
<1>5. thread' = [pc |-> "attach", file |-> f, len |-> Len(text[f]), next |-> thread.next]
  BY <1>2, <1>4
<1>6. thread' \in [pc : Pcs, file : File \union {Absent}, len : Nat, next : Nat]
  BY <1>3, <1>4, <1>5 DEF Pcs
<1>7. thread'.pc = "attach" /\ thread'.file = f /\ thread'.len = Len(text[f])
  BY <1>5
<1>8. ThreadInv'
  BY <1>1, <1>2, <1>6, <1>7 DEF ThreadInv, Attached
<1>9. TailType'
  BY <1>1, <1>2 DEF TailType, agent
<1>10. FileInv(f)'
  <2>1. begun[f] # 0
    BY <1>1, <1>2, <1>3 DEF FileInv, TextInv
  <2>2. TextInv(f)' /\ StartupInv(f)'
    BY <1>1, <1>2, <2>1 DEF FileInv, TextInv, StartupInv, Halfway, agent
  <2>3. AttachedInv(f)'
    BY <1>2 DEF AttachedInv, Attached
  <2>4. AttachingInv(f)'
    <3>1. due[f] = <<>>
      BY <1>1, <1>2 DEF FileInv, AttachingInv, Attaching
    <3>2. Owed(text[f], Len(text[f]), Len(text[f])) = <<>>
      BY <1>3, OwedNone
    <3>3. startup[f] = {} /\ posted[f] = <<>>
      BY <1>1, <1>2 DEF FileInv, AttachingInv
    <3>4. Attaching(f)'
      BY <1>7 DEF Attaching
    <3>. QED  BY <1>2, <1>3, <1>7, <3>1, <3>2, <3>3, <3>4 DEF AttachingInv, Attached, agent
  <2>. QED  BY <2>2, <2>3, <2>4 DEF FileInv
<1>11. ASSUME NEW g \in File, g # f PROVE FileInv(g)'
  <2>1. Same(g)
    BY <1>2 DEF Same, agent
  <2>2. Elsewhere(g)
    BY <1>2, <1>7, <1>11 DEF Elsewhere, Attaching
  <2>. QED  BY <1>1, <2>1, <2>2, FileKept
<1>. QED  BY <1>8, <1>9, <1>10, <1>11 DEF TailInv

\* A fresh watcher, of the file in which it begins at len.
LEMMA FreshWatcher ==
    ASSUME NEW len \in Nat, NEW v,
           v = [offset |-> len, pending |-> <<>>, base |-> len, shrunk |-> FALSE]
    PROVE  /\ v \in Watcher /\ v # Absent
           /\ v.offset = len /\ v.pending = <<>> /\ v.base = len /\ ~v.shrunk
<1>1. <<>> \in Seq(Piece)
  OBVIOUS
<1>2. [offset |-> len, pending |-> <<>>, base |-> len, shrunk |-> FALSE] \in Watcher
  BY <1>1, SMT DEF Watcher
<1>. QED  BY <1>2, AbsentAssumption

\* What is replayed is old, and what is due is not.
LEMMA StartupBegun ==
    ASSUME NEW n \in Nat, NEW t, IsTranscript(t, n), NEW len \in Nat, NEW lost,
           NEW told, told = Replayed(Parsed(Prefix(t, len)))
    PROVE  /\ \A x \in ToSet(Without(told, lost)) :
                 x <= n /\ (t # <<>> /\ ~IsRest(t, Len(t)) => x # n)
           /\ ToSet(Without(told, lost)) \intersect ToSet(Owed(t, len, len)) = {}
<1>1. PICK S : S = ToSet(Without(told, lost))
  OBVIOUS
<1>2. \A x \in S : \E i \in 1..Len(t) : i <= len /\ IsRest(t, i) /\ t[i].line = x
  BY <1>1, StartupIs
<1>3. ASSUME NEW x \in S
      PROVE  x <= n /\ (t # <<>> /\ ~IsRest(t, Len(t)) => x # n)
  <2>1. PICK i \in 1..Len(t) : i <= len /\ IsRest(t, i) /\ t[i].line = x
    BY <1>2
  <2>2. t[i].line \in Nat /\ t[i].line <= n /\ (~IsRest(t, Len(t)) => t[i].line < n)
    BY <2>1, LinesBegun
  <2>. QED  BY <2>1, <2>2
<1>4. ASSUME NEW x \in S, x \in ToSet(Owed(t, len, len)) PROVE FALSE
  <2>1. t \in Seq(Piece)
    BY DEF IsTranscript
  <2>2. PICK l, I : l = Lines(t) /\ I = Ends(t, len, len)
    OBVIOUS
  <2>3. /\ l \in Seq(Nat) /\ I \in SUBSET DOMAIN l /\ DOMAIN l = 1..Len(t)
        /\ \A i \in 1..Len(t) : l[i] = t[i].line
        /\ Owed(t, len, len) = Sublist(l, I)
    BY <2>1, <2>2, LinesType, EndsPlaces DEF Owed
  <2>4. PICK j \in I : l[j] = x
    BY <1>4, <2>3, SublistElements
  <2>5. j \in 1..Len(t) /\ IsRest(t, j) /\ j > len /\ t[j].line = x
    BY <2>2, <2>3, <2>4 DEF Ends
  <2>6. PICK i \in 1..Len(t) : i <= len /\ IsRest(t, i) /\ t[i].line = x
    BY <1>2
  <2>7. i < j
    BY <2>1, <2>5, <2>6, LenProperties
  <2>8. t[i].line < t[j].line
    BY <2>5, <2>6, <2>7, EndsDistinct
  <2>9. t[i].line \in Nat
    BY LinesBegun
  <2>. QED  BY <2>5, <2>6, <2>8, <2>9
<1>. QED  BY <1>1, <1>3, <1>4

LEMMA AttachReadStep ==
    ASSUME TailInv, AttachRead
    PROVE  TailInv'
<1>1. TailType /\ ThreadInv /\ \A g \in File : FileInv(g)
  BY DEF TailInv
<1>2. PICK f \in File : thread.pc = "attach" /\ f = thread.file /\ ~Attached(f)
  BY <1>1 DEF AttachRead, ThreadInv
<1>3. CASE text[f] = Absent
  <2>1. Stop
    BY <1>2, <1>3 DEF AttachRead
  <2>. QED  BY <2>1, StopStep
<1>4. CASE text[f] # Absent
  <2>1. PICK told, lost :
           /\ told = Replayed(Parsed(Prefix(text[f], thread.len)))
           /\ startup' = [startup EXCEPT ![f] = ToSet(Without(told, lost))]
    BY <1>2, <1>4 DEF AttachRead
  <2>2. PICK v : v = [offset |-> thread.len, pending |-> <<>>,
                      base |-> thread.len, shrunk |-> FALSE]
    OBVIOUS
  <2>3. /\ watchers' = Append(watchers, f)
        /\ watcher' = [watcher EXCEPT ![f] = v]
        /\ thread' = [thread EXCEPT !.pc = "loop", !.file = Absent]
        /\ UNCHANGED <<text, begun, due, posted, clean>>
    BY <1>2, <1>4, <2>2 DEF AttachRead, agent
  <2>4. thread \in [pc : Pcs, file : File \union {Absent}, len : Nat, next : Nat]
    BY <1>1 DEF ThreadInv
  <2>5. thread' = [pc |-> "loop", file |-> Absent, len |-> thread.len,
                   next |-> thread.next]
    BY <2>3, <2>4
  <2>6. /\ thread' \in [pc : Pcs, file : File \union {Absent}, len : Nat, next : Nat]
        /\ thread'.pc = "loop" /\ thread.len \in Nat
    BY <2>4, <2>5 DEF Pcs
  <2>7. /\ v \in Watcher /\ v # Absent
        /\ v.offset = thread.len /\ v.pending = <<>> /\ v.base = thread.len /\ ~v.shrunk
    BY <2>2, <2>6, FreshWatcher
  <2>8. /\ watcher \in [File -> Watcher \union {Absent}]
        /\ startup \in [File -> SUBSET Nat] /\ watchers \in Seq(File)
        /\ begun[f] \in Nat /\ posted[f] \in Seq(Nat) /\ due[f] \in Seq(Nat)
    BY <1>1 DEF TailType
  <2>9. PICK t : t = text[f]
    OBVIOUS
  <2>10. IsTranscript(t, begun[f]) /\ t \in Seq(Piece) /\ begun[f] # 0
    BY <1>1, <1>4, <2>9 DEF FileInv, TextInv, IsTranscript
  <2>11. PICK S : S = ToSet(Without(told, lost))
    OBVIOUS
  <2>12. /\ S \subseteq Nat
         /\ \A x \in S : x <= begun[f] /\ (t # <<>> /\ ~IsRest(t, Len(t)) => x # begun[f])
         /\ S \intersect ToSet(Owed(t, thread.len, thread.len)) = {}
    BY <2>1, <2>6, <2>8, <2>9, <2>10, <2>11, StartupIs, StartupBegun
  <2>13. /\ watcher'[f] = v /\ startup'[f] = S
         /\ \A g \in File : g # f => watcher'[g] = watcher[g] /\ startup'[g] = startup[g]
    BY <2>1, <2>3, <2>8, <2>11
  <2>14. TailType'
    <3>1. watcher' \in [File -> Watcher \union {Absent}]
      BY <2>3, <2>7, <2>8
    <3>2. startup' \in [File -> SUBSET Nat]
      BY <2>1, <2>8, <2>11, <2>12
    <3>3. watchers' \in Seq(File)
      BY <2>3, <2>8
    <3>. QED  BY <1>1, <2>3, <3>1, <3>2, <3>3 DEF TailType
  <2>15. ThreadInv'
    <3>1. ASSUME NEW i \in DOMAIN watchers' PROVE watcher'[watchers'[i]] # Absent
      <4>1. watchers'[i] = f \/ (i \in DOMAIN watchers /\ watchers'[i] = watchers[i])
        BY <2>3, <2>8, <3>1
      <4>2. CASE i \in DOMAIN watchers /\ watchers'[i] = watchers[i]
        BY <1>1, <2>7, <2>8, <2>13, <4>2, ElementOfSeq, LenProperties DEF ThreadInv, Attached
      <4>. QED  BY <2>7, <2>13, <4>1, <4>2
    <3>. QED  BY <2>6, <3>1 DEF ThreadInv, Attached
  <2>16. ~Attaching(f)' /\ Attached(f)' /\ Attaching(f)
    BY <1>2, <2>6, <2>7, <2>13 DEF Attaching, Attached
  <2>17. clean[f] => /\ thread.len <= Len(t)
                     /\ due[f] = Owed(t, thread.len, thread.len)
    BY <1>1, <1>4, <2>9, <2>16 DEF FileInv, AttachingInv
  <2>18. FileInv(f)'
    <3>1. TextInv(f)'
      BY <2>3, <2>9, <2>10 DEF TextInv
    <3>2. StartupInv(f)'
      <4>1. Halfway(f)' <=> t # <<>> /\ ~IsRest(t, Len(t))
        BY <2>3, <2>9 DEF Halfway, IsRest, Last
      <4>. QED  BY <2>3, <2>12, <2>13, <2>17, <4>1 DEF StartupInv
    <3>3. AttachedInv(f)'
      <4>1. posted[f] = <<>>
        BY <1>1, <1>2 DEF FileInv, AttachingInv
      <4>2. <<>> \o due[f] = due[f]
        BY <2>8
      <4>3. IsPrefix(posted[f], due[f])
        BY <2>8, <4>1, <4>2, PrefixConcat
      <4>4. clean[f] => WatcherInv(t, v)
        <5>1. thread.len <= thread.len /\ ~(thread.len > thread.len)
          BY <2>6
        <5>. QED  BY <2>7, <2>17, <5>1 DEF WatcherInv
      <4>5. Read(v) = thread.len
        BY <2>7 DEF Read
      <4>6. clean[f] => due[f] = posted[f] \o Owed(t, Read(v), v.base)
        BY <2>7, <2>17, <4>1, <4>2, <4>5
      <4>. QED  BY <2>3, <2>6, <2>9, <2>13, <4>3, <4>4, <4>6 DEF AttachedInv
    <3>4. AttachingInv(f)'
      BY <2>16 DEF AttachingInv
    <3>. QED  BY <3>1, <3>2, <3>3, <3>4 DEF FileInv
  <2>19. ASSUME NEW g \in File, g # f PROVE FileInv(g)'
    <3>1. Same(g)
      BY <2>3, <2>13, <2>19 DEF Same
    <3>2. Elsewhere(g)
      BY <1>2, <2>6, <2>19 DEF Elsewhere, Attaching
    <3>. QED  BY <1>1, <3>1, <3>2, FileKept
  <2>. QED  BY <2>14, <2>15, <2>18, <2>19 DEF TailInv
<1>. QED  BY <1>3, <1>4

\* On to the next watcher, if there is one.
LEMMA AdvanceIs ==
    ASSUME TailType, ThreadInv, thread.pc \in {"poll", "read"}, Advance,
           watchers' = watchers, \A f \in File : Attached(f) => Attached(f)'
    PROVE  /\ ThreadInv' /\ thread'.pc \in {"poll", "loop"} /\ thread'.len = thread.len
<1>1. thread \in [pc : Pcs, file : File \union {Absent}, len : Nat, next : Nat]
  BY DEF ThreadInv
<1>2. watchers \in Seq(File)
  BY DEF TailType
<1>3. PICK pc \in {"poll", "loop"}, next \in Nat :
         /\ next = thread.next + 1 /\ (pc = "poll" => thread.next < Len(watchers))
         /\ thread' = [thread EXCEPT !.pc = pc, !.next = next]
  <2>1. PICK pc, next : /\ pc = IF thread.next < Len(watchers) THEN "poll" ELSE "loop"
                        /\ next = thread.next + 1
    OBVIOUS
  <2>2. thread' = [thread EXCEPT !.pc = pc, !.next = next]
    BY <2>1 DEF Advance
  <2>3. /\ pc \in {"poll", "loop"} /\ next \in Nat
        /\ pc = "poll" => thread.next < Len(watchers)
    BY <1>1, <2>1
  <2>. QED  BY <2>1, <2>2, <2>3
<1>4. thread' = [pc |-> pc, file |-> thread.file, len |-> thread.len, next |-> next]
  BY <1>1, <1>3
<1>5. /\ thread' \in [pc : Pcs, file : File \union {Absent}, len : Nat, next : Nat]
      /\ thread'.pc = pc /\ thread'.next = next /\ thread'.len = thread.len
  BY <1>1, <1>4 DEF Pcs
<1>6. pc = "poll" => next \in DOMAIN watchers
  BY <1>1, <1>2, <1>3, LenProperties
<1>7. \A i \in DOMAIN watchers : Attached(watchers[i])'
  <2>1. ASSUME NEW i \in DOMAIN watchers PROVE Attached(watchers[i])'
    <3>1. PICK f \in File : f = watchers[i]
      BY <1>2, ElementOfSeq, LenProperties
    <3>2. Attached(f)
      BY <3>1 DEF ThreadInv
    <3>3. watcher'[f] # Absent
      BY <3>2 DEF Attached
    <3>. QED  BY <3>1, <3>3 DEF Attached
  <2>. QED  BY <2>1
<1>. QED  BY <1>5, <1>6, <1>7 DEF ThreadInv

LEMMA PollStatStep ==
    ASSUME TailInv, PollStat
    PROVE  TailInv'
<1>1. TailType /\ ThreadInv /\ \A g \in File : FileInv(g)
  BY DEF TailInv
<1>2. PICK f \in File : thread.pc = "poll" /\ f = watchers[thread.next] /\ Attached(f)
  <2>1. thread.pc = "poll" /\ thread.next \in DOMAIN watchers
    BY <1>1 DEF PollStat, ThreadInv
  <2>2. watchers[thread.next] \in File /\ Attached(watchers[thread.next])
    BY <1>1, <2>1, ElementOfSeq, LenProperties DEF TailType, ThreadInv
  <2>. QED  BY <2>1, <2>2
<1>3. CASE text[f] = Absent
  <2>1. Stop
    BY <1>2, <1>3 DEF PollStat
  <2>. QED  BY <2>1, StopStep
<1>4. CASE text[f] # Absent
  <2>1. PICK t, w : t = text[f] /\ w = watcher[f]
    OBVIOUS
  <2>2. w \in Watcher /\ t \in Seq(Piece)
    BY <1>1, <1>2, <1>4, <2>1 DEF TailType, Attached
  <2>3. PICK len \in Nat : len = Len(t)
    BY <2>2, LenProperties
  <2>4. w.offset \in Nat /\ w.base \in Nat /\ w.pending \in Seq(Piece)
        /\ w.shrunk \in BOOLEAN
    BY <2>2 DEF Watcher
  <2>5. PICK o \in Nat, p \in Seq(Piece) :
           /\ o = IF len < w.offset THEN 0 ELSE w.offset
           /\ p = IF len < w.offset THEN <<>> ELSE w.pending
    <3>1. <<>> \in Seq(Piece)
      OBVIOUS
    <3>. QED  BY <2>4, <3>1
  <2>6. PICK v : v = [w EXCEPT !.offset = o, !.shrunk = FALSE, !.pending = p]
    OBVIOUS
  <2>7. /\ watcher' = [watcher EXCEPT ![f] = v]
        /\ clean' = [clean EXCEPT ![f] = @ /\ (w.shrunk => len < w.offset \/ len = 0)]
        /\ IF len <= o THEN Advance
           ELSE thread' = [thread EXCEPT !.pc = "read", !.file = f, !.len = len]
        /\ UNCHANGED <<text, begun, due, watchers, startup, posted>>
    <3>1. /\ watcher' = [watcher EXCEPT ![f] =
                           [w EXCEPT !.offset = o, !.shrunk = FALSE,
                                     !.pending = IF len < w.offset THEN <<>> ELSE w.pending]]
          /\ clean' = [clean EXCEPT ![f] = @ /\ (w.shrunk => len < w.offset \/ len = 0)]
          /\ IF len <= o THEN Advance
             ELSE thread' = [thread EXCEPT !.pc = "read", !.file = f, !.len = len]
          /\ UNCHANGED <<text, begun, due, watchers, startup, posted>>
      BY <1>2, <1>4, <2>1, <2>3, <2>5 DEF PollStat, agent
    <3>2. watcher' = [watcher EXCEPT ![f] = v]
      BY <2>5, <2>6, <3>1, Zenon
    <3>. QED  BY <3>1, <3>2
  <2>8. /\ v \in Watcher /\ v # Absent
        /\ v.offset = o /\ v.pending = p /\ v.base = w.base /\ ~v.shrunk
    <3>1. PICK q \in Nat, b \in Nat, r \in Seq(Piece), y \in BOOLEAN :
             w = [offset |-> q, pending |-> r, base |-> b, shrunk |-> y]
      BY <2>2 DEF Watcher
    <3>2. v = [offset |-> o, pending |-> p, base |-> b, shrunk |-> FALSE]
      BY <2>6, <3>1
    <3>3. [offset |-> o, pending |-> p, base |-> b, shrunk |-> FALSE] \in Watcher
      BY SMT DEF Watcher
    <3>4. v.offset = o /\ v.pending = p /\ v.base = b /\ ~v.shrunk /\ w.base = b
      BY <3>1, <3>2
    <3>5. v \in Watcher
      BY <3>2, <3>3
    <3>. QED  BY <3>4, <3>5, AbsentAssumption
  <2>9. /\ watcher'[f] = v
        /\ clean'[f] = (clean[f] /\ (w.shrunk => len < w.offset \/ len = 0))
        /\ \A g \in File : g # f => watcher'[g] = watcher[g] /\ clean'[g] = clean[g]
    BY <1>1, <2>7 DEF TailType
  <2>10. TailType'
    <3>1. watcher' \in [File -> Watcher \union {Absent}]
      BY <1>1, <2>7, <2>8 DEF TailType
    <3>2. clean' \in [File -> BOOLEAN]
      BY <1>1, <2>7 DEF TailType
    <3>. QED  BY <1>1, <2>7, <3>1, <3>2 DEF TailType
  <2>11. \A g \in File : Attached(g) => Attached(g)'
    BY <2>8, <2>9 DEF Attached
  <2>12. /\ ThreadInv' /\ thread'.pc \in {"poll", "loop", "read"}
         /\ thread'.pc = "read" => thread'.file = f /\ thread'.len = len /\ o < len
    <3>1. CASE len <= o
      BY <1>1, <1>2, <2>7, <2>11, <3>1, AdvanceIs
    <3>2. CASE ~(len <= o)
      <4>1. thread \in [pc : Pcs, file : File \union {Absent}, len : Nat, next : Nat]
        BY <1>1 DEF ThreadInv
      <4>2. thread' = [pc |-> "read", file |-> f, len |-> len, next |-> thread.next]
        BY <2>7, <3>2, <4>1
      <4>3. /\ thread' \in [pc : Pcs, file : File \union {Absent}, len : Nat, next : Nat]
            /\ thread'.pc = "read" /\ thread'.file = f /\ thread'.len = len
            /\ thread'.next = thread.next
        BY <4>1, <4>2 DEF Pcs
      <4>4. \A i \in DOMAIN watchers : watcher'[watchers[i]] # Absent
        <5>1. \A i \in DOMAIN watchers : watchers[i] \in File /\ Attached(watchers[i])
          BY <1>1, ElementOfSeq, LenProperties DEF TailType, ThreadInv
        <5>. QED  BY <2>11, <5>1 DEF Attached
      <4>5. ThreadInv'
        BY <1>1, <1>2, <2>7, <2>8, <2>9, <4>3, <4>4 DEF ThreadInv, Attached
      <4>. QED  BY <3>2, <4>3, <4>5
    <3>. QED  BY <3>1, <3>2
  <2>13. \A g \in File : ~Attaching(g) /\ ~Attaching(g)'
    BY <1>2, <2>12 DEF Attaching
  <2>14. FileInv(f)'
    <3>1. TextInv(f)'
      BY <1>1, <1>2, <2>7 DEF FileInv, TextInv
    <3>2. StartupInv(f)'
      BY <1>1, <2>7, <2>9 DEF FileInv, StartupInv, Halfway
    <3>3. AttachingInv(f)'
      BY <2>8, <2>9, <2>13 DEF AttachingInv, Attached
    <3>4. ASSUME clean'[f]
          PROVE  /\ IsPrefix(posted[f], due[f])
                 /\ WatcherInv(t, v)
                 /\ due[f] = posted[f] \o Owed(t, Read(v), v.base)
      <4>1. clean[f] /\ (w.shrunk => len < w.offset \/ len = 0)
        BY <2>9, <3>4
      <4>2. /\ IsPrefix(posted[f], due[f]) /\ WatcherInv(t, w)
            /\ due[f] = posted[f] \o Owed(t, Read(w), w.base)
        BY <1>1, <1>2, <1>4, <2>1, <4>1 DEF FileInv, AttachedInv
      <4>3. Read(v) = o
        BY <2>8 DEF Read
      <4>4. CASE w.shrunk
        <5>1. w.base = 0 /\ w.pending = <<>> /\ Read(w) = 0
          BY <4>2, <4>4 DEF WatcherInv, Read
        <5>2. o = 0 /\ p = <<>>
          BY <2>4, <2>5, <4>1, <4>4, <5>1
        <5>3. WatcherInv(t, v)
          BY <2>3, <2>8, <5>1, <5>2 DEF WatcherInv
        <5>. QED  BY <2>8, <4>2, <4>3, <5>1, <5>2, <5>3
      <4>5. CASE ~w.shrunk
        <5>1. w.offset <= len /\ Read(w) = w.offset
          BY <2>3, <4>2, <4>5 DEF WatcherInv, Read
        <5>2. o = w.offset /\ p = w.pending
          BY <2>4, <2>5, <5>1
        <5>3. WatcherInv(t, v)
          BY <2>8, <4>2, <4>5, <5>2 DEF WatcherInv
        <5>. QED  BY <2>8, <4>2, <4>3, <5>1, <5>2, <5>3
      <4>. QED  BY <4>4, <4>5
    <3>5. AttachedInv(f)'
      <4>1. thread'.pc = "read" => ~v.shrunk /\ v.offset < thread'.len
                                   /\ thread'.len <= Len(t)
        BY <2>3, <2>8, <2>12
      <4>. QED  BY <2>1, <2>7, <2>9, <3>4, <4>1 DEF AttachedInv
    <3>. QED  BY <3>1, <3>2, <3>3, <3>5 DEF FileInv
  <2>15. ASSUME NEW g \in File, g # f PROVE FileInv(g)'
    <3>1. Same(g)
      BY <2>7, <2>9, <2>15 DEF Same
    <3>2. Elsewhere(g)
      BY <1>2, <2>12, <2>13, <2>15 DEF Elsewhere
    <3>. QED  BY <1>1, <3>1, <3>2, FileKept
  <2>. QED  BY <2>10, <2>12, <2>14, <2>15 DEF TailInv
<1>. QED  BY <1>3, <1>4

\* What a read makes is of its type, whatever went wrong before.
LEMMA ReadMakes ==
    ASSUME NEW t \in Seq(Piece), NEW w \in Watcher
    PROVE  /\ Pending(w.pending \o From(t, w.offset)) \in Seq(Piece)
           /\ Parsed(Complete(w.pending \o From(t, w.offset))) \in Seq(Nat)
<1>1. w.pending \in Seq(Piece) /\ w.offset \in Nat
  BY DEF Watcher
<1>2. PICK g, p : g = From(t, w.offset) /\ p = w.pending
  OBVIOUS
<1>3. g \in Seq(Piece) /\ p \in Seq(Piece)
  BY <1>1, <1>2, FromType
<1>4. p \o g \in Seq(Piece)
  BY <1>3
<1>5. PICK got : got = p \o g
  OBVIOUS
<1>6. got \in Seq(Piece)
  BY <1>4, <1>5
<1>7. Complete(got) \in Seq(Piece) /\ Pending(got) \in Seq(Piece)
  BY <1>6, ReadTypes
<1>8. Parsed(Complete(got)) \in Seq(Nat)
  BY <1>7, ReadTypes
<1>. QED  BY <1>2, <1>5, <1>7, <1>8, Zenon

LEMMA PollReadStep ==
    ASSUME TailInv, PollRead
    PROVE  TailInv'
<1>1. TailType /\ ThreadInv /\ \A g \in File : FileInv(g)
  BY DEF TailInv
<1>2. PICK f \in File : thread.pc = "read" /\ f = thread.file /\ Attached(f)
  BY <1>1 DEF PollRead, ThreadInv
<1>3. PICK w : w = watcher[f]
  OBVIOUS
<1>4. CASE text[f] = Absent \/ Unreadable(text[f], w.offset)
  <2>1. Stop
    BY <1>2, <1>3, <1>4 DEF PollRead
  <2>. QED  BY <2>1, StopStep
<1>5. CASE ~(text[f] = Absent \/ Unreadable(text[f], w.offset))
  <2>1. PICK t : t = text[f]
    OBVIOUS
  <2>2. w \in Watcher /\ t \in Seq(Piece)
    BY <1>1, <1>2, <1>3, <1>5, <2>1 DEF TailType, Attached
  <2>3. PICK got, new, lost :
           /\ got = w.pending \o From(t, w.offset)
           /\ new = Parsed(Complete(got))
           /\ watcher' = [watcher EXCEPT ![f] =
                            [w EXCEPT !.offset = OffsetAfter(w.offset, thread.len),
                                      !.pending = Pending(got)]]
           /\ posted' = [posted EXCEPT ![f] = @ \o Without(new, lost)]
           /\ clean' = [clean EXCEPT ![f] =
                          @ /\ lost = {} /\ Len(text[f]) = thread.len]
           /\ Advance
           /\ UNCHANGED <<text, begun, due, watchers, startup>>
    <3> DEFINE F == thread.file
    <3>1. ~(text[F] = Absent \/ Unreadable(text[F], watcher[F].offset))
      BY <1>2, <1>3, <1>5
    <3>2. PICK got \in {watcher[F].pending \o From(text[F], watcher[F].offset)} :
          \E new \in {Parsed(Complete(got))} :
            /\ watcher' = [watcher EXCEPT ![F] =
                             [watcher[F] EXCEPT
                                !.offset = OffsetAfter(watcher[F].offset, thread.len),
                                !.pending = Pending(got)]]
            /\ \E lost \in Failing(Len(new)) :
                  /\ posted' = [posted EXCEPT ![F] = @ \o Without(new, lost)]
                  /\ mishaps' = [mishaps EXCEPT !.failures = @ + Cardinality(lost)]
                  /\ clean' = [clean EXCEPT ![F] = @ /\ lost = {} /\ Len(text[F]) = thread.len]
            /\ Advance
            /\ UNCHANGED <<agent, watchers, startup>>
      BY <3>1, Zenon DEF PollRead
    <3>3. PICK new \in {Parsed(Complete(got))} :
            /\ watcher' = [watcher EXCEPT ![F] =
                             [watcher[F] EXCEPT
                                !.offset = OffsetAfter(watcher[F].offset, thread.len),
                                !.pending = Pending(got)]]
            /\ \E lost \in Failing(Len(new)) :
                  /\ posted' = [posted EXCEPT ![F] = @ \o Without(new, lost)]
                  /\ mishaps' = [mishaps EXCEPT !.failures = @ + Cardinality(lost)]
                  /\ clean' = [clean EXCEPT ![F] = @ /\ lost = {} /\ Len(text[F]) = thread.len]
            /\ Advance
            /\ UNCHANGED <<agent, watchers, startup>>
      BY <3>2, Zenon
    <3>4. PICK lost :
             /\ posted' = [posted EXCEPT ![F] = @ \o Without(new, lost)]
             /\ clean' = [clean EXCEPT ![F] =
                            @ /\ lost = {} /\ Len(text[F]) = thread.len]
      BY <3>3, Zenon
    <3>. HIDE DEF F
    <3>5. F = f
      BY <1>2 DEF F
    <3>6. got = w.pending \o From(t, w.offset) /\ new = Parsed(Complete(got))
      BY <1>3, <2>1, <3>2, <3>3, <3>5, Zenon
    <3>7. watcher' = [watcher EXCEPT ![f] =
                        [w EXCEPT !.offset = OffsetAfter(w.offset, thread.len),
                                  !.pending = Pending(got)]]
      BY <1>3, <3>3, <3>5, Zenon
    <3>8. /\ posted' = [posted EXCEPT ![f] = @ \o Without(new, lost)]
          /\ clean' = [clean EXCEPT ![f] =
                         @ /\ lost = {} /\ Len(text[f]) = thread.len]
      BY <3>4, <3>5, Zenon
    <3>. QED  BY <3>3, <3>6, <3>7, <3>8 DEF agent
  <2>4. /\ watcher \in [File -> Watcher \union {Absent}]
        /\ posted \in [File -> Seq(Nat)] /\ clean \in [File -> BOOLEAN]
        /\ due[f] \in Seq(Nat) /\ posted[f] \in Seq(Nat) /\ thread.len \in Nat
    BY <1>1 DEF TailType, ThreadInv
  <2>5. PICK o \in Nat, p \in Seq(Piece), u \in Seq(Nat) :
           /\ o = thread.len /\ p = Pending(got) /\ u = posted[f] \o Without(new, lost)
           /\ new \in Seq(Nat)
    <3>1. got = w.pending \o From(t, w.offset) /\ new = Parsed(Complete(got))
      BY <2>3
    <3>2. Pending(got) \in Seq(Piece) /\ new \in Seq(Nat)
      BY <2>2, <3>1, ReadMakes, Zenon
    <3>3. PICK told \in Seq(Nat), more \in Seq(Nat) :
             told = posted[f] /\ more = Without(new, lost)
      BY <2>4, <3>2, WithoutIs, Zenon
    <3>4. told \o more \in Seq(Nat)
      OBVIOUS
    <3>. QED  BY <2>4, <3>2, <3>3, <3>4, Zenon
  <2>6. PICK v : v = [w EXCEPT !.offset = o, !.pending = p]
    OBVIOUS
  <2>7. /\ v \in Watcher /\ v # Absent
        /\ v.offset = o /\ v.pending = p /\ v.base = w.base /\ v.shrunk = w.shrunk
    <3>1. PICK q \in Nat, b \in Nat, r \in Seq(Piece), x \in BOOLEAN :
             w = [offset |-> q, pending |-> r, base |-> b, shrunk |-> x]
      BY <2>2 DEF Watcher
    <3>2. v = [offset |-> o, pending |-> p, base |-> b, shrunk |-> x]
      BY <2>6, <3>1
    <3>3. [offset |-> o, pending |-> p, base |-> b, shrunk |-> x] \in Watcher
      BY SMT DEF Watcher
    <3>4. v.offset = o /\ v.pending = p /\ v.base = b /\ w.base = b
      BY <3>1, <3>2
    <3>5. v.shrunk = w.shrunk
      BY <3>1, <3>2
    <3>6. v \in Watcher
      BY <3>2, <3>3
    <3>. QED  BY <3>4, <3>5, <3>6, AbsentAssumption
  <2>8. watcher' = [watcher EXCEPT ![f] = v]
    BY <2>3, <2>5, <2>6 DEF OffsetAfter
  <2>9. /\ watcher'[f] = v /\ posted'[f] = u
        /\ clean'[f] = (clean[f] /\ lost = {} /\ Len(t) = thread.len)
        /\ \A g \in File : g # f => /\ watcher'[g] = watcher[g]
                                    /\ posted'[g] = posted[g] /\ clean'[g] = clean[g]
    BY <2>1, <2>3, <2>4, <2>5, <2>8
  <2>10. TailType'
    <3>1. watcher' \in [File -> Watcher \union {Absent}]
      BY <2>4, <2>7, <2>8
    <3>2. posted' \in [File -> Seq(Nat)]
      BY <2>3, <2>4, <2>5
    <3>3. clean' \in [File -> BOOLEAN]
      BY <2>3, <2>4
    <3>. QED  BY <1>1, <2>3, <3>1, <3>2, <3>3 DEF TailType
  <2>11. \A g \in File : Attached(g) => Attached(g)'
    BY <2>7, <2>9 DEF Attached
  <2>12. ThreadInv' /\ thread'.pc \in {"poll", "loop"}
    BY <1>1, <1>2, <2>3, <2>11, AdvanceIs
  <2>13. \A g \in File : ~Attaching(g) /\ ~Attaching(g)'
    BY <1>2, <2>12 DEF Attaching
  <2>14. FileInv(f)'
    <3>1. TextInv(f)'
      BY <1>1, <1>2, <1>5, <2>3 DEF FileInv, TextInv
    <3>2. StartupInv(f)'
      BY <1>1, <2>3, <2>9 DEF FileInv, StartupInv, Halfway
    <3>3. AttachingInv(f)'
      BY <2>7, <2>9, <2>13 DEF AttachingInv, Attached
    <3>4. ASSUME clean'[f]
          PROVE  /\ IsPrefix(u, due[f])
                 /\ WatcherInv(t, v)
                 /\ due[f] = u \o Owed(t, Read(v), v.base)
      <4>1. clean[f] /\ lost = {} /\ Len(t) = thread.len
        BY <2>9, <3>4
      <4>2. /\ WatcherInv(t, w) /\ ~w.shrunk /\ w.offset < Len(t)
            /\ due[f] = posted[f] \o Owed(t, Read(w), w.base)
            /\ IsTranscript(t, begun[f])
        BY <1>1, <1>2, <1>3, <1>5, <2>1, <4>1
           DEF FileInv, AttachedInv, TextInv
      <4>3. /\ new = Owed(t, w.offset, w.base)
            /\ p = IF ~IsRest(t, Len(t)) THEN <<t[Len(t)]>> ELSE <<>>
        BY <2>2, <2>3, <2>5, <4>2, ReadIs
      <4>4. due[f] = u
        <5>1. Without(new, lost) = new
          BY <2>5, <4>1, WithoutNone
        <5>. QED  BY <2>5, <4>2, <4>3, <5>1 DEF Read
      <4>5. Read(v) = o /\ ~v.shrunk /\ o = Len(t)
        BY <2>5, <2>7, <4>1, <4>2 DEF Read
      <4>6. Owed(t, Read(v), v.base) = <<>>
        <5>1. Len(t) <= o
          BY <4>5
        <5>. QED  BY <2>2, <4>5, <5>1, OwedNone
      <4>7. u \o <<>> = u
        BY ConcatEmptySeq
      <4>8. IsPrefix(u, due[f])
        <5>1. <<>> \in Seq(Nat)
          OBVIOUS
        <5>. QED  BY <4>4, <4>7, <5>1, PrefixConcat
      <4>9. WatcherInv(t, v)
        <5>1. w.base <= w.offset /\ w.base \in Nat /\ w.offset \in Nat
          BY <2>2, <4>2 DEF WatcherInv, Watcher
        <5>2. w.base <= o /\ o <= Len(t) /\ o > w.base
          BY <4>2, <4>5, <5>1
        <5>. QED  BY <2>7, <4>3, <4>5, <5>2 DEF WatcherInv
      <4>. QED  BY <4>4, <4>6, <4>7, <4>8, <4>9
    <3>5. AttachedInv(f)'
      BY <2>1, <2>3, <2>9, <2>12, <3>4 DEF AttachedInv
    <3>. QED  BY <3>1, <3>2, <3>3, <3>5 DEF FileInv
  <2>15. ASSUME NEW g \in File, g # f PROVE FileInv(g)'
    <3>1. Same(g)
      BY <2>3, <2>9, <2>15 DEF Same
    <3>2. Elsewhere(g)
      BY <1>2, <2>12, <2>13, <2>15 DEF Elsewhere
    <3>. QED  BY <1>1, <3>1, <3>2, FileKept
  <2>. QED  BY <2>10, <2>12, <2>14, <2>15 DEF TailInv
<1>. QED  BY <1>4, <1>5

---------------------------------------------------------------------------
(* Theorems.                                                               *)

LEMMA TailStep == TailInv /\ [TailNext]_tailVars => TailInv'
<1>. SUFFICES ASSUME TailInv, [TailNext]_tailVars PROVE TailInv'
  OBVIOUS
<1>1. CASE AttachRead
  BY <1>1, AttachReadStep
<1>2. CASE StartPoll
  BY <1>2, StartPollStep
<1>3. CASE PollStat
  BY <1>3, PollStatStep
<1>4. CASE PollRead
  BY <1>4, PollReadStep
<1>5. ASSUME NEW f \in File, Begin(f) PROVE TailInv'
  BY <1>5, BeginStep
<1>6. ASSUME NEW f \in File, Finish(f) PROVE TailInv'
  BY <1>6, FinishStep
<1>7. ASSUME NEW f \in File, Truncate(f) PROVE TailInv'
  BY <1>7, TruncateStep
<1>8. ASSUME NEW f \in File, Delete(f) PROVE TailInv'
  BY <1>8, DeleteStep
<1>9. ASSUME NEW f \in File, AttachStat(f) PROVE TailInv'
  BY <1>9, AttachStatStep
<1>10. CASE UNCHANGED tailVars
  <2>1. TailType /\ ThreadInv
    BY DEF TailInv
  <2>2. /\ UNCHANGED <<agent, watchers, watcher, startup, posted, clean>>
        /\ thread' = thread
    BY <1>10 DEF tailVars
  <2>3. ThreadInv'
    BY <2>1, <2>2, ThreadKept DEF Attached
  <2>4. \A f \in File : Elsewhere(f)
    BY <2>2, SameThread
  <2>. QED  BY <2>2, <2>3, <2>4, OnlyThread
<1>. QED  BY <1>1, <1>2, <1>3, <1>4, <1>5, <1>6, <1>7, <1>8, <1>9, <1>10
          DEF TailNext, Step

\* What a watcher owes of its file is what it posted and the lines that end
\* behind its offset, whatever the polls, the agents and the thread do.
THEOREM TailInductive == TailSpec => []TailInv
BY TailInitially, TailStep, PTL DEF TailSpec

\* For any files, lines, truncations and deletions, a watcher posts each line
\* written since it was attached once, whole and in order, unless a poll met a
\* growing file, a post failed or a truncation lost or hid what was written.
THEOREM TailsExactly == TailSpec => []TailIsExact
<1>1. TailInv => TailIsExact
  <2>. SUFFICES ASSUME TailInv, NEW f \in File, clean[f], Attached(f)
                PROVE  /\ IsPrefix(posted[f], due[f])
                       /\ CaughtUp(f) /\ ~watcher[f].shrunk => posted[f] = due[f]
    BY DEF TailIsExact
  <2>1. TailType /\ AttachedInv(f)
    BY DEF TailInv, FileInv
  <2>2. IsPrefix(posted[f], due[f])
    BY <2>1 DEF AttachedInv
  <2>3. ASSUME CaughtUp(f), ~watcher[f].shrunk PROVE posted[f] = due[f]
    <3>1. text[f] # Absent /\ watcher[f].offset = Len(text[f])
      BY <2>3 DEF CaughtUp
    <3>2. PICK t, w : t = text[f] /\ w = watcher[f]
      OBVIOUS
    <3>3. t \in Seq(Piece) /\ w \in Watcher /\ posted[f] \in Seq(Nat)
      BY <2>1, <3>1, <3>2 DEF TailType, Attached
    <3>4. due[f] = posted[f] \o Owed(t, w.offset, w.base)
      BY <2>1, <2>3, <3>1, <3>2 DEF AttachedInv, Read
    <3>5. w.offset \in Nat /\ Len(t) <= w.offset
      BY <3>1, <3>2, <3>3 DEF Watcher
    <3>6. Owed(t, w.offset, w.base) = <<>>
      BY <3>3, <3>5, OwedNone
    <3>7. posted[f] \o <<>> = posted[f]
      BY <3>3, ConcatEmptySeq
    <3>. QED  BY <3>4, <3>6, <3>7
  <2>. QED  BY <2>2, <2>3
<1>. QED  BY <1>1, TailInductive, PTL

\* A list has what its prefix has.
LEMMA PrefixElements ==
    ASSUME NEW s \in Seq(Nat), NEW u \in Seq(Nat), IsPrefix(s, u)
    PROVE  ToSet(s) \subseteq ToSet(u)
<1>1. PICK m \in Nat : m = Len(s) /\ DOMAIN s = 1..m
  BY LenProperties
<1>2. PICK k \in Nat : k = Len(u) /\ DOMAIN u = 1..k
  BY LenProperties
<1>3. m <= k /\ SubSeq(s, 1, m) = SubSeq(u, 1, m)
  BY <1>1, <1>2 DEF IsPrefix
<1>4. \A i \in 1..m : SubSeq(s, 1, m)[i] = s[i]
  BY <1>1
<1>5. \A i \in 1..m : SubSeq(u, 1, m)[i] = u[i] /\ i \in 1..k
  BY <1>2, <1>3
<1>6. \A i \in 1..m : i \in DOMAIN u /\ s[i] = u[i]
  BY <1>2, <1>3, <1>4, <1>5
<1>. QED  BY <1>1, <1>6 DEF ToSet

\* No line is both replayed on attaching and tailed, nor taken for history
\* though it was written since, for any files and lines.
THEOREM BoundaryKept == TailSpec => []AttachBoundary
<1>1. TailInv => AttachBoundary
  <2>. SUFFICES ASSUME TailInv, NEW f \in File, clean[f]
                PROVE  startup[f] \intersect (ToSet(posted[f]) \union ToSet(due[f])) = {}
    BY DEF AttachBoundary
  <2>1. startup[f] \intersect ToSet(due[f]) = {}
    BY DEF TailInv, FileInv, StartupInv
  <2>2. posted[f] \in Seq(Nat) /\ due[f] \in Seq(Nat)
    BY DEF TailInv, TailType
  <2>3. CASE Attached(f)
    <3>1. IsPrefix(posted[f], due[f])
      BY <2>3 DEF TailInv, FileInv, AttachedInv
    <3>2. ToSet(posted[f]) \subseteq ToSet(due[f])
      BY <2>2, <3>1, PrefixElements
    <3>. QED  BY <2>1, <3>2
  <2>4. CASE ~Attached(f)
    <3>1. startup[f] = {}
      BY <2>4 DEF TailInv, FileInv, AttachingInv
    <3>. QED  BY <3>1
  <2>. QED  BY <2>3, <2>4
<1>. QED  BY <1>1, TailInductive, PTL

---------------------------------------------------------------------------
(***************************************************************************)
(* PART 2.  StoryCompiler.                                                 *)
(***************************************************************************)

---------------------------------------------------------------------------
(* What a step does.                                                       *)

EventsOf(w) == IF w = None THEN {} ELSE w.events

\* What TypeOK says of the window w of key k when n events came.
Sound(k, w, n) ==
    /\ w.live \subseteq w.events
    /\ w.events \subseteq 1..n
    /\ w.live = {} => IsTurn(k)

NewEvents == (count + 1)..count'

\* A step that returns no story.
Quiet == UNCHANGED <<recent, updates, emitted>>

\* A step that returns the story of window w under key k.
Tells(k, w, f, s) ==
    /\ IsNew(f)
    /\ f.project = ProjectOf[k[1]]
    /\ recent' = Remember(f)
    /\ emitted' = Append(emitted, Story(k, w, f, s))
    /\ w.live # {}
    /\ w.events \subseteq EventsOf(windows[k]) \union NewEvents
    /\ s => windows'[k] = None
    /\ ~s => f # updates[k] /\ updates'[k] = f
    /\ \A l \in Key : l # k => updates'[l] = updates[l]

\* Windows only gain the events that come.
Growth ==
    \A k \in Key :
        EventsOf(windows'[k]) \subseteq EventsOf(windows[k]) \union NewEvents

---------------------------------------------------------------------------
(* Lemmas about the operators.                                             *)

LEMMA KeysOfEvent ==
    ASSUME NEW e \in Events
    PROVE  /\ e \in Event
           /\ TurnKey(e) \in Key /\ IsTurn(TurnKey(e))
           /\ PrimaryKey(e) \in Key
<1>1. e \in Event
  BY EventsAssumption
<1>2. e.turn \in Turn /\ e.kind \in Kind
  BY <1>1 DEF Event
<1>3. FamilyOf[e.kind] \in Family
  BY <1>2 DEF Kind, FamilyOf, Family
<1>4. QED
  BY <1>1, <1>2, <1>3 DEF TurnKey, PrimaryKey, Key, IsTurn, Family

\* An event enters a window well (observe_with_publishable).
LEMMA ObserveProperties ==
    ASSUME count \in 0..MaxEvents, count < MaxEvents,
           NEW e \in Events, NEW w \in Window \union {NewWindow}
    PROVE  /\ Observe(w, e) \in Window
           /\ Observe(w, e).events = w.events \union {count + 1}
           /\ Observe(w, e).live =
                 IF e.startup THEN w.live ELSE w.live \union {count + 1}
<1>1. e \in Event
  BY KeysOfEvent
<1>2. /\ w.events \in SUBSET (1..MaxEvents) /\ w.live \in SUBSET (1..MaxEvents)
      /\ w.kinds \in SUBSET Kind /\ w.note \in Note \union {None}
      /\ w.commands \in Nat /\ w.score \in 0..100
  BY DEF Window, NewWindow
<1>3. count + 1 \in 1..MaxEvents
  BY LimitsAssumption
<1>4. Larger(w.score, Score[e.kind]) \in 0..100
  BY <1>1, <1>2, EventsAssumption DEF Larger, Event
<1>5. w.commands + (IF e.kind \in {"command", "tool"} THEN 1 ELSE 0) \in Nat
  BY <1>2
<1>6. e.kind \in Kind /\ e.note \in Note \union {None} /\ e.startup \in BOOLEAN
  BY <1>1 DEF Event
<1>7. QED
  BY <1>2, <1>3, <1>4, <1>5, <1>6 DEF Observe, Window

\* A window that is touched stays sound, gains the event at most, and rests on
\* activity if the event is not startup context (touch_window_with_key).
LEMMA TouchProperties ==
    ASSUME count \in 0..MaxEvents, count < MaxEvents,
           NEW e \in Events, NEW k \in Key,
           NEW ws \in [Key -> Window \union {None}],
           \A l \in Key : ws[l] # None => Sound(l, ws[l], count + 1),
           e.startup => IsTurn(k)
    PROVE  /\ Touch(ws, k, e) \in [Key -> Window \union {None}]
           /\ \A l \in Key : l # k => Touch(ws, k, e)[l] = ws[l]
           /\ Touch(ws, k, e)[k] \in Window
           /\ Sound(k, Touch(ws, k, e)[k], count + 1)
           /\ Touch(ws, k, e)[k].events = EventsOf(ws[k]) \union {count + 1}
           /\ ~e.startup => Touch(ws, k, e)[k].live # {}
<1> DEFINE w == IF ws[k] = None THEN NewWindow ELSE ws[k]
<1>1. w \in Window \union {NewWindow}
  OBVIOUS
<1>2. w.live \subseteq w.events /\ w.events \subseteq 1..(count + 1)
  BY DEF NewWindow, Sound
<1>3. w.events = EventsOf(ws[k])
  BY DEF NewWindow, EventsOf
<1>4. Touch(ws, k, e) = [ws EXCEPT ![k] = Observe(w, e)]
  BY DEF Touch
<1> HIDE DEF w
<1>5. /\ Observe(w, e) \in Window
      /\ Observe(w, e).events = w.events \union {count + 1}
      /\ Observe(w, e).live =
            IF e.startup THEN w.live ELSE w.live \union {count + 1}
  BY <1>1, ObserveProperties
<1>6. e.startup \in BOOLEAN
  BY KeysOfEvent DEF Event
<1>7. Sound(k, Observe(w, e), count + 1)
  <2>1. count + 1 \in 1..(count + 1)
    BY LimitsAssumption
  <2>2. Observe(w, e).live \subseteq Observe(w, e).events
    BY <1>2, <1>5
  <2>3. Observe(w, e).events \subseteq 1..(count + 1)
    BY <1>2, <1>5, <2>1
  <2>4. Observe(w, e).live = {} => IsTurn(k)
    BY <1>5, <1>6
  <2>5. QED
    BY <2>2, <2>3, <2>4 DEF Sound
<1>8. Touch(ws, k, e)[k] = Observe(w, e)
  BY <1>4
<1>9. QED
  BY <1>3, <1>4, <1>5, <1>7, <1>8

\* What ingest gathers (touch_turn_rollup, then touch_window_with_key).
LEMMA GatherProperties ==
    ASSUME TypeOK, count < MaxEvents, NEW e \in Events
    PROVE  /\ Gather(e) \in [Key -> Window \union {None}]
           /\ \A k \in Key : Gather(e)[k] # None =>
                 Sound(k, Gather(e)[k], count + 1)
           /\ \A k \in Key : EventsOf(Gather(e)[k]) \subseteq
                 EventsOf(windows[k]) \union {count + 1}
           /\ ~e.startup =>
                 /\ Gather(e)[PrimaryKey(e)] \in Window
                 /\ Gather(e)[PrimaryKey(e)].live # {}
                 /\ Gather(e)[PrimaryKey(e)].events \subseteq
                       EventsOf(windows[PrimaryKey(e)]) \union {count + 1}
<1> DEFINE t == TurnKey(e)
           p == PrimaryKey(e)
           rolled == IF t = p THEN windows ELSE Touch(windows, t, e)
<1>1. t \in Key /\ IsTurn(t) /\ p \in Key
  BY KeysOfEvent
<1>2. count \in 0..MaxEvents /\ windows \in [Key -> Window \union {None}]
  BY DEF TypeOK
<1>3. \A l \in Key : windows[l] # None => Sound(l, windows[l], count + 1)
  <2> SUFFICES ASSUME NEW l \in Key, windows[l] # None
               PROVE  Sound(l, windows[l], count + 1)
    OBVIOUS
  <2>1. /\ windows[l].live \subseteq windows[l].events
        /\ windows[l].events \subseteq 1..count
        /\ windows[l].live = {} => IsTurn(l)
    BY DEF TypeOK
  <2>2. 1..count \subseteq 1..(count + 1)
    BY <1>2, LimitsAssumption
  <2>3. QED
    BY <2>1, <2>2 DEF Sound
<1>4. Gather(e) = IF e.startup /\ t # p THEN rolled ELSE Touch(rolled, p, e)
  BY DEF Gather
<1> HIDE DEF t, p
<1>5. /\ rolled \in [Key -> Window \union {None}]
      /\ \A l \in Key : rolled[l] # None => Sound(l, rolled[l], count + 1)
      /\ rolled[p] = windows[p]
      /\ \A l \in Key : EventsOf(rolled[l]) \subseteq
            EventsOf(windows[l]) \union {count + 1}
  <2>1. CASE t = p
    BY <1>2, <1>3, <2>1
  <2>2. CASE t # p
    <3> DEFINE r == Touch(windows, t, e)
    <3>1. /\ r \in [Key -> Window \union {None}]
          /\ \A l \in Key : l # t => r[l] = windows[l]
          /\ Sound(t, r[t], count + 1)
          /\ r[t].events = EventsOf(windows[t]) \union {count + 1}
      BY <1>1, <1>2, <1>3, TouchProperties
    <3>2. rolled = r
      BY <2>2
    <3> HIDE DEF r, rolled
    <3>3. \A l \in Key : r[l] # None => Sound(l, r[l], count + 1)
      BY <1>3, <3>1
    <3>4. \A l \in Key : EventsOf(r[l]) \subseteq
             EventsOf(windows[l]) \union {count + 1}
      BY <3>1 DEF EventsOf
    <3>5. QED
      BY <1>1, <2>2, <3>1, <3>2, <3>3, <3>4
  <2>3. QED
    BY <2>1, <2>2
<1> HIDE DEF rolled
<1>6. CASE e.startup /\ t # p
  BY <1>4, <1>5, <1>6
<1>7. CASE ~(e.startup /\ t # p)
  <2> DEFINE g == Touch(rolled, p, e)
  <2>1. e.startup => IsTurn(p)
    BY <1>1, <1>7
  <2>2. /\ g \in [Key -> Window \union {None}]
        /\ \A l \in Key : l # p => g[l] = rolled[l]
        /\ g[p] \in Window
        /\ Sound(p, g[p], count + 1)
        /\ g[p].events = EventsOf(rolled[p]) \union {count + 1}
        /\ ~e.startup => g[p].live # {}
    BY <1>1, <1>2, <1>5, <2>1, TouchProperties
  <2>3. Gather(e) = g
    BY <1>4, <1>7
  <2> HIDE DEF g
  <2>4. \A k \in Key : g[k] # None => Sound(k, g[k], count + 1)
    BY <1>5, <2>2
  <2>5. \A k \in Key : EventsOf(g[k]) \subseteq
           EventsOf(windows[k]) \union {count + 1}
    BY <1>5, <2>2 DEF EventsOf
  <2>6. QED
    BY <1>5, <2>2, <2>3, <2>4, <2>5 DEF p
<1>8. QED
  BY <1>6, <1>7

\* Every wording has a fingerprint of its type.
LEMMA FingerprintProperties ==
    ASSUME NEW k \in Key, NEW w \in Window
    PROVE  /\ Fingerprint(k, Copy(k, w), "final") \in Mark
           /\ Update(k, w) # None => Fingerprint(k, Update(k, w), w.note) \in Mark
<1>1. w.kinds \in SUBSET Kind /\ w.note \in Note \union {None}
  BY DEF Window
<1>2. k[1] \in Turn /\ k[2] \in Family
  BY DEF Key
<1>3. Copy(k, w) \in Wording
  <2>1. ASSUME w.note # None
        PROVE  /\ Telling(w.note, ProjectOf[k[1]]) \in Note \union Topic \union {Masked}
               /\ Sentence(w.note) \in Note \union {Masked}
    BY <1>1, <2>1, ImpactAssumption DEF Telling, Sentence, IsRewritten
  <2>2. Copy(k, w).note \in Note \union Topic \union {Masked, None}
    BY <2>1 DEF Copy
  <2>3. Copy(k, w).kinds \in SUBSET Kind
    BY <1>1 DEF Copy, Kind
  <2>4. Copy(k, w) = [kinds |-> Copy(k, w).kinds, note |-> Copy(k, w).note]
    BY DEF Copy
  <2>5. QED
    BY <2>2, <2>3, <2>4 DEF Wording
<1>4. Checkpoint(k, w) \in Wording \union {None}
  <2>1. {"fail"} \in SUBSET Kind /\ w.kinds \intersect {"pass", "edit"} \in SUBSET Kind
    BY <1>1 DEF Kind
  <2>2. QED
    BY <2>1 DEF Checkpoint, Wording
<1>5. Update(k, w) \in Wording \union {None}
  BY <1>3, <1>4 DEF Update
<1>6. ASSUME NEW c \in Wording, NEW x \in Note \union {None, "final"}
      PROVE  Fingerprint(k, c, x) \in Mark
  BY <1>2 DEF Fingerprint, Mark
<1>7. QED
  BY <1>1, <1>3, <1>5, <1>6

\* The list of recent fingerprints after one more: the end of the longer list
\* (the pop_front loop of accept_story_with_extra).
LEMMA RememberProperties ==
    ASSUME recent \in Seq(Mark), NEW f \in Mark
    PROVE  LET all == Append(recent, f)
               dropped == IF Len(all) > DedupeWindow
                          THEN Len(all) - DedupeWindow ELSE 0
           IN  /\ Remember(f) \in Seq(Mark)
               /\ Len(Remember(f)) = Len(all) - dropped
               /\ \A i \in 1..Len(Remember(f)) :
                     Remember(f)[i] = all[dropped + i]
<1> DEFINE all == Append(recent, f)
           first == IF Len(all) > DedupeWindow
                    THEN Len(all) - DedupeWindow + 1 ELSE 1
           dropped == IF Len(all) > DedupeWindow
                      THEN Len(all) - DedupeWindow ELSE 0
<1> USE LimitsAssumption
<1>1. all \in Seq(Mark)
  OBVIOUS
<1>2. Remember(f) = SubSeq(all, first, Len(all))
  BY DEF Remember
<1> HIDE DEF all
<1>3. Len(all) \in Nat /\ first \in Int /\ first >= 1
  BY <1>1, LenProperties
<1>4. \A i \in first..Len(all) : all[i] \in Mark
  BY <1>1, <1>3, ElementOfSeq
<1> HIDE DEF first
<1>5. /\ SubSeq(all, first, Len(all)) \in Seq(Mark)
      /\ Len(SubSeq(all, first, Len(all))) =
            IF first <= Len(all) THEN Len(all) - first + 1 ELSE 0
      /\ \A i \in 1..(Len(all) - first + 1) :
            SubSeq(all, first, Len(all))[i] = all[first + i - 1]
  BY <1>3, <1>4, SubSeqProperties
<1>6. first = dropped + 1 /\ dropped \in Nat /\ dropped <= Len(all)
  BY <1>3 DEF first, dropped
<1> HIDE DEF dropped
<1>7. /\ Remember(f) \in Seq(Mark)
      /\ Len(Remember(f)) = Len(all) - dropped
      /\ \A i \in 1..Len(Remember(f)) : Remember(f)[i] = all[dropped + i]
  <2>1. Len(Remember(f)) = Len(all) - dropped
    BY <1>2, <1>3, <1>5, <1>6
  <2>2. \A i \in 1..(Len(all) - dropped) : first + i - 1 = dropped + i
    BY <1>3, <1>6
  <2>3. QED
    BY <1>2, <1>3, <1>5, <1>6, <2>1, <2>2
<1>8. QED
  BY <1>7 DEF all, dropped

\* A settled window goes, and its story is told or nothing is.
LEMMA SettleProperties ==
    ASSUME NEW ws \in [Key -> Window \union {None}], NEW k \in Key,
           ws[k] \in Window, Settle(ws, k)
    PROVE  /\ windows' \in [Key -> Window \union {None}]
           /\ windows'[k] = None
           /\ \A l \in Key : l # k => windows'[l] = ws[l]
           /\ \/ UNCHANGED <<recent, emitted>>
              \/ \E f \in Mark :
                    /\ IsNew(f)
                    /\ f.project = ProjectOf[k[1]]
                    /\ recent' = Remember(f)
                    /\ emitted' = Append(emitted, Story(k, ws[k], f, TRUE))
<1> DEFINE f == Fingerprint(k, Copy(k, ws[k]), "final")
<1>1. f \in Mark /\ f.project = ProjectOf[k[1]]
  BY FingerprintProperties DEF Fingerprint
<1>2. windows' = [ws EXCEPT ![k] = None]
  BY DEF Settle
<1>3. \/ UNCHANGED <<recent, emitted>>
      \/ Accept(k, ws[k], f, TRUE)
  BY DEF Settle
<1> HIDE DEF f
<1>4. QED
  BY <1>1, <1>2, <1>3 DEF Accept

---------------------------------------------------------------------------
(* Every step is quiet or tells one story.                                 *)

TellsOne == \E k \in Key, w \in Window, f \in Mark, s \in BOOLEAN : Tells(k, w, f, s)

\* What TypeOK and the step say of the variables a window of key k is in.
StepLemma ==
    /\ windows' \in [Key -> Window \union {None}]
    /\ updates' \in [Key -> Mark \union {None}]
    /\ flushing' \subseteq {k \in Key : windows'[k] # None}
    /\ count' \in 0..MaxEvents /\ count <= count'
    /\ \A k \in Key : windows'[k] # None => Sound(k, windows'[k], count')
    /\ Growth
    /\ Quiet \/ TellsOne

\* The events one ingest brings.
LEMMA IngestStep ==
    ASSUME TypeOK, NEW e \in Events, IngestGathering(e) \/ IngestSettling(e)
    PROVE  StepLemma
<1> DEFINE g == Gather(e)
           p == PrimaryKey(e)
<1>1. /\ count \in 0..MaxEvents /\ count < MaxEvents /\ count' = count + 1
      /\ updates' = updates /\ flushing = {} /\ flushing' = {}
      /\ updates \in [Key -> Mark \union {None}]
      /\ windows \in [Key -> Window \union {None}]
  BY DEF TypeOK, IngestGathering, IngestSettling, Arrives
<1>2. count' \in 0..MaxEvents /\ count <= count' /\ NewEvents = {count + 1}
  BY <1>1, LimitsAssumption DEF NewEvents
<1>3. p \in Key
  BY KeysOfEvent
<1>4. /\ g \in [Key -> Window \union {None}]
      /\ \A k \in Key : g[k] # None => Sound(k, g[k], count + 1)
      /\ \A k \in Key : EventsOf(g[k]) \subseteq
            EventsOf(windows[k]) \union {count + 1}
      /\ ~e.startup =>
            /\ g[p] \in Window
            /\ g[p].live # {}
            /\ g[p].events \subseteq EventsOf(windows[p]) \union {count + 1}
  BY <1>1, GatherProperties
<1>5. CASE IngestGathering(e)
  <2>1. windows' = g /\ UNCHANGED <<recent, emitted>>
    BY <1>5 DEF IngestGathering
  <2> HIDE DEF g
  <2>2. Growth
    BY <1>2, <1>4, <2>1 DEF Growth
  <2>3. QED
    BY <1>1, <1>2, <1>4, <2>1, <2>2 DEF StepLemma, Quiet
<1>6. CASE IngestSettling(e)
  <2>1. ~e.startup /\ Settle(g, p)
    BY <1>6 DEF IngestSettling, Gathers
  <2> HIDE DEF g, p
  <2>2. /\ windows' \in [Key -> Window \union {None}]
        /\ windows'[p] = None
        /\ \A l \in Key : l # p => windows'[l] = g[l]
        /\ \/ UNCHANGED <<recent, emitted>>
           \/ \E f \in Mark :
                 /\ IsNew(f)
                 /\ f.project = ProjectOf[p[1]]
                 /\ recent' = Remember(f)
                 /\ emitted' = Append(emitted, Story(p, g[p], f, TRUE))
    BY <1>3, <1>4, <2>1, SettleProperties
  <2>3. \A k \in Key : windows'[k] # None => Sound(k, windows'[k], count')
    BY <1>1, <1>4, <2>2
  <2>4. Growth
    BY <1>2, <1>4, <2>2 DEF Growth, EventsOf
  <2>5. Quiet \/ TellsOne
    <3>1. CASE UNCHANGED <<recent, emitted>>
      BY <1>1, <3>1 DEF Quiet
    <3>2. ASSUME NEW f \in Mark, IsNew(f), f.project = ProjectOf[p[1]],
                 recent' = Remember(f),
                 emitted' = Append(emitted, Story(p, g[p], f, TRUE))
          PROVE  TellsOne
      <4>1. Tells(p, g[p], f, TRUE)
        BY <1>1, <1>2, <1>4, <2>1, <2>2, <3>2 DEF Tells
      <4>2. QED
        BY <1>3, <1>4, <2>1, <4>1 DEF TellsOne
    <3>3. QED
      BY <2>2, <3>1, <3>2
  <2>6. QED
    BY <1>1, <1>2, <2>2, <2>3, <2>4, <2>5 DEF StepLemma
<1>7. QED
  BY <1>5, <1>6

\* One window of a flush: an update, a window kept, or a window settled.
LEMMA FlushStep ==
    ASSUME TypeOK, NEW k \in Key, FlushNext(k)
    PROVE  StepLemma
<1> DEFINE w == windows[k]
<1>1. /\ windows \in [Key -> Window \union {None}]
      /\ updates \in [Key -> Mark \union {None}]
      /\ flushing \subseteq {l \in Key : windows[l] # None}
      /\ count \in 0..MaxEvents
      /\ count' = count /\ flushing' = flushing \ {k} /\ k \in flushing
      /\ count' \in 0..MaxEvents /\ count <= count'
  BY LimitsAssumption DEF TypeOK, FlushNext
<1>2. w \in Window /\ w # None
  BY <1>1
<1>3. \A l \in Key : windows[l] # None => Sound(l, windows[l], count)
  BY DEF TypeOK, Sound
<1>4. ASSUME windows' = windows
      PROVE  /\ windows' \in [Key -> Window \union {None}]
             /\ flushing' \subseteq {l \in Key : windows'[l] # None}
             /\ \A l \in Key : windows'[l] # None => Sound(l, windows'[l], count')
             /\ Growth
  BY <1>1, <1>3, <1>4 DEF Growth
<1>5. CASE FlushUpdate(k, w)
  <2> DEFINE f == Fingerprint(k, Update(k, w), w.note)
  <2>1. w.live # {} /\ f \in Mark /\ windows' = windows
    BY <1>2, <1>5, FingerprintProperties DEF FlushUpdate, UpdateDue, HasActivity
  <2>6. f.project = ProjectOf[k[1]]
    BY DEF Fingerprint
  <2>2. IF IsChange(k, f)
        THEN /\ Accept(k, w, f, FALSE)
             /\ updates' = IF IsNew(f) THEN [updates EXCEPT ![k] = f]
                           ELSE updates
        ELSE UNCHANGED <<recent, updates, emitted>>
    BY <1>5 DEF FlushUpdate
  <2> HIDE DEF f
  <2>3. updates' \in [Key -> Mark \union {None}]
    BY <1>1, <2>1, <2>2
  <2>4. Quiet \/ TellsOne
    <3>1. CASE IsChange(k, f) /\ IsNew(f)
      <4>1. /\ recent' = Remember(f)
            /\ emitted' = Append(emitted, Story(k, w, f, FALSE))
            /\ updates' = [updates EXCEPT ![k] = f]
        BY <2>2, <3>1 DEF Accept
      <4>2. w.events \subseteq EventsOf(windows[k]) \union NewEvents
        BY <1>2 DEF EventsOf
      <4>3. Tells(k, w, f, FALSE)
        BY <1>1, <2>1, <2>6, <3>1, <4>1, <4>2 DEF Tells, IsChange
      <4>4. QED
        BY <1>2, <2>1, <4>3 DEF TellsOne
    <3>2. CASE ~(IsChange(k, f) /\ IsNew(f))
      BY <2>2, <3>2 DEF Quiet, Accept
    <3>3. QED
      BY <3>1, <3>2
  <2>5. QED
    BY <1>1, <1>4, <2>1, <2>3, <2>4 DEF StepLemma
<1>6. CASE FlushRetain(k, w)
  BY <1>1, <1>4, <1>6 DEF FlushRetain, StepLemma, Quiet
<1>7. CASE FlushSettle(k, w)
  <2>1. w.live # {} /\ Settle(windows, k)
    BY <1>7 DEF FlushSettle, Retained, HasActivity
  <2>2. updates' = IF emitted' = emitted THEN updates
                   ELSE [updates EXCEPT ![k] = None]
    BY <1>7 DEF FlushSettle
  <2>3. /\ windows' \in [Key -> Window \union {None}]
        /\ windows'[k] = None
        /\ \A l \in Key : l # k => windows'[l] = windows[l]
        /\ \/ UNCHANGED <<recent, emitted>>
           \/ \E f \in Mark :
                 /\ IsNew(f)
                 /\ f.project = ProjectOf[k[1]]
                 /\ recent' = Remember(f)
                 /\ emitted' = Append(emitted, Story(k, windows[k], f, TRUE))
    BY <1>1, <1>2, <2>1, SettleProperties
  <2>4. updates' \in [Key -> Mark \union {None}]
    BY <1>1, <2>2
  <2>5. flushing' \subseteq {l \in Key : windows'[l] # None}
    BY <1>1, <2>3
  <2>6. \A l \in Key : windows'[l] # None => Sound(l, windows'[l], count')
    BY <1>1, <1>3, <2>3
  <2>7. Growth
    BY <2>3 DEF Growth, EventsOf
  <2>8. Quiet \/ TellsOne
    <3>1. CASE UNCHANGED <<recent, emitted>>
      BY <2>2, <3>1 DEF Quiet
    <3>2. ASSUME NEW f \in Mark, IsNew(f), f.project = ProjectOf[k[1]],
                 recent' = Remember(f),
                 emitted' = Append(emitted, Story(k, w, f, TRUE))
          PROVE  TellsOne
      <4>1. w.events \subseteq EventsOf(windows[k]) \union NewEvents
        BY <1>2 DEF EventsOf
      <4>2. \A l \in Key : l # k => updates'[l] = updates[l]
        BY <1>1, <2>2
      <4>3. Tells(k, w, f, TRUE)
        BY <2>1, <2>3, <3>2, <4>1, <4>2 DEF Tells
      <4>4. QED
        BY <1>2, <4>3 DEF TellsOne
    <3>3. QED
      BY <2>3, <3>1, <3>2
  <2>9. QED
    BY <1>1, <2>3, <2>4, <2>5, <2>6, <2>7, <2>8 DEF StepLemma
<1>8. QED
  BY <1>5, <1>6, <1>7 DEF FlushNext

\* Every step, a stutter included.
LEMMA AnyStep ==
    ASSUME TypeOK, [Next]_vars
    PROVE  StepLemma
<1>1. CASE FlushStart \/ UNCHANGED vars
  <2>1. /\ UNCHANGED <<windows, recent, updates, emitted, count>>
        /\ flushing' \subseteq {k \in Key : windows[k] # None}
    BY <1>1 DEF FlushStart, vars, TypeOK
  <2>2. \A k \in Key : windows[k] # None => Sound(k, windows[k], count)
    BY DEF TypeOK, Sound
  <2>3. Growth
    BY <2>1 DEF Growth
  <2>4. QED
    BY <2>1, <2>2, <2>3, LimitsAssumption DEF TypeOK, StepLemma, Quiet
<1>2. ASSUME NEW k \in Key, FlushNext(k)
      PROVE  StepLemma
  BY <1>2, FlushStep
<1>3. ASSUME NEW e \in Events, IngestGathering(e) \/ IngestSettling(e)
      PROVE  StepLemma
  BY <1>3, IngestStep
<1>4. QED
  BY <1>1, <1>2, <1>3 DEF Next

---------------------------------------------------------------------------
(* Type correctness.                                                       *)

\* Every step keeps the types and the bound of the recent list.
LEMMA TypeStep == TypeOK /\ [Next]_vars => TypeOK'
<1> SUFFICES ASSUME TypeOK, [Next]_vars
             PROVE  TypeOK'
  OBVIOUS
<1>1. StepLemma
  BY AnyStep
<1>2. recent' \in Seq(Mark) /\ Len(recent') <= DedupeWindow
  <2>1. CASE Quiet
    BY <2>1 DEF Quiet, TypeOK
  <2>2. ASSUME NEW k \in Key, NEW w \in Window, NEW f \in Mark,
               NEW s \in BOOLEAN, Tells(k, w, f, s)
        PROVE  recent' \in Seq(Mark) /\ Len(recent') <= DedupeWindow
    <3>1. recent \in Seq(Mark) /\ Len(recent) \in Nat
      BY LenProperties DEF TypeOK
    <3>2. recent' = Remember(f)
      BY <2>2 DEF Tells
    <3>3. Len(Append(recent, f)) = Len(recent) + 1
      BY <3>1
    <3>4. QED
      BY <3>1, <3>2, <3>3, RememberProperties, LimitsAssumption
  <2>3. QED
    BY <1>1, <2>1, <2>2 DEF StepLemma, TellsOne
<1>3. QED
  BY <1>1, <1>2 DEF StepLemma, Sound, TypeOK

\* The compiler starts well typed.
LEMMA TypeInit == Init => TypeOK
BY LimitsAssumption DEF Init, TypeOK

\* Windows, the recent list and the remembered updates keep their types, and
\* the list never outgrows the dedupe window, whatever events come.
THEOREM TypeCorrect == Spec => []TypeOK
BY TypeInit, TypeStep, PTL DEF Spec

---------------------------------------------------------------------------
(* The stories told: the inductive invariant and its four consequences.    *)

StoryType == [key : Key, print : Mark, events : SUBSET Nat,
              live : SUBSET Nat, settled : BOOLEAN]

\* The events of a story came.
AllCame == \A i \in 1..Len(emitted) : emitted[i].events \subseteq 1..count

\* The recent fingerprints are those of the last stories.
RecentIsEnd ==
    /\ Len(recent) = IF Len(emitted) > DedupeWindow THEN DedupeWindow
                     ELSE Len(emitted)
    /\ \A i \in 1..Len(recent) :
          recent[i] = emitted[Len(emitted) - Len(recent) + i].print

\* The last story of a key, if an update, is the update remembered.
UpdatesKept ==
    \A i \in 1..Len(emitted) :
        /\ ~emitted[i].settled
        /\ \A m \in (i + 1)..Len(emitted) : emitted[m].key # emitted[i].key
        => updates[emitted[i].key] = emitted[i].print

IInv ==
    /\ TypeOK
    /\ emitted \in Seq(StoryType)
    /\ AllCame
    /\ RecentIsEnd
    /\ UpdatesKept
    /\ NoRecentRepeat
    /\ NoEventTwice
    /\ ContextNeverAlone
    /\ UpdatesDiffer

\* No story of a settled window shares an event with the window open for its
\* key now; the second part of NoEventTwice without a case for None.
LEMMA SettledApart ==
    NoEventTwice =>
        \A i \in 1..Len(emitted) : emitted[i].settled =>
            emitted[i].events \intersect EventsOf(windows[emitted[i].key]) = {}
BY DEF NoEventTwice, EventsOf

\* New events are in no story told so far.
LEMMA NewEventsApart ==
    ASSUME count \in Nat, AllCame, NEW i \in 1..Len(emitted)
    PROVE  emitted[i].events \intersect NewEvents = {}
<1>1. emitted[i].events \subseteq 1..count
  BY DEF AllCame
<1>2. (1..count) \intersect NewEvents = {}
  BY DEF NewEvents
<1>3. QED
  BY <1>1, <1>2

\* A step that tells nothing keeps the invariant.
LEMMA QuietStep ==
    ASSUME IInv, TypeOK', StepLemma, Quiet
    PROVE  IInv'
<1>1. /\ emitted' = emitted /\ recent' = recent /\ updates' = updates
      /\ emitted \in Seq(StoryType)
      /\ Len(emitted) \in Nat
  BY LenProperties DEF Quiet, IInv
<1>2. count \in Nat /\ count' \in Nat /\ count <= count'
  BY LimitsAssumption DEF IInv, TypeOK, StepLemma
<1>3. AllCame'
  <2>1. 1..count \subseteq 1..count'
    BY <1>2
  <2>2. AllCame
    BY DEF IInv
  <2>3. QED
    BY <1>1, <2>1, <2>2 DEF AllCame
<1>4. RecentIsEnd' /\ UpdatesKept'
  BY <1>1 DEF IInv, RecentIsEnd, UpdatesKept
<1>5. NoRecentRepeat' /\ ContextNeverAlone' /\ UpdatesDiffer'
  BY <1>1 DEF IInv, NoRecentRepeat, ContextNeverAlone, UpdatesDiffer
<1>6. NoEventTwice'
  <2>1. \A i \in 1..Len(emitted) : emitted[i].key \in Key
    <3>1. \A i \in 1..Len(emitted) : emitted[i] \in StoryType
      BY <1>1, ElementOfSeq
    <3>2. QED
      BY <3>1 DEF StoryType
  <2>2. ASSUME NEW i \in 1..Len(emitted), emitted[i].settled,
               windows'[emitted[i].key] # None
        PROVE  emitted[i].events \intersect windows'[emitted[i].key].events = {}
    <3> DEFINE l == emitted[i].key
    <3>1. windows'[l].events \subseteq EventsOf(windows[l]) \union NewEvents
      BY <2>1, <2>2 DEF StepLemma, Growth, EventsOf
    <3>2. emitted[i].events \intersect EventsOf(windows[l]) = {}
      BY <2>2, SettledApart DEF IInv
    <3>3. emitted[i].events \intersect NewEvents = {}
      BY <1>2, NewEventsApart DEF IInv
    <3>4. QED
      BY <3>1, <3>2, <3>3
  <2>3. NoEventTwice
    BY DEF IInv
  <2>4. QED
    BY <1>1, <2>2, <2>3 DEF NoEventTwice
<1>7. QED
  BY <1>1, <1>3, <1>4, <1>5, <1>6 DEF IInv

\* A step that tells a story keeps the invariant.
LEMMA TellingStep ==
    ASSUME IInv, TypeOK', StepLemma,
           NEW k \in Key, NEW w \in Window, NEW f \in Mark, NEW s \in BOOLEAN,
           Tells(k, w, f, s)
    PROVE  IInv'
<1> DEFINE n == Len(emitted)
           new == Story(k, w, f, s)
<1>1. /\ emitted \in Seq(StoryType)
      /\ n \in Nat
      /\ count \in Nat /\ count' \in Nat /\ count <= count'
      /\ recent \in Seq(Mark) /\ Len(recent) \in Nat
      /\ DedupeWindow \in Nat \ {0}
  BY LenProperties, LimitsAssumption DEF IInv, TypeOK, StepLemma
<1>2. new \in StoryType
  <2>1. w.events \in SUBSET Nat /\ w.live \in SUBSET Nat
    BY LimitsAssumption DEF Window
  <2>2. QED
    BY <2>1 DEF Story, StoryType
<1>3. /\ new.key = k /\ new.print = f /\ new.events = w.events
      /\ new.live = w.live /\ new.settled = s
  BY DEF Story
<1>4. emitted' = Append(emitted, new)
  BY DEF Tells
<1> HIDE DEF new
<1>5. /\ emitted' \in Seq(StoryType)
      /\ Len(emitted') = n + 1
      /\ \A i \in 1..n : emitted'[i] = emitted[i]
      /\ emitted'[n + 1] = new
  BY <1>1, <1>2, <1>4
<1>6. \A i \in 1..(n + 1) : i \in 1..n \/ i = n + 1
  BY <1>1
<1>7. \A i \in 1..n : emitted[i] \in StoryType
  BY <1>1, ElementOfSeq
<1>8. /\ w.events \subseteq EventsOf(windows[k]) \union NewEvents
      /\ w.live # {} /\ IsNew(f) /\ recent' = Remember(f)
      /\ s => windows'[k] = None
      /\ ~s => f # updates[k] /\ updates'[k] = f
      /\ \A l \in Key : l # k => updates'[l] = updates[l]
  BY DEF Tells
<1> HIDE DEF n
<1>9. AllCame'
  <2>1. 1..count \subseteq 1..count'
    BY <1>1
  <2>2. EventsOf(windows[k]) \subseteq 1..count
    BY DEF IInv, TypeOK, EventsOf
  <2>3. NewEvents \subseteq 1..count'
    BY <1>1 DEF NewEvents
  <2>4. \A i \in 1..n : emitted[i].events \subseteq 1..count
    BY DEF IInv, AllCame, n
  <2>5. w.events \subseteq 1..count'
    BY <1>8, <2>1, <2>2, <2>3
  <2>6. QED
    BY <1>3, <1>5, <1>6, <2>1, <2>4, <2>5 DEF AllCame
<1>10. RecentIsEnd'
  <2> DEFINE all == Append(recent, f)
             dropped == IF Len(all) > DedupeWindow
                        THEN Len(all) - DedupeWindow ELSE 0
             m == Len(recent)
  <2>1. /\ Len(recent') = Len(all) - dropped
        /\ \A i \in 1..Len(recent') : recent'[i] = all[dropped + i]
    BY <1>1, <1>8, RememberProperties
  <2>2. /\ Len(all) = m + 1
        /\ \A i \in 1..m : all[i] = recent[i]
        /\ all[m + 1] = f
    BY <1>1
  <2>3. /\ m = IF n > DedupeWindow THEN DedupeWindow ELSE n
        /\ \A i \in 1..m : recent[i] = emitted[n - m + i].print
    BY DEF IInv, RecentIsEnd, n
  <2>4. m \in Nat /\ m <= n
    BY <1>1, <2>3
  <2> HIDE DEF all, m
  <2>5. /\ dropped = IF m + 1 > DedupeWindow THEN m + 1 - DedupeWindow ELSE 0
        /\ Len(recent') = m + 1 - dropped
    BY <1>1, <2>1, <2>2, <2>4
  <2> HIDE DEF dropped
  <2>6. Len(recent') = IF n + 1 > DedupeWindow THEN DedupeWindow ELSE n + 1
    BY <1>1, <2>3, <2>4, <2>5
  <2>7. ASSUME NEW i \in 1..Len(recent')
        PROVE  recent'[i] = emitted'[n + 1 - Len(recent') + i].print
    <3>1. n + 1 - Len(recent') + i = n - m + (dropped + i)
      BY <1>1, <2>4, <2>5
    <3>2. dropped \in Nat /\ dropped <= m + 1 /\ i \in Nat
      BY <1>1, <2>4, <2>5
    <3>3. dropped + i \in 1..(m + 1)
      BY <2>4, <2>5, <3>2
    <3>4. recent'[i] = all[dropped + i]
      BY <2>1
    <3>5. CASE dropped + i = m + 1
      <4>1. n - m + (dropped + i) = n + 1
        BY <1>1, <2>4, <3>5
      <4>2. QED
        BY <1>3, <1>5, <2>2, <3>1, <3>4, <3>5, <4>1
    <3>6. CASE dropped + i \in 1..m
      <4>1. n - m + (dropped + i) \in 1..n
        BY <1>1, <2>4, <3>6
      <4>2. recent[dropped + i] = emitted[n - m + (dropped + i)].print
        BY <2>3, <3>6
      <4>3. QED
        BY <1>5, <2>2, <3>1, <3>4, <3>6, <4>1, <4>2
    <3>7. QED
      BY <2>4, <3>2, <3>3, <3>5, <3>6
  <2>8. /\ Len(recent') = IF Len(emitted') > DedupeWindow THEN DedupeWindow
                          ELSE Len(emitted')
        /\ \A i \in 1..Len(recent') :
              recent'[i] = emitted'[Len(emitted') - Len(recent') + i].print
    <3>1. Len(emitted') = n + 1
      BY <1>5
    <3>2. ASSUME NEW i \in 1..Len(recent')
          PROVE  recent'[i] = emitted'[Len(emitted') - Len(recent') + i].print
      <4>1. Len(recent') \in Int /\ i \in Int
        BY <1>1, <2>6
      <4>2. Len(emitted') - Len(recent') + i = n + 1 - Len(recent') + i
        BY <1>1, <3>1, <4>1
      <4>3. recent'[i] = emitted'[n + 1 - Len(recent') + i].print
        BY <2>7
      <4>4. QED
        BY <4>2, <4>3
    <3>3. QED
      BY <3>1, <3>2, <2>6
  <2>9. QED
    BY <2>8 DEF RecentIsEnd
<1>11. UpdatesKept'
  <2> SUFFICES ASSUME NEW i \in 1..(n + 1), ~emitted'[i].settled,
                      \A m \in (i + 1)..(n + 1) :
                          emitted'[m].key # emitted'[i].key
               PROVE  updates'[emitted'[i].key] = emitted'[i].print
    BY <1>5 DEF UpdatesKept
  <2>1. CASE i = n + 1
    BY <1>3, <1>5, <1>8, <2>1
  <2>2. CASE i \in 1..n
    <3>1. emitted'[i] = emitted[i] /\ emitted[i].key \in Key
      BY <1>5, <1>7, <2>2 DEF StoryType
    <3>2. n + 1 \in (i + 1)..(n + 1)
      BY <1>1, <2>2
    <3>3. emitted[i].key # k
      BY <1>3, <1>5, <3>1, <3>2
    <3>4. \A m \in (i + 1)..n : emitted[m].key # emitted[i].key
      <4>1. ASSUME NEW m \in (i + 1)..n PROVE emitted[m].key # emitted[i].key
        <5>1. m \in 1..n /\ m \in (i + 1)..(n + 1)
          BY <1>1, <2>2
        <5>2. emitted'[m] = emitted[m]
          BY <1>5, <5>1
        <5>. QED  BY <3>1, <5>1, <5>2
      <4>2. QED
        BY <4>1
    <3>5. updates[emitted[i].key] = emitted[i].print
      BY <2>2, <3>1, <3>4 DEF IInv, UpdatesKept, n
    <3>6. QED
      BY <1>8, <3>1, <3>3, <3>5
  <2>3. QED
    BY <1>6, <2>1, <2>2
<1>12. NoRecentRepeat'
  <2> SUFFICES ASSUME NEW i \in 1..(n + 1), NEW j \in 1..(n + 1),
                      i < j, j <= i + DedupeWindow
               PROVE  emitted'[i].print # emitted'[j].print
    BY <1>5 DEF NoRecentRepeat
  <2>1. i \in 1..n
    BY <1>1
  <2>2. CASE j \in 1..n
    BY <1>5, <2>1, <2>2 DEF IInv, NoRecentRepeat, n
  <2>3. CASE j = n + 1
    <3> DEFINE m == Len(recent)
    <3>1. /\ m = IF n > DedupeWindow THEN DedupeWindow ELSE n
          /\ \A h \in 1..m : recent[h] = emitted[n - m + h].print
      BY DEF IInv, RecentIsEnd, n
    <3>2. \A h \in 1..m : recent[h] # f
      BY <1>8 DEF IsNew
    <3> HIDE DEF m
    <3>3. i - (n - m) \in 1..m /\ n - m + (i - (n - m)) = i
      BY <1>1, <2>1, <2>3, <3>1
    <3>4. recent[i - (n - m)] = emitted[i].print
      BY <3>1, <3>3
    <3>5. QED
      BY <1>3, <1>5, <2>1, <2>3, <3>2, <3>3, <3>4
  <2>4. QED
    BY <1>6, <2>2, <2>3
<1>13. ContextNeverAlone'
  <2>1. \A i \in 1..n : emitted[i].live # {}
    BY DEF IInv, ContextNeverAlone, n
  <2>2. QED
    BY <1>3, <1>5, <1>6, <1>8, <2>1 DEF ContextNeverAlone
<1>14. NoEventTwice'
  <2>1. \A i \in 1..n : emitted[i].settled =>
           emitted[i].events \intersect EventsOf(windows[emitted[i].key]) = {}
    BY SettledApart DEF IInv, n
  <2>2. \A i \in 1..n : emitted[i].events \intersect NewEvents = {}
    BY <1>1, NewEventsApart DEF IInv, n
  <2>3. ASSUME NEW i \in 1..(n + 1), NEW j \in 1..(n + 1), i < j,
               emitted'[i].key = emitted'[j].key, emitted'[i].settled
        PROVE  emitted'[i].events \intersect emitted'[j].events = {}
    <3>1. i \in 1..n
      BY <1>1, <2>3
    <3>2. CASE j \in 1..n
      BY <1>5, <2>3, <3>1, <3>2 DEF IInv, NoEventTwice, n
    <3>3. CASE j = n + 1
      <4>1. emitted[i].key = k /\ emitted[i].settled
        BY <1>3, <1>5, <2>3, <3>1, <3>3
      <4>2. emitted[i].events \intersect w.events = {}
        BY <1>8, <2>1, <2>2, <3>1, <4>1
      <4>3. QED
        BY <1>3, <1>5, <3>1, <3>3, <4>2
    <3>4. QED
      BY <1>6, <3>2, <3>3
  <2>4. ASSUME NEW i \in 1..(n + 1), emitted'[i].settled,
               windows'[emitted'[i].key] # None
        PROVE  emitted'[i].events \intersect windows'[emitted'[i].key].events = {}
    <3>1. CASE i = n + 1
      BY <1>3, <1>5, <1>8, <2>4, <3>1
    <3>2. CASE i \in 1..n
      <4>1. emitted'[i] = emitted[i] /\ emitted[i].key \in Key
        BY <1>5, <1>7, <3>2 DEF StoryType
      <4>2. windows'[emitted[i].key].events \subseteq
               EventsOf(windows[emitted[i].key]) \union NewEvents
        BY <2>4, <4>1 DEF StepLemma, Growth, EventsOf
      <4>3. QED
        BY <2>1, <2>2, <2>4, <3>2, <4>1, <4>2
    <3>3. QED
      BY <1>6, <3>1, <3>2
  <2>5. QED
    BY <1>5, <2>3, <2>4 DEF NoEventTwice
<1>15. UpdatesDiffer'
  <2> SUFFICES ASSUME NEW i \in 1..(n + 1), NEW j \in 1..(n + 1), i < j,
                      emitted'[i].key = emitted'[j].key,
                      ~emitted'[i].settled, ~emitted'[j].settled,
                      \A m \in (i + 1)..(j - 1) :
                          emitted'[m].key # emitted'[i].key
               PROVE  emitted'[i].print # emitted'[j].print
    BY <1>5 DEF UpdatesDiffer
  <2>1. i \in 1..n /\ emitted'[i] = emitted[i]
    BY <1>1, <1>5
  <2>2. \A m \in (i + 1)..(j - 1) : m \in 1..n /\ emitted'[m] = emitted[m]
    BY <1>1, <1>5, <2>1
  <2>3. CASE j \in 1..n
    BY <1>5, <2>1, <2>2, <2>3 DEF IInv, UpdatesDiffer, n
  <2>4. CASE j = n + 1
    <3>1. ASSUME NEW m \in (i + 1)..n
          PROVE  emitted[m].key # emitted[i].key
      <4>1. m \in (i + 1)..(j - 1)
        BY <1>1, <2>4
      <4>2. emitted'[m] = emitted[m]
        BY <2>2, <4>1
      <4>3. QED
        BY <2>1, <4>1, <4>2
    <3>2. updates[emitted[i].key] = emitted[i].print
      BY <2>1, <3>1 DEF IInv, UpdatesKept, n
    <3>3. emitted[i].key = k /\ ~s
      BY <1>3, <1>5, <2>1, <2>4
    <3>4. QED
      BY <1>3, <1>5, <1>8, <2>1, <2>4, <3>2, <3>3
  <2>5. QED
    BY <1>6, <2>3, <2>4
<1>16. QED
  BY <1>5, <1>9, <1>10, <1>11, <1>12, <1>13, <1>14, <1>15 DEF IInv

\* No story was told at the start.
LEMMA InvInit == Init => IInv
<1> SUFFICES ASSUME Init
             PROVE  IInv
  OBVIOUS
<1>1. emitted = <<>> /\ Len(emitted) = 0 /\ recent = <<>> /\ Len(recent) = 0
  BY DEF Init
<1>2. emitted \in Seq(StoryType)
  BY <1>1
<1>3. AllCame /\ UpdatesKept /\ NoRecentRepeat /\ ContextNeverAlone
  BY <1>1 DEF AllCame, UpdatesKept, NoRecentRepeat, ContextNeverAlone
<1>4. NoEventTwice /\ UpdatesDiffer
  BY <1>1 DEF NoEventTwice, UpdatesDiffer
<1>5. RecentIsEnd
  BY <1>1, LimitsAssumption DEF RecentIsEnd
<1>6. QED
  BY <1>2, <1>3, <1>4, <1>5, TypeInit DEF IInv

LEMMA InvStep == IInv /\ [Next]_vars => IInv'
<1> SUFFICES ASSUME IInv, [Next]_vars
             PROVE  IInv'
  OBVIOUS
<1>1. StepLemma /\ TypeOK'
  BY AnyStep, TypeStep DEF IInv
<1>2. CASE Quiet
  BY <1>1, <1>2, QuietStep
<1>3. CASE TellsOne
  BY <1>1, <1>3, TellingStep DEF TellsOne
<1>4. QED
  BY <1>1, <1>2, <1>3 DEF StepLemma

LEMMA Invariant == Spec => []IInv
BY InvInit, InvStep, PTL DEF Spec

\* Within one dedupe window no two stories have the same fingerprint, for any
\* window and any mixture of settling events and flushes.
THEOREM NeverRepeated == Spec => []NoRecentRepeat
<1>1. IInv => NoRecentRepeat
  BY DEF IInv
<1>2. QED
  BY <1>1, Invariant, PTL

\* No event is told by two settled stories of a key, nor told again later.
THEOREM ToldOnce == Spec => []NoEventTwice
<1>1. IInv => NoEventTwice
  BY DEF IInv
<1>2. QED
  BY <1>1, Invariant, PTL

\* No path of ingest or flush tells a story of startup context alone.
THEOREM ContextWaits == Spec => []ContextNeverAlone
<1>1. IInv => ContextNeverAlone
  BY DEF IInv
<1>2. QED
  BY <1>1, Invariant, PTL

\* Two successive updates of an open turn differ, however long ago the first.
THEOREM UpdatesAlwaysDiffer == Spec => []UpdatesDiffer
<1>1. IInv => UpdatesDiffer
  BY DEF IInv
<1>2. QED
  BY <1>1, Invariant, PTL

---------------------------------------------------------------------------
(* What became of the outcomes.                                            *)

\* A score and a context score the outcome of a turn reaches; the defaults
\* are 65 and 70.
Reachable == MinScore <= 74 /\ MinContext <= 92

\* A fingerprint is that of a story of its project.
PrintsNameProject ==
    \A i \in 1..Len(emitted) :
        emitted[i].print.project = ProjectOf[emitted[i].key[1]]

TellInv == IInv /\ PrintsNameProject /\ OutcomesAreTold

\* The window an outcome settles is accepted: it is long since scored enough,
\* knows its project, and holds a summary that may be published.
LEMMA OutcomeAccepted ==
    ASSUME Reachable, TypeOK, NEW e \in Events, IngestSettling(e),
           e.kind = "complete", ProjectOf[e.turn] # None,
           NEW w, w = Gather(e)[PrimaryKey(e)], w.note # None,
           IsPublishable(w.note, ProjectOf[e.turn])
    PROVE  LET k == PrimaryKey(e)
               f == Fingerprint(k, Copy(k, w), "final")
           IN  /\ k \in Key /\ k[1] = e.turn
               /\ Accept(k, w, f, TRUE)
               /\ f.copy.note = Telling(w.note, ProjectOf[e.turn])
<1> DEFINE k == PrimaryKey(e)
           f == Fingerprint(k, Copy(k, w), "final")
<1>1. k = <<e.turn, "turn">> /\ TurnKey(e) = k /\ k \in Key
  BY KeysOfEvent DEF PrimaryKey, TurnKey, FamilyOf
<1>2. IsTurn(k) /\ k[1] = e.turn
  BY <1>1 DEF IsTurn
<1>3. Gather(e) = Touch(windows, k, e)
  BY <1>1 DEF Gather
<1>4. PICK v : w = Observe(v, e) /\ v \in Window \union {NewWindow}
  <2>1. windows \in [Key -> Window \union {None}]
    BY DEF TypeOK
  <2>2. Touch(windows, k, e)[k] =
          Observe(IF windows[k] = None THEN NewWindow ELSE windows[k], e)
    BY <1>1, <2>1 DEF Touch
  <2>. QED  BY <1>1, <1>3, <2>1, <2>2
<1>5. w \in Window /\ w.latest = "complete"
  <2>1. count \in 0..MaxEvents /\ count < MaxEvents
    BY DEF TypeOK, IngestSettling, Arrives
  <2>2. Observe(v, e) \in Window
    BY <1>4, <2>1, ObserveProperties
  <2>. QED  BY <1>4, <2>2 DEF Observe
<1> HIDE DEF k
<1>6. Publishes(k, w)
  BY <1>2 DEF Publishes
<1>7. /\ w.score \in 0..100 /\ w.commands \in Nat
      /\ StoryScore(k, w) >= 74
  <2>1. w.score \in 0..100 /\ w.commands \in Nat
    BY <1>5 DEF Window
  <2>2. StoryScore(k, w) >= 74
    BY <1>2, <1>6, <2>1 DEF StoryScore, Larger
  <2>. QED  BY <2>1, <2>2
<1>8. StoryScore(k, w) \in Int
  BY <1>2, <1>6, <1>7 DEF StoryScore, Larger
<1>9. StoryScore(k, w) >= MinScore
  BY <1>7, <1>8, LimitsAssumption DEF Reachable
<1>10. ContextScore(k, w) >= MinContext
  <2>1. ContextScore(k, w) = 92
    BY <1>2, <1>5, <1>9 DEF ContextScore
  <2>. QED  BY <2>1, LimitsAssumption DEF Reachable
<1>11. ~IsLowQuality(k, w)
  <2>1. ~IsChatter(w.note)
    BY DEF IsPublishable, IsMeaningful, IsActive, IsUpdate, IsProgress
  <2>2. k[2] = "turn"
    BY <1>2 DEF IsTurn
  <2>. QED  BY <1>2, <1>6, <2>1, <2>2 DEF IsLowQuality
<1>12. ~Rejects(k, w)
  BY <1>7, <1>8, <1>9, <1>10, <1>11, LimitsAssumption DEF Rejects, ContextScore
<1>13. Settle(Gather(e), k)
  BY DEF IngestSettling, k
<1>14. Accept(k, w, f, TRUE)
  BY <1>12, <1>13 DEF Settle, k
<1>15. f.copy.note = Telling(w.note, ProjectOf[e.turn])
  BY <1>2 DEF Fingerprint, Copy
<1>. QED  BY <1>1, <1>2, <1>14, <1>15 DEF k

\* Stories are only added, and a fingerprint that is remembered is told.
LEMMA ToldStays ==
    ASSUME IInv, StepLemma, NEW project, NEW note, Told(project, note)
    PROVE  Told(project, note)'
<1>1. emitted \in Seq(StoryType)
  BY DEF IInv
<1>2. CASE Quiet
  BY <1>2 DEF Quiet, Told
<1>3. ASSUME NEW k \in Key, NEW w \in Window, NEW f \in Mark, NEW s \in BOOLEAN,
             Tells(k, w, f, s)
      PROVE  Told(project, note)'
  <2>1. PICK x : emitted' = Append(emitted, x)
    BY <1>3 DEF Tells
  <2>2. /\ Len(emitted) \in Nat /\ Len(emitted') = Len(emitted) + 1
        /\ \A i \in 1..Len(emitted) : emitted'[i] = emitted[i]
    BY <1>1, <2>1
  <2>. QED  BY <2>2 DEF Told
<1>. QED  BY <1>2, <1>3 DEF StepLemma, TellsOne

\* What accept_story leaves: the story told now, or the recent one it repeats.
LEMMA AcceptedIsTold ==
    ASSUME IInv, PrintsNameProject, NEW k \in Key, NEW w, NEW f, NEW note,
           f.project = ProjectOf[k[1]],
           f.copy.note = Telling(note, ProjectOf[k[1]]),
           Accept(k, w, f, TRUE)
    PROVE  Told(ProjectOf[k[1]], note)'
<1>1. emitted \in Seq(StoryType) /\ Len(emitted) \in Nat
  BY LenProperties DEF IInv
<1>2. CASE IsNew(f)
  <2>. DEFINE new == Story(k, w, f, TRUE)
  <2>1. emitted' = Append(emitted, new) /\ new.key = k /\ new.print = f
    BY <1>2 DEF Accept, Story
  <2>. HIDE DEF new
  <2>2. Len(emitted') = Len(emitted) + 1 /\ emitted'[Len(emitted) + 1] = new
    BY <1>1, <2>1
  <2>. QED  BY <1>1, <2>1, <2>2 DEF Told
<1>3. CASE ~IsNew(f)
  <2>1. PICK i \in 1..Len(recent) : recent[i] = f
    BY <1>3 DEF IsNew
  <2>. DEFINE j == Len(emitted) - Len(recent) + i
  <2>2. recent[i] = emitted[j].print
    BY <2>1 DEF IInv, RecentIsEnd
  <2>3. j \in 1..Len(emitted)
    <3>1. Len(recent) = IF Len(emitted) > DedupeWindow THEN DedupeWindow
                        ELSE Len(emitted)
      BY DEF IInv, RecentIsEnd
    <3>. QED  BY <1>1, <2>1, <3>1, LimitsAssumption
  <2>4. emitted[j].print = f /\ UNCHANGED emitted
    BY <1>3, <2>1, <2>2 DEF Accept
  <2>. HIDE DEF j
  <2>. QED  BY <2>3, <2>4 DEF PrintsNameProject, Told
<1>. QED  BY <1>2, <1>3

\* Every story keeps its project's fingerprint.
LEMMA PrintsStep ==
    ASSUME IInv, PrintsNameProject, StepLemma
    PROVE  PrintsNameProject'
<1>1. emitted \in Seq(StoryType)
  BY DEF IInv
<1>2. CASE Quiet
  BY <1>2 DEF Quiet, PrintsNameProject
<1>3. ASSUME NEW k \in Key, NEW w \in Window, NEW f \in Mark, NEW s \in BOOLEAN,
             Tells(k, w, f, s)
      PROVE  PrintsNameProject'
  <2>. DEFINE new == Story(k, w, f, s)
  <2>1. emitted' = Append(emitted, new) /\ new.print.project = ProjectOf[new.key[1]]
    BY <1>3 DEF Tells, Story
  <2>. HIDE DEF new
  <2>2. /\ Len(emitted) \in Nat /\ Len(emitted') = Len(emitted) + 1
        /\ \A i \in 1..Len(emitted) : emitted'[i] = emitted[i]
        /\ emitted'[Len(emitted) + 1] = new
    BY <1>1, <2>1
  <2>. QED  BY <2>1, <2>2 DEF PrintsNameProject
<1>. QED  BY <1>2, <1>3 DEF StepLemma, TellsOne

\* Every step keeps TellInv: an outcome is told when it comes, and what was
\* told stays told.
LEMMA TellStep ==
    ASSUME Reachable, TellInv, [Next]_vars
    PROVE  TellInv'
<1>1. IInv /\ IInv' /\ StepLemma /\ PrintsNameProject'
  BY InvStep, AnyStep, PrintsStep DEF TellInv, IInv
<1>2. ASSUME NEW f \in finished, f[1] # None, f[2] # None,
             IsPublishable(f[2], f[1])
      PROVE  Told(f[1], f[2])'
  <2>1. Told(f[1], f[2])
    BY <1>2 DEF TellInv, OutcomesAreTold
  <2>. QED  BY <1>1, <2>1, ToldStays
<1>3. ASSUME finished' = finished
      PROVE  OutcomesAreTold'
  BY <1>2, <1>3 DEF OutcomesAreTold, Told
<1>4. ASSUME NEW e \in Events, IngestSettling(e), e.kind = "complete"
      PROVE  OutcomesAreTold'
  <2>. DEFINE p == ProjectOf[e.turn]
  <2>0. PICK w : w = Gather(e)[PrimaryKey(e)]
    OBVIOUS
  <2>1. finished' = finished \union {<<p, w.note>>}
    BY <1>4, <2>0 DEF IngestSettling
  <2>2. ASSUME p # None, w.note # None, IsPublishable(w.note, p)
        PROVE  Told(p, w.note)'
    <3>. DEFINE k == PrimaryKey(e)
                f == Fingerprint(k, Copy(k, w), "final")
    <3>1. TypeOK
      BY DEF TellInv, IInv
    <3>2. /\ k \in Key /\ k[1] = e.turn /\ Accept(k, w, f, TRUE)
          /\ f.copy.note = Telling(w.note, p)
      BY <1>4, <2>0, <2>2, <3>1, OutcomeAccepted
    <3>3. f.project = ProjectOf[k[1]]
      BY DEF Fingerprint
    <3>. HIDE DEF k, f
    <3>4. f.copy.note = Telling(w.note, ProjectOf[k[1]]) /\ p = ProjectOf[k[1]]
      BY <3>2
    <3>5. Told(ProjectOf[k[1]], w.note)'
      BY <1>1, <3>2, <3>3, <3>4, AcceptedIsTold DEF TellInv
    <3>. QED  BY <3>4, <3>5 DEF Told
  <2>. HIDE DEF p
  <2>3. ASSUME NEW f \in finished', f[1] # None, f[2] # None,
               IsPublishable(f[2], f[1])
        PROVE  Told(f[1], f[2])'
    BY <1>2, <2>1, <2>2, <2>3 DEF Told
  <2>. QED  BY <2>3 DEF OutcomesAreTold, Told
<1>5. OutcomesAreTold'
  <2>1. ASSUME NEW k \in Key, FlushNext(k)
        PROVE  finished' = finished
    BY <2>1 DEF FlushNext
  <2>2. ASSUME NEW e \in Events, IngestGathering(e)
        PROVE  finished' = finished
    BY <2>2 DEF IngestGathering
  <2>3. ASSUME NEW e \in Events, IngestSettling(e), e.kind # "complete"
        PROVE  finished' = finished
    BY <2>3 DEF IngestSettling
  <2>4. CASE FlushStart \/ UNCHANGED vars
    BY <1>3, <2>4 DEF FlushStart, vars
  <2>. QED  BY <1>3, <1>4, <2>1, <2>2, <2>3, <2>4 DEF Next
<1>. QED  BY <1>1, <1>5 DEF TellInv

\* For every threshold an outcome reaches, in particular the defaults: the
\* publishable outcome of a completed turn of a known project is told, when it
\* comes or before, whatever is dropped as a repeat (accept_story_with_extra).
THEOREM EveryOutcomeTold ==
    ASSUME Reachable
    PROVE  Spec => []OutcomesAreTold
<1>1. Init => TellInv
  <2>1. Init => PrintsNameProject /\ OutcomesAreTold
    BY DEF Init, PrintsNameProject, OutcomesAreTold
  <2>. QED  BY <2>1, InvInit DEF TellInv
<1>2. TellInv /\ [Next]_vars => TellInv'
  BY TellStep
<1>3. TellInv => OutcomesAreTold
  BY DEF TellInv
<1>. QED  BY <1>1, <1>2, <1>3, PTL DEF Spec
=============================================================================
