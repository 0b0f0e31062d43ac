---------------------------- MODULE TranscriptTail ----------------------------
(***************************************************************************)
(* The capture thread of agent_feed_cli: it finds the transcripts of       *)
(* coding agents, attaches a watcher to each and polls them for new lines, *)
(* which it posts to the server.  Agents write, truncate and delete their  *)
(* files meanwhile, also between the two looks a poll takes at a file: its *)
(* length from the metadata, then its text up to the end.                  *)
(*                                                                         *)
(* A line is two pieces of text, so that it can be seen half written; the  *)
(* first may end in the middle of a character, which reading refuses.  The *)
(* watchers for codex and for claude are the same in all of this.  What a  *)
(* line says, the workspace filter and the guard against the transcripts   *)
(* of the summariser itself are left out; these only post fewer lines.     *)
(***************************************************************************)
EXTENDS SequencesExt, Sublists

CONSTANTS
    File,           \* transcripts
    Context,        \* lines that are startup context, if they are old
    Wide,           \* lines with characters of several bytes
    IncludeHistory, \* the flag --include-history
    Absent,         \* where there is no file, or no watcher
    MaxLines,       \* bound: file -> lines written to it
    MaxFailures,    \* bound: posts that fail
    MaxTruncations, \* bound: truncations
    MaxDeletions    \* bound: deletions

ASSUME TailAssumption ==
    /\ IncludeHistory \in BOOLEAN
    /\ MaxLines \in [File -> Nat]
    /\ MaxFailures \in Nat /\ MaxTruncations \in Nat /\ MaxDeletions \in Nat
    /\ Context \subseteq Nat /\ Wide \subseteq Nat

\* A piece names its line and its part: "head", "rest", or "split", which is
\* a head that ends inside a character.
Piece == [line : Nat, part : {"head", "split", "rest"}]

\* What a watcher keeps: where it is to read on, the text of a line that was
\* not whole yet, and, for the properties, where it began and whether the file
\* was started anew since the last poll.
Watcher == [offset : Nat, pending : Seq(Piece), base : Nat, shrunk : BOOLEAN]

ASSUME AbsentAssumption ==
    /\ Absent \notin Seq(Piece) /\ Absent \notin Watcher

VARIABLES
    text,     \* file -> its pieces, or Absent when there is no file
    begun,    \* file -> lines begun so far, which number them
    watchers, \* the files watched, in the order they were found
    watcher,  \* file -> offset and pending text of its watcher, or Absent
    thread,   \* where the capture thread is
    startup,  \* history variable: file -> lines posted on attaching
    posted,   \* history variable: file -> lines posted by polls
    due,      \* history variable: file -> lines written since attaching
    clean,    \* history variable: file -> nothing went wrong so far
    mishaps   \* failures, truncations and deletions so far

agent == <<text, begun, due>>
tailVars == <<agent, watchers, watcher, thread, startup, posted, clean, mishaps>>

---------------------------------------------------------------------------
(* Text.                                                                   *)

\* Whether the line that ends with piece i of s parses: half a line, and halves
\* of two lines, do not.
IsWhole(s, i) ==
    /\ s[i].part = "rest"
    /\ i > 1 /\ s[i - 1].line = s[i].line /\ s[i - 1].part # "rest"
    /\ i = 2 \/ s[i - 2].part = "rest"

Lines(s) == [i \in DOMAIN s |-> s[i].line]

\* The lines of s that parse.
Parsed(s) == Sublist(Lines(s), {i \in DOMAIN s : IsWhole(s, i)})

LastNewline(s) == Max({0} \union {i \in DOMAIN s : s[i].part = "rest"})

\* split_complete_jsonl: the complete lines, and what stays pending.
Complete(s) == SubSeq(s, 1, LastNewline(s))

\* Faulty variant: nothing stays.
KeepNone(s) == <<>>

Pending(s) == SubSeq(s, LastNewline(s) + 1, Len(s))

\* The text of s from the offset to the end.
From(s, offset) == SubSeq(s, offset + 1, Len(s))

\* The text up to the attach boundary.  Faulty variant: up to the end,
\* wherever that is by now.
ToTheEnd(s, len) == s

Prefix(s, len) == SubSeq(s, 1, Min({len, Len(s)}))

\* read_to_string from the offset fails inside a character.
Unreadable(s, offset) ==
    /\ offset < Len(s)
    /\ Last(s).part = "split" \/ (offset > 0 /\ s[offset].part = "split")

---------------------------------------------------------------------------
(* The agents.                                                             *)

\* Where the watcher of f began, or is about to begin, to tail.
Attaching(f) == thread.pc = "attach" /\ thread.file = f

Attached(f) == watcher[f] # Absent

Base(f) == IF Attaching(f) THEN thread.len ELSE watcher[f].base

Halfway(f) == text[f] # <<>> /\ Last(text[f]).part # "rest"

Begin(f) ==
    /\ begun[f] < MaxLines[f]
    /\ text[f] = Absent => begun[f] = 0
    /\ text[f] # Absent => ~Halfway(f)
    /\ begun' = [begun EXCEPT ![f] = @ + 1]
    /\ \E part \in {"head"} \union (IF begun'[f] \in Wide THEN {"split"} ELSE {}) :
          text' = [text EXCEPT ![f] =
                     Append(IF @ = Absent THEN <<>> ELSE @,
                            [line |-> begun'[f], part |-> part])]
    /\ UNCHANGED <<due, watchers, watcher, thread, startup, posted, clean, mishaps>>

Finish(f) ==
    /\ text[f] # Absent /\ Halfway(f)
    /\ text' = [text EXCEPT ![f] =
                  Append(@, [line |-> Last(@).line, part |-> "rest"])]
    /\ due' = IF (Attached(f) \/ Attaching(f)) /\ Len(text[f]) > Base(f)
              THEN [due EXCEPT ![f] = Append(@, Last(text[f]).line)] ELSE due
    /\ UNCHANGED <<begun, watchers, watcher, thread, startup, posted, clean, mishaps>>

\* Everything in the file was read and nothing is pending.
CaughtUp(f) ==
    /\ text[f] # Absent /\ watcher[f].offset = Len(text[f])
    /\ watcher[f].pending = <<>>

\* The agent starts its file anew.  What was not read is gone, also when it is
\* as long as what was there before an earlier truncation.
Truncate(f) ==
    /\ text[f] # Absent /\ text[f] # <<>>
    /\ mishaps.truncations < MaxTruncations
    /\ mishaps' = [mishaps EXCEPT !.truncations = @ + 1]
    /\ text' = [text EXCEPT ![f] = <<>>]
    /\ watcher' = IF Attached(f)
                  THEN [watcher EXCEPT ![f].base = 0, ![f].shrunk = TRUE]
                  ELSE watcher
    /\ clean' = [clean EXCEPT ![f] = @ /\ ~Attaching(f)
                                       /\ (Attached(f) => CaughtUp(f) /\ ~watcher[f].shrunk)]
    /\ UNCHANGED <<begun, due, watchers, thread, startup, posted>>

Delete(f) ==
    /\ text[f] # Absent
    /\ mishaps.deletions < MaxDeletions
    /\ mishaps' = [mishaps EXCEPT !.deletions = @ + 1]
    /\ text' = [text EXCEPT ![f] = Absent]
    /\ UNCHANGED <<begun, due, watchers, watcher, thread, startup, posted, clean>>

---------------------------------------------------------------------------
(* The capture thread.                                                     *)

TailInit ==
    /\ text = [f \in File |-> Absent]
    /\ begun = [f \in File |-> 0]
    /\ watchers = <<>>
    /\ watcher = [f \in File |-> Absent]
    /\ thread = [pc |-> "loop", file |-> Absent, len |-> 0, next |-> 1]
    /\ startup = [f \in File |-> {}]
    /\ posted = [f \in File |-> <<>>]
    /\ due = [f \in File |-> <<>>]
    /\ clean = [f \in File |-> TRUE]
    /\ mishaps = [failures |-> 0, truncations |-> 0, deletions |-> 0]

\* An error of any one file ends the thread.
Stop ==
    /\ thread' = [thread EXCEPT !.pc = "stopped"]
    /\ UNCHANGED <<agent, watchers, watcher, startup, posted, clean, mishaps>>

\* Some of the posts of a chunk may fail, and are not repeated.
Failing(n) ==
    {lost \in SUBSET (1..n) : Cardinality(lost) <= MaxFailures - mishaps.failures}

Without(s, lost) == Sublist(s, DOMAIN s \ lost)

\* Of the old lines, those that are posted on attaching.
Replayed(old) ==
    IF IncludeHistory THEN old
    ELSE Sublist(old, {i \in DOMAIN old : old[i] \in Context})

\* A file is discovered: its length is where the watcher is going to begin.
AttachStat(f) ==
    /\ thread.pc = "loop"
    /\ text[f] # Absent /\ ~Attached(f)
    /\ thread' = [thread EXCEPT !.pc = "attach", !.file = f, !.len = Len(text[f])]
    /\ UNCHANGED <<agent, watchers, watcher, startup, posted, clean, mishaps>>

\* initialize_codex_watcher: the history, or what of it is startup context.
AttachRead ==
    /\ thread.pc = "attach"
    /\ LET f == thread.file IN
       IF text[f] = Absent THEN Stop
       ELSE /\ \E told \in {Replayed(Parsed(Prefix(text[f], thread.len)))} :
                  \E lost \in Failing(Len(told)) :
                      /\ startup' = [startup EXCEPT ![f] = ToSet(Without(told, lost))]
                      /\ mishaps' = [mishaps EXCEPT !.failures = @ + Cardinality(lost)]
            /\ watchers' = Append(watchers, f)
            /\ watcher' = [watcher EXCEPT ![f] =
                             [offset |-> thread.len, pending |-> <<>>,
                              base |-> thread.len, shrunk |-> FALSE]]
            /\ thread' = [thread EXCEPT !.pc = "loop", !.file = Absent]
            /\ UNCHANGED <<agent, posted, clean>>

\* Discovery is over, or was less than five seconds ago.
StartPoll ==
    /\ thread.pc = "loop" /\ watchers # <<>>
    /\ thread' = [thread EXCEPT !.pc = "poll", !.next = 1]
    /\ UNCHANGED <<agent, watchers, watcher, startup, posted, clean, mishaps>>

\* On to the next watcher, or to the end of the pass.
Advance ==
    thread' = [thread EXCEPT !.pc = IF thread.next < Len(watchers) THEN "poll" ELSE "loop",
                             !.next = @ + 1]

PollStat ==
    /\ thread.pc = "poll"
    /\ LET f == watchers[thread.next] IN
       IF text[f] = Absent THEN Stop
       ELSE LET len == Len(text[f])
                w == watcher[f]
                shrank == len < w.offset
                offset == IF shrank THEN 0 ELSE w.offset
            IN  /\ watcher' = [watcher EXCEPT ![f] =
                                 [w EXCEPT !.offset = offset, !.shrunk = FALSE,
                                           !.pending = IF shrank THEN <<>> ELSE w.pending]]
                /\ clean' = [clean EXCEPT ![f] = @ /\ (w.shrunk => shrank \/ len = 0)]
                /\ IF len <= offset THEN Advance
                   ELSE thread' = [thread EXCEPT !.pc = "read", !.file = f, !.len = len]
                /\ UNCHANGED <<agent, watchers, startup, posted, mishaps>>

\* Faulty variant: the offset stays where it was.
Unmoved(offset, len) == offset

\* The offset after a read: what the metadata said, whatever was read.
OffsetAfter(offset, len) == len

PollRead ==
    /\ thread.pc = "read"
    /\ LET f == thread.file
           w == watcher[f]
       IN
       IF text[f] = Absent \/ Unreadable(text[f], w.offset) THEN Stop
       ELSE \E got \in {w.pending \o From(text[f], w.offset)} :
            \E new \in {Parsed(Complete(got))} :
            /\ watcher' = [watcher EXCEPT ![f] =
                             [w EXCEPT !.offset = OffsetAfter(w.offset, thread.len),
                                       !.pending = Pending(got)]]
            /\ \E lost \in Failing(Len(new)) :
                  /\ posted' = [posted EXCEPT ![f] = @ \o Without(new, lost)]
                  /\ mishaps' = [mishaps EXCEPT !.failures = @ + Cardinality(lost)]
                  /\ clean' = [clean EXCEPT ![f] =
                                 @ /\ lost = {} /\ Len(text[f]) = thread.len]
            /\ Advance
            /\ UNCHANGED <<agent, watchers, startup>>

Step == AttachRead \/ StartPoll \/ PollStat \/ PollRead

TailNext ==
    \/ Step
    \/ \E f \in File :
          Begin(f) \/ Finish(f) \/ Truncate(f) \/ Delete(f) \/ AttachStat(f)

\* The thread sleeps and polls again; agents owe nothing.
TailSpec == TailInit /\ [][TailNext]_tailVars /\ WF_tailVars(Step)

---------------------------------------------------------------------------
(* Properties.                                                             *)

\* Lines are posted once, whole and in the order they were written, however
\* the polls cut the text: unless the file grew between the two looks of a
\* poll, a post failed, or a truncation lost or hid what was written.
TailIsExact ==
    \A f \in File : clean[f] /\ Attached(f) =>
        /\ IsPrefix(posted[f], due[f])
        /\ CaughtUp(f) /\ ~watcher[f].shrunk => posted[f] = due[f]

\* The attach boundary: what is replayed on attaching is not tailed as well,
\* and nothing written since is taken for history.
AttachBoundary ==
    \A f \in File : clean[f] =>
        startup[f] \intersect (ToSet(posted[f]) \union ToSet(due[f])) = {}

\* Unless the thread stops, the watcher comes to the end of its file again
\* and again.
CatchesUp ==
    \A f \in File :
        Attached(f) ~> \/ text[f] = Absent \/ thread.pc = "stopped"
                       \/ Attached(f) /\ watcher[f].offset = Len(text[f])
===========================================================================
