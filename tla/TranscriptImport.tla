--------------------------- MODULE TranscriptImport ---------------------------
(***************************************************************************)
(* From an agent's transcript to the events the local server is posted:    *)
(* discovery, attach (history, or warm state + context tail + startup      *)
(* recap + active command checkpoint), polling, and the guard that keeps   *)
(* the sessions of agent_feed's own summary processor out of the feed.     *)
(*                                                                         *)
(* One session file, appended by its agent while the watcher works; what a *)
(* poll reads is whole lines (the byte level is module TranscriptTail).    *)
(* A chunk is imported line by line, and the agent, the processor's memory *)
(* file and the registry's five second refresh move between the lines.     *)
(***************************************************************************)
EXTENDS TranscriptLines

CONSTANTS
    Session,            \* the session's id
    HomeDir, DefaultDir, CustomDir,
                        \* the user's directory, the default work directory of
                        \* the summary processor and a configured one
    TurnDirs,           \* directories a turn_context may name
    Calls, CallSpec,    \* tool calls, and the tool, command, directory of each
    CallOrders,         \* the orders a hash map may list its keys in
    Endings,            \* [ok, full]: how a call may end, and whether its end
                        \* repeats the command and the directory
    Texts, LastTexts,   \* what a user's agent says, and says last in a turn
    Reply,             \* what the summary processor says
    GuardSample, StateSample, ContextTail,
                        \* lines read to recognise, warm up and replay a file
    MaxLines, MaxStream, MaxLost
                        \* bounds: codex and claude lines written, failed posts

\* The session and the directories of the processor are known and two, and the
\* user works elsewhere.  A call has a key and a tool.  What is sampled of a file
\* holds its first and its last line.
ImportAssumption ==
    /\ {GuardSample, StateSample, ContextTail, CallCap, MessageCap} \subseteq Nat
    /\ GuardSample >= 2 /\ StateSample >= 2 /\ ContextTail >= 1
    /\ Absent \notin Nat \cup Calls \cup {Session, DefaultDir, CustomDir}
    /\ DefaultDir # CustomDir
    /\ {DefaultDir, CustomDir} \cap ({HomeDir} \cup TurnDirs) = {}
    /\ \A c \in Calls : CallSpec[c].tool # Absent /\ CallSpec[c].cwd \notin {DefaultDir, CustomDir}
    /\ Reply.form = "summary"
ASSUME ImportAssumption

VARIABLES
    owner,      \* whose events: "user", "memory", "custom", "claude", ..., "hooks"
    guarded,    \* the watcher has the registry of the publisher
    history,    \* include_history
    file,       \* the lines written
    memoryFile, \* session ids in the processor's memory file
    known,      \* ProcessorSessionRegistryState.session_ids
    phase,      \* what the watcher is doing
    pos, end,   \* lines pos+1..end are still to be imported; end is the offset
    st,         \* TranscriptState or ClaudeState
    internal,   \* CodexWatcher.internal_processor
    attached,   \* the length of the file when the watcher attached
    posted,     \* events the server took, with the line they tell (0: none)
    lost        \* lines whose post failed

importVars == <<owner, guarded, history, file, memoryFile, known, phase, pos, end, st,
          internal, attached, posted, lost>>
setting == <<owner, guarded, history>>
watcher == <<phase, pos, end, st, internal, attached, posted, lost>>

IsClaude == owner \in {"claude", "claude_processor", "hooks"}
IsUser == owner \in {"user", "claude"}
OwnDir == CASE owner = "memory" -> DefaultDir [] owner = "custom" -> CustomDir
            [] OTHER -> HomeDir

ImportInit ==
    /\ owner \in {"user", "memory", "custom", "claude", "claude_processor", "hooks"}
    /\ guarded \in BOOLEAN /\ (IsClaude => ~guarded) /\ (owner = "custom" => guarded)
    /\ history \in BOOLEAN /\ (~guarded /\ ~IsClaude => history)
    /\ file = <<>>
    /\ memoryFile \in IF owner \in {"memory", "custom"} THEN {{}, {Session}} ELSE {{}}
    /\ known = IF guarded THEN memoryFile ELSE {}
    /\ phase = "off" /\ pos = 0 /\ end = 0 /\ st = FreshState
    /\ internal = FALSE /\ attached = 0 /\ posted = <<>> /\ lost = {}

-------------------------------------------------------------------------------
(* The agent.  Codex opens a file with its session, a turn with its context, *)
(* ends a call in its own turn or after the turn was aborted.               *)

Lines(types) == {i \in DOMAIN file : file[i].type \in types}
TurnEnds == Lines({"task_complete", "turn_aborted"})
TurnOpen == \E i \in Lines({"turn_context"}) : \A j \in TurnEnds : j < i
Turn == Cardinality(Lines({"turn_context"}))
TurnAt(i) == Cardinality({j \in Lines({"turn_context"}) : j < i})
CallStarts(c) == {i \in Lines({"function_call", "tool_use"}) : file[i].call = c}
CallEnds(c) ==
    {i \in Lines({"exec_command_end", "patch_apply_end", "tool_result"}) : file[i].call = c}
Running(c) == CallStarts(c) # {} /\ CallEnds(c) = {}

\* A line written while a chunk is imported is seen by the next poll only, so it
\* may as well be written between the two.
Write(line) ==
    /\ Len(file) < IF IsClaude THEN MaxStream ELSE MaxLines
    /\ phase \in {"off", "live"}
    /\ file' = Append(file, line)
    /\ UNCHANGED <<setting, memoryFile, known, watcher>>

Typed(type) == [BlankLine EXCEPT !.type = type]
Spoken(type, text) == [Typed(type) EXCEPT !.text = text]
Started(type, c) ==
    [Typed(type) EXCEPT !.call = c, !.tool = CallSpec[c].tool,
                        !.command = CallSpec[c].command, !.cwd = CallSpec[c].cwd]

OpenFile ==
    /\ file = <<>> /\ owner # "hooks"
    /\ Write(CASE owner = "claude_processor" -> Typed("internal_prompt")
               [] owner = "claude" -> [Typed("system") EXCEPT !.session = Session, !.cwd = OwnDir]
               [] OTHER -> [Typed("session_meta") EXCEPT !.session = Session, !.cwd = OwnDir])

OpenTurn ==
    /\ file # <<>> /\ ~IsClaude /\ ~TurnOpen
    /\ \E cwd \in IF IsUser THEN TurnDirs ELSE {OwnDir} :
         Write([Typed("turn_context") EXCEPT !.turn = Turn + 1, !.cwd = cwd])

StartTurn ==
    /\ TurnOpen /\ file[Len(file)].type = "turn_context"
    /\ Write([Typed("task_started") EXCEPT !.turn = Turn])

\* The summary processor asks before it answers; a user may quote its prompt.
Prompt ==
    /\ ~IsClaude /\ TurnOpen
    /\ IsUser \/ file[Len(file)].type = "turn_context"
    /\ Lines({"internal_prompt"}) = {} \/ ~IsUser
    /\ Write(Typed("internal_prompt"))

Asked == \E i \in Lines({"internal_prompt"}) : \A j \in Lines({"turn_context"}) : j < i

Say ==
    /\ \/ IsClaude /\ file # <<>>
       \/ TurnOpen /\ (IsUser \/ Asked)
    /\ \E text \in IF IsUser THEN Texts ELSE {Reply} :
         Write(Spoken(IF IsClaude THEN "assistant" ELSE "agent_message", text))

Call ==
    /\ IsUser /\ file # <<>> /\ (IsClaude \/ TurnOpen)
    /\ \E c \in {d \in Calls : CallStarts(d) = {}} :
         Write(Started(IF IsClaude THEN "tool_use" ELSE "function_call", c))

EndCall ==
    \E c \in {d \in Calls : Running(d)}, ending \in Endings :
      LET full  == ending.full
          patch == CallSpec[c].tool = "apply_patch"
          line  == Started(IF IsClaude THEN "tool_result"
                           ELSE IF patch THEN "patch_apply_end" ELSE "exec_command_end", c)
          own   == [line EXCEPT !.ok = ending.ok, !.tool = Absent,
                      !.turn = IF IsClaude THEN Absent ELSE TurnAt(CHOOSE i \in CallStarts(c) : TRUE)]
          bare  == [own EXCEPT !.command = NoCommand, !.cwd = Absent]
      IN  /\ CallSpec[c].tool # "mcp" \/ IsClaude
          /\ Write(IF full /\ ~IsClaude THEN own ELSE bare)

Plan ==
    /\ TurnOpen /\ IsUser /\ file[Len(file)].type \in {"task_started", "agent_message"}
    /\ Write([Typed("plan_completed") EXCEPT !.turn = Turn])

Finish ==
    \/ /\ TurnOpen /\ (IsUser \/ Asked)
       /\ \E type \in {"task_complete", "turn_aborted"},
             text \in IF IsUser THEN LastTexts ELSE {Reply} :
            /\ type = "turn_aborted" => IsUser
            /\ Write([Spoken(type, text) EXCEPT !.turn = Turn])
    \/ /\ IsClaude /\ file # <<>> /\ file[Len(file)].type \in {"assistant", "tool_result"}
       /\ \E ok \in BOOLEAN :
            Write([Spoken("result", IF IsUser THEN NoText ELSE Reply) EXCEPT !.ok = ok])

\* The processor saves the session's id when its process has answered.
SaveMemory ==
    /\ owner \in {"memory", "custom"} /\ TurnEnds # {} /\ memoryFile = {}
    /\ memoryFile' = {Session}
    /\ UNCHANGED <<setting, file, known, watcher>>

-------------------------------------------------------------------------------
(* The guard. *)

\* transcript_suffix_at and transcript_sample_at, in lines
Suffix(lines, n) == SubSeq(lines, IF Len(lines) > n THEN Len(lines) - n + 1 ELSE 1, Len(lines))
Sample(lines, n) == IF Len(lines) <= n THEN lines
                    ELSE SubSeq(lines, 1, n \div 2) \o Suffix(lines, n \div 2)

HasExternalActivity(line) ==
    line.type \in {"function_call", "exec_command_end", "patch_apply_end", "tool_result"}
HasInternalPrompt(line) == line.type = "internal_prompt"

Least(places) == CHOOSE i \in places : \A j \in places : i <= j

\* internal_transcript_signals: the state speaks before the chunk does
Signals(chunk, state) ==
    LET cwds == {i \in DOMAIN chunk : chunk[i].cwd # Absent /\ chunk[i].type # "tool_use"}
        ids  == {i \in DOMAIN chunk : chunk[i].session # Absent}
    IN  [session  |-> Or(state.session, IF ids = {} THEN Absent ELSE chunk[Least(ids)].session),
         cwd      |-> Or(Or(state.active, state.cwd),
                         IF cwds = {} THEN Absent ELSE chunk[Least(cwds)].cwd),
         prompted |-> /\ \E i \in DOMAIN chunk : HasInternalPrompt(chunk[i])
                      /\ \A i \in DOMAIN chunk : ~HasExternalActivity(chunk[i])]

\* mutant: the prompt is enough
IsInternalByPrompt(chunk, state, ids) ==
    LET s == Signals(chunk, IF IsClaude THEN FreshState ELSE state)
    IN  s.cwd = DefaultDir \/ (guarded /\ s.session \in ids) \/ s.prompted

\* mutant: the registry's own work directories are not asked
IsInternalByDefault(chunk, state, ids) ==
    LET s == Signals(chunk, IF IsClaude THEN FreshState ELSE state)
    IN  s.cwd = DefaultDir \/ (guarded /\ s.session \in ids) \/ (~guarded /\ s.prompted)

\* is_agent_feed_internal_transcript(_for_registry); `ids` are the known sessions
IsInternal(chunk, state, ids) ==
    LET s == Signals(chunk, IF IsClaude THEN FreshState ELSE state)
    IN  \/ s.cwd = DefaultDir
        \/ guarded /\ s.session \in ids
        \/ s.prompted /\ (guarded => s.cwd = CustomDir)

\* confirmed_agent_feed_internal_processor_chunk
IsConfirmed(chunk, state, ids) ==
    LET s == Signals(chunk, state)
    IN  \/ s.cwd = DefaultDir
        \/ guarded /\ (s.session \in ids \/ s.cwd = CustomDir)
        \/ ~guarded /\ s.session # Absent /\ s.prompted

\* maybe_refresh, when five seconds have passed since the last one
Refreshed(fresh) == IF guarded /\ fresh THEN known \cup memoryFile ELSE known

\* record_processor_session_skipped
Recorded(ids, chunk, state) ==
    IF guarded THEN (ids \cup {Signals(chunk, state).session}) \ {Absent} ELSE ids

-------------------------------------------------------------------------------
(* Attaching. *)

Adapt(state, line, order) ==
    IF IsClaude THEN NormalizeClaude(state, line) ELSE Normalize(state, line, order)

\* Normalizing a run of codex lines: the state after each of them, 0 for the first.
States(state, lines, order) ==
    LET after[i \in 0..Len(lines)] ==
          IF i = 0 THEN state ELSE Normalize(after[i - 1], lines[i], order).state
    IN  after
\* What the i-th of them gives.
Replay(state, lines, order, i) == Normalize(States(state, lines, order)[i - 1], lines[i], order)

ClaudeStates(lines) ==
    LET after[i \in 0..Len(lines)] ==
          IF i = 0 THEN FreshState ELSE NormalizeClaude(after[i - 1], lines[i]).state
    IN  after

AnyOrder == CHOOSE order \in CallOrders : TRUE

\* mutant: nothing is read ahead of the tail
ColdState(lines) == FreshState

\* warm_codex_state: of the sample only the session and the turn contexts, as if
\* the other lines were blank
Headers(lines) ==
    [i \in DOMAIN lines |-> IF lines[i].type \in {"session_meta", "turn_context"}
                            THEN lines[i] ELSE BlankLine]
WarmCodexState(lines) ==
    LET sample == Headers(Sample(lines, StateSample))
    IN  States(FreshState, sample, AnyOrder)[Len(sample)]

\* warm_claude_state: every line of the sample
WarmClaudeState(lines) ==
    LET sample == Sample(lines, StateSample)
    IN  ClaudeStates(sample)[Len(sample)]

\* active_codex_session_paths: a processor's session is recorded, not watched.
SkipCodexFile ==
    /\ phase = "off" /\ file # <<>> /\ ~IsClaude
    /\ \E fresh \in BOOLEAN :
         LET ids == Refreshed(fresh)
         IN  /\ IsInternal(Sample(file, GuardSample), FreshState, ids)
             /\ known' = Recorded(ids, file, FreshState)
    /\ UNCHANGED <<setting, file, memoryFile, watcher>>

\* The import of an attach guards its input once more, now with the warm state.
AttachTo(warm, ids) ==
    LET chunk == IF history THEN file ELSE Suffix(file, ContextTail)
        start == IF history THEN FreshState ELSE warm
        skip  == IsInternal(chunk, start, ids)
    IN  /\ st' = start /\ end' = Len(file) /\ attached' = Len(file)
        /\ pos' = IF skip THEN Len(file) ELSE Len(file) - Len(chunk)
        /\ phase' = CASE skip -> "live" [] ~skip /\ history -> "chunk" [] OTHER -> "context"
        /\ known' = IF skip THEN Recorded(ids, chunk, start) ELSE ids
        /\ UNCHANGED <<setting, file, memoryFile, internal, posted, lost>>

\* initialize_codex_watcher
AttachCodex ==
    /\ phase = "off" /\ file # <<>> /\ ~IsClaude
    /\ \E fresh \in BOOLEAN :
         /\ ~IsInternal(Sample(file, GuardSample), FreshState, Refreshed(fresh))
         /\ AttachTo(WarmCodexState(file), Refreshed(fresh))

\* active_claude_session_paths, initialize_claude_watcher
AttachClaude ==
    /\ phase = "off" /\ file # <<>> /\ IsClaude
    /\ ~IsInternal(Sample(file, GuardSample), FreshState, {})
    /\ AttachTo(WarmClaudeState(file), {})

StartupKinds ==
    {"SessionStart", "TurnStart", "CommandExec", "ToolStart", "McpCall", "AgentMessage"}

\* The server takes the event, or the post fails and the event is gone.
Post(line, event) ==
    \/ /\ posted' = Append(posted, [line |-> line, event |-> event])
       /\ UNCHANGED lost
    \/ /\ Cardinality(lost) < MaxLost
       /\ lost' = lost \cup {line}
       /\ UNCHANGED posted

\* One line of an import: normalized, dropped if `drops` says so, or posted.
Import(drops(_, _), order, fresh, next) ==
    \E out \in {Adapt(st, file[pos + 1], order)} :
        LET ids == IF out.event = NoEvent THEN known ELSE Refreshed(fresh)
        IN  /\ st' = out.state /\ known' = ids /\ pos' = pos + 1
            /\ IF out.event = NoEvent \/ drops(out.event, ids)
               THEN UNCHANGED <<posted, lost>>
               ELSE Post(pos + 1, out.event)
            /\ phase' = IF pos + 1 < end THEN phase ELSE next
            /\ UNCHANGED <<setting, file, memoryFile, end, internal, attached>>

IsProcessors(event, ids) == guarded /\ event.session \in ids
IsLate(event, ids) == event.kind \notin StartupKinds

\* import_codex_chunk
ImportCodexLine ==
    /\ phase = "chunk" /\ ~IsClaude
    /\ \E order \in CallOrders, fresh \in BOOLEAN : Import(IsProcessors, order, fresh, "live")

\* import_codex_filtered_chunk
ImportCodexContextLine ==
    /\ phase = "context" /\ ~IsClaude
    /\ \E order \in CallOrders, fresh \in BOOLEAN :
         Import(LAMBDA event, ids : IsProcessors(event, ids) \/ IsLate(event, ids),
                order, fresh, "recap")

\* import_claude_chunk
ImportClaudeLine ==
    /\ phase = "chunk" /\ IsClaude
    /\ \E order \in CallOrders : Import(LAMBDA event, ids : FALSE, order, FALSE, "live")

\* import_claude_context_chunk
ImportClaudeContextLine ==
    /\ phase = "context" /\ IsClaude
    /\ \E order \in CallOrders : Import(IsLate, order, FALSE, "live")

\* The context once more, on a copy of a state, for the recap and the checkpoint:
\* without what the registry drops and what is older than STARTUP_RECAP_MAX_AGE
\* (everything before some line).
Context == Suffix(SubSeq(file, 1, attached), ContextTail)
ContextEvents(state, order, since) ==
    LET event(i) == Replay(state, Context, order, i).event
    IN  IF (guarded /\ Session \in known) \/ IsInternal(Context, state, known) THEN {}
        ELSE {[line |-> attached - Len(Context) + i, event |-> event(i)] :
                i \in {j \in since..Len(Context) : event(j) # NoEvent}}

IsWatched(command) == command.watched
HasContext(text) == text.topic

\* attach_recap_rank; 0 when attach_recap_summary has nothing to say
RecapRank(event) ==
    CASE event.kind \in {"AgentMessage", "TurnComplete", "TurnFail"} /\ HasContext(event.summary) -> 100
      [] event.kind = "ToolComplete" /\ IsWatched(event.command) -> 80
      [] event.kind \in {"CommandExec", "ToolStart"} /\ IsWatched(event.command) -> 40
      [] OTHER -> 0

Synthetic(event, summary, command) ==
    [event EXCEPT !.kind = "AgentMessage", !.summary = summary, !.tool = Absent,
                  !.command = command]

Skipping(next) == phase' = next /\ UNCHANGED <<posted, lost>>

\* codex_startup_recap_event: the best rank, and the latest of that rank
Worthy(events) == {e \in events : RecapRank(e.event) > 0}
Best(events) ==
    {e \in events : \A o \in events :
       \/ RecapRank(e.event) > RecapRank(o.event)
       \/ RecapRank(e.event) = RecapRank(o.event) /\ e.line >= o.line}
Summed(event) == IF RecapRank(event) = 100 THEN event.summary ELSE Filler("active")
Recap ==
    /\ phase = "recap"
    /\ \E order \in CallOrders, since \in 1..Len(Context) + 1 :
         \E seen \in {Worthy(ContextEvents(WarmCodexState(SubSeq(file, 1, attached)),
                                          order, since))} :
           \/ seen = {} /\ Skipping("checkpoint")
           \/ \E best \in Best(seen) :
                /\ phase' = "checkpoint"
                /\ Post(0, Synthetic(best.event, Summed(best.event), NoCommand))
    /\ UNCHANGED <<setting, file, memoryFile, known, pos, end, st, internal, attached>>

NeverEnded(c) == FALSE      \* mutant: ended calls are not taken out
EndedInContext(c) ==
    \E i \in attached - Len(Context) + 1..attached :
      file[i].type = "exec_command_end" /\ file[i].call = c

\* codex_active_command_attach_event: the latest command started and not ended
StillOpen(events) ==
    {e \in events : /\ e.event.kind = "CommandExec" /\ IsWatched(e.event.command)
                    /\ ~EndedInContext(file[e.line].call)}
Latest(events) == {e \in events : \A o \in events : e.line >= o.line}
Checkpoint ==
    /\ phase = "checkpoint"
    /\ \E order \in CallOrders, since \in 1..Len(Context) + 1 :
         \E open \in {StillOpen(ContextEvents(st, order, since))} :
           \/ open = {} /\ Skipping("live")
           \/ \E last \in Latest(open) :
                /\ phase' = "live"
                /\ Post(0, Synthetic(last.event, Filler("active"), last.event.command))
    /\ UNCHANGED <<setting, file, memoryFile, known, pos, end, st, internal, attached>>

-------------------------------------------------------------------------------
(* poll_codex_watchers, poll_claude_watchers *)

Chunk == SubSeq(file, end + 1, Len(file))

\* A chunk of a processor's session, or any once the flag is set, is recorded
\* and not normalized: the state stays as it was.
PollCodex ==
    /\ phase = "live" /\ end < Len(file) /\ ~IsClaude
    /\ end' = Len(file)
    /\ \E fresh \in BOOLEAN :
         LET ids  == Refreshed(fresh)
             skip == internal \/ IsInternal(Chunk, st, ids)
         IN  \/ /\ skip
                /\ internal' = (internal \/ IsConfirmed(Chunk, st, ids))
                /\ known' = Recorded(ids, Chunk, st)
                /\ pos' = Len(file) /\ UNCHANGED phase
             \/ /\ ~skip
                /\ known' = ids /\ phase' = "chunk" /\ UNCHANGED <<internal, pos>>
    /\ UNCHANGED <<setting, file, memoryFile, st, attached, posted, lost>>

\* Claude chunks are looked at one by one, without a registry, state or flag.
PollClaude ==
    /\ phase = "live" /\ end < Len(file) /\ IsClaude
    /\ end' = Len(file)
    /\ IF IsInternal(Chunk, st, {}) THEN pos' = Len(file) /\ UNCHANGED phase
       ELSE phase' = "chunk" /\ UNCHANGED pos
    /\ UNCHANGED <<setting, file, memoryFile, known, st, internal, attached, posted, lost>>

\* A claude hook is posted on its own, outside of any file.
Hook ==
    /\ owner = "hooks" /\ posted = <<>>
    /\ \E c \in Calls, ok \in BOOLEAN,
         hook \in {"SessionStart", "PreToolUse", "PostToolUse", "Stop", "PreCompact", "Notification"} :
         LET line == [session |-> Session, cwd |-> HomeDir, type |-> "hook", hook |-> hook, ok |-> ok,
                      tool |-> CallSpec[c].tool, command |-> CallSpec[c].command]
         IN  posted' = Append(posted, [line |-> 0, event |-> NormalizeClaude(FreshState, line).event])
    /\ UNCHANGED <<setting, file, memoryFile, known, phase, pos, end, st, internal, attached, lost>>

ImportNext ==
    \/ OpenFile \/ OpenTurn \/ StartTurn \/ Prompt \/ Say \/ Call \/ EndCall \/ Plan \/ Finish
    \/ SaveMemory \/ SkipCodexFile \/ AttachCodex \/ AttachClaude
    \/ ImportCodexLine \/ ImportCodexContextLine \/ ImportClaudeLine \/ ImportClaudeContextLine
    \/ Recap \/ Checkpoint \/ PollCodex \/ PollClaude \/ Hook

ImportSpec == ImportInit /\ [][ImportNext]_importVars

-------------------------------------------------------------------------------
(* Properties. *)

\* What the summary processor answers never comes back as an event of a coding
\* session: not when the answer is read long after its prompt, not from the tail
\* or a recap at attach, not before the registry knows the session.  A processor
\* with a directory of its own is recognised by its prompt alone until it has
\* answered.  Of a file longer than the sample the prompt is found in the context
\* tail; what is longer than that, or read with its history (which leaves no state
\* behind when it is skipped), is not covered.
ReadToBeRecognised ==
    owner = "custom" => attached <= GuardSample \/ (~history /\ attached <= ContextTail)
AnswersStayPrivate ==
    owner \in {"memory", "custom", "claude_processor"} /\ ReadToBeRecognised =>
      \A i \in DOMAIN posted : posted[i].event.summary # Reply

\* The results of parallel calls may end in any order, in a later turn and with
\* their call forgotten: a codex result is told with the tool and the command of
\* its own call or with none, and a test verdict is given for a test only.  A
\* claude result carries no call, so this is so while calls do not overlap and
\* the watcher has read the call, not only sampled it.
WasRead(i) == history \/ attached - ContextTail < i
OneAtATime(n) ==
    \A i \in CallStarts(file[n].call) :
      WasRead(i) /\ \A j \in Lines({"tool_use"}) : ~(i < j /\ j < n)
ResultsNameTheirCall ==
    \A i \in DOMAIN posted :
      LET n == posted[i].line e == posted[i].event
      IN  n \in Lines({"exec_command_end", "tool_result"}) /\ (IsClaude => OneAtATime(n)) =>
            /\ e.tool \in {Absent, CallSpec[file[n].call].tool}
            /\ e.command \in {NoCommand, CallSpec[file[n].call].command}
            /\ IsClaude => e.command = CallSpec[file[n].call].command
            /\ e.kind \in {"TestPass", "TestFail"} => CallSpec[file[n].call].command.test

\* A watcher that attached in the middle of a session tells every later line as
\* one that has read the file from its first line.  When its context tail reached
\* back to the first line: the same event, so the same turn, directory, project,
\* call and repeats (unless a call was forgotten).  When the tail was cut: the
\* same session, and the same turn from the first turn context it has read on.
\* A reader without the registry takes a session whose prompt it finds only in
\* the middle of a long file for a processor's, and loses what it has read.
Parallel(n) == {c \in Calls : \E i \in CallStarts(c) : i <= n /\ \A j \in CallEnds(c) : j > n}
Fits(n) == \A m \in 1..n : Cardinality(Parallel(m)) <= CallCap
FromStart(n) == Replay(FreshState, file, AnyOrder, n)
WholeTail == history \/ attached <= ContextTail
TurnRead(n) == \E i \in Lines({"turn_context"}) : WasRead(i) /\ i < n
LiveAsFromStart ==
    owner = "user" /\ (guarded \/ attached <= GuardSample) =>
      \A i \in DOMAIN posted :
        LET n == posted[i].line e == posted[i].event IN
        n > attached =>
          LET told == FromStart(n)
          IN  /\ e.session = told.state.session
              /\ TurnRead(n) => e.turn = told.state.turn
              /\ WholeTail /\ Fits(n) => e = told.event

\* With the publisher's registry a user's session is told completely, also when
\* the user quotes the summary processor's prompt: every line read since the
\* watcher attached that says something was posted, unless its post failed.
UserLinesTold ==
    owner = "user" /\ guarded /\ WholeTail =>
      \A n \in attached + 1..pos :
        \/ n \in lost
        \/ \E i \in DOMAIN posted : posted[i].line = n
        \/ ~Fits(n)
        \/ FromStart(n).event = NoEvent

\* The checkpoint of an attach is about a command that was running then: started
\* in the lines read and not ended in them.
CheckpointIsRunning ==
    \A i \in DOMAIN posted :
      posted[i].line = 0 /\ ~IsClaude /\ posted[i].event.command # NoCommand =>
        \E c \in Calls :
          /\ posted[i].event.command = CallSpec[c].command
          /\ \E n \in CallStarts(c) : n <= attached
          /\ \A n \in CallEnds(c) : n > attached
===============================================================================
