---------------------------- MODULE TranscriptLines ----------------------------
(***************************************************************************)
(* What agent_feed_adapters makes of one line of an agent's transcript.    *)
(* Normalize (codex rollouts) and NormalizeClaude (claude stream-json) take *)
(* the state kept between lines and a line, and give the next state and the *)
(* event the line tells, or NoEvent.                                       *)
(*                                                                         *)
(* A line is a record of the parts the adapters look at.  A text is a      *)
(* record of what display_safe_agent_sentence asks of it; a command of      *)
(* what is_test_command, project_from_text and                             *)
(* active_command_recap_summary ask of it.                                 *)
(***************************************************************************)
EXTENDS Naturals, FiniteSets, SequencesExt

CONSTANTS
    Absent,             \* an absent field
    ProjectOf,          \* [directory -> the label of its last component]
    GenericProjects,    \* repo, repos, workspace, workspaces
    CallCap,            \* 256 remembered calls
    MessageCap          \* 64 remembered messages

Text(id, about, topic) ==
    [id |-> id, form |-> "plain", private |-> FALSE, about |-> about, topic |-> topic]
NoText == [Text(Absent, Absent, FALSE) EXCEPT !.form = "blank"]
\* A sentence of the adapter's own, used when the text may not be shown.
Filler(id) == Text(id, Absent, FALSE)

Command(id, test, about, watched) ==
    [id |-> id, test |-> test, about |-> about, watched |-> watched]
NoCommand == Command(Absent, FALSE, Absent, FALSE)

BlankLine ==
    [type |-> "other", session |-> Absent, turn |-> Absent, call |-> Absent, cwd |-> Absent,
     tool |-> Absent, command |-> NoCommand, text |-> NoText, ok |-> TRUE]

NoUse == [tool |-> Absent, command |-> NoCommand]
FreshState ==
    [session |-> Absent, turn |-> Absent, cwd |-> Absent, active |-> Absent,
     activeProject |-> Absent, calls |-> <<>>, recent |-> <<>>, last |-> NoUse]

NoEvent == [kind |-> "none"]
Silent(st) == [state |-> st, event |-> NoEvent]

Or(a, b) == IF a = Absent THEN b ELSE a
Label(cwd) == IF cwd = Absent THEN Absent ELSE ProjectOf[cwd]
Concrete(project) == IF project \in GenericProjects THEN Absent ELSE project

IsTest(command) == command.test

\* A private line, a processor's answer it did not want published and broken
\* JSON are never quoted: the filler is told instead.
DisplaySafe(text) ==
    text.form \in {"plain", "summary"} /\ ~text.private
Quoted(text, filler) == IF DisplaySafe(text) THEN text ELSE Filler(filler)

-------------------------------------------------------------------------------
(* codex *)

Draft(cwd, summary, tool, command) ==
    [cwd |-> cwd, summary |-> summary, tool |-> tool, command |-> command]

\* Where an event that happened in cwd belongs.
Placed(st, cwd) ==
    Or(Concrete(Label(cwd)), Or(st.activeProject, Or(Label(cwd), Label(st.cwd))))

\* What is said tells its project by its words, work by its place.
ProjectBy(kind, context, placed) ==
    IF kind \in {"AgentMessage", "TurnComplete", "TurnFail"}
    THEN Or(context, placed) ELSE Or(placed, context)

Named(project, context) ==
    IF project \in GenericProjects THEN Or(context, project) ELSE project

BuildEvent(st, kind, draft) ==
    LET cwd     == Or(draft.cwd, Or(st.active, st.cwd))
        context == Or(draft.summary.about, draft.command.about)
    IN  [kind |-> kind, session |-> st.session, turn |-> st.turn, cwd |-> cwd,
         project |-> Named(ProjectBy(kind, context, Placed(st, cwd)), context),
         summary |-> draft.summary, tool |-> draft.tool, command |-> draft.command]

Tells(st, kind, draft) == [state |-> st, event |-> BuildEvent(st, kind, draft)]

RememberWork(st, cwd) ==
    IF \/ cwd = Absent
       \/ Concrete(Label(cwd)) = Absent /\ Concrete(st.activeProject) # Absent
    THEN st
    ELSE [st EXCEPT !.active = cwd, !.activeProject = Label(cwd)]

ResetWork(st) == [st EXCEPT !.active = Absent, !.activeProject = Absent]

\* insert_call_context: over the cap the map gives up whichever key it lists
\* first, possibly the one just inserted; `order` is the order of its keys.
FirstListed(order, keys) == SelectSeq(order, LAMBDA c : c \in keys)[1]
InsertCall(st, line, order) ==
    LET keys  == DOMAIN st.calls \cup {line.call}
        calls == [c \in keys |-> IF c = line.call
                                 THEN Draft(line.cwd, NoText, line.tool, line.command)
                                 ELSE st.calls[c]]
        kept  == IF Cardinality(keys) > CallCap THEN keys \ {FirstListed(order, keys)} ELSE keys
    IN  IF line.call = Absent THEN st
        ELSE [st EXCEPT !.calls = [c \in kept |-> calls[c]]]

NoContext == Draft(Absent, NoText, Absent, NoCommand)
\* mutant: whichever call is remembered
AnyContext(st, line) ==
    IF st.calls = <<>> THEN NoContext ELSE st.calls[CHOOSE c \in DOMAIN st.calls : TRUE]
CallContext(st, line) ==
    IF line.call \in DOMAIN st.calls THEN st.calls[line.call] ELSE NoContext
TakeCall(st, line) ==
    [st EXCEPT !.calls = [c \in DOMAIN st.calls \ {line.call} |-> st.calls[c]]]

SessionMeta(st, line) ==
    LET st1 == [st EXCEPT !.session = line.session, !.cwd = line.cwd]
    IN  Tells(st1, "SessionStart", Draft(Absent, Filler("session"), Absent, NoCommand))

TurnContext(st, line) ==
    Silent([ResetWork(st) EXCEPT !.turn = Or(line.turn, @), !.cwd = Or(line.cwd, @)])

TaskStarted(st, line) ==
    Tells(ResetWork(st), "TurnStart", Draft(Absent, Filler("model"), Absent, NoCommand))

TaskComplete(st, line) ==
    Tells(st, "TurnComplete", Draft(Absent, Quoted(line.text, "completed"), Absent, NoCommand))

TurnAborted(st, line) ==
    Tells(st, "TurnFail", Draft(Absent, Quoted(line.text, "stopped"), Absent, NoCommand))

PlanCompleted(st, line) ==
    Tells(st, "PlanUpdate", Draft(Absent, Filler("plan"), Absent, NoCommand))

\* Codex writes one message as an event and as a response item; only the first
\* is told, and so is only the first of equal messages of different turns.
AgentMessage(st, line) ==
    LET said   == Quoted(line.text, "unquoted")
        recent == Append(st.recent, said.id)
        st1    == [st EXCEPT
                     !.recent = SubSeq(recent, IF Len(recent) > MessageCap THEN 2 ELSE 1,
                                       Len(recent)),
                     !.activeProject = Or(Concrete(said.about), @)]
    IN  IF said.id \in ToSet(st.recent) THEN Silent(st)
        ELSE Tells(st1, "AgentMessage", Draft(Absent, said, Absent, NoCommand))

CallKind(tool) ==
    CASE tool = "exec_command" -> "CommandExec"
      [] tool = "apply_patch"  -> "DiffCreated"
      [] tool = "mcp"          -> "McpCall"
      [] OTHER                 -> "ToolStart"

\* Only a command keeps its own text; the other tools are named.
ToolStarted(st, line, order) ==
    LET st1     == InsertCall(RememberWork(st, line.cwd), line, order)
        command == IF line.tool = "exec_command" THEN line.command
                   ELSE Command(line.tool, FALSE, Absent, FALSE)
    IN  Tells(st1, CallKind(line.tool),
              Draft(line.cwd, Filler("started"), line.tool, command))

Verdict(test, ok, plain) ==
    CASE test /\ ok -> "TestPass" [] test /\ ~ok -> "TestFail"
      [] ~test /\ ok -> plain     [] ~test /\ ~ok -> "ToolFail"

CommandEnded(st, line) ==
    LET context == CallContext(st, line)
        command == IF line.command = NoCommand THEN context.command ELSE line.command
        cwd     == Or(line.cwd, context.cwd)
    IN  Tells(RememberWork(TakeCall(st, line), cwd),
              Verdict(IsTest(command), line.ok, "ToolComplete"),
              Draft(cwd, Filler("ended"), context.tool, command))

PatchEnded(st, line) ==
    LET context == CallContext(st, line)
        cwd     == Or(line.cwd, context.cwd)
    IN  Tells(RememberWork(TakeCall(st, line), cwd),
              IF line.ok THEN "FileChanged" ELSE "ToolFail",
              Draft(cwd, Filler("patched"), context.tool,
                    Command("apply_patch", FALSE, Absent, FALSE)))

\* normalize_transcript_value
Normalize(st, line, order) ==
    LET st1 == [st EXCEPT !.turn = Or(line.turn, @)]
    IN  CASE line.type = "session_meta"     -> SessionMeta(st, line)
          [] line.type = "turn_context"     -> TurnContext(st, line)
          [] line.type = "task_started"     -> TaskStarted(st1, line)
          [] line.type = "task_complete"    -> TaskComplete(st1, line)
          [] line.type = "turn_aborted"     -> TurnAborted(st1, line)
          [] line.type = "plan_completed"   -> PlanCompleted(st1, line)
          [] line.type = "agent_message"    -> AgentMessage(st1, line)
          [] line.type = "function_call"    -> ToolStarted(st1, line, order)
          [] line.type = "exec_command_end" -> CommandEnded(st1, line)
          [] line.type = "patch_apply_end"  -> PatchEnded(st1, line)
          [] OTHER                          -> Silent(st1)

-------------------------------------------------------------------------------
(* claude *)

ClaudeTells(st, kind, summary, use) ==
    [state |-> st,
     event |-> [kind |-> kind, session |-> st.session, turn |-> Absent, cwd |-> st.cwd,
                project |-> Label(st.cwd), summary |-> summary,
                tool |-> use.tool, command |-> use.command]]

UpdateClaude(st, line) ==
    [st EXCEPT !.session = Or(line.session, @), !.cwd = Or(line.cwd, @)]

Use(line) == [tool |-> line.tool, command |-> line.command]

\* A tool result does not say which call it answers: the last call is assumed.
ClaudeResult(st, line) ==
    ClaudeTells(st, Verdict(IsTest(st.last.command), line.ok, "ToolComplete"),
                Filler("result"),
                [st.last EXCEPT !.tool = Or(@, "tool")])

FileTools == {"Write", "Edit", "MultiEdit", "NotebookEdit"}

\* A hook carries the input of its own tool call.
ClaudeHook(st, line) ==
    LET after == Verdict(IsTest(line.command), line.ok,
                         IF line.tool \in FileTools THEN "FileChanged" ELSE "ToolComplete")
    IN  CASE line.hook = "SessionStart" ->
               ClaudeTells(st, "SessionStart", Filler("session"), NoUse)
          [] line.hook = "PreToolUse" ->
               ClaudeTells(st, IF line.ok THEN "PermissionRequest" ELSE "PermissionDenied",
                           Filler("permission"), Use(line))
          [] line.hook = "PostToolUse" -> ClaudeTells(st, after, Filler("hook"), Use(line))
          [] line.hook \in {"Stop", "SubagentStop"} ->
               ClaudeTells(st, "TurnComplete", Filler("stop"), NoUse)
          [] line.hook = "PreCompact" ->
               ClaudeTells(st, "SummaryCreated", Filler("compact"), NoUse)
          [] line.hook = "Notification" ->
               ClaudeTells(st, "AgentMessage", Filler("notification"), NoUse)

\* normalize_stream_value
NormalizeClaude(state, line) ==
    LET st == UpdateClaude(state, line)
    IN  CASE line.type = "system" ->
               ClaudeTells(st, "SessionStart", Filler("session"), NoUse)
          [] line.type = "tool_use" ->
               ClaudeTells([st EXCEPT !.last = Use(line)],
                           IF line.tool = "Bash" THEN "CommandExec" ELSE "ToolStart",
                           Filler("started"), Use(line))
          [] line.type = "assistant" ->
               ClaudeTells(st, "AgentMessage", Quoted(line.text, "unquoted"), NoUse)
          [] line.type = "tool_result" -> ClaudeResult(st, line)
          [] line.type = "result" ->
               ClaudeTells(st, IF line.ok THEN "TurnComplete" ELSE "TurnFail",
                           Quoted(line.text, "completed"), NoUse)
          [] line.type = "error" -> ClaudeTells(st, "Error", Filler("error"), NoUse)
          [] line.type = "hook" -> ClaudeHook(st, line)
          [] OTHER -> Silent(st)
===============================================================================
