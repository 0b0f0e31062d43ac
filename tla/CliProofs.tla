------------------------------ MODULE CliProofs ------------------------------
(***************************************************************************)
(* Proofs about the two threads of agent_feed_cli that have their own      *)
(* models: what TranscriptImport posts of a session, for any bounds on     *)
(* what is sampled, replayed and remembered, and what ServePublisher owes, *)
(* for every number of publishers, stories, failures and restarts, every   *)
(* batch and every answer of the edge.                                     *)
(***************************************************************************)
EXTENDS ServePublisher, TranscriptImport, OrderLemmas

---------------------------------------------------------------------------
(* What the adapters make of one line.                                     *)

\* s has the parts of a state of the adapters.
IsState(s) ==
    /\ s = [session |-> s.session, turn |-> s.turn, cwd |-> s.cwd, active |-> s.active,
            activeProject |-> s.activeProject, calls |-> s.calls, recent |-> s.recent,
            last |-> s.last]
    /\ s.last = [tool |-> s.last.tool, command |-> s.last.command]

\* s and t differ in the directory of the work and in the calls at most.
SameTrack(s, t) ==
    /\ s.session = t.session /\ s.turn = t.turn /\ s.cwd = t.cwd
    /\ s.recent = t.recent /\ s.last = t.last

\* build_event stamps a draft with the state it is given.
LEMMA BuildEventParts ==
    ASSUME NEW u, NEW kind, NEW draft
    PROVE  LET e == BuildEvent(u, kind, draft)
           IN  /\ e.kind = kind /\ e.session = u.session /\ e.turn = u.turn
               /\ e.summary = draft.summary /\ e.tool = draft.tool /\ e.command = draft.command
BY DEF BuildEvent

LEMMA TellsParts ==
    ASSUME NEW u, NEW kind, NEW cwd, NEW summary, NEW tool, NEW command
    PROVE  LET out == Tells(u, kind, Draft(cwd, summary, tool, command)) e == out.event
           IN  /\ out.state = u
               /\ e.kind = kind /\ e.session = u.session /\ e.turn = u.turn
               /\ e.summary = summary /\ e.tool = tool /\ e.command = command
BY BuildEventParts DEF Tells, Draft

\* A directory of the work changes the two work fields only.
LEMMA RememberWorkParts ==
    ASSUME NEW u, IsState(u), NEW cwd
    PROVE  LET s == RememberWork(u, cwd)
           IN  /\ IsState(s) /\ SameTrack(s, u) /\ s.calls = u.calls
               /\ s.active \in {u.active, cwd}
BY DEF IsState, SameTrack, RememberWork

\* A new turn forgets the directory of the work, and nothing else.
LEMMA ResetWorkParts ==
    ASSUME NEW u, IsState(u)
    PROVE  LET s == ResetWork(u)
           IN  /\ IsState(s) /\ SameTrack(s, u) /\ s.calls = u.calls
               /\ s.active = Absent /\ s.activeProject = Absent
<1>1. PICK s : s = [u EXCEPT !.active = Absent, !.activeProject = Absent]
  OBVIOUS
<1>2. /\ IsState(s) /\ SameTrack(s, u) /\ s.calls = u.calls
      /\ s.active = Absent /\ s.activeProject = Absent
  BY <1>1 DEF IsState, SameTrack
<1>. QED  BY <1>1, <1>2 DEF ResetWork

\* The calls remembered are those of before and perhaps that of the line.
MoreCalls(calls, line, more) ==
    \A c \in DOMAIN more :
       \/ c \in DOMAIN calls /\ more[c] = calls[c]
       \/ c = line.call /\ more[c] = Draft(line.cwd, NoText, line.tool, line.command)

\* All of them, unless they are too many.
AllCalls(calls, line, more) ==
    line.call # Absent /\ ~(Cardinality(DOMAIN calls \cup {line.call}) > CallCap) =>
       DOMAIN more = DOMAIN calls \cup {line.call}

\* A started call is remembered, and at most the one thrown out is forgotten.
LEMMA InsertCallParts ==
    ASSUME NEW u, IsState(u), NEW line, NEW order,
           NEW s, s = InsertCall(u, line, order)
    PROVE  /\ IsState(s) /\ SameTrack(s, u) /\ s.active = u.active
           /\ MoreCalls(u.calls, line, s.calls) /\ AllCalls(u.calls, line, s.calls)
<1>1. CASE line.call = Absent
  BY <1>1 DEF IsState, SameTrack, InsertCall, MoreCalls, AllCalls
<1>2. CASE line.call # Absent
  <2>. DEFINE keys  == DOMAIN u.calls \cup {line.call}
              calls == [c \in keys |-> IF c = line.call
                                       THEN Draft(line.cwd, NoText, line.tool, line.command)
                                       ELSE u.calls[c]]
  <2>1. PICK kept : /\ kept = IF Cardinality(keys) > CallCap
                              THEN keys \ {FirstListed(order, keys)} ELSE keys
    OBVIOUS
  <2>2. kept \subseteq keys /\ (~(Cardinality(keys) > CallCap) => kept = keys)
    BY <2>1
  <2>3. s = [u EXCEPT !.calls = [c \in kept |-> calls[c]]]
    BY <1>2, <2>1 DEF InsertCall
  <2>4. PICK map : map = [c \in kept |-> calls[c]]
    OBVIOUS
  <2>5. /\ DOMAIN map = kept
        /\ \A c \in kept : map[c] = IF c = line.call
                                    THEN Draft(line.cwd, NoText, line.tool, line.command)
                                    ELSE u.calls[c]
    BY <2>2, <2>4
  <2>6. s = [u EXCEPT !.calls = map]
    BY <2>3, <2>4
  <2>7. IsState(s) /\ SameTrack(s, u) /\ s.active = u.active /\ s.calls = map
    BY <2>6 DEF IsState, SameTrack
  <2>. HIDE DEF calls
  <2>8. MoreCalls(u.calls, line, map) /\ AllCalls(u.calls, line, map)
    BY <2>2, <2>5 DEF MoreCalls, AllCalls
  <2>. QED  BY <2>7, <2>8
<1>. QED  BY <1>1, <1>2

\* The calls without the one of the line.
FewerCalls(calls, line, fewer) ==
    /\ DOMAIN fewer = DOMAIN calls \ {line.call}
    /\ \A c \in DOMAIN fewer : fewer[c] = calls[c]

\* An ended call is forgotten, and no other.
LEMMA TakeCallParts ==
    ASSUME NEW u, IsState(u), NEW line, NEW s, s = TakeCall(u, line)
    PROVE  /\ IsState(s) /\ SameTrack(s, u) /\ s.active = u.active
           /\ FewerCalls(u.calls, line, s.calls)
<1>1. PICK map : map = [c \in DOMAIN u.calls \ {line.call} |-> u.calls[c]]
  OBVIOUS
<1>2. s = [u EXCEPT !.calls = map]
  BY <1>1 DEF TakeCall
<1>3. IsState(s) /\ SameTrack(s, u) /\ s.active = u.active /\ s.calls = map
  BY <1>2 DEF IsState, SameTrack
<1>4. FewerCalls(u.calls, line, map)
  BY <1>1 DEF FewerCalls
<1>. QED  BY <1>3, <1>4

\* The state after a line: which session and turn it is in, where the agent
\* works, the calls remembered, and what is kept for the claude adapter.
KeepsTrack(u, line, s) ==
    /\ IsState(s)
    /\ s.session = IF line.type = "session_meta" THEN line.session ELSE u.session
    /\ s.turn = IF line.type = "session_meta" THEN u.turn ELSE Or(line.turn, u.turn)
    /\ s.last = u.last

\* The directories a state holds are of the line or were there before.
KeepsPlace(u, line, s) ==
    /\ s.cwd = IF line.type = "session_meta" THEN line.cwd
               ELSE IF line.type = "turn_context" THEN Or(line.cwd, u.cwd) ELSE u.cwd
    /\ \/ s.active \in {Absent, u.active, line.cwd}
       \/ s.active \in {u.calls[c].cwd : c \in DOMAIN u.calls}

\* So are its calls.
KeepsCalls(u, line, s) ==
    \A c \in DOMAIN s.calls :
       \/ c \in DOMAIN u.calls /\ s.calls[c] = u.calls[c]
       \/ /\ line.type = "function_call" /\ c = line.call
          /\ s.calls[c] = Draft(line.cwd, NoText, line.tool, line.command)

\* Unless there are too many, they are those started and not ended.
CountsCalls(u, line, s) ==
    CASE line.type = "function_call" -> AllCalls(u.calls, line, s.calls)
      [] line.type \in {"exec_command_end", "patch_apply_end"} ->
            DOMAIN s.calls = DOMAIN u.calls \ {line.call}
      [] OTHER -> s.calls = u.calls

\* An event tells the session and the turn of the state, and says what the
\* line says or a sentence of the adapter's own.
TellsLine(line, out) ==
    \/ out.event = NoEvent
    \/ /\ out.event.session = out.state.session
       /\ out.event.turn = out.state.turn
       /\ out.event.summary = line.text \/ out.event.summary.form = "plain"
       /\ out.event.kind = "CommandExec" =>
             line.type = "function_call" /\ line.tool = "exec_command"
             /\ out.event.command = line.command

Follows(u, line, out) ==
    /\ KeepsTrack(u, line, out.state) /\ KeepsPlace(u, line, out.state)
    /\ KeepsCalls(u, line, out.state) /\ CountsCalls(u, line, out.state)
    /\ TellsLine(line, out)

\* What an adapter shows of a text is the text itself or a sentence of its own.
LEMMA QuotedForm ==
    ASSUME NEW text, NEW filler
    PROVE  Quoted(text, filler) = text \/ Quoted(text, filler).form = "plain"
BY DEF Quoted, Filler, Text

LEMMA FillerForm ==
    ASSUME NEW id
    PROVE  Filler(id).form = "plain"
BY DEF Filler, Text

\* What any codex line makes of any state, type of line by type of line.
LEMMA CodexLine ==
    ASSUME NEW u, IsState(u), NEW line, NEW order
    PROVE  Follows(u, line, Normalize(u, line, order))
<1>. DEFINE out == Normalize(u, line, order)
<1>0. PICK u1 : u1 = [u EXCEPT !.turn = Or(line.turn, @)]
  OBVIOUS
<1>1. /\ IsState(u1) /\ u1.session = u.session /\ u1.turn = Or(line.turn, u.turn)
      /\ u1.cwd = u.cwd /\ u1.active = u.active /\ u1.calls = u.calls
      /\ u1.last = u.last
  BY <1>0 DEF IsState
<1>2. CASE line.type = "session_meta"
  <2>1. out = SessionMeta(u, line)
    BY <1>2 DEF Normalize
  <2>2. PICK s : s = [u EXCEPT !.session = line.session, !.cwd = line.cwd]
    OBVIOUS
  <2>3. /\ IsState(s) /\ s.session = line.session /\ s.turn = u.turn /\ s.cwd = line.cwd
        /\ s.active = u.active /\ s.calls = u.calls /\ s.last = u.last
    BY <2>2 DEF IsState
  <2>4. out = Tells(s, "SessionStart", Draft(Absent, Filler("session"), Absent, NoCommand))
    BY <2>1, <2>2 DEF SessionMeta
  <2>. QED  BY <1>2, <2>3, <2>4, TellsParts, FillerForm
            DEF Follows, KeepsTrack, KeepsPlace, KeepsCalls, CountsCalls, TellsLine
<1>3. CASE line.type = "turn_context"
  <2>1. out = Silent([ResetWork(u) EXCEPT !.turn = Or(line.turn, @), !.cwd = Or(line.cwd, @)])
    BY <1>3 DEF Normalize, TurnContext
  <2>2. PICK r : r = ResetWork(u)
    OBVIOUS
  <2>3. PICK s : s = [r EXCEPT !.turn = Or(line.turn, @), !.cwd = Or(line.cwd, @)]
    OBVIOUS
  <2>4. IsState(r) /\ SameTrack(r, u) /\ r.calls = u.calls /\ r.active = Absent
    BY <2>2, ResetWorkParts
  <2>5. /\ IsState(s) /\ s.session = u.session /\ s.turn = Or(line.turn, u.turn)
        /\ s.cwd = Or(line.cwd, u.cwd) /\ s.active = Absent /\ s.calls = u.calls
        /\ s.last = u.last
    BY <2>3, <2>4 DEF IsState, SameTrack
  <2>6. out.state = s /\ out.event = NoEvent
    BY <2>1, <2>2, <2>3 DEF Silent
  <2>. QED  BY <1>3, <2>5, <2>6 DEF Follows, KeepsTrack, KeepsPlace, KeepsCalls, CountsCalls, TellsLine
<1>4. CASE line.type = "task_started"
  <2>1. out = Tells(ResetWork(u1), "TurnStart", Draft(Absent, Filler("model"), Absent, NoCommand))
    BY <1>0, <1>4 DEF Normalize, TaskStarted
  <2>. QED  BY <1>1, <1>4, <2>1, TellsParts, FillerForm, ResetWorkParts
            DEF Follows, KeepsTrack, KeepsPlace, KeepsCalls, CountsCalls, TellsLine, SameTrack
<1>5. CASE line.type = "task_complete"
  <2>1. out = Tells(u1, "TurnComplete", Draft(Absent, Quoted(line.text, "completed"), Absent, NoCommand))
    BY <1>0, <1>5 DEF Normalize, TaskComplete
  <2>. QED  BY <1>1, <1>5, <2>1, TellsParts, QuotedForm
            DEF Follows, KeepsTrack, KeepsPlace, KeepsCalls, CountsCalls, TellsLine
<1>6. CASE line.type = "turn_aborted"
  <2>1. out = Tells(u1, "TurnFail", Draft(Absent, Quoted(line.text, "stopped"), Absent, NoCommand))
    BY <1>0, <1>6 DEF Normalize, TurnAborted
  <2>. QED  BY <1>1, <1>6, <2>1, TellsParts, QuotedForm
            DEF Follows, KeepsTrack, KeepsPlace, KeepsCalls, CountsCalls, TellsLine
<1>7. CASE line.type = "plan_completed"
  <2>1. out = Tells(u1, "PlanUpdate", Draft(Absent, Filler("plan"), Absent, NoCommand))
    BY <1>0, <1>7 DEF Normalize, PlanCompleted
  <2>. QED  BY <1>1, <1>7, <2>1, TellsParts, FillerForm
            DEF Follows, KeepsTrack, KeepsPlace, KeepsCalls, CountsCalls, TellsLine
<1>8. CASE line.type = "agent_message"
  <2>1. out = AgentMessage(u1, line)
    BY <1>0, <1>8 DEF Normalize
  <2>2. PICK s, said : /\ out = Silent(u1) \/ out = Tells(s, "AgentMessage", Draft(Absent, said, Absent, NoCommand))
                       /\ said = Quoted(line.text, "unquoted")
                       /\ IsState(s) /\ s.session = u1.session /\ s.turn = u1.turn /\ s.cwd = u1.cwd
                       /\ s.active = u1.active /\ s.calls = u1.calls /\ s.last = u1.last
    <3>1. PICK said : said = Quoted(line.text, "unquoted")
      OBVIOUS
    <3>2. PICK list : list = SubSeq(Append(u1.recent, said.id),
                                        IF Len(Append(u1.recent, said.id)) > MessageCap THEN 2 ELSE 1,
                                        Len(Append(u1.recent, said.id)))
      OBVIOUS
    <3>3. PICK s : s = [u1 EXCEPT !.recent = list, !.activeProject = Or(Concrete(said.about), @)]
      OBVIOUS
    <3>4. /\ IsState(s) /\ s.session = u1.session /\ s.turn = u1.turn /\ s.cwd = u1.cwd
          /\ s.active = u1.active /\ s.calls = u1.calls /\ s.last = u1.last
      BY <1>1, <3>3 DEF IsState
    <3>5. \/ out = Silent(u1)
          \/ out = Tells(s, "AgentMessage", Draft(Absent, said, Absent, NoCommand))
      BY <2>1, <3>1, <3>2, <3>3 DEF AgentMessage
    <3>. QED  BY <3>1, <3>4, <3>5
  <2>. QED  BY <1>1, <1>8, <2>1, <2>2, TellsParts, QuotedForm
            DEF Follows, KeepsTrack, KeepsPlace, KeepsCalls, CountsCalls, TellsLine, Silent
<1>9. CASE line.type = "function_call"
  <2>1. PICK s1, s2 : s1 = RememberWork(u1, line.cwd) /\ s2 = InsertCall(s1, line, order)
    OBVIOUS
  <2>2. PICK command : /\ out = Tells(s2, CallKind(line.tool), Draft(line.cwd, Filler("started"), line.tool, command))
                       /\ line.tool = "exec_command" => command = line.command
    BY <1>0, <1>9, <2>1 DEF Normalize, ToolStarted
  <2>3. /\ IsState(s1) /\ SameTrack(s1, u1) /\ s1.calls = u1.calls /\ s1.active \in {u1.active, line.cwd}
    BY <1>1, <2>1, RememberWorkParts
  <2>4. /\ IsState(s2) /\ SameTrack(s2, s1) /\ s2.active = s1.active
        /\ MoreCalls(s1.calls, line, s2.calls) /\ AllCalls(s1.calls, line, s2.calls)
    BY <2>1, <2>3, InsertCallParts
  <2>5. KeepsCalls(u, line, s2) /\ CountsCalls(u, line, s2)
    BY <1>1, <1>9, <2>3, <2>4 DEF KeepsCalls, CountsCalls, MoreCalls, AllCalls
  <2>6. CallKind(line.tool) = "CommandExec" => line.tool = "exec_command"
    BY DEF CallKind
  <2>7. KeepsTrack(u, line, s2) /\ KeepsPlace(u, line, s2)
    BY <1>1, <1>9, <2>3, <2>4 DEF KeepsTrack, KeepsPlace, SameTrack
  <2>8. out.state = s2 /\ TellsLine(line, out)
    BY <1>9, <2>2, <2>6, TellsParts, FillerForm DEF TellsLine
  <2>. QED  BY <2>5, <2>7, <2>8 DEF Follows
<1>10. ASSUME NEW cwd, cwd = Or(line.cwd, CallContext(u1, line).cwd),
               line.type \in {"exec_command_end", "patch_apply_end"}
       PROVE  LET s == RememberWork(TakeCall(u1, line), cwd)
              IN  /\ KeepsTrack(u, line, s) /\ KeepsPlace(u, line, s)
                  /\ KeepsCalls(u, line, s) /\ CountsCalls(u, line, s)
  <2>1. PICK s1, s2 : s1 = TakeCall(u1, line) /\ s2 = RememberWork(s1, cwd)
    OBVIOUS
  <2>2. /\ IsState(s1) /\ SameTrack(s1, u1) /\ s1.active = u1.active
        /\ FewerCalls(u1.calls, line, s1.calls)
    BY <1>1, <2>1, TakeCallParts
  <2>3. /\ IsState(s2) /\ SameTrack(s2, s1) /\ s2.calls = s1.calls /\ s2.active \in {s1.active, cwd}
    BY <2>1, <2>2, RememberWorkParts
  <2>4. cwd \in {Absent, line.cwd} \/ cwd \in {u.calls[c].cwd : c \in DOMAIN u.calls}
    BY <1>1, <1>10 DEF Or, CallContext, NoContext, Draft
  <2>5. KeepsTrack(u, line, s2) /\ KeepsPlace(u, line, s2)
    BY <1>1, <1>10, <2>2, <2>3, <2>4 DEF KeepsTrack, KeepsPlace, SameTrack
  <2>6. KeepsCalls(u, line, s2) /\ CountsCalls(u, line, s2)
    BY <1>1, <1>10, <2>2, <2>3 DEF KeepsCalls, CountsCalls, FewerCalls
  <2>. QED  BY <2>1, <2>5, <2>6
<1>11. CASE line.type = "exec_command_end"
  <2>1. PICK cwd, kind, tool, command :
              /\ cwd = Or(line.cwd, CallContext(u1, line).cwd)
              /\ kind # "CommandExec"
              /\ out = Tells(RememberWork(TakeCall(u1, line), cwd), kind, Draft(cwd, Filler("ended"), tool, command))
    <3>1. out = CommandEnded(u1, line)
      BY <1>0, <1>11 DEF Normalize
    <3>2. \A test : Verdict(test, line.ok, "ToolComplete") # "CommandExec"
      BY DEF Verdict
    <3>. QED  BY <3>1, <3>2 DEF CommandEnded
  <2>. QED  BY <1>10, <1>11, <2>1, TellsParts, FillerForm DEF Follows, TellsLine
<1>12. CASE line.type = "patch_apply_end"
  <2>1. PICK cwd, kind, tool, command :
              /\ cwd = Or(line.cwd, CallContext(u1, line).cwd)
              /\ kind # "CommandExec"
              /\ out = Tells(RememberWork(TakeCall(u1, line), cwd), kind, Draft(cwd, Filler("patched"), tool, command))
    BY <1>0, <1>12 DEF Normalize, PatchEnded
  <2>. QED  BY <1>10, <1>12, <2>1, TellsParts, FillerForm DEF Follows, TellsLine
<1>13. CASE line.type \notin {"session_meta", "turn_context", "task_started", "task_complete",
                "turn_aborted", "plan_completed", "agent_message", "function_call",
                "exec_command_end", "patch_apply_end"}
  <2>1. out.state = u1 /\ out.event = NoEvent
    BY <1>0, <1>13 DEF Normalize, Silent
  <2>. QED  BY <1>1, <1>13, <2>1 DEF Follows, KeepsTrack, KeepsPlace, KeepsCalls, CountsCalls, TellsLine
<1>. QED  BY <1>2, <1>3, <1>4, <1>5, <1>6, <1>7, <1>8, <1>9, <1>11, <1>12, <1>13

\* The order in which a map lists its keys matters to a call over the cap only.
LEMMA OrderIsForMany ==
    ASSUME NEW u, IsState(u), NEW line, NEW o1, NEW o2,
           line.type = "function_call" /\ line.call # Absent =>
              ~(Cardinality(DOMAIN u.calls \cup {line.call}) > CallCap)
    PROVE  Normalize(u, line, o1) = Normalize(u, line, o2)
<1>1. CASE line.type # "function_call"
  BY <1>1 DEF Normalize
<1>2. CASE line.type = "function_call"
  <2>1. PICK u1 : u1 = [u EXCEPT !.turn = Or(line.turn, @)]
    OBVIOUS
  <2>2. IsState(u1) /\ u1.calls = u.calls
    BY <2>1 DEF IsState
  <2>3. PICK s : s = RememberWork(u1, line.cwd)
    OBVIOUS
  <2>4. s.calls = u.calls
    BY <2>2, <2>3, RememberWorkParts
  <2>5. InsertCall(s, line, o1) = InsertCall(s, line, o2)
    BY <1>2, <2>4 DEF InsertCall
  <2>6. ToolStarted(u1, line, o1) = ToolStarted(u1, line, o2)
    BY <2>3, <2>5 DEF ToolStarted
  <2>. QED  BY <1>2, <2>1, <2>6 DEF Normalize
<1>. QED  BY <1>1, <1>2

\* What the end of a command tells: of its call, or of no call.
TellsEnd(calls, line, e) ==
    LET context == IF line.call \in DOMAIN calls THEN calls[line.call] ELSE NoContext
        command == IF line.command = NoCommand THEN context.command ELSE line.command
    IN  /\ e.tool = context.tool /\ e.command = command
        /\ e.kind \in {"TestPass", "TestFail"} => command.test

\* The end of a command is told with what it names itself, else with its remembered call.
LEMMA EndTells ==
    ASSUME NEW u, IsState(u), NEW line, line.type = "exec_command_end", NEW order
    PROVE  TellsEnd(u.calls, line, Normalize(u, line, order).event)
<1>1. PICK u1 : u1 = [u EXCEPT !.turn = Or(line.turn, @)]
  OBVIOUS
<1>2. u1.calls = u.calls
  BY <1>1 DEF IsState
<1>3. PICK context : context = CallContext(u1, line)
  OBVIOUS
<1>4. context = IF line.call \in DOMAIN u.calls THEN u.calls[line.call] ELSE NoContext
  BY <1>2, <1>3 DEF CallContext
<1>5. PICK command : command = IF line.command = NoCommand THEN context.command ELSE line.command
  OBVIOUS
<1>6. PICK s, kind, cwd :
         /\ Normalize(u, line, order) = Tells(s, kind, Draft(cwd, Filler("ended"), context.tool, command))
         /\ kind = Verdict(IsTest(command), line.ok, "ToolComplete")
  BY <1>1, <1>3, <1>5 DEF Normalize, CommandEnded
<1>7. kind \in {"TestPass", "TestFail"} => command.test
  BY <1>6 DEF Verdict, IsTest
<1>8. PICK e : e = Normalize(u, line, order).event
  OBVIOUS
<1>9. e.tool = context.tool /\ e.command = command /\ e.kind = kind
  BY <1>6, <1>8, TellsParts
<1>. QED  BY <1>4, <1>5, <1>7, <1>8, <1>9 DEF TellsEnd

\* What an agent's session and turn contexts leave alone.
Unworked(s) ==
    /\ s.active = Absent /\ s.activeProject = Absent
    /\ s.calls = <<>> /\ s.recent = <<>> /\ s.last = NoUse

LEMMA FreshParts ==
    /\ IsState(FreshState) /\ Unworked(FreshState)
    /\ FreshState.session = Absent /\ FreshState.turn = Absent /\ FreshState.cwd = Absent
BY DEF FreshState, IsState, Unworked, NoUse

\* Headers alone leave a state without directory of the work, calls or messages.
LEMMA HeaderLine ==
    ASSUME NEW u, IsState(u), Unworked(u), NEW line, NEW order,
           line.type \in {"session_meta", "turn_context"} \/ line = BlankLine
    PROVE  Unworked(Normalize(u, line, order).state)
<1>1. CASE line.type = "session_meta"
  <2>1. Normalize(u, line, order).state = [u EXCEPT !.session = line.session, !.cwd = line.cwd]
    BY <1>1 DEF Normalize, SessionMeta, Tells
  <2>. QED  BY <2>1 DEF Unworked, IsState
<1>2. CASE line.type = "turn_context"
  <2>1. PICK r : r = ResetWork(u)
    OBVIOUS
  <2>2. Normalize(u, line, order).state = [r EXCEPT !.turn = Or(line.turn, @), !.cwd = Or(line.cwd, @)]
    BY <1>2, <2>1 DEF Normalize, TurnContext, Silent
  <2>3. IsState(r) /\ Unworked(r)
    BY <2>1, ResetWorkParts DEF Unworked, SameTrack
  <2>. QED  BY <2>2, <2>3 DEF Unworked, IsState
<1>3. CASE line = BlankLine
  <2>1. line.type = "other"
    BY <1>3 DEF BlankLine
  <2>2. Normalize(u, line, order).state = [u EXCEPT !.turn = Or(line.turn, @)]
    BY <2>1 DEF Normalize, Silent
  <2>. QED  BY <2>2 DEF Unworked, IsState
<1>. QED  BY <1>1, <1>2, <1>3

\* The claude adapter keeps the last use of a tool, and tells a result of it.
LEMMA ClaudeLine ==
    ASSUME NEW u, IsState(u), NEW line, line.type # "hook"
    PROVE  LET out == NormalizeClaude(u, line)
           IN  /\ IsState(out.state)
               /\ out.state.last = IF line.type = "tool_use" THEN Use(line) ELSE u.last
               /\ line.type = "tool_result" =>
                     /\ out.event.tool = Or(u.last.tool, "tool")
                     /\ out.event.command = u.last.command
                     /\ out.event.kind \in {"TestPass", "TestFail"} => u.last.command.test
<1>. DEFINE out == NormalizeClaude(u, line)
<1>1. PICK v : v = UpdateClaude(u, line)
  OBVIOUS
<1>2. IsState(v) /\ v.last = u.last
  BY <1>1 DEF UpdateClaude, IsState
<1>3. CASE line.type = "tool_use"
  <2>1. out.state = [v EXCEPT !.last = Use(line)]
    BY <1>1, <1>3 DEF NormalizeClaude, ClaudeTells
  <2>. QED  BY <1>2, <1>3, <2>1 DEF IsState, Use
<1>4. CASE line.type = "tool_result"
  <2>1. out = ClaudeResult(v, line)
    BY <1>1, <1>4 DEF NormalizeClaude
  <2>2. PICK use, kind : /\ use = [v.last EXCEPT !.tool = Or(@, "tool")]
                         /\ kind = Verdict(IsTest(v.last.command), line.ok, "ToolComplete")
    OBVIOUS
  <2>3. out = ClaudeTells(v, kind, Filler("result"), use)
    BY <2>1, <2>2 DEF ClaudeResult
  <2>4. out.state = v /\ out.event.tool = use.tool /\ out.event.command = use.command /\ out.event.kind = kind
    BY <2>3 DEF ClaudeTells
  <2>5. use.tool = Or(u.last.tool, "tool") /\ use.command = u.last.command
    BY <1>2, <2>2 DEF IsState
  <2>. QED  BY <1>2, <1>4, <2>2, <2>4, <2>5 DEF Verdict, IsTest
<1>5. CASE line.type \notin {"tool_use", "tool_result"}
  <2>1. out.state = v
    <3>1. CASE line.type = "system"
      BY <1>1, <3>1 DEF NormalizeClaude, ClaudeTells
    <3>2. CASE line.type = "assistant"
      BY <1>1, <3>2 DEF NormalizeClaude, ClaudeTells
    <3>3. CASE line.type = "result"
      BY <1>1, <3>3 DEF NormalizeClaude, ClaudeTells
    <3>4. CASE line.type = "error"
      BY <1>1, <3>4 DEF NormalizeClaude, ClaudeTells
    <3>5. CASE line.type \notin {"system", "assistant", "result", "error"}
      BY <1>1, <1>5, <3>5 DEF NormalizeClaude, Silent
    <3>. QED  BY <3>1, <3>2, <3>3, <3>4, <3>5
  <2>. QED  BY <1>2, <1>5, <2>1
<1>. QED  BY <1>3, <1>4, <1>5

---------------------------------------------------------------------------
(* Lists, and the states along a list of lines.                            *)

IsSeq(s) == \E S : s \in Seq(S)

LEMMA SeqParts ==
    ASSUME NEW s, IsSeq(s)
    PROVE  /\ Len(s) \in Nat /\ DOMAIN s = 1..Len(s)
           /\ s # <<>> <=> Len(s) # 0
<1>1. PICK S : s \in Seq(S)
  BY DEF IsSeq
<1>. QED  BY <1>1

\* What Append makes of a sequence, by its places.
LEMMA Appended ==
    ASSUME NEW s, IsSeq(s), NEW x
    PROVE  /\ IsSeq(Append(s, x)) /\ Len(Append(s, x)) = Len(s) + 1
           /\ \A i \in 1..Len(s) : Append(s, x)[i] = s[i]
           /\ Append(s, x)[Len(s) + 1] = x
<1>1. PICK S : s \in Seq(S)
  BY DEF IsSeq
<1>2. s \in Seq(S \cup {x}) /\ x \in S \cup {x}
  BY <1>1
<1>3. Append(s, x) \in Seq(S \cup {x})
  BY <1>2
<1>. QED  BY <1>2, <1>3 DEF IsSeq

\* f are the states along the first n lines.
IsRun(f, s, lines, order, n) ==
    f = [i \in 0..n |-> IF i = 0 THEN s ELSE Normalize(f[i - 1], lines[i], order).state]

\* Normalizing line after line is defined for lists of every length.
LEMMA RunExists ==
    ASSUME NEW s, NEW lines, NEW order, NEW n \in Nat
    PROVE  \E f : IsRun(f, s, lines, order, n)
<1>. DEFINE Bad == {k \in Nat : ~ \E f : IsRun(f, s, lines, order, k)}
<1>1. SUFFICES ASSUME Bad # {} PROVE FALSE
  OBVIOUS
<1>2. PICK m \in Bad : \A k \in Bad : m <= k
  BY <1>1, HasLeast
<1>3. ~ \E f : IsRun(f, s, lines, order, m)
  OBVIOUS
<1>4. CASE m = 0
  <2>1. IsRun([i \in 0..0 |-> s], s, lines, order, 0)
    BY DEF IsRun
  <2>. QED  BY <1>3, <1>4, <2>1
<1>5. CASE m # 0
  <2>1. m - 1 \in Nat /\ m - 1 \notin Bad
    BY <1>2, <1>5
  <2>2. PICK f : IsRun(f, s, lines, order, m - 1)
    BY <2>1
  <2>. DEFINE g == [k \in 0..m |-> IF k = m THEN Normalize(f[m - 1], lines[m], order).state
                                   ELSE f[k]]
  <2>3. ASSUME NEW k \in 0..m
        PROVE  g[k] = IF k = 0 THEN s ELSE Normalize(g[k - 1], lines[k], order).state
    <3>1. CASE k = 0
      BY <3>1, <2>1, <2>2, <1>5 DEF IsRun
    <3>2. CASE k # 0 /\ k = m
      BY <3>2, <2>1
    <3>3. CASE k # 0 /\ k # m
      <4>1. k \in 0..(m - 1) /\ k - 1 \in 0..(m - 1)
        BY <3>3
      <4>2. f[k] = Normalize(f[k - 1], lines[k], order).state
        BY <4>1, <3>3, <2>2 DEF IsRun
      <4>3. g[k] = f[k] /\ g[k - 1] = f[k - 1]
        BY <4>1, <3>3
      <4>. QED  BY <4>2, <4>3, <3>3
    <3>. QED  BY <3>1, <3>2, <3>3
  <2>4. g = [k \in 0..m |-> IF k = 0 THEN s ELSE Normalize(g[k - 1], lines[k], order).state]
    <3>1. g = [k \in 0..m |-> g[k]]
      OBVIOUS
    <3>. HIDE DEF g
    <3>. QED  BY <3>1, <2>3
  <2>5. IsRun(g, s, lines, order, m)
    BY <2>4 DEF IsRun
  <2>. QED  BY <1>3, <2>5
<1>. QED  BY <1>4, <1>5

\* f holds the state before the lines and after each of the first n.
Steps(f, s, lines, order, n) ==
    /\ f[0] = s
    /\ \A i \in 1..n : f[i] = Normalize(f[i - 1], lines[i], order).state

\* The recursive function States is what its equation says.
LEMMA StatesStep ==
    ASSUME NEW s, NEW lines, NEW order, Len(lines) \in Nat
    PROVE  Steps(States(s, lines, order), s, lines, order, Len(lines))
<1>1. \E f : IsRun(f, s, lines, order, Len(lines))
  BY RunExists
<1>2. PICK f : f = States(s, lines, order)
  OBVIOUS
<1>3. IsRun(f, s, lines, order, Len(lines))
  BY <1>1, <1>2 DEF States, IsRun
<1>4. \A i \in 0..Len(lines) :
         f[i] = IF i = 0 THEN s ELSE Normalize(f[i - 1], lines[i], order).state
  BY <1>3 DEF IsRun
<1>5. f[0] = s
  BY <1>4
<1>6. \A i \in 1..Len(lines) : i \in 0..Len(lines) /\ i # 0
  OBVIOUS
<1>7. \A i \in 1..Len(lines) : f[i] = Normalize(f[i - 1], lines[i], order).state
  BY <1>4, <1>6
<1>8. Steps(f, s, lines, order, Len(lines))
  BY <1>5, <1>7 DEF Steps
<1>. QED  BY <1>2, <1>8

\* Lines after the n-th do not matter to the states up to it.
LEMMA StatesAgree ==
    ASSUME NEW s, NEW lines, NEW more, NEW order, Len(lines) \in Nat, Len(more) \in Nat,
           NEW n \in 0..Len(lines), n <= Len(more),
           \A i \in 1..n : lines[i] = more[i]
    PROVE  States(s, lines, order)[n] = States(s, more, order)[n]
<1>1. PICK f, g : f = States(s, lines, order) /\ g = States(s, more, order)
  OBVIOUS
<1>2. /\ f[0] = s /\ g[0] = s
      /\ \A i \in 1..n : f[i] = Normalize(f[i - 1], lines[i], order).state
      /\ \A i \in 1..n : g[i] = Normalize(g[i - 1], more[i], order).state
  <2>1. 1..n \subseteq 1..Len(lines) /\ 1..n \subseteq 1..Len(more)
    OBVIOUS
  <2>2. Steps(f, s, lines, order, Len(lines)) /\ Steps(g, s, more, order, Len(more))
    BY <1>1, StatesStep
  <2>. QED  BY <2>1, <2>2 DEF Steps
<1>. DEFINE Bad == {k \in 0..n : f[k] # g[k]}
<1>3. SUFFICES ASSUME Bad # {} PROVE FALSE
  BY <1>1
<1>4. Bad \subseteq Nat
  OBVIOUS
<1>5. PICK m \in Bad : \A k \in Bad : m <= k
  BY <1>3, <1>4, HasLeast
<1>6. m \in 1..n /\ m - 1 \in 0..n /\ m - 1 \notin Bad
  BY <1>2, <1>5
<1>7. f[m - 1] = g[m - 1] /\ lines[m] = more[m]
  BY <1>6
<1>. QED  BY <1>2, <1>5, <1>6, <1>7

---------------------------------------------------------------------------
(* The file an agent writes.                                               *)

CodexTypes ==
    {"session_meta", "turn_context", "task_started", "internal_prompt", "agent_message",
     "function_call", "exec_command_end", "patch_apply_end", "plan_completed",
     "task_complete", "turn_aborted"}
ClaudeTypes ==
    {"internal_prompt", "system", "assistant", "tool_use", "tool_result", "result"}
StartTypes == {"function_call", "tool_use"}
EndTypes == {"exec_command_end", "patch_apply_end", "tool_result"}

\* Where the owner of the file works.
WorkDirs ==
    IF IsUser THEN {HomeDir} \cup TurnDirs \cup {CallSpec[c].cwd : c \in Calls}
    ELSE {OwnDir}

WellFormed(line) ==
    /\ line.type \in IF IsClaude THEN ClaudeTypes ELSE CodexTypes
    /\ line.cwd \in WorkDirs \cup {Absent}
    /\ line.session \in {Absent, Session}
    /\ line.type = "session_meta" => line.session = Session /\ line.cwd = OwnDir
    /\ line.type = "turn_context" => line.turn # Absent
    /\ line.type \in StartTypes =>
          /\ line.call \in Calls /\ line.tool = CallSpec[line.call].tool
          /\ line.command = CallSpec[line.call].command
          /\ line.cwd = CallSpec[line.call].cwd
    /\ line.type \in EndTypes =>
          /\ line.call \in Calls
          /\ line.command \in {NoCommand, CallSpec[line.call].command}
          /\ line.type = "patch_apply_end" => CallSpec[line.call].tool = "apply_patch"
    /\ ~IsUser => line.type \notin StartTypes \cup EndTypes
    /\ owner = "claude" => line.type # "internal_prompt"

Opens(line) ==
    CASE owner = "claude_processor" -> line.type = "internal_prompt"
      [] owner = "claude" -> line.type = "system"
      [] OTHER -> line.type = "session_meta" /\ line.session = Session /\ line.cwd = OwnDir

\* The line that an agent may add to the file.
NewLine(line) ==
    /\ owner # "hooks" /\ WellFormed(line)
    /\ file = <<>> => Opens(line)
    /\ file # <<>> => line.type # "session_meta"
    /\ ~IsClaude /\ Len(file) = 1 => line.type = "turn_context"
    /\ line.type \in StartTypes => CallStarts(line.call) = {}
    /\ line.type \in EndTypes => CallStarts(line.call) # {}
    /\ ~IsUser /\ ~IsClaude /\ line.text = Reply => Lines({"internal_prompt"}) # {}

StartsFirst ==
    /\ \A i, j \in DOMAIN file :
          file[i].type \in StartTypes /\ file[j].type \in EndTypes
          /\ file[i].call = file[j].call => i < j
    /\ \A i, j \in DOMAIN file :
          file[i].type \in StartTypes /\ file[j].type \in StartTypes
          /\ file[i].call = file[j].call => i = j
    /\ \A j \in DOMAIN file :
          file[j].type \in EndTypes =>
             \E i \in DOMAIN file : file[i].type \in StartTypes /\ file[i].call = file[j].call

AskedFirst ==
    ~IsUser /\ ~IsClaude =>
       \A i \in DOMAIN file :
          file[i].text = Reply => \E j \in DOMAIN file : j < i /\ file[j].type = "internal_prompt"

AllWellFormed == \A i \in DOMAIN file : WellFormed(file[i])
WellOpened == file # <<>> => Opens(file[1])

FileInv ==
    /\ IsSeq(file)
    /\ owner = "hooks" => file = <<>>
    /\ AllWellFormed
    /\ WellOpened
    /\ \A i \in DOMAIN file : i # 1 => file[i].type # "session_meta"
    /\ ~IsClaude /\ Len(file) >= 2 => file[2].type = "turn_context"
    /\ StartsFirst
    /\ AskedFirst

Owners == {"user", "memory", "custom", "claude", "claude_processor", "hooks"}

AgentActs ==
    OpenFile \/ OpenTurn \/ StartTurn \/ Prompt \/ Say \/ Call \/ EndCall \/ Plan \/ Finish

\* line has the parts of a line.
IsLine(line) ==
    line = [type |-> line.type, session |-> line.session, turn |-> line.turn,
            call |-> line.call, cwd |-> line.cwd, tool |-> line.tool,
            command |-> line.command, text |-> line.text, ok |-> line.ok]

LEMMA TypedParts ==
    ASSUME NEW type, NEW line, line = Typed(type)
    PROVE  /\ IsLine(line) /\ line.type = type /\ line.session = Absent /\ line.turn = Absent
           /\ line.call = Absent /\ line.cwd = Absent /\ line.tool = Absent
           /\ line.command = NoCommand /\ line.text = NoText
<1>1. PICK b : b = BlankLine
  OBVIOUS
<1>2. /\ IsLine(b) /\ b.session = Absent /\ b.turn = Absent
      /\ b.call = Absent /\ b.cwd = Absent /\ b.tool = Absent
      /\ b.command = NoCommand /\ b.text = NoText
  BY <1>1 DEF BlankLine, IsLine
<1>3. line = [b EXCEPT !.type = type]
  BY <1>1 DEF Typed
<1>. QED  BY <1>2, <1>3 DEF IsLine

LEMMA SpokenParts ==
    ASSUME NEW type, NEW text, NEW line, line = Spoken(type, text)
    PROVE  /\ IsLine(line) /\ line.type = type /\ line.session = Absent /\ line.cwd = Absent
           /\ line.text = text
<1>1. PICK b : /\ b = Typed(type) /\ IsLine(b) /\ b.type = type
               /\ b.session = Absent /\ b.cwd = Absent
  BY TypedParts
<1>2. line = [b EXCEPT !.text = text]
  BY <1>1 DEF Spoken
<1>. QED  BY <1>1, <1>2 DEF IsLine

LEMMA StartedParts ==
    ASSUME NEW type, NEW c, NEW line, line = Started(type, c)
    PROVE  /\ IsLine(line) /\ line.type = type /\ line.session = Absent /\ line.call = c
           /\ line.tool = CallSpec[c].tool /\ line.command = CallSpec[c].command
           /\ line.cwd = CallSpec[c].cwd
<1>1. PICK b : b = Typed(type) /\ IsLine(b) /\ b.type = type /\ b.session = Absent
  BY TypedParts
<1>2. line = [b EXCEPT !.call = c, !.tool = CallSpec[c].tool,
                       !.command = CallSpec[c].command, !.cwd = CallSpec[c].cwd]
  BY <1>1 DEF Started
<1>. QED  BY <1>1, <1>2 DEF IsLine

LEMMA NoTextForm == NoText.form = "blank"
BY DEF NoText, Text

\* A line without calls that opens no session is well formed.
Plain(line) ==
    /\ line.cwd = Absent /\ line.session = Absent
    /\ line.type \notin StartTypes \cup EndTypes \cup {"session_meta", "turn_context"}

\* A turn is open only behind a second line.
LEMMA TurnNeedsContext ==
    ASSUME FileInv, TurnOpen
    PROVE  Len(file) # 1
<1>1. SUFFICES ASSUME Len(file) = 1 PROVE FALSE
  OBVIOUS
<1>2. DOMAIN file = 1..1 /\ Opens(file[1])
  BY <1>1, SeqParts DEF FileInv, WellOpened
<1>3. PICK i \in DOMAIN file : file[i].type = "turn_context"
  BY DEF TurnOpen, Lines
<1>4. file[1].type \in {"internal_prompt", "system", "session_meta"}
  BY <1>2 DEF Opens
<1>. QED  BY <1>2, <1>3, <1>4

\* A line without session and directory is one the agent may write next.
LEMMA PlainLine ==
    ASSUME NEW line, Plain(line), owner \in Owners, owner # "hooks", file # <<>>, FileInv,
           line.type \in IF IsClaude THEN ClaudeTypes ELSE CodexTypes,
           owner = "claude" => line.type # "internal_prompt",
           ~IsClaude => TurnOpen,
           ~IsUser /\ ~IsClaude /\ line.text = Reply => Lines({"internal_prompt"}) # {}
    PROVE  NewLine(line)
<1>1. WellFormed(line)
  BY DEF WellFormed, Plain
<1>2. ~IsClaude => Len(file) # 1
  BY TurnNeedsContext
<1>. QED  BY <1>1, <1>2 DEF NewLine, Plain

\* Every action of the agent writes one well formed line.
LEMMA AgentWrites ==
    ASSUME FileInv, owner \in Owners, AgentActs
    PROVE  \E line : NewLine(line) /\ Write(line)
<1>0. CASE OpenFile
  <2>1. owner # "hooks" /\ file = <<>>
    BY <1>0 DEF OpenFile
  <2>2. CASE owner = "claude_processor"
    <3>1. PICK line : line = Typed("internal_prompt") /\ Write(line)
      BY <1>0, <2>2 DEF OpenFile
    <3>2. WellFormed(line)
      BY <2>2, <3>1, TypedParts DEF WellFormed, IsClaude, IsUser, ClaudeTypes, StartTypes, EndTypes
    <3>3. NewLine(line)
      BY <2>1, <2>2, <3>1, <3>2, TypedParts, SeqParts DEF NewLine, Opens, IsClaude, StartTypes, EndTypes
    <3>. QED  BY <3>1, <3>3
  <2>3. CASE owner = "claude"
    <3>1. PICK line : line = [Typed("system") EXCEPT !.session = Session, !.cwd = OwnDir] /\ Write(line)
      BY <1>0, <2>3 DEF OpenFile
    <3>2. line.type = "system" /\ line.session = Session /\ line.cwd = HomeDir
      <4>1. PICK base : base = Typed("system") /\ IsLine(base) /\ base.type = "system"
        BY TypedParts
      <4>. QED  BY <2>3, <3>1, <4>1 DEF OwnDir, IsLine
    <3>3. WellFormed(line)
      BY <2>3, <3>2 DEF WellFormed, IsClaude, IsUser, ClaudeTypes, StartTypes, EndTypes, WorkDirs
    <3>4. NewLine(line)
      BY <2>1, <2>3, <3>2, <3>3, SeqParts DEF NewLine, Opens, IsClaude, StartTypes, EndTypes
    <3>. QED  BY <3>1, <3>4
  <2>4. CASE owner \in {"user", "memory", "custom"}
    <3>1. PICK line : line = [Typed("session_meta") EXCEPT !.session = Session, !.cwd = OwnDir] /\ Write(line)
      BY <1>0, <2>4 DEF OpenFile
    <3>2. line.type = "session_meta" /\ line.session = Session /\ line.cwd = OwnDir /\ line.text = NoText
      <4>1. PICK base : /\ base = Typed("session_meta") /\ IsLine(base)
                        /\ base.type = "session_meta" /\ base.text = NoText
        BY TypedParts
      <4>. QED  BY <3>1, <4>1 DEF IsLine
    <3>3. OwnDir \in WorkDirs
      BY <2>4 DEF WorkDirs, IsUser, OwnDir
    <3>4. WellFormed(line)
      BY <2>4, <3>2, <3>3 DEF WellFormed, IsClaude, CodexTypes, StartTypes, EndTypes
    <3>5. line.text # Reply
      BY <3>2, NoTextForm, ImportAssumption DEF ImportAssumption
    <3>6. Len(file) = 0
      BY <2>1
    <3>7. NewLine(line)
      BY <2>1, <2>4, <3>2, <3>4, <3>5, <3>6 DEF NewLine, Opens, StartTypes, EndTypes
    <3>. QED  BY <3>1, <3>7
  <2>. QED  BY <2>1, <2>2, <2>3, <2>4 DEF Owners
<1>1. CASE OpenTurn
  <2>1. file # <<>> /\ ~IsClaude
    BY <1>1 DEF OpenTurn
  <2>2. PICK cwd \in (IF IsUser THEN TurnDirs ELSE {OwnDir}) :
               Write([Typed("turn_context") EXCEPT !.turn = Turn + 1, !.cwd = cwd])
    BY <1>1 DEF OpenTurn
  <2>3. PICK line : line = [Typed("turn_context") EXCEPT !.turn = Turn + 1, !.cwd = cwd]
    OBVIOUS
  <2>4. /\ line.type = "turn_context" /\ line.turn = Turn + 1 /\ line.cwd = cwd
        /\ line.session = Absent /\ line.text = NoText
    <3>1. PICK base : /\ base = Typed("turn_context") /\ IsLine(base) /\ base.session = Absent
                      /\ base.type = "turn_context" /\ base.text = NoText
      BY TypedParts
    <3>. QED  BY <2>3, <3>1 DEF IsLine
  <2>5. Turn \in Nat
    <3>1. Lines({"turn_context"}) \in SUBSET (1..Len(file)) /\ Len(file) \in Nat
      BY SeqParts DEF FileInv, Lines
    <3>. QED  BY <3>1, NthGrows DEF Turn
  <2>6. line.turn # Absent
    BY <2>4, <2>5, ImportAssumption DEF ImportAssumption
  <2>7. cwd \in WorkDirs
    BY DEF WorkDirs
  <2>8. WellFormed(line)
    BY <2>1, <2>4, <2>6, <2>7 DEF WellFormed, CodexTypes, StartTypes, EndTypes
  <2>9. line.text # Reply
    BY <2>4, NoTextForm, ImportAssumption DEF ImportAssumption
  <2>10. owner # "hooks"
    BY <2>1 DEF IsClaude
  <2>11. NewLine(line)
    BY <2>1, <2>4, <2>8, <2>9, <2>10 DEF NewLine, StartTypes, EndTypes
  <2>. QED  BY <2>2, <2>3, <2>11
<1>o. TurnOpen => file # <<>>
  <2>1. SUFFICES ASSUME TurnOpen PROVE DOMAIN file # {}
    BY SeqParts DEF FileInv
  <2>. QED  BY <2>1 DEF TurnOpen, Lines
<1>r. NoText # Reply
  BY NoTextForm, ImportAssumption DEF ImportAssumption
<1>t. TurnOpen => ~IsClaude
  <2>1. SUFFICES ASSUME TurnOpen, IsClaude PROVE FALSE
    OBVIOUS
  <2>2. PICK i \in DOMAIN file : file[i].type = "turn_context"
    BY <2>1 DEF TurnOpen, Lines
  <2>. QED  BY <2>1, <2>2 DEF FileInv, AllWellFormed, WellFormed, ClaudeTypes
<1>a. Asked => Lines({"internal_prompt"}) # {}
  BY DEF Asked
<1>2. CASE StartTurn
  <2>1. PICK line : line = [Typed("task_started") EXCEPT !.turn = Turn] /\ Write(line) /\ TurnOpen
    BY <1>2 DEF StartTurn
  <2>2. line.type = "task_started" /\ line.cwd = Absent /\ line.session = Absent /\ line.text = NoText
    <3>1. PICK base : /\ base = Typed("task_started") /\ IsLine(base) /\ base.type = "task_started"
                      /\ base.cwd = Absent /\ base.session = Absent /\ base.text = NoText
      BY TypedParts
    <3>. QED  BY <2>1, <3>1 DEF IsLine
  <2>3. Plain(line)
    BY <2>2 DEF Plain, StartTypes, EndTypes
  <2>4. line.type \in IF IsClaude THEN ClaudeTypes ELSE CodexTypes
    BY <1>t, <2>1, <2>2 DEF CodexTypes
  <2>5. owner # "hooks" /\ file # <<>>
    BY <1>o, <1>t, <2>1 DEF IsClaude
  <2>6. NewLine(line)
    BY <1>r, <2>1, <2>2, <2>3, <2>4, <2>5, PlainLine
  <2>. QED  BY <2>1, <2>6
<1>3. CASE Prompt
  <2>1. PICK line : line = Typed("internal_prompt") /\ Write(line) /\ TurnOpen
    BY <1>3 DEF Prompt
  <2>2. line.type = "internal_prompt" /\ line.cwd = Absent /\ line.session = Absent /\ line.text = NoText
    BY <2>1, TypedParts
  <2>3. Plain(line)
    BY <2>2 DEF Plain, StartTypes, EndTypes
  <2>4. /\ line.type \in IF IsClaude THEN ClaudeTypes ELSE CodexTypes
        /\ owner # "claude"
    BY <1>t, <2>1, <2>2 DEF CodexTypes, IsClaude
  <2>5. owner # "hooks" /\ file # <<>>
    BY <1>o, <1>t, <2>1 DEF IsClaude
  <2>6. NewLine(line)
    BY <1>r, <2>1, <2>2, <2>3, <2>4, <2>5, PlainLine
  <2>. QED  BY <2>1, <2>6
<1>4. CASE Say
  <2>1. PICK line, text : /\ line = Spoken(IF IsClaude THEN "assistant" ELSE "agent_message", text)
                          /\ Write(line) /\ file # <<>> /\ (IsClaude \/ TurnOpen)
                          /\ ~IsClaude => IsUser \/ Asked
    BY <1>4, <1>o DEF Say
  <2>2. /\ line.type = IF IsClaude THEN "assistant" ELSE "agent_message"
        /\ line.cwd = Absent /\ line.session = Absent
    BY <2>1, SpokenParts
  <2>3. Plain(line)
    BY <2>2 DEF Plain, StartTypes, EndTypes
  <2>4. /\ line.type \in IF IsClaude THEN ClaudeTypes ELSE CodexTypes
        /\ line.type # "internal_prompt"
    BY <2>2 DEF CodexTypes, ClaudeTypes
  <2>5. owner # "hooks"
    BY <2>1 DEF FileInv
  <2>6. NewLine(line)
    BY <1>a, <2>1, <2>3, <2>4, <2>5, PlainLine
  <2>. QED  BY <2>1, <2>6
<1>5. CASE Plan
  <2>1. PICK line : line = [Typed("plan_completed") EXCEPT !.turn = Turn] /\ Write(line) /\ TurnOpen
    BY <1>5 DEF Plan
  <2>2. line.type = "plan_completed" /\ line.cwd = Absent /\ line.session = Absent /\ line.text = NoText
    <3>1. PICK base : /\ base = Typed("plan_completed") /\ IsLine(base) /\ base.type = "plan_completed"
                      /\ base.cwd = Absent /\ base.session = Absent /\ base.text = NoText
      BY TypedParts
    <3>. QED  BY <2>1, <3>1 DEF IsLine
  <2>3. Plain(line)
    BY <2>2 DEF Plain, StartTypes, EndTypes
  <2>4. line.type \in IF IsClaude THEN ClaudeTypes ELSE CodexTypes
    BY <1>t, <2>1, <2>2 DEF CodexTypes
  <2>5. owner # "hooks" /\ file # <<>>
    BY <1>o, <1>t, <2>1 DEF IsClaude
  <2>6. NewLine(line)
    BY <1>r, <2>1, <2>2, <2>3, <2>4, <2>5, PlainLine
  <2>. QED  BY <2>1, <2>6
<1>6. CASE Finish
  <2>1. PICK line, base, type, text, turn, ok :
              /\ base = Spoken(type, text)
              /\ \/ line = [base EXCEPT !.turn = turn]
                 \/ line = [base EXCEPT !.ok = ok]
              /\ Write(line) /\ file # <<>>
              /\ \/ /\ TurnOpen /\ (IsUser \/ Asked) /\ type \in {"task_complete", "turn_aborted"}
                 \/ IsClaude /\ type = "result"
    BY <1>6, <1>o DEF Finish
  <2>2. line.type = type /\ line.cwd = Absent /\ line.session = Absent
    <3>1. IsLine(base) /\ base.type = type /\ base.cwd = Absent /\ base.session = Absent
      BY <2>1, SpokenParts
    <3>. QED  BY <2>1, <3>1 DEF IsLine
  <2>3. type \in {"task_complete", "turn_aborted", "result"}
    BY <2>1
  <2>4. Plain(line) /\ line.type # "internal_prompt"
    BY <2>2, <2>3 DEF Plain, StartTypes, EndTypes
  <2>5. line.type \in IF IsClaude THEN ClaudeTypes ELSE CodexTypes
    BY <1>t, <2>1, <2>2 DEF CodexTypes, ClaudeTypes
  <2>6. owner # "hooks" /\ (~IsClaude => TurnOpen) /\ (~IsClaude => IsUser \/ Asked)
    BY <2>1 DEF FileInv
  <2>7. NewLine(line)
    BY <1>a, <2>1, <2>4, <2>5, <2>6, PlainLine
  <2>. QED  BY <2>1, <2>7
<1>7. CASE Call
  <2>1. PICK c \in Calls : /\ CallStarts(c) = {} /\ file # <<>> /\ IsUser /\ (IsClaude \/ TurnOpen)
                           /\ Write(Started(IF IsClaude THEN "tool_use" ELSE "function_call", c))
    BY <1>7 DEF Call
  <2>2. PICK line : line = Started(IF IsClaude THEN "tool_use" ELSE "function_call", c)
    OBVIOUS
  <2>3. /\ line.type = IF IsClaude THEN "tool_use" ELSE "function_call"
        /\ line.call = c /\ line.tool = CallSpec[c].tool /\ line.command = CallSpec[c].command
        /\ line.cwd = CallSpec[c].cwd /\ line.session = Absent
    BY <2>2, StartedParts
  <2>4. line.cwd \in WorkDirs
    BY <2>1, <2>3 DEF WorkDirs
  <2>5. WellFormed(line)
    BY <2>1, <2>3, <2>4 DEF WellFormed, StartTypes, EndTypes, CodexTypes, ClaudeTypes
  <2>6. ~IsClaude => Len(file) # 1
    BY <2>1, TurnNeedsContext
  <2>7. owner # "hooks"
    BY <2>1 DEF FileInv
  <2>8. NewLine(line)
    BY <2>1, <2>3, <2>5, <2>6, <2>7 DEF NewLine, EndTypes
  <2>. QED  BY <2>1, <2>2, <2>8
<1>8. CASE EndCall
  <2>1. PICK c \in Calls, ending \in Endings :
           /\ Running(c)
           /\ LET full  == ending.full
                  patch == CallSpec[c].tool = "apply_patch"
                  line  == Started(IF IsClaude THEN "tool_result"
                                   ELSE IF patch THEN "patch_apply_end" ELSE "exec_command_end", c)
                  own   == [line EXCEPT !.ok = ending.ok, !.tool = Absent,
                              !.turn = IF IsClaude THEN Absent ELSE TurnAt(CHOOSE i \in CallStarts(c) : TRUE)]
                  bare  == [own EXCEPT !.command = NoCommand, !.cwd = Absent]
              IN  Write(IF full /\ ~IsClaude THEN own ELSE bare)
    BY <1>8 DEF EndCall
  <2>2. CallStarts(c) # {}
    BY <2>1 DEF Running
  <2>3. PICK type : type = IF IsClaude THEN "tool_result"
                           ELSE IF CallSpec[c].tool = "apply_patch" THEN "patch_apply_end"
                           ELSE "exec_command_end"
    OBVIOUS
  <2>4. PICK base, turn, own, line :
           /\ base = Started(type, c)
           /\ own = [base EXCEPT !.ok = ending.ok, !.tool = Absent, !.turn = turn]
           /\ line = own \/ line = [own EXCEPT !.command = NoCommand, !.cwd = Absent]
           /\ Write(line)
    <3>. DEFINE turn == IF IsClaude THEN Absent ELSE TurnAt(CHOOSE i \in CallStarts(c) : TRUE)
    <3>. HIDE DEF turn
    <3>2. PICK base : base = Started(type, c)
      OBVIOUS
    <3>3. PICK own : own = [base EXCEPT !.ok = ending.ok, !.tool = Absent, !.turn = turn]
      OBVIOUS
    <3>4. PICK bare : bare = [own EXCEPT !.command = NoCommand, !.cwd = Absent]
      OBVIOUS
    <3>5. Write(IF ending.full /\ ~IsClaude THEN own ELSE bare)
      BY <2>1, <2>3, <3>2, <3>3, <3>4 DEF turn
    <3>6. Write(own) \/ Write(bare)
      BY <3>5
    <3>. QED  BY <3>2, <3>3, <3>4, <3>6
  <2>5. /\ line.type = type /\ line.call = c /\ line.session = Absent
        /\ line.command \in {NoCommand, CallSpec[c].command}
        /\ line.cwd \in {Absent, CallSpec[c].cwd}
    <3>1. /\ IsLine(base) /\ base.type = type /\ base.session = Absent /\ base.call = c
          /\ base.command = CallSpec[c].command /\ base.cwd = CallSpec[c].cwd
      BY <2>4, StartedParts
    <3>2. /\ IsLine(own) /\ own.type = type /\ own.session = Absent /\ own.call = c
          /\ own.command = CallSpec[c].command /\ own.cwd = CallSpec[c].cwd
      BY <2>4, <3>1 DEF IsLine
    <3>. QED  BY <2>4, <3>2 DEF IsLine
  <2>6. PICK i \in DOMAIN file : file[i].type \in StartTypes
    BY <2>2 DEF CallStarts, Lines, StartTypes
  <2>7. IsUser
    BY <2>6 DEF FileInv, AllWellFormed, WellFormed
  <2>8. CallSpec[c].cwd \in WorkDirs
    BY <2>7 DEF WorkDirs
  <2>9. WellFormed(line)
    BY <2>3, <2>5, <2>7, <2>8 DEF WellFormed, StartTypes, EndTypes, CodexTypes, ClaudeTypes
  <2>10. file # <<>> /\ Len(file) # 1
    <3>1. DOMAIN file = 1..Len(file) /\ (file # <<>> <=> Len(file) # 0)
      BY SeqParts DEF FileInv
    <3>2. file # <<>>
      BY <2>6, <3>1
    <3>3. Opens(file[1])
      BY <3>2 DEF FileInv, WellOpened
    <3>4. file[1].type \notin StartTypes
      BY <3>3 DEF Opens, StartTypes
    <3>. QED  BY <2>6, <3>1, <3>2, <3>4
  <2>11. owner # "hooks"
    BY <2>10 DEF FileInv
  <2>12. NewLine(line)
    <3>1. type \notin StartTypes /\ type # "session_meta"
      BY <2>3 DEF StartTypes
    <3>. QED  BY <2>2, <2>5, <2>7, <2>9, <2>10, <2>11, <3>1 DEF NewLine
  <2>. QED  BY <2>4, <2>12
<1>. QED  BY <1>0, <1>1, <1>2, <1>3, <1>4, <1>5, <1>6, <1>7, <1>8 DEF AgentActs

\* Where a line is in the file, once it is written.
LEMMA Written ==
    ASSUME FileInv, NEW line, file' = Append(file, line)
    PROVE  /\ IsSeq(file') /\ Len(file) \in Nat /\ Len(file') = Len(file) + 1
           /\ DOMAIN file = 1..Len(file) /\ DOMAIN file' = 1..Len(file) + 1
           /\ \A i \in 1..Len(file) : file'[i] = file[i]
           /\ file'[Len(file) + 1] = line
           /\ file # <<>> <=> Len(file) # 0
<1>1. IsSeq(file)
  BY DEF FileInv
<1>2. PICK new : new = Append(file, line)
  OBVIOUS
<1>3. /\ IsSeq(new) /\ Len(new) = Len(file) + 1
      /\ \A i \in 1..Len(file) : new[i] = file[i]
      /\ new[Len(file) + 1] = line
  BY <1>1, <1>2, Appended
<1>4. /\ Len(file) \in Nat /\ DOMAIN file = 1..Len(file) /\ (file # <<>> <=> Len(file) # 0)
      /\ DOMAIN new = 1..Len(new)
  BY <1>1, <1>3, SeqParts
<1>5. file' = new
  BY <1>2
<1>. QED  BY <1>3, <1>4, <1>5

\* A well formed line leaves the file one that its agent may write.
LEMMA FileGrows ==
    ASSUME FileInv, NEW line, NewLine(line), file' = Append(file, line), UNCHANGED setting
    PROVE  FileInv'
<1>. DEFINE n == Len(file)
<1>1. owner' = owner
  BY DEF setting
<1>2. /\ IsSeq(file') /\ n \in Nat /\ Len(file') = n + 1
      /\ DOMAIN file = 1..n /\ DOMAIN file' = 1..n + 1
      /\ \A i \in 1..n : file'[i] = file[i]
      /\ file'[n + 1] = line
      /\ file # <<>> <=> n # 0
  BY Written
<1>3. \A x : (WellFormed(x)' <=> WellFormed(x)) /\ (Opens(x)' <=> Opens(x))
  BY <1>1 DEF WellFormed, Opens, IsClaude, IsUser, WorkDirs, OwnDir
<1>4. (IsClaude' <=> IsClaude) /\ (IsUser' <=> IsUser)
  BY <1>1 DEF IsClaude, IsUser
<1>. HIDE DEF n
<1>5. AllWellFormed'
  <2>1. \A i \in 1..n + 1 : WellFormed(file'[i])
    BY <1>2 DEF FileInv, AllWellFormed, NewLine
  <2>. QED  BY <1>2, <1>3, <2>1 DEF AllWellFormed
<1>6. WellOpened'
  <2>1. CASE n = 0
    BY <1>2, <1>3, <2>1 DEF NewLine, WellOpened
  <2>2. CASE n # 0
    BY <1>2, <1>3, <2>2 DEF FileInv, WellOpened
  <2>. QED  BY <2>1, <2>2
<1>7. \A i \in 1..n + 1 : i # 1 => file'[i].type # "session_meta"
  BY <1>2 DEF FileInv, NewLine
<1>8. ~IsClaude' /\ Len(file') >= 2 => file'[2].type = "turn_context"
  <2>1. CASE n = 1
    BY <1>2, <1>4, <2>1 DEF NewLine, n
  <2>2. CASE n >= 2
    BY <1>2, <1>4, <2>2 DEF FileInv, n
  <2>. QED  BY <1>2, <2>1, <2>2
<1>9. StartsFirst'
  <2>1. line.type \in StartTypes =>
           \A i \in 1..n : ~(file[i].type \in StartTypes /\ file[i].call = line.call)
    BY <1>2 DEF NewLine, CallStarts, Lines, StartTypes
  <2>2. line.type \in EndTypes =>
           \E i \in 1..n : file[i].type \in StartTypes /\ file[i].call = line.call
    BY <1>2 DEF NewLine, CallStarts, Lines, StartTypes
  <2>3. /\ \A i, j \in 1..n : file[i].type \in StartTypes /\ file[j].type \in EndTypes
                              /\ file[i].call = file[j].call => i < j
        /\ \A i, j \in 1..n : file[i].type \in StartTypes /\ file[j].type \in StartTypes
                              /\ file[i].call = file[j].call => i = j
        /\ \A j \in 1..n : file[j].type \in EndTypes =>
              \E i \in 1..n : file[i].type \in StartTypes /\ file[i].call = file[j].call
    BY <1>2 DEF FileInv, StartsFirst
  <2>4. ~(line.type \in StartTypes /\ line.type \in EndTypes)
    BY DEF StartTypes, EndTypes
  <2>5. ASSUME NEW i \in 1..n + 1, NEW j \in 1..n + 1, file'[i].type \in StartTypes,
               file'[i].call = file'[j].call
        PROVE  /\ file'[j].type \in EndTypes => i < j
               /\ file'[j].type \in StartTypes => i = j
    <3>1. CASE i \in 1..n /\ j \in 1..n
      BY <1>2, <2>3, <2>5, <3>1
    <3>2. CASE i = n + 1 /\ j \in 1..n
      <4>1. file'[i] = line /\ file'[j] = file[j]
        BY <1>2, <3>2
      <4>2. file[j].type \in EndTypes =>
               \E k \in 1..n : file[k].type \in StartTypes /\ file[k].call = file[j].call
        BY <2>3, <3>2
      <4>. QED  BY <2>1, <2>5, <4>1, <4>2, <3>2
    <3>3. CASE i \in 1..n /\ j = n + 1
      <4>1. file'[j] = line /\ file'[i] = file[i] /\ i < j
        BY <1>2, <3>3
      <4>. QED  BY <2>1, <2>5, <4>1, <3>3
    <3>4. CASE i = n + 1 /\ j = n + 1
      BY <1>2, <2>4, <2>5, <3>4
    <3>5. i \in 1..n \/ i = n + 1
      BY <1>2
    <3>6. j \in 1..n \/ j = n + 1
      BY <1>2
    <3>. QED  BY <3>1, <3>2, <3>3, <3>4, <3>5, <3>6
  <2>6. ASSUME NEW j \in 1..n + 1, file'[j].type \in EndTypes
        PROVE  \E i \in 1..n + 1 : file'[i].type \in StartTypes /\ file'[i].call = file'[j].call
    <3>1. \A i \in 1..n : i \in 1..n + 1 /\ file'[i] = file[i]
      BY <1>2
    <3>2. CASE j \in 1..n
      <4>1. file'[j] = file[j]
        BY <3>1, <3>2
      <4>2. PICK i \in 1..n : file[i].type \in StartTypes /\ file[i].call = file[j].call
        BY <2>3, <2>6, <3>2, <4>1
      <4>. QED  BY <3>1, <4>1, <4>2
    <3>3. CASE j = n + 1
      BY <1>2, <2>2, <2>6, <3>1, <3>3
    <3>. QED  BY <1>2, <3>2, <3>3
  <2>. QED  BY <1>2, <2>5, <2>6 DEF StartsFirst
<1>10. AskedFirst'
  <2>1. SUFFICES ASSUME ~IsUser, ~IsClaude, NEW i \in 1..n + 1, file'[i].text = Reply
                 PROVE  \E j \in 1..n + 1 : j < i /\ file'[j].type = "internal_prompt"
    BY <1>2, <1>4 DEF AskedFirst
  <2>2. \A j \in 1..n : j \in 1..n + 1 /\ file'[j] = file[j]
    BY <1>2
  <2>3. CASE i \in 1..n
    <3>1. PICK j \in 1..n : j < i /\ file[j].type = "internal_prompt"
      BY <1>2, <2>1, <2>2, <2>3 DEF FileInv, AskedFirst
    <3>. QED  BY <2>2, <3>1
  <2>4. CASE i = n + 1
    <3>1. PICK j \in 1..n : file[j].type = "internal_prompt"
      BY <1>2, <2>1, <2>4 DEF NewLine, Lines
    <3>2. j < i
      BY <1>2, <2>4
    <3>. QED  BY <2>2, <3>1, <3>2
  <2>. QED  BY <1>2, <2>3, <2>4
<1>11. owner' # "hooks"
  BY <1>1 DEF NewLine
<1>. QED  BY <1>2, <1>5, <1>6, <1>7, <1>8, <1>9, <1>10, <1>11 DEF FileInv

---------------------------------------------------------------------------
(* Where the watcher is.                                                   *)

Phases == {"off", "context", "chunk", "recap", "checkpoint", "live"}

WatchInv ==
    /\ owner \in Owners /\ guarded \in BOOLEAN /\ history \in BOOLEAN /\ internal \in BOOLEAN
    /\ IsClaude => ~guarded
    /\ owner = "custom" => guarded
    /\ ~guarded /\ ~IsClaude => history
    /\ phase \in Phases
    /\ phase \in {"recap", "checkpoint"} => ~IsClaude
    /\ pos \in Nat /\ end \in Nat /\ attached \in Nat
    /\ attached <= end /\ pos <= end /\ end <= Len(file)
    /\ IF phase \in {"context", "chunk"} THEN pos < end ELSE pos = end
    /\ phase \in {"context", "recap", "checkpoint"} => ~history /\ end = attached
    /\ phase = "chunk" => history \/ attached <= pos
    /\ phase = "off" => end = 0 /\ st = FreshState /\ ~internal /\ lost = {}
    /\ phase = "off" /\ owner # "hooks" => posted = <<>>
    /\ phase # "off" => attached >= 1
    /\ owner = "hooks" => phase = "off"
    /\ internal => phase = "live" /\ ~IsClaude
    /\ IsSeq(posted)
    /\ \A i \in DOMAIN posted : posted[i].line \in 0..pos

\* Only the processor's sessions get into its memory file, and with the registry
\* a user's session is never given up.
KnownInv == owner = "user" => memoryFile = {} /\ known = {} /\ (guarded => ~internal)

BaseInv == FileInv /\ WatchInv /\ KnownInv

\* One line of a chunk or of the context.
Imported ==
    /\ phase \in {"context", "chunk"}
    /\ \E order, out :
          /\ out = Adapt(st, file[pos + 1], order)
          /\ st' = out.state /\ pos' = pos + 1
          /\ \/ /\ UNCHANGED <<posted, lost>>
                /\ phase = "chunk" => out.event = NoEvent \/ IsProcessors(out.event, known')
             \/ out.event # NoEvent /\ Post(pos + 1, out.event)
    /\ phase' = IF pos + 1 < end THEN phase
                ELSE IF phase = "context" /\ ~IsClaude THEN "recap" ELSE "live"
    /\ known' = known \/ \E fresh : known' = Refreshed(fresh)
    /\ UNCHANGED <<setting, file, memoryFile, end, internal, attached>>

\* The four importers are one step: the line behind pos, told or dropped.
LEMMA ImportShape ==
    ASSUME WatchInv,
           ImportCodexLine \/ ImportCodexContextLine \/ ImportClaudeLine \/ ImportClaudeContextLine
    PROVE  Imported
<1>1. CASE ImportCodexLine
  <2>1. PICK order \in CallOrders, fresh \in BOOLEAN : Import(IsProcessors, order, fresh, "live")
    BY <1>1 DEF ImportCodexLine
  <2>2. phase = "chunk" /\ ~IsClaude
    BY <1>1 DEF ImportCodexLine
  <2>. QED  BY <2>1, <2>2 DEF Imported, Import
<1>2. CASE ImportCodexContextLine
  BY <1>2 DEF ImportCodexContextLine, Imported, Import
<1>3. CASE ImportClaudeLine
  BY <1>3 DEF ImportClaudeLine, Imported, Import
<1>4. CASE ImportClaudeContextLine
  BY <1>4 DEF ImportClaudeContextLine, Imported, Import
<1>. QED  BY <1>1, <1>2, <1>3, <1>4

---------------------------------------------------------------------------
(* What the watcher reads of a file, and the guard.                        *)

\* part holds lines of the list only.
LinesOf(part, lines) ==
    \A i \in 1..Len(part) : \E j \in 1..Len(lines) : part[i] = lines[j]

\* The last n lines, or all.
LEMMA SuffixParts ==
    ASSUME NEW lines, IsSeq(lines), NEW n \in Nat, NEW t, t = Suffix(lines, n)
    PROVE  /\ IsSeq(t) /\ Len(t) = (IF Len(lines) > n THEN n ELSE Len(lines))
           /\ \A i \in 1..Len(t) : t[i] = lines[Len(lines) - Len(t) + i]
           /\ LinesOf(t, lines)
<1>1. PICK S : lines \in Seq(S)
  BY DEF IsSeq
<1>2. PICK m : m = IF Len(lines) > n THEN Len(lines) - n + 1 ELSE 1
  OBVIOUS
<1>3. Len(lines) \in Nat /\ m \in Nat /\ m >= 1
  BY <1>1, <1>2
<1>4. t = SubSeq(lines, m, Len(lines))
  BY <1>2 DEF Suffix
<1>0. \A i \in m..Len(lines) : lines[i] \in S
  BY <1>1, <1>3
<1>l. m <= Len(lines) + 1
  BY <1>2, <1>3
<1>s. /\ t \in Seq(S)
      /\ Len(t) = IF m <= Len(lines) THEN Len(lines) - m + 1 ELSE 0
      /\ \A i \in 1..Len(lines) - m + 1 : t[i] = lines[m + i - 1]
  BY <1>0, <1>3, <1>4, SubSeqProperties
<1>5. t \in Seq(S) /\ Len(t) = Len(lines) - m + 1
  BY <1>3, <1>l, <1>s
<1>6. \A i \in 1..Len(t) : t[i] = lines[m + i - 1]
  BY <1>5, <1>s
<1>7. Len(t) = IF Len(lines) > n THEN n ELSE Len(lines)
  BY <1>2, <1>3, <1>5
<1>8. \A i \in 1..Len(t) : t[i] = lines[Len(lines) - Len(t) + i]
  BY <1>3, <1>5, <1>6
<1>9. LinesOf(t, lines)
  BY <1>3, <1>5, <1>6 DEF LinesOf
<1>. QED  BY <1>5, <1>7, <1>8, <1>9 DEF IsSeq

\* The first and the last lines, or all.
LEMMA SampleParts ==
    ASSUME NEW lines, IsSeq(lines), lines # <<>>, NEW n \in Nat, n >= 2,
           NEW s, s = Sample(lines, n)
    PROVE  /\ IsSeq(s) /\ Len(s) >= 1 /\ s[1] = lines[1]
           /\ LinesOf(s, lines)
           /\ Len(lines) <= n => s = lines
<1>1. PICK S : lines \in Seq(S)
  BY DEF IsSeq
<1>2. Len(lines) \in Nat /\ Len(lines) >= 1
  BY <1>1
<1>3. CASE Len(lines) <= n
  BY <1>1, <1>2, <1>3 DEF Sample, LinesOf, IsSeq
<1>4. CASE ~(Len(lines) <= n)
  <2>1. PICK h : h = n \div 2
    OBVIOUS
  <2>2. h \in Nat /\ h >= 1 /\ h <= n
    BY <2>1
  <2>3. PICK a, t : a = SubSeq(lines, 1, h) /\ t = Suffix(lines, h)
    OBVIOUS
  <2>4. s = a \o t
    BY <1>4, <2>1, <2>3 DEF Sample
  <2>5. a \in Seq(S) /\ Len(a) = h /\ \A i \in 1..h : a[i] = lines[i]
    BY <1>1, <1>2, <1>4, <2>2, <2>3
  <2>6. LinesOf(a, lines)
    BY <1>2, <1>4, <2>2, <2>5 DEF LinesOf
  <2>7. IsSeq(t) /\ LinesOf(t, lines)
    BY <2>2, <2>3, SuffixParts
  <2>8. PICK T : t \in Seq(T)
    BY <2>7 DEF IsSeq
  <2>9. a \in Seq(S \cup T) /\ t \in Seq(S \cup T)
    BY <2>5, <2>8
  <2>10. /\ s \in Seq(S \cup T) /\ Len(s) = Len(a) + Len(t)
         /\ \A i \in 1..Len(s) : s[i] = IF i <= Len(a) THEN a[i] ELSE t[i - Len(a)]
    BY <2>4, <2>9
  <2>11. Len(t) \in Nat
    BY <2>8
  <2>12. LinesOf(s, lines)
    <3>1. SUFFICES ASSUME NEW i \in 1..Len(s) PROVE \E j \in 1..Len(lines) : s[i] = lines[j]
      BY DEF LinesOf
    <3>2. CASE i <= Len(a)
      BY <2>5, <2>6, <2>10, <2>2, <3>2 DEF LinesOf
    <3>3. CASE ~(i <= Len(a))
      <4>1. i - Len(a) \in 1..Len(t)
        BY <2>2, <2>5, <2>10, <2>11, <3>3
      <4>. QED  BY <2>7, <2>10, <3>3, <4>1 DEF LinesOf
    <3>. QED  BY <3>2, <3>3
  <2>13. Len(s) >= 1 /\ s[1] = lines[1]
    BY <2>2, <2>5, <2>10, <2>11
  <2>. QED  BY <1>4, <2>10, <2>12, <2>13 DEF IsSeq
<1>. QED  BY <1>3, <1>4

\* Least, of places that are there.
LEMMA LeastIs ==
    ASSUME NEW S, S \subseteq Nat, S # {}
    PROVE  Least(S) \in S /\ \A j \in S : Least(S) <= j
<1>1. \E i \in S : \A j \in S : i <= j
  BY HasLeast
<1>. QED  BY <1>1 DEF Least

\* The session the guard sees: that of the state, or the first of the chunk.
LEMMA SignalSession ==
    ASSUME NEW chunk, IsSeq(chunk), NEW s
    PROVE  LET found == Signals(chunk, s).session
           IN  /\ found \in {Absent, s.session} \/ \E i \in 1..Len(chunk) : found = chunk[i].session
               /\ s.session # Absent => found = s.session
               /\ s.session = Absent /\ Len(chunk) >= 1 /\ chunk[1].session # Absent =>
                     found = chunk[1].session
<1>. DEFINE ids == {i \in DOMAIN chunk : chunk[i].session # Absent}
<1>1. DOMAIN chunk = 1..Len(chunk) /\ Len(chunk) \in Nat
  BY SeqParts
<1>2. ids \subseteq Nat /\ ids \subseteq 1..Len(chunk)
  BY <1>1
<1>3. PICK l : l = Least(ids)
  OBVIOUS
<1>4. ids # {} => l \in ids /\ \A j \in ids : l <= j
  BY <1>2, <1>3, LeastIs
<1>5. Signals(chunk, s).session = Or(s.session, IF ids = {} THEN Absent ELSE chunk[l].session)
  BY <1>3 DEF Signals
<1>6. Len(chunk) >= 1 /\ chunk[1].session # Absent => 1 \in ids /\ l = 1
  <2>1. Len(chunk) >= 1 /\ chunk[1].session # Absent => 1 \in ids
    BY <1>1
  <2>2. 1 \in ids => l \in Nat /\ l >= 1 /\ l <= 1
    BY <1>1, <1>2, <1>4
  <2>. QED  BY <2>1, <2>2
<1>. QED  BY <1>1, <1>2, <1>4, <1>5, <1>6 DEF Or

\* The directory: that of the work, of the session, or the first of the chunk.
LEMMA SignalCwd ==
    ASSUME NEW chunk, IsSeq(chunk), NEW s
    PROVE  LET found == Signals(chunk, s).cwd
           IN  /\ \/ found \in {Absent, s.active, s.cwd}
                  \/ \E i \in 1..Len(chunk) : found = chunk[i].cwd /\ chunk[i].type # "tool_use"
               /\ s.active # Absent => found = s.active
               /\ s.active = Absent /\ s.cwd # Absent => found = s.cwd
               /\ /\ s.active = Absent /\ s.cwd = Absent /\ Len(chunk) >= 1
                  /\ chunk[1].cwd # Absent /\ chunk[1].type # "tool_use"
                  => found = chunk[1].cwd
<1>. DEFINE cwds == {i \in DOMAIN chunk : chunk[i].cwd # Absent /\ chunk[i].type # "tool_use"}
<1>1. DOMAIN chunk = 1..Len(chunk) /\ Len(chunk) \in Nat
  BY SeqParts
<1>2. cwds \subseteq Nat /\ cwds \subseteq 1..Len(chunk)
  BY <1>1
<1>3. PICK l : l = Least(cwds)
  OBVIOUS
<1>4. cwds # {} => l \in cwds /\ \A j \in cwds : l <= j
  BY <1>2, <1>3, LeastIs
<1>5. Signals(chunk, s).cwd = Or(Or(s.active, s.cwd), IF cwds = {} THEN Absent ELSE chunk[l].cwd)
  BY <1>3 DEF Signals
<1>6. Len(chunk) >= 1 /\ chunk[1].cwd # Absent /\ chunk[1].type # "tool_use" => 1 \in cwds /\ l = 1
  <2>1. Len(chunk) >= 1 /\ chunk[1].cwd # Absent /\ chunk[1].type # "tool_use" => 1 \in cwds
    BY <1>1
  <2>2. 1 \in cwds => l \in Nat /\ l >= 1 /\ l <= 1
    BY <1>1, <1>2, <1>4
  <2>. QED  BY <2>1, <2>2
<1>. QED  BY <1>1, <1>2, <1>4, <1>5, <1>6 DEF Or

---------------------------------------------------------------------------
(* The states of the adapters.                                             *)

\* What a state may hold of a codex file: its session, the directories its agent
\* works in, and its calls.
Mine(s) ==
    /\ IsState(s)
    /\ s.session \in {Absent, Session}
    /\ s.cwd \in WorkDirs \cup {Absent} /\ s.active \in WorkDirs \cup {Absent}
    /\ \A c \in DOMAIN s.calls :
          /\ c \in Calls /\ IsUser
          /\ s.calls[c] = Draft(CallSpec[c].cwd, NoText, CallSpec[c].tool, CallSpec[c].command)

\* And what it holds once the first line was read.
Opened(s) == s.session = Session /\ (~IsUser => s.cwd = OwnDir)

LEMMA MineFresh == Mine(FreshState)
<1>1. DOMAIN FreshState.calls = {}
  BY DEF FreshState
<1>2. FreshState.active = Absent
  BY DEF FreshState
<1>. QED  BY <1>1, <1>2, FreshParts DEF Mine

\* A line of this session leaves the state this session's.
LEMMA MineLine ==
    ASSUME ~IsClaude, NEW u, Mine(u), NEW line, WellFormed(line) \/ line = BlankLine, NEW order,
           NEW s, s = Normalize(u, line, order).state
    PROVE  /\ Mine(s)
           /\ Opened(u) \/ line.type = "session_meta" => Opened(s)
<1>1. /\ KeepsTrack(u, line, s) /\ KeepsPlace(u, line, s) /\ KeepsCalls(u, line, s)
  BY CodexLine DEF Mine, Follows
<1>2. /\ line.cwd \in WorkDirs \cup {Absent}
      /\ line.type = "session_meta" => line.session = Session /\ line.cwd = OwnDir
      /\ line.type = "function_call" =>
            /\ line.call \in Calls /\ line.tool = CallSpec[line.call].tool
            /\ line.command = CallSpec[line.call].command /\ line.cwd = CallSpec[line.call].cwd
            /\ IsUser
  BY DEF WellFormed, BlankLine, StartTypes, EndTypes
<1>u. u.session \in {Absent, Session} /\ u.cwd \in WorkDirs \cup {Absent}
  BY DEF Mine
<1>3. IsState(s) /\ s.session \in {Absent, Session} /\ s.cwd \in WorkDirs \cup {Absent}
  <2>1. IsState(s) /\ s.session \in {Absent, Session}
    BY <1>u, <1>1, <1>2 DEF KeepsTrack
  <2>2. s.cwd \in {line.cwd, u.cwd}
    BY <1>1 DEF KeepsPlace, Or
  <2>. QED  BY <1>u, <1>2, <2>1, <2>2
<1>4. ASSUME NEW c \in DOMAIN u.calls PROVE u.calls[c].cwd \in WorkDirs
  <2>1. PICK d : d = Draft(CallSpec[c].cwd, NoText, CallSpec[c].tool, CallSpec[c].command)
    OBVIOUS
  <2>2. d.cwd = CallSpec[c].cwd
    BY <2>1 DEF Draft
  <2>3. u.calls[c] = d /\ c \in Calls /\ IsUser
    BY <1>4, <2>1 DEF Mine
  <2>. QED  BY <2>2, <2>3 DEF WorkDirs
<1>5. s.active \in WorkDirs \cup {Absent}
  BY <1>1, <1>2, <1>4 DEF Mine, KeepsPlace
<1>6. \A c \in DOMAIN s.calls :
         /\ c \in Calls /\ IsUser
         /\ s.calls[c] = Draft(CallSpec[c].cwd, NoText, CallSpec[c].tool, CallSpec[c].command)
  BY <1>1, <1>2 DEF Mine, KeepsCalls
<1>7. Opened(u) \/ line.type = "session_meta" => Opened(s)
  <2>1. ~IsUser => WorkDirs = {OwnDir}
    BY DEF WorkDirs
  <2>. QED  BY <1>1, <1>2, <2>1 DEF Opened, KeepsTrack, KeepsPlace, Or
<1>. QED  BY <1>3, <1>5, <1>6, <1>7 DEF Mine

\* What holds before the lines and is kept by each holds after each.
LEMMA Along ==
    ASSUME NEW n \in Nat, NEW first \in 0..n, NEW G, first \in G,
           \A i \in first + 1..n : i - 1 \in G => i \in G
    PROVE  \A i \in first..n : i \in G
<1>. DEFINE Bad == {k \in first..n : k \notin G}
<1>1. SUFFICES ASSUME Bad # {} PROVE FALSE
  OBVIOUS
<1>2. Bad \subseteq Nat
  OBVIOUS
<1>3. PICK m \in Bad : \A k \in Bad : m <= k
  BY <1>1, <1>2, HasLeast
<1>4. m \in first + 1..n /\ m - 1 \in first..n /\ m - 1 \notin Bad
  BY <1>3
<1>. QED  BY <1>3, <1>4

Readable(lines) == \A i \in 1..Len(lines) : WellFormed(lines[i]) \/ lines[i] = BlankLine
MineUpTo(f, n) == \A i \in 0..n : Mine(f[i])
OpenedFrom(f, first, n) == \A i \in first..n : Opened(f[i])

\* So does any list of them; from its session_meta on the session is set.
LEMMA MineAlong ==
    ASSUME ~IsClaude, NEW s, Mine(s), NEW lines, Len(lines) \in Nat, Readable(lines), NEW order,
           NEW f, f = States(s, lines, order)
    PROVE  /\ MineUpTo(f, Len(lines))
           /\ Opened(s) => OpenedFrom(f, 0, Len(lines))
           /\ Len(lines) >= 1 /\ lines[1].type = "session_meta" => OpenedFrom(f, 1, Len(lines))
<1>. DEFINE n == Len(lines)
<1>1. Steps(f, s, lines, order, n)
  BY StatesStep
<1>2. f[0] = s /\ \A i \in 1..n : f[i] = Normalize(f[i - 1], lines[i], order).state
  BY <1>1 DEF Steps
<1>3. \A i \in 1..n : WellFormed(lines[i]) \/ lines[i] = BlankLine
  BY DEF Readable
<1>. HIDE DEF n
<1>n. n \in Nat
  BY DEF n
<1>4. \A i \in 0..n : Mine(f[i])
  <2>. DEFINE G == {i \in 0..n : Mine(f[i])}
  <2>1. 0 \in G
    BY <1>2, <1>n
  <2>2. ASSUME NEW i \in 0 + 1..n, i - 1 \in G PROVE i \in G
    <3>1. Mine(f[i - 1]) /\ i \in 1..n
      BY <2>2, <1>n
    <3>2. PICK u, v : u = f[i - 1] /\ v = f[i] /\ v = Normalize(u, lines[i], order).state
      BY <1>2, <3>1
    <3>3. Mine(v)
      BY <1>3, <3>1, <3>2, MineLine
    <3>4. Mine(f[i]) /\ i \in 0..n
      BY <1>n, <3>1, <3>2, <3>3
    <3>. QED  BY <3>4
  <2>3. 0 \in 0..n
    BY <1>n
  <2>. HIDE DEF G
  <2>4. \A i \in 0..n : i \in G
    BY <1>n, <2>1, <2>2, <2>3, Along
  <2>. QED  BY <2>4 DEF G
<1>5. ASSUME NEW first \in 0..n, Opened(f[first]) PROVE \A i \in first..n : Opened(f[i])
  <2>. DEFINE G == {i \in first..n : Opened(f[i])}
  <2>1. first \in G
    BY <1>5, <1>n
  <2>2. ASSUME NEW i \in first + 1..n, i - 1 \in G PROVE i \in G
    <3>1. Opened(f[i - 1]) /\ i \in 1..n /\ Mine(f[i - 1])
      BY <2>2, <1>n, <1>4
    <3>2. PICK u, v : u = f[i - 1] /\ v = f[i] /\ v = Normalize(u, lines[i], order).state
      BY <1>2, <3>1
    <3>3. Opened(v)
      BY <1>3, <3>1, <3>2, MineLine
    <3>4. Opened(f[i]) /\ i \in first..n
      BY <1>n, <2>2, <3>2, <3>3
    <3>. QED  BY <3>4
  <2>. HIDE DEF G
  <2>4. \A i \in first..n : i \in G
    BY <1>n, <2>1, <2>2, Along
  <2>. QED  BY <2>4 DEF G
<1>6. n >= 1 /\ lines[1].type = "session_meta" => Opened(f[1])
  <2>1. SUFFICES ASSUME n >= 1, lines[1].type = "session_meta" PROVE Opened(f[1])
    OBVIOUS
  <2>2. 1 \in 1..n
    BY <1>n, <2>1
  <2>3. f[1] = Normalize(f[1 - 1], lines[1], order).state /\ 1 - 1 = 0
    BY <1>2, <2>2
  <2>4. PICK v : v = f[1] /\ v = Normalize(s, lines[1], order).state
    BY <1>2, <2>3
  <2>5. Opened(v)
    BY <1>3, <2>1, <2>2, <2>4, MineLine
  <2>. QED  BY <2>4, <2>5
<1>7. MineUpTo(f, n)
  BY <1>4 DEF MineUpTo
<1>8. Opened(s) => OpenedFrom(f, 0, n)
  BY <1>2, <1>5, <1>n DEF OpenedFrom
<1>9. n >= 1 /\ lines[1].type = "session_meta" => OpenedFrom(f, 1, n)
  BY <1>5, <1>6, <1>n DEF OpenedFrom
<1>. QED  BY <1>7, <1>8, <1>9 DEF n

AllWell(lines) == \A i \in 1..Len(lines) : WellFormed(lines[i])

\* Part of a file has its lines.
LEMMA WellPart ==
    ASSUME NEW lines, AllWell(lines), NEW part, LinesOf(part, lines)
    PROVE  AllWell(part) /\ Readable(part)
BY DEF AllWell, LinesOf, Readable

\* The warm state of a codex file.
LEMMA WarmCodex ==
    ASSUME ~IsClaude, NEW lines, IsSeq(lines), lines # <<>>, AllWell(lines),
           lines[1].type = "session_meta", NEW s, s = WarmCodexState(lines)
    PROVE  Mine(s) /\ Opened(s) /\ Unworked(s)
<1>1. PICK part : part = Sample(lines, StateSample)
  OBVIOUS
<1>2. IsSeq(part) /\ Len(part) >= 1 /\ part[1] = lines[1] /\ LinesOf(part, lines)
  BY <1>1, SampleParts, ImportAssumption DEF ImportAssumption
<1>3. PICK heads : heads = Headers(part)
  OBVIOUS
<1>4. DOMAIN part = 1..Len(part) /\ Len(part) \in Nat
  BY <1>2, SeqParts
<1>5. /\ DOMAIN heads = 1..Len(part)
      /\ heads = [i \in 1..Len(part) |-> heads[i]]
      /\ \A i \in 1..Len(part) :
            heads[i] = IF part[i].type \in {"session_meta", "turn_context"}
                       THEN part[i] ELSE BlankLine
  BY <1>3, <1>4 DEF Headers
<1>6. Len(heads) = Len(part)
  BY <1>4, <1>5
<1>7. AllWell(part)
  BY <1>2, WellPart
<1>8. Readable(heads) /\ heads[1].type = "session_meta"
  <2>1. 1 \in 1..Len(part)
    BY <1>2, <1>4
  <2>. QED  BY <1>2, <1>5, <1>6, <1>7, <2>1 DEF Readable, AllWell
<1>9. PICK f : f = States(FreshState, heads, AnyOrder)
  OBVIOUS
<1>10. s = f[Len(heads)]
  BY <1>1, <1>3, <1>9 DEF WarmCodexState
<1>11. MineUpTo(f, Len(heads)) /\ OpenedFrom(f, 1, Len(heads))
  BY <1>2, <1>4, <1>6, <1>8, <1>9, MineFresh, MineAlong
<1>12. Mine(s) /\ Opened(s)
  BY <1>2, <1>4, <1>6, <1>10, <1>11 DEF MineUpTo, OpenedFrom
<1>13. Steps(f, FreshState, heads, AnyOrder, Len(heads))
  BY <1>4, <1>6, <1>9, StatesStep
<1>. DEFINE n == Len(part)
            G == {i \in 0..n : Unworked(f[i])}
<1>14. 0 \in G
  BY <1>4, <1>13, FreshParts DEF Steps
<1>15. ASSUME NEW i \in 0 + 1..n, i - 1 \in G PROVE i \in G
  <2>1. i \in 1..n /\ i - 1 \in 0..n /\ Unworked(f[i - 1])
    BY <1>4, <1>15
  <2>2. PICK u, v : u = f[i - 1] /\ v = f[i] /\ v = Normalize(u, heads[i], AnyOrder).state
    BY <1>6, <1>13, <2>1 DEF Steps
  <2>3. IsState(u)
    BY <1>6, <1>11, <2>1, <2>2 DEF MineUpTo, Mine
  <2>4. heads[i].type \in {"session_meta", "turn_context"} \/ heads[i] = BlankLine
    BY <1>5, <2>1
  <2>5. Unworked(v)
    BY <2>1, <2>2, <2>3, <2>4, HeaderLine
  <2>6. Unworked(f[i]) /\ i \in 0..n
    BY <1>4, <2>1, <2>2, <2>5
  <2>. QED  BY <2>6
<1>16. Unworked(s)
  <2>1. n \in Nat /\ 0 \in 0..n
    BY <1>4
  <2>. HIDE DEF n, G
  <2>2. \A i \in 0..n : i \in G
    BY <1>14, <1>15, <2>1, Along
  <2>. QED  BY <1>6, <1>10, <2>1, <2>2 DEF n, G
<1>. QED  BY <1>12, <1>16

LEMMA DirsApart ==
    IsUser => DefaultDir \notin WorkDirs \cup {Absent} /\ CustomDir \notin WorkDirs \cup {Absent}
<1>1. SUFFICES ASSUME IsUser PROVE DefaultDir \notin WorkDirs \cup {Absent} /\ CustomDir \notin WorkDirs \cup {Absent}
  OBVIOUS
<1>2. DefaultDir # Absent /\ CustomDir # Absent
  BY ImportAssumption DEF ImportAssumption
<1>3. DefaultDir \notin {HomeDir} \cup TurnDirs /\ CustomDir \notin {HomeDir} \cup TurnDirs
  BY ImportAssumption DEF ImportAssumption
<1>4. \A c \in Calls : CallSpec[c].cwd # DefaultDir /\ CallSpec[c].cwd # CustomDir
  BY ImportAssumption DEF ImportAssumption
<1>. QED  BY <1>1, <1>2, <1>3, <1>4 DEF WorkDirs

\* Where the guard sees an agent work, it does.
LEMMA SignalsWell ==
    ASSUME NEW chunk, IsSeq(chunk), AllWell(chunk), NEW s,
           s.cwd \in WorkDirs \cup {Absent}, s.active \in WorkDirs \cup {Absent}
    PROVE  Signals(chunk, s).cwd \in WorkDirs \cup {Absent}
<1>1. PICK found : found = Signals(chunk, s).cwd
  OBVIOUS
<1>2. \/ found \in {Absent, s.active, s.cwd}
      \/ \E i \in 1..Len(chunk) : found = chunk[i].cwd /\ chunk[i].type # "tool_use"
  BY <1>1, SignalCwd
<1>3. \A i \in 1..Len(chunk) : chunk[i].cwd \in WorkDirs \cup {Absent}
  BY DEF AllWell, WellFormed
<1>. QED  BY <1>1, <1>2, <1>3

Prompted(chunk) == \E i \in DOMAIN chunk : chunk[i].type = "internal_prompt"
Worked(chunk) == \E i \in DOMAIN chunk : HasExternalActivity(chunk[i])

\* The prompt counts in a chunk without work.
LEMMA SignalPrompt ==
    ASSUME NEW chunk, NEW s
    PROVE  Signals(chunk, s).prompted <=> Prompted(chunk) /\ ~Worked(chunk)
BY DEF Signals, Prompted, Worked, HasInternalPrompt

\* With the registry a user's lines are never taken for a processor's.
LEMMA UserNotInternal ==
    ASSUME owner = "user", guarded, NEW chunk, IsSeq(chunk), AllWell(chunk), NEW s, Mine(s)
    PROVE  ~IsInternal(chunk, s, {})
<1>1. IsUser /\ ~IsClaude
  BY DEF IsUser, IsClaude
<1>2. Signals(chunk, s).cwd \in WorkDirs \cup {Absent}
  BY SignalsWell DEF Mine
<1>3. Signals(chunk, s).cwd # DefaultDir /\ Signals(chunk, s).cwd # CustomDir
  BY <1>1, <1>2, DirsApart
<1>. QED  BY <1>1, <1>3 DEF IsInternal

\* No chunk of a user's claude is taken for a processor's.
LEMMA ClaudeNotInternal ==
    ASSUME owner = "claude", ~guarded, NEW chunk, IsSeq(chunk), AllWell(chunk), NEW s, NEW ids
    PROVE  ~IsInternal(chunk, s, ids)
<1>1. IsUser /\ IsClaude
  BY DEF IsUser, IsClaude
<1>2. Signals(chunk, FreshState).cwd \in WorkDirs \cup {Absent}
  BY MineFresh, SignalsWell DEF Mine
<1>3. Signals(chunk, FreshState).cwd # DefaultDir
  BY <1>1, <1>2, DirsApart
<1>4. ~Prompted(chunk)
  BY SeqParts DEF Prompted, AllWell, WellFormed
<1>5. ~Signals(chunk, FreshState).prompted
  BY <1>4, SignalPrompt
<1>. QED  BY <1>1, <1>3, <1>5 DEF IsInternal

---------------------------------------------------------------------------
(* The steps of the importer.                                              *)

\* The state stems from the first line on: without history it is the warm state, and
\* with history the attach has not skipped the file.
Recognised == ~history \/ attached <= GuardSample \/ (owner = "user" /\ guarded)

StateInv ==
    /\ IF IsClaude THEN IsState(st) ELSE Mine(st)
    /\ ~IsClaude /\ phase # "off" /\ Recognised /\ (~history \/ pos # 0) => Opened(st)

ReadInv == BaseInv /\ StateInv

Writes == \E line : NewLine(line) /\ Write(line)

Stays == UNCHANGED <<setting, file, watcher>> /\ (phase # "off" => known' = known)

\* The watcher starts, after what it sampled of the file, with a state and the
\* lines of the context or of all the file; or it skips them.
Attached(ids, chunk, start) ==
    /\ phase = "off" /\ file # <<>>
    /\ IF IsClaude THEN ids = {} ELSE \E fresh \in BOOLEAN : ids = Refreshed(fresh)
    /\ ~IsInternal(Sample(file, GuardSample), FreshState, ids)
    /\ chunk = IF history THEN file ELSE Suffix(file, ContextTail)
    /\ start = IF history THEN FreshState
               ELSE IF IsClaude THEN WarmClaudeState(file) ELSE WarmCodexState(file)
    /\ st' = start /\ end' = Len(file) /\ attached' = Len(file)
    /\ \/ /\ IsInternal(chunk, start, ids)
          /\ pos' = Len(file) /\ phase' = "live" /\ known' = Recorded(ids, chunk, start)
       \/ /\ ~IsInternal(chunk, start, ids)
          /\ pos' = Len(file) - Len(chunk) /\ known' = ids
          /\ phase' = IF history THEN "chunk" ELSE "context"
    /\ UNCHANGED <<setting, file, memoryFile, internal, posted, lost>>
Attaches == \E ids, chunk, start : Attached(ids, chunk, start)

\* A poll skips what was written since the last one, or imports it.
Polled(ids) ==
    /\ phase = "live" /\ end < Len(file) /\ end' = Len(file)
    /\ IF IsClaude THEN ids = {} ELSE \E fresh \in BOOLEAN : ids = Refreshed(fresh)
    /\ \/ /\ internal \/ IsInternal(Chunk, st, ids)
          /\ pos' = Len(file) /\ phase' = "live"
          /\ IF IsClaude THEN UNCHANGED <<internal, known>>
             ELSE /\ internal' = (internal \/ IsConfirmed(Chunk, st, ids))
                  /\ known' = Recorded(ids, Chunk, st)
       \/ /\ ~internal /\ ~IsInternal(Chunk, st, ids)
          /\ pos' = pos /\ phase' = "chunk" /\ internal' = internal
          /\ known' = IF IsClaude THEN known ELSE ids
    /\ UNCHANGED <<setting, file, memoryFile, st, attached, posted, lost>>
Polls == \E ids : Polled(ids)

\* The recap and the checkpoint tell an event of the context as of no line, and so
\* does a hook.
Recapped ==
    \E order \in CallOrders, since \in 1..Len(Context) + 1 :
      \E e \in ContextEvents(WarmCodexState(SubSeq(file, 1, attached)), order, since) :
        \E summary \in {e.event.summary, Filler("active")} :
          Post(0, Synthetic(e.event, summary, NoCommand))
Checkpointed ==
    \E order \in CallOrders, since \in 1..Len(Context) + 1 :
      \E e \in StillOpen(ContextEvents(st, order, since)) :
        Post(0, Synthetic(e.event, Filler("active"), e.event.command))
Synthesized ==
    /\ \/ phase = "recap" /\ phase' = "checkpoint" /\ (UNCHANGED <<posted, lost>> \/ Recapped)
       \/ phase = "checkpoint" /\ phase' = "live" /\ (UNCHANGED <<posted, lost>> \/ Checkpointed)
    /\ UNCHANGED <<setting, file, memoryFile, known, pos, end, st, internal, attached>>

Hooked ==
    /\ owner = "hooks"
    /\ \E event : posted' = Append(posted, [line |-> 0, event |-> event])
    /\ UNCHANGED <<setting, file, memoryFile, known, phase, pos, end, st, internal, attached, lost>>

\* Attaching, codex or claude, with the input and the state it starts from.
LEMMA AttachShape ==
    ASSUME AttachCodex \/ AttachClaude
    PROVE  Attaches
<1>1. CASE AttachCodex
  <2>1. PICK fresh \in BOOLEAN :
           /\ ~IsInternal(Sample(file, GuardSample), FreshState, Refreshed(fresh))
           /\ AttachTo(WarmCodexState(file), Refreshed(fresh))
    BY <1>1 DEF AttachCodex
  <2>2. phase = "off" /\ file # <<>> /\ ~IsClaude
    BY <1>1 DEF AttachCodex
  <2>3. PICK ids, chunk, start :
           /\ ids = Refreshed(fresh)
           /\ chunk = IF history THEN file ELSE Suffix(file, ContextTail)
           /\ start = IF history THEN FreshState ELSE WarmCodexState(file)
    OBVIOUS
  <2>4. Attached(ids, chunk, start)
    BY <2>1, <2>2, <2>3 DEF AttachTo, Attached
  <2>. QED  BY <2>4 DEF Attaches
<1>2. CASE AttachClaude
  <2>1. /\ phase = "off" /\ file # <<>> /\ IsClaude
        /\ ~IsInternal(Sample(file, GuardSample), FreshState, {})
        /\ AttachTo(WarmClaudeState(file), {})
    BY <1>2 DEF AttachClaude
  <2>2. PICK ids, chunk, start :
           /\ ids = {}
           /\ chunk = IF history THEN file ELSE Suffix(file, ContextTail)
           /\ start = IF history THEN FreshState ELSE WarmClaudeState(file)
    OBVIOUS
  <2>3. Attached(ids, chunk, start)
    BY <2>1, <2>2 DEF AttachTo, Attached
  <2>. QED  BY <2>3 DEF Attaches
<1>. QED  BY <1>1, <1>2

\* A poll reads to the end of the file, or skips to it.
LEMMA PollShape ==
    ASSUME WatchInv, PollCodex \/ PollClaude
    PROVE  Polls
<1>1. CASE PollCodex
  <2>1. PICK fresh \in BOOLEAN :
         LET ids  == Refreshed(fresh)
             skip == internal \/ IsInternal(Chunk, st, ids)
         IN  \/ /\ skip
                /\ internal' = (internal \/ IsConfirmed(Chunk, st, ids))
                /\ known' = Recorded(ids, Chunk, st)
                /\ pos' = Len(file) /\ UNCHANGED phase
             \/ /\ ~skip
                /\ known' = ids /\ phase' = "chunk" /\ UNCHANGED <<internal, pos>>
    BY <1>1 DEF PollCodex
  <2>2. /\ phase = "live" /\ end < Len(file) /\ ~IsClaude /\ end' = Len(file)
        /\ UNCHANGED <<setting, file, memoryFile, st, attached, posted, lost>>
    BY <1>1 DEF PollCodex
  <2>3. Polled(Refreshed(fresh))
    BY <2>1, <2>2 DEF Polled
  <2>. QED  BY <2>3 DEF Polls
<1>2. CASE PollClaude
  <2>1. ~internal
    BY <1>2 DEF WatchInv, PollClaude
  <2>2. Polled({})
    BY <1>2, <2>1 DEF PollClaude, Polled
  <2>. QED  BY <2>2 DEF Polls
<1>. QED  BY <1>1, <1>2

\* A recap and a checkpoint post one event at most, which tells no line.
LEMMA RecapShape ==
    ASSUME Recap \/ Checkpoint
    PROVE  Synthesized
<1>1. CASE Recap
  <2>1. PICK order \in CallOrders, since \in 1..Len(Context) + 1 :
          \E list \in {Worthy(ContextEvents(WarmCodexState(SubSeq(file, 1, attached)), order, since))} :
             \/ list = {} /\ Skipping("checkpoint")
             \/ \E best \in Best(list) :
                  /\ phase' = "checkpoint"
                  /\ Post(0, Synthetic(best.event, Summed(best.event), NoCommand))
    BY <1>1 DEF Recap
  <2>2. CASE Skipping("checkpoint")
    BY <1>1, <2>2 DEF Recap, Skipping, Synthesized
  <2>3. CASE ~Skipping("checkpoint")
    <3>1. PICK list : list = ContextEvents(WarmCodexState(SubSeq(file, 1, attached)), order, since)
      OBVIOUS
    <3>2. PICK best \in Best(Worthy(list)) :
             phase' = "checkpoint" /\ Post(0, Synthetic(best.event, Summed(best.event), NoCommand))
      BY <2>1, <2>3, <3>1
    <3>3. best \in list /\ Summed(best.event) \in {best.event.summary, Filler("active")}
      BY <3>2 DEF Best, Worthy, Summed
    <3>e. PICK summary : summary = Summed(best.event)
      OBVIOUS
    <3>s. \E e \in list : \E said \in {e.event.summary, Filler("active")} :
             Post(0, Synthetic(e.event, said, NoCommand))
      BY <3>2, <3>3, <3>e
    <3>4. Recapped
      BY <3>1, <3>s DEF Recapped
    <3>. QED  BY <1>1, <3>2, <3>4 DEF Recap, Synthesized
  <2>. QED  BY <2>2, <2>3
<1>2. CASE Checkpoint
  <2>1. PICK order \in CallOrders, since \in 1..Len(Context) + 1 :
          \E list \in {StillOpen(ContextEvents(st, order, since))} :
             \/ list = {} /\ Skipping("live")
             \/ \E last \in Latest(list) :
                  /\ phase' = "live"
                  /\ Post(0, Synthetic(last.event, Filler("active"), last.event.command))
    BY <1>2 DEF Checkpoint
  <2>2. CASE Skipping("live")
    BY <1>2, <2>2 DEF Checkpoint, Skipping, Synthesized
  <2>3. CASE ~Skipping("live")
    <3>1. PICK list : list = StillOpen(ContextEvents(st, order, since))
      OBVIOUS
    <3>2. PICK last \in Latest(list) :
             phase' = "live" /\ Post(0, Synthetic(last.event, Filler("active"), last.event.command))
      BY <2>1, <2>3, <3>1
    <3>3. last \in list
      BY <3>2 DEF Latest
    <3>e. \E e \in list : Post(0, Synthetic(e.event, Filler("active"), e.event.command))
      BY <3>2, <3>3
    <3>4. Checkpointed
      BY <3>1, <3>e DEF Checkpointed
    <3>. QED  BY <1>2, <3>2, <3>4 DEF Checkpoint, Synthesized
  <2>. QED  BY <2>2, <2>3
<1>. QED  BY <1>1, <1>2

LEMMA HookShape ==
    ASSUME Hook
    PROVE  Hooked
BY DEF Hook, Hooked

\* Every step of the specification is one of seven shapes.
LEMMA ImportSteps ==
    ASSUME ReadInv, [ImportNext]_importVars
    PROVE  Writes \/ Stays \/ Attaches \/ Imported \/ Synthesized \/ Polls \/ Hooked
<1>1. CASE AgentActs
  BY <1>1, AgentWrites DEF ReadInv, BaseInv, WatchInv, Writes
<1>2. CASE SaveMemory \/ SkipCodexFile \/ UNCHANGED importVars
  BY <1>2 DEF SaveMemory, SkipCodexFile, importVars, Stays, setting, watcher
<1>3. CASE AttachCodex \/ AttachClaude
  BY <1>3, AttachShape
<1>4. CASE ImportCodexLine \/ ImportCodexContextLine \/ ImportClaudeLine \/ ImportClaudeContextLine
  BY <1>4, ImportShape DEF ReadInv, BaseInv
<1>5. CASE Recap \/ Checkpoint
  BY <1>5, RecapShape
<1>6. CASE PollCodex \/ PollClaude
  BY <1>6, PollShape DEF ReadInv, BaseInv
<1>7. CASE Hook
  BY <1>7, HookShape
<1>. QED  BY <1>1, <1>2, <1>3, <1>4, <1>5, <1>6, <1>7 DEF ImportNext, AgentActs

\* f are the states of the claude adapter along the first n lines.
IsClaudeRun(f, lines, n) ==
    f = [i \in 0..n |-> IF i = 0 THEN FreshState ELSE NormalizeClaude(f[i - 1], lines[i]).state]

LEMMA ClaudeRunExists ==
    ASSUME NEW lines, NEW n \in Nat
    PROVE  \E f : IsClaudeRun(f, lines, n)
<1>. DEFINE Bad == {k \in Nat : ~ \E f : IsClaudeRun(f, lines, k)}
<1>1. SUFFICES ASSUME Bad # {} PROVE FALSE
  OBVIOUS
<1>2. PICK m \in Bad : \A k \in Bad : m <= k
  BY <1>1, HasLeast
<1>3. ~ \E f : IsClaudeRun(f, lines, m)
  OBVIOUS
<1>4. CASE m = 0
  <2>1. IsClaudeRun([i \in 0..0 |-> FreshState], lines, 0)
    BY DEF IsClaudeRun
  <2>. QED  BY <1>3, <1>4, <2>1
<1>5. CASE m # 0
  <2>1. m - 1 \in Nat /\ m - 1 \notin Bad
    BY <1>2, <1>5
  <2>2. PICK f : IsClaudeRun(f, lines, m - 1)
    BY <2>1
  <2>. DEFINE g == [k \in 0..m |-> IF k = m THEN NormalizeClaude(f[m - 1], lines[m]).state ELSE f[k]]
  <2>3. ASSUME NEW k \in 0..m
        PROVE  g[k] = IF k = 0 THEN FreshState ELSE NormalizeClaude(g[k - 1], lines[k]).state
    <3>1. CASE k = 0
      BY <3>1, <2>1, <2>2, <1>5 DEF IsClaudeRun
    <3>2. CASE k # 0 /\ k = m
      BY <3>2, <2>1
    <3>3. CASE k # 0 /\ k # m
      <4>1. k \in 0..(m - 1) /\ k - 1 \in 0..(m - 1)
        BY <3>3
      <4>2. f[k] = NormalizeClaude(f[k - 1], lines[k]).state
        BY <4>1, <3>3, <2>2 DEF IsClaudeRun
      <4>3. g[k] = f[k] /\ g[k - 1] = f[k - 1]
        BY <4>1, <3>3
      <4>. QED  BY <4>2, <4>3, <3>3
    <3>. QED  BY <3>1, <3>2, <3>3
  <2>4. g = [k \in 0..m |-> IF k = 0 THEN FreshState ELSE NormalizeClaude(g[k - 1], lines[k]).state]
    <3>1. g = [k \in 0..m |-> g[k]]
      OBVIOUS
    <3>. HIDE DEF g
    <3>. QED  BY <3>1, <2>3
  <2>5. IsClaudeRun(g, lines, m)
    BY <2>4 DEF IsClaudeRun
  <2>. QED  BY <1>3, <2>5
<1>. QED  BY <1>4, <1>5

\* The warm state of a claude watcher has the parts of a state.
LEMMA WarmClaude ==
    ASSUME IsClaude, NEW lines, IsSeq(lines), lines # <<>>, AllWell(lines),
           NEW s, s = WarmClaudeState(lines)
    PROVE  IsState(s)
<1>1. PICK part : part = Sample(lines, StateSample)
  OBVIOUS
<1>2. IsSeq(part) /\ LinesOf(part, lines)
  BY <1>1, SampleParts, ImportAssumption DEF ImportAssumption
<1>3. AllWell(part) /\ Len(part) \in Nat
  BY <1>2, WellPart, SeqParts
<1>4. PICK n : n = Len(part)
  OBVIOUS
<1>5. n \in Nat /\ 0 \in 0..n
  BY <1>3, <1>4
<1>6. PICK f : f = ClaudeStates(part)
  OBVIOUS
<1>7. IsClaudeRun(f, part, n)
  <2>1. \E g : IsClaudeRun(g, part, n)
    BY <1>5, ClaudeRunExists
  <2>. QED  BY <1>4, <1>6, <2>1 DEF ClaudeStates, IsClaudeRun
<1>8. \A i \in 0..n : f[i] = IF i = 0 THEN FreshState ELSE NormalizeClaude(f[i - 1], part[i]).state
  BY <1>7 DEF IsClaudeRun
<1>. DEFINE G == {i \in 0..n : IsState(f[i])}
<1>9. 0 \in G
  BY <1>5, <1>8, FreshParts
<1>10. ASSUME NEW i \in 0 + 1..n, i - 1 \in G PROVE i \in G
  <2>1. i \in 0..n /\ i # 0 /\ i \in 1..Len(part) /\ IsState(f[i - 1])
    BY <1>4, <1>5, <1>10
  <2>2. PICK u, v : u = f[i - 1] /\ v = f[i] /\ v = NormalizeClaude(u, part[i]).state
    BY <1>8, <2>1
  <2>3. part[i].type # "hook"
    BY <1>3, <2>1 DEF AllWell, WellFormed, ClaudeTypes
  <2>4. IsState(v)
    BY <2>1, <2>2, <2>3, ClaudeLine
  <2>. QED  BY <2>1, <2>2, <2>4
<1>. HIDE DEF G
<1>11. \A i \in 0..n : i \in G
  BY <1>5, <1>9, <1>10, Along
<1>12. s = f[n]
  BY <1>1, <1>4, <1>6 DEF WarmClaudeState
<1>. QED  BY <1>5, <1>11, <1>12 DEF G

LEMMA FileParts ==
    ASSUME FileInv
    PROVE  /\ IsSeq(file) /\ Len(file) \in Nat /\ DOMAIN file = 1..Len(file)
           /\ file # <<>> <=> Len(file) # 0
           /\ AllWell(file)
           /\ file # <<>> => Opens(file[1])
BY SeqParts DEF FileInv, AllWellFormed, WellOpened, AllWell

\* A chunk is the lines of the file behind the offset.
LEMMA ChunkParts ==
    ASSUME FileInv, end \in Nat, end <= Len(file)
    PROVE  /\ IsSeq(Chunk) /\ Len(Chunk) = Len(file) - end
           /\ \A i \in 1..Len(Chunk) : Chunk[i] = file[end + i]
           /\ AllWell(Chunk)
<1>1. PICK n : n = Len(file)
  OBVIOUS
<1>2. n \in Nat /\ IsSeq(file) /\ AllWell(file)
  BY <1>1, FileParts
<1>3. PICK S : file \in Seq(S)
  BY <1>2 DEF IsSeq
<1>4. \A i \in end + 1..n : file[i] \in S
  BY <1>1, <1>3
<1>5. PICK t : t = Chunk
  OBVIOUS
<1>6. t = SubSeq(file, end + 1, n)
  BY <1>1, <1>5 DEF Chunk
<1>7. /\ t \in Seq(S)
      /\ Len(t) = IF end + 1 <= n THEN n - (end + 1) + 1 ELSE 0
      /\ \A i \in 1..n - (end + 1) + 1 : t[i] = file[end + 1 + i - 1]
  BY <1>2, <1>4, <1>6, SubSeqProperties
<1>8. Len(t) = n - end /\ \A i \in 1..Len(t) : t[i] = file[end + i]
  BY <1>1, <1>2, <1>7
<1>9. AllWell(t)
  BY <1>1, <1>2, <1>8 DEF AllWell
<1>. QED  BY <1>1, <1>5, <1>7, <1>8, <1>9 DEF IsSeq

\* What is read at attach.
LEMMA AttachedParts ==
    ASSUME ReadInv, NEW ids, NEW chunk, NEW start, Attached(ids, chunk, start)
    PROVE  /\ IsSeq(chunk) /\ Len(chunk) >= 1 /\ Len(chunk) \in Nat
           /\ history \/ Len(file) <= ContextTail => Len(chunk) = Len(file)
           /\ ~history /\ Len(file) > ContextTail => Len(chunk) = ContextTail
           /\ \A i \in 1..Len(chunk) : chunk[i] = file[Len(file) - Len(chunk) + i]
           /\ AllWell(chunk)
           /\ IF IsClaude THEN IsState(start) ELSE Mine(start)
           /\ ~IsClaude /\ ~history => Opened(start) /\ Unworked(start)
<1>1. /\ IsSeq(file) /\ Len(file) \in Nat /\ Len(file) # 0 /\ AllWell(file) /\ Opens(file[1])
  BY FileParts DEF ReadInv, BaseInv, Attached
<1>2. CASE history
  <2>1. chunk = file /\ start = FreshState
    BY <1>2 DEF Attached
  <2>. QED  BY <1>1, <1>2, <2>1, MineFresh, FreshParts
<1>3. CASE ~history
  <2>1. /\ chunk = Suffix(file, ContextTail)
        /\ start = IF IsClaude THEN WarmClaudeState(file) ELSE WarmCodexState(file)
    BY <1>3 DEF Attached
  <2>2. ContextTail \in Nat /\ ContextTail >= 1
    BY ImportAssumption DEF ImportAssumption
  <2>3. /\ IsSeq(chunk) /\ Len(chunk) = (IF Len(file) > ContextTail THEN ContextTail ELSE Len(file))
        /\ \A i \in 1..Len(chunk) : chunk[i] = file[Len(file) - Len(chunk) + i]
        /\ LinesOf(chunk, file)
    BY <1>1, <2>1, <2>2, SuffixParts
  <2>4. AllWell(chunk)
    BY <1>1, <2>3, WellPart
  <2>5. file # <<>> /\ (~IsClaude => owner # "hooks")
    BY DEF Attached, IsClaude
  <2>6. IsClaude => IsState(start)
    BY <1>1, <2>1, <2>5, WarmClaude
  <2>7. ~IsClaude => file[1].type = "session_meta"
    BY <1>1 DEF Opens, IsClaude
  <2>8. ~IsClaude => Mine(start) /\ Opened(start) /\ Unworked(start)
    BY <1>1, <2>1, <2>5, <2>7, WarmCodex
  <2>9. /\ Len(file) <= ContextTail => Len(chunk) = Len(file)
        /\ Len(file) > ContextTail => Len(chunk) = ContextTail
        /\ Len(chunk) \in Nat /\ Len(chunk) >= 1
    BY <1>1, <2>2, <2>3
  <2>. QED  BY <1>3, <2>3, <2>4, <2>6, <2>8, <2>9
<1>. QED  BY <1>2, <1>3

---------------------------------------------------------------------------
(* ReadInv holds.                                                          *)

\* Nothing is written and nothing read.
LEMMA ReadInvInit ==
    ASSUME ImportInit
    PROVE  ReadInv
<1>1. IsSeq(file) /\ DOMAIN file = {} /\ Len(file) = 0 /\ IsSeq(posted) /\ DOMAIN posted = {}
  <2>1. file \in Seq({}) /\ posted \in Seq({}) /\ file = <<>> /\ posted = <<>>
    BY DEF ImportInit
  <2>. QED  BY <2>1 DEF IsSeq
<1>2. FileInv
  BY <1>1 DEF ImportInit, FileInv, AllWellFormed, WellOpened, StartsFirst, AskedFirst
<1>3. WatchInv
  <2>1. /\ owner \in Owners /\ guarded \in BOOLEAN /\ history \in BOOLEAN
        /\ (IsClaude => ~guarded) /\ (owner = "custom" => guarded)
        /\ (~guarded /\ ~IsClaude => history)
    BY DEF ImportInit, Owners
  <2>2. /\ phase = "off" /\ pos = 0 /\ end = 0 /\ st = FreshState
        /\ internal = FALSE /\ attached = 0 /\ posted = <<>> /\ lost = {}
    BY DEF ImportInit
  <2>3. pos \in Nat /\ end \in Nat /\ attached \in Nat /\ attached <= end /\ pos <= end /\ end <= Len(file)
    BY <1>1, <2>2
  <2>4. \A i \in DOMAIN posted : posted[i].line \in 0..pos
    BY <1>1
  <2>5. internal \in BOOLEAN /\ ~internal /\ phase \in Phases
    BY <2>2 DEF Phases
  <2>. QED  BY <1>1, <2>1, <2>2, <2>3, <2>4, <2>5 DEF WatchInv
<1>4. KnownInv
  BY DEF ImportInit, KnownInv
<1>5. StateInv
  BY MineFresh, FreshParts DEF ImportInit, StateInv
<1>. QED  BY <1>2, <1>3, <1>4, <1>5 DEF ReadInv, BaseInv

\* The agent keeps the file well formed; nobody else touches it.
LEMMA FileInvNext ==
    ASSUME ReadInv, Writes \/ (UNCHANGED <<owner, file>>)
    PROVE  FileInv'
<1>1. CASE Writes
  BY <1>1, FileGrows DEF Writes, Write, ReadInv, BaseInv
<1>2. CASE UNCHANGED <<owner, file>>
  BY <1>2 DEF ReadInv, BaseInv, FileInv, AllWellFormed, WellOpened, StartsFirst, AskedFirst,
              WellFormed, Opens, IsClaude, IsUser, WorkDirs, OwnDir
<1>. QED  BY <1>1, <1>2

\* An event is posted for a line read.
LEMMA PostParts ==
    ASSUME WatchInv, NEW n, NEW event, Post(n, event), pos' \in Nat, pos <= pos', n \in 0..pos'
    PROVE  IsSeq(posted)' /\ (\A i \in DOMAIN posted : posted[i].line \in 0..pos)'
<1>0. IsSeq(posted) /\ pos \in Nat /\ (\A i \in DOMAIN posted : posted[i].line \in 0..pos)
  BY DEF WatchInv
<1>1. CASE posted' = posted
  BY <1>0, <1>1 DEF IsSeq
<1>2. CASE posted' = Append(posted, [line |-> n, event |-> event])
  <2>1. PICK told : told = [line |-> n, event |-> event]
    OBVIOUS
  <2>2. PICK new : new = Append(posted, told)
    OBVIOUS
  <2>3. /\ IsSeq(new) /\ Len(new) = Len(posted) + 1
        /\ \A i \in 1..Len(posted) : new[i] = posted[i]
        /\ new[Len(posted) + 1] = told
    BY <1>0, <2>2, Appended
  <2>4. /\ DOMAIN posted = 1..Len(posted) /\ DOMAIN new = 1..Len(new) /\ Len(posted) \in Nat
    BY <1>0, <2>3, SeqParts
  <2>5. told.line = n
    BY <2>1
  <2>6. \A i \in DOMAIN new : new[i].line \in 0..pos'
    <3>1. SUFFICES ASSUME NEW i \in 1..Len(posted) + 1 PROVE new[i].line \in 0..pos'
      BY <2>3, <2>4
    <3>2. CASE i \in 1..Len(posted)
      <4>1. posted[i].line \in 0..pos
        BY <1>0, <2>4, <3>2
      <4>. QED  BY <1>0, <2>3, <3>2, <4>1
    <3>3. CASE i = Len(posted) + 1
      BY <2>3, <2>5, <3>3
    <3>. QED  BY <2>4, <3>2, <3>3
  <2>7. posted' = new
    BY <1>2, <2>1, <2>2
  <2>. QED  BY <2>3, <2>6, <2>7
<1>. QED  BY <1>1, <1>2 DEF Post

\* Every step keeps pos, end and the phase in step with the file.
LEMMA WatchInvNext ==
    ASSUME ReadInv, FileInv',
           Writes \/ Stays \/ Attaches \/ Imported \/ Synthesized \/ Polls \/ Hooked
    PROVE  WatchInv'
<1>0. WatchInv /\ FileInv
  BY DEF ReadInv, BaseInv
<1>1. CASE Writes
  <2>1. PICK line : NewLine(line) /\ Write(line)
    BY <1>1 DEF Writes
  <2>2. Len(file') = Len(file) + 1 /\ Len(file) \in Nat
    BY <1>0, <2>1, Written DEF Write
  <2>. QED  BY <1>0, <2>1, <2>2 DEF Write, setting, watcher, WatchInv, IsClaude, IsSeq
<1>2. CASE Stays
  BY <1>0, <1>2 DEF Stays, setting, watcher, WatchInv, IsClaude, IsSeq
<1>3. CASE Attaches
  <2>1. PICK ids, chunk, start : Attached(ids, chunk, start)
    BY <1>3 DEF Attaches
  <2>2. /\ Len(chunk) >= 1 /\ Len(chunk) \in Nat
        /\ history \/ Len(file) <= ContextTail => Len(chunk) = Len(file)
        /\ ~history /\ Len(file) > ContextTail => Len(chunk) = ContextTail
    BY <2>1, AttachedParts
  <2>3. Len(file) \in Nat /\ Len(file) >= 1 /\ owner # "hooks"
    BY <1>0, <2>1, FileParts DEF FileInv, Attached
  <2>4. ContextTail \in Nat
    BY ImportAssumption DEF ImportAssumption
  <2>5. Len(chunk) <= Len(file)
    BY <1>0, <2>2, <2>3, <2>4 DEF WatchInv
  <2>6. posted = <<>> /\ posted' = posted /\ end' = Len(file) /\ attached' = Len(file) /\ file' = file
    BY <1>0, <2>1, <2>3 DEF Attached, WatchInv
  <2>7. DOMAIN posted = {} /\ IsSeq(posted)'
    BY <1>0, <2>6 DEF WatchInv
  <2>8. owner' = owner /\ guarded' = guarded /\ history' = history /\ internal' = internal /\ ~internal
    BY <1>0, <2>1 DEF Attached, setting, WatchInv
  <2>9. IsClaude' <=> IsClaude
    BY <2>8 DEF IsClaude
  <2>10. CASE pos' = Len(file) /\ phase' = "live"
    BY <1>0, <2>3, <2>6, <2>7, <2>8, <2>9, <2>10 DEF WatchInv, Phases
  <2>11. CASE pos' = Len(file) - Len(chunk) /\ phase' = (IF history THEN "chunk" ELSE "context")
    <3>1. CASE history
      BY <1>0, <2>2, <2>3, <2>5, <2>6, <2>7, <2>8, <2>9, <2>11, <3>1 DEF WatchInv, Phases
    <3>2. CASE ~history
      BY <1>0, <2>2, <2>3, <2>5, <2>6, <2>7, <2>8, <2>9, <2>11, <3>2 DEF WatchInv, Phases
    <3>. QED  BY <3>1, <3>2
  <2>. QED  BY <2>1, <2>10, <2>11 DEF Attached
<1>4. CASE Imported
  <2>1. /\ pos' = pos + 1 /\ phase \in {"context", "chunk"}
        /\ UNCHANGED <<setting, file, memoryFile, end, internal, attached>>
        /\ phase' = IF pos + 1 < end THEN phase
                    ELSE IF phase = "context" /\ ~IsClaude THEN "recap" ELSE "live"
    BY <1>4 DEF Imported
  <2>2. UNCHANGED <<posted, lost>> \/ \E event : Post(pos + 1, event)
    BY <1>4 DEF Imported
  <2>3. pos \in Nat /\ end \in Nat /\ pos < end /\ pos' \in Nat /\ pos + 1 \in 0..pos'
    BY <1>0, <2>1 DEF WatchInv
  <2>4. IsSeq(posted)' /\ (\A i \in DOMAIN posted : posted[i].line \in 0..pos)'
    <3>1. CASE UNCHANGED <<posted, lost>>
      BY <1>0, <2>1, <2>3, <3>1 DEF WatchInv, IsSeq
    <3>2. CASE \E event : Post(pos + 1, event)
      BY <1>0, <2>1, <2>3, <3>2, PostParts
    <3>. QED  BY <2>2, <3>1, <3>2
  <2>5. ~internal
    BY <1>0, <2>1 DEF WatchInv
  <2>6. CASE pos + 1 < end
    BY <1>0, <2>1, <2>3, <2>4, <2>5, <2>6 DEF WatchInv, Phases, setting, IsClaude
  <2>7. CASE ~(pos + 1 < end)
    <3>1. pos' = end
      BY <2>1, <2>3, <2>7
    <3>2. CASE phase = "context" /\ ~IsClaude
      BY <1>0, <2>1, <2>3, <2>4, <2>5, <2>7, <3>1, <3>2 DEF WatchInv, Phases, setting, IsClaude
    <3>3. CASE ~(phase = "context" /\ ~IsClaude)
      BY <1>0, <2>1, <2>3, <2>4, <2>5, <2>7, <3>1, <3>3 DEF WatchInv, Phases, setting, IsClaude
    <3>. QED  BY <3>2, <3>3
  <2>. QED  BY <2>6, <2>7
<1>5. CASE Synthesized
  <2>1. /\ UNCHANGED <<setting, file, memoryFile, known, pos, end, st, internal, attached>>
        /\ \/ phase = "recap" /\ phase' = "checkpoint"
           \/ phase = "checkpoint" /\ phase' = "live"
        /\ UNCHANGED <<posted, lost>> \/ \E event : Post(0, event)
    BY <1>5 DEF Synthesized, Recapped, Checkpointed
  <2>2. pos \in Nat /\ pos' = pos /\ 0 \in 0..pos'
    BY <1>0, <2>1 DEF WatchInv
  <2>3. IsSeq(posted)' /\ (\A i \in DOMAIN posted : posted[i].line \in 0..pos)'
    <3>1. CASE UNCHANGED <<posted, lost>>
      BY <1>0, <2>1, <3>1 DEF WatchInv, IsSeq
    <3>2. CASE \E event : Post(0, event)
      BY <1>0, <2>2, <3>2, PostParts
    <3>. QED  BY <2>1, <3>1, <3>2
  <2>. QED  BY <1>0, <2>1, <2>3 DEF WatchInv, Phases, setting, IsClaude
<1>6. CASE Polls
  <2>1. PICK ids : Polled(ids)
    BY <1>6 DEF Polls
  <2>2. /\ phase = "live" /\ end < Len(file) /\ end' = Len(file) /\ Len(file) \in Nat
        /\ UNCHANGED <<setting, file, memoryFile, st, attached, posted, lost>>
    BY <1>0, <2>1, FileParts DEF Polled
  <2>3. pos = end /\ attached <= end /\ end \in Nat /\ attached \in Nat
    BY <1>0, <2>2 DEF WatchInv
  <2>4. \A i \in DOMAIN posted : posted[i].line \in 0..Len(file)
    BY <1>0, <2>2, <2>3 DEF WatchInv
  <2>5. CASE pos' = Len(file) /\ phase' = "live"
    <3>1. internal' \in BOOLEAN /\ (internal' => ~IsClaude)
      BY <1>0, <2>1, <2>5 DEF Polled, WatchInv, IsConfirmed
    <3>. QED  BY <1>0, <2>2, <2>3, <2>4, <2>5, <3>1 DEF WatchInv, Phases, setting, IsClaude, IsSeq
  <2>6. CASE pos' = pos /\ phase' = "chunk" /\ ~internal /\ internal' = internal
    BY <1>0, <2>2, <2>3, <2>4, <2>6 DEF WatchInv, Phases, setting, IsClaude, IsSeq
  <2>. QED  BY <2>1, <2>5, <2>6 DEF Polled
<1>7. CASE Hooked
  <2>1. PICK event : posted' = Append(posted, [line |-> 0, event |-> event])
    BY <1>7 DEF Hooked
  <2>2. /\ owner = "hooks" /\ pos \in Nat /\ 0 \in 0..pos
        /\ UNCHANGED <<setting, file, memoryFile, known, phase, pos, end, st, internal, attached, lost>>
    BY <1>0, <1>7 DEF Hooked, WatchInv
  <2>3. Post(0, event)
    BY <2>1, <2>2 DEF Post
  <2>4. IsSeq(posted)' /\ (\A i \in DOMAIN posted : posted[i].line \in 0..pos)'
    BY <1>0, <2>2, <2>3, PostParts
  <2>. QED  BY <1>0, <2>2, <2>4 DEF WatchInv, Phases, setting, IsClaude
<1>. QED  BY <1>1, <1>2, <1>3, <1>4, <1>5, <1>6, <1>7

\* A refresh finds no session of a user.
LEMMA NothingKnown ==
    ASSUME KnownInv, owner = "user", NEW fresh
    PROVE  Refreshed(fresh) = {}
BY DEF KnownInv, Refreshed

\* Without a registry nothing is recorded.
LEMMA NothingRecorded ==
    ASSUME ~guarded, NEW chunk, NEW s
    PROVE  Recorded({}, chunk, s) = {}
BY DEF Recorded

\* The registry never learns the session of a user.
LEMMA KnownInvNext ==
    ASSUME ReadInv, [ImportNext]_importVars
    PROVE  KnownInv'
<1>0. WatchInv /\ FileInv /\ KnownInv /\ StateInv
  BY DEF ReadInv, BaseInv
<1>1. SUFFICES ASSUME owner' = "user"
               PROVE  memoryFile' = {} /\ known' = {} /\ (guarded' => ~internal')
  BY DEF KnownInv
<1>2. owner' = owner /\ guarded' = guarded
  <2>1. Writes \/ Stays \/ Attaches \/ Imported \/ Synthesized \/ Polls \/ Hooked
    BY ImportSteps
  <2>. QED  BY <2>1 DEF Writes, Write, Stays, Attaches, Attached, Imported, Synthesized, Polls, Polled,
                        Hooked, setting
<1>3. owner = "user" /\ memoryFile = {} /\ known = {} /\ (guarded => ~internal) /\ ~IsClaude
  BY <1>0, <1>1, <1>2 DEF KnownInv, IsClaude
<1>4. CASE AgentActs
  <2>1. PICK line : Write(line)
    BY <1>0, <1>4, AgentWrites DEF WatchInv
  <2>. QED  BY <1>2, <1>3, <2>1 DEF Write, watcher
<1>5. CASE SaveMemory
  BY <1>3, <1>5 DEF SaveMemory
<1>6. CASE SkipCodexFile
  <2>1. PICK fresh \in BOOLEAN :
           /\ IsInternal(Sample(file, GuardSample), FreshState, Refreshed(fresh))
           /\ known' = Recorded(Refreshed(fresh), file, FreshState)
    BY <1>6 DEF SkipCodexFile
  <2>2. file # <<>> /\ memoryFile' = memoryFile
    BY <1>6 DEF SkipCodexFile
  <2>3. Refreshed(fresh) = {}
    BY <1>0, <1>3, NothingKnown
  <2>4. PICK part : part = Sample(file, GuardSample)
    OBVIOUS
  <2>5. IsSeq(part) /\ AllWell(part)
    <3>1. IsSeq(part) /\ LinesOf(part, file)
      BY <1>0, <2>2, <2>4, FileParts, SampleParts, ImportAssumption DEF ImportAssumption
    <3>. QED  BY <1>0, <3>1, FileParts, WellPart
  <2>6. ~guarded
    BY <1>3, <2>1, <2>3, <2>4, <2>5, MineFresh, UserNotInternal
  <2>7. internal' = internal
    BY <1>6 DEF SkipCodexFile, watcher
  <2>. QED  BY <1>2, <1>3, <2>1, <2>2, <2>3, <2>6, <2>7, NothingRecorded
<1>7. CASE AttachCodex \/ AttachClaude
  <2>1. PICK ids, chunk, start : Attached(ids, chunk, start)
    BY <1>7, AttachShape DEF Attaches
  <2>2. ids = {}
    BY <1>0, <1>3, <2>1, NothingKnown DEF Attached
  <2>3. memoryFile' = memoryFile /\ internal' = internal
    BY <2>1 DEF Attached
  <2>4. CASE ~IsInternal(chunk, start, ids)
    BY <1>2, <1>3, <2>1, <2>2, <2>3, <2>4 DEF Attached
  <2>5. CASE IsInternal(chunk, start, ids)
    <3>1. IsSeq(chunk) /\ AllWell(chunk) /\ Mine(start)
      BY <1>3, <2>1, AttachedParts
    <3>2. ~guarded
      BY <1>3, <2>2, <2>5, <3>1, UserNotInternal
    <3>3. known' = Recorded(ids, chunk, start)
      BY <2>1, <2>5 DEF Attached
    <3>. QED  BY <1>2, <1>3, <2>2, <2>3, <3>2, <3>3, NothingRecorded
  <2>. QED  BY <2>4, <2>5
<1>8. CASE ImportCodexLine \/ ImportCodexContextLine \/ ImportClaudeLine \/ ImportClaudeContextLine
  <2>1. Imported
    BY <1>0, <1>8, ImportShape
  <2>2. known' = {}
    BY <1>0, <1>3, <2>1, NothingKnown DEF Imported
  <2>. QED  BY <1>2, <1>3, <2>1, <2>2 DEF Imported
<1>9. CASE Recap \/ Checkpoint \/ Hook \/ UNCHANGED importVars
  BY <1>2, <1>3, <1>9 DEF Recap, Checkpoint, Hook, importVars
<1>10. CASE PollCodex \/ PollClaude
  <2>1. PICK ids : Polled(ids)
    BY <1>0, <1>10, PollShape DEF Polls
  <2>2. ids = {}
    BY <1>0, <1>3, <2>1, NothingKnown DEF Polled
  <2>3. memoryFile' = memoryFile
    BY <2>1 DEF Polled
  <2>4. CASE ~internal /\ ~IsInternal(Chunk, st, ids)
    BY <1>2, <1>3, <2>1, <2>2, <2>3, <2>4 DEF Polled
  <2>5. CASE internal \/ IsInternal(Chunk, st, ids)
    <3>1. known' = Recorded(ids, Chunk, st)
      BY <1>3, <2>1, <2>5 DEF Polled
    <3>2. CASE ~guarded
      BY <1>2, <1>3, <2>2, <2>3, <3>1, <3>2, NothingRecorded
    <3>3. CASE guarded
      <4>1. IsSeq(Chunk) /\ AllWell(Chunk)
        BY <1>0, ChunkParts DEF WatchInv
      <4>2. ~IsInternal(Chunk, st, {})
        BY <1>0, <1>3, <3>3, <4>1, UserNotInternal DEF StateInv
      <4>. QED  BY <1>3, <2>2, <2>5, <3>3, <4>2
    <3>. QED  BY <3>2, <3>3
  <2>. QED  BY <2>4, <2>5
<1>. QED  BY <1>4, <1>5, <1>6, <1>7, <1>8, <1>9, <1>10 DEF ImportNext, AgentActs

\* Every step keeps the state of this session.
LEMMA StateInvNext ==
    ASSUME ReadInv, WatchInv',
           Writes \/ Stays \/ Attaches \/ Imported \/ Synthesized \/ Polls \/ Hooked
    PROVE  StateInv'
<1>0. WatchInv /\ FileInv /\ KnownInv /\ StateInv
  BY DEF ReadInv, BaseInv
<1>1. owner' = owner /\ guarded' = guarded /\ history' = history
  BY DEF Writes, Write, Stays, Attaches, Attached, Imported, Synthesized, Polls, Polled, Hooked, setting
<1>2. (IsClaude' <=> IsClaude) /\ (IsUser' <=> IsUser)
  BY <1>1 DEF IsClaude, IsUser
<1>3. \A s : (Mine(s)' <=> Mine(s)) /\ (Opened(s)' <=> Opened(s))
  BY <1>1, <1>2 DEF Mine, Opened, WorkDirs, OwnDir, IsUser
<1>4. CASE /\ st' = st /\ attached' = attached
           /\ phase # "off" /\ (~history \/ pos # 0) <=> phase' # "off" /\ (~history \/ pos' # 0)
  <2>1. Recognised' <=> Recognised
    BY <1>1, <1>4 DEF Recognised
  <2>2. st' = st
    BY <1>4
  <2>3. IF IsClaude' THEN IsState(st') ELSE Mine(st)'
    BY <1>0, <1>2, <1>3, <2>2 DEF StateInv
  <2>. QED  BY <1>0, <1>1, <1>2, <1>3, <1>4, <2>1 DEF StateInv
<1>5. CASE Writes \/ Stays \/ Synthesized \/ Hooked
  BY <1>4, <1>5 DEF Writes, Write, Stays, Synthesized, Hooked, watcher
<1>6. CASE Polls
  <2>1. PICK ids : Polled(ids)
    BY <1>6 DEF Polls
  <2>2. pos = end /\ attached <= end /\ attached >= 1 /\ attached \in Nat /\ end \in Nat /\ phase = "live"
    BY <1>0, <2>1 DEF WatchInv, Polled
  <2>3. pos' = pos \/ (pos' = Len(file) /\ end < Len(file) /\ Len(file) \in Nat)
    BY <1>0, <2>1, FileParts DEF Polled
  <2>4. pos # 0 /\ pos' # 0
    BY <2>2, <2>3
  <2>5. phase' # "off" /\ st' = st /\ attached' = attached
    BY <2>1 DEF Polled
  <2>. QED  BY <1>4, <2>2, <2>4, <2>5
<1>7. CASE Attaches
  <2>1. PICK ids, chunk, start : Attached(ids, chunk, start)
    BY <1>7 DEF Attaches
  <2>2. /\ IF IsClaude THEN IsState(start) ELSE Mine(start)
        /\ ~IsClaude /\ ~history => Opened(start)
        /\ IsSeq(chunk) /\ AllWell(chunk) /\ Len(chunk) \in Nat
        /\ history => Len(chunk) = Len(file)
    BY <2>1, AttachedParts
  <2>3. st' = start
    BY <2>1 DEF Attached
  <2>4. ASSUME ~IsClaude, history, Recognised', pos' # 0 PROVE FALSE
    <3>1. /\ chunk = file /\ start = FreshState /\ attached' = Len(file) /\ file # <<>>
          /\ ~IsInternal(Sample(file, GuardSample), FreshState, ids)
      BY <2>1, <2>4 DEF Attached
    <3>2. Len(file) \in Nat
      BY <1>0, FileParts
    <3>3. IsInternal(chunk, start, ids)
      BY <2>1, <2>2, <2>4, <3>2 DEF Attached
    <3>4. CASE attached' <= GuardSample
      <4>1. Sample(file, GuardSample) = file
        BY <3>1, <3>4 DEF Sample
      <4>. QED  BY <3>1, <3>3, <4>1
    <3>5. CASE owner = "user" /\ guarded
      <4>1. ids = {}
        BY <1>0, <2>1, <2>4, <3>5, NothingKnown DEF Attached
      <4>. QED  BY <2>2, <3>1, <3>3, <3>5, <4>1, MineFresh, UserNotInternal
    <3>. QED  BY <1>1, <2>4, <3>4, <3>5 DEF Recognised
  <2>5. IF IsClaude' THEN IsState(st') ELSE Mine(st)'
    BY <1>2, <1>3, <2>2, <2>3
  <2>6. ~IsClaude' /\ Recognised' /\ (~history' \/ pos' # 0) => Opened(st)'
    BY <1>1, <1>2, <1>3, <2>2, <2>3, <2>4
  <2>. QED  BY <2>5, <2>6 DEF StateInv
<1>8. CASE Imported
  <2>1. PICK order, out : /\ out = Adapt(st, file[pos + 1], order)
                          /\ st' = out.state /\ pos' = pos + 1
    BY <1>8 DEF Imported
  <2>2. phase \in {"context", "chunk"} /\ attached' = attached
    BY <1>8 DEF Imported
  <2>3. PICK line : line = file[pos + 1]
    OBVIOUS
  <2>4. pos \in Nat /\ pos + 1 \in 1..Len(file) /\ file # <<>>
    BY <1>0, <2>2, FileParts DEF WatchInv
  <2>5. WellFormed(line)
    BY <1>0, <2>3, <2>4, FileParts DEF AllWell
  <2>6. PICK s : s = out.state
    OBVIOUS
  <2>7. CASE IsClaude
    <3>1. out = NormalizeClaude(st, line)
      BY <2>1, <2>3, <2>7 DEF Adapt
    <3>2. line.type # "hook"
      BY <2>5, <2>7 DEF WellFormed, ClaudeTypes
    <3>3. IsState(s)
      BY <1>0, <2>6, <2>7, <3>1, <3>2, ClaudeLine DEF StateInv
    <3>4. st' = s
      BY <2>1, <2>6
    <3>. QED  BY <1>2, <2>7, <3>3, <3>4 DEF StateInv
  <2>8. CASE ~IsClaude
    <3>1. s = Normalize(st, line, order).state
      BY <2>1, <2>3, <2>6, <2>8 DEF Adapt
    <3>2. Mine(s) /\ (Opened(st) \/ line.type = "session_meta" => Opened(s))
      BY <1>0, <2>5, <2>8, <3>1, MineLine DEF StateInv
    <3>3. Recognised' => Recognised
      BY <1>1, <2>2 DEF Recognised
    <3>4. pos = 0 => line.type = "session_meta"
      <4>1. owner # "hooks" /\ Opens(file[1])
        BY <1>0, <2>4, FileParts DEF FileInv
      <4>. QED  BY <2>3, <2>8, <4>1 DEF Opens, IsClaude
    <3>5. Recognised' => Opened(s)
      BY <1>0, <2>2, <2>8, <3>2, <3>3, <3>4 DEF StateInv
    <3>6. st' = s
      BY <2>1, <2>6
    <3>. QED  BY <1>2, <1>3, <2>8, <3>2, <3>5, <3>6 DEF StateInv
  <2>. QED  BY <2>7, <2>8
<1>. QED  BY <1>5, <1>6, <1>7, <1>8

LEMMA ReadInvNext ==
    ASSUME ReadInv, [ImportNext]_importVars
    PROVE  ReadInv'
<1>1. Writes \/ Stays \/ Attaches \/ Imported \/ Synthesized \/ Polls \/ Hooked
  BY ImportSteps
<1>2. Writes \/ UNCHANGED <<owner, file>>
  BY <1>1 DEF Stays, Attaches, Attached, Imported, Synthesized, Polls, Polled, Hooked, setting
<1>3. FileInv'
  BY <1>2, FileInvNext
<1>4. WatchInv'
  BY <1>1, <1>3, WatchInvNext
<1>5. KnownInv'
  BY KnownInvNext
<1>6. StateInv'
  BY <1>1, <1>4, StateInvNext
<1>. QED  BY <1>3, <1>4, <1>5, <1>6 DEF ReadInv, BaseInv

\* The file is one its agent may write; where the watcher is in it; the registry
\* never holds the session of a user; and the state kept between the lines holds
\* this session, this agent's directories and its own calls, for any bounds on
\* what is sampled and replayed.
THEOREM ReadInvariant == ImportSpec => []ReadInv
<1>1. ImportInit => ReadInv
  BY ReadInvInit
<1>2. ReadInv /\ [ImportNext]_importVars => ReadInv'
  BY ReadInvNext
<1>. QED  BY <1>1, <1>2, PTL DEF ImportSpec

---------------------------------------------------------------------------
(* What has been written and posted stays.                                 *)

KeepsLines ==
    /\ Len(file) \in Nat /\ Len(file') \in Nat /\ Len(file) <= Len(file')
    /\ DOMAIN file = 1..Len(file) /\ DOMAIN file' = 1..Len(file')
    /\ \A i \in 1..Len(file) : file'[i] = file[i]

\* No step changes a line that was written.
LEMMA FileKeeps ==
    ASSUME FileInv, Writes \/ UNCHANGED <<owner, file>>
    PROVE  KeepsLines
<1>1. CASE Writes
  <2>1. PICK line : file' = Append(file, line)
    BY <1>1 DEF Writes, Write
  <2>2. /\ Len(file) \in Nat /\ Len(file') = Len(file) + 1
        /\ DOMAIN file = 1..Len(file) /\ DOMAIN file' = 1..Len(file) + 1
        /\ \A i \in 1..Len(file) : file'[i] = file[i]
    BY <2>1, Written
  <2>. QED  BY <2>2 DEF KeepsLines
<1>2. CASE UNCHANGED <<owner, file>>
  BY <1>2, FileParts DEF KeepsLines
<1>. QED  BY <1>1, <1>2

\* A step posts an event of some line, or none.
Posts(n, event) == UNCHANGED posted \/ posted' = Append(posted, [line |-> n, event |-> event])

\* What is in posted was there or is the event of this step.
LEMMA PostedIs ==
    ASSUME IsSeq(posted), NEW n, NEW event, Posts(n, event), NEW i \in DOMAIN posted'
    PROVE  \/ i \in DOMAIN posted /\ posted'[i] = posted[i]
           \/ posted'[i].line = n /\ posted'[i].event = event
<1>1. CASE UNCHANGED posted
  BY <1>1
<1>2. CASE posted' = Append(posted, [line |-> n, event |-> event])
  <2>1. PICK told : told = [line |-> n, event |-> event]
    OBVIOUS
  <2>2. PICK new : new = Append(posted, told)
    OBVIOUS
  <2>3. /\ IsSeq(new) /\ Len(new) = Len(posted) + 1
        /\ \A j \in 1..Len(posted) : new[j] = posted[j]
        /\ new[Len(posted) + 1] = told
    BY <2>2, Appended
  <2>4. DOMAIN posted = 1..Len(posted) /\ DOMAIN new = 1..Len(new) /\ Len(posted) \in Nat
    BY <2>3, SeqParts
  <2>5. posted' = new
    BY <1>2, <2>1, <2>2
  <2>6. told.line = n /\ told.event = event
    BY <2>1
  <2>7. i \in 1..Len(posted) \/ i = Len(posted) + 1
    BY <2>3, <2>4, <2>5
  <2>. QED  BY <1>2, <2>3, <2>4, <2>5, <2>6, <2>7
<1>. QED  BY <1>1, <1>2 DEF Posts

---------------------------------------------------------------------------
(* The context, read once more for the recap and the checkpoint.           *)

LEMMA PrefixParts ==
    ASSUME FileInv, attached \in Nat, attached <= Len(file), NEW lines, lines = SubSeq(file, 1, attached)
    PROVE  /\ IsSeq(lines) /\ Len(lines) = attached /\ AllWell(lines)
           /\ \A i \in 1..attached : lines[i] = file[i]
<1>1. IsSeq(file) /\ AllWell(file) /\ Len(file) \in Nat
  BY FileParts
<1>2. PICK S : file \in Seq(S)
  BY <1>1 DEF IsSeq
<1>3. \A i \in 1..attached : file[i] \in S
  BY <1>2
<1>4. /\ lines \in Seq(S) /\ Len(lines) = IF 1 <= attached THEN attached - 1 + 1 ELSE 0
      /\ \A i \in 1..attached - 1 + 1 : lines[i] = file[1 + i - 1]
  BY <1>3, SubSeqProperties
<1>5. Len(lines) = attached /\ \A i \in 1..attached : lines[i] = file[i]
  BY <1>4
<1>6. AllWell(lines)
  BY <1>1, <1>5 DEF AllWell
<1>. QED  BY <1>4, <1>5, <1>6 DEF IsSeq

\* The context is the end of the file at the attach.
LEMMA ContextParts ==
    ASSUME FileInv, attached \in Nat, attached <= Len(file)
    PROVE  /\ IsSeq(Context) /\ Len(Context) \in Nat /\ Len(Context) <= attached
           /\ AllWell(Context)
           /\ \A i \in 1..Len(Context) : Context[i] = file[attached - Len(Context) + i]
<1>1. PICK lines : lines = SubSeq(file, 1, attached)
  OBVIOUS
<1>2. /\ IsSeq(lines) /\ Len(lines) = attached /\ AllWell(lines)
      /\ \A i \in 1..attached : lines[i] = file[i]
  BY <1>1, PrefixParts
<1>3. PICK t : t = Suffix(lines, ContextTail)
  OBVIOUS
<1>4. ContextTail \in Nat
  BY ImportAssumption DEF ImportAssumption
<1>5. /\ IsSeq(t) /\ Len(t) = (IF attached > ContextTail THEN ContextTail ELSE attached)
      /\ \A i \in 1..Len(t) : t[i] = lines[attached - Len(t) + i]
      /\ LinesOf(t, lines)
  BY <1>2, <1>3, <1>4, SuffixParts
<1>6. Len(t) \in Nat /\ Len(t) <= attached /\ AllWell(t)
  BY <1>2, <1>4, <1>5, WellPart
<1>7. \A i \in 1..Len(t) : attached - Len(t) + i \in 1..attached
  BY <1>6
<1>8. \A i \in 1..Len(t) : t[i] = file[attached - Len(t) + i]
  BY <1>2, <1>5, <1>7
<1>9. Context = t
  BY <1>1, <1>3 DEF Context
<1>. QED  BY <1>5, <1>6, <1>8, <1>9

\* An event of the context is told of a line of it.
OfContext(e) ==
    /\ e.line \in attached - Len(Context) + 1..attached
    /\ e.line \in 1..Len(file)
    /\ WellFormed(file[e.line])
    /\ \E out : out.event = e.event /\ TellsLine(file[e.line], out)
    /\ e.event # NoEvent

\* An event of the context is what its line of the file tells.
LEMMA ContextTold ==
    ASSUME ReadInv, ~IsClaude, NEW s, Mine(s), NEW order, NEW since, since \in 1..Len(Context) + 1,
           NEW e, e \in ContextEvents(s, order, since)
    PROVE  OfContext(e)
<1>0. FileInv /\ attached \in Nat /\ attached <= Len(file)
  BY DEF ReadInv, BaseInv, WatchInv
<1>1. /\ IsSeq(Context) /\ Len(Context) \in Nat /\ Len(Context) <= attached
      /\ AllWell(Context)
      /\ \A i \in 1..Len(Context) : Context[i] = file[attached - Len(Context) + i]
  BY <1>0, ContextParts
<1>2. PICK lines : lines = Context
  OBVIOUS
<1>3. PICK f : f = States(s, lines, order)
  OBVIOUS
<1>4. Readable(lines)
  BY <1>1, <1>2 DEF AllWell, Readable
<1>5. MineUpTo(f, Len(lines))
  BY <1>1, <1>2, <1>3, <1>4, MineAlong
<1>6. PICK i \in since..Len(lines) :
         /\ e = [line |-> attached - Len(lines) + i, event |-> Replay(s, lines, order, i).event]
         /\ Replay(s, lines, order, i).event # NoEvent
  BY <1>2 DEF ContextEvents
<1>7. i \in 1..Len(lines) /\ i - 1 \in 0..Len(lines)
  BY <1>1, <1>2, <1>6
<1>8. PICK out : out = Replay(s, lines, order, i)
  OBVIOUS
<1>9. PICK u : u = f[i - 1] /\ out = Normalize(u, lines[i], order)
  BY <1>3, <1>8 DEF Replay
<1>10. IsState(u)
  BY <1>5, <1>7, <1>9 DEF MineUpTo, Mine
<1>11. TellsLine(lines[i], out)
  BY <1>9, <1>10, CodexLine DEF Follows
<1>12. e.line = attached - Len(lines) + i /\ e.event = out.event /\ out.event # NoEvent
  BY <1>6, <1>8
<1>13. /\ e.line \in attached - Len(lines) + 1..attached /\ e.line \in 1..Len(file)
       /\ lines[i] = file[e.line]
  <2>1. Len(file) \in Nat
    BY <1>0, FileParts
  <2>. QED  BY <1>0, <1>1, <1>2, <1>7, <1>12, <2>1
<1>14. WellFormed(file[e.line])
  BY <1>1, <1>2, <1>7, <1>13 DEF AllWell
<1>. QED  BY <1>2, <1>11, <1>12, <1>13, <1>14 DEF OfContext

\* An event has the parts of an event.
IsEvent(e) == \E s, kind, draft : e = BuildEvent(s, kind, draft)

LEMMA CodexEvent ==
    ASSUME NEW u, NEW line, NEW order, NEW out, out = Normalize(u, line, order)
    PROVE  out.event = NoEvent \/ IsEvent(out.event)
<1>1. PICK u1 : u1 = [u EXCEPT !.turn = Or(line.turn, @)]
  OBVIOUS
<1>2. \A s : Silent(s).event = NoEvent
  BY DEF Silent
<1>3. \A s, kind, draft : IsEvent(Tells(s, kind, draft).event)
  BY DEF Tells, IsEvent
<1>4. CASE line.type = "session_meta"
  BY <1>3, <1>4 DEF Normalize, SessionMeta
<1>5. CASE line.type = "turn_context"
  BY <1>2, <1>5 DEF Normalize, TurnContext
<1>6. CASE line.type = "task_started"
  BY <1>3, <1>6 DEF Normalize, TaskStarted
<1>7. CASE line.type = "task_complete"
  BY <1>3, <1>7 DEF Normalize, TaskComplete
<1>8. CASE line.type = "turn_aborted"
  BY <1>3, <1>8 DEF Normalize, TurnAborted
<1>9. CASE line.type = "plan_completed"
  BY <1>3, <1>9 DEF Normalize, PlanCompleted
<1>10. CASE line.type = "agent_message"
  <2>1. out = AgentMessage(u1, line)
    BY <1>1, <1>10 DEF Normalize
  <2>2. \E s, kind, draft : out = Silent(s) \/ out = Tells(s, kind, draft)
    BY <2>1 DEF AgentMessage
  <2>. QED  BY <1>2, <1>3, <2>2
<1>11. CASE line.type = "function_call"
  <2>1. out = ToolStarted(u1, line, order)
    BY <1>1, <1>11 DEF Normalize
  <2>2. \E s, kind, draft : out = Tells(s, kind, draft)
    BY <2>1 DEF ToolStarted
  <2>. QED  BY <1>3, <2>2
<1>12. CASE line.type = "exec_command_end"
  <2>1. out = CommandEnded(u1, line)
    BY <1>1, <1>12 DEF Normalize
  <2>2. \E s, kind, draft : out = Tells(s, kind, draft)
    BY <2>1 DEF CommandEnded
  <2>. QED  BY <1>3, <2>2
<1>13. CASE line.type = "patch_apply_end"
  <2>1. out = PatchEnded(u1, line)
    BY <1>1, <1>13 DEF Normalize
  <2>2. \E s, kind, draft : out = Tells(s, kind, draft)
    BY <2>1 DEF PatchEnded
  <2>. QED  BY <1>3, <2>2
<1>14. CASE line.type \notin {"session_meta", "turn_context", "task_started", "task_complete",
                "turn_aborted", "plan_completed", "agent_message", "function_call",
                "exec_command_end", "patch_apply_end"}
  BY <1>2, <1>14 DEF Normalize
<1>. QED  BY <1>4, <1>5, <1>6, <1>7, <1>8, <1>9, <1>10, <1>11, <1>12, <1>13, <1>14

LEMMA SyntheticParts ==
    ASSUME NEW event, IsEvent(event), NEW summary, NEW command, NEW e,
           e = Synthetic(event, summary, command)
    PROVE  e.summary = summary /\ e.command = command
<1>1. PICK s, kind, draft : event = BuildEvent(s, kind, draft)
  BY DEF IsEvent
<1>. QED  BY <1>1 DEF Synthetic, BuildEvent

LEMMA ContextIsEvent ==
    ASSUME NEW s, NEW order, NEW since, NEW e, e \in ContextEvents(s, order, since)
    PROVE  IsEvent(e.event)
<1>1. PICK i \in since..Len(Context) :
         /\ e = [line |-> attached - Len(Context) + i, event |-> Replay(s, Context, order, i).event]
         /\ Replay(s, Context, order, i).event # NoEvent
  BY DEF ContextEvents
<1>2. PICK out : out = Replay(s, Context, order, i)
  OBVIOUS
<1>3. out.event = NoEvent \/ IsEvent(out.event)
  BY <1>2, CodexEvent DEF Replay
<1>4. e.event = out.event
  BY <1>1, <1>2
<1>. QED  BY <1>1, <1>2, <1>3, <1>4

---------------------------------------------------------------------------
(* The checkpoint is about a running command.                              *)

RunsAtAttach(command) ==
    \E c \in Calls :
      /\ command = CallSpec[c].command
      /\ \E n \in CallStarts(c) : n <= attached
      /\ \A n \in CallEnds(c) : n > attached

\* What was running when the watcher attached stays so, whatever is written.
LEMMA RunsStays ==
    ASSUME ReadInv, KeepsLines, attached' = attached, NEW command, RunsAtAttach(command)
    PROVE  RunsAtAttach(command)'
<1>1. PICK c \in Calls : /\ command = CallSpec[c].command
                         /\ \E n \in CallStarts(c) : n <= attached
                         /\ \A n \in CallEnds(c) : n > attached
  BY DEF RunsAtAttach
<1>2. attached \in Nat /\ attached <= Len(file)
  BY DEF ReadInv, BaseInv, WatchInv
<1>3. PICK n \in CallStarts(c) : n <= attached
  BY <1>1
<1>4. n \in CallStarts(c)'
  BY <1>3 DEF KeepsLines, CallStarts, Lines
<1>5. ASSUME NEW m \in CallEnds(c)' PROVE m > attached
  <2>1. m \in 1..Len(file') /\ (m \in 1..Len(file) => m \in CallEnds(c))
    BY <1>5 DEF KeepsLines, CallEnds, Lines
  <2>2. CASE m \in 1..Len(file)
    BY <1>1, <2>1, <2>2
  <2>3. CASE m \notin 1..Len(file)
    BY <1>2, <2>1, <2>3 DEF KeepsLines
  <2>. QED  BY <2>2, <2>3
<1>. QED  BY <1>1, <1>3, <1>4, <1>5 DEF RunsAtAttach

\* The event of a checkpoint is told of a command that runs.
LEMMA OpenRuns ==
    ASSUME ReadInv, phase = "checkpoint", NEW order, NEW since \in 1..Len(Context) + 1,
           NEW e \in StillOpen(ContextEvents(st, order, since))
    PROVE  RunsAtAttach(e.event.command)
<1>0. /\ FileInv /\ ~IsClaude /\ Mine(st)
  BY DEF ReadInv, BaseInv, WatchInv, StateInv
<1>1. /\ e \in ContextEvents(st, order, since) /\ e.event.kind = "CommandExec"
      /\ ~EndedInContext(file[e.line].call)
  BY DEF StillOpen
<1>2. OfContext(e)
  BY <1>0, <1>1, ContextTold
<1>3. PICK line : line = file[e.line]
  OBVIOUS
<1>4. /\ e.line \in attached - Len(Context) + 1..attached /\ e.line \in 1..Len(file)
      /\ WellFormed(line)
      /\ line.type = "function_call" /\ line.tool = "exec_command" /\ e.event.command = line.command
  BY <1>1, <1>2, <1>3 DEF OfContext, TellsLine
<1>5. PICK c : c = line.call
  OBVIOUS
<1>6. c \in Calls /\ CallSpec[c].tool = "exec_command" /\ e.event.command = CallSpec[c].command
  BY <1>4, <1>5 DEF WellFormed, StartTypes
<1>7. /\ DOMAIN file = 1..Len(file) /\ Len(file) \in Nat
      /\ attached \in Nat /\ attached <= Len(file) /\ Len(Context) \in Nat /\ Len(Context) <= attached
  BY <1>0, FileParts, ContextParts DEF ReadInv, BaseInv, WatchInv
<1>8. e.line \in CallStarts(c) /\ e.line <= attached
  BY <1>3, <1>4, <1>5, <1>7 DEF CallStarts, Lines
<1>9. ASSUME NEW n \in CallEnds(c) PROVE n > attached
  <2>1. n \in 1..Len(file) /\ file[n].type \in EndTypes /\ file[n].call = c
    BY <1>7, <1>9 DEF CallEnds, Lines, EndTypes
  <2>2. e.line < n
    BY <1>0, <1>3, <1>4, <1>5, <1>7, <2>1 DEF FileInv, StartsFirst, StartTypes
  <2>3. WellFormed(file[n])
    BY <1>0, <2>1, FileParts DEF AllWell
  <2>4. file[n].type = "exec_command_end"
    BY <1>0, <1>6, <2>1, <2>3 DEF WellFormed, EndTypes, CodexTypes
  <2>5. n \notin attached - Len(Context) + 1..attached
    BY <1>1, <1>3, <1>5, <2>1, <2>4 DEF EndedInContext
  <2>. QED  BY <1>4, <1>7, <2>1, <2>2, <2>5
<1>. QED  BY <1>6, <1>8, <1>9 DEF RunsAtAttach

\* A command told without a line was running.
CheckRight(n, e) ==
    n = 0 /\ ~IsClaude /\ e.command # NoCommand => RunsAtAttach(e.command)
CheckpointInv == \A i \in DOMAIN posted : CheckRight(posted[i].line, posted[i].event)

\* Only a checkpoint posts a command without a line, and its command ran.
LEMMA CheckpointInvNext ==
    ASSUME ReadInv, CheckpointInv, [ImportNext]_importVars
    PROVE  CheckpointInv'
<1>0. FileInv /\ WatchInv /\ IsSeq(posted) /\ pos \in Nat
  BY DEF ReadInv, BaseInv, WatchInv
<1>1. Writes \/ Stays \/ Attaches \/ Imported \/ Synthesized \/ Polls \/ Hooked
  BY ImportSteps
<1>2. KeepsLines
  <2>1. Writes \/ UNCHANGED <<owner, file>>
    BY <1>1 DEF Stays, Attaches, Attached, Imported, Synthesized, Polls, Polled, Hooked, setting
  <2>. QED  BY <1>0, <2>1, FileKeeps
<1>3. IsClaude' <=> IsClaude
  <2>1. owner' = owner
    BY <1>1 DEF Writes, Write, Stays, Attaches, Attached, Imported, Synthesized, Polls, Polled, Hooked, setting
  <2>. QED  BY <2>1 DEF IsClaude
<1>4. ASSUME attached' = attached, NEW n, NEW event, Posts(n, event), CheckRight(n, event)
      PROVE  CheckpointInv'
  <2>1. ASSUME NEW m, NEW e, CheckRight(m, e) PROVE CheckRight(m, e)'
    <3>1. CASE m = 0 /\ ~IsClaude /\ e.command # NoCommand
      <4>1. PICK command : command = e.command
        OBVIOUS
      <4>2. RunsAtAttach(command)
        BY <2>1, <3>1, <4>1 DEF CheckRight
      <4>3. RunsAtAttach(command)'
        BY <1>2, <1>4, <4>2, RunsStays
      <4>. QED  BY <4>1, <4>3 DEF CheckRight
    <3>2. CASE ~(m = 0 /\ ~IsClaude /\ e.command # NoCommand)
      BY <1>3, <3>2 DEF CheckRight
    <3>. QED  BY <3>1, <3>2
  <2>2. ASSUME NEW i \in DOMAIN posted'
        PROVE  \E m, e : posted'[i].line = m /\ posted'[i].event = e /\ CheckRight(m, e)
    <3>1. CASE i \in DOMAIN posted /\ posted'[i] = posted[i]
      BY <3>1 DEF CheckpointInv
    <3>2. CASE posted'[i].line = n /\ posted'[i].event = event
      BY <1>4, <3>2
    <3>. QED  BY <1>0, <1>4, <3>1, <3>2, PostedIs
  <2>. QED  BY <2>1, <2>2 DEF CheckpointInv
<1>5. CASE Writes \/ Stays \/ Polls
  <2>1. attached' = attached /\ posted' = posted
    BY <1>5 DEF Writes, Write, Stays, Polls, Polled, watcher
  <2>2. Posts(1, NoEvent) /\ CheckRight(1, NoEvent)
    BY <2>1 DEF Posts, CheckRight
  <2>. QED  BY <1>4, <2>1, <2>2
<1>6. CASE Attaches
  <2>1. posted = <<>> /\ posted' = posted
    BY <1>0, <1>6 DEF Attaches, Attached, WatchInv, FileInv
  <2>2. DOMAIN posted' = {}
    BY <2>1
  <2>. QED  BY <2>2 DEF CheckpointInv
<1>7. CASE Imported
  <2>1. PICK event : attached' = attached /\ Posts(pos + 1, event)
    BY <1>7 DEF Imported, Post, Posts
  <2>2. CheckRight(pos + 1, event)
    BY <1>0 DEF CheckRight
  <2>. QED  BY <1>4, <2>1, <2>2
<1>8. CASE Hooked
  <2>1. PICK event : IsClaude /\ attached' = attached /\ Posts(0, event)
    BY <1>8 DEF Hooked, Posts, IsClaude
  <2>2. CheckRight(0, event)
    BY <2>1 DEF CheckRight
  <2>. QED  BY <1>4, <2>1, <2>2
<1>9. CASE Synthesized
  <2>1. attached' = attached
    BY <1>9 DEF Synthesized
  <2>2. CASE posted' = posted
    <3>1. Posts(1, NoEvent) /\ CheckRight(1, NoEvent)
      BY <2>2 DEF Posts, CheckRight
    <3>. QED  BY <1>4, <2>1, <3>1
  <2>3. CASE Recapped
    <3>1. PICK order \in CallOrders, since \in 1..Len(Context) + 1 :
            \E e \in ContextEvents(WarmCodexState(SubSeq(file, 1, attached)), order, since) :
              \E summary \in {e.event.summary, Filler("active")} :
                 Post(0, Synthetic(e.event, summary, NoCommand))
      BY <2>3 DEF Recapped
    <3>2. PICK e \in ContextEvents(WarmCodexState(SubSeq(file, 1, attached)), order, since) :
              \E summary : Post(0, Synthetic(e.event, summary, NoCommand))
      BY <3>1
    <3>3. PICK summary, event : Post(0, event) /\ event = Synthetic(e.event, summary, NoCommand)
      BY <3>2
    <3>4. event.command = NoCommand
      BY <3>2, <3>3, ContextIsEvent, SyntheticParts
    <3>5. Posts(0, event)
      BY <3>3 DEF Post, Posts
    <3>. QED  BY <1>4, <2>1, <3>4, <3>5 DEF CheckRight
  <2>4. CASE phase = "checkpoint" /\ Checkpointed
    <3>1. PICK order \in CallOrders, since \in 1..Len(Context) + 1 :
            \E e \in StillOpen(ContextEvents(st, order, since)) :
              Post(0, Synthetic(e.event, Filler("active"), e.event.command))
      BY <2>4 DEF Checkpointed
    <3>2. PICK e \in StillOpen(ContextEvents(st, order, since)) :
              Post(0, Synthetic(e.event, Filler("active"), e.event.command))
      BY <3>1
    <3>3. PICK event : Post(0, event) /\ event = Synthetic(e.event, Filler("active"), e.event.command)
      BY <3>2
    <3>4. RunsAtAttach(e.event.command)
      BY <2>4, <3>2, OpenRuns
    <3>5. e \in ContextEvents(st, order, since)
      BY <3>2 DEF StillOpen
    <3>6. IsEvent(e.event)
      BY <3>5, ContextIsEvent
    <3>7. event.command = e.event.command
      BY <3>3, <3>6, SyntheticParts
    <3>8. Posts(0, event)
      BY <3>3 DEF Post, Posts
    <3>. QED  BY <1>4, <2>1, <3>4, <3>7, <3>8 DEF CheckRight
  <2>. QED  BY <1>9, <2>2, <2>3, <2>4 DEF Synthesized
<1>. QED  BY <1>1, <1>5, <1>6, <1>7, <1>8, <1>9

\* For any length of the tail replayed, the command an attach reports as active had
\* been started and had not ended when the watcher attached.
THEOREM CheckpointIsAlwaysRunning == ImportSpec => []CheckpointIsRunning
<1>1. ImportInit => CheckpointInv
  BY DEF ImportInit, CheckpointInv
<1>2. ReadInv /\ CheckpointInv /\ [ImportNext]_importVars => CheckpointInv'
  BY CheckpointInvNext
<1>3. CheckpointInv => CheckpointIsRunning
  BY DEF CheckpointInv, CheckRight, CheckpointIsRunning, RunsAtAttach
<1>. QED  BY <1>1, <1>2, <1>3, ReadInvariant, PTL DEF ImportSpec

---------------------------------------------------------------------------
(* A processor's answers stay private.                                     *)

\* A processor calls no tools.
LEMMA NoWork ==
    ASSUME ~IsUser, NEW chunk, IsSeq(chunk), AllWell(chunk)
    PROVE  ~Worked(chunk)
<1>1. \A i \in DOMAIN chunk : chunk[i].type \notin StartTypes \cup EndTypes
  BY SeqParts DEF AllWell, WellFormed
<1>. QED  BY <1>1 DEF Worked, HasExternalActivity, StartTypes, EndTypes

\* The first line of its file gives the default processor away, with the registry
\* and without, and so does the prompt of a claude processor.
LEMMA ProcessorSeen ==
    ASSUME owner \in {"memory", "claude_processor"}, IsClaude => ~guarded,
           NEW chunk, IsSeq(chunk), AllWell(chunk), Len(chunk) >= 1, Opens(chunk[1]), NEW ids
    PROVE  IsInternal(chunk, FreshState, ids)
<1>0. FreshState.active = Absent /\ FreshState.cwd = Absent
  BY DEF FreshState
<1>1. CASE owner = "memory"
  <2>1. chunk[1].type = "session_meta" /\ chunk[1].cwd = DefaultDir
    BY <1>1 DEF Opens, OwnDir
  <2>2. DefaultDir # Absent
    BY ImportAssumption DEF ImportAssumption
  <2>3. Signals(chunk, FreshState).cwd = DefaultDir
    BY <1>0, <2>1, <2>2, SignalCwd
  <2>. QED  BY <2>3 DEF IsInternal
<1>2. CASE owner = "claude_processor"
  <2>1. ~IsUser /\ IsClaude /\ ~guarded
    BY <1>2 DEF IsUser, IsClaude
  <2>2. chunk[1].type = "internal_prompt" /\ 1 \in DOMAIN chunk
    BY <1>2, SeqParts DEF Opens
  <2>3. Signals(chunk, FreshState).prompted
    BY <2>1, <2>2, NoWork, SignalPrompt DEF Prompted
  <2>. QED  BY <2>1, <2>3 DEF IsInternal
<1>. QED  BY <1>1, <1>2

\* A configured processor is given away by its prompt.
LEMMA CustomSeen ==
    ASSUME owner = "custom", guarded, NEW chunk, IsSeq(chunk), AllWell(chunk), NEW s, Mine(s),
           Opened(s) \/ (s = FreshState /\ Len(chunk) >= 1 /\ Opens(chunk[1])), NEW ids
    PROVE  IsConfirmed(chunk, s, ids) /\ (~IsInternal(chunk, s, ids) => ~Prompted(chunk))
<1>1. ~IsUser /\ ~IsClaude /\ OwnDir = CustomDir
  BY DEF IsUser, IsClaude, OwnDir
<1>2. CustomDir # Absent
  BY ImportAssumption DEF ImportAssumption
<1>3. Signals(chunk, s).cwd = CustomDir
  <2>1. CASE Opened(s)
    <3>1. s.cwd = CustomDir
      BY <1>1, <2>1 DEF Opened
    <3>2. s.active \in {Absent, CustomDir}
      BY <1>1 DEF Mine, WorkDirs
    <3>. QED  BY <1>2, <3>1, <3>2, SignalCwd
  <2>2. CASE s = FreshState /\ Len(chunk) >= 1 /\ Opens(chunk[1])
    <3>1. s.active = Absent /\ s.cwd = Absent
      BY <2>2 DEF FreshState
    <3>2. chunk[1].type = "session_meta" /\ chunk[1].cwd = CustomDir
      BY <1>1, <2>2 DEF Opens
    <3>. QED  BY <1>2, <2>2, <3>1, <3>2, SignalCwd
  <2>. QED  BY <2>1, <2>2
<1>4. IsConfirmed(chunk, s, ids)
  BY <1>3 DEF IsConfirmed
<1>5. ~IsInternal(chunk, s, ids) => ~Signals(chunk, s).prompted
  BY <1>1, <1>3 DEF IsInternal
<1>. QED  BY <1>1, <1>4, <1>5, NoWork, SignalPrompt

Unprompted(n) == \A i \in 1..n : file[i].type # "internal_prompt"
KeptPrivate == \A i \in DOMAIN posted : posted[i].event.summary # Reply

\* A processor in the default directory, or claude's, is never watched.  Of one with a
\* directory of its own either the prompt was not read, and there is no answer yet; or
\* the flag is set; or the attach skipped it and the next poll will set the flag.
Skipped == phase = "live" /\ ~history /\ Session \in known
PrivateInv ==
    /\ owner \in {"memory", "claude_processor"} => phase = "off"
    /\ owner = "custom" /\ ReadToBeRecognised =>
          (phase # "off" => internal \/ Unprompted(end) \/ Skipped) /\ KeptPrivate

\* Before the prompt there is no answer.
LEMMA NoAnswer ==
    ASSUME FileInv, owner = "custom", NEW m, Unprompted(m), NEW n \in 1..Len(file), m \in Nat, n <= m,
           NEW out, TellsLine(file[n], out), out.event # NoEvent
    PROVE  out.event.summary # Reply
<1>1. ~IsUser /\ ~IsClaude
  BY DEF IsUser, IsClaude
<1>2. DOMAIN file = 1..Len(file) /\ Len(file) \in Nat
  BY FileParts
<1>3. file[n].text # Reply
  BY <1>1, <1>2 DEF FileInv, AskedFirst, Unprompted
<1>4. Reply.form = "summary"
  BY ImportAssumption DEF ImportAssumption
<1>. QED  BY <1>3, <1>4 DEF TellsLine

LEMMA KeptPrivateNext ==
    ASSUME IsSeq(posted), KeptPrivate, NEW n, NEW event, Posts(n, event), event.summary # Reply
    PROVE  KeptPrivate'
<1>1. SUFFICES ASSUME NEW i \in DOMAIN posted' PROVE posted'[i].event.summary # Reply
  BY DEF KeptPrivate
<1>2. CASE i \in DOMAIN posted /\ posted'[i] = posted[i]
  BY <1>2 DEF KeptPrivate
<1>3. CASE posted'[i].event = event
  BY <1>3
<1>4. (i \in DOMAIN posted /\ posted'[i] = posted[i]) \/ posted'[i].event = event
  BY PostedIs
<1>. QED  BY <1>2, <1>3, <1>4

\* A processor's chunk is skipped at the attach and in every poll, also when its
\* prompt was read before.
LEMMA PrivateInvNext ==
    ASSUME ReadInv, PrivateInv, [ImportNext]_importVars
    PROVE  PrivateInv'
<1>0. FileInv /\ WatchInv /\ IsSeq(posted) /\ Len(file) \in Nat
  BY FileParts DEF ReadInv, BaseInv, WatchInv
<1>1. Writes \/ Stays \/ Attaches \/ Imported \/ Synthesized \/ Polls \/ Hooked
  BY ImportSteps
<1>2. KeepsLines
  <2>1. Writes \/ UNCHANGED <<owner, file>>
    BY <1>1 DEF Stays, Attaches, Attached, Imported, Synthesized, Polls, Polled, Hooked, setting
  <2>. QED  BY <1>0, <2>1, FileKeeps
<1>3. owner' = owner /\ guarded' = guarded /\ history' = history
  BY <1>1 DEF Writes, Write, Stays, Attaches, Attached, Imported, Synthesized, Polls, Polled, Hooked, setting
<1>4. owner \in {"memory", "claude_processor"} => phase' = "off"
  <2>1. SUFFICES ASSUME owner \in {"memory", "claude_processor"} PROVE phase' = "off"
    OBVIOUS
  <2>2. phase = "off"
    BY <2>1 DEF PrivateInv
  <2>3. ~Attaches
    <3>1. SUFFICES ASSUME Attaches PROVE FALSE
      OBVIOUS
    <3>2. PICK ids, chunk, start : Attached(ids, chunk, start)
      BY <3>1 DEF Attaches
    <3>3. PICK part : part = Sample(file, GuardSample)
      OBVIOUS
    <3>4. file # <<>> /\ ~IsInternal(part, FreshState, ids)
      BY <3>2, <3>3 DEF Attached
    <3>5. IsSeq(part) /\ Len(part) >= 1 /\ part[1] = file[1] /\ LinesOf(part, file)
      BY <1>0, <3>3, <3>4, FileParts, SampleParts, ImportAssumption DEF ImportAssumption
    <3>6. AllWell(part) /\ Opens(part[1])
      BY <1>0, <3>4, <3>5, FileParts, WellPart
    <3>. QED  BY <1>0, <2>1, <3>4, <3>5, <3>6, ProcessorSeen DEF WatchInv
  <2>. QED  BY <1>1, <2>2, <2>3
            DEF Writes, Write, Stays, Imported, Synthesized, Polls, Polled, Hooked, watcher
<1>5. ASSUME owner = "custom", ReadToBeRecognised'
      PROVE  (phase' # "off" => internal' \/ Unprompted(end)' \/ Skipped') /\ KeptPrivate'
  <2>0. ~IsClaude /\ guarded /\ owner # "hooks" /\ GuardSample \in Nat
    BY <1>0, <1>5, ImportAssumption DEF IsClaude, WatchInv, ImportAssumption
  <2>1. end \in Nat /\ end <= Len(file) /\ attached \in Nat /\ attached <= end /\ pos \in Nat
    BY <1>0 DEF WatchInv
  <2>2. \A n : n \in 1..Len(file) => file'[n] = file[n]
    BY <1>2 DEF KeepsLines
  <2>3. ASSUME end' = end, Unprompted(end) PROVE Unprompted(end)'
    BY <2>1, <2>2, <2>3 DEF Unprompted
  <2>r. ASSUME attached' = attached PROVE ReadToBeRecognised
    BY <1>3, <1>5, <2>r DEF ReadToBeRecognised
  <2>4. CASE Writes \/ Stays
    <3>1. end' = end /\ attached' = attached /\ phase' = phase /\ internal' = internal /\ posted' = posted
      BY <2>4 DEF Writes, Write, Stays, watcher
    <3>2. (phase # "off" => internal \/ Unprompted(end) \/ Skipped) /\ KeptPrivate
      BY <1>5, <2>r, <3>1 DEF PrivateInv
    <3>3. phase # "off" => known' = known
      BY <2>4 DEF Writes, Write, Stays
    <3>4. Skipped => Skipped'
      BY <1>3, <3>1, <3>3 DEF Skipped
    <3>. QED  BY <2>3, <3>1, <3>2, <3>4 DEF KeptPrivate
  <2>5. CASE Attaches
    <3>1. PICK ids, chunk, start : Attached(ids, chunk, start)
      BY <2>5 DEF Attaches
    <3>2. /\ file # <<>> /\ ~IsInternal(Sample(file, GuardSample), FreshState, ids)
          /\ attached' = Len(file) /\ end' = Len(file) /\ file' = file /\ posted' = posted /\ posted = <<>>
      BY <1>0, <2>0, <3>1 DEF Attached, WatchInv
    <3>3. KeptPrivate'
      BY <3>2 DEF KeptPrivate
    <3>4. IsSeq(file) /\ AllWell(file) /\ Opens(file[1]) /\ Len(file) >= 1 /\ DOMAIN file = 1..Len(file)
      BY <1>0, <3>2, FileParts
    <3>5. CASE Len(file) <= GuardSample
      <4>1. Sample(file, GuardSample) = file
        BY <3>5 DEF Sample
      <4>2. ~Prompted(file)
        BY <1>5, <2>0, <3>2, <3>4, <4>1, MineFresh, CustomSeen
      <4>3. Unprompted(end)'
        BY <3>2, <3>4, <4>2 DEF Unprompted, Prompted
      <4>. QED  BY <3>3, <4>3
    <3>6. CASE ~history /\ Len(file) <= ContextTail
      <4>1. /\ IsSeq(chunk) /\ Len(chunk) = Len(file) /\ AllWell(chunk) /\ Mine(start) /\ Opened(start)
            /\ \A i \in 1..Len(chunk) : chunk[i] = file[Len(file) - Len(chunk) + i]
        BY <2>0, <3>1, <3>6, AttachedParts
      <4>2. CASE IsInternal(chunk, start, ids)
        <5>1. phase' = "live" /\ known' = Recorded(ids, chunk, start)
          BY <3>1, <4>2 DEF Attached
        <5>2. Session # Absent
          BY ImportAssumption DEF ImportAssumption
        <5>3. Signals(chunk, start).session = Session
          BY <4>1, <5>2, SignalSession DEF Opened
        <5>4. Session \in known'
          BY <2>0, <5>1, <5>2, <5>3 DEF Recorded
        <5>. QED  BY <1>3, <3>3, <3>6, <5>1, <5>4 DEF Skipped
      <4>3. CASE ~IsInternal(chunk, start, ids)
        <5>1. ~Prompted(chunk)
          BY <1>5, <2>0, <4>1, <4>3, CustomSeen
        <5>2. ASSUME NEW i \in 1..Len(file) PROVE file[i].type # "internal_prompt"
          <6>1. i \in DOMAIN chunk /\ chunk[i] = file[i]
            BY <1>0, <4>1, SeqParts
          <6>. QED  BY <5>1, <6>1 DEF Prompted
        <5>3. Unprompted(end)'
          BY <3>2, <5>2 DEF Unprompted
        <5>. QED  BY <3>3, <5>3
      <4>. QED  BY <4>2, <4>3
    <3>7. Len(file) <= GuardSample \/ (~history /\ Len(file) <= ContextTail)
      BY <1>3, <1>5, <3>2 DEF ReadToBeRecognised
    <3>. QED  BY <3>5, <3>6, <3>7
  <2>6. CASE Imported
    <3>1. PICK order, out : /\ out = Adapt(st, file[pos + 1], order)
                            /\ posted' = posted \/ (out.event # NoEvent /\ Post(pos + 1, out.event))
      BY <2>6 DEF Imported
    <3>2. /\ end' = end /\ attached' = attached /\ internal' = internal
          /\ phase \in {"context", "chunk"} /\ phase' \in {phase, "recap", "live"}
      BY <2>6 DEF Imported
    <3>3. ~internal /\ pos + 1 \in 1..Len(file) /\ pos + 1 <= end
      BY <1>0, <2>1, <3>2 DEF WatchInv
    <3>4. Unprompted(end) /\ KeptPrivate
      BY <1>5, <2>r, <3>2, <3>3 DEF PrivateInv, Skipped
    <3>5. PICK line : line = file[pos + 1]
      OBVIOUS
    <3>6. Mine(st)
      BY <2>0 DEF ReadInv, StateInv
    <3>7. TellsLine(line, out)
      BY <2>0, <3>1, <3>5, <3>6, CodexLine DEF Adapt, Mine, Follows
    <3>8. CASE posted' = posted
      BY <2>3, <3>2, <3>4, <3>8 DEF KeptPrivate
    <3>9. CASE out.event # NoEvent /\ Post(pos + 1, out.event)
      <4>1. PICK event : event = out.event /\ Posts(pos + 1, event)
        BY <3>9 DEF Post, Posts
      <4>2. event.summary # Reply
        BY <1>0, <1>5, <2>1, <3>3, <3>4, <3>5, <3>7, <3>9, <4>1, NoAnswer
      <4>3. KeptPrivate'
        BY <1>0, <3>4, <4>1, <4>2, KeptPrivateNext
      <4>. QED  BY <2>3, <3>2, <3>4, <4>3
    <3>. QED  BY <3>1, <3>8, <3>9
  <2>7. CASE Synthesized
    <3>1. /\ end' = end /\ attached' = attached /\ internal' = internal
          /\ phase \in {"recap", "checkpoint"}
      BY <2>7 DEF Synthesized
    <3>2. Unprompted(end) /\ KeptPrivate
      BY <1>0, <1>5, <2>r, <3>1 DEF WatchInv, PrivateInv, Skipped
    <3>3. Reply.form = "summary" /\ Filler("active").form = "plain"
      BY ImportAssumption, FillerForm DEF ImportAssumption
    <3>4. ASSUME NEW e, OfContext(e) PROVE e.event.summary # Reply
      <4>1. PICK out : out.event = e.event /\ TellsLine(file[e.line], out) /\ e.event # NoEvent
        BY <3>4 DEF OfContext
      <4>2. e.line \in 1..Len(file) /\ e.line <= attached
        BY <1>0, <2>1, <3>4, ContextParts DEF OfContext
      <4>. QED  BY <1>0, <1>5, <2>1, <3>2, <4>1, <4>2, NoAnswer
    <3>5. ASSUME NEW e, OfContext(e), IsEvent(e.event), NEW summary, NEW command,
                 summary \in {e.event.summary, Filler("active")},
                 NEW event, event = Synthetic(e.event, summary, command), Post(0, event)
          PROVE  KeptPrivate'
      <4>1. event.summary # Reply
        BY <3>3, <3>4, <3>5, SyntheticParts
      <4>2. Posts(0, event)
        BY <3>5 DEF Post, Posts
      <4>. QED  BY <1>0, <3>2, <4>1, <4>2, KeptPrivateNext
    <3>6. CASE posted' = posted
      BY <2>3, <3>1, <3>2, <3>6 DEF KeptPrivate
    <3>7. CASE Recapped
      <4>1. PICK s : s = WarmCodexState(SubSeq(file, 1, attached))
        OBVIOUS
      <4>2. PICK order \in CallOrders, since \in 1..Len(Context) + 1 :
              \E e \in ContextEvents(s, order, since) :
                \E summary \in {e.event.summary, Filler("active")} :
                  Post(0, Synthetic(e.event, summary, NoCommand))
        BY <3>7, <4>1 DEF Recapped
      <4>3. PICK e \in ContextEvents(s, order, since) :
                \E summary \in {e.event.summary, Filler("active")} :
                  Post(0, Synthetic(e.event, summary, NoCommand))
        BY <4>2
      <4>4. PICK summary \in {e.event.summary, Filler("active")} :
                  Post(0, Synthetic(e.event, summary, NoCommand))
        BY <4>3
      <4>5. Mine(s)
        <5>1. PICK lines : lines = SubSeq(file, 1, attached)
          OBVIOUS
        <5>2. attached >= 1 /\ attached <= Len(file)
          BY <1>0, <3>1 DEF WatchInv
        <5>3. /\ IsSeq(lines) /\ Len(lines) = attached /\ AllWell(lines)
              /\ \A i \in 1..attached : lines[i] = file[i]
          BY <1>0, <2>1, <5>1, <5>2, PrefixParts
        <5>4. lines # <<>> /\ lines[1] = file[1] /\ file # <<>>
          BY <1>0, <2>1, <5>2, <5>3, SeqParts, FileParts
        <5>5. lines[1].type = "session_meta"
          BY <1>0, <1>5, <5>4, FileParts DEF Opens
        <5>. QED  BY <2>0, <4>1, <5>1, <5>3, <5>4, <5>5, WarmCodex
      <4>6. OfContext(e) /\ IsEvent(e.event)
        BY <2>0, <4>5, ContextTold, ContextIsEvent
      <4>7. PICK event : event = Synthetic(e.event, summary, NoCommand) /\ Post(0, event)
        BY <4>4
      <4>e. event.summary # Reply
        <5>1. event.summary = summary
          BY <4>6, <4>7, SyntheticParts
        <5>. QED  BY <3>3, <3>4, <4>4, <4>6, <5>1
      <4>p. Posts(0, event)
        BY <4>7 DEF Post, Posts
      <4>8. KeptPrivate'
        BY <1>0, <3>2, <4>e, <4>p, KeptPrivateNext
      <4>. QED  BY <2>3, <3>1, <3>2, <4>8
    <3>8. CASE Checkpointed
      <4>1. PICK order \in CallOrders, since \in 1..Len(Context) + 1 :
              \E e \in StillOpen(ContextEvents(st, order, since)) :
                Post(0, Synthetic(e.event, Filler("active"), e.event.command))
        BY <3>8 DEF Checkpointed
      <4>2. PICK e \in ContextEvents(st, order, since) :
                Post(0, Synthetic(e.event, Filler("active"), e.event.command))
        BY <4>1 DEF StillOpen
      <4>3. Mine(st)
        BY <2>0 DEF ReadInv, StateInv
      <4>4. OfContext(e) /\ IsEvent(e.event)
        BY <2>0, <4>3, ContextTold, ContextIsEvent
      <4>5. KeptPrivate'
        BY <3>5, <4>2, <4>4
      <4>. QED  BY <2>3, <3>1, <3>2, <4>5
    <3>. QED  BY <2>7, <3>6, <3>7, <3>8 DEF Synthesized
  <2>8. CASE Polls
    <3>1. PICK ids : Polled(ids)
      BY <2>8 DEF Polls
    <3>2. /\ phase = "live" /\ end' = Len(file) /\ attached' = attached /\ posted' = posted
          /\ st' = st /\ pos = end /\ file' = file
      BY <1>0, <3>1 DEF Polled, WatchInv
    <3>3. KeptPrivate' /\ (internal \/ Unprompted(end) \/ Skipped)
      BY <1>5, <2>r, <3>2 DEF PrivateInv, KeptPrivate
    <3>4. Mine(st) /\ Opened(st)
      <4>1. pos # 0 /\ Recognised
        BY <1>0, <1>5, <2>1, <2>r, <3>2 DEF WatchInv, Recognised, ReadToBeRecognised
      <4>. QED  BY <2>0, <3>2, <4>1 DEF ReadInv, StateInv
    <3>5. /\ IsSeq(Chunk) /\ AllWell(Chunk) /\ Len(Chunk) = Len(file) - end
          /\ \A i \in 1..Len(Chunk) : Chunk[i] = file[end + i]
      BY <1>0, <2>1, ChunkParts
    <3>6. IsConfirmed(Chunk, st, ids) /\ (~IsInternal(Chunk, st, ids) => ~Prompted(Chunk))
      BY <1>5, <2>0, <3>4, <3>5, CustomSeen
    <3>9. Skipped => IsInternal(Chunk, st, ids)
      <4>1. SUFFICES ASSUME Skipped PROVE IsInternal(Chunk, st, ids)
        OBVIOUS
      <4>2. Session \in ids
        BY <2>0, <3>1, <4>1 DEF Polled, Refreshed, Skipped
      <4>3. Session # Absent
        BY ImportAssumption DEF ImportAssumption
      <4>4. Signals(Chunk, st).session = Session
        BY <3>4, <3>5, <4>3, SignalSession DEF Opened
      <4>. QED  BY <2>0, <4>2, <4>4 DEF IsInternal
    <3>7. CASE internal \/ IsInternal(Chunk, st, ids)
      <4>1. internal' = TRUE
        <5>1. internal' = (internal \/ IsConfirmed(Chunk, st, ids))
          BY <2>0, <3>1, <3>7 DEF Polled
        <5>. QED  BY <3>6, <5>1
      <4>. QED  BY <3>3, <4>1
    <3>8. CASE ~internal /\ ~IsInternal(Chunk, st, ids)
      <4>1. \A i \in 1..Len(Chunk) : Chunk[i].type # "internal_prompt"
        BY <3>5, <3>6, <3>8, SeqParts DEF Prompted
      <4>2. \A i \in 1..Len(file) : i \in 1..end \/ i - end \in 1..Len(Chunk)
        BY <1>0, <2>1, <3>5
      <4>3. ASSUME NEW i \in 1..Len(file) PROVE file[i].type # "internal_prompt"
        <5>1. CASE i \in 1..end
          BY <3>3, <3>8, <3>9, <5>1 DEF Unprompted
        <5>2. CASE i - end \in 1..Len(Chunk)
          <6>1. Chunk[i - end] = file[end + (i - end)] /\ end + (i - end) = i
            BY <1>0, <2>1, <3>5, <5>2
          <6>. QED  BY <4>1, <5>2, <6>1
        <5>. QED  BY <4>2, <5>1, <5>2
      <4>. QED  BY <3>2, <3>3, <4>3 DEF Unprompted
    <3>. QED  BY <3>7, <3>8
  <2>9. CASE Hooked
    BY <2>0, <2>9 DEF Hooked
  <2>. QED  BY <1>1, <2>4, <2>5, <2>6, <2>7, <2>8, <2>9
<1>. QED  BY <1>3, <1>4, <1>5 DEF PrivateInv

\* For any answer, any bounds and any moment at which the watcher attaches or the
\* registry learns of the session: what the summary processor says is not told as
\* an event of a coding session.  (A processor with a directory of its own: when it
\* was met while all of its file was sampled or, without history, replayed.)
THEOREM AnswersAlwaysPrivate == ImportSpec => []AnswersStayPrivate
<1>1. ImportInit => PrivateInv
  BY DEF ImportInit, PrivateInv, KeptPrivate
<1>2. ReadInv /\ PrivateInv /\ [ImportNext]_importVars => PrivateInv'
  BY PrivateInvNext
<1>3. ReadInv /\ PrivateInv => AnswersStayPrivate
  <2>1. SUFFICES ASSUME ReadInv, PrivateInv, owner \in {"memory", "custom", "claude_processor"},
                        ReadToBeRecognised
                 PROVE  \A i \in DOMAIN posted : posted[i].event.summary # Reply
    BY DEF AnswersStayPrivate
  <2>2. CASE owner = "custom"
    BY <2>1, <2>2 DEF PrivateInv, KeptPrivate, ReadToBeRecognised
  <2>3. CASE owner # "custom"
    <3>1. posted = <<>>
      BY <2>1, <2>3 DEF PrivateInv, ReadInv, BaseInv, WatchInv
    <3>. QED  BY <3>1
  <2>. QED  BY <2>2, <2>3
<1>. QED  BY <1>1, <1>2, <1>3, ReadInvariant, PTL DEF ImportSpec

---------------------------------------------------------------------------
(* A result names its own call.                                            *)

NamesCall(line, e) ==
    /\ e.tool \in {Absent, CallSpec[line.call].tool}
    /\ e.command \in {NoCommand, CallSpec[line.call].command}
    /\ IsClaude => e.command = CallSpec[line.call].command
    /\ e.kind \in {"TestPass", "TestFail"} => CallSpec[line.call].command.test

\* A result is told as ResultsNameTheirCall has it.
ResultRight(n, e) ==
    n \in Lines({"exec_command_end", "tool_result"}) /\ (IsClaude => OneAtATime(n)) =>
       NamesCall(file[n], e)

\* While calls do not overlap the claude adapter keeps the last one read.
LastInv ==
    owner = "claude" /\ phase # "off" =>
      \A j \in Lines({"tool_use"}) :
         WasRead(j) /\ j <= pos /\ (\A k \in Lines({"tool_use"}) : ~(j < k /\ k <= pos)) =>
            st.last = Use(file[j])

ResultsInv ==
    /\ \A i \in DOMAIN posted : ResultRight(posted[i].line, posted[i].event)
    /\ LastInv

\* A codex result names its own call or none.
LEMMA CodexResult ==
    ASSUME ~IsClaude, NEW u, Mine(u), NEW line, WellFormed(line), line.type = "exec_command_end",
           NEW order, NEW e, e = Normalize(u, line, order).event
    PROVE  NamesCall(line, e)
<1>1. TellsEnd(u.calls, line, e)
  BY EndTells DEF Mine
<1>2. PICK c : c = line.call
  OBVIOUS
<1>3. c \in Calls /\ line.command \in {NoCommand, CallSpec[c].command}
  BY <1>2 DEF WellFormed, EndTypes
<1>4. PICK context : context = IF c \in DOMAIN u.calls THEN u.calls[c] ELSE NoContext
  OBVIOUS
<1>5. /\ context.tool \in {Absent, CallSpec[c].tool}
      /\ context.command \in {NoCommand, CallSpec[c].command}
  <2>1. CASE c \in DOMAIN u.calls
    <3>1. PICK d : d = Draft(CallSpec[c].cwd, NoText, CallSpec[c].tool, CallSpec[c].command)
      OBVIOUS
    <3>2. context = d
      BY <1>4, <2>1, <3>1 DEF Mine
    <3>. QED  BY <3>1, <3>2 DEF Draft
  <2>2. CASE c \notin DOMAIN u.calls
    BY <1>4, <2>2 DEF NoContext, Draft
  <2>. QED  BY <2>1, <2>2
<1>6. PICK command : command = IF line.command = NoCommand THEN context.command ELSE line.command
  OBVIOUS
<1>7. command \in {NoCommand, CallSpec[c].command}
  BY <1>3, <1>5, <1>6
<1>8. /\ e.tool = context.tool /\ e.command = command
      /\ e.kind \in {"TestPass", "TestFail"} => command.test
  BY <1>1, <1>2, <1>4, <1>6 DEF TellsEnd
<1>9. ~NoCommand.test
  BY DEF NoCommand, Command
<1>. QED  BY <1>2, <1>5, <1>7, <1>8, <1>9 DEF NamesCall

\* A claude result is told with the last tool used.
LEMMA ClaudeResultNames ==
    ASSUME IsClaude, NEW u, IsState(u), NEW line, line.type = "tool_result", line.call \in Calls,
           u.last.tool = CallSpec[line.call].tool, u.last.command = CallSpec[line.call].command,
           NEW e, e = NormalizeClaude(u, line).event
    PROVE  NamesCall(line, e)
<1>1. CallSpec[line.call].tool # Absent
  BY ImportAssumption DEF ImportAssumption
<1>2. /\ e.tool = Or(u.last.tool, "tool") /\ e.command = u.last.command
      /\ e.kind \in {"TestPass", "TestFail"} => u.last.command.test
  BY ClaudeLine
<1>. QED  BY <1>1, <1>2 DEF NamesCall, Or

LEMMA ResultStays ==
    ASSUME KeepsLines, UNCHANGED <<owner, history, attached>>, NEW n, n <= Len(file),
           NEW e, ResultRight(n, e)
    PROVE  ResultRight(n, e)'
<1>1. IsClaude' <=> IsClaude
  BY DEF IsClaude
<1>2. \A i : WasRead(i)' <=> WasRead(i)
  BY DEF WasRead
<1>3. SUFFICES ASSUME n \in Lines({"exec_command_end", "tool_result"})', IsClaude => OneAtATime(n)'
               PROVE  NamesCall(file[n], e)'
  BY <1>1 DEF ResultRight
<1>4. n \in 1..Len(file) /\ file'[n] = file[n] /\ n \in Lines({"exec_command_end", "tool_result"})
  BY <1>3 DEF KeepsLines, Lines
<1>5. \A c : \A i \in CallStarts(c) : i \in CallStarts(c)'
  BY DEF CallStarts, Lines, KeepsLines
<1>6. \A i \in Lines({"tool_use"}) : i \in Lines({"tool_use"})'
  BY DEF Lines, KeepsLines
<1>7. IsClaude => OneAtATime(n)
  <2>1. SUFFICES ASSUME IsClaude, NEW i \in CallStarts(file[n].call)
                 PROVE  WasRead(i) /\ \A j \in Lines({"tool_use"}) : ~(i < j /\ j < n)
    BY DEF OneAtATime
  <2>2. PICK c : c = file[n].call
    OBVIOUS
  <2>3. i \in CallStarts(c)'
    BY <1>5, <2>1, <2>2
  <2>4. file'[n].call = c
    BY <1>4, <2>2
  <2>5. WasRead(i)' /\ \A j \in Lines({"tool_use"})' : ~(i < j /\ j < n)
    BY <1>3, <2>1, <2>3, <2>4 DEF OneAtATime
  <2>. QED  BY <1>2, <1>6, <2>5
<1>8. NamesCall(file[n], e)
  BY <1>4, <1>7 DEF ResultRight
<1>9. PICK line : line = file[n] /\ line = file'[n]
  BY <1>4
<1>10. NamesCall(line, e)'
  BY <1>1, <1>8, <1>9 DEF NamesCall
<1>. QED  BY <1>9, <1>10

\* The last tool used is that of the running call while calls do not overlap.
LEMMA LastInvNext ==
    ASSUME ReadInv, LastInv, [ImportNext]_importVars
    PROVE  LastInv'
<1>0. FileInv /\ WatchInv /\ StateInv /\ pos \in Nat /\ pos <= Len(file)
  BY DEF ReadInv, BaseInv, WatchInv
<1>f. Len(file) \in Nat /\ DOMAIN file = 1..Len(file) /\ AllWell(file)
  BY <1>0, FileParts
<1>1. Writes \/ Stays \/ Attaches \/ Imported \/ Synthesized \/ Polls \/ Hooked
  BY ImportSteps
<1>2. owner' = owner /\ history' = history
  BY <1>1 DEF Writes, Write, Stays, Attaches, Attached, Imported, Synthesized, Polls, Polled, Hooked, setting
<1>3. KeepsLines
  <2>1. Writes \/ UNCHANGED <<owner, file>>
    BY <1>1 DEF Stays, Attaches, Attached, Imported, Synthesized, Polls, Polled, Hooked, setting
  <2>. QED  BY <1>0, <2>1, FileKeeps
<1>4. SUFFICES ASSUME owner = "claude", phase' # "off", NEW j, j \in Lines({"tool_use"})', WasRead(j)', j <= pos',
                      \A k \in Lines({"tool_use"})' : ~(j < k /\ k <= pos')
               PROVE  st'.last = Use(file'[j])
  BY <1>2 DEF LastInv
<1>5. j \in 1..Len(file') /\ file'[j].type = "tool_use" /\ IsClaude /\ ~guarded
  BY <1>0, <1>3, <1>4 DEF Lines, KeepsLines, WatchInv, IsClaude
<1>6. \A k \in Lines({"tool_use"}) : k \in Lines({"tool_use"})'
  BY <1>3 DEF Lines, KeepsLines
<1>7. ASSUME j <= pos
      PROVE  j \in Lines({"tool_use"}) /\ file'[j] = file[j]
  <2>1. j \in 1..Len(file)
    BY <1>0, <1>f, <1>5, <1>7, <1>3 DEF KeepsLines
  <2>. QED  BY <1>3, <1>5, <1>f, <2>1 DEF Lines, KeepsLines
<1>8. CASE st' = st /\ pos' = pos /\ attached' = attached /\ phase # "off"
  <2>1. WasRead(j)
    BY <1>2, <1>4, <1>8 DEF WasRead
  <2>2. j \in Lines({"tool_use"}) /\ file'[j] = file[j] /\ j <= pos
    BY <1>4, <1>7, <1>8
  <2>3. st.last = Use(file[j])
    BY <1>4, <1>6, <1>8, <2>1, <2>2 DEF LastInv
  <2>. QED  BY <1>8, <2>2, <2>3
<1>9. CASE Writes \/ Stays \/ Synthesized \/ Hooked
  BY <1>4, <1>8, <1>9 DEF Writes, Write, Stays, Synthesized, Hooked, watcher
<1>10. CASE Polls
  <2>1. PICK ids : Polled(ids)
    BY <1>10 DEF Polls
  <2>2. ~IsInternal(Chunk, st, ids)
    BY <1>0, <1>4, <1>5, ChunkParts, ClaudeNotInternal DEF WatchInv
  <2>3. ~internal
    BY <1>0, <1>5 DEF WatchInv
  <2>. QED  BY <1>8, <2>1, <2>2, <2>3 DEF Polled
<1>11. CASE Attaches
  <2>1. PICK ids, chunk, start : Attached(ids, chunk, start)
    BY <1>11 DEF Attaches
  <2>2. /\ IsSeq(chunk) /\ AllWell(chunk)
        /\ history \/ Len(file) <= ContextTail => Len(chunk) = Len(file)
        /\ ~history /\ Len(file) > ContextTail => Len(chunk) = ContextTail
    BY <2>1, AttachedParts
  <2>3. ~IsInternal(chunk, start, ids)
    BY <1>4, <1>5, <2>2, ClaudeNotInternal
  <2>4. pos' = Len(file) - Len(chunk) /\ attached' = Len(file)
    BY <2>1, <2>3 DEF Attached
  <2>5. ContextTail \in Nat
    BY ImportAssumption DEF ImportAssumption
  <2>6. CASE history \/ Len(file) <= ContextTail
    BY <1>f, <1>4, <1>5, <2>2, <2>4, <2>6
  <2>7. CASE ~history /\ Len(file) > ContextTail
    <3>1. pos' = Len(file) - ContextTail
      BY <2>2, <2>4, <2>7
    <3>2. Len(file) - ContextTail < j
      BY <1>2, <1>4, <2>4, <2>7 DEF WasRead
    <3>. QED  BY <1>f, <1>4, <1>5, <2>5, <3>1, <3>2
  <2>. QED  BY <1>f, <2>5, <2>6, <2>7
<1>12. CASE Imported
  <2>1. PICK order, out : out = Adapt(st, file[pos + 1], order) /\ st' = out.state /\ pos' = pos + 1
    BY <1>12 DEF Imported
  <2>2. phase \in {"context", "chunk"} /\ attached' = attached /\ file' = file
    BY <1>12 DEF Imported
  <2>3. PICK line : line = file[pos + 1]
    OBVIOUS
  <2>4. pos + 1 \in 1..Len(file)
    BY <1>0, <1>f, <2>2 DEF WatchInv
  <2>5. out = NormalizeClaude(st, line)
    BY <1>5, <2>1, <2>3 DEF Adapt
  <2>6. line.type # "hook"
    BY <1>f, <1>5, <2>3, <2>4 DEF AllWell, WellFormed, ClaudeTypes
  <2>7. out.state.last = IF line.type = "tool_use" THEN Use(line) ELSE st.last
    BY <1>0, <1>5, <2>5, <2>6, ClaudeLine DEF StateInv
  <2>8. CASE line.type = "tool_use"
    <3>1. pos + 1 \in Lines({"tool_use"})'
      BY <1>f, <2>2, <2>3, <2>4, <2>8 DEF Lines
    <3>2. j = pos + 1
      BY <1>0, <1>f, <1>4, <1>5, <2>1, <2>2, <3>1
    <3>. QED  BY <2>1, <2>2, <2>3, <2>7, <2>8, <3>2
  <2>9. CASE line.type # "tool_use"
    <3>1. j # pos + 1
      BY <1>5, <2>2, <2>3, <2>9
    <3>2. j <= pos
      BY <1>0, <1>f, <1>4, <1>5, <2>1, <2>2, <3>1
    <3>3. j \in Lines({"tool_use"}) /\ file'[j] = file[j] /\ WasRead(j)
      BY <1>2, <1>4, <1>7, <2>2, <3>2 DEF WasRead
    <3>4. \A k \in Lines({"tool_use"}) : ~(j < k /\ k <= pos)
      <4>1. SUFFICES ASSUME NEW k \in Lines({"tool_use"}), j < k, k <= pos PROVE FALSE
        OBVIOUS
      <4>2. k \in Nat /\ k <= pos + 1 /\ k \in Lines({"tool_use"})'
        BY <1>0, <1>6, <1>f, <4>1 DEF Lines
      <4>. QED  BY <1>4, <2>1, <4>1, <4>2
    <3>5. st.last = Use(file[j])
      BY <1>4, <2>2, <3>2, <3>3, <3>4 DEF LastInv
    <3>. QED  BY <2>1, <2>7, <2>9, <3>3, <3>5
  <2>. QED  BY <2>8, <2>9
<1>. QED  BY <1>1, <1>9, <1>10, <1>11, <1>12

\* The line imported tells of its own call.
LEMMA ImportedResult ==
    ASSUME ReadInv, LastInv, phase \in {"context", "chunk"}, NEW order,
           NEW out, out = Adapt(st, file[pos + 1], order)
    PROVE  ResultRight(pos + 1, out.event)
<1>0. FileInv /\ WatchInv /\ StateInv /\ pos \in Nat
  BY DEF ReadInv, BaseInv, WatchInv
<1>1. pos + 1 \in 1..Len(file) /\ Len(file) \in Nat /\ DOMAIN file = 1..Len(file) /\ AllWell(file)
  BY <1>0, FileParts DEF WatchInv
<1>2. PICK line, e : line = file[pos + 1] /\ e = out.event
  OBVIOUS
<1>3. WellFormed(line)
  BY <1>1, <1>2 DEF AllWell
<1>4. SUFFICES ASSUME line.type \in {"exec_command_end", "tool_result"}, IsClaude => OneAtATime(pos + 1)
               PROVE  NamesCall(line, e)
  BY <1>2 DEF ResultRight, Lines
<1>5. CASE ~IsClaude
  <2>1. line.type = "exec_command_end"
    BY <1>3, <1>4, <1>5 DEF WellFormed, CodexTypes
  <2>2. e = Normalize(st, line, order).event
    BY <1>2, <1>5 DEF Adapt
  <2>. QED  BY <1>0, <1>3, <1>5, <2>1, <2>2, CodexResult DEF StateInv
<1>6. CASE IsClaude
  <2>1. line.type = "tool_result"
    BY <1>3, <1>4, <1>6 DEF WellFormed, ClaudeTypes
  <2>2. IsUser /\ line.call \in Calls
    BY <1>3, <2>1 DEF WellFormed, StartTypes, EndTypes
  <2>3. owner = "claude"
    BY <1>6, <2>2 DEF IsUser, IsClaude
  <2>4. e = NormalizeClaude(st, line).event /\ IsState(st)
    BY <1>0, <1>2, <1>6 DEF Adapt, StateInv
  <2>5. PICK i \in 1..Len(file) : file[i].type \in StartTypes /\ file[i].call = line.call
    <3>1. line.type \in EndTypes
      BY <2>1 DEF EndTypes
    <3>. QED  BY <1>0, <1>1, <1>2, <3>1 DEF FileInv, StartsFirst
  <2>6. i < pos + 1
    <3>1. line.type \in EndTypes
      BY <2>1 DEF EndTypes
    <3>. QED  BY <1>0, <1>1, <1>2, <2>5, <3>1 DEF FileInv, StartsFirst
  <2>7. WellFormed(file[i])
    BY <1>1 DEF AllWell
  <2>8. /\ file[i].type = "tool_use" /\ file[i].tool = CallSpec[line.call].tool
        /\ file[i].command = CallSpec[line.call].command
    BY <1>6, <2>5, <2>7 DEF WellFormed, StartTypes, ClaudeTypes
  <2>9. i \in CallStarts(line.call) /\ i \in Lines({"tool_use"})
    BY <1>1, <2>5, <2>8 DEF CallStarts, Lines
  <2>10. WasRead(i) /\ \A j \in Lines({"tool_use"}) : ~(i < j /\ j < pos + 1)
    BY <1>2, <1>4, <1>6, <2>9 DEF OneAtATime
  <2>11. i <= pos /\ \A j \in Lines({"tool_use"}) : ~(i < j /\ j <= pos)
    <3>1. \A j \in Lines({"tool_use"}) : j \in Nat
      BY <1>1 DEF Lines
    <3>. QED  BY <1>0, <2>6, <2>10, <3>1
  <2>12. st.last = Use(file[i])
    BY <2>3, <2>9, <2>10, <2>11 DEF LastInv
  <2>13. st.last.tool = CallSpec[line.call].tool /\ st.last.command = CallSpec[line.call].command
    BY <2>8, <2>12 DEF Use
  <2>. QED  BY <1>6, <2>1, <2>2, <2>4, <2>13, ClaudeResultNames
<1>. QED  BY <1>5, <1>6

LEMMA ResultsInvNext ==
    ASSUME ReadInv, ResultsInv, [ImportNext]_importVars
    PROVE  ResultsInv'
<1>0. FileInv /\ WatchInv /\ IsSeq(posted) /\ pos \in Nat /\ pos <= Len(file)
  BY DEF ReadInv, BaseInv, WatchInv
<1>f. Len(file) \in Nat /\ DOMAIN file = 1..Len(file)
  BY <1>0, FileParts
<1>1. Writes \/ Stays \/ Attaches \/ Imported \/ Synthesized \/ Polls \/ Hooked
  BY ImportSteps
<1>2. KeepsLines
  <2>1. Writes \/ UNCHANGED <<owner, file>>
    BY <1>1 DEF Stays, Attaches, Attached, Imported, Synthesized, Polls, Polled, Hooked, setting
  <2>. QED  BY <1>0, <2>1, FileKeeps
<1>3. owner' = owner /\ history' = history
  BY <1>1 DEF Writes, Write, Stays, Attaches, Attached, Imported, Synthesized, Polls, Polled, Hooked, setting
<1>4. LastInv'
  BY LastInvNext DEF ResultsInv
<1>5. ASSUME attached' = attached, NEW n, NEW event, n <= Len(file), Posts(n, event), ResultRight(n, event)
      PROVE  ResultsInv'
  <2>1. ASSUME NEW m, m <= Len(file), NEW e, ResultRight(m, e) PROVE ResultRight(m, e)'
    BY <1>2, <1>3, <1>5, <2>1, ResultStays
  <2>2. ASSUME NEW i \in DOMAIN posted'
        PROVE  \E m, e : /\ posted'[i].line = m /\ posted'[i].event = e
                         /\ m <= Len(file) /\ ResultRight(m, e)
    <3>1. CASE i \in DOMAIN posted /\ posted'[i] = posted[i]
      <4>1. posted[i].line \in 0..pos
        BY <1>0, <3>1 DEF WatchInv
      <4>2. posted[i].line <= Len(file)
        BY <1>0, <1>f, <4>1
      <4>. QED  BY <3>1, <4>2 DEF ResultsInv
    <3>2. CASE posted'[i].line = n /\ posted'[i].event = event
      BY <1>5, <3>2
    <3>. QED  BY <1>0, <1>5, <3>1, <3>2, PostedIs
  <2>. QED  BY <1>4, <2>1, <2>2 DEF ResultsInv
<1>6. ~ 0 \in Lines({"exec_command_end", "tool_result"})
  BY <1>f DEF Lines
<1>7. \A event : ResultRight(0, event)
  BY <1>6 DEF ResultRight
<1>8. CASE Writes \/ Stays \/ Polls
  <2>1. attached' = attached /\ posted' = posted
    BY <1>8 DEF Writes, Write, Stays, Polls, Polled, watcher
  <2>2. Posts(0, NoEvent)
    BY <2>1 DEF Posts
  <2>. QED  BY <1>5, <1>7, <1>f, <2>1, <2>2
<1>9. CASE Attaches
  <2>1. posted = <<>> /\ posted' = posted
    BY <1>0, <1>9 DEF Attaches, Attached, WatchInv, FileInv
  <2>2. DOMAIN posted' = {}
    BY <2>1
  <2>. QED  BY <1>4, <2>2 DEF ResultsInv
<1>10. CASE Imported
  <2>1. PICK order, out :
          /\ out = Adapt(st, file[pos + 1], order)
          /\ UNCHANGED <<posted, lost>> \/ Post(pos + 1, out.event)
    BY <1>10 DEF Imported
  <2>2. attached' = attached /\ phase \in {"context", "chunk"}
    BY <1>10 DEF Imported
  <2>3. PICK event : event = out.event
    OBVIOUS
  <2>4. ResultRight(pos + 1, event)
    BY <2>1, <2>2, <2>3, ImportedResult DEF ResultsInv
  <2>5. Posts(pos + 1, event)
    BY <2>1, <2>3 DEF Post, Posts
  <2>6. pos + 1 <= Len(file)
    BY <1>0, <1>f, <2>2 DEF WatchInv
  <2>. QED  BY <1>5, <2>2, <2>4, <2>5, <2>6
<1>11. CASE Hooked \/ Synthesized
  <2>1. attached' = attached
    BY <1>11 DEF Hooked, Synthesized
  <2>2. \E event : Posts(0, event)
    BY <1>11 DEF Hooked, Synthesized, Recapped, Checkpointed, Post, Posts
  <2>. QED  BY <1>5, <1>7, <1>f, <2>1, <2>2
<1>. QED  BY <1>1, <1>8, <1>9, <1>10, <1>11

\* However many calls run at once and in whatever order they end, a result is told
\* with the tool and the command of its own call, or of none.
THEOREM ResultsAlwaysNameTheirCall == ImportSpec => []ResultsNameTheirCall
<1>1. ImportInit => ResultsInv
  BY DEF ImportInit, ResultsInv, LastInv
<1>2. ReadInv /\ ResultsInv /\ [ImportNext]_importVars => ResultsInv'
  BY ResultsInvNext
<1>3. ResultsInv => ResultsNameTheirCall
  BY DEF ResultsInv, ResultRight, NamesCall, ResultsNameTheirCall
<1>. QED  BY <1>1, <1>2, <1>3, ReadInvariant, PTL DEF ImportSpec

---------------------------------------------------------------------------
(* The states of one that reads a codex file from its first line.          *)

RunState(n) == States(FreshState, file, AnyOrder)[n]

\* One that reads from the first line, step by step.
LEMMA RunNext ==
    ASSUME FileInv
    PROVE  /\ RunState(0) = FreshState
           /\ \A n \in 1..Len(file) :
                 /\ FromStart(n) = Normalize(RunState(n - 1), file[n], AnyOrder)
                 /\ RunState(n) = FromStart(n).state
<1>1. Len(file) \in Nat
  BY FileParts
<1>2. PICK f : f = States(FreshState, file, AnyOrder)
  OBVIOUS
<1>3. Steps(f, FreshState, file, AnyOrder, Len(file))
  BY <1>1, <1>2, StatesStep
<1>4. \A n : RunState(n) = f[n]
  BY <1>2 DEF RunState
<1>5. \A n : FromStart(n) = Normalize(f[n - 1], file[n], AnyOrder)
  BY <1>2 DEF FromStart, Replay
<1>. QED  BY <1>3, <1>4, <1>5 DEF Steps

LEMMA RunMine ==
    ASSUME ~IsClaude, FileInv, NEW n \in 0..Len(file)
    PROVE  Mine(RunState(n)) /\ (n # 0 => Opened(RunState(n)))
<1>1. Len(file) \in Nat /\ AllWell(file)
  BY FileParts
<1>2. PICK f : f = States(FreshState, file, AnyOrder)
  OBVIOUS
<1>3. Readable(file)
  BY <1>1 DEF AllWell, Readable
<1>4. Len(file) >= 1 => file[1].type = "session_meta"
  <2>1. Len(file) >= 1 => owner # "hooks" /\ Opens(file[1])
    BY FileParts DEF FileInv
  <2>. QED  BY <2>1 DEF Opens, IsClaude
<1>5. /\ MineUpTo(f, Len(file))
      /\ Len(file) >= 1 => OpenedFrom(f, 1, Len(file))
  BY <1>1, <1>2, <1>3, <1>4, MineFresh, MineAlong
<1>6. Mine(f[n])
  BY <1>5 DEF MineUpTo
<1>7. n # 0 => Opened(f[n])
  BY <1>1, <1>5 DEF OpenedFrom
<1>. QED  BY <1>2, <1>6, <1>7 DEF RunState

LEMMA RunStays ==
    ASSUME KeepsLines, NEW n \in 0..Len(file)
    PROVE  RunState(n)' = RunState(n)
<1>1. PICK lines, more : lines = file /\ more = file'
  OBVIOUS
<1>2. Len(lines) \in Nat /\ Len(more) \in Nat /\ n <= Len(more) /\ \A i \in 1..n : lines[i] = more[i]
  BY <1>1 DEF KeepsLines
<1>3. States(FreshState, lines, AnyOrder)[n] = States(FreshState, more, AnyOrder)[n]
  BY <1>1, <1>2, StatesAgree
<1>4. RunState(n) = States(FreshState, lines, AnyOrder)[n]
  BY <1>1 DEF RunState
<1>5. RunState(n)' = States(FreshState, more, AnyOrder)[n]
  BY <1>1 DEF RunState
<1>. QED  BY <1>3, <1>4, <1>5

\* What a line tells does not change with what is written behind it.
LEMMA FromStartStays ==
    ASSUME FileInv, FileInv', KeepsLines, NEW n \in 1..Len(file)
    PROVE  FromStart(n)' = FromStart(n)
<1>1. n - 1 \in 0..Len(file) /\ n \in 1..Len(file') /\ file'[n] = file[n]
  BY DEF KeepsLines
<1>2. PICK m : m = n - 1
  OBVIOUS
<1>3. RunState(m)' = RunState(m)
  BY <1>1, <1>2, RunStays
<1>4. FromStart(n) = Normalize(RunState(m), file[n], AnyOrder)
  BY <1>2 DEF FromStart, Replay, RunState
<1>5. FromStart(n)' = Normalize(RunState(m)', file'[n], AnyOrder)
  BY <1>2 DEF FromStart, Replay, RunState
<1>. QED  BY <1>1, <1>3, <1>4, <1>5

---------------------------------------------------------------------------
(* The calls that run.                                                     *)

\* The lines of a codex call.
LEMMA CallLines ==
    ASSUME FileInv, ~IsClaude, NEW c, NEW i
    PROVE  /\ i \in CallStarts(c) <=>
                 i \in 1..Len(file) /\ file[i].type = "function_call" /\ file[i].call = c
           /\ i \in CallEnds(c) <=>
                 /\ i \in 1..Len(file) /\ file[i].call = c
                 /\ file[i].type \in {"exec_command_end", "patch_apply_end"}
<1>1. DOMAIN file = 1..Len(file) /\ AllWell(file)
  BY FileParts
<1>2. \A k \in 1..Len(file) : file[k].type \in CodexTypes
  BY <1>1 DEF AllWell, WellFormed
<1>3. \A k \in 1..Len(file) : file[k].type \notin {"tool_use", "tool_result"}
  BY <1>2 DEF CodexTypes
<1>. QED  BY <1>1, <1>3 DEF CallStarts, CallEnds, Lines

\* c has been started in the first n lines, and not ended.
RunsAt(c, n) == (\E i \in CallStarts(c) : i <= n) /\ \A j \in CallEnds(c) : j > n

LEMMA ParallelIs ==
    ASSUME NEW n
    PROVE  Parallel(n) = {c \in Calls : RunsAt(c, n)}
BY DEF Parallel, RunsAt

\* A line starts its call, ends it, or leaves what runs alone.
LEMMA RunsNext ==
    ASSUME FileInv, ~IsClaude, NEW n \in 1..Len(file), NEW line, line = file[n], NEW c
    PROVE  /\ c = line.call /\ line.type = "function_call" => RunsAt(c, n)
           /\ c = line.call /\ line.type \in {"exec_command_end", "patch_apply_end"} => ~RunsAt(c, n)
           /\ \/ c # line.call
              \/ line.type \notin {"function_call", "exec_command_end", "patch_apply_end"}
              => (RunsAt(c, n) <=> RunsAt(c, n - 1))
<1>1. DOMAIN file = 1..Len(file) /\ Len(file) \in Nat
  BY FileParts
<1>2. \A i : i \in CallStarts(c) \/ i \in CallEnds(c) => i \in Nat
  BY <1>1, CallLines
<1>3. CASE c = line.call /\ line.type = "function_call"
  <2>1. n \in CallStarts(c)
    BY <1>3, CallLines
  <2>2. \A j \in CallEnds(c) : j > n
    <3>1. SUFFICES ASSUME NEW j \in CallEnds(c) PROVE j > n
      OBVIOUS
    <3>2. j \in 1..Len(file) /\ file[j].call = c /\ file[j].type \in EndTypes
      BY <3>1, CallLines DEF EndTypes
    <3>3. n < j
      BY <1>1, <1>3, <3>2 DEF FileInv, StartsFirst, StartTypes
    <3>. QED  BY <3>2, <3>3
  <2>3. RunsAt(c, n)
    BY <1>1, <2>1, <2>2 DEF RunsAt
  <2>. QED  BY <1>3, <2>3
<1>4. CASE c = line.call /\ line.type \in {"exec_command_end", "patch_apply_end"}
  <2>1. n \in CallEnds(c)
    BY <1>4, CallLines
  <2>2. ~RunsAt(c, n)
    BY <1>1, <2>1 DEF RunsAt
  <2>. QED  BY <1>4, <2>2
<1>5. CASE \/ c # line.call
           \/ line.type \notin {"function_call", "exec_command_end", "patch_apply_end"}
  <2>1. n \notin CallStarts(c) /\ n \notin CallEnds(c)
    BY <1>5, CallLines
  <2>2. \A i \in CallStarts(c) : i <= n <=> i <= n - 1
    BY <1>1, <1>2, <2>1
  <2>3. \A i \in CallEnds(c) : i > n <=> i > n - 1
    BY <1>1, <1>2, <2>1
  <2>4. RunsAt(c, n) <=> RunsAt(c, n - 1)
    BY <2>2, <2>3 DEF RunsAt
  <2>. QED  BY <1>5, <2>4
<1>. QED  BY <1>3, <1>4, <1>5

LEMMA ParallelFinite ==
    ASSUME FileInv, NEW n \in Nat, n <= Len(file)
    PROVE  IsFiniteSet(Parallel(n)) /\ Cardinality(Parallel(n)) \in Nat
<1>1. DOMAIN file = 1..Len(file) /\ Len(file) \in Nat
  BY FileParts
<1>2. PICK f : f = [i \in 1..n |-> file[i].call]
  OBVIOUS
<1>3. ASSUME NEW c \in Parallel(n) PROVE \E i \in 1..n : f[i] = c
  <2>1. PICK i \in CallStarts(c) : i <= n
    BY <1>3 DEF Parallel
  <2>2. i \in 1..Len(file) /\ file[i].call = c
    BY <1>1 DEF CallStarts, Lines
  <2>3. i \in 1..n
    BY <1>1, <2>1, <2>2
  <2>. QED  BY <1>2, <2>2, <2>3
<1>. QED  BY <1>3, NamedFinite

\* A started call joins those that run, an ended one leaves them.
LEMMA ParallelNext ==
    ASSUME FileInv, owner = "user", NEW n \in 1..Len(file), NEW line, line = file[n]
    PROVE  Parallel(n) =
             CASE line.type = "function_call" -> Parallel(n - 1) \cup {line.call}
               [] line.type \in {"exec_command_end", "patch_apply_end"} -> Parallel(n - 1) \ {line.call}
               [] OTHER -> Parallel(n - 1)
<1>0. ~IsClaude /\ WellFormed(line)
  BY FileParts DEF IsClaude, AllWell
<1>1. Parallel(n) = {c \in Calls : RunsAt(c, n)} /\ Parallel(n - 1) = {c \in Calls : RunsAt(c, n - 1)}
  BY ParallelIs
<1>2. \A c : /\ c = line.call /\ line.type = "function_call" => RunsAt(c, n)
             /\ c = line.call /\ line.type \in {"exec_command_end", "patch_apply_end"} => ~RunsAt(c, n)
             /\ \/ c # line.call
                \/ line.type \notin {"function_call", "exec_command_end", "patch_apply_end"}
                => (RunsAt(c, n) <=> RunsAt(c, n - 1))
  BY <1>0, RunsNext
<1>3. line.type = "function_call" => line.call \in Calls
  BY <1>0 DEF WellFormed, StartTypes
<1>4. CASE line.type = "function_call"
  BY <1>1, <1>2, <1>3, <1>4
<1>5. CASE line.type \in {"exec_command_end", "patch_apply_end"}
  BY <1>1, <1>2, <1>5
<1>6. CASE line.type \notin {"function_call", "exec_command_end", "patch_apply_end"}
  BY <1>1, <1>2, <1>6
<1>. QED  BY <1>4, <1>5, <1>6

\* What remembers the calls that run before the n-th line remembers those after.
Remembers(u, line, n) ==
    \A order, s : s = Normalize(u, line, order).state => DOMAIN s.calls = Parallel(n)

\* While those that run are not too many, all are remembered.
LEMMA CallsNext ==
    ASSUME FileInv, owner = "user", NEW n \in 1..Len(file), Cardinality(Parallel(n)) <= CallCap,
           NEW u, IsState(u), DOMAIN u.calls = Parallel(n - 1), NEW line, line = file[n]
    PROVE  /\ line.type = "function_call" /\ line.call # Absent =>
                 ~(Cardinality(DOMAIN u.calls \cup {line.call}) > CallCap)
           /\ Remembers(u, line, n)
<1>0. Len(file) \in Nat /\ WellFormed(line) /\ ~IsClaude
  BY FileParts DEF AllWell, IsClaude
<1>1. Cardinality(Parallel(n)) \in Nat /\ CallCap \in Nat
  BY <1>0, ParallelFinite, ImportAssumption DEF ImportAssumption
<1>2. PICK now, before : now = Parallel(n) /\ before = Parallel(n - 1)
  OBVIOUS
<1>3. now = CASE line.type = "function_call" -> before \cup {line.call}
             [] line.type \in {"exec_command_end", "patch_apply_end"} -> before \ {line.call}
             [] OTHER -> before
  BY <1>2, ParallelNext
<1>4. line.type = "function_call" => ~(Cardinality(DOMAIN u.calls \cup {line.call}) > CallCap)
  <2>1. SUFFICES ASSUME line.type = "function_call" PROVE ~(Cardinality(now) > CallCap)
    BY <1>2, <1>3
  <2>. QED  BY <1>1, <1>2
<1>5. line.type = "function_call" => line.call # Absent
  BY <1>0, ImportAssumption DEF WellFormed, StartTypes, ImportAssumption
<1>6. ASSUME NEW order, NEW s, s = Normalize(u, line, order).state
      PROVE  DOMAIN s.calls = now
  <2>1. CountsCalls(u, line, s)
    BY <1>6, CodexLine DEF Follows
  <2>2. CASE line.type = "function_call"
    BY <1>2, <1>3, <1>4, <1>5, <2>1, <2>2 DEF CountsCalls, AllCalls
  <2>3. CASE line.type \in {"exec_command_end", "patch_apply_end"}
    BY <1>2, <1>3, <2>1, <2>3 DEF CountsCalls
  <2>4. CASE line.type \notin {"function_call", "exec_command_end", "patch_apply_end"}
    BY <1>2, <1>3, <2>1, <2>4 DEF CountsCalls
  <2>. QED  BY <2>2, <2>3, <2>4
<1>. QED  BY <1>2, <1>4, <1>6 DEF Remembers

\* While the calls that run have fitted, exactly they are remembered.
LEMMA RunCalls ==
    ASSUME FileInv, owner = "user", NEW n \in 0..Len(file), Fits(n)
    PROVE  DOMAIN RunState(n).calls = Parallel(n)
<1>0. Len(file) \in Nat /\ DOMAIN file = 1..Len(file) /\ ~IsClaude
  BY FileParts DEF IsClaude
<1>n. n \in Nat /\ 0 \in 0..n
  BY <1>0
<1>1. \A m \in 1..n : Cardinality(Parallel(m)) <= CallCap
  BY DEF Fits
<1>. DEFINE G == {i \in 0..n : DOMAIN RunState(i).calls = Parallel(i)}
<1>2. 0 \in G
  <2>1. DOMAIN RunState(0).calls = {}
    BY RunNext DEF FreshState
  <2>2. Parallel(0) = {}
    <3>1. \A c : \A i \in CallStarts(c) : i \in 1..Len(file)
      BY <1>0 DEF CallStarts, Lines
    <3>2. \A c : ~RunsAt(c, 0)
      BY <1>0, <3>1 DEF RunsAt
    <3>. QED  BY <3>2, ParallelIs
  <2>. QED  BY <1>n, <2>1, <2>2
<1>3. ASSUME NEW i \in 0 + 1..n, i - 1 \in G PROVE i \in G
  <2>1. i \in 1..n /\ i \in 1..Len(file) /\ i \in 0..n /\ i - 1 \in 0..Len(file)
    BY <1>0, <1>3
  <2>2. PICK u, v, line : u = RunState(i - 1) /\ v = RunState(i) /\ line = file[i]
    OBVIOUS
  <2>3. v = Normalize(u, line, AnyOrder).state
    BY <2>1, <2>2, RunNext
  <2>4. Mine(u)
    BY <1>0, <2>1, <2>2, RunMine
  <2>5. DOMAIN u.calls = Parallel(i - 1)
    BY <1>3, <2>2
  <2>6. DOMAIN v.calls = Parallel(i)
    <3>1. IsState(u) /\ Cardinality(Parallel(i)) <= CallCap
      BY <1>1, <2>1, <2>4 DEF Mine
    <3>2. Remembers(u, line, i)
      BY <2>1, <2>2, <2>5, <3>1, CallsNext
    <3>. QED  BY <2>3, <3>2 DEF Remembers
  <2>. QED  BY <2>1, <2>2, <2>6
<1>. HIDE DEF G
<1>4. \A i \in 0..n : i \in G
  BY <1>n, <1>2, <1>3, Along
<1>. QED  BY <1>n, <1>4 DEF G

\* What was written does not make more calls run before it.
LEMMA ParallelStays ==
    ASSUME KeepsLines, NEW m \in Nat, m <= Len(file)
    PROVE  Parallel(m)' = Parallel(m)
<1>1. ASSUME NEW c PROVE RunsAt(c, m)' <=> RunsAt(c, m)
  <2>1. \A i \in 1..Len(file) : (i \in CallStarts(c)' <=> i \in CallStarts(c)) /\ (i \in CallEnds(c)' <=> i \in CallEnds(c))
    BY DEF KeepsLines, CallStarts, CallEnds, Lines
  <2>2. /\ \A i \in CallStarts(c) \cup CallEnds(c) : i \in 1..Len(file)
        /\ \A i \in CallStarts(c)' \cup CallEnds(c)' : i \in 1..Len(file')
    BY DEF KeepsLines, CallStarts, CallEnds, Lines
  <2>3. \A i \in 1..Len(file') : i \in 1..Len(file) \/ i > m
    BY DEF KeepsLines
  <2>4. \A i \in CallStarts(c)' : i <= m => i \in CallStarts(c)
    BY <2>1, <2>2, <2>3
  <2>5. \A i \in CallEnds(c)' : i > m \/ i \in CallEnds(c)
    BY <2>1, <2>2, <2>3
  <2>6. (\A i \in CallStarts(c) : i \in CallStarts(c)') /\ (\A i \in CallEnds(c) : i \in CallEnds(c)')
    BY <2>1, <2>2
  <2>. QED  BY <2>4, <2>5, <2>6 DEF RunsAt
<1>2. Parallel(m) = {c \in Calls : RunsAt(c, m)}
  BY ParallelIs
<1>3. Parallel(m)' = {c \in Calls : RunsAt(c, m)'}
  BY DEF Parallel, RunsAt
<1>. QED  BY <1>1, <1>2, <1>3

LEMMA FitsStays ==
    ASSUME KeepsLines, NEW n \in Nat, n <= Len(file)
    PROVE  Fits(n)' <=> Fits(n)
<1>1. ASSUME NEW m \in 1..n PROVE Parallel(m)' = Parallel(m)
  <2>1. m \in Nat /\ m <= Len(file)
    BY DEF KeepsLines
  <2>. QED  BY <2>1, ParallelStays
<1>. QED  BY <1>1 DEF Fits

---------------------------------------------------------------------------
(* One that attaches catches up with one that reads from the first line.   *)

\* s and u differ in the turn at most.
ButTurn(s, u) == s = [u EXCEPT !.turn = s.turn]

\* s is, after n lines, the state of a reader from the first line, but for what the
\* first two lines are about to set.
Nearly(s, u, n) ==
    /\ history \/ n >= 2 => s = u
    /\ n = 1 => ButTurn(s, u)
    /\ n = 0 => Unworked(s)

\* A turn context sets the turn, whatever it was.
LEMMA TurnForgotten ==
    ASSUME NEW u, IsState(u), NEW s, ButTurn(s, u),
           NEW line, line.type = "turn_context", line.turn # Absent, NEW o1, NEW o2
    PROVE  Normalize(s, line, o1) = Normalize(u, line, o2)
<1>1. /\ Normalize(s, line, o1) = TurnContext(s, line)
      /\ Normalize(u, line, o2) = TurnContext(u, line)
  BY DEF Normalize
<1>2. PICK a, b : /\ a = [s EXCEPT !.active = Absent, !.activeProject = Absent]
                  /\ b = [u EXCEPT !.active = Absent, !.activeProject = Absent]
  OBVIOUS
<1>3. PICK c, d : /\ c = [a EXCEPT !.turn = Or(line.turn, @), !.cwd = Or(line.cwd, @)]
                  /\ d = [b EXCEPT !.turn = Or(line.turn, @), !.cwd = Or(line.cwd, @)]
  OBVIOUS
<1>4. c = d
  BY <1>2, <1>3 DEF IsState, Or, ButTurn
<1>5. TurnContext(s, line) = Silent(c) /\ TurnContext(u, line) = Silent(d)
  BY <1>2, <1>3 DEF TurnContext, ResetWork
<1>. QED  BY <1>1, <1>4, <1>5

\* The first line sets the session and where it works.
LEMMA FirstLine ==
    ASSUME NEW s, IsState(s), Unworked(s), NEW u, IsState(u), Unworked(u),
           NEW line, line.type = "session_meta", NEW o1, NEW o2,
           NEW a, a = Normalize(s, line, o1).state, NEW b, b = Normalize(u, line, o2).state
    PROVE  ButTurn(a, b)
<1>1. /\ a = [s EXCEPT !.session = line.session, !.cwd = line.cwd]
      /\ b = [u EXCEPT !.session = line.session, !.cwd = line.cwd]
  BY DEF Normalize, SessionMeta, Tells
<1>2. IsState(a) /\ IsState(b)
  BY <1>1 DEF IsState
<1>3. /\ a.session = line.session /\ a.cwd = line.cwd /\ a.active = s.active
      /\ a.activeProject = s.activeProject /\ a.calls = s.calls /\ a.recent = s.recent /\ a.last = s.last
  BY <1>1 DEF IsState
<1>4. /\ b.session = line.session /\ b.cwd = line.cwd /\ b.active = u.active
      /\ b.activeProject = u.activeProject /\ b.calls = u.calls /\ b.recent = u.recent /\ b.last = u.last
  BY <1>1 DEF IsState
<1>5. /\ a.session = b.session /\ a.cwd = b.cwd /\ a.active = b.active /\ a.activeProject = b.activeProject
      /\ a.calls = b.calls /\ a.recent = b.recent /\ a.last = b.last
  BY <1>3, <1>4 DEF Unworked
<1>6. a = [b EXCEPT !.turn = a.turn]
  BY <1>2, <1>5 DEF IsState
<1>. QED  BY <1>6 DEF ButTurn

LEMMA FitsBefore ==
    ASSUME NEW n \in Nat, Fits(n), NEW m \in Nat, m <= n
    PROVE  Fits(m)
BY DEF Fits

\* Two readers whose states nearly agree tell the next line the same, and agree
\* the better for it.
LEMMA NearlyNext ==
    ASSUME FileInv, owner = "user", NEW n \in 1..Len(file), Fits(n), NEW s, IsState(s),
           Nearly(s, RunState(n - 1), n - 1), NEW line, line = file[n], NEW order,
           NEW out, out = Normalize(s, line, order)
    PROVE  /\ Nearly(out.state, RunState(n), n)
           /\ n # 1 \/ history => out.event = FromStart(n).event
<1>0. /\ Len(file) \in Nat /\ ~IsClaude /\ WellFormed(line)
      /\ n \in Nat /\ n - 1 \in Nat /\ n - 1 \in 0..Len(file)
  BY FileParts DEF AllWell, IsClaude
<1>1. PICK u, told : u = RunState(n - 1) /\ told = FromStart(n)
  OBVIOUS
<1>2. /\ told = Normalize(u, line, AnyOrder) /\ RunState(n) = told.state
      /\ n = 1 => u = FreshState
  BY <1>1, RunNext
<1>3. IsState(u)
  BY <1>0, <1>1, RunMine DEF Mine
<1>4. ASSUME out = told
      PROVE  /\ Nearly(out.state, RunState(n), n)
             /\ n # 1 \/ history => out.event = FromStart(n).event
  <2>1. PICK v : v = told.state
    OBVIOUS
  <2>2. IsState(v)
    BY <1>2, <1>3, <2>1, CodexLine DEF Follows, KeepsTrack
  <2>3. ButTurn(v, v)
    BY <2>2 DEF IsState, ButTurn
  <2>4. out.state = v /\ RunState(n) = v
    BY <1>2, <1>4, <2>1
  <2>5. Nearly(v, v, n)
    BY <1>0, <2>3 DEF Nearly
  <2>. QED  BY <1>1, <1>4, <2>4, <2>5
<1>5. CASE history \/ n - 1 >= 2
  <2>1. s = u
    BY <1>1, <1>5 DEF Nearly
  <2>2. Fits(n - 1)
    BY <1>0, FitsBefore
  <2>3. DOMAIN u.calls = Parallel(n - 1)
    BY <1>0, <1>1, <2>2, RunCalls
  <2>4. Cardinality(Parallel(n)) <= CallCap
    BY <1>0 DEF Fits
  <2>5. line.type = "function_call" /\ line.call # Absent =>
           ~(Cardinality(DOMAIN u.calls \cup {line.call}) > CallCap)
    BY <1>3, <2>3, <2>4, CallsNext
  <2>6. Normalize(u, line, order) = Normalize(u, line, AnyOrder)
    BY <1>3, <2>5, OrderIsForMany
  <2>. QED  BY <1>2, <1>4, <2>1, <2>6
<1>6. CASE n = 2
  <2>1. line.type = "turn_context"
    BY <1>0, <1>6 DEF FileInv
  <2>2. line.turn # Absent
    BY <1>0, <2>1 DEF WellFormed
  <2>3. ButTurn(s, u)
    BY <1>1, <1>6 DEF Nearly
  <2>4. out = told
    BY <1>2, <1>3, <2>1, <2>2, <2>3, TurnForgotten
  <2>. QED  BY <1>4, <2>4
<1>7. CASE n = 1 /\ ~history
  <2>1. line.type = "session_meta"
    <3>1. owner # "hooks" /\ Opens(line)
      BY <1>7, FileParts
    <3>. QED  BY <1>0, <3>1 DEF Opens, IsClaude
  <2>2. Unworked(s) /\ Unworked(u)
    BY <1>1, <1>2, <1>7, FreshParts DEF Nearly
  <2>3. PICK a, b : a = out.state /\ b = told.state
    OBVIOUS
  <2>n. a = Normalize(s, line, order).state /\ b = Normalize(u, line, AnyOrder).state
    BY <1>2, <2>3
  <2>4. ButTurn(a, b)
    BY <1>3, <2>1, <2>2, <2>n, FirstLine
  <2>5. Nearly(a, b, n)
    BY <1>7, <2>4 DEF Nearly
  <2>. QED  BY <1>2, <1>7, <2>3, <2>5
<1>. QED  BY <1>0, <1>5, <1>6, <1>7

\* A turn context has been read among the first n lines.
TurnKnown(n) == \E i \in Lines({"turn_context"}) : WasRead(i) /\ i <= n

\* From the first turn context read on, the turn is that of the file.
LEMMA TurnNext ==
    ASSUME FileInv, ~IsClaude, NEW n \in 1..Len(file), NEW s, IsState(s),
           TurnKnown(n - 1) => s.turn = RunState(n - 1).turn,
           NEW line, line = file[n], NEW order, NEW out, out = Normalize(s, line, order),
           TurnKnown(n)
    PROVE  out.state.turn = RunState(n).turn
<1>0. /\ Len(file) \in Nat /\ DOMAIN file = 1..Len(file) /\ WellFormed(line)
      /\ n - 1 \in 0..Len(file)
  BY FileParts DEF AllWell
<1>1. PICK u, told : u = RunState(n - 1) /\ told = FromStart(n)
  OBVIOUS
<1>2. told = Normalize(u, line, AnyOrder) /\ RunState(n) = told.state
  BY <1>1, RunNext
<1>3. IsState(u)
  BY <1>0, <1>1, RunMine DEF Mine
<1>4. PICK i \in Lines({"turn_context"}) : WasRead(i) /\ i <= n
  BY DEF TurnKnown
<1>5. i \in 1..Len(file) /\ file[i].type = "turn_context"
  BY <1>0, <1>4 DEF Lines
<1>6. line.type # "session_meta"
  <2>1. CASE i = n
    BY <1>5, <2>1
  <2>2. CASE i # n
    <3>1. n # 1
      BY <1>0, <1>4, <1>5, <2>2
    <3>. QED  BY <1>0, <3>1 DEF FileInv
  <2>. QED  BY <2>1, <2>2
<1>7. out.state.turn = Or(line.turn, s.turn) /\ told.state.turn = Or(line.turn, u.turn)
  <2>1. KeepsTrack(s, line, out.state) /\ KeepsTrack(u, line, told.state)
    BY <1>2, <1>3, CodexLine DEF Follows
  <2>. QED  BY <1>6, <2>1 DEF KeepsTrack
<1>8. CASE i = n
  <2>1. line.turn # Absent
    BY <1>0, <1>5, <1>8 DEF WellFormed
  <2>. QED  BY <1>2, <1>7, <2>1 DEF Or
<1>9. CASE i # n
  <2>1. TurnKnown(n - 1)
    BY <1>0, <1>4, <1>5, <1>9 DEF TurnKnown
  <2>. QED  BY <1>1, <1>2, <1>7, <2>1
<1>. QED  BY <1>8, <1>9

---------------------------------------------------------------------------
(* A user's session is told as from its first line, and completely.        *)

\* A user's session that is not given up as a processor's.
Covered == owner = "user" /\ (guarded \/ attached <= GuardSample)

\* What the watcher's state s has in common, after n lines, with that of a reader from
\* the first line.
InStep(s, n) ==
    /\ TurnKnown(n) => s.turn = RunState(n).turn
    /\ WholeTail /\ Fits(n) => Nearly(s, RunState(n), n)

\* While the watcher of a user's session reads, it is in step.
StepInv == Covered /\ phase # "off" /\ ~internal => InStep(st, pos)

LEMMA StepStays ==
    ASSUME KeepsLines, UNCHANGED <<history, attached>>, NEW n \in 0..Len(file), NEW s, InStep(s, n)
    PROVE  InStep(s, n)'
<1>1. PICK u : u = RunState(n)
  OBVIOUS
<1>2. RunState(n)' = u
  BY <1>1, RunStays
<1>3. n \in Nat /\ n <= Len(file)
  BY DEF KeepsLines
<1>4. Fits(n)' <=> Fits(n)
  BY <1>3, FitsStays
<1>5. TurnKnown(n)' => TurnKnown(n)
  <2>1. SUFFICES ASSUME NEW i \in Lines({"turn_context"})', WasRead(i)', i <= n
                 PROVE  i \in Lines({"turn_context"}) /\ WasRead(i)
    BY DEF TurnKnown
  <2>2. i \in 1..Len(file') /\ file'[i].type = "turn_context"
    BY <2>1 DEF Lines, KeepsLines
  <2>3. i \in 1..Len(file)
    BY <1>3, <2>1, <2>2 DEF KeepsLines
  <2>. QED  BY <2>1, <2>2, <2>3 DEF Lines, KeepsLines, WasRead
<1>6. WholeTail' <=> WholeTail
  BY DEF WholeTail
<1>7. Nearly(s, u, n)' <=> Nearly(s, u, n)
  BY DEF Nearly
<1>8. /\ TurnKnown(n) => s.turn = u.turn
      /\ WholeTail /\ Fits(n) => Nearly(s, u, n)
  BY <1>1 DEF InStep
<1>. QED  BY <1>2, <1>4, <1>5, <1>6, <1>7, <1>8 DEF InStep

\* Attached, one is in step: what one has not read one does not know.
LEMMA StepAttach ==
    ASSUME ReadInv, ReadInv', NEW ids, NEW chunk, NEW start, Attached(ids, chunk, start),
           ~IsInternal(chunk, start, ids), ~IsClaude
    PROVE  InStep(st, pos)'
<1>0. FileInv /\ Len(file) \in Nat /\ DOMAIN file = 1..Len(file) /\ ContextTail \in Nat
  BY FileParts, ImportAssumption DEF ReadInv, BaseInv, ImportAssumption
<1>1. /\ history \/ Len(file) <= ContextTail => Len(chunk) = Len(file)
      /\ ~history /\ Len(file) > ContextTail => Len(chunk) = ContextTail
      /\ ~history => Unworked(start)
  BY AttachedParts
<1>2. /\ st' = start /\ attached' = Len(file) /\ pos' = Len(file) - Len(chunk)
      /\ file' = file /\ history' = history /\ (history => start = FreshState)
  BY DEF Attached, setting
<1>3. ~TurnKnown(pos)'
  <2>1. SUFFICES ASSUME NEW i \in Lines({"turn_context"})', WasRead(i)', i <= pos' PROVE FALSE
    BY DEF TurnKnown
  <2>2. i \in 1..Len(file)
    BY <1>0, <1>2, <2>1 DEF Lines
  <2>3. history \/ Len(file) - ContextTail < i
    BY <1>2, <2>1 DEF WasRead
  <2>4. PICK n, m, t : n = Len(file) /\ m = Len(chunk) /\ t = ContextTail
    OBVIOUS
  <2>5. i <= n - m
    BY <1>2, <2>1, <2>4
  <2>6. CASE history \/ n <= t
    BY <1>0, <1>1, <2>2, <2>4, <2>5, <2>6
  <2>7. CASE ~history /\ n > t
    <3>1. m = t /\ n - t < i
      BY <1>1, <2>3, <2>4, <2>7
    <3>. QED  BY <1>0, <2>2, <2>4, <2>5, <3>1
  <2>. QED  BY <1>0, <2>4, <2>6, <2>7
<1>4. ASSUME WholeTail' PROVE Nearly(st, RunState(pos), pos)'
  <2>1. history \/ Len(file) <= ContextTail
    BY <1>2, <1>4 DEF WholeTail
  <2>2. pos' = 0
    BY <1>0, <1>1, <1>2, <2>1
  <2>3. RunState(0) = FreshState
    BY <1>0, RunNext
  <2>4. RunState(0)' = RunState(0)
    BY <1>2 DEF RunState
  <2>5. Nearly(start, FreshState, 0)
    BY <1>1, <1>2, FreshParts DEF Nearly
  <2>6. Nearly(start, FreshState, 0)'
    BY <1>2, <2>5 DEF Nearly
  <2>7. RunState(pos)' = RunState(0)'
    BY <2>2 DEF RunState
  <2>. QED  BY <1>2, <2>2, <2>3, <2>4, <2>6, <2>7
<1>. QED  BY <1>3, <1>4 DEF InStep


\* A line read in step is told in step.
LEMMA StepImport ==
    ASSUME ReadInv, owner = "user", phase \in {"context", "chunk"}, InStep(st, pos),
           NEW n, n = pos + 1, NEW order, NEW out, out = Adapt(st, file[n], order)
    PROVE  /\ InStep(out.state, n)
           /\ out.event = NoEvent \/ out.event.turn = out.state.turn
           /\ TurnRead(n) => out.state.turn = FromStart(n).state.turn
           /\ WholeTail /\ Fits(n) /\ (n # 1 \/ history) => out.event = FromStart(n).event
<1>0. FileInv /\ WatchInv /\ StateInv /\ ~IsClaude /\ pos \in Nat
  BY DEF ReadInv, BaseInv, WatchInv, IsClaude
<1>1. n \in 1..Len(file) /\ n - 1 = pos /\ Len(file) \in Nat /\ n \in Nat
  BY <1>0, FileParts DEF WatchInv
<1>2. PICK s, line : s = st /\ line = file[n]
  OBVIOUS
<1>3. IsState(s) /\ out = Normalize(s, line, order)
  BY <1>0, <1>2 DEF StateInv, Mine, Adapt
<1>4. TurnKnown(n - 1) => s.turn = RunState(n - 1).turn
  BY <1>1, <1>2 DEF InStep
<1>5. TurnKnown(n) => out.state.turn = RunState(n).turn
  BY <1>0, <1>1, <1>2, <1>3, <1>4, TurnNext
<1>6. ASSUME WholeTail, Fits(n)
      PROVE  /\ Nearly(out.state, RunState(n), n)
             /\ n # 1 \/ history => out.event = FromStart(n).event
  <2>1. Fits(n - 1)
    BY <1>0, <1>1, <1>6, FitsBefore
  <2>2. Nearly(s, RunState(n - 1), n - 1)
    BY <1>1, <1>2, <1>6, <2>1 DEF InStep
  <2>. QED  BY <1>0, <1>1, <1>2, <1>3, <1>6, <2>2, NearlyNext
<1>7. TellsLine(line, out)
  BY <1>3, CodexLine DEF Follows
<1>8. TurnRead(n) => out.state.turn = FromStart(n).state.turn
  <2>1. TurnRead(n) => TurnKnown(n)
    <3>1. SUFFICES ASSUME NEW i \in Lines({"turn_context"}), WasRead(i), i < n PROVE i <= n
      BY DEF TurnRead, TurnKnown
    <3>2. i \in Nat
      BY <1>0, FileParts DEF Lines
    <3>. QED  BY <1>1, <3>1, <3>2
  <2>2. RunState(n) = FromStart(n).state
    BY <1>0, <1>1, RunNext
  <2>. QED  BY <1>5, <2>1, <2>2
<1>9. InStep(out.state, n)
  BY <1>5, <1>6 DEF InStep
<1>. QED  BY <1>6, <1>7, <1>8, <1>9 DEF TellsLine

\* The watcher of a user's session never skips its attach.
LEMMA UserAttaches ==
    ASSUME ReadInv, owner = "user", guarded \/ Len(file) <= GuardSample,
           NEW ids, NEW chunk, NEW start, Attached(ids, chunk, start)
    PROVE  ~IsInternal(chunk, start, ids)
<1>0. KnownInv /\ WatchInv /\ ~IsClaude
  BY DEF ReadInv, BaseInv, IsClaude
<1>1. CASE guarded
  <2>1. ids = {}
    BY <1>0, NothingKnown DEF Attached
  <2>2. IsSeq(chunk) /\ AllWell(chunk) /\ Mine(start)
    BY <1>0, AttachedParts
  <2>. QED  BY <1>1, <2>1, <2>2, UserNotInternal
<1>2. CASE ~guarded
  <2>1. history
    BY <1>0, <1>2 DEF WatchInv
  <2>2. chunk = file /\ start = FreshState /\ ~IsInternal(Sample(file, GuardSample), FreshState, ids)
    BY <2>1 DEF Attached
  <2>3. Sample(file, GuardSample) = file
    BY <1>2 DEF Sample
  <2>. QED  BY <2>2, <2>3
<1>. QED  BY <1>1, <1>2

\* A poll imports what it reads of a user, or gives the session up.
LEMMA UserPolls ==
    ASSUME ReadInv, Covered, NEW ids, Polled(ids)
    PROVE  /\ guarded => pos' = pos
           /\ pos' = pos \/ internal'
<1>0. KnownInv /\ WatchInv /\ StateInv /\ FileInv /\ owner = "user" /\ ~IsClaude
  BY DEF ReadInv, BaseInv, IsClaude, Covered
<1>1. IsSeq(Chunk) /\ AllWell(Chunk) /\ Mine(st)
  BY <1>0, ChunkParts DEF WatchInv, StateInv
<1>2. CASE guarded
  <2>1. ids = {} /\ ~internal
    BY <1>0, <1>2, NothingKnown DEF Polled, KnownInv
  <2>2. ~IsInternal(Chunk, st, {})
    BY <1>0, <1>1, <1>2, UserNotInternal
  <2>. QED  BY <2>1, <2>2 DEF Polled
<1>3. CASE ~guarded
  <2>1. CASE internal \/ ~IsInternal(Chunk, st, ids)
    BY <1>0, <1>3, <2>1 DEF Polled
  <2>2. CASE ~internal /\ IsInternal(Chunk, st, ids)
    <3>1. PICK s, signals : s = st /\ signals = Signals(Chunk, s)
      OBVIOUS
    <3>2. signals.cwd \in WorkDirs \cup {Absent}
      BY <1>1, <3>1, SignalsWell DEF Mine
    <3>3. signals.cwd # DefaultDir
      BY <1>0, <3>2, DirsApart DEF IsUser
    <3>4. signals.prompted
      BY <1>0, <1>3, <2>2, <3>1, <3>3 DEF IsInternal
    <3>5. s.session = Session
      <4>1. phase = "live"
        BY DEF Polled
      <4>2. pos # 0
        BY <1>0, <4>1 DEF WatchInv
      <4>3. Opened(st)
        BY <1>0, <4>1, <4>2 DEF StateInv, Recognised, Covered
      <4>. QED  BY <3>1, <4>3 DEF Opened
    <3>6. signals.session # Absent
      <4>1. Session # Absent
        BY ImportAssumption DEF ImportAssumption
      <4>. QED  BY <3>1, <3>5, <4>1 DEF Signals, Or
    <3>7. IsConfirmed(Chunk, s, ids)
      BY <1>3, <3>1, <3>4, <3>6 DEF IsConfirmed
    <3>. QED  BY <1>0, <1>3, <2>2, <3>1, <3>7 DEF Polled
  <2>. QED  BY <2>1, <2>2
<1>. QED  BY <1>2, <1>3

\* The watcher stays in step with one that reads from the first line.
LEMMA StepInvNext ==
    ASSUME ReadInv, StepInv, [ImportNext]_importVars
    PROVE  StepInv'
<1>0. FileInv /\ WatchInv /\ pos \in 0..Len(file) /\ ReadInv'
  <2>1. FileInv /\ WatchInv /\ Len(file) \in Nat
    BY FileParts DEF ReadInv, BaseInv
  <2>2. pos \in 0..Len(file)
    BY <2>1 DEF WatchInv
  <2>. QED  BY <2>1, <2>2, ReadInvNext
<1>1. Writes \/ Stays \/ Attaches \/ Imported \/ Synthesized \/ Polls \/ Hooked
  BY ImportSteps
<1>2. owner' = owner /\ guarded' = guarded /\ history' = history
  BY <1>1 DEF Writes, Write, Stays, Attaches, Attached, Imported, Synthesized, Polls, Polled, Hooked, setting
<1>3. KeepsLines
  <2>1. Writes \/ UNCHANGED <<owner, file>>
    BY <1>1 DEF Stays, Attaches, Attached, Imported, Synthesized, Polls, Polled, Hooked, setting
  <2>. QED  BY <1>0, <2>1, FileKeeps
<1>4. SUFFICES ASSUME Covered', phase' # "off", ~internal' PROVE InStep(st, pos)'
  BY DEF StepInv
<1>5. owner = "user" /\ ~IsClaude /\ (attached' = attached => Covered)
  BY <1>2, <1>4 DEF Covered, IsClaude
<1>6. CASE st' = st /\ pos' = pos /\ attached' = attached /\ phase # "off" /\ ~internal
  <2>1. PICK s, n : s = st /\ n = pos
    OBVIOUS
  <2>2. InStep(s, n) /\ n \in 0..Len(file)
    BY <1>0, <1>5, <1>6, <2>1 DEF StepInv
  <2>3. InStep(s, n)'
    BY <1>2, <1>3, <1>6, <2>2, StepStays
  <2>4. st' = s /\ pos' = n
    BY <1>6, <2>1
  <2>. QED  BY <2>3, <2>4
<1>7. CASE Writes \/ Stays \/ Synthesized \/ Hooked
  BY <1>4, <1>6, <1>7 DEF Writes, Write, Stays, Synthesized, Hooked, watcher
<1>8. CASE Attaches
  <2>1. PICK ids, chunk, start : Attached(ids, chunk, start)
    BY <1>8 DEF Attaches
  <2>2. guarded \/ Len(file) <= GuardSample
    BY <1>2, <1>4, <2>1 DEF Attached, Covered
  <2>3. ~IsInternal(chunk, start, ids)
    BY <1>5, <2>1, <2>2, UserAttaches
  <2>. QED  BY <1>0, <1>5, <2>1, <2>3, StepAttach
<1>9. CASE Polls
  <2>1. PICK ids : Polled(ids)
    BY <1>9 DEF Polls
  <2>2. attached' = attached /\ st' = st /\ phase = "live"
    BY <2>1 DEF Polled
  <2>3. pos' = pos
    BY <1>4, <1>5, <2>1, <2>2, UserPolls
  <2>4. ~internal
    BY <1>4, <1>5, <2>1 DEF Polled
  <2>. QED  BY <1>6, <2>2, <2>3, <2>4
<1>10. CASE Imported
  <2>1. PICK order, out : out = Adapt(st, file[pos + 1], order) /\ st' = out.state /\ pos' = pos + 1
    BY <1>10 DEF Imported
  <2>2. phase \in {"context", "chunk"} /\ attached' = attached /\ internal' = internal
    BY <1>10 DEF Imported
  <2>3. PICK n, s : n = pos + 1 /\ s = out.state
    OBVIOUS
  <2>4. InStep(st, pos)
    BY <1>4, <1>5, <2>2 DEF StepInv
  <2>5. InStep(s, n)
    BY <1>5, <2>1, <2>2, <2>3, <2>4, StepImport
  <2>6. n \in 0..Len(file)
    BY <1>0, <2>2, <2>3, FileParts DEF WatchInv
  <2>7. InStep(s, n)'
    BY <1>2, <1>3, <2>2, <2>5, <2>6, StepStays
  <2>8. st' = s /\ pos' = n
    BY <2>1, <2>3
  <2>. QED  BY <2>7, <2>8
<1>. QED  BY <1>1, <1>7, <1>8, <1>9, <1>10

\* An event of a line behind the attach, as LiveAsFromStart has it.
LiveRight(n, e) ==
    Covered /\ n > attached =>
      /\ e.session = FromStart(n).state.session
      /\ TurnRead(n) => e.turn = FromStart(n).state.turn
      /\ WholeTail /\ Fits(n) => e = FromStart(n).event

LiveInv == StepInv /\ \A i \in DOMAIN posted : LiveRight(posted[i].line, posted[i].event)

LEMMA LiveStays ==
    ASSUME ReadInv, ReadInv', KeepsLines, UNCHANGED <<owner, guarded, history, attached>>,
           NEW n, n \in 0..Len(file), NEW e, LiveRight(n, e)
    PROVE  LiveRight(n, e)'
<1>0. FileInv /\ FileInv' /\ attached \in Nat /\ Len(file) \in Nat
  BY FileParts DEF ReadInv, BaseInv, WatchInv
<1>1. SUFFICES ASSUME Covered, n > attached
               PROVE  LiveRight(n, e)'
  BY DEF LiveRight, Covered
<1>2. n \in 1..Len(file) /\ n \in Nat /\ n <= Len(file)
  BY <1>0, <1>1
<1>3. PICK told : told = FromStart(n)
  OBVIOUS
<1>4. FromStart(n)' = told
  BY <1>0, <1>2, <1>3, FromStartStays
<1>5. Fits(n)' <=> Fits(n)
  BY <1>2, FitsStays
<1>6. TurnRead(n)' => TurnRead(n)
  <2>1. SUFFICES ASSUME NEW i \in Lines({"turn_context"})', WasRead(i)', i < n
                 PROVE  i \in Lines({"turn_context"}) /\ WasRead(i)
    BY DEF TurnRead
  <2>2. i \in 1..Len(file') /\ file'[i].type = "turn_context"
    BY <2>1 DEF Lines, KeepsLines
  <2>3. i \in 1..Len(file)
    BY <1>2, <2>1, <2>2 DEF KeepsLines
  <2>. QED  BY <2>1, <2>2, <2>3 DEF Lines, KeepsLines, WasRead
<1>7. WholeTail' <=> WholeTail
  BY DEF WholeTail
<1>8. /\ e.session = told.state.session
      /\ TurnRead(n) => e.turn = told.state.turn
      /\ WholeTail /\ Fits(n) => e = told.event
  BY <1>1, <1>3 DEF LiveRight
<1>. QED  BY <1>4, <1>5, <1>6, <1>7, <1>8 DEF LiveRight

\* The line imported is told as from the first line.
LEMMA ImportedLive ==
    ASSUME ReadInv, ReadInv', StepInv, Imported, NEW order,
           NEW out, out = Adapt(st, file[pos + 1], order), st' = out.state, out.event # NoEvent
    PROVE  LiveRight(pos + 1, out.event)
<1>0. FileInv /\ WatchInv /\ StateInv /\ pos \in Nat
  BY DEF ReadInv, BaseInv, WatchInv
<1>1. PICK n : n = pos + 1
  OBVIOUS
<1>2. SUFFICES ASSUME Covered, n > attached
               PROVE  /\ out.event.session = FromStart(n).state.session
                      /\ TurnRead(n) => out.event.turn = FromStart(n).state.turn
                      /\ WholeTail /\ Fits(n) => out.event = FromStart(n).event
  BY <1>1 DEF LiveRight
<1>3. owner = "user" /\ ~IsClaude /\ phase \in {"context", "chunk"} /\ phase # "off" /\ ~internal
  BY <1>0, <1>2 DEF Covered, IsClaude, Imported, WatchInv
<1>4. n \in 1..Len(file) /\ attached >= 1 /\ n # 1
  BY <1>0, <1>1, <1>2, <1>3, FileParts DEF WatchInv
<1>5. InStep(st, pos)
  BY <1>2, <1>3 DEF StepInv
<1>6. out = Adapt(st, file[n], order)
  BY <1>1
<1>7. /\ out.event = NoEvent \/ out.event.turn = out.state.turn
      /\ TurnRead(n) => out.state.turn = FromStart(n).state.turn
      /\ WholeTail /\ Fits(n) /\ (n # 1 \/ history) => out.event = FromStart(n).event
  BY <1>1, <1>3, <1>5, <1>6, StepImport
<1>8. PICK s, line : s = st /\ line = file[n]
  OBVIOUS
<1>9. IsState(s) /\ out = Normalize(s, line, order)
  BY <1>0, <1>3, <1>6, <1>8 DEF StateInv, Mine, Adapt
<1>10. out.event.session = out.state.session
  <2>1. TellsLine(line, out)
    BY <1>9, CodexLine DEF Follows
  <2>. QED  BY <2>1 DEF TellsLine
<1>11. out.state.session = Session
  <2>1. Opened(s)
    BY <1>0, <1>2, <1>3, <1>4, <1>1, <1>8 DEF StateInv, Recognised, Covered
  <2>2. line.type # "session_meta"
    BY <1>0, <1>4, <1>8, FileParts DEF FileInv
  <2>3. KeepsTrack(s, line, out.state)
    BY <1>9, CodexLine DEF Follows
  <2>. QED  BY <2>1, <2>2, <2>3 DEF KeepsTrack, Opened
<1>12. FromStart(n).state.session = Session
  <2>1. RunState(n) = FromStart(n).state
    BY <1>0, <1>4, RunNext
  <2>2. n \in 0..Len(file) /\ n # 0
    BY <1>4
  <2>3. Opened(RunState(n))
    BY <1>0, <1>3, <2>2, RunMine
  <2>. QED  BY <2>1, <2>3 DEF Opened
<1>. QED  BY <1>4, <1>7, <1>10, <1>11, <1>12

\* What it tells is what that one would tell.
LEMMA LiveInvNext ==
    ASSUME ReadInv, LiveInv, [ImportNext]_importVars
    PROVE  LiveInv'
<1>0. FileInv /\ WatchInv /\ IsSeq(posted) /\ pos \in Nat /\ attached \in Nat /\ pos <= Len(file)
  BY DEF ReadInv, BaseInv, WatchInv
<1>f. Len(file) \in Nat
  BY <1>0, FileParts
<1>r. ReadInv'
  BY ReadInvNext
<1>1. Writes \/ Stays \/ Attaches \/ Imported \/ Synthesized \/ Polls \/ Hooked
  BY ImportSteps
<1>2. KeepsLines
  <2>1. Writes \/ UNCHANGED <<owner, file>>
    BY <1>1 DEF Stays, Attaches, Attached, Imported, Synthesized, Polls, Polled, Hooked, setting
  <2>. QED  BY <1>0, <2>1, FileKeeps
<1>3. owner' = owner /\ guarded' = guarded /\ history' = history
  BY <1>1 DEF Writes, Write, Stays, Attaches, Attached, Imported, Synthesized, Polls, Polled, Hooked, setting
<1>4. StepInv'
  BY StepInvNext DEF LiveInv
<1>5. ASSUME attached' = attached, NEW n, NEW event, n \in 0..Len(file), Posts(n, event), LiveRight(n, event)
      PROVE  LiveInv'
  <2>1. ASSUME NEW m, m \in 0..Len(file), NEW e, LiveRight(m, e) PROVE LiveRight(m, e)'
    BY <1>2, <1>3, <1>5, <1>r, <2>1, LiveStays
  <2>2. ASSUME NEW i \in DOMAIN posted'
        PROVE  \E m, e : /\ posted'[i].line = m /\ posted'[i].event = e
                         /\ m \in 0..Len(file) /\ LiveRight(m, e)
    <3>1. CASE i \in DOMAIN posted /\ posted'[i] = posted[i]
      <4>1. posted[i].line \in 0..pos
        BY <1>0, <3>1 DEF WatchInv
      <4>2. posted[i].line \in 0..Len(file)
        BY <1>0, <1>f, <4>1
      <4>. QED  BY <3>1, <4>2 DEF LiveInv
    <3>2. CASE posted'[i].line = n /\ posted'[i].event = event
      BY <1>5, <3>2
    <3>. QED  BY <1>0, <1>5, <3>1, <3>2, PostedIs
  <2>. QED  BY <1>4, <2>1, <2>2 DEF LiveInv
<1>6. \A event : LiveRight(0, event)
  BY <1>0 DEF LiveRight
<1>7. CASE Writes \/ Stays \/ Polls
  <2>1. attached' = attached /\ posted' = posted
    BY <1>7 DEF Writes, Write, Stays, Polls, Polled, watcher
  <2>2. Posts(0, NoEvent)
    BY <2>1 DEF Posts
  <2>. QED  BY <1>5, <1>6, <1>f, <2>1, <2>2
<1>8. CASE Attaches
  <2>1. posted = <<>> /\ posted' = posted
    BY <1>0, <1>8 DEF Attaches, Attached, WatchInv, FileInv
  <2>2. DOMAIN posted' = {}
    BY <2>1
  <2>. QED  BY <1>4, <2>2 DEF LiveInv
<1>9. CASE Imported
  <2>1. PICK order, out :
          /\ out = Adapt(st, file[pos + 1], order) /\ st' = out.state
          /\ UNCHANGED <<posted, lost>> \/ (out.event # NoEvent /\ Post(pos + 1, out.event))
    BY <1>9 DEF Imported
  <2>2. attached' = attached /\ phase \in {"context", "chunk"}
    BY <1>9 DEF Imported
  <2>3. CASE UNCHANGED posted
    <3>1. Posts(0, NoEvent)
      BY <2>3 DEF Posts
    <3>. QED  BY <1>5, <1>6, <1>f, <2>2, <3>1
  <2>4. CASE out.event # NoEvent /\ Post(pos + 1, out.event)
    <3>1. PICK event : event = out.event
      OBVIOUS
    <3>2. LiveRight(pos + 1, event)
      BY <1>9, <1>r, <2>1, <2>4, <3>1, ImportedLive DEF LiveInv
    <3>3. Posts(pos + 1, event)
      BY <2>4, <3>1 DEF Post, Posts
    <3>4. pos + 1 \in 0..Len(file)
      BY <1>0, <1>f, <2>2 DEF WatchInv
    <3>. QED  BY <1>5, <2>2, <3>2, <3>3, <3>4
  <2>. QED  BY <2>1, <2>3, <2>4
<1>10. CASE Hooked \/ Synthesized
  <2>1. attached' = attached
    BY <1>10 DEF Hooked, Synthesized
  <2>2. \E event : Posts(0, event)
    BY <1>10 DEF Hooked, Synthesized, Recapped, Checkpointed, Post, Posts
  <2>. QED  BY <1>5, <1>6, <1>f, <2>1, <2>2
<1>. QED  BY <1>1, <1>7, <1>8, <1>9, <1>10

\* For any bounds on what is sampled, replayed and remembered: a watcher that
\* attaches in the middle of a session tells the lines written from then on as one
\* that read the file from its first line, as far as the tail it replayed allows.
\* (Without the registry: when it met the file while all of it was sampled.)
THEOREM LiveAlwaysAsFromStart == ImportSpec => []LiveAsFromStart
<1>1. ImportInit => LiveInv
  BY DEF ImportInit, LiveInv, StepInv
<1>2. ReadInv /\ LiveInv /\ [ImportNext]_importVars => LiveInv'
  BY LiveInvNext
<1>3. LiveInv => LiveAsFromStart
  BY DEF LiveInv, LiveRight, LiveAsFromStart, Covered
<1>. QED  BY <1>1, <1>2, <1>3, ReadInvariant, PTL DEF ImportSpec

\* The n-th line was posted, or lost, or has nothing to say, or a call had been
\* forgotten by then.
Accounted(n) ==
    \/ n \in lost
    \/ \E i \in DOMAIN posted : posted[i].line = n
    \/ ~Fits(n)
    \/ FromStart(n).event = NoEvent

ToldInv ==
    /\ StepInv
    /\ owner = "user" /\ guarded /\ WholeTail => \A n \in attached + 1..pos : Accounted(n)

\* Nothing told is taken back.
LEMMA ToldStays ==
    ASSUME ReadInv, ReadInv', KeepsLines, NEW n \in 1..Len(file), Accounted(n),
           lost \subseteq lost', NEW m, NEW event, Posts(m, event)
    PROVE  Accounted(n)'
<1>0. FileInv /\ FileInv' /\ IsSeq(posted) /\ n \in Nat /\ n <= Len(file)
  BY FileParts DEF ReadInv, BaseInv, WatchInv
<1>1. CASE n \in lost
  BY <1>1 DEF Accounted
<1>2. CASE \E i \in DOMAIN posted : posted[i].line = n
  <2>1. PICK i \in DOMAIN posted : posted[i].line = n
    BY <1>2
  <2>2. i \in DOMAIN posted' /\ posted'[i] = posted[i]
    <3>1. CASE posted' = posted
      BY <3>1
    <3>2. CASE posted' = Append(posted, [line |-> m, event |-> event])
      <4>1. PICK x, new : x = [line |-> m, event |-> event] /\ new = Append(posted, x)
        OBVIOUS
      <4>2. IsSeq(new) /\ Len(new) = Len(posted) + 1 /\ \A j \in 1..Len(posted) : new[j] = posted[j]
        BY <1>0, <4>1, Appended
      <4>3. DOMAIN posted = 1..Len(posted) /\ DOMAIN new = 1..Len(new) /\ Len(posted) \in Nat
        BY <1>0, <4>2, SeqParts
      <4>4. posted' = new
        BY <3>2, <4>1
      <4>. QED  BY <2>1, <4>2, <4>3, <4>4
    <3>. QED  BY <3>1, <3>2 DEF Posts
  <2>. QED  BY <2>1, <2>2 DEF Accounted
<1>3. CASE ~Fits(n)
  <2>1. ~Fits(n)'
    BY <1>0, <1>3, FitsStays
  <2>. QED  BY <2>1 DEF Accounted
<1>4. CASE FromStart(n).event = NoEvent
  <2>1. PICK told : told = FromStart(n)
    OBVIOUS
  <2>2. FromStart(n)' = told
    BY <1>0, <2>1, FromStartStays
  <2>. QED  BY <1>4, <2>1, <2>2 DEF Accounted
<1>. QED  BY <1>1, <1>2, <1>3, <1>4 DEF Accounted

\* No step passes a line that says something without telling it.
LEMMA ToldInvNext ==
    ASSUME ReadInv, ToldInv, [ImportNext]_importVars
    PROVE  ToldInv'
<1>0. FileInv /\ WatchInv /\ IsSeq(posted) /\ pos \in Nat /\ attached \in Nat /\ pos <= Len(file)
  BY DEF ReadInv, BaseInv, WatchInv
<1>f. Len(file) \in Nat
  BY <1>0, FileParts
<1>r. ReadInv'
  BY ReadInvNext
<1>1. Writes \/ Stays \/ Attaches \/ Imported \/ Synthesized \/ Polls \/ Hooked
  BY ImportSteps
<1>2. KeepsLines
  <2>1. Writes \/ UNCHANGED <<owner, file>>
    BY <1>1 DEF Stays, Attaches, Attached, Imported, Synthesized, Polls, Polled, Hooked, setting
  <2>. QED  BY <1>0, <2>1, FileKeeps
<1>3. owner' = owner /\ guarded' = guarded /\ history' = history
  BY <1>1 DEF Writes, Write, Stays, Attaches, Attached, Imported, Synthesized, Polls, Polled, Hooked, setting
<1>4. StepInv'
  BY StepInvNext DEF ToldInv
<1>5. SUFFICES ASSUME owner = "user", guarded, WholeTail', NEW n \in attached' + 1..pos'
               PROVE  Accounted(n)'
  BY <1>3, <1>4 DEF ToldInv
<1>6. ~IsClaude /\ KnownInv /\ Covered
  BY <1>5 DEF IsClaude, Covered, ReadInv, BaseInv
<1>7. ASSUME attached' = attached, n <= pos, lost \subseteq lost', NEW m, NEW event, Posts(m, event)
      PROVE  Accounted(n)'
  <2>1. WholeTail
    BY <1>3, <1>5, <1>7 DEF WholeTail
  <2>2. n \in attached + 1..pos /\ n \in 1..Len(file)
    BY <1>0, <1>f, <1>5, <1>7
  <2>3. Accounted(n)
    BY <1>5, <2>1, <2>2 DEF ToldInv
  <2>. QED  BY <1>2, <1>7, <1>r, <2>2, <2>3, ToldStays
<1>8. CASE Writes \/ Stays
  <2>1. attached' = attached /\ posted' = posted /\ lost' = lost /\ pos' = pos
    BY <1>8 DEF Writes, Write, Stays, watcher
  <2>2. n <= pos /\ Posts(0, NoEvent)
    BY <1>0, <1>5, <2>1 DEF Posts
  <2>. QED  BY <1>7, <2>1, <2>2
<1>9. CASE Polls
  <2>1. PICK ids : Polled(ids)
    BY <1>9 DEF Polls
  <2>2. attached' = attached /\ posted' = posted /\ lost' = lost
    BY <2>1 DEF Polled
  <2>3. pos' = pos
    BY <1>5, <1>6, <2>1, UserPolls
  <2>4. n <= pos /\ Posts(0, NoEvent)
    BY <1>0, <1>5, <2>2, <2>3 DEF Posts
  <2>. QED  BY <1>7, <2>2, <2>4
<1>10. CASE Attaches
  <2>1. attached' = Len(file) /\ file' = file
    BY <1>10 DEF Attaches, Attached
  <2>2. pos' \in Nat /\ pos' <= Len(file')
    BY <1>r DEF ReadInv, BaseInv, WatchInv
  <2>3. FALSE
    BY <1>f, <1>5, <2>1, <2>2
  <2>. QED  BY <2>3
<1>11. CASE Imported
  <2>1. PICK order, out :
          /\ out = Adapt(st, file[pos + 1], order)
          /\ \/ UNCHANGED <<posted, lost>>
                /\ (phase = "chunk" => out.event = NoEvent \/ IsProcessors(out.event, known'))
             \/ out.event # NoEvent /\ Post(pos + 1, out.event)
    BY <1>11 DEF Imported
  <2>2. /\ attached' = attached /\ phase \in {"context", "chunk"} /\ pos' = pos + 1
        /\ pos + 1 \in 1..Len(file)
    BY <1>0, <1>11, <1>f DEF Imported, WatchInv
  <2>3. CASE n <= pos
    <3>1. CASE UNCHANGED <<posted, lost>>
      <4>1. Posts(0, NoEvent) /\ lost \subseteq lost'
        BY <3>1 DEF Posts
      <4>. QED  BY <1>7, <2>2, <2>3, <4>1
    <3>2. CASE Post(pos + 1, out.event)
      <4>1. Posts(pos + 1, out.event) /\ lost \subseteq lost'
        BY <3>2 DEF Posts, Post
      <4>. QED  BY <1>7, <2>2, <2>3, <4>1
    <3>. QED  BY <2>1, <3>1, <3>2
  <2>4. CASE n = pos + 1
    <3>1. CASE Post(pos + 1, out.event)
      <4>1. CASE lost' = lost \cup {pos + 1}
        BY <2>4, <4>1 DEF Accounted
      <4>2. CASE posted' = Append(posted, [line |-> pos + 1, event |-> out.event])
        <5>1. PICK x, new : x = [line |-> pos + 1, event |-> out.event] /\ new = Append(posted, x)
          OBVIOUS
        <5>2. IsSeq(new) /\ Len(new) = Len(posted) + 1 /\ new[Len(posted) + 1] = x
          BY <1>0, <5>1, Appended
        <5>3. DOMAIN new = 1..Len(new) /\ Len(posted) \in Nat
          BY <1>0, <5>2, SeqParts
        <5>4. posted' = new /\ Len(posted) + 1 \in DOMAIN new /\ new[Len(posted) + 1].line = n
          BY <2>4, <4>2, <5>1, <5>2, <5>3
        <5>5. \E i \in DOMAIN posted' : posted'[i].line = n
          BY <5>4
        <5>. QED  BY <5>5 DEF Accounted
      <4>. QED  BY <3>1, <4>1, <4>2 DEF Post
    <3>2. CASE phase = "chunk" => out.event = NoEvent \/ IsProcessors(out.event, known')
      <4>1. n > attached
        BY <1>0, <1>5, <2>2
      <4>2. phase = "chunk"
        <5>1. phase = "context" => pos < end /\ end = attached /\ end \in Nat
          BY <1>0 DEF WatchInv
        <5>. QED  BY <1>0, <2>2, <2>4, <4>1, <5>1
      <4>3. known' = {}
        <5>1. KnownInv' /\ owner' = "user"
          BY <1>3, <1>5, <1>r DEF ReadInv, BaseInv
        <5>. QED  BY <5>1 DEF KnownInv
      <4>4. out.event = NoEvent
        BY <3>2, <4>2, <4>3 DEF IsProcessors
      <4>5. InStep(st, pos)
        BY <1>0, <1>6, <2>2 DEF ToldInv, StepInv, WatchInv
      <4>6. out = Adapt(st, file[n], order)
        BY <2>1, <2>4
      <4>7. WholeTail /\ Fits(n) /\ (n # 1 \/ history) => out.event = FromStart(n).event
        BY <1>5, <2>2, <2>4, <4>5, <4>6, StepImport
      <4>8. n # 1
        <5>1. attached >= 1
          BY <1>0, <2>2 DEF WatchInv
        <5>. QED  BY <1>0, <2>4, <4>1, <5>1
      <4>9. WholeTail
        BY <1>3, <1>5, <2>2 DEF WholeTail
      <4>10. Fits(n) => FromStart(n).event = NoEvent
        BY <4>4, <4>7, <4>8, <4>9
      <4>11. PICK told : told = FromStart(n)
        OBVIOUS
      <4>12. n \in 1..Len(file) /\ n \in Nat /\ n <= Len(file)
        BY <1>f, <2>2, <2>4
      <4>13. FromStart(n)' = told
        BY <1>0, <1>2, <1>r, <4>11, <4>12, FromStartStays DEF ReadInv, BaseInv
      <4>14. Fits(n)' <=> Fits(n)
        BY <1>2, <4>12, FitsStays
      <4>. QED  BY <4>10, <4>11, <4>13, <4>14 DEF Accounted
    <3>. QED  BY <2>1, <3>1, <3>2
  <2>. QED  BY <1>0, <1>5, <2>2, <2>3, <2>4
<1>12. CASE Hooked \/ Synthesized
  <2>1. attached' = attached /\ pos' = pos
    BY <1>12 DEF Hooked, Synthesized
  <2>2. \E event : Posts(0, event)
    BY <1>12 DEF Hooked, Synthesized, Recapped, Checkpointed, Post, Posts
  <2>3. lost \subseteq lost'
    BY <1>12 DEF Hooked, Synthesized, Recapped, Checkpointed, Post
  <2>4. n <= pos
    BY <1>0, <1>5, <2>1
  <2>. QED  BY <1>7, <2>1, <2>2, <2>3, <2>4
<1>. QED  BY <1>1, <1>8, <1>9, <1>10, <1>11, <1>12

\* However the guard, the registry and the agent interleave, every line of a user's
\* session read since the watcher attached was posted if it says something, or its
\* post failed, up to the first call that was forgotten.
THEOREM UserLinesAlwaysTold == ImportSpec => []UserLinesTold
<1>1. ImportInit => ToldInv
  <2>1. ImportInit => \A n \in attached + 1..pos : Accounted(n)
    BY DEF ImportInit
  <2>. QED  BY <2>1 DEF ImportInit, ToldInv, StepInv
<1>2. ReadInv /\ ToldInv /\ [ImportNext]_importVars => ToldInv'
  BY ToldInvNext
<1>3. ToldInv => UserLinesTold
  BY DEF ToldInv, Accounted, UserLinesTold
<1>. QED  BY <1>1, <1>2, <1>3, ReadInvariant, PTL DEF ImportSpec

---------------------------------------------------------------------------
(* What a publisher of ServePublisher owes.                                *)

\* Where the loop of a publisher is.
LoopAt == {"receive", "presence", "registering", "replaying", "decide",
           "posting", "stopped"}

Fate == {"waiting", "built", "acked", "repeat", "dull", "lost"}

Counts == [failures : Nat, restarts : Nat, edge : Nat, quiet : Nat]

PublisherTypeOK ==
    /\ stories \in [Publisher -> Seq(Topic)]
    /\ taken \in [Publisher -> Nat]
    /\ pc \in [Publisher -> LoopAt]
    /\ pending \in [Publisher -> Seq(Nat)]
    /\ batch \in [Publisher -> Batch \union {None}]
    /\ nextSeq \in [Publisher -> Nat]
    /\ fate \in [Publisher -> Seq(Fate)]
    /\ count \in Counts

\* The stories received and not settled, in the order they are kept: those of
\* the POST of a batch under way, and those not published yet.
Held(list, job) == IF job = None THEN list ELSE job.ids \o list

\* The account of the stories sent, of which got were received: what became
\* of each, where the loop is, and the two lists of those not settled.
Accounts(sent, got, fates, at, list, job) ==
    /\ got <= Len(sent) /\ Len(fates) = Len(sent)
    /\ (job # None) <=> (at = "posting")
    /\ job # None => list = <<>>
    /\ \A i \in 1..Len(Held(list, job)) : Held(list, job)[i] \in 1..got
    /\ \A i, j \in 1..Len(Held(list, job)) :
          i < j => Held(list, job)[i] < Held(list, job)[j]
    /\ \A id \in 1..got :
          fates[id] \in {"waiting", "built"} =>
              \E i \in 1..Len(Held(list, job)) : Held(list, job)[i] = id
    /\ job # None => \A id \in 1..got : fates[id] # "waiting"

AccountsInv ==
    \A p \in Publisher :
        Accounts(stories[p], taken[p], fate[p], pc[p], pending[p], batch[p])

OwedInv == PublisherTypeOK /\ AccountsInv

---------------------------------------------------------------------------
(* What summarising a batch does.                                          *)

\* f sums up the first stories of the batch ids of p, up to the n-th.
SumsUp(f, p, ids, n) ==
    f = [k \in 0..n |->
            IF k = 0
            THEN [caps |-> <<>>, memo |-> recent[p], fate |-> fate[p]]
            ELSE Told(p, f[k - 1], ids[k])]

\* A batch can be summed up as far as it goes.
LEMMA SumExists ==
    ASSUME NEW p, NEW ids, NEW n \in Nat
    PROVE  \E f : SumsUp(f, p, ids, n)
<1>. DEFINE start == [caps |-> <<>>, memo |-> recent[p], fate |-> fate[p]]
            Bad == {k \in Nat : ~ \E f : SumsUp(f, p, ids, k)}
<1>1. SUFFICES ASSUME Bad # {} PROVE FALSE
  OBVIOUS
<1>2. PICK m \in Bad : \A k \in Bad : m <= k
  BY <1>1, HasLeast
<1>3. ~ \E f : SumsUp(f, p, ids, m)
  OBVIOUS
<1>4. CASE m = 0
  <2>1. SumsUp([k \in 0..0 |-> start], p, ids, 0)
    BY DEF SumsUp
  <2>2. QED  BY <1>3, <1>4, <2>1
<1>5. CASE m # 0
  <2>1. m - 1 \in Nat /\ m - 1 \notin Bad
    BY <1>2, <1>5
  <2>2. PICK f : SumsUp(f, p, ids, m - 1)
    BY <2>1
  <2>. DEFINE g == [k \in 0..m |-> IF k = m THEN Told(p, f[m - 1], ids[m])
                                   ELSE f[k]]
  <2>3. ASSUME NEW k \in 0..m
        PROVE  g[k] = IF k = 0 THEN start ELSE Told(p, g[k - 1], ids[k])
    <3>1. CASE k = 0
      BY <3>1, <2>1, <2>2, <1>5 DEF SumsUp
    <3>2. CASE k # 0 /\ k = m
      BY <3>2, <2>1
    <3>3. CASE k # 0 /\ k # m
      <4>1. k \in 0..(m - 1) /\ k - 1 \in 0..(m - 1)
        BY <3>3
      <4>2. f[k] = Told(p, f[k - 1], ids[k])
        BY <4>1, <3>3, <2>2 DEF SumsUp
      <4>3. g[k] = f[k] /\ g[k - 1] = f[k - 1]
        BY <4>1, <3>3
      <4>4. QED  BY <4>2, <4>3, <3>3
    <3>4. QED  BY <3>1, <3>2, <3>3
  <2>4. SumsUp(g, p, ids, m)
    <3>1. g = [k \in 0..m |-> IF k = 0 THEN start
                              ELSE Told(p, g[k - 1], ids[k])]
      <4>. HIDE DEF start
      <4>1. g = [k \in 0..m |-> g[k]]
        OBVIOUS
      <4>. HIDE DEF g
      <4>2. QED  BY <4>1, <2>3
    <3>2. QED  BY <3>1 DEF SumsUp
  <2>5. QED  BY <1>3, <2>4
<1>6. QED  BY <1>4, <1>5

LEMMA SummarizeSums ==
    ASSUME NEW p, NEW ids, Len(ids) \in Nat
    PROVE  \E f : SumsUp(f, p, ids, Len(ids)) /\ Summarize(p, ids) = f[Len(ids)]
<1>1. \E f : SumsUp(f, p, ids, Len(ids))
  BY SumExists
<1>2. QED
  BY <1>1 DEF Summarize, SumsUp

\* r is what becomes of the first n stories of the batch ids of p: each is
\* decided, the others are as they were, and what is built has a capsule.
Decides(r, p, ids, n) ==
    /\ r.caps \in Seq(Capsule)
    /\ r.fate \in [1..Len(fate[p]) -> Fate]
    /\ \A id \in 1..Len(fate[p]) :
          \/ /\ \E k \in 1..n : ids[k] = id
             /\ r.fate[id] \in {"built", "dull", "repeat"}
             /\ r.fate[id] = "built" => r.caps # <<>>
          \/ /\ \A k \in 1..n : ids[k] # id
             /\ r.fate[id] = fate[p][id]

LEMMA ToldDecides ==
    ASSUME PublisherTypeOK, NEW p \in Publisher, NEW ids \in Seq(Nat),
           NEW n \in 1..Len(ids), ids[n] \in 1..Len(fate[p]),
           NEW r, Decides(r, p, ids, n - 1)
    PROVE  Decides(Told(p, r, ids[n]), p, ids, n)
<1>. DEFINE s == Told(p, r, ids[n])
            d == Decision(stories[p][ids[n]], r.memo)
            c == [pub |-> p, id |-> ids[n], seq |-> nextSeq[p] + Len(r.caps),
                  at |-> count.quiet]
<1>1. d \in {"built", "dull", "repeat"}
  BY DEF Decision
<1>2. r.caps \in Seq(Capsule) /\ r.fate \in [1..Len(fate[p]) -> Fate]
  BY DEF Decides
<1>3. c \in Capsule
  <2>1. nextSeq[p] \in Nat /\ Len(r.caps) \in Nat /\ count.quiet \in Nat
    BY <1>2 DEF PublisherTypeOK, Counts
  <2>2. QED  BY <2>1 DEF Capsule
<1>4. /\ s.caps = IF d # "built" THEN r.caps ELSE Append(r.caps, c)
      /\ s.fate = [r.fate EXCEPT ![ids[n]] = d]
  BY DEF Told
<1>5. /\ s.caps \in Seq(Capsule)
      /\ d = "built" \/ r.caps # <<>> => s.caps # <<>>
  <2>. HIDE DEF d, c, s
  <2>1. Append(r.caps, c) \in Seq(Capsule) /\ Append(r.caps, c) # <<>>
    BY <1>2, <1>3, AppendProperties
  <2>2. QED  BY <1>2, <1>4, <2>1
<1>. HIDE DEF d, c, s
<1>6. /\ s.fate \in [1..Len(fate[p]) -> Fate]
      /\ s.fate[ids[n]] = d
      /\ \A id \in 1..Len(fate[p]) : id # ids[n] => s.fate[id] = r.fate[id]
  BY <1>1, <1>2, <1>4 DEF Fate
<1>7. ASSUME NEW id \in 1..Len(fate[p])
      PROVE  \/ /\ \E k \in 1..n : ids[k] = id
                /\ s.fate[id] \in {"built", "dull", "repeat"}
                /\ s.fate[id] = "built" => s.caps # <<>>
             \/ /\ \A k \in 1..n : ids[k] # id
                /\ s.fate[id] = fate[p][id]
  <2>1. CASE id = ids[n]
    <3>1. n \in 1..n
      OBVIOUS
    <3>2. QED  BY <2>1, <3>1, <1>1, <1>5, <1>6
  <2>2. CASE id # ids[n]
    <3>1. s.fate[id] = r.fate[id]
      BY <2>2, <1>6
    <3>2. \A k \in 1..n : k \in 1..(n - 1) \/ ids[k] # id
      BY <2>2
    <3>3. \A k \in 1..(n - 1) : k \in 1..n
      OBVIOUS
    <3>4. QED  BY <3>1, <3>2, <3>3, <1>5 DEF Decides
  <2>3. QED  BY <2>1, <2>2
<1>8. Decides(s, p, ids, n)
  BY <1>5, <1>6, <1>7 DEF Decides
<1>9. QED  BY <1>8 DEF s

\* What summarising a batch decides.
LEMMA SummarizeDecides ==
    ASSUME PublisherTypeOK, NEW p \in Publisher, NEW ids \in Seq(Nat),
           \A k \in 1..Len(ids) : ids[k] \in 1..Len(fate[p])
    PROVE  Decides(Summarize(p, ids), p, ids, Len(ids))
<1>1. PICK f : /\ SumsUp(f, p, ids, Len(ids))
               /\ Summarize(p, ids) = f[Len(ids)]
  BY SummarizeSums
<1>2. \A k \in 0..Len(ids) :
         f[k] = IF k = 0
                THEN [caps |-> <<>>, memo |-> recent[p], fate |-> fate[p]]
                ELSE Told(p, f[k - 1], ids[k])
  BY <1>1 DEF SumsUp
<1>. DEFINE Bad == {k \in 0..Len(ids) : ~Decides(f[k], p, ids, k)}
<1>3. SUFFICES ASSUME Bad # {} PROVE FALSE
  BY <1>1
<1>4. PICK m \in Bad : \A k \in Bad : m <= k
  <2>1. Bad \subseteq Nat
    OBVIOUS
  <2>. HIDE DEF Bad
  <2>2. QED  BY <1>3, <2>1, HasLeast
<1>5. CASE m = 0
  <2>1. f[0] = [caps |-> <<>>, memo |-> recent[p], fate |-> fate[p]]
    BY <1>2
  <2>2. f[0].caps = <<>> /\ f[0].fate = fate[p]
    BY <2>1
  <2>3. fate[p] \in [1..Len(fate[p]) -> Fate]
    BY DEF PublisherTypeOK
  <2>4. Decides(f[0], p, ids, 0)
    BY <2>2, <2>3 DEF Decides
  <2>5. QED  BY <1>5, <2>4
<1>6. CASE m # 0
  <2>1. m \in 1..Len(ids) /\ m - 1 \in 0..Len(ids) /\ m - 1 \notin Bad
    BY <1>4, <1>6
  <2>2. Decides(f[m - 1], p, ids, m - 1) /\ f[m] = Told(p, f[m - 1], ids[m])
    BY <1>2, <1>6, <2>1
  <2>3. Decides(f[m], p, ids, m)
    BY <2>1, <2>2, ToldDecides
  <2>4. QED  BY <2>3
<1>7. QED  BY <1>5, <1>6

---------------------------------------------------------------------------
(* The account of one publisher, step by step.                             *)

LEMMA HeldIs ==
    ASSUME NEW list \in Seq(Nat), NEW job \in Batch \union {None},
           job # None => list = <<>>
    PROVE  /\ Held(list, job) \in Seq(Nat)
           /\ job = None => Held(list, job) = list
           /\ job # None => Held(list, job) = job.ids
<1>1. CASE job = None
  BY <1>1 DEF Held
<1>2. CASE job # None
  <2>1. list = <<>> /\ job.ids \in Seq(Nat)
    BY <1>2 DEF Batch
  <2>2. job.ids \o <<>> = job.ids
    BY <2>1, ConcatEmptySeq
  <2>3. QED  BY <1>2, <2>1, <2>2 DEF Held
<1>3. QED  BY <1>1, <1>2

\* A story sent is not received yet.
LEMMA AccountOfSent ==
    ASSUME NEW sent \in Seq(Topic), NEW got \in Nat, NEW fates \in Seq(Fate),
           NEW at, NEW list \in Seq(Nat), NEW job \in Batch \union {None},
           NEW t \in Topic,
           Accounts(sent, got, fates, at, list, job)
    PROVE  /\ Accounts(Append(sent, t), got, Append(fates, "waiting"), at,
                       list, job)
           /\ Append(sent, t) \in Seq(Topic)
           /\ Append(fates, "waiting") \in Seq(Fate)
<1>. DEFINE s == Append(sent, t)
            f == Append(fates, "waiting")
<1>1. got <= Len(sent) /\ Len(fates) = Len(sent)
  BY DEF Accounts
<1>2. s \in Seq(Topic) /\ Len(s) = Len(sent) + 1
  OBVIOUS
<1>3. /\ f \in Seq(Fate) /\ Len(f) = Len(fates) + 1
      /\ \A id \in 1..Len(fates) : f[id] = fates[id]
  <2>1. "waiting" \in Fate
    BY DEF Fate
  <2>2. QED  BY <2>1
<1>4. \A id \in 1..got : id \in 1..Len(fates)
  BY <1>1
<1>5. got <= Len(s) /\ Len(f) = Len(s)
  BY <1>1, <1>2, <1>3
<1>6. \A id \in 1..got : f[id] = fates[id]
  BY <1>3, <1>4
<1>. HIDE DEF s, f
<1>7. Accounts(s, got, f, at, list, job)
  BY <1>5, <1>6 DEF Accounts
<1>8. QED  BY <1>2, <1>3, <1>7 DEF s, f

\* A story received is pending, after all those received before it.
LEMMA AccountOfReceived ==
    ASSUME NEW sent \in Seq(Topic), NEW got \in Nat, NEW fates \in Seq(Fate),
           NEW list \in Seq(Nat), NEW job \in Batch \union {None},
           Accounts(sent, got, fates, "receive", list, job), got < Len(sent)
    PROVE  /\ Accounts(sent, got + 1, fates, "presence", Append(list, got + 1),
                       job)
           /\ Append(list, got + 1) \in Seq(Nat)
<1>. DEFINE l == Append(list, got + 1)
<1>1. job = None /\ Len(fates) = Len(sent)
  BY DEF Accounts
<1>2. /\ l \in Seq(Nat) /\ Len(l) = Len(list) + 1 /\ Len(list) \in Nat
      /\ \A i \in 1..Len(list) : l[i] = list[i]
      /\ l[Len(list) + 1] = got + 1
  OBVIOUS
<1>2a. PICK n \in Nat : /\ Len(list) = n /\ Len(l) = n + 1
                        /\ \A i \in 1..n : l[i] = list[i]
                        /\ l[n + 1] = got + 1
  BY <1>2
<1>. HIDE DEF l
<1>3. Held(list, job) = list /\ Held(l, job) = l
  BY <1>1 DEF Held
<1>4. /\ \A i \in 1..n : list[i] \in 1..got
      /\ \A i, j \in 1..n : i < j => list[i] < list[j]
      /\ \A id \in 1..got : fates[id] \in {"waiting", "built"} =>
            \E i \in 1..n : list[i] = id
  BY <1>2a, <1>3 DEF Accounts
<1>5. \A i \in 1..Len(l) : l[i] \in 1..(got + 1)
  <2>1. ASSUME NEW i \in 1..(n + 1) PROVE l[i] \in 1..(got + 1)
    <3>1. CASE i \in 1..n
      BY <3>1, <1>2a, <1>4
    <3>2. CASE i = n + 1
      BY <3>2, <1>2a
    <3>3. QED  BY <3>1, <3>2
  <2>2. QED  BY <2>1, <1>2a
<1>6. \A i, j \in 1..Len(l) : i < j => l[i] < l[j]
  <2>1. ASSUME NEW i \in 1..(n + 1), NEW j \in 1..(n + 1), i < j
        PROVE  l[i] < l[j]
    <3>1. i \in 1..n /\ l[i] = list[i] /\ list[i] \in 1..got
      BY <2>1, <1>2a, <1>4
    <3>2. CASE j \in 1..n
      BY <3>1, <3>2, <2>1, <1>2a, <1>4
    <3>3. CASE j = n + 1
      BY <3>1, <3>3, <1>2a
    <3>4. QED  BY <3>2, <3>3
  <2>2. QED  BY <2>1, <1>2a
<1>7. ASSUME NEW id \in 1..(got + 1), fates[id] \in {"waiting", "built"}
      PROVE  \E i \in 1..Len(l) : l[i] = id
  <2>1. CASE id = got + 1
    <3>1. n + 1 \in 1..Len(l)
      BY <1>2a
    <3>2. QED  BY <2>1, <3>1, <1>2a
  <2>2. CASE id # got + 1
    <3>1. id \in 1..got
      BY <2>2
    <3>2. PICK i \in 1..n : list[i] = id
      BY <3>1, <1>4, <1>7
    <3>3. i \in 1..Len(l) /\ l[i] = id
      BY <3>2, <1>2a
    <3>4. QED  BY <3>3
  <2>3. QED  BY <2>1, <2>2
<1>8. Accounts(sent, got + 1, fates, "presence", l, job)
  BY <1>1, <1>3, <1>5, <1>6, <1>7 DEF Accounts
<1>9. QED  BY <1>2, <1>8 DEF l

\* A process that ends owes nothing.
LEMMA AccountOfLost ==
    ASSUME NEW sent \in Seq(Topic), NEW got \in Nat, NEW fates \in Seq(Fate),
           NEW at, at # "posting", got <= Len(sent), Len(fates) = Len(sent)
    PROVE  /\ Accounts(sent, got, Lost(fates), at, <<>>, None)
           /\ Lost(fates) \in Seq(Fate)
<1>. DEFINE f == Lost(fates)
<1>1. DOMAIN fates = 1..Len(fates) /\ \A id \in 1..Len(fates) : fates[id] \in Fate
  OBVIOUS
<1>2. f = [id \in 1..Len(fates) |->
              IF fates[id] \in {"waiting", "built"} THEN "lost" ELSE fates[id]]
  BY <1>1 DEF Lost
<1>3. f \in [1..Len(fates) -> Fate]
  BY <1>1, <1>2 DEF Fate
<1>4. /\ \A id \in 1..Len(fates) : f[id] \notin {"waiting", "built"}
  BY <1>2
<1>. HIDE DEF f
<1>5. f \in Seq(Fate) /\ Len(f) = Len(fates)
  BY <1>3, Len(fates) \in Nat
<1>6. Held(<<>>, None) = <<>>
  BY DEF Held
<1>7. Accounts(sent, got, f, at, <<>>, None)
  BY <1>4, <1>5, <1>6 DEF Accounts
<1>8. QED  BY <1>5, <1>7 DEF f

\* The loop moves on, but for the POST of a batch.
LEMMA AccountOfMove ==
    ASSUME NEW sent, NEW got, NEW fates, NEW at, NEW next, NEW list, NEW job,
           Accounts(sent, got, fates, at, list, job),
           at # "posting", next # "posting"
    PROVE  Accounts(sent, got, fates, next, list, job)
BY DEF Accounts

\* r decides all pending stories of p, which the account covers: without a
\* capsule nothing is owed any more, with one the batch is.
LEMMA AccountOfDecided ==
    ASSUME PublisherTypeOK, NEW p \in Publisher,
           Accounts(stories[p], taken[p], fate[p], "decide", pending[p],
                    batch[p]),
           NEW r, Decides(r, p, pending[p], Len(pending[p]))
    PROVE  /\ r.caps \in Seq(Capsule) /\ r.fate \in Seq(Fate)
           /\ r.caps = <<>> => Accounts(stories[p], taken[p], r.fate,
                                        "receive", <<>>, batch[p])
           /\ Accounts(stories[p], taken[p], r.fate, "posting", <<>>,
                       [ids |-> pending[p], caps |-> r.caps])
           /\ [ids |-> pending[p], caps |-> r.caps] \in Batch
<1>. DEFINE n == Len(fate[p])
            list == pending[p]
            job == [ids |-> list, caps |-> r.caps]
<1>1. /\ stories[p] \in Seq(Topic) /\ taken[p] \in Nat /\ list \in Seq(Nat)
      /\ fate[p] \in Seq(Fate) /\ n \in Nat
  BY DEF PublisherTypeOK
<1>2. batch[p] = None /\ taken[p] <= Len(stories[p]) /\ n = Len(stories[p])
  BY DEF Accounts
<1>3. Held(list, batch[p]) = list
  BY <1>2 DEF Held
<1>4. /\ \A i \in 1..Len(list) : list[i] \in 1..taken[p]
      /\ \A i, j \in 1..Len(list) : i < j => list[i] < list[j]
      /\ \A id \in 1..taken[p] : fate[p][id] \in {"waiting", "built"} =>
            \E i \in 1..Len(list) : list[i] = id
  BY <1>3 DEF Accounts
<1>5. /\ r.caps \in Seq(Capsule) /\ r.fate \in [1..n -> Fate]
      /\ \A id \in 1..n :
          \/ /\ \E k \in 1..Len(list) : list[k] = id
             /\ r.fate[id] \in {"built", "dull", "repeat"}
             /\ r.fate[id] = "built" => r.caps # <<>>
          \/ /\ \A k \in 1..Len(list) : list[k] # id
             /\ r.fate[id] = fate[p][id]
  BY DEF Decides
<1>6. r.fate \in Seq(Fate) /\ Len(r.fate) = n
  <2>1. n \in Nat /\ r.fate \in [1..n -> Fate]
    BY <1>1, <1>5
  <2>. HIDE DEF n
  <2>2. QED  BY <2>1
<1>7. \A id \in 1..taken[p] : id \in 1..n
  BY <1>1, <1>2
<1>8. job \in Batch
  BY <1>1, <1>5 DEF Batch
<1>9. job # None
  BY <1>8, NoneAssumption
<1>10. ASSUME NEW id \in 1..taken[p]
       PROVE  /\ r.fate[id] # "waiting"
              /\ r.fate[id] = "built" =>
                    /\ r.caps # <<>>
                    /\ \E i \in 1..Len(list) : list[i] = id
  BY <1>4, <1>5, <1>7
<1>. HIDE DEF n, list
<1>11. ASSUME r.caps = <<>>
       PROVE  Accounts(stories[p], taken[p], r.fate, "receive", <<>>, batch[p])
  <2>1. Held(<<>>, batch[p]) = <<>>
    BY <1>2 DEF Held
  <2>2. \A id \in 1..taken[p] : r.fate[id] \notin {"waiting", "built"}
    BY <1>10, <1>11
  <2>3. QED  BY <1>2, <1>6, <2>1, <2>2 DEF Accounts
<1>12. Accounts(stories[p], taken[p], r.fate, "posting", <<>>, job)
  <2>1. Held(<<>>, job) = list
    <3>1. <<>> \in Seq(Nat) /\ job.ids = list
      OBVIOUS
    <3>. HIDE DEF job
    <3>2. QED  BY <3>1, <1>8, <1>9, HeldIs
  <2>. HIDE DEF job
  <2>2. QED  BY <1>2, <1>4, <1>6, <1>9, <1>10, <2>1 DEF Accounts
<1>13. QED  BY <1>5, <1>6, <1>8, <1>11, <1>12 DEF list

\* The stories of a batch that was accepted are acked.
LEMMA AccountOfPosted ==
    ASSUME NEW sent \in Seq(Topic), NEW got \in Nat, NEW fates \in Seq(Fate),
           NEW list \in Seq(Nat), NEW job \in Batch \union {None},
           Accounts(sent, got, fates, "posting", list, job),
           NEW f, f = [id \in DOMAIN fates |->
                          IF fates[id] = "built" THEN "acked" ELSE fates[id]]
    PROVE  /\ Accounts(sent, got, f, "receive", list, None)
           /\ f \in Seq(Fate)
<1>1. /\ job # None /\ list = <<>>
      /\ got <= Len(sent) /\ Len(fates) = Len(sent)
      /\ \A id \in 1..got : fates[id] # "waiting"
  BY DEF Accounts
<1>2. /\ DOMAIN fates = 1..Len(fates)
      /\ \A id \in 1..Len(fates) : fates[id] \in Fate
  OBVIOUS
<1>3. f \in [1..Len(fates) -> Fate]
  BY <1>2 DEF Fate
<1>4. f \in Seq(Fate) /\ Len(f) = Len(fates)
  BY <1>3, Len(fates) \in Nat
<1>5. \A id \in 1..got : f[id] \notin {"waiting", "built"}
  BY <1>1, <1>2
<1>6. Held(list, None) = <<>>
  BY <1>1 DEF Held
<1>7. QED  BY <1>1, <1>4, <1>5, <1>6 DEF Accounts

\* The stories of a batch that failed are pending again.
LEMMA AccountOfFailed ==
    ASSUME NEW sent \in Seq(Topic), NEW got \in Nat, NEW fates \in Seq(Fate),
           NEW list \in Seq(Nat), NEW job \in Batch \union {None},
           Accounts(sent, got, fates, "posting", list, job),
           NEW f, f = [id \in DOMAIN fates |->
                          IF id \in ToSet(job.ids) THEN "waiting"
                          ELSE fates[id]]
    PROVE  /\ Accounts(sent, got, f, "receive", list \o job.ids, None)
           /\ f \in Seq(Fate) /\ list \o job.ids \in Seq(Nat)
<1>1. /\ job # None /\ list = <<>>
      /\ got <= Len(sent) /\ Len(fates) = Len(sent)
  BY DEF Accounts
<1>2. job.ids \in Seq(Nat) /\ Held(list, job) = job.ids
  <2>1. job \in Batch
    BY <1>1
  <2>2. job.ids \in Seq(Nat)
    BY <2>1 DEF Batch
  <2>3. QED  BY <2>2, <1>1, HeldIs
<1>3. list \o job.ids = job.ids /\ Held(job.ids, None) = job.ids
  BY <1>1, <1>2, ConcatEmptySeq DEF Held
<1>4. /\ \A i \in 1..Len(job.ids) : job.ids[i] \in 1..got
      /\ \A i, j \in 1..Len(job.ids) : i < j => job.ids[i] < job.ids[j]
      /\ \A id \in 1..got : fates[id] \in {"waiting", "built"} =>
            \E i \in 1..Len(job.ids) : job.ids[i] = id
  BY <1>2 DEF Accounts
<1>5. /\ DOMAIN fates = 1..Len(fates)
      /\ \A id \in 1..Len(fates) : fates[id] \in Fate
  OBVIOUS
<1>6. f \in [1..Len(fates) -> Fate]
  BY <1>5 DEF Fate
<1>7. f \in Seq(Fate) /\ Len(f) = Len(fates)
  BY <1>6, Len(fates) \in Nat
<1>8. ToSet(job.ids) = {job.ids[i] : i \in 1..Len(job.ids)}
  BY <1>2 DEF ToSet
<1>9. ASSUME NEW id \in 1..got, f[id] \in {"waiting", "built"}
      PROVE  \E i \in 1..Len(job.ids) : job.ids[i] = id
  <2>1. id \in 1..Len(fates)
    BY <1>1
  <2>2. CASE id \in ToSet(job.ids)
    BY <2>2, <1>8
  <2>3. CASE id \notin ToSet(job.ids)
    BY <2>1, <2>3, <1>4, <1>5, <1>9
  <2>4. QED  BY <2>2, <2>3
<1>10. Accounts(sent, got, f, "receive", job.ids, None)
  BY <1>1, <1>3, <1>4, <1>7, <1>9 DEF Accounts
<1>11. QED  BY <1>2, <1>3, <1>7, <1>10

---------------------------------------------------------------------------
(* Every step keeps the account of every publisher.                        *)

\* A step that makes these the stories of p, what it received of them, and so
\* on, and leaves the other publishers alone.
Becomes(p, sent, got, fates, at, list, job) ==
    /\ stories' = [stories EXCEPT ![p] = sent]
    /\ taken' = [taken EXCEPT ![p] = got]
    /\ fate' = [fate EXCEPT ![p] = fates]
    /\ pc' = [pc EXCEPT ![p] = at]
    /\ pending' = [pending EXCEPT ![p] = list]
    /\ batch' = [batch EXCEPT ![p] = job]

\* The counters stay counters.
CountsOn ==
    /\ nextSeq' \in [Publisher -> Nat]
    /\ count' \in Counts

LEMMA CountUp ==
    ASSUME NEW c \in Counts
    PROVE  /\ c.quiet \in Nat
           /\ [c EXCEPT !.failures = @ + 1] \in Counts
           /\ [c EXCEPT !.restarts = @ + 1] \in Counts
           /\ [c EXCEPT !.edge = @ + 1] \in Counts
           /\ [c EXCEPT !.quiet = @ + 1] \in Counts
BY DEF Counts

LEMMA OneAccount ==
    ASSUME OwedInv, CountsOn, NEW p \in Publisher,
           NEW sent \in Seq(Topic), NEW got \in Nat, NEW fates \in Seq(Fate),
           NEW at \in LoopAt, NEW list \in Seq(Nat),
           NEW job \in Batch \union {None},
           Accounts(sent, got, fates, at, list, job),
           Becomes(p, sent, got, fates, at, list, job)
    PROVE  OwedInv'
<1>1. PublisherTypeOK'
  BY DEF OwedInv, PublisherTypeOK, CountsOn, Becomes
<1>2. ASSUME NEW q \in Publisher
      PROVE  Accounts(stories[q], taken[q], fate[q], pc[q], pending[q],
                      batch[q])'
  <2>1. CASE q = p
    <3>1. /\ stories'[q] = sent /\ taken'[q] = got /\ fate'[q] = fates
          /\ pc'[q] = at /\ pending'[q] = list /\ batch'[q] = job
      BY <2>1 DEF OwedInv, PublisherTypeOK, Becomes
    <3>2. QED  BY <3>1
  <2>2. CASE q # p
    <3>1. /\ stories'[q] = stories[q] /\ taken'[q] = taken[q]
          /\ fate'[q] = fate[q] /\ pc'[q] = pc[q]
          /\ pending'[q] = pending[q] /\ batch'[q] = batch[q]
      BY <2>2 DEF OwedInv, PublisherTypeOK, Becomes
    <3>2. Accounts(stories[q], taken[q], fate[q], pc[q], pending[q], batch[q])
      BY DEF OwedInv, AccountsInv
    <3>3. QED  BY <3>1, <3>2
  <2>3. QED  BY <2>1, <2>2
<1>3. QED  BY <1>1, <1>2 DEF OwedInv, AccountsInv

LEMMA OwedInit == Init => OwedInv
<1>. SUFFICES ASSUME Init PROVE OwedInv
  OBVIOUS
<1>1. PublisherTypeOK
  BY DEF Init, PublisherTypeOK, LoopAt, Counts
<1>2. ASSUME NEW p \in Publisher
      PROVE  Accounts(stories[p], taken[p], fate[p], pc[p], pending[p],
                      batch[p])
  <2>1. /\ stories[p] = <<>> /\ taken[p] = 0 /\ fate[p] = <<>>
        /\ pc[p] = "receive" /\ pending[p] = <<>> /\ batch[p] = None
    BY DEF Init
  <2>2. Held(<<>>, None) = <<>>
    BY DEF Held
  <2>3. QED  BY <2>1, <2>2 DEF Accounts
<1>3. QED  BY <1>1, <1>2 DEF OwedInv, AccountsInv

\* What the invariant says of one publisher.
LEMMA OwedOfOne ==
    ASSUME OwedInv, NEW p \in Publisher
    PROVE  /\ stories[p] \in Seq(Topic) /\ taken[p] \in Nat
           /\ fate[p] \in Seq(Fate) /\ pc[p] \in LoopAt
           /\ pending[p] \in Seq(Nat) /\ batch[p] \in Batch \union {None}
           /\ nextSeq[p] \in Nat
           /\ stories = [stories EXCEPT ![p] = stories[p]]
           /\ taken = [taken EXCEPT ![p] = taken[p]]
           /\ fate = [fate EXCEPT ![p] = fate[p]]
           /\ pc = [pc EXCEPT ![p] = pc[p]]
           /\ pending = [pending EXCEPT ![p] = pending[p]]
           /\ batch = [batch EXCEPT ![p] = batch[p]]
           /\ Accounts(stories[p], taken[p], fate[p], pc[p], pending[p],
                       batch[p])
<1>1. Accounts(stories[p], taken[p], fate[p], pc[p], pending[p], batch[p])
  BY DEF OwedInv, AccountsInv
<1>2. QED  BY <1>1 DEF OwedInv, PublisherTypeOK

\* The clock, the edge and the end of a channel touch none of it.
LEMMA OwedElsewhere ==
    ASSUME OwedInv, CountsOn,
           UNCHANGED <<stories, taken, fate, pc, pending, batch>>
    PROVE  OwedInv'
BY DEF OwedInv, PublisherTypeOK, AccountsInv, CountsOn

LEMMA OwedSettle ==
    ASSUME OwedInv, NEW p \in Publisher, NEW t \in Topic, Settle(p, t)
    PROVE  OwedInv'
<1>1. /\ CountsOn
      /\ Becomes(p, Append(stories[p], t), taken[p],
                 Append(fate[p], "waiting"), pc[p], pending[p], batch[p])
  BY OwedOfOne
     DEF Settle, Becomes, CountsOn, memory, OwedInv, PublisherTypeOK
<1>2. /\ Accounts(Append(stories[p], t), taken[p], Append(fate[p], "waiting"),
                  pc[p], pending[p], batch[p])
      /\ Append(stories[p], t) \in Seq(Topic)
      /\ Append(fate[p], "waiting") \in Seq(Fate)
  BY OwedOfOne, AccountOfSent
<1>3. QED  BY <1>1, <1>2, OwedOfOne, OneAccount

LEMMA OwedReceive ==
    ASSUME OwedInv, NEW p \in Publisher, Receive(p)
    PROVE  OwedInv'
<1>1. CountsOn
  BY DEF Receive, CountsOn, memory, OwedInv, PublisherTypeOK
<1>2. pc[p] = "receive"
  BY DEF Receive
<1>3. CASE taken[p] < Len(stories[p])
  <2>1. Becomes(p, stories[p], taken[p] + 1, fate[p], "presence",
                Append(pending[p], taken[p] + 1), batch[p])
    BY <1>3, OwedOfOne DEF Receive, Goto, Becomes
  <2>2. /\ Accounts(stories[p], taken[p] + 1, fate[p], "presence",
                    Append(pending[p], taken[p] + 1), batch[p])
        /\ Append(pending[p], taken[p] + 1) \in Seq(Nat)
    BY <1>2, <1>3, OwedOfOne, AccountOfReceived
  <2>3. taken[p] + 1 \in Nat /\ "presence" \in LoopAt
    BY OwedOfOne DEF LoopAt
  <2>4. QED  BY <1>1, <2>1, <2>2, <2>3, OwedOfOne, OneAccount
<1>4. CASE ~(taken[p] < Len(stories[p])) /\ closed[p]
  <2>0. batch[p] = None
    BY <1>2, OwedOfOne DEF Accounts
  <2>1. Becomes(p, stories[p], taken[p], Lost(fate[p]), "stopped", <<>>, None)
    BY <1>4, <2>0, OwedOfOne DEF Receive, Goto, Becomes
  <2>2. taken[p] <= Len(stories[p]) /\ Len(fate[p]) = Len(stories[p])
    BY OwedOfOne DEF Accounts
  <2>3. /\ Accounts(stories[p], taken[p], Lost(fate[p]), "stopped", <<>>, None)
        /\ Lost(fate[p]) \in Seq(Fate)
    <3>1. /\ stories[p] \in Seq(Topic) /\ taken[p] \in Nat
          /\ fate[p] \in Seq(Fate)
      BY OwedOfOne
    <3>2. PICK at : at = "stopped" /\ at # "posting"
      OBVIOUS
    <3>3. /\ Accounts(stories[p], taken[p], Lost(fate[p]), at, <<>>, None)
          /\ Lost(fate[p]) \in Seq(Fate)
      BY <2>2, <3>1, <3>2, AccountOfLost
    <3>4. QED  BY <3>2, <3>3
  <2>4. "stopped" \in LoopAt /\ <<>> \in Seq(Nat) /\ None \in Batch \union {None}
    BY DEF LoopAt
  <2>5. QED  BY <1>1, <2>1, <2>3, <2>4, OwedOfOne, OneAccount
<1>5. CASE ~(taken[p] < Len(stories[p])) /\ ~closed[p]
  <2>1. Becomes(p, stories[p], taken[p], fate[p], "presence", pending[p],
                batch[p])
    BY <1>5, OwedOfOne DEF Receive, Goto, Becomes
  <2>2. Accounts(stories[p], taken[p], fate[p], "presence", pending[p],
                 batch[p])
    BY <1>2, OwedOfOne, AccountOfMove
  <2>3. "presence" \in LoopAt
    BY DEF LoopAt
  <2>4. QED  BY <1>1, <2>1, <2>2, <2>3, OwedOfOne, OneAccount
<1>6. QED  BY <1>3, <1>4, <1>5

\* The loop moves on between two places where no batch is on the wire.
MovesOn(p) ==
    /\ pc[p] # "posting"
    /\ \E at \in LoopAt \ {"posting"} : Goto(p, at)
    /\ UNCHANGED <<stories, taken, fate, pending, batch>>

LEMMA OwedMoves ==
    ASSUME OwedInv, CountsOn, NEW p \in Publisher, MovesOn(p)
    PROVE  OwedInv'
<1>1. PICK at \in LoopAt \ {"posting"} : Goto(p, at)
  BY DEF MovesOn
<1>2. Becomes(p, stories[p], taken[p], fate[p], at, pending[p], batch[p])
  BY <1>1, OwedOfOne DEF MovesOn, Goto, Becomes
<1>3. Accounts(stories[p], taken[p], fate[p], at, pending[p], batch[p])
  BY OwedOfOne, AccountOfMove DEF MovesOn
<1>4. QED  BY <1>2, <1>3, OwedOfOne, OneAccount

LEMMA OwedPublish ==
    ASSUME OwedInv, NEW p \in Publisher, Publish(p)
    PROVE  OwedInv'
<1>1. pc[p] = "decide" /\ PublisherTypeOK
  BY DEF Publish, OwedInv
<1>2. /\ pending[p] \in Seq(Nat) /\ fate[p] \in Seq(Fate)
      /\ stories[p] \in Seq(Topic) /\ taken[p] \in Nat
      /\ Accounts(stories[p], taken[p], fate[p], "decide", pending[p],
                  batch[p])
  BY <1>1, OwedOfOne
<1>3. ASSUME NEW k \in 1..Len(pending[p])
      PROVE  pending[p][k] \in 1..Len(fate[p])
  <2>1. Held(pending[p], batch[p]) = pending[p]
    BY <1>2 DEF Accounts, Held
  <2>2. pending[p][k] \in 1..taken[p] /\ taken[p] <= Len(fate[p])
    BY <1>2, <2>1 DEF Accounts
  <2>3. QED  BY <1>2, <2>2
<1>4. PICK s : s = Summarize(p, pending[p])
  OBVIOUS
<1>5. Decides(s, p, pending[p], Len(pending[p]))
  BY <1>1, <1>2, <1>3, <1>4, SummarizeDecides
<1>6. /\ s.caps \in Seq(Capsule) /\ s.fate \in Seq(Fate)
      /\ s.caps = <<>> => Accounts(stories[p], taken[p], s.fate, "receive",
                                   <<>>, batch[p])
      /\ Accounts(stories[p], taken[p], s.fate, "posting", <<>>,
                  [ids |-> pending[p], caps |-> s.caps])
      /\ [ids |-> pending[p], caps |-> s.caps] \in Batch
  BY <1>1, <1>2, <1>5, AccountOfDecided
<1>7. /\ nextSeq' = [nextSeq EXCEPT ![p] = @ + Len(s.caps)]
      /\ fate' = [fate EXCEPT ![p] = s.fate]
      /\ pending' = [pending EXCEPT ![p] = <<>>]
      /\ IF s.caps = <<>>
         THEN Goto(p, "receive") /\ UNCHANGED batch
         ELSE /\ batch' = [batch EXCEPT ![p] =
                               [ids |-> pending[p], caps |-> s.caps]]
              /\ Goto(p, "posting")
      /\ UNCHANGED <<stories, taken, count>>
  BY <1>4 DEF Publish, channel
<1>8. CountsOn
  <2>1. Len(s.caps) \in Nat /\ nextSeq \in [Publisher -> Nat]
    BY <1>1, <1>6 DEF PublisherTypeOK
  <2>2. QED  BY <1>1, <1>7, <2>1 DEF CountsOn, PublisherTypeOK
<1>9. CASE s.caps = <<>>
  <2>1. Becomes(p, stories[p], taken[p], s.fate, "receive", <<>>, batch[p])
    BY <1>7, <1>9, OwedOfOne DEF Goto, Becomes
  <2>2. "receive" \in LoopAt /\ <<>> \in Seq(Nat)
    BY DEF LoopAt
  <2>3. QED  BY <1>6, <1>8, <1>9, <2>1, <2>2, OwedOfOne, OneAccount
<1>10. CASE s.caps # <<>>
  <2>1. Becomes(p, stories[p], taken[p], s.fate, "posting", <<>>,
                [ids |-> pending[p], caps |-> s.caps])
    BY <1>7, <1>10, OwedOfOne DEF Goto, Becomes
  <2>2. "posting" \in LoopAt /\ <<>> \in Seq(Nat)
    BY DEF LoopAt
  <2>3. QED  BY <1>6, <1>8, <2>1, <2>2, OwedOfOne, OneAccount
<1>11. QED  BY <1>9, <1>10

LEMMA OwedPosted ==
    ASSUME OwedInv, NEW p \in Publisher, Posted(p)
    PROVE  OwedInv'
<1>. DEFINE f == [id \in DOMAIN fate[p] |->
                     IF fate[p][id] = "built" THEN "acked" ELSE fate[p][id]]
<1>1. CountsOn
  BY DEF Posted, memory, CountsOn, OwedInv, PublisherTypeOK
<1>2. Becomes(p, stories[p], taken[p], f, "receive", pending[p], None)
  BY OwedOfOne DEF Posted, channel, Goto, Becomes
<1>3. /\ stories[p] \in Seq(Topic) /\ taken[p] \in Nat
      /\ fate[p] \in Seq(Fate) /\ pending[p] \in Seq(Nat)
      /\ batch[p] \in Batch \union {None}
      /\ Accounts(stories[p], taken[p], fate[p], "posting", pending[p],
                  batch[p])
  BY OwedOfOne DEF Posted
<1>4. /\ Accounts(stories[p], taken[p], f, "receive", pending[p], None)
      /\ f \in Seq(Fate)
  BY <1>3, AccountOfPosted
<1>5. "receive" \in LoopAt /\ None \in Batch \union {None}
  BY DEF LoopAt
<1>. HIDE DEF f
<1>6. QED  BY <1>1, <1>2, <1>3, <1>4, <1>5, OneAccount

LEMMA OwedError ==
    ASSUME OwedInv, CountsOn, NEW p \in Publisher, Error(p),
           UNCHANGED <<stories, taken>>
    PROVE  OwedInv'
<1>1. CASE pc[p] = "posting"
  <2>. DEFINE f == [id \in DOMAIN fate[p] |->
                       IF id \in ToSet(batch[p].ids) THEN "waiting"
                       ELSE fate[p][id]]
              list == pending[p] \o batch[p].ids
  <2>1. Becomes(p, stories[p], taken[p], f, "receive", list, None)
    BY <1>1, OwedOfOne DEF Error, Goto, Becomes
  <2>2. /\ stories[p] \in Seq(Topic) /\ taken[p] \in Nat
        /\ fate[p] \in Seq(Fate) /\ pending[p] \in Seq(Nat)
        /\ batch[p] \in Batch \union {None}
        /\ Accounts(stories[p], taken[p], fate[p], "posting", pending[p],
                    batch[p])
    BY <1>1, OwedOfOne
  <2>3. /\ Accounts(stories[p], taken[p], f, "receive", list, None)
        /\ f \in Seq(Fate) /\ list \in Seq(Nat)
    BY <2>2, AccountOfFailed
  <2>4. "receive" \in LoopAt /\ None \in Batch \union {None}
    BY DEF LoopAt
  <2>. HIDE DEF f, list
  <2>5. QED  BY <2>1, <2>2, <2>3, <2>4, OneAccount
<1>2. CASE pc[p] # "posting"
  <2>1. "decide" \in LoopAt \ {"posting"}
    BY DEF LoopAt
  <2>2. MovesOn(p)
    BY <1>2, <2>1 DEF Error, MovesOn
  <2>3. QED  BY <2>2, OwedMoves
<1>3. QED  BY <1>1, <1>2

LEMMA OwedRestart ==
    ASSUME OwedInv, NEW p \in Publisher, Restart(p)
    PROVE  OwedInv'
<1>1. CountsOn
  BY CountUp DEF Restart, CountsOn, OwedInv, PublisherTypeOK
<1>2. Becomes(p, stories[p], Len(stories[p]), Lost(fate[p]), "receive", <<>>,
              None)
  BY OwedOfOne DEF Restart, Goto, Becomes
<1>3. /\ stories[p] \in Seq(Topic) /\ Len(stories[p]) \in Nat
      /\ fate[p] \in Seq(Fate) /\ Len(fate[p]) = Len(stories[p])
  BY OwedOfOne DEF Accounts
<1>3a. PICK n \in Nat : n = Len(stories[p]) /\ n <= Len(stories[p])
  BY <1>3
<1>4. PICK at : at = "receive" /\ at # "posting" /\ at \in LoopAt
  BY DEF LoopAt
<1>5. /\ Accounts(stories[p], n, Lost(fate[p]), at, <<>>, None)
      /\ Lost(fate[p]) \in Seq(Fate)
  BY <1>3, <1>3a, <1>4, AccountOfLost
<1>6. <<>> \in Seq(Nat) /\ None \in Batch \union {None}
  OBVIOUS
<1>7. QED  BY <1>1, <1>2, <1>3, <1>3a, <1>4, <1>5, <1>6, OneAccount

LEMMA OwedStep == OwedInv /\ [Next]_vars => OwedInv'
<1>. SUFFICES ASSUME OwedInv, [Next]_vars PROVE OwedInv'
  OBVIOUS
<1>. USE DEF channel, memory
<1>1. ASSUME NEW p \in Publisher, NEW t \in Topic, Settle(p, t)
      PROVE  OwedInv'
  BY <1>1, OwedSettle
<1>2. ASSUME NEW p \in Publisher, Receive(p) PROVE OwedInv'
  BY <1>2, OwedReceive
<1>3. ASSUME NEW p \in Publisher, Publish(p) PROVE OwedInv'
  BY <1>3, OwedPublish
<1>4. ASSUME NEW p \in Publisher, Posted(p) PROVE OwedInv'
  BY <1>4, OwedPosted
<1>5. ASSUME NEW p \in Publisher, Restart(p) PROVE OwedInv'
  BY <1>5, OwedRestart
<1>6. ASSUME NEW p \in Publisher, Rejected(p) \/ NoReply(p) PROVE OwedInv'
  <2>1. CountsOn
    BY <1>6, CountUp DEF Rejected, NoReply, CountsOn, OwedInv, PublisherTypeOK
  <2>2. Error(p) /\ UNCHANGED <<stories, taken>>
    BY <1>6 DEF Rejected, NoReply
  <2>3. QED  BY <2>1, <2>2, OwedError
<1>7. ASSUME NEW p \in Publisher,
             \/ Presence(p) \/ Registered(p) \/ Replayed(p) \/ Wait(p)
             \/ SummaryFails(p)
      PROVE  OwedInv'
  <2>1. CountsOn
    BY <1>7, CountUp
       DEF Presence, Registered, Replayed, Wait, SummaryFails, CountsOn,
           OwedInv, PublisherTypeOK
  <2>2. \A at \in {"registering", "replaying", "decide", "receive"} :
           at \in LoopAt \ {"posting"}
    BY DEF LoopAt
  <2>3. MovesOn(p)
    BY <1>7, <2>2 DEF Presence, Registered, Replayed, Wait, SummaryFails,
                      MovesOn
  <2>4. QED  BY <2>1, <2>3, OwedMoves
<1>8. ASSUME NEW p \in Publisher,
             \/ EdgeHandles(p) \/ Close(p)
             \/ \E timer \in {"presence", "interval"} : TimerRunsOut(p, timer)
      PROVE  OwedInv'
  <2>1. CountsOn /\ UNCHANGED <<stories, taken, fate, pc, pending, batch>>
    BY <1>8, CountUp
       DEF EdgeHandles, Close, TimerRunsOut, CountsOn, OwedInv, PublisherTypeOK
  <2>2. QED  BY <2>1, OwedElsewhere
<1>9. ASSUME \/ \E r \in late : EdgeHandlesLate(r)
             \/ EdgeRestarts \/ QuietPeriod
             \/ UNCHANGED vars
      PROVE  OwedInv'
  <2>1. CountsOn /\ UNCHANGED <<stories, taken, fate, pc, pending, batch>>
    BY <1>9, CountUp
       DEF EdgeHandlesLate, EdgeRestarts, QuietPeriod, vars, CountsOn, OwedInv,
           PublisherTypeOK
  <2>2. QED  BY <2>1, OwedElsewhere
<1>10. QED
  BY <1>1, <1>2, <1>3, <1>4, <1>5, <1>6, <1>7, <1>8, <1>9 DEF Next, Step

\* The types of the publishers' state and the account of each are kept.
THEOREM OwedInductive == Spec => []OwedInv
BY OwedInit, OwedStep, PTL DEF Spec

\* A story received is, until it is settled, in exactly one of the two lists
\* the thread of run_serve_publisher keeps, in order and once: failed
\* summaries, rejected and unanswered POSTs put every story of the batch back.
THEOREM NothingIsForgotten == Spec => []NothingForgotten
<1>1. ASSUME OwedInv PROVE NothingForgotten
  <2>1. ASSUME NEW p \in Publisher,
               NEW ids, ids = Held(pending[p], batch[p])
        PROVE  /\ \A i, j \in 1..Len(ids) : i < j => ids[i] < ids[j]
               /\ \A id \in 1..taken[p] :
                     fate[p][id] \in {"waiting", "built"} => id \in ToSet(ids)
    <3>1. Accounts(stories[p], taken[p], fate[p], pc[p], pending[p], batch[p])
      BY <1>1, OwedOfOne
    <3>2. ids \in Seq(Nat)
      BY <1>1, <2>1, <3>1, OwedOfOne, HeldIs DEF Accounts
    <3>3. ToSet(ids) = {ids[i] : i \in 1..Len(ids)}
      BY <3>2 DEF ToSet
    <3>4. QED  BY <2>1, <3>1, <3>3 DEF Accounts
  <2>2. QED  BY <2>1 DEF NothingForgotten, Held
<1>2. QED  BY <1>1, OwedInductive, PTL
=============================================================================
