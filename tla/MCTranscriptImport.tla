-------------------------- MODULE MCTranscriptImport --------------------------
(* A test and a watched deployment command in two projects; a text that may not be shown. *)
EXTENDS TranscriptImport

CONSTANTS Root, RepoA, RepoB, c1, c2

MCProjectOf ==
    [d \in {Root, RepoA, RepoB, DefaultDir, CustomDir} |->
       CASE d = Root -> "repos" [] d = RepoA -> "a" [] d = RepoB -> "b" [] OTHER -> "work"]
MCGenericProjects == {"repos"}
MCTurnDirs == {RepoA}
MCCallSpec ==
    [c \in Calls |->
       IF c = c1 THEN [tool |-> "exec_command", cwd |-> RepoB,
                       command |-> Command("test", TRUE, Absent, FALSE)]
       ELSE [tool |-> "exec_command", cwd |-> Absent,
             command |-> Command("deploy", FALSE, Absent, TRUE)]]
MCCallOrders == {<<c1, c2>>, <<c2, c1>>}
MCEndings == {[ok |-> TRUE, full |-> TRUE], [ok |-> FALSE, full |-> FALSE]}
MCTexts == {Text("said", "b", TRUE)}
MCLastTexts == {[Text("secret", Absent, FALSE) EXCEPT !.private = TRUE]}
MCReply == [Text("answer", Absent, TRUE) EXCEPT !.form = "summary"]
===============================================================================
