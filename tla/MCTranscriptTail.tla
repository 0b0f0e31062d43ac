-------------------------- MODULE MCTranscriptTail --------------------------
(* Instances of TranscriptTail for TLC.                                    *)
EXTENDS TranscriptTail

CONSTANTS f1, f2

\* The meta data of the session and of a turn come first.
FirstLines == {1, 2}
SecondLine == {2}

\* A transcript that goes on, and one of a single line.
LongAndShort == [f \in File |-> IF f = f1 THEN 3 ELSE 1]
===========================================================================
