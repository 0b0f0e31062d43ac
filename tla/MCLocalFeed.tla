---------------------------- MODULE MCLocalFeed ----------------------------
(* An instance of LocalFeed for TLC.                                       *)
EXTENDS LocalFeed

CONSTANTS f1

\* The second story interrupts the stage.
SecondStory == {2}
=============================================================================
