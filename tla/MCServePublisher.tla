------------------------- MODULE MCServePublisher -------------------------
(* Instances of ServePublisher for TLC.                                    *)
EXTENDS ServePublisher

CONSTANTS p1, p2, change, alarm, noise
===========================================================================
