--------------------------- MODULE MCLocalServer ---------------------------
(* An instance of LocalServer for TLC.                                     *)
EXTENDS LocalServer

CONSTANTS s1, s2, r1, r2, token

\* The right token, the right one behind a wrong one, and none at all.
Credentials ==
    {[header |-> token,   bearer |-> NoToken, displayParam |-> NoToken, tokenParam |-> NoToken],
     [header |-> NoToken, bearer |-> "wrong", displayParam |-> token,   tokenParam |-> NoToken],
     [header |-> NoToken, bearer |-> NoToken, displayParam |-> NoToken, tokenParam |-> NoToken]}
=============================================================================
