----------------------------- MODULE MCStartup ------------------------------
(***************************************************************************)
(* Two instances, each with a URL of its own.                              *)
(***************************************************************************)
EXTENDS Startup

CONSTANTS u1, u2

TwoInstances == 1 .. Last
TwoUrls == {u1, u2}
OwnUrl == [c \in Client |-> IF c = 1 THEN u1 ELSE u2]
Numbers == 1 .. MaxRunners
=============================================================================
