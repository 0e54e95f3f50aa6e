---------------------------- MODULE MCFcmListener -----------------------------
(* A small instance of FcmListener for TLC: a history that holds fewer ids than   *)
(* there are messages, the last of which may be one that does not decode.         *)
EXTENDS FcmListener

NoMessage == {}
LastMessage == {MaxMessage}
===============================================================================
