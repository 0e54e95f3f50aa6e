---------------------------- MODULE MCNativeHandle ----------------------------
(* A small instance of NativeHandle for TLC.                                       *)
EXTENDS NativeHandle

CONSTANTS t1, t2, a1, a2
===============================================================================
