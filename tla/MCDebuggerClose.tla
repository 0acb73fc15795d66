--------------------------- MODULE MCDebuggerClose ---------------------------
(* A queue of two places, so that it fills.                                 *)
EXTENDS DebuggerClose
============================================================================
