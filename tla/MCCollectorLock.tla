-------------------------- MODULE MCCollectorLock --------------------------
(* Two request ids, three timestamps and up to three events: responses     *)
(* before their requests, ties, and a get() between any two steps.         *)
EXTENDS CollectorLock

CONSTANTS id1, id2, p1

MCReqIDs == {id1, id2}
MCParams == {p1}

============================================================================
