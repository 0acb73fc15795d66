---------------------------- MODULE MCScanServer ----------------------------
(* Two requests of any enabled type, again and again, for one slot.        *)
EXTENDS ScanServer

CONSTANTS r1, r2

MCPair == {r1, r2}

============================================================================
