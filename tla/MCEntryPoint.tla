---------------------------- MODULE MCEntryPoint ----------------------------
(* Every combination of outputs, or JSON alone; three visitors, again and   *)
(* again.                                                                   *)
EXTENDS EntryPoint

CONSTANTS v1, v2, v3

MCRequests == SUBSET {"json", "html", "pdf"}
MCJSON == {{"json"}}
MCVisitors == {v1, v2, v3}

============================================================================
