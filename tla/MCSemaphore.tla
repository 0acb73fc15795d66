---------------------------- MODULE MCSemaphore ----------------------------
(* Four requests for two slots: two queue, and either may give up.         *)
EXTENDS Semaphore

CONSTANTS r1, r2, r3, r4

MCRequests == {r1, r2, r3, r4}

============================================================================
