----------------------------- MODULE MCPageScan -----------------------------
(* One request id, one timestamp, one cookie; Network and Page stand for   *)
(* the six domains, whose requests all follow one protocol.                *)
EXTENDS PageScan

CONSTANTS id1, c1

MCReqIDs == {id1}
MCCookies == {c1}
MCDomains == <<"Network.enable", "Page.enable">>

============================================================================
