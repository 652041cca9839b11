------------------------------ MODULE AodvRing ------------------------------
(***************************************************************************)
(* The expanding ring search of RoutingProtocol::SendRequest: a request's  *)
(* TTL grows from TtlStart to TtlThreshold and then jumps to NetDiameter,  *)
(* and only the requests with that TTL are counted against RreqRetries.    *)
(* The state of the ring lives in the routing table entry of the           *)
(* destination, in its hop count and its RREQ count.                       *)
(***************************************************************************)
EXTENDS Naturals

CONSTANTS TtlStart, TtlIncrement, TtlThreshold, NetDiameter, RreqRetries

(* DoInitialize aborts if TtlStart > NetDiameter.  Nothing stops a caller  *)
(* from setting a threshold beyond the diameter.                           *)
ASSUME RingAssumption ==
    /\ TtlStart \in Nat \ {0} /\ TtlIncrement \in Nat \ {0}
    /\ TtlThreshold \in Nat /\ NetDiameter \in Nat
    /\ TtlStart <= NetDiameter
    /\ RreqRetries \in Nat

(* The largest TTL a request can be given.                                 *)
WidestRing == IF TtlThreshold < NetDiameter THEN NetDiameter ELSE TtlThreshold

(* IncrementRreqCnt.  The count is tested for zero and for equality with   *)
(* RreqRetries, so one value stands here for all counts beyond RreqRetries.*)
(* What the program does with them besides, the shift by cnt - 1 that sets *)
(* the retry interval and the width of 8 bits, is left out.                *)
Counted(cnt) == IF cnt > RreqRetries THEN cnt ELSE cnt + 1

(* The TTL of the next request for the destination of entry e.             *)
RequestTtl(e) ==
    CASE e.flag = "NONE"      -> TtlStart
      [] e.flag = "IN_SEARCH" -> IF e.hop + TtlIncrement > TtlThreshold
                                 THEN NetDiameter ELSE e.hop + TtlIncrement
      [] OTHER                -> IF e.hop + TtlIncrement < NetDiameter
                                 THEN e.hop + TtlIncrement ELSE NetDiameter

(* Mutant of SearchEntry: only a repeated request is counted.              *)
SearchEntryUncounted(e) ==
    [e EXCEPT !.flag = "IN_SEARCH", !.hop = RequestTtl(e),
              !.cnt = IF e.flag = "IN_SEARCH" /\ RequestTtl(e) = NetDiameter
                      THEN Counted(@) ELSE @]

(* The entry once the request is sent: flag, hop and count change and      *)
(* everything else is kept.                                                *)
SearchEntry(e) ==
    [e EXCEPT !.flag = "IN_SEARCH", !.hop = RequestTtl(e),
              !.cnt = IF RequestTtl(e) = NetDiameter THEN Counted(@) ELSE @]
=============================================================================
