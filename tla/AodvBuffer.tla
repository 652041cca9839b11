----------------------------- MODULE AodvBuffer -----------------------------
(***************************************************************************)
(* What route discovery promises to the packets of the applications: the   *)
(* protocol takes a packet, may hold it, and then sends it or drops it,    *)
(* once and for good.  A route that is found releases the packets of its   *)
(* destination and no others.                                              *)
(***************************************************************************)
CONSTANTS Packet, DstOf

VARIABLE status

Init == status = [p \in Packet |-> "new"]

Hold(p) == status[p] = "new" /\ status' = [status EXCEPT ![p] = "held"]

(* Packets are sent to d, and packets of any destination may be dropped.   *)
Settle(d) ==
    /\ status' # status
    /\ \A p \in Packet :
          \/ status'[p] = status[p]
          \/ /\ status[p] \in {"new", "held"}
             /\ status'[p] = "dropped" \/ (status'[p] = "sent" /\ DstOf[p] = d)

Next == \/ \E p \in Packet : Hold(p)
        \/ \E d \in {DstOf[p] : p \in Packet} : Settle(d)

Spec == Init /\ [][Next]_status
=============================================================================
