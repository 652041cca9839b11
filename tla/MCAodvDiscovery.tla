-------------------------- MODULE MCAodvDiscovery --------------------------
(***************************************************************************)
(* Instances of AodvDiscovery for TLC: which packets go where, and over    *)
(* which device their sockets insist to send.                              *)
(***************************************************************************)
EXTENDS AodvDiscovery

CONSTANTS d1, d2, p1, p2, p3, wifi, eth

TwoToD1 == [p \in Packet |-> IF p = p3 THEN d2 ELSE d1]   \* p3 to d2
AllToD1 == [p \in Packet |-> d1]

AnyDevice  == [p \in Packet |-> NoIface]
FirstOnEth == [p \in Packet |-> IF p = p1 THEN eth ELSE NoIface]
=============================================================================
