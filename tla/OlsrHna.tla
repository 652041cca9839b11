------------------------------ MODULE OlsrHna ------------------------------
(***************************************************************************)
(* Routes to networks outside the MANET at one node: host and network      *)
(* associations (HNA) of olsr-routing-protocol.cc.  The rest of the OLSR   *)
(* state changes as it likes: whenever the routing table is computed, any  *)
(* table may be the result.                                                *)
(***************************************************************************)
EXTENDS Naturals, Sequences, SequencesExt

CONSTANTS Gateway,  \* other nodes that announce networks
          Net,      \* networks outside the MANET
          MaxDist   \* bound: distances in the routing table

VARIABLES assoc,  \* AssociationSet, in its order: gateway and network
          local,  \* Associations: networks announced by the node itself
          table,  \* the routing table, for the gateways: 0 is no entry
          hna     \* m_hnaRoutingTable: network, gateway (the next hop), metric

vars == <<assoc, local, table, hna>>

Tuple == Gateway \X Net
Route == [net : Net, via : Gateway, metric : Nat]

Init == /\ assoc = <<>> /\ local = {}
        /\ table = [g \in Gateway |-> 0]
        /\ hna = <<>>

(* "Clear HNA routing table": the counter of the loop goes up while the    *)
(* number of routes goes down.                                             *)
ClearHna(routes) == SubSeq(routes, (Len(routes) + 1) \div 2 + 1, Len(routes))

(* One association: the first route to its network stays unless the        *)
(* gateway is nearer.  (Each gateway here is its own next hop.)            *)
WithAssociation(tb, routes, t) ==
    LET at  == {i \in DOMAIN routes : routes[i].net = t[2]}
        i   == CHOOSE x \in at : \A y \in at : x <= y
        new == [net |-> t[2], via |-> t[1], metric |-> tb[t[1]]]
    IN  CASE tb[t[1]] = 0 \/ t[2] \in local             -> routes
          [] tb[t[1]] # 0 /\ t[2] \notin local /\ at = {} -> Append(routes, new)
          [] OTHER -> IF routes[i].metric > tb[t[1]] THEN Append(RemoveAt(routes, i), new)
                      ELSE routes

(* RoutingTableComputation, with associations a.                           *)
Computed(tb, a) ==
    /\ table' = tb
    /\ hna' = LET with(routes, t) == WithAssociation(tb, routes, t)
              IN  FoldLeft(with, ClearHna(hna), a)

SomeTable == [Gateway -> 0 .. MaxDist]

(* RecvOlsr: a packet, with an HNA message of g for the networks N in it   *)
(* (ProcessHna) or with others.                                            *)
RecvOlsr(g, N) ==
    /\ \E order \in SetToSeqs({<<g, x>> : x \in N} \ ToSet(assoc)) :
         /\ assoc' = assoc \o order
         /\ \E tb \in SomeTable : Computed(tb, assoc')
    /\ UNCHANGED local

(* NeighborLoss computes the table, too.                                   *)
NeighborLoss == /\ \E tb \in SomeTable : Computed(tb, assoc)
                /\ UNCHANGED <<assoc, local>>

AssociationTupleTimerExpire(t) ==
    /\ Contains(assoc, t)
    /\ assoc' = SelectSeq(assoc, LAMBDA x : x # t)
    /\ UNCHANGED <<local, table, hna>>

AddHostNetworkAssociation(x) ==
    /\ local' = local \cup {x}
    /\ UNCHANGED <<assoc, table, hna>>

RemoveHostNetworkAssociation(x) ==
    /\ local' = local \ {x}
    /\ UNCHANGED <<assoc, table, hna>>

Next == \/ \E g \in Gateway, N \in SUBSET Net : RecvOlsr(g, N)
        \/ NeighborLoss
        \/ \E t \in Tuple : AssociationTupleTimerExpire(t)
        \/ \E x \in Net : AddHostNetworkAssociation(x) \/ RemoveHostNetworkAssociation(x)

Spec == Init /\ [][Next]_vars

(* "Clear HNA routing table" (line 1230): routes to networks are built     *)
(* anew with the routing table, so that each is as long as the route to    *)
(* its gateway in the same table, and no two go to the same network.       *)
NetworkRoutesAreCurrent ==
    /\ \A i \in DOMAIN hna : hna[i].metric = table[hna[i].via]
    /\ \A i, j \in DOMAIN hna : hna[i].net = hna[j].net => i = j
=============================================================================
