----------------------------- MODULE AodvTable -----------------------------
(***************************************************************************)
(* The routing table of one AODV node (aodv-rtable.cc) and the rules by    *)
(* which the handlers of aodv-routing-protocol.cc rewrite it.  A table is  *)
(* a function from every destination to an entry; the flag "NONE" stands   *)
(* for "no entry in the std::map".  Lifetimes are left out: Expire is one  *)
(* stage of RoutingTable::Purge and may happen whenever the user of this   *)
(* module says so.  One interface per node, so the output device and the   *)
(* interface of an entry are left out; so are the blacklist fields, which  *)
(* no reachable code sets (the RREP-ACK timer is never scheduled).         *)
(***************************************************************************)
EXTENDS Naturals

CONSTANTS Node,    \* IPv4 addresses of the AODV interfaces
          NoNode   \* the default-constructed Ipv4Address

ASSUME NoNodeAssumption == NoNode \notin Node

Flags == {"NONE", "VALID", "INVALID", "IN_SEARCH"}

(* RoutingTableEntry: validSeqNo, seqNo, hops, next hop, precursor list,   *)
(* RREQ count.                                                             *)
Entry == [flag : Flags, vseq : BOOLEAN, seq : Nat, hop : Nat,
          nh : Node \cup {NoNode}, prec : SUBSET Node, cnt : Nat]

Table == [Node -> Entry]

NoEntry == [flag |-> "NONE", vseq |-> FALSE, seq |-> 0, hop |-> 0,
            nh |-> NoNode, prec |-> {}, cnt |-> 0]

(* The constructor: a VALID entry without precursors.                      *)
Route(vseq, seq, hop, nh) ==
    [flag |-> "VALID", vseq |-> vseq, seq |-> seq, hop |-> hop,
     nh |-> nh, prec |-> {}, cnt |-> 0]

Has(t, d)   == t[d].flag # "NONE"      \* LookupRoute returns true
Valid(t, d) == t[d].flag = "VALID"     \* LookupValidRoute returns true

(* GetListOfDestinationWithNextHop: whatever the flag of the entry is.     *)
Via(t, x) == {d \in Node : Has(t, d) /\ t[d].nh = x}

(* GetPrecursors, over a set of destinations.                              *)
Precursors(t, D) == UNION {t[d].prec : d \in D}

(* InsertPrecursor on a copy of the entry followed by Update: no effect if *)
(* there is no entry to write the copy back to.                            *)
AddPrecursor(t, d, p) ==
    IF d \in Node /\ Has(t, d) /\ p \in Node
    THEN [t EXCEPT ![d].prec = @ \cup {p}] ELSE t

(* InvalidateRoutesWithDst: only VALID entries change, and only their flag.*)
Invalidate(t, D) ==
    [d \in Node |-> IF d \in D /\ Valid(t, d)
                    THEN [t[d] EXCEPT !.flag = "INVALID", !.cnt = 0]
                    ELSE t[d]]

(* One stage of Purge for an entry whose lifetime is over; an IN_SEARCH    *)
(* entry is never purged.                                                  *)
Expired(t, d) ==
    [t EXCEPT ![d] = IF @.flag = "VALID"
                     THEN [@ EXCEPT !.flag = "INVALID", !.cnt = 0]
                     ELSE NoEntry]

(* UpdateRouteToNeighbor, run for every AODV message before its type is    *)
(* looked at: the entry of the sender survives only if it is one hop away  *)
(* with a valid sequence number, otherwise a fresh one takes its place.    *)
UpdateRouteToNeighbor(t, s) ==
    IF Has(t, s) /\ t[s].vseq /\ t[s].hop = 1
    THEN t ELSE [t EXCEPT ![s] = Route(FALSE, 0, 1, s)]

(* Mutant of ReverseRoute: a new entry leads to the originator itself.     *)
ReverseRouteToOriginator(t, o, oseq, hop, from) ==
    [t EXCEPT ![o] = IF Has(t, o)
                     THEN [@ EXCEPT !.vseq = TRUE, !.nh = from, !.hop = hop]
                     ELSE Route(TRUE, oseq, hop, o)]

(* RecvRequest, reverse route to the originator o.  Flag and precursors of *)
(* an existing entry are kept, and so is its sequence number if it is      *)
(* valid and not older.                                                    *)
Reversed(e, oseq, hop, from) ==
    [e EXCEPT !.seq = IF e.seq < oseq \/ ~e.vseq THEN oseq ELSE e.seq,
              !.vseq = TRUE, !.nh = from, !.hop = hop]

ReverseRoute(t, o, oseq, hop, from) ==
    [t EXCEPT ![o] = IF Has(t, o) THEN Reversed(t[o], oseq, hop, from)
                     ELSE Route(TRUE, oseq, hop, from)]

(* The entry of a node that has just been heard: only the precursors are   *)
(* kept.                                                                   *)
Neighbour(e, vseq, seq, nh) ==
    [e EXCEPT !.flag = "VALID", !.vseq = vseq, !.seq = seq, !.hop = 1,
              !.nh = nh, !.cnt = 0]

(* Mutant of PreviousHop: the originator's number is marked as valid.      *)
PreviousHopTrusted(t, from, oseq) == [t EXCEPT ![from] = Route(TRUE, oseq, 1, from)]

(* RecvRequest, entry of the previous hop.  Its sequence number becomes    *)
(* that of the originator, and is marked as not valid.                     *)
PreviousHop(t, from, oseq) ==
    [t EXCEPT ![from] = IF Has(t, from) THEN Neighbour(t[from], FALSE, oseq, from)
                        ELSE Route(FALSE, oseq, 1, from)]

(* RecvReply: is the route offered by the reply taken into the table?      *)
Accepts(e, dseq, hop) ==
    \/ e.flag = "NONE"
    \/ ~e.vseq
    \/ dseq > e.seq
    \/ dseq = e.seq /\ (e.flag # "VALID" \/ hop < e.hop)

(* ProcessHello.                                                           *)
HelloRoute(t, s, dseq) ==
    [t EXCEPT ![s] = IF Has(t, s) THEN Neighbour(t[s], TRUE, dseq, s)
                     ELSE Route(TRUE, dseq, 1, s)]
=============================================================================
