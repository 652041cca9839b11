----------------------------- MODULE DsdvTable -----------------------------
(***************************************************************************)
(* The tables of one DSDV node (dsdv-rtable.cc) and the rules by which     *)
(* RecvDsdv and the two update procedures of dsdv-routing-protocol.cc      *)
(* rewrite them.                                                           *)
(*                                                                         *)
(*   main   m_routingTable, the routes in use                              *)
(*   adv    m_advRoutingTable, routes on their way to the neighbours       *)
(*   event  m_ipv4Events of the advertised table: the settling timer       *)
(*                                                                         *)
(* A RoutingTableEntry is copied by value except for its Ipv4Route, which  *)
(* holds the next hop and is shared by all copies.  "shared" says that the *)
(* advertised entry and the main entry are such copies: SetNextHop on one  *)
(* then changes the other as well.  Lifetimes are reduced to "old", past   *)
(* the hold-down time.  One interface per node; all entries are VALID.     *)
(***************************************************************************)
EXTENDS Naturals

CONSTANTS Node,    \* addresses, ordered as numbers
          NoNode   \* no address

ASSUME NodeAssumption == Node \subseteq Nat /\ NoNode \notin Node

Even(s) == s % 2 = 0     \* an odd number announces a broken route

NoRoute  == [on |-> FALSE, seq |-> 0, hop |-> 0, nh |-> NoNode,
             changed |-> FALSE, old |-> FALSE]
NoAdvert == [on |-> FALSE, seq |-> 0, hop |-> 0, nh |-> NoNode,
             changed |-> FALSE, shared |-> FALSE]

MainEntry == {NoRoute} \cup
             [on : {TRUE}, seq : Nat, hop : Nat, nh : Node, changed : BOOLEAN, old : BOOLEAN]
AdvEntry  == {NoAdvert} \cup
             [on : {TRUE}, seq : Nat, hop : Nat, nh : Node, changed : BOOLEAN, shared : BOOLEAN]
Tables == [main  : [Node -> MainEntry],
           adv   : [Node -> AdvEntry],
           event : [Node -> {"none", "pending", "expired"}]]

Empty == [main  |-> [d \in Node |-> NoRoute],
          adv   |-> [d \in Node |-> NoAdvert],
          event |-> [d \in Node |-> "none"]]

(* A copy of an advertised entry written to the main table, and back.      *)
AsRoute(a) == [on |-> TRUE, seq |-> a.seq, hop |-> a.hop, nh |-> a.nh,
               changed |-> a.changed, old |-> FALSE]
AsAdvert(e, shared) == [on |-> TRUE, seq |-> e.seq, hop |-> e.hop, nh |-> e.nh,
                        changed |-> e.changed, shared |-> shared]

Heard(seq, hop, from, shared) ==
    [on |-> TRUE, seq |-> seq, hop |-> hop, nh |-> from,
     changed |-> TRUE, shared |-> shared]

Settling(t, d) == t.event[d] = "pending"               \* AnyRunningEvent
Using(t, x)    == {d \in Node : t.main[d].on /\ t.main[d].nh = x}

(* DeleteRoute on the main table, for a set of destinations.               *)
DropMain(t, D) ==
    [t EXCEPT !.main = [d \in Node |-> IF d \in D THEN NoRoute ELSE @[d]],
              !.adv  = [d \in Node |-> IF d \in D /\ @[d].on
                                       THEN [@[d] EXCEPT !.shared = FALSE] ELSE @[d]]]

(* AddRoute on the advertised table: an entry that is there already stays. *)
Announce(t, D, adv) ==
    [t EXCEPT !.adv = [d \in Node |-> IF d \in D /\ ~@[d].on THEN adv[d] ELSE @[d]]]

(* The entries of D, marked as broken, as they leave the main table.       *)
Broken(t, D) ==
    [d \in D |-> [on |-> TRUE, seq |-> t.main[d].seq + 1, hop |-> t.main[d].hop,
                  nh |-> t.main[d].nh, changed |-> TRUE, shared |-> FALSE]]

(* Mutant: nothing is dropped. *)
DiscardNothing(t, d) == t

(* The end of an update that is not taken.                                 *)
Discard(t, d) == IF Settling(t, d) THEN t ELSE [t EXCEPT !.adv[d] = NoAdvert]

(* RecvDsdv on an address without a route.                                 *)
NewRoute(t, d, seq, hop, from) ==
    LET a == Heard(seq, hop, from, ~t.adv[d].on)
    IN  Announce([t EXCEPT !.main[d] = AsRoute(a)], {d}, [x \in {d} |-> a])

(* Before anything else is done about an address with a route, the main    *)
(* entry is copied to the advertised table unless there is one.            *)
WithAdvert(t, d) == Announce(t, {d}, [x \in {d} |-> AsAdvert(t.main[x], TRUE)])

(* Better number and another metric, or same number and better metric.     *)
Settle(t, d, seq, hop, from) ==
    LET a == Heard(seq, hop, from, TRUE)
    IN  [t EXCEPT !.main[d] = AsRoute(a), !.adv[d] = a, !.event[d] = "pending"]

(* Better number, same metric: the advertised table only, but for the next *)
(* hop, which the two entries share.                                       *)
SameMetric(t, d, seq, hop, from) ==
    [t EXCEPT !.main[d].nh = IF t.adv[d].shared THEN from ELSE @,
              !.adv[d]     = Heard(seq, hop, from, @.shared),
              !.event[d]   = "none"]

(* Mutant: drops the entry before it copies it. *)
DropThenCopy(t, d, from) ==
    LET u == Discard(t, d)
    IN  IF Settling(t, d) \/ t.adv[d].nh # from THEN u
        ELSE [u EXCEPT !.main[d] = AsRoute(u.adv[d])]

(* Same number, same or worse metric.                                      *)
Duplicate(t, d, from) ==
    IF Settling(t, d) \/ t.adv[d].nh # from
    THEN Discard(t, d)
    ELSE Discard([t EXCEPT !.main[d] = AsRoute(t.adv[d])], d)

(* The next hop itself announces that its route is broken: this one and    *)
(* all that lead to the same address are given up.                         *)
Break(t, d, seq) ==
    LET lost == Using(t, d)
        a    == [t.adv[d] EXCEPT !.seq = seq, !.changed = TRUE]
    IN  DropMain(Announce([t EXCEPT !.adv[d] = a], lost, Broken(t, lost)),
                 lost \cup {d})

(* The entries that an update procedure takes out of the advertised table, *)
(* and what it does with them.  Even entries overwrite the main entry, if  *)
(* there is one.                                                           *)
Ready(t) == {d \in Node : t.adv[d].on /\ t.adv[d].changed /\ ~Settling(t, d)}

Flush(t) ==
    [t EXCEPT
       !.main = [d \in Node |->
                   IF d \in Ready(t) /\ Even(t.adv[d].seq) /\ @[d].on
                   THEN [AsRoute(t.adv[d]) EXCEPT !.changed = FALSE] ELSE @[d]],
       !.adv  = [d \in Node |-> IF d \in Ready(t) THEN NoAdvert ELSE @[d]]]

(* DeleteIpv4Event, which SendTriggeredUpdate calls and the merge does not. *)
ForgetEvents(t, D) ==
    [t EXCEPT !.event = [d \in Node |-> IF d \in D THEN "none" ELSE @[d]]]

(* RoutingTable::Purge visits the entries in the order of their addresses. *)
(* An old one takes with it all that lead to it, except those with the     *)
(* same metric; what is gone already takes nothing with it.                *)
Purged(m) ==
    LET old == {d \in Node : m[d].on /\ m[d].old /\ m[d].hop > 0}
        takes(i, j) == m[j].on /\ m[j].nh = i /\ m[j].hop # m[i].hop
        left[d \in Nat] == \A i \in old : i < d /\ left[i] => ~takes(i, d)
        visited == {d \in old : left[d]}
    IN  visited \cup {d \in Node : \E i \in visited : takes(i, d)}
=============================================================================
