---------------------------- MODULE OlsrRouting ----------------------------
(***************************************************************************)
(* Nodes running olsr-routing-protocol.cc, from the first HELLO on, while  *)
(* links break.  One interface per node, so no MID and no HNA messages.    *)
(*                                                                         *)
(* Holding times are three times the interval of the messages that renew   *)
(* them: a tuple expires when there are no Renewals any more, not when     *)
(* one is lost.  The timer of a tuple runs 1 us after it has expired, so   *)
(* the two are one step.  A frame reaches all neighbours before any node   *)
(* sends again: jitter is far longer than the way through the air.         *)
(***************************************************************************)
EXTENDS OlsrMpr, Sequences, SequencesExt

CONSTANTS Networks, \* networks to look at
          Will,     \* willingness of each node
          MsgId,    \* message sequence numbers that TC messages use in turn
          MaxAnsn   \* bound: m_ansn up to which the timer of an asymmetric link runs

(* The nodes there are; the links; those of them that come up late, and    *)
(* those that may break then.                                              *)
Network == [node : SUBSET Node, link : SUBSET (Node \X Node),
            late : SUBSET (Node \X Node), fragile : SUBSET (Node \X Node)]

ASSUME RoutingAssumption == /\ IsFiniteSet(Node)
                            /\ Networks \subseteq Network
                            /\ \A w \in Networks : /\ w.late \subseteq w.link
                                                   /\ \A n \in Node : <<n, n>> \notin w.link
                            /\ Will \in [Node -> Willingness]
                            /\ MaxAnsn \in Nat

VARIABLES st,     \* OlsrState, routing table, m_ansn, m_linkTupleTimerFirstTime
          queue,  \* m_queuedMessages
          net,    \* the network, and what may still happen to it
          up      \* pairs <<m, n>> now: n is in range of m

vars == <<st, queue, net, up>>

(* A link tuple: its three times say whether the neighbour was heard       *)
(* ("asym"), has said that it hears this node ("sym"), or neither any more *)
(* ("lost").  A neighbour tuple exists whenever a link tuple does.         *)
LinkState == {"none", "asym", "sym", "lost"}
NbStatus  == {"none", "not_sym", "sym"}

Topology == [last : Node, dest : Node, seq : Nat]
NoEntry  == [dist |-> 0, next |-> 0]

Fresh == [link  |-> [m \in Node |-> "none"],
          nb    |-> [m \in Node |-> "none"],
          two   |-> {}, mpr |-> {}, sel |-> {}, topo |-> {}, dup |-> {},
          ansn  |-> 0,         \* stands for 65535, which is never sent
          first |-> TRUE,
          table |-> [d \in Node |-> NoEntry]]

(* A HELLO says of a neighbour its link type and neighbour type, or        *)
(* nothing.                                                                *)
Silent == <<"silent", "silent">>
Hello(says) == [kind |-> "hello", says |-> says]
Tc(n, id, ansn, adv) == [kind |-> "tc", orig |-> n, id |-> id, ansn |-> ansn, adv |-> adv]

Init == /\ st = [n \in Node |-> Fresh]
        /\ queue = [n \in Node |-> <<>>]
        /\ net \in Networks
        /\ up = net.link \ net.late

-----------------------------------------------------------------------------
(* Routing table *)

SymNeighbors(s) == {m \in Node : s.nb[m] = "sym"}

OneHop(s) == [d \in Node |-> IF s.nb[d] = "sym" /\ s.link[d] # "none"
                             THEN [dist |-> 1, next |-> d] ELSE NoEntry]

(* Mutant: the neighbour is taken as the next hop without a look at its    *)
(* own entry.                                                              *)
WithTupleUnchecked(tb, t) == [tb EXCEPT ![t[2]] = [dist |-> 2, next |-> t[1]]]

WithTuple(tb, t) == IF tb[t[1]] = NoEntry THEN tb
                    ELSE [tb EXCEPT ![t[2]] = [dist |-> 2, next |-> tb[t[1]].next]]

TwoHopTable(s, order) ==
    LET after[i \in 0 .. Len(order)] ==
          IF i = 0 THEN OneHop(s) ELSE WithTuple(after[i - 1], order[i])
    IN  after[Len(order)]

(* The 2-hop tuples in the order of their set, which is any: the last one  *)
(* that finds an entry for its neighbour wins.                             *)
TwoHopTables(n, s) ==
    LET T == {t \in s.two : /\ t[2] # n /\ s.nb[t[2]] # "sym"
                            /\ s.nb[t[1]] # "none" /\ Will[t[1]] # NEVER}
    IN  {TwoHopTable(s, order) : order \in SetToSeqs(T)}

(* Rounds h = 2, 3, ...: of several topology tuples to one node any may be *)
(* first.                                                                  *)
Leading(s, tb, h, d) ==
    {t \in s.topo : t.dest = d /\ tb[t.last] # NoEntry /\ tb[t.last].dist = h}

Extended(s, tb, h) ==
    LET D == {d \in Node : tb[d] = NoEntry /\ Leading(s, tb, h, d) # {}}
    IN  {[d \in Node |-> IF d \in D THEN [dist |-> h + 1, next |-> tb[via[d].last].next]
                         ELSE tb[d]]
         : via \in {f \in [D -> s.topo] : \A d \in D : f[d] \in Leading(s, tb, h, d)}}

Tables(n, s) ==
    LET after[h \in 1 .. Cardinality(Node)] ==
          IF h = 1 THEN TwoHopTables(n, s)
          ELSE UNION {Extended(s, tb, h) : tb \in after[h - 1]}
    IN  after[Cardinality(Node)]

RoutingTableComputation(n, s) == {[s EXCEPT !.table = tb] : tb \in Tables(n, s)}

MprComputation(n, s) ==
    {[s EXCEPT !.mpr = M] :
       M \in MprSets([self |-> n, nbr |-> SymNeighbors(s), two |-> s.two, will |-> Will])}

-----------------------------------------------------------------------------
(* Messages received: each operator gives the states that node n may be in *)
(* after it, from state s.                                                 *)

(* Mutant: a neighbour that is heard is symmetric. *)
LinkSensingHeard(n, s, from, says) ==
    [s EXCEPT !.link[from] = "sym", !.nb[from] = "sym"]

(* LinkSensing, with the neighbour tuple (LinkTupleAdded, LinkTupleUpdated). *)
(* A new neighbour tuple counts in the ANSN; one that is created and       *)
(* updated at once is inserted twice.                                      *)
LinkSensing(n, s, from, says) ==
    LET said == says[n]
        l    == CASE said[1] = "lost"                              -> "asym"
                  [] said[1] = "asym" \/ (said[1] = "sym" /\ said[2] # "not") -> "sym"
                  [] s.link[from] = "sym"                          -> "sym"
                  [] OTHER                                         -> "asym"
        new  == IF s.link[from] # "none" THEN 0 ELSE IF said = Silent THEN 1 ELSE 2
    IN  [s EXCEPT !.link[from] = l,
                  !.nb[from] = IF l = "sym" THEN "sym" ELSE "not_sym",
                  !.ansn = @ + new]

PopulateTwoHopNeighborSet(n, s, from, says) ==
    IF s.link[from] # "sym" THEN s
    ELSE [s EXCEPT !.two = {t \in @ : ~(t[1] = from /\ says[t[2]][2] = "not")}
                           \cup {<<from, z>> : z \in {x \in Node : x # n /\ says[x][2] \in {"sym", "mpr"}}}]

PopulateMprSelectorSet(n, s, from, says) ==
    IF says[n][2] = "mpr" /\ from \notin s.sel
    THEN [s EXCEPT !.sel = @ \cup {from}, !.ansn = @ + 1] ELSE s

ProcessHello(n, s, from, says) ==
    {PopulateMprSelectorSet(n, r, from, says) :
       r \in MprComputation(n, PopulateTwoHopNeighborSet(n, LinkSensing(n, s, from, says), from, says))}

ProcessTc(s, from, m) ==
    IF s.link[from] # "sym" \/ \E t \in s.topo : t.last = m.orig /\ t.seq > m.ansn
    THEN s
    ELSE LET kept == {t \in s.topo : t.last = m.orig => t.seq >= m.ansn}
             new  == {d \in m.adv : ~\E t \in kept : t.last = m.orig /\ t.dest = d}
         IN  [s EXCEPT !.topo = kept \cup {[last |-> m.orig, dest |-> d, seq |-> m.ansn] : d \in new}]

(* ForwardDefault: what is queued, and the duplicate tuple.                *)
IsDuplicate(s, m) == <<m.orig, m.id>> \in s.dup
Considers(n, s, from, m) ==
    m.kind = "tc" /\ m.orig # n /\ ~IsDuplicate(s, m) /\ s.link[from] = "sym"

(* RecvOlsr: one message, with the messages queued so far.                 *)
Handle(n, r, from, m) ==
    LET s == r.s
    IN  IF m.kind = "hello"
        THEN {[s |-> t, q |-> r.q] : t \in ProcessHello(n, s, from, m.says)}
        ELSE IF m.orig = n \/ IsDuplicate(s, m) THEN {r}
        ELSE LET t == ProcessTc(s, from, m)
             IN  IF ~Considers(n, s, from, m) THEN {[s |-> t, q |-> r.q]}
                 ELSE {[s |-> [t EXCEPT !.dup = @ \cup {<<m.orig, m.id>>}],
                        q |-> IF from \in s.sel THEN Append(r.q, m) ELSE r.q]}

(* NeighborLoss *)
NeighborLoss(n, s, m) ==
    UNION {RoutingTableComputation(n, r) :
             r \in MprComputation(n, [s EXCEPT !.nb[m] = "not_sym",
                                               !.two = {t \in @ : t[1] # m},
                                               !.sel = @ \ {m}])}

(* LinkTupleTimerExpire for a link that is not symmetric (any more): the   *)
(* very first time at this node nothing is done.                           *)
LinkTupleTimerExpire(n, s, m) ==
    IF s.first THEN {[s EXCEPT !.first = FALSE]} ELSE NeighborLoss(n, s, m)

(* RecvOlsr on a packet: all its messages, then the routing table.         *)
Handled(n, from, p) ==
    LET after[i \in 0 .. Len(p)] ==
          IF i = 0 THEN {[s |-> st[n], q |-> queue[n]]}
          ELSE UNION {Handle(n, r, from, p[i]) : r \in after[i - 1]}
    IN  after[Len(p)]

Computed(n, r) == {[s |-> t, q |-> r.q] : t \in RoutingTableComputation(n, r.s)}

(* The timer of a new link that is not symmetric runs at once.             *)
RecvOlsr(n, from, p) ==
    UNION {IF st[n].link[from] = "none" /\ r.s.link[from] = "asym"
           THEN {[s |-> t, q |-> r.q] : t \in LinkTupleTimerExpire(n, r.s, from)}
           ELSE {r} : r \in UNION {Computed(n, h) : h \in Handled(n, from, p)}}

-----------------------------------------------------------------------------
(* Messages sent *)

Has(n, kind) == \E i \in DOMAIN queue[n] : queue[n][i].kind = kind

(* Mutant: looks for a symmetric neighbour first. *)
NeighborTypeSymFirst(s, m) == IF s.nb[m] = "sym" THEN "sym" ELSE IF m \in s.mpr THEN "mpr" ELSE "not"

(* SendHello: link type and neighbour type of every link tuple.            *)
NeighborType(s, m) == IF m \in s.mpr THEN "mpr" ELSE IF s.nb[m] = "sym" THEN "sym" ELSE "not"
SaysOf(s) == [m \in Node |-> IF s.link[m] = "none" THEN Silent
                             ELSE <<s.link[m], NeighborType(s, m)>>]

(* All nodes start at once and have the same interval, and a HELLO leaves  *)
(* within a quarter of it: the timers of all nodes run together, when the  *)
(* messages of the last round are gone.                                    *)
HelloDue == \A n \in Node : ~Has(n, "hello")
HelloTimerExpire ==
    /\ HelloDue
    /\ queue' = [n \in Node |-> IF n \in net.node THEN Append(queue[n], Hello(SaysOf(st[n])))
                                ELSE <<>>]
    /\ UNCHANGED <<st, net, up>>

(* The same for TC messages, which are relayed at most once by each node.  *)
(* A node that no one has chosen sends none.  The number is one that is in *)
(* no duplicate set any more.                                              *)
Unused(n) == {i \in MsgId : \A m \in Node : <<n, i>> \notin st[m].dup}
Chosen == {n \in Node : st[n].sel # {}}

TcDue == Chosen # {} /\ \A n \in Node : ~Has(n, "tc") /\ (n \in Chosen => Unused(n) # {})
TcTimerExpire ==
    /\ TcDue
    /\ queue' = [n \in Node |->
                   IF n \in Chosen
                   THEN Append(queue[n], Tc(n, CHOOSE i \in Unused(n) : TRUE, st[n].ansn, st[n].sel))
                   ELSE queue[n]]
    /\ UNCHANGED <<st, net, up>>

SendQueuedMessages(n) ==
    LET to == {m \in Node : <<n, m>> \in up}
    IN  /\ queue[n] # <<>>
        /\ \E r \in {f \in [to -> UNION {RecvOlsr(m, n, queue[n]) : m \in to}] :
                       \A m \in to : f[m] \in RecvOlsr(m, n, queue[n])} :
             /\ st' = [m \in Node |-> IF m \in to THEN r[m].s ELSE st[m]]
             /\ queue' = [m \in Node |-> IF m = n THEN <<>>
                                         ELSE IF m \in to THEN r[m].q ELSE queue[m]]
        /\ UNCHANGED <<net, up>>

-----------------------------------------------------------------------------
(* Time and links *)

(* What the HELLO messages of m, the next one and those queued, say to n:  *)
(* what can still renew a tuple of n.                                      *)
Renewals(m, n) ==
    IF <<m, n>> \notin up THEN {}
    ELSE {SaysOf(st[m])}
           \cup {queue[m][i].says : i \in {j \in DOMAIN queue[m] : queue[m][j].kind = "hello"}}

Becomes(n, S) == \E s \in S : st' = [st EXCEPT ![n] = s]

(* The symmetric time runs out, and with it perhaps the asymmetric time.   *)
SymTimeDue(n, m) == /\ st[n].link[m] = "sym"
                    /\ \A says \in Renewals(m, n) : says[n][1] \notin {"sym", "asym"}
SymTimeEnds(n, m) ==
    /\ SymTimeDue(n, m)
    /\ LET l == IF <<m, n>> \in up THEN "asym" ELSE "lost"
       IN  Becomes(n, LinkTupleTimerExpire(n, [st[n] EXCEPT !.link[m] = l], m))
    /\ UNCHANGED <<queue, net, up>>

AsymTimeDue(n, m) == st[n].link[m] = "asym" /\ <<m, n>> \notin up
AsymTimeEnds(n, m) ==
    /\ AsymTimeDue(n, m)
    /\ st' = [st EXCEPT ![n].link[m] = "lost"]
    /\ UNCHANGED <<queue, net, up>>

(* The timer of a link that has not been symmetric for a while.            *)
StillNotSym(n, m) ==
    /\ st[n].link[m] = "asym" /\ st[n].ansn < MaxAnsn
    /\ Becomes(n, LinkTupleTimerExpire(n, st[n], m))
    /\ UNCHANGED <<queue, net, up>>

(* RemoveLinkTuple: nothing is computed anew.                              *)
LinkTimeDue(n, m) == st[n].link[m] = "lost" /\ <<m, n>> \notin up
(* Mutant: the neighbour tuple stays. *)
LinkTimeEndsForLink(n, m) ==
    /\ LinkTimeDue(n, m)
    /\ st' = [st EXCEPT ![n].link[m] = "none"]
    /\ UNCHANGED <<queue, net, up>>

LinkTimeEnds(n, m) ==
    /\ LinkTimeDue(n, m)
    /\ st' = [st EXCEPT ![n].link[m] = "none", ![n].nb[m] = "none"]
    /\ UNCHANGED <<queue, net, up>>

Nb2hopTupleDue(n, t) ==
    /\ t \in st[n].two
    /\ st[n].link[t[1]] = "sym" =>
         \A says \in Renewals(t[1], n) : says[t[2]][2] \notin {"sym", "mpr"}
Nb2hopTupleTimerExpire(n, t) ==
    /\ Nb2hopTupleDue(n, t)
    /\ st' = [st EXCEPT ![n].two = @ \ {t}]
    /\ UNCHANGED <<queue, net, up>>

(* Mutant: the tuple is looked for in the set of the own relays. *)
MprSelTupleDueForMpr(n, m) ==
    m \in st[n].sel \cap st[n].mpr /\ \A says \in Renewals(m, n) : says[n][2] # "mpr"

MprSelTupleDue(n, m) ==
    m \in st[n].sel /\ \A says \in Renewals(m, n) : says[n][2] # "mpr"
MprSelTupleTimerExpire(n, m) ==
    /\ MprSelTupleDue(n, m)
    /\ st' = [st EXCEPT ![n].sel = @ \ {m}, ![n].ansn = @ + 1]
    /\ UNCHANGED <<queue, net, up>>

(* No TC says so any more, or none comes through.                          *)
NoTcUnderWay == \A m \in Node : ~Has(m, "tc")
TopologyTupleDue(n, t) ==
    /\ t \in st[n].topo
    /\ t.dest \notin st[t.last].sel \/ st[n].table[t.last] = NoEntry
    /\ NoTcUnderWay
TopologyTupleTimerExpire(n, t) ==
    /\ TopologyTupleDue(n, t)
    /\ st' = [st EXCEPT ![n].topo = @ \ {t}]
    /\ UNCHANGED <<queue, net, up>>

(* 30 s after it was seen last, a message is long gone; the nodes forget   *)
(* it within the same second.                                              *)
DupTupleDue(k) == (\E n \in Node : k \in st[n].dup) /\ NoTcUnderWay
DupTupleTimerExpire(k) ==
    /\ DupTupleDue(k)
    /\ st' = [n \in Node |-> [st[n] EXCEPT !.dup = @ \ {k}]]
    /\ UNCHANGED <<queue, net, up>>

(* A link comes up late.                                                   *)
Appear(m, n) ==
    /\ <<m, n>> \in net.late
    /\ up' = up \cup {<<m, n>>}
    /\ net' = [net EXCEPT !.late = @ \ {<<m, n>>}]
    /\ UNCHANGED <<st, queue>>

(* One or both directions of a link break; only one link does.             *)
Break(m, n) ==
    /\ <<m, n>> \in net.fragile /\ net.late = {}
    /\ \/ up' = up \ {<<m, n>>, <<n, m>>}
       \/ up' = up \ {<<m, n>>}
    /\ net' = [net EXCEPT !.fragile = {}]
    /\ UNCHANGED <<st, queue>>

LinkExpires(n)  == \E m \in Node : SymTimeEnds(n, m) \/ AsymTimeEnds(n, m) \/ LinkTimeEnds(n, m)
TwoHopExpires(n) == \E t \in st[n].two : Nb2hopTupleTimerExpire(n, t)
MprSelExpires(n) == \E m \in Node : MprSelTupleTimerExpire(n, m)
TopologyExpires(n) == \E t \in st[n].topo : TopologyTupleTimerExpire(n, t)
DupExpires == \E k \in Node \X MsgId : DupTupleTimerExpire(k)

Next ==
    \/ HelloTimerExpire \/ TcTimerExpire \/ DupExpires
    \/ \E n \in Node : \/ SendQueuedMessages(n) \/ LinkExpires(n) \/ TwoHopExpires(n)
                       \/ MprSelExpires(n) \/ TopologyExpires(n)
    \/ \E m, n \in Node : StillNotSym(n, m) \/ Appear(m, n) \/ Break(m, n)

Spec == Init /\ [][Next]_vars

(* The simulator runs what is scheduled: the timers of the messages, that  *)
(* of the queue and those of the tuples.                                   *)
Fairness ==
    /\ WF_vars(HelloTimerExpire) /\ WF_vars(TcTimerExpire) /\ WF_vars(DupExpires)
    /\ \A n \in Node : /\ WF_vars(SendQueuedMessages(n)) /\ WF_vars(LinkExpires(n))
                       /\ WF_vars(TwoHopExpires(n)) /\ WF_vars(MprSelExpires(n))
                       /\ WF_vars(TopologyExpires(n))

FairSpec == Spec /\ Fairness

(* The same for every timer by itself, said by the guards: each event      *)
(* disables itself, so it occurs unless it is due for ever.                *)
TimersRun ==
    /\ []<>~HelloDue /\ []<>~TcDue
    /\ \A n \in Node : []<>(queue[n] = <<>>)
    /\ \A n, m \in Node : []<>~(SymTimeDue(n, m) \/ AsymTimeDue(n, m) \/ LinkTimeDue(n, m))
    /\ \A n, m \in Node : []<>~MprSelTupleDue(n, m)
    /\ \A n \in Node : []<>~(\E t \in st[n].two : Nb2hopTupleDue(n, t))
    /\ \A n \in Node : []<>~(\E t \in st[n].topo : TopologyTupleDue(n, t))
    /\ \A k \in Node \X MsgId : []<>~DupTupleDue(k)

TimedSpec == Spec /\ TimersRun

-----------------------------------------------------------------------------
(* Properties *)

(* The sets of a node and its table are what the C++ types allow, a node   *)
(* is neither its own neighbour nor its own relay, and a neighbour tuple   *)
(* goes with its link tuple (olsr-repositories.h).                         *)
TypeOK ==
    /\ \A n \in Node :
         LET s == st[n]
         IN  /\ s.link \in [Node -> LinkState] /\ s.nb \in [Node -> NbStatus]
             /\ \A m \in Node : s.link[m] = "none" <=> s.nb[m] = "none"
             /\ s.link[n] = "none"
             /\ s.two \subseteq Node \X Node /\ s.mpr \subseteq Node \ {n}
             /\ s.sel \subseteq Node \ {n} /\ s.topo \subseteq Topology
             /\ s.dup \subseteq Node \X MsgId
             /\ s.ansn \in Nat /\ s.first \in BOOLEAN
             /\ \A d \in Node : s.table[d] = NoEntry
                                 \/ s.table[d] \in [dist : 1 .. Cardinality(Node), next : Node]
    /\ net.link \subseteq Node \X Node /\ net.late \cap up = {}
    /\ up \subseteq net.link

(* Whatever a node knows or uses goes over links that work in both         *)
(* directions: its symmetric neighbours, their neighbours, its relays and  *)
(* selectors, advertised links and next hops.  It takes the HELLO messages *)
(* of both ends, one after the other, to find out (LinkSensing, 1980).     *)
TwoWay == {l \in net.link : <<l[2], l[1]>> \in net.link}
OnlyTwoWay ==
    \A n \in Node :
      LET s == st[n]
      IN  /\ \A m \in SymNeighbors(s) \cup s.mpr \cup s.sel : <<n, m>> \in TwoWay
          /\ s.two \subseteq TwoWay
          /\ \A t \in s.topo : <<t.last, t.dest>> \in TwoWay
          /\ \A d \in Node : s.table[d] # NoEntry => <<n, s.table[d].next>> \in TwoWay

(* FindSendEntry never fails (NS_FATAL_ERROR in RouteOutput and            *)
(* RouteInput): the next hop of an entry has an entry of its own that      *)
(* leads to itself, although the table is put together from sets that      *)
(* change at different times.                                              *)
SendEntryFound ==
    \A n, d \in Node :
      LET e == st[n].table[d]
      IN  e # NoEntry => st[n].table[e.next] = [dist |-> 1, next |-> e.next]

(* Are these the distances from n over the links that now work in both     *)
(* directions? (0: none)                                                   *)
Now == {l \in up : <<l[2], l[1]>> \in up}
Shortest(n, dist) ==
    \A d \in Node \ {n} :
      LET before == {dist[y] : y \in {x \in Node \ {n} : <<x, d>> \in Now /\ dist[x] # 0}}
      IN  IF <<n, d>> \in Now THEN dist[d] = 1
          ELSE IF before = {} THEN dist[d] = 0
          ELSE dist[d] - 1 \in before /\ \A k \in before : dist[d] <= k + 1

Hears(n) == \E m \in Node : <<m, n>> \in up

(* After the last change every node that still receives something has a    *)
(* shortest route to each node that can be reached and none to the others. *)
RoutesSettle ==
    <>[](\A n \in Node : Hears(n) => Shortest(n, [d \in Node |-> st[n].table[d].dist]))

(* ... and knows exactly which nodes have it as a relay.                   *)
SelectorsSettle ==
    <>[](\A l \in up : l[1] \in st[l[2]].sel <=> l[2] \in st[l[1]].mpr)

(* LinkTupleTimerExpire: "if symmetric time has expired then it is assumed *)
(* a neighbor loss" (olsr-routing-protocol.h), so that a node does not     *)
(* keep a route over a link that is gone.                                  *)
LossIsNoticed ==
    <>[](\A n, d \in Node :
           st[n].table[d] # NoEntry => <<st[n].table[d].next, n>> \in up)
=============================================================================
