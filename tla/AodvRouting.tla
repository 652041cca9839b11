---------------------------- MODULE AodvRouting ----------------------------
(***************************************************************************)
(* A network of AODV nodes: route discovery, replies, route errors, hello  *)
(* messages, link failures and the data packets that use the routes        *)
(* (src/aodv/model/aodv-routing-protocol.cc).  One action per event        *)
(* handler.  A message in flight is a record per receiver; a record that   *)
(* is never received is a lost frame, and the sets give no order, which is *)
(* what the 0-10 ms send jitter and the MAC queue allow.  Lifetimes are    *)
(* abstracted by Expire.  The queue's contents, the order of the requests  *)
(* put off and the retry intervals are the subject of AodvDiscovery.       *)
(***************************************************************************)
EXTENDS AodvTable, AodvRing, FiniteSets

CONSTANTS Link,            \* pairs of nodes in radio range, symmetric
          Flow,            \* pairs <<source, destination>> of applications
          RreqRateLimit, RerrRateLimit,
          GratuitousReply, DestinationOnly,
          EnableHello,     \* the nodes where it is set
          SlowTimers,      \* lifetimes are longer than any frame's delay
          MaxPackets,      \* bound: packets the applications send
          MaxSeq,          \* bound: requests each node originates
          MaxFaults        \* bound: expiries and link failures in a run

ASSUME LinkAssumption ==
    /\ Link \subseteq Node \X Node
    /\ \A a, b \in Node : <<a, b>> \in Link => a # b /\ <<b, a>> \in Link
ASSUME FlowAssumption ==
    Flow \subseteq Node \X Node /\ \A f \in Flow : f[1] # f[2]
ASSUME ParameterAssumption ==
    /\ RreqRateLimit \in Nat /\ RerrRateLimit \in Nat
    /\ {GratuitousReply, DestinationOnly, SlowTimers} \subseteq BOOLEAN
    /\ EnableHello \subseteq Node
    /\ MaxPackets \in Nat /\ MaxFaults \in Nat /\ MaxSeq \in [Node -> Nat]

VARIABLES rt,        \* m_routingTable
          seqNo,     \* m_seqNo
          reqId,     \* m_requestId
          seen,      \* m_rreqIdCache: pairs <<originator, id>>
          nb,        \* m_nb
          rerrCount, \* m_rerrCount
          loop,      \* destinations of packets sent to the loopback device
          waiting,   \* destinations of packets in m_queue
          timer,     \* destinations whose m_addressReqTimer is running
          rreqCount, \* m_rreqCount
          deferred,  \* how many calls of SendRequest wait for the rate limit
          rreq, rrep, rerr, ack, data,   \* messages in flight
          sent,      \* packets the applications have sent
          faults     \* expiries and link failures so far

tables   == <<rt, nb>>
own      == <<seqNo, reqId, seen>>
limit    == <<rreqCount, deferred>>
queues   == <<waiting, timer, limit>>
counters == <<sent, faults>>
vars == <<rt, seqNo, reqId, seen, nb, rerrCount, loop, waiting, timer,
          rreqCount, deferred, rreq, rrep, rerr, ack, data, sent, faults>>

Neighbours(n) == {x \in Node : <<n, x>> \in Link}

RreqMessage == [to : Node, from : Node, orig : Node, id : Nat, oseq : Nat,
                dst : Node, unk : BOOLEAN, dseq : Nat, hop : Nat, ttl : Nat,
                grat : BOOLEAN, only : BOOLEAN]
RrepMessage == [to : Node, from : Node, orig : Node, dst : Node,
                dseq : Nat, hop : Nat, ttl : Nat, ack : BOOLEAN]
RerrMessage == [to : Node, from : Node, dests : SUBSET Node]
AckMessage  == [to : Node, from : Node]
DataMessage == [to : Node, from : Node, src : Node, dst : Node]

Init ==
    /\ rt = [n \in Node |-> [d \in Node |-> NoEntry]]
    /\ seqNo = [n \in Node |-> 0]
    /\ reqId = [n \in Node |-> 0]
    /\ seen = [n \in Node |-> {}]
    /\ nb = [n \in Node |-> {}]
    /\ rerrCount = [n \in Node |-> 0]
    /\ loop = [n \in Node |-> {}]
    /\ waiting = [n \in Node |-> {}]
    /\ timer = [n \in Node |-> {}]
    /\ rreqCount = [n \in Node |-> 0]
    /\ deferred = [n \in Node |-> [d \in Node |-> 0]]
    /\ rreq = {} /\ rrep = {} /\ rerr = {} /\ ack = {} /\ data = {}
    /\ sent = 0 /\ faults = 0

-----------------------------------------------------------------------------
(* Sending.                                                                *)

(* A unicast to a neighbour without a VALID entry in table t comes back    *)
(* through the loopback device, as any packet of this node does.           *)
Unrouted(t, S) == {x \in S : ~Valid(t, x)}

(* The packets of m_queue for d leave through the entry's gateway.         *)
Flush(n, t, d) ==
    IF d \in waiting[n] /\ t[d].nh \in Node
    THEN {[to |-> t[d].nh, from |-> n, src |-> n, dst |-> d]} ELSE {}

(* Mutant of RerrUnicast: the rate limit is not tested.                    *)
RerrUnicastUnlimited(n, t, D) ==
    {p \in Node : Precursors(t, D) = {p} /\ Valid(t, p)}

(* SendRerrMessage: the receivers of the error for the destinations D that *)
(* node n, with table t, finds unreachable.                                *)
RerrUnicast(n, t, D) ==
    IF rerrCount[n] = RerrRateLimit THEN {}
    ELSE {p \in Node : Precursors(t, D) = {p} /\ Valid(t, p)}

RerrBroadcast(n, t, D) ==
    IF \/ rerrCount[n] = RerrRateLimit
       \/ \E p \in Node : Precursors(t, D) = {p}
       \/ ~\E p \in Precursors(t, D) : Valid(t, p)
    THEN {} ELSE Neighbours(n)

RerrMessages(n, t, D) ==
    {[to |-> x, from |-> n, dests |-> D] :
        x \in RerrUnicast(n, t, D) \cup RerrBroadcast(n, t, D)}

(* Only the unicast error is charged to the rate limit.                    *)
RerrCharge(n, t, D) == IF RerrUnicast(n, t, D) = {} THEN 0 ELSE 1

(* Destinations named by SendRerrWhenBreaksLinkToNextHop for the lost      *)
(* neighbour x; it returns early when there is no entry for x.             *)
Broken(t, x) ==
    IF x \in Node /\ Has(t, x) THEN {x} \cup Via(t, x) ELSE {}

(* Neighbors::Update purges the list when it opens a link: a neighbour x   *)
(* that has timed out is then lost in the middle of the handler.           *)
Lost(n, new) == {NoNode} \cup (IF new \subseteq nb[n] \/ faults = MaxFaults
                               THEN {} ELSE nb[n] \ new)

Charge(x) == /\ faults' = IF x = NoNode THEN faults ELSE faults + 1
             /\ sent' = sent

(* The table once the handler that reached t has lost neighbour x there.   *)
After(t, x) == Invalidate(t, Broken(t, x))

(* Node n, with table t, reports the destinations D: sets rerr', rerrCount'*)
(* and loop', where "used" are the neighbours the handler unicasts to.     *)
Report(n, t, D, inFlight, used) ==
    /\ rerr' = inFlight \cup RerrMessages(n, t, D)
    /\ rerrCount' = [rerrCount EXCEPT ![n] = @ + RerrCharge(n, t, D)]
    /\ loop' = [loop EXCEPT ![n] = @ \cup
                  Unrouted(Invalidate(t, D), used \cup RerrUnicast(n, t, D))]

(* SendRerrWhenBreaksLinkToNextHop for x, while "new" joins the list.      *)
LoseNeighbour(n, t, x, new, used) ==
    /\ Report(n, t, Broken(t, x), rerr, used)
    /\ nb' = [nb EXCEPT ![n] = (@ \cup new) \ {x}]

-----------------------------------------------------------------------------
(* Originating: RouteOutput, DeferredRouteOutput, SendRequest.             *)

SendData(n, d) ==
    /\ <<n, d>> \in Flow /\ sent < MaxPackets
    /\ sent' = sent + 1
    /\ IF Valid(rt[n], d)
       THEN /\ data' = data \cup
                 {[to |-> rt[n][d].nh, from |-> n, src |-> n, dst |-> d]}
            /\ UNCHANGED loop
       ELSE /\ loop' = [loop EXCEPT ![n] = @ \cup {d}]
            /\ UNCHANGED data
    /\ UNCHANGED <<tables, own, queues, rerrCount, rreq, rrep, rerr, ack, faults>>

(* Mutant of FloodRequest: the request id stays the same.                  *)
FloodRequestSameId(n, d) ==
    LET e == rt[n][d]
    IN  /\ seqNo[n] < MaxSeq[n]
        /\ rt' = [rt EXCEPT ![n][d] = SearchEntry(e)]
        /\ seqNo' = [seqNo EXCEPT ![n] = @ + 1]
        /\ reqId' = reqId
        /\ seen' = [seen EXCEPT ![n] = @ \cup {<<n, reqId[n]>>}]
        /\ rreq' = rreq \cup
             {[to |-> x, from |-> n, orig |-> n, id |-> reqId[n],
               oseq |-> seqNo[n] + 1, dst |-> d, unk |-> ~e.vseq,
               dseq |-> IF e.vseq THEN e.seq ELSE 0, hop |-> 0,
               ttl |-> RequestTtl(e), grat |-> GratuitousReply,
               only |-> DestinationOnly] : x \in Neighbours(n)}

(* The request that SendRequest broadcasts; the bound MaxSeq is a guard.   *)
FloodRequest(n, d) ==
    LET e == rt[n][d]
    IN  /\ seqNo[n] < MaxSeq[n]
        /\ rt' = [rt EXCEPT ![n][d] = SearchEntry(e)]
        /\ seqNo' = [seqNo EXCEPT ![n] = @ + 1]
        /\ reqId' = [reqId EXCEPT ![n] = @ + 1]
        /\ seen' = [seen EXCEPT ![n] = @ \cup {<<n, reqId[n] + 1>>}]
        /\ rreq' = rreq \cup
             {[to |-> x, from |-> n, orig |-> n, id |-> reqId[n] + 1,
               oseq |-> seqNo[n] + 1, dst |-> d, unk |-> ~e.vseq,
               dseq |-> IF e.vseq THEN e.seq ELSE 0, hop |-> 0,
               ttl |-> RequestTtl(e), grat |-> GratuitousReply,
               only |-> DestinationOnly] : x \in Neighbours(n)}

(* Mutant of SendRequest: a call beyond the rate limit is dropped.         *)
SendRequestOrForget(n, d, pending, running) ==
    IF rreqCount[n] = RreqRateLimit
    THEN /\ deferred' = [deferred EXCEPT ![n] = pending]
         /\ timer' = [timer EXCEPT ![n] = running]
         /\ UNCHANGED <<rt, own, rreq, rreqCount>>
    ELSE /\ FloodRequest(n, d)
         /\ rreqCount' = [rreqCount EXCEPT ![n] = @ + 1]
         /\ deferred' = [deferred EXCEPT ![n] = pending]
         /\ timer' = [timer EXCEPT ![n] = running \cup {d}]

(* SendRequest and ScheduleRreqRetry, while the calls "pending" are put    *)
(* off and the timers "running" go on.  Beyond the rate limit the call is  *)
(* put off and nothing else happens.                                       *)
SendRequest(n, d, pending, running) ==
    IF rreqCount[n] = RreqRateLimit
    THEN /\ deferred' = [deferred EXCEPT ![n] = [pending EXCEPT ![d] = @ + 1]]
         /\ timer' = [timer EXCEPT ![n] = running]
         /\ UNCHANGED <<rt, own, rreq, rreqCount>>
    ELSE /\ FloodRequest(n, d)
         /\ rreqCount' = [rreqCount EXCEPT ![n] = @ + 1]
         /\ deferred' = [deferred EXCEPT ![n] = pending]
         /\ timer' = [timer EXCEPT ![n] = running \cup {d}]

(* The packet returns from the loopback device.  A route found meanwhile   *)
(* does not stop the request: only a search under way does.                *)
DeferredRouteOutput(n, d) ==
    /\ d \in loop[n]
    /\ loop' = [loop EXCEPT ![n] = @ \ {d}]
    /\ waiting' = [waiting EXCEPT ![n] = @ \cup {d}]
    /\ IF rt[n][d].flag = "IN_SEARCH"
       THEN UNCHANGED <<rt, own, timer, limit, rreq>>
       ELSE SendRequest(n, d, deferred[n], timer[n])
    /\ UNCHANGED <<nb, rerrCount, rrep, rerr, ack, data, counters>>

(* A call put off is made again once the limit is lifted.                  *)
SendDeferredRequest(n, d) ==
    /\ deferred[n][d] > 0 /\ rreqCount[n] # RreqRateLimit
    /\ SendRequest(n, d, [deferred[n] EXCEPT ![d] = @ - 1], timer[n])
    /\ UNCHANGED <<nb, rerrCount, loop, waiting, rrep, rerr, ack, data, counters>>

RreqRateLimitTimerExpire(n) ==
    /\ rreqCount[n] > 0
    /\ rreqCount' = [rreqCount EXCEPT ![n] = 0]
    /\ UNCHANGED <<tables, own, rerrCount, loop, waiting, timer, deferred, rreq,
                   rrep, rerr, ack, data, counters>>

(* Mutant of RouteRequestTimerExpire: a search that is given up keeps the  *)
(* packets that wait for it.                                               *)
GiveUpKeepsPackets(n, d) ==
    /\ d \in timer[n] /\ ~Valid(rt[n], d)
    /\ rt' = [rt EXCEPT ![n][d] = NoEntry]
    /\ timer' = [timer EXCEPT ![n] = @ \ {d}]
    /\ UNCHANGED <<own, rreq, data, nb, rerrCount, loop, waiting, limit, rrep,
                   rerr, ack, counters>>

(* RouteRequestTimerExpire: the route was found, the search is repeated,   *)
(* or it is given up with all the packets that wait for it.                *)
RouteRequestTimerExpire(n, d) ==
    /\ d \in timer[n]
    /\ \/ /\ Valid(rt[n], d)
          /\ data' = data \cup Flush(n, rt[n], d)
          /\ waiting' = [waiting EXCEPT ![n] = @ \ {d}]
          /\ timer' = [timer EXCEPT ![n] = @ \ {d}]
          /\ UNCHANGED <<rt, own, rreq, limit>>
       \/ /\ rt[n][d].flag = "IN_SEARCH" /\ rt[n][d].cnt # RreqRetries
          /\ SendRequest(n, d, deferred[n], timer[n] \ {d})
          /\ UNCHANGED <<data, waiting>>
       \/ /\ ~Valid(rt[n], d)
          /\ rt[n][d].flag # "IN_SEARCH" \/ rt[n][d].cnt = RreqRetries
          /\ rt' = [rt EXCEPT ![n][d] = NoEntry]
          /\ waiting' = [waiting EXCEPT ![n] = @ \ {d}]
          /\ timer' = [timer EXCEPT ![n] = @ \ {d}]
          /\ UNCHANGED <<own, rreq, data, limit>>
    /\ UNCHANGED <<nb, rerrCount, loop, rrep, rerr, ack, counters>>

-----------------------------------------------------------------------------
(* Route requests.                                                         *)

Forget(m) == rreq' = rreq \ {m}

(* The table once UpdateRouteToNeighbor, the reverse route and the entry   *)
(* of the previous hop have been written.                                  *)
RequestTable(m) ==
    PreviousHop(ReverseRoute(UpdateRouteToNeighbor(rt[m.to], m.from),
                             m.orig, m.oseq, m.hop + 1, m.from),
                m.from, m.oseq)

(* Mutant of Fresh: the id is looked up under the sender's address.        *)
FreshBySender(m) == <<m.from, m.id>> \notin seen[m.to]

Fresh(m) == <<m.orig, m.id>> \notin seen[m.to]

RecvDuplicateRequest(m) ==
    /\ m \in rreq /\ ~Fresh(m)
    /\ Forget(m)
    /\ rt' = [rt EXCEPT ![m.to] = UpdateRouteToNeighbor(@, m.from)]
    /\ UNCHANGED <<own, nb, rerrCount, loop, queues, rrep, rerr, ack, data,
                   counters>>

(* What every fresh request does before it is answered, dropped or         *)
(* relayed.  A neighbour x may be lost when m.from joins the list.         *)
Learn(m, x) ==
    /\ m \in rreq /\ Fresh(m)
    /\ x \in Lost(m.to, {m.from})
    /\ seen' = [seen EXCEPT ![m.to] = @ \cup {<<m.orig, m.id>>}]
    /\ Charge(x)

(* Mutant of RecvRequestAsDestination: a destination always answers with a *)
(* number of its own that is new.                                          *)
AnswerWithNewNumber(m, x) ==
    LET n == m.to
        t == RequestTable(m)
        o == After(t, x)[m.orig]
    IN  /\ Learn(m, x) /\ m.dst = n
        /\ rt' = [rt EXCEPT ![n] = After(t, x)]
        /\ LoseNeighbour(n, t, x, {m.from}, {o.nh})
        /\ seqNo' = [seqNo EXCEPT ![n] = @ + 1]
        /\ Forget(m)
        /\ rrep' = rrep \cup {[to |-> o.nh, from |-> n, orig |-> m.orig,
                               dst |-> n, dseq |-> seqNo[n] + 1, hop |-> 0,
                               ttl |-> o.hop, ack |-> FALSE]}
        /\ UNCHANGED <<reqId, queues, ack, data>>

(* SendReply.                                                              *)
RecvRequestAsDestination(m, x) ==
    LET n  == m.to
        t  == RequestTable(m)
        o  == After(t, x)[m.orig]
        sn == IF ~m.unk /\ m.dseq = seqNo[n] + 1
              THEN seqNo[n] + 1 ELSE seqNo[n]
    IN  /\ Learn(m, x) /\ m.dst = n
        /\ rt' = [rt EXCEPT ![n] = After(t, x)]
        /\ LoseNeighbour(n, t, x, {m.from}, {o.nh})
        /\ seqNo' = [seqNo EXCEPT ![n] = sn]
        /\ Forget(m)
        /\ rrep' = rrep \cup {[to |-> o.nh, from |-> n, orig |-> m.orig,
                               dst |-> n, dseq |-> sn, hop |-> 0,
                               ttl |-> o.hop, ack |-> FALSE]}
        /\ UNCHANGED <<reqId, queues, ack, data>>

(* The known sequence number is at least the one asked for.                *)
UpToDate(e, m) == e.vseq /\ (m.unk \/ e.seq >= m.dseq)

(* Mutant of RecvRequestAsIntermediate: the entries are read before the    *)
(* sender joins the neighbours, and written back after that.               *)
AnswerFromCopies(m, x) ==
    LET n == m.to
        t == RequestTable(m)
        d == t[m.dst]
        o == t[m.orig]
        u == After(t, x)
    IN  /\ Learn(m, x) /\ m.dst # n
        /\ Valid(t, m.dst) /\ d.nh # m.from /\ UpToDate(d, m) /\ ~m.only
        /\ rt' = [rt EXCEPT ![n] =
                    [u EXCEPT ![m.dst] = AddPrecursor(t, m.dst, o.nh)[m.dst],
                              ![m.orig] = AddPrecursor(t, m.orig, d.nh)[m.orig]]]
        /\ LoseNeighbour(n, t, x, {m.from}, {o.nh})
        /\ Forget(m)
        /\ rrep' = rrep \cup {[to |-> o.nh, from |-> n, orig |-> m.orig,
                               dst |-> m.dst, dseq |-> d.seq, hop |-> d.hop,
                               ttl |-> o.hop, ack |-> d.hop = 1]}
        /\ UNCHANGED <<seqNo, reqId, queues, ack, data>>

(* SendReplyByIntermediateNode, with the gratuitous reply to the           *)
(* destination.  Both precursor lists are written back.                    *)
RecvRequestAsIntermediate(m, x) ==
    LET n  == m.to
        t1 == RequestTable(m)
        t  == After(t1, x)
        d  == t[m.dst]
        o  == t[m.orig]
    IN  /\ Learn(m, x) /\ m.dst # n
        /\ Valid(t, m.dst) /\ d.nh # m.from
        /\ UpToDate(d, m) /\ ~m.only
        /\ rt' = [rt EXCEPT ![n] =
                    AddPrecursor(AddPrecursor(t, m.dst, o.nh), m.orig, d.nh)]
        /\ LoseNeighbour(n, t1, x, {m.from},
                         {o.nh} \cup (IF m.grat THEN {d.nh} ELSE {}))
        /\ Forget(m)
        /\ rrep' = rrep
             \cup {[to |-> o.nh, from |-> n, orig |-> m.orig, dst |-> m.dst,
                    dseq |-> d.seq, hop |-> d.hop, ttl |-> o.hop,
                    ack |-> d.hop = 1]}
             \cup (IF m.grat
                   THEN {[to |-> d.nh, from |-> n, orig |-> m.dst,
                          dst |-> m.orig, dseq |-> o.seq, hop |-> o.hop,
                          ttl |-> d.hop, ack |-> FALSE]}
                   ELSE {})
        /\ UNCHANGED <<seqNo, reqId, queues, ack, data>>

(* Mutant of Relayed: the TTL is not decremented.                          *)
RelayedSameTtl(m, y, t) == [m EXCEPT !.to = y, !.from = m.to, !.hop = @ + 1]

(* The request that m's receiver, with table t, sends to y: it asks for    *)
(* the sequence number this node knows if that is at least the one asked.  *)
Relayed(m, y, t) ==
    LET newer == Has(t, m.dst) /\ UpToDate(t[m.dst], m)
    IN  [m EXCEPT !.to = y, !.from = m.to, !.hop = @ + 1, !.ttl = @ - 1,
                  !.unk = @ /\ ~newer,
                  !.dseq = IF newer THEN t[m.dst].seq ELSE @]

(* The request goes on, unless it came from the next hop to its            *)
(* destination or its TTL is used up.                                      *)
RelayRequest(m, x) ==
    LET n  == m.to
        t1 == RequestTable(m)
        t  == After(t1, x)
        d  == t[m.dst]
    IN  /\ Learn(m, x) /\ m.dst # n
        /\ ~(Valid(t, m.dst) /\ d.nh # m.from /\ UpToDate(d, m) /\ ~m.only)
        /\ rt' = [rt EXCEPT ![n] = t]
        /\ LoseNeighbour(n, t1, x, {m.from}, {})
        /\ rreq' = (rreq \ {m}) \cup
             (IF m.ttl < 2 \/ (Has(t, m.dst) /\ d.nh = m.from) THEN {}
              ELSE {Relayed(m, y, t) : y \in Neighbours(n)})
        /\ UNCHANGED <<seqNo, reqId, queues, rrep, ack, data>>

-----------------------------------------------------------------------------
(* Replies, hello messages and acknowledgements.                           *)

IsHello(m) == m.dst = m.orig

(* UpdateRouteToNeighbor, then the offered route if it is accepted.        *)
Offered(m) == Route(TRUE, m.dseq, m.hop + 1, m.from)

ReplyTable(m) ==
    LET t == UpdateRouteToNeighbor(rt[m.to], m.from)
    IN  IF Accepts(t[m.dst], m.dseq, m.hop + 1)
        THEN [t EXCEPT ![m.dst] = Offered(m)] ELSE t

Acknowledge(m) ==
    /\ rrep' = rrep \ {m}
    /\ ack' = IF m.ack THEN ack \cup {[to |-> m.from, from |-> m.to]} ELSE ack

(* The reply reaches the node that asked.  If the destination was still    *)
(* under search the reply replaces the entry whatever it says.             *)
RecvReplyAsOrigin(m) ==
    LET n == m.to
        searching ==
          UpdateRouteToNeighbor(rt[n], m.from)[m.dst].flag = "IN_SEARCH"
        t == IF searching THEN [ReplyTable(m) EXCEPT ![m.dst] = Offered(m)]
             ELSE ReplyTable(m)
    IN  /\ m \in rrep /\ ~IsHello(m) /\ m.orig = n
        /\ Acknowledge(m)
        /\ rt' = [rt EXCEPT ![n] = t]
        /\ timer' = IF searching THEN [timer EXCEPT ![n] = @ \ {m.dst}]
                    ELSE timer
        /\ data' = data \cup Flush(n, t, m.dst)
        /\ waiting' = [waiting EXCEPT ![n] = @ \ {m.dst}]
        /\ loop' = [loop EXCEPT ![n] = @ \cup
                      Unrouted(ReplyTable(m), IF m.ack THEN {m.from} ELSE {})]
        /\ UNCHANGED <<own, nb, rerrCount, limit, rreq, rerr, counters>>

(* Precursors written when a reply passes: the last two writes are of      *)
(* copies of the entries read before.                                      *)
PassReply(t, dst, orig) ==
    IF ~Valid(t, dst) THEN t
    ELSE LET p  == t[orig].nh
             q  == t[dst].nh
             t1 == AddPrecursor(AddPrecursor(t, dst, p), q, p)
             t2 == IF q \in Node
                   THEN [t1 EXCEPT ![orig] =
                           [t[orig] EXCEPT !.prec = @ \cup {q}]]
                   ELSE t1
         IN  AddPrecursor(t2, p, q)

RelayReply(m) ==
    LET n == m.to
        t == ReplyTable(m)
        o == t[m.orig]
        known == Has(t, m.orig) /\ o.flag # "IN_SEARCH"
        goes  == known /\ m.ttl >= 2
    IN  /\ m \in rrep /\ ~IsHello(m) /\ m.orig # n
        /\ rt' = [rt EXCEPT ![n] = IF known THEN PassReply(t, m.dst, m.orig)
                                   ELSE t]
        /\ ack' = IF m.ack THEN ack \cup {[to |-> m.from, from |-> n]} ELSE ack
        /\ rrep' = (rrep \ {m}) \cup
             (IF goes THEN {[m EXCEPT !.to = o.nh, !.from = n, !.hop = @ + 1,
                               !.ttl = @ - 1, !.ack = FALSE]}
              ELSE {})
        /\ loop' = [loop EXCEPT ![n] = @ \cup
                      Unrouted(t, (IF m.ack THEN {m.from} ELSE {}) \cup
                                  (IF goes THEN {o.nh} ELSE {}))]
        /\ UNCHANGED <<own, nb, rerrCount, queues, rreq, rerr, data, counters>>

(* RREP_ACK: the entry of the sender becomes VALID.                        *)
RecvReplyAck(m) ==
    /\ m \in ack
    /\ ack' = ack \ {m}
    /\ rt' = [rt EXCEPT ![m.to] =
                [UpdateRouteToNeighbor(@, m.from) EXCEPT
                   ![m.from].flag = "VALID", ![m.from].cnt = 0]]
    /\ UNCHANGED <<own, nb, rerrCount, loop, queues, rreq, rrep, rerr, data,
                   counters>>

SendHello(n) ==
    /\ n \in EnableHello
    /\ rrep' = rrep \cup {[to |-> x, from |-> n, orig |-> n, dst |-> n,
                           dseq |-> seqNo[n], hop |-> 0, ttl |-> 1,
                           ack |-> FALSE] : x \in Neighbours(n)}
    /\ UNCHANGED <<tables, own, rerrCount, loop, queues, rreq, rerr, ack,
                   data, counters>>

ProcessHello(m, x) ==
    LET n == m.to
        t == HelloRoute(UpdateRouteToNeighbor(rt[n], m.from), m.dst, m.dseq)
        new == IF n \in EnableHello THEN {m.dst} ELSE {}
    IN  /\ m \in rrep /\ IsHello(m)
        /\ x \in Lost(n, new)
        /\ Charge(x)
        /\ rt' = [rt EXCEPT ![n] = After(t, x)]
        /\ LoseNeighbour(n, t, x, new, {})
        /\ rrep' = rrep \ {m}
        /\ UNCHANGED <<own, queues, rreq, ack, data>>

-----------------------------------------------------------------------------
(* Route errors and lost links.                                            *)

RecvError(m) ==
    LET n == m.to
        t == UpdateRouteToNeighbor(rt[n], m.from)
        D == m.dests \cap Via(t, m.from)
    IN  /\ m \in rerr
        /\ rt' = [rt EXCEPT ![n] = Invalidate(t, D)]
        /\ Report(n, t, D, rerr \ {m}, {})
        /\ UNCHANGED <<own, nb, queues, rreq, rrep, ack, data, counters>>

(* Neighbors::Purge closes the link to x, after a timeout or on layer 2    *)
(* feedback (ProcessTxError), and calls SendRerrWhenBreaksLinkToNextHop.   *)
LinkFailure(n, x) ==
    /\ x \in nb[n] /\ faults < MaxFaults
    /\ rt' = [rt EXCEPT ![n] = After(@, x)]
    /\ LoseNeighbour(n, rt[n], x, {}, {})
    /\ faults' = faults + 1
    /\ UNCHANGED <<sent, own, queues, rreq, rrep, ack, data>>

RerrRateLimitTimerExpire(n) ==
    /\ rerrCount[n] > 0
    /\ rerrCount' = [rerrCount EXCEPT ![n] = 0]
    /\ UNCHANGED <<tables, own, loop, queues, rreq, rrep, rerr, ack, data,
                   counters>>

Quiet == /\ rreq = {} /\ rrep = {} /\ rerr = {} /\ ack = {} /\ data = {}

(* RoutingTable::Purge reaches an entry whose lifetime is over.  Lifetimes *)
(* are seconds and frames take milliseconds: with SlowTimers an entry only *)
(* expires when nothing is in flight.                                      *)
Expire(n, d) ==
    /\ rt[n][d].flag \in {"VALID", "INVALID"} /\ faults < MaxFaults
    /\ SlowTimers => Quiet
    /\ rt' = [rt EXCEPT ![n] = Expired(@, d)]
    /\ faults' = faults + 1
    /\ UNCHANGED <<sent, nb, own, rerrCount, loop, queues, rreq, rrep, rerr, ack,
                   data>>

(* A frame is lost.  Without SlowTimers it is enough never to receive it.  *)
Lose ==
    /\ SlowTimers
    /\ \/ \E m \in rreq : rreq' = rreq \ {m} /\ UNCHANGED <<rrep, rerr, ack, data>>
       \/ \E m \in rrep : rrep' = rrep \ {m} /\ UNCHANGED <<rreq, rerr, ack, data>>
       \/ \E m \in rerr : rerr' = rerr \ {m} /\ UNCHANGED <<rreq, rrep, ack, data>>
       \/ \E m \in ack  : ack' = ack \ {m} /\ UNCHANGED <<rreq, rrep, rerr, data>>
       \/ \E m \in data : data' = data \ {m} /\ UNCHANGED <<rreq, rrep, rerr, ack>>
    /\ UNCHANGED <<tables, own, rerrCount, loop, queues, counters>>

-----------------------------------------------------------------------------
(* Data packets: RouteInput and Forwarding.                                *)

(* Neighbour list entries refreshed by a packet of source s that goes to   *)
(* gateway g: g and the next hop back to the source.                       *)
Refreshed(t, s, g) ==
    ({g} \cup (IF Has(t, s) THEN {t[s].nh} ELSE {})) \ {NoNode}

Forwarding(m, x) ==
    LET n == m.to
        t == rt[n]
        g == t[m.dst].nh
    IN  /\ m \in data /\ n \notin {m.src, m.dst} /\ Valid(t, m.dst)
        /\ x \in Lost(n, Refreshed(t, m.src, g))
        /\ Charge(x)
        /\ rt' = [rt EXCEPT ![n] = After(t, x)]
        /\ LoseNeighbour(n, t, x, Refreshed(t, m.src, g), {})
        /\ data' = (data \ {m}) \cup {[m EXCEPT !.to = g, !.from = n]}
        /\ UNCHANGED <<own, queues, rreq, rrep, ack>>

(* SendRerrWhenNoRouteToForward: to the next hop back to the source, or    *)
(* to everybody.  Checked against the rate limit but not charged to it.    *)
NoRouteToForward(m) ==
    LET n == m.to
        back == IF Valid(rt[n], m.src) THEN {rt[n][m.src].nh}
                ELSE Neighbours(n)
    IN  /\ m \in data /\ n \notin {m.src, m.dst} /\ ~Valid(rt[n], m.dst)
        /\ data' = data \ {m}
        /\ rerr' = IF rerrCount[n] = RerrRateLimit THEN rerr
                   ELSE rerr \cup {[to |-> y, from |-> n, dests |-> {m.dst}] :
                                   y \in back}
        /\ loop' = IF Valid(rt[n], m.src) /\ rerrCount[n] # RerrRateLimit
                   THEN [loop EXCEPT ![n] = @ \cup Unrouted(rt[n], back)]
                   ELSE loop
        /\ UNCHANGED <<tables, own, rerrCount, queues, rreq, rrep, ack, counters>>

(* A packet that comes back to its source is dropped without a word.       *)
DropOwnPacket(m) ==
    /\ m \in data /\ m.to = m.src
    /\ data' = data \ {m}
    /\ UNCHANGED <<tables, own, rerrCount, loop, queues, rreq, rrep, rerr,
                   ack, counters>>

Deliver(m, x) ==
    LET n == m.to
        back == IF Valid(rt[n], m.src) THEN {rt[n][m.src].nh} ELSE {}
    IN  /\ m \in data /\ n = m.dst /\ n # m.src
        /\ x \in Lost(n, back)
        /\ Charge(x)
        /\ rt' = [rt EXCEPT ![n] = After(@, x)]
        /\ LoseNeighbour(n, rt[n], x, back, {})
        /\ data' = data \ {m}
        /\ UNCHANGED <<own, queues, rreq, rrep, ack>>

-----------------------------------------------------------------------------
Originate == \E n, d \in Node : \/ SendData(n, d)
                                \/ DeferredRouteOutput(n, d)
                                \/ SendDeferredRequest(n, d)
                                \/ RouteRequestTimerExpire(n, d)

RecvRequest == \E m \in rreq, x \in Node \cup {NoNode} :
    \/ RecvDuplicateRequest(m)
    \/ RecvRequestAsDestination(m, x)
    \/ RecvRequestAsIntermediate(m, x)
    \/ RelayRequest(m, x)

RecvReply == \E m \in rrep, x \in Node \cup {NoNode} :
    RecvReplyAsOrigin(m) \/ RelayReply(m) \/ ProcessHello(m, x)

RecvData == \E m \in data, x \in Node \cup {NoNode} :
    \/ Forwarding(m, x) \/ NoRouteToForward(m)
    \/ DropOwnPacket(m) \/ Deliver(m, x)

Maintain == \/ \E n, x \in Node : LinkFailure(n, x) \/ Expire(n, x)
            \/ \E n \in Node : \/ SendHello(n)
                               \/ RreqRateLimitTimerExpire(n)
                               \/ RerrRateLimitTimerExpire(n)

Next == \/ Originate \/ RecvRequest \/ RecvReply
        \/ (\E m \in ack : RecvReplyAck(m))
        \/ (\E m \in rerr : RecvError(m))
        \/ RecvData \/ Maintain \/ Lose

Spec == Init /\ [][Next]_vars

-----------------------------------------------------------------------------
(* Every variable has its type, and neither the requests nor the errors    *)
(* unicast in one second exceed their rate limits: SendRequest and         *)
(* SendRerrMessage compare the counts with ==, a test that a count beyond  *)
(* the limit would pass for ever.                                          *)
TypeOK ==
    /\ rt \in [Node -> Table]
    /\ seqNo \in [Node -> Nat] /\ reqId \in [Node -> Nat]
    /\ seen \in [Node -> SUBSET (Node \X Nat)]
    /\ nb \in [Node -> SUBSET Node]
    /\ rerrCount \in [Node -> 0..RerrRateLimit]
    /\ loop \in [Node -> SUBSET Node]
    /\ waiting \in [Node -> SUBSET Node]
    /\ timer \in [Node -> SUBSET Node]
    /\ rreqCount \in [Node -> 0..RreqRateLimit]
    /\ deferred \in [Node -> [Node -> Nat]]
    /\ rreq \subseteq RreqMessage /\ rrep \subseteq RrepMessage
    /\ rerr \subseteq RerrMessage /\ ack \subseteq AckMessage
    /\ data \subseteq DataMessage
    /\ sent \in 0..MaxPackets /\ faults \in 0..MaxFaults

(* No node and no message ever claims a sequence number that its owner has *)
(* not reached: the numbers that reverse routes, previous-hop entries,     *)
(* replies by intermediate nodes, gratuitous replies and relayed requests  *)
(* copy from one another all come from the destination itself.  A future   *)
(* number would make every true reply look stale.                          *)
NoFutureSeq ==
    /\ \A n, d \in Node : rt[n][d].vseq => rt[n][d].seq <= seqNo[d]
    /\ \A m \in rreq : /\ m.oseq <= seqNo[m.orig]
                       /\ ~m.unk => m.dseq <= seqNo[m.dst]
    /\ \A m \in rrep : m.dseq <= seqNo[m.dst]

(* A route in use, one that was in use, or one whose sequence number a     *)
(* request will quote, leads through a node in radio range, and so does    *)
(* every precursor: no handler leaves such an entry with the null gateway  *)
(* of a search, and no error is ever addressed to a node that a single     *)
(* hop, which is its TTL, cannot reach.                                    *)
NextHopInRange ==
    \A n, d \in Node :
        /\ rt[n][d].vseq \/ rt[n][d].flag \in {"VALID", "INVALID"}
             => rt[n][d].nh \in Neighbours(n)
        /\ rt[n][d].prec \subseteq Neighbours(n)

(* The destinations node n pursues: the retry timer runs, or a call of     *)
(* SendRequest waits for the rate limit.                                   *)
Pursued(n) == timer[n] \cup {d \in Node : deferred[n][d] > 0}

(* An entry under search is always pursued.  Purge never removes an        *)
(* IN_SEARCH entry and DeferredRouteOutput never starts a second search    *)
(* for it, so a search with neither a timer nor a request put off would    *)
(* block its destination for ever.                                         *)
SearchIsPursued ==
    \A n, d \in Node : rt[n][d].flag = "IN_SEARCH" => d \in Pursued(n)

(* A packet in m_queue always has a retry timer that will send it or drop  *)
(* it, or a request put off that will start one, whatever becomes of the   *)
(* entry of its destination meanwhile.                                     *)
QueuedIsPursued == \A n \in Node : waiting[n] \subseteq Pursued(n)

(* The hops a request has made and those it may still make never exceed    *)
(* the widest ring: neither the expanding ring, which starts again from    *)
(* the hop count of an old route, nor a relay extends a flood.             *)
RingBound == \A m \in rreq : m.ttl >= 1 /\ m.hop + m.ttl <= WidestRing

(* Two requests in flight with the same originator and id are the same     *)
(* request, and each node has recorded every id it relays: what the id     *)
(* cache discards is a true duplicate.                                     *)
RequestIdentity ==
    /\ \A m1, m2 \in rreq : m1.orig = m2.orig /\ m1.id = m2.id
          => m1.dst = m2.dst /\ m1.oseq = m2.oseq
    /\ \A m \in rreq : <<m.orig, m.id>> \in seen[m.from]

(* A node transmits a request with a given originator and id once in its   *)
(* life: the flood cannot come back.                                       *)
FloodOnce ==
    [][\A m \in rreq' \ rreq : <<m.orig, m.id>> \notin seen[m.from]]_vars

(* A node's own sequence number moves only when it originates a request.   *)
(* The increment that SendReply makes for a request that asks for the next *)
(* number (line 1529) is never taken while no node forgets its number.     *)
SeqOnlyByRequest ==
    [][\A n \in Node : seqNo'[n] # seqNo[n] => reqId'[n] = reqId[n] + 1]_vars

(* A neighbour with an entry in the table is never lost without its routes:*)
(* no VALID entry leads through it at the end of the handler that takes it *)
(* off the list, however far that handler had got when Neighbors::Update   *)
(* purged the list (line 86 of aodv-neighbor.cc), for what it writes later *)
(* it has read again.  SendRerrWhenBreaksLinkToNextHop does nothing for a  *)
(* neighbour without an entry (line 2047), and its routes stay.            *)
LostNeighbourUnused ==
    [][\A n, x, d \in Node :
          x \in nb[n] \ nb'[n] /\ Has(rt[n], x)
          => ~(Valid(rt'[n], d) /\ rt'[n][d].nh = x)]_vars

-----------------------------------------------------------------------------
(* What a comment says of the program and a run refutes.                   *)

(* The comment of line 1450, "Drop RREQ, This node RREP will make a loop": *)
(* no node answers with a route that closes a cycle, so the VALID entries  *)
(* for a destination never lead round in one.                              *)
LoopFree ==
    \A d \in Node : ~\E S \in (SUBSET (Node \ {d})) \ {{}} :
        \A n \in S : Valid(rt[n], d) /\ rt[n][d].nh \in S
=============================================================================
