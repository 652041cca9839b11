--------------------------- MODULE AodvDiscovery ---------------------------
(***************************************************************************)
(* Route discovery at its source: the packets that wait for a route, the   *)
(* requests, their retries and the request rate limit of one node          *)
(* (RouteOutput, DeferredRouteOutput, SendRequest, RouteRequestTimerExpire *)
(* and SendPacketFromQueue of aodv-routing-protocol.cc; aodv-rqueue.cc).   *)
(* The network is the environment: a reply may come at any time, asked for *)
(* or gratuitous, more than once or never, and routes may be learnt from   *)
(* other nodes' messages and lost at any time.  Sequence numbers are left  *)
(* to AodvRouting; whether a reply is taken into the table is a choice.    *)
(***************************************************************************)
EXTENDS AodvRing, Sequences, FiniteSets, Functions

CONSTANTS Dst, Packet,
          Iface, NoIface,   \* output devices; NoIface: tag value -1
          DstOf,            \* destination of each packet
          OifOf,            \* device the packet's socket is bound to
          RreqRateLimit,
          MaxQueueLen,
          QueueTimeouts,    \* may packets outlive MaxQueueTime?
          MaxHeard          \* bound: other messages that touch the table

ASSUME DiscoveryAssumption ==
    /\ NoIface \notin Iface
    /\ DstOf \in [Packet -> Dst] /\ OifOf \in [Packet -> Iface \cup {NoIface}]
    /\ RreqRateLimit \in Nat /\ MaxQueueLen \in Nat \ {0}
    /\ QueueTimeouts \in BOOLEAN /\ MaxHeard \in Nat

VARIABLES route,      \* m_routingTable
          loop,       \* packets sent to the loopback device
          queue,      \* m_queue: how many packets came after each that waits
          timer,      \* destinations whose m_addressReqTimer is running
          deferred,   \* calls of SendRequest put off by the rate limit, in order
          rreqCount,  \* m_rreqCount
          out, dropped, \* packets sent on a route, and dropped
          heard       \* routes learnt so far from other messages

vars == <<route, loop, queue, timer, deferred, rreqCount, out, dropped, heard>>

Entry == [flag : {"NONE", "VALID", "INVALID", "IN_SEARCH"}, hop : Nat,
          cnt : Nat, dev : Iface \cup {NoIface}]
NoEntry == [flag |-> "NONE", hop |-> 0, cnt |-> 0, dev |-> NoIface]
Route(hop, dev) == [flag |-> "VALID", hop |-> hop, cnt |-> 0, dev |-> dev]

Queued == DOMAIN queue

Init ==
    /\ route = [d \in Dst |-> NoEntry]
    /\ loop = {} /\ queue = [p \in {} |-> 0] /\ timer = {}
    /\ deferred = <<>>
    /\ rreqCount = 0
    /\ out = {} /\ dropped = {}
    /\ heard = 0

-----------------------------------------------------------------------------
(* The queue.  Every access purges it first.  All packets wait equally     *)
(* long, so those that have timed out are the oldest ones.                 *)

Outdated ==
    {{}} \cup IF QueueTimeouts
              THEN {{p \in Queued : queue[p] >= queue[q]} : q \in Queued}
              ELSE {}

(* Enqueue: the oldest packet makes room, and all others grow older.       *)
Enqueue(p, dead) ==
    LET live   == Queued \ dead
        full   == Cardinality(live) = MaxQueueLen
        oldest == {q \in live : full /\ \A r \in live : queue[r] <= queue[q]}
    IN  /\ queue' = [q \in (live \ oldest) \cup {p} |->
                        IF q = p THEN 0 ELSE queue[q] + 1]
        /\ dropped' = dropped \cup dead \cup oldest

(* Mutant of DropPacketWithDst: the timed out packets alone are dropped.   *)
DropOutdatedOnly(d, dead) ==
    queue' = Restrict(queue, Queued \ dead) /\ dropped' = dropped \cup dead

DropPacketWithDst(d, dead) ==
    LET gone == dead \cup {p \in Queued : DstOf[p] = d}
    IN  queue' = Restrict(queue, Queued \ gone) /\ dropped' = dropped \cup gone

Mismatch(p, dev) == OifOf[p] # NoIface /\ OifOf[p] # dev

(* Mutant of SendPacketFromQueue: the packets stay in the queue.           *)
SendCopiesFromQueue(d, dev, dead) ==
    /\ queue' = Restrict(queue, Queued \ dead)
    /\ out' = out \cup {p \in Queued \ dead : DstOf[p] = d}
    /\ dropped' = dropped \cup dead

(* SendPacketFromQueue: the packets for d leave, the oldest first.  One    *)
(* bound to another device is dropped and ends the loop: the younger stay. *)
SendPacketFromQueue(d, dev, dead) ==
    LET mine == {p \in Queued \ dead : DstOf[p] = d}
        bad  == {p \in mine : Mismatch(p, dev)}
        sent == {p \in mine : \A b \in bad : queue[p] > queue[b]}
        ends == {b \in bad : \A c \in bad : queue[b] >= queue[c]}
    IN  /\ queue' = Restrict(queue, Queued \ (dead \cup sent \cup ends))
        /\ out' = out \cup sent
        /\ dropped' = dropped \cup dead \cup ends

-----------------------------------------------------------------------------
(* Mutant of SendRequest: a call beyond the rate limit is dropped.         *)
SendRequestOrForget(d, pending, running) ==
    /\ deferred' = pending
    /\ IF rreqCount = RreqRateLimit
       THEN timer' = running /\ UNCHANGED <<route, rreqCount>>
       ELSE /\ timer' = running \cup {d}
            /\ route' = [route EXCEPT ![d] = SearchEntry(@)]
            /\ rreqCount' = rreqCount + 1

(* Mutant of SendRequest: the request is sent before the limit is tested.  *)
SendRequestUnlimited(d, pending, running) ==
    /\ timer' = running \cup {d}
    /\ route' = [route EXCEPT ![d] = SearchEntry(@)]
    /\ rreqCount' = rreqCount + 1
    /\ deferred' = pending

(* SendRequest and ScheduleRreqRetry, while "pending" calls are put off    *)
(* and the timers of "running" go on.  Beyond the rate limit the call is   *)
(* put off and nothing else happens.                                       *)
SendRequest(d, pending, running) ==
    IF rreqCount = RreqRateLimit
    THEN /\ deferred' = Append(pending, d)
         /\ timer' = running
         /\ UNCHANGED <<route, rreqCount>>
    ELSE /\ deferred' = pending
         /\ timer' = running \cup {d}
         /\ route' = [route EXCEPT ![d] = SearchEntry(@)]
         /\ rreqCount' = rreqCount + 1

(* RouteOutput: the packet leaves at once if there is a VALID route.       *)
RouteOutput(p) ==
    LET e == route[DstOf[p]]
    IN  /\ p \notin loop \cup Queued \cup out \cup dropped
        /\ \/ /\ e.flag = "VALID" /\ ~Mismatch(p, e.dev)
              /\ out' = out \cup {p}
              /\ UNCHANGED <<loop, dropped>>
           \/ /\ e.flag = "VALID" /\ Mismatch(p, e.dev)
              /\ dropped' = dropped \cup {p}
              /\ UNCHANGED <<loop, out>>
           \/ /\ e.flag # "VALID"
              /\ loop' = loop \cup {p}
              /\ UNCHANGED <<out, dropped>>
        /\ UNCHANGED <<route, queue, timer, deferred, rreqCount, heard>>

(* The packet is back from the loopback device.                            *)
DeferredRouteOutput(p, dead) ==
    /\ p \in loop /\ dead \in Outdated
    /\ loop' = loop \ {p}
    /\ Enqueue(p, dead)
    /\ IF route[DstOf[p]].flag = "IN_SEARCH"
       THEN UNCHANGED <<route, timer, deferred, rreqCount>>
       ELSE SendRequest(DstOf[p], deferred, timer)
    /\ UNCHANGED <<out, heard>>

(* The calls put off by the rate limit are made again, all of them 100 us  *)
(* after it is lifted and in the order they were put off; those that find  *)
(* the limit reached again put themselves off, still in that order.        *)
SendDeferredRequest ==
    /\ deferred # <<>> /\ rreqCount # RreqRateLimit
    /\ SendRequest(Head(deferred), Tail(deferred), timer)
    /\ UNCHANGED <<loop, queue, out, dropped, heard>>

RreqRateLimitTimerExpire ==
    /\ rreqCount > 0
    /\ rreqCount' = 0
    /\ UNCHANGED <<route, loop, queue, timer, deferred, out, dropped, heard>>

RouteRequestTimerExpire(d, dead) ==
    LET e == route[d]
    IN  /\ d \in timer /\ dead \in Outdated
        /\ \/ /\ e.flag = "VALID"
              /\ SendPacketFromQueue(d, e.dev, dead)
              /\ timer' = timer \ {d}
              /\ UNCHANGED <<route, deferred, rreqCount>>
           \/ /\ e.flag = "IN_SEARCH" /\ e.cnt # RreqRetries /\ dead = {}
              /\ SendRequest(d, deferred, timer \ {d})
              /\ UNCHANGED <<queue, out, dropped>>
           \/ /\ e.flag # "VALID"
              /\ e.flag # "IN_SEARCH" \/ e.cnt = RreqRetries
              /\ route' = [route EXCEPT ![d] = NoEntry]
              /\ DropPacketWithDst(d, dead)
              /\ timer' = timer \ {d}
              /\ UNCHANGED <<deferred, rreqCount, out>>
        /\ UNCHANGED <<loop, heard>>

-----------------------------------------------------------------------------
(* The network.                                                            *)

(* RecvReply at the node the reply is for: the one that asked, or the one  *)
(* a gratuitous reply tells of a route.  The offered route is taken if     *)
(* there is none or a search is on; otherwise sequence numbers decide.     *)
RecvReply(d, hop, dev, dead) ==
    LET e == route[d]
    IN  /\ dead \in Outdated
        /\ \/ route' = [route EXCEPT ![d] = Route(hop, dev)]
           \/ e.flag \in {"VALID", "INVALID"} /\ UNCHANGED route
        /\ timer' = IF e.flag = "IN_SEARCH" THEN timer \ {d} ELSE timer
        /\ SendPacketFromQueue(d, route'[d].dev, dead)
        /\ UNCHANGED <<loop, deferred, rreqCount, heard>>

(* Mutant of HearNeighbour: the request count is not reset.                *)
HearNeighbourKeepsCount(d, dev) ==
    /\ heard < MaxHeard /\ heard' = heard + 1
    /\ route' = [route EXCEPT ![d] = [Route(1, dev) EXCEPT !.cnt = route[d].cnt]]
    /\ UNCHANGED <<loop, queue, timer, deferred, rreqCount, out, dropped>>

(* d is heard as a neighbour: UpdateRouteToNeighbor, ProcessHello,         *)
(* RecvReplyAck, or RecvRequest for the previous hop.                      *)
HearNeighbour(d, dev) ==
    /\ heard < MaxHeard /\ heard' = heard + 1
    /\ route' = [route EXCEPT ![d] = Route(1, dev)]
    /\ UNCHANGED <<loop, queue, timer, deferred, rreqCount, out, dropped>>

(* A request that d originated passes: RecvRequest keeps the flag of the   *)
(* entry but writes its hop count, where the ring search keeps its TTL.    *)
HearRequestOf(d, hop, dev) ==
    /\ heard < MaxHeard /\ heard' = heard + 1
    /\ route' = [route EXCEPT ![d] = IF @.flag = "NONE" THEN Route(hop, dev)
                    ELSE [@ EXCEPT !.hop = hop, !.dev = dev]]
    /\ UNCHANGED <<loop, queue, timer, deferred, rreqCount, out, dropped>>

(* Purge, RecvError and lost links.                                        *)
LoseRoute(d) ==
    /\ \/ /\ route[d].flag = "VALID"
          /\ route' = [route EXCEPT ![d].flag = "INVALID"]
       \/ /\ route[d].flag = "INVALID"
          /\ route' = [route EXCEPT ![d] = NoEntry]
    /\ UNCHANGED <<loop, queue, timer, deferred, rreqCount, out, dropped, heard>>

-----------------------------------------------------------------------------
Next ==
    \/ \E p \in Packet : RouteOutput(p)
    \/ \E p \in Packet, dead \in Outdated : DeferredRouteOutput(p, dead)
    \/ \E d \in Dst, dead \in Outdated : RouteRequestTimerExpire(d, dead)
    \/ \E d \in Dst : LoseRoute(d)
    \/ SendDeferredRequest \/ RreqRateLimitTimerExpire
    \/ \E d \in Dst, dev \in Iface :
          \/ HearNeighbour(d, dev)
          \/ \E hop \in 2..NetDiameter : HearRequestOf(d, hop, dev)
          \/ \E hop \in 1..NetDiameter, dead \in Outdated :
                RecvReply(d, hop, dev, dead)

(* The simulator runs every event it has scheduled: packets at the         *)
(* loopback device, timers and calls put off.  Replies are never certain.  *)
(* The limit is lifted every second and a call put off comes 100 us later; *)
(* a search that goes on for ever doubles its interval, so it cannot be    *)
(* first each time.                                                        *)
Fairness ==
    /\ WF_vars(\E p \in loop, dead \in Outdated : DeferredRouteOutput(p, dead))
    /\ \A d \in Dst :
          WF_vars(\E dead \in Outdated : RouteRequestTimerExpire(d, dead))
    /\ SF_vars(SendDeferredRequest) /\ WF_vars(RreqRateLimitTimerExpire)

Spec == Init /\ [][Next]_vars /\ Fairness

-----------------------------------------------------------------------------
(* Every variable has its type; the requests of one second stay within the *)
(* rate limit, which SendRequest tests with ==, and the queue within its   *)
(* length, which Enqueue tests with == too.                                *)
TypeOK ==
    /\ route \in [Dst -> Entry]
    /\ Queued \subseteq Packet /\ queue \in [Queued -> Nat]
    /\ IsFiniteSet(Queued) /\ Cardinality(Queued) <= MaxQueueLen
    /\ timer \subseteq Dst
    /\ deferred \in Seq(Dst)
    /\ rreqCount \in 0..RreqRateLimit
    /\ loop \subseteq Packet /\ out \subseteq Packet /\ dropped \subseteq Packet
    /\ heard \in 0..MaxHeard

(* The life of a packet, seen from outside: where it is, if it is in one   *)
(* place only.                                                             *)
Status ==
    LET held == loop \cup Queued
    IN  [p \in Packet |->
           CASE p \in held \ (out \cup dropped)    -> "held"
             [] p \in out \ (held \cup dropped)    -> "sent"
             [] p \in dropped \ (held \cup out)    -> "dropped"
             [] p \notin held \cup out \cup dropped -> "new"
             [] OTHER                              -> "several"]

(* The queue, the loopback device and the request timers together are a    *)
(* buffer: a packet is never sent twice, never sent after it was dropped   *)
(* and never forgotten, and a route releases its own packets only.         *)
Buffer == INSTANCE AodvBuffer WITH status <- Status
ImplementsBuffer == Buffer!Spec

(* A packet in the queue is pursued: the retry timer of its destination is *)
(* running, or a request for it waits for the rate limit.  aodv.rst, line  *)
(* 37: the model buffers all packets while a request is disseminated.      *)
QueuePursued == \A p \in Queued :
    \/ DstOf[p] \in timer
    \/ \E i \in DOMAIN deferred : deferred[i] = DstOf[p]

(* Whenever a request is sent, ScheduleRreqRetry finds a retry interval:   *)
(* at NetDiameter and beyond it needs the count it aborts without.         *)
RetryDefined ==
    [][rreqCount' > rreqCount =>
         \A d \in Dst : route'[d].flag = "IN_SEARCH" /\ route'[d] # route[d]
            => route'[d].hop < NetDiameter \/ route'[d].cnt > 0]_vars

(* The retry timer alone never takes a count past RreqRetries, which       *)
(* RouteRequestTimerExpire tests with ==: only a second request for the    *)
(* same destination, put off by the rate limit while the first one was,    *)
(* can do that.                                                            *)
RetriesStop ==
    [][\A d \in Dst :
         route'[d].cnt > RreqRetries /\ route[d].cnt <= RreqRetries
         => deferred # <<>> /\ Head(deferred) = d /\ deferred' = Tail(deferred)]_vars

(* However silent the network, and whatever routes come and go, a packet   *)
(* given to the protocol is eventually sent or dropped, unless the count   *)
(* of its destination passes RreqRetries: again and again there is a time  *)
(* when no other packet waits.  A packet of an exempt destination may wait *)
(* for ever, although the comment of lines 1897-1902 has it dropped after  *)
(* RreqRetries attempts: that search is never given up.                    *)
EveryPacketSettled ==
    []<>(\A p \in loop \cup Queued : route[DstOf[p]].cnt > RreqRetries)
=============================================================================
