------------------------ MODULE AodvDiscoveryProofs ------------------------
(***************************************************************************)
(* Route discovery at its source: proofs, for every set of destinations,   *)
(* packets and devices and every limit, that the queue and the request     *)
(* rate stay bounded, that packets which fit the route they are sent on    *)
(* are always pursued, and that the whole is the buffer of AodvBuffer.     *)
(***************************************************************************)
EXTENDS AodvDiscovery, FiniteSetTheorems, TLAPS

(* A finite set of packets, each with its age, has an oldest one.          *)
LEMMA OldestExists ==
    ASSUME NEW S, IsFiniteSet(S), S # {}, NEW age \in [S -> Nat]
    PROVE  \E x \in S : \A y \in S : age[y] <= age[x]
<1> DEFINE Oldest(T) == \E x \in T : \A y \in T : age[y] <= age[x]
           Bad == {n \in Nat : \E T \in SUBSET S :
                     T # {} /\ Cardinality(T) = n /\ ~Oldest(T)}
<1>1. ASSUME NEW n \in Bad PROVE FALSE
  <2>1. PICK m \in Bad : \A k \in Bad : ~(<<k, m>> \in OpToRel(<, Nat))
    <3>1. Bad \subseteq Nat /\ Bad # {}
      BY <1>1
    <3> HIDE DEF Bad
    <3> QED BY <3>1, NatLessThanWellFounded, WFMin
  <2>2. \A k \in Bad : ~(k < m)
    BY <2>1 DEF OpToRel
  <2>3. PICK T \in SUBSET S : T # {} /\ Cardinality(T) = m /\ ~Oldest(T)
    BY DEF Bad
  <2>4. PICK x \in T : TRUE
    BY <2>3
  <2>5. IsFiniteSet(T) /\ IsFiniteSet(T \ {x})
    <3>1. IsFiniteSet(T)
      BY FS_Subset
    <3> QED BY <3>1, FS_Subset
  <2>6. Cardinality(T \ {x}) = m - 1 /\ Cardinality(T \ {x}) \in Nat
    <3>1. Cardinality(T \ {x}) \in Nat
      BY <2>5, FS_CardinalityType
    <3> QED BY <2>3, <2>4, <2>5, <3>1, FS_RemoveElement
  <2>7. T \ {x} = {} \/ Oldest(T \ {x})
    <3>1. m \in Nat /\ m - 1 < m /\ ~(m - 1 \in Bad)
      BY <2>2 DEF Bad
    <3>2. T \ {x} \in SUBSET S /\ m - 1 \in Nat
      BY <2>6
    <3> HIDE DEF Oldest
    <3> QED BY <2>6, <3>1, <3>2 DEF Bad
  <2>8. CASE T \ {x} = {}
    BY <2>3, <2>8
  <2>9. CASE Oldest(T \ {x})
    <3>1. PICK z \in T \ {x} : \A y \in T \ {x} : age[y] <= age[z]
      BY <2>9
    <3>2. age[x] \in Nat /\ age[z] \in Nat
      OBVIOUS
    <3>3. CASE age[x] <= age[z]
      BY <2>3, <3>1, <3>3
    <3>4. CASE age[z] < age[x]
      <4>1. \A y \in T : age[y] <= age[x]
        BY <3>1, <3>2, <3>4
      <4> QED BY <2>3, <4>1
    <3> QED BY <3>2, <3>3, <3>4
  <2> QED BY <2>7, <2>8, <2>9
<1>2. Cardinality(S) \in Nat
  BY FS_CardinalityType
<1> QED BY <1>1, <1>2

-----------------------------------------------------------------------------
(* The state of the queue, and what every access leaves of it.             *)
QueueOK ==
    /\ Queued \subseteq Packet /\ queue \in [Queued -> Nat]
    /\ IsFiniteSet(Queued) /\ Cardinality(Queued) <= MaxQueueLen

(* An access that only takes packets away.                                 *)
LEMMA RestrictedQueue ==
    ASSUME QueueOK, NEW S, queue' = Restrict(queue, Queued \ S)
    PROVE  QueueOK' /\ Queued' = Queued \ S
<1>1. Queued' = Queued \ S /\ queue' \in [Queued \ S -> Nat]
  BY DEF QueueOK, Queued, Restrict
<1>2. IsFiniteSet(Queued \ S) /\ Cardinality(Queued \ S) <= Cardinality(Queued)
  BY FS_Subset DEF QueueOK
<1>3. Cardinality(Queued) \in Nat /\ Cardinality(Queued \ S) \in Nat
  BY <1>2, FS_CardinalityType DEF QueueOK
<1>4. Cardinality(Queued \ S) <= MaxQueueLen /\ Queued \ S \subseteq Packet
  BY <1>2, <1>3, DiscoveryAssumption DEF QueueOK
<1>5. QueueOK'
  BY <1>1, <1>2, <1>4 DEF QueueOK
<1> QED BY <1>1, <1>5

(* Enqueue adds its packet, and makes room for it when the queue is full.  *)
LEMMA EnqueuedQueue ==
    ASSUME QueueOK, NEW p \in Packet, NEW dead \in Outdated, Enqueue(p, dead)
    PROVE  /\ QueueOK'
           /\ \E gone \in SUBSET Queued :
                 /\ Queued' = (Queued \ gone) \cup {p}
                 /\ dropped' = dropped \cup gone
<1> DEFINE live   == Queued \ dead
           full   == Cardinality(live) = MaxQueueLen
           oldest == {q \in live : full /\ \A r \in live : queue[r] <= queue[q]}
           kept   == live \ oldest
<1>1. /\ queue' = [q \in kept \cup {p} |-> IF q = p THEN 0 ELSE queue[q] + 1]
      /\ dropped' = dropped \cup dead \cup oldest
  BY DEF Enqueue
<1>2. dead \subseteq Queued
  BY DEF Outdated
<1>3. Queued' = kept \cup {p} /\ Queued' \subseteq Packet
      /\ queue' \in [Queued' -> Nat]
  BY <1>1 DEF QueueOK, Queued
<1>4. /\ IsFiniteSet(live) /\ IsFiniteSet(kept)
      /\ Cardinality(live) <= Cardinality(Queued)
      /\ Cardinality(kept) <= Cardinality(live)
  BY FS_Subset DEF QueueOK
<1>5. /\ Cardinality(Queued) \in Nat /\ Cardinality(live) \in Nat
      /\ Cardinality(kept) \in Nat
  BY <1>4, FS_CardinalityType DEF QueueOK
<1>6. Cardinality(kept) < MaxQueueLen
  <2>1. CASE full
    <3>1. live # {}
      BY <1>4, <2>1, FS_EmptySet, DiscoveryAssumption
    <3>2. [q \in live |-> queue[q]] \in [live -> Nat]
      BY DEF QueueOK
    <3>3. \E x \in live : \A y \in live : queue[y] <= queue[x]
      <4>1. \E x \in live : \A y \in live :
              [q \in live |-> queue[q]][y] <= [q \in live |-> queue[q]][x]
        BY <1>4, <3>1, <3>2, OldestExists
      <4> QED BY <4>1
    <3>4. PICK x \in oldest : TRUE
      BY <2>1, <3>3
    <3>5. Cardinality(live \ {x}) = MaxQueueLen - 1 /\ IsFiniteSet(live \ {x})
      BY <1>4, <2>1, <3>4, FS_RemoveElement
    <3>6. kept \subseteq live \ {x}
      BY <3>4
    <3>7. Cardinality(kept) <= Cardinality(live \ {x})
      BY <3>5, <3>6, FS_Subset
    <3> QED BY <1>5, <3>5, <3>7, DiscoveryAssumption
  <2>2. CASE ~full
    BY <1>4, <1>5, <2>2, DiscoveryAssumption DEF QueueOK
  <2> QED BY <2>1, <2>2
<1>7. IsFiniteSet(kept \cup {p}) /\ Cardinality(kept \cup {p}) <= MaxQueueLen
  <2>1. /\ IsFiniteSet(kept \cup {p})
        /\ Cardinality(kept \cup {p}) =
             IF p \in kept THEN Cardinality(kept) ELSE Cardinality(kept) + 1
    <3> HIDE DEF kept
    <3> QED BY <1>4, FS_AddElement
  <2> HIDE DEF kept
  <2> QED BY <1>5, <1>6, <2>1, DiscoveryAssumption
<1>8. QueueOK'
  <2> HIDE DEF kept
  <2> QED BY <1>3, <1>7 DEF QueueOK
<1>9. dead \cup oldest \in SUBSET Queued
  BY <1>2
<1>10. Queued' = (Queued \ (dead \cup oldest)) \cup {p}
  BY <1>3
<1>11. dropped' = dropped \cup (dead \cup oldest)
  BY <1>1
<1> QED BY <1>8, <1>9, <1>10, <1>11

(* A route, or giving up, lets packets go: some are sent, all of them to   *)
(* d, and others are dropped.                                              *)
Release(d) ==
    \E sent, gone \in SUBSET Queued :
       /\ sent \cap gone = {} /\ \A p \in sent : DstOf[p] = d
       /\ Queued' = Queued \ (sent \cup gone)
       /\ out' = out \cup sent /\ dropped' = dropped \cup gone

(* SendPacketFromQueue does that; no packet for d that fits the device     *)
(* stays behind unless another one for d does not fit.                     *)
LEMMA SendPacketFromQueueReleases ==
    ASSUME QueueOK, NEW d \in Dst, NEW dev, NEW dead \in Outdated,
           SendPacketFromQueue(d, dev, dead)
    PROVE  /\ QueueOK' /\ Release(d)
           /\ (\A p \in Packet : DstOf[p] = d => ~Mismatch(p, dev))
                => \A p \in Queued' : DstOf[p] # d
<1> DEFINE mine == {p \in Queued \ dead : DstOf[p] = d}
           bad  == {p \in mine : Mismatch(p, dev)}
           sent == {p \in mine : \A b \in bad : queue[p] > queue[b]}
           ends == {b \in bad : \A c \in bad : queue[b] >= queue[c]}
           gone == dead \cup ends
<1>1. /\ queue' = Restrict(queue, Queued \ (dead \cup sent \cup ends))
      /\ out' = out \cup sent /\ dropped' = dropped \cup dead \cup ends
  BY DEF SendPacketFromQueue
<1>2. dead \subseteq Queued
  BY DEF Outdated
<1>3. QueueOK' /\ Queued' = Queued \ (dead \cup sent \cup ends)
  <2> HIDE DEF sent, ends
  <2> QED BY <1>1, RestrictedQueue
<1>4. sent \cap gone = {}
  <2>1. ASSUME NEW p \in sent, p \in ends PROVE FALSE
    <3>1. p \in bad /\ queue[p] > queue[p] /\ queue[p] \in Nat
      BY <2>1 DEF QueueOK
    <3> QED BY <3>1
  <2> QED BY <2>1
<1>5. sent \in SUBSET Queued /\ gone \in SUBSET Queued
  BY <1>2
<1>6. \A p \in sent : DstOf[p] = d
  OBVIOUS
<1>7. Queued' = Queued \ (sent \cup gone) /\ dropped' = dropped \cup gone
  BY <1>1, <1>3
<1>8. Release(d)
  <2> HIDE DEF sent, gone
  <2> QED BY <1>1, <1>4, <1>5, <1>6, <1>7 DEF Release
<1>9. ASSUME \A p \in Packet : DstOf[p] = d => ~Mismatch(p, dev)
      PROVE  \A p \in Queued' : DstOf[p] # d
  <2>1. bad = {} /\ sent = mine
    BY <1>9 DEF QueueOK
  <2> QED BY <1>3, <2>1
<1> QED BY <1>3, <1>8, <1>9

(* DropPacketWithDst drops all that wait for d.                            *)
LEMMA DropPacketWithDstReleases ==
    ASSUME QueueOK, NEW d \in Dst, NEW dead \in Outdated,
           DropPacketWithDst(d, dead), out' = out
    PROVE  /\ QueueOK' /\ Release(d)
           /\ \A p \in Queued' : DstOf[p] # d
<1> DEFINE gone == dead \cup {p \in Queued : DstOf[p] = d}
<1>1. /\ queue' = Restrict(queue, Queued \ gone)
      /\ dropped' = dropped \cup gone
  BY DEF DropPacketWithDst
<1>2. gone \in SUBSET Queued
  BY DEF Outdated
<1>3. QueueOK' /\ Queued' = Queued \ gone
  <2> HIDE DEF gone
  <2> QED BY <1>1, RestrictedQueue
<1>4. Release(d)
  <2>1. \A p \in {} : DstOf[p] = d
    OBVIOUS
  <2> HIDE DEF gone
  <2>2. {} \in SUBSET Queued /\ {} \cap gone = {} /\ out' = out \cup {}
    OBVIOUS
  <2>3. Queued' = Queued \ ({} \cup gone)
    BY <1>3
  <2> QED BY <1>1, <1>2, <2>1, <2>2, <2>3 DEF Release
<1> QED BY <1>3, <1>4

-----------------------------------------------------------------------------
(* The entry that SendRequest leaves: its type, its count, and, when the   *)
(* ring ends at the diameter, what ScheduleRreqRetry needs of it.          *)
LEMMA SearchEntryType ==
    ASSUME NEW e \in Entry
    PROVE  /\ SearchEntry(e) \in Entry /\ SearchEntry(e).flag = "IN_SEARCH"
           /\ SearchEntry(e).cnt \in {e.cnt, Counted(e.cnt)}
           /\ TtlThreshold <= NetDiameter =>
                SearchEntry(e).hop < NetDiameter \/ SearchEntry(e).cnt > 0
<1>1. /\ e.hop \in Nat /\ e.cnt \in Nat /\ e.dev \in Iface \cup {NoIface}
      /\ e.flag \in {"NONE", "VALID", "INVALID", "IN_SEARCH"}
  BY DEF Entry
<1>2. /\ RequestTtl(e) \in Nat
      /\ TtlThreshold <= NetDiameter => RequestTtl(e) <= NetDiameter
  BY <1>1, RingAssumption DEF RequestTtl
<1> DEFINE ttl == RequestTtl(e)
           cnt == IF ttl = NetDiameter THEN Counted(e.cnt) ELSE e.cnt
<1>3. SearchEntry(e) = [flag |-> "IN_SEARCH", hop |-> ttl, cnt |-> cnt,
                        dev |-> e.dev]
  <2>1. SearchEntry(e) = [e EXCEPT !.flag = "IN_SEARCH", !.hop = ttl, !.cnt = cnt]
    BY DEF SearchEntry
  <2> HIDE DEF ttl, cnt
  <2> QED BY <2>1 DEF Entry
<1>4. Counted(e.cnt) \in Nat /\ Counted(e.cnt) > 0
  BY <1>1, RingAssumption DEF Counted
<1>5. /\ ttl \in Nat /\ cnt \in Nat /\ cnt \in {e.cnt, Counted(e.cnt)}
      /\ TtlThreshold <= NetDiameter => ttl < NetDiameter \/ cnt > 0
  <2> HIDE DEF ttl
  <2>1. /\ ttl \in Nat /\ NetDiameter \in Nat
        /\ TtlThreshold <= NetDiameter => ttl <= NetDiameter
    BY <1>2, RingAssumption DEF ttl
  <2> QED BY <1>1, <1>4, <2>1
<1> HIDE DEF ttl, cnt
<1> QED BY <1>1, <1>3, <1>5 DEF Entry

(* The state of the searches.                                              *)
SearchesOK ==
    /\ route \in [Dst -> Entry]
    /\ timer \subseteq Dst
    /\ deferred \in Seq(Dst)
    /\ rreqCount \in 0..RreqRateLimit

(* The request rate never passes its limit, though it is tested with ==.   *)
LEMMA SendRequestType ==
    ASSUME SearchesOK, NEW d \in Dst, NEW pending \in Seq(Dst),
           NEW running \in SUBSET Dst, SendRequest(d, pending, running)
    PROVE  SearchesOK'
<1>1. CASE rreqCount = RreqRateLimit
  <2>1. /\ deferred' = Append(pending, d) /\ timer' = running
        /\ route' = route /\ rreqCount' = rreqCount
    BY <1>1 DEF SendRequest
  <2>2. Append(pending, d) \in Seq(Dst)
    OBVIOUS
  <2> QED BY <2>1, <2>2 DEF SearchesOK
<1>2. CASE rreqCount # RreqRateLimit
  <2>1. route[d] \in Entry
    BY DEF SearchesOK
  <2>2. SearchEntry(route[d]) \in Entry
    BY <2>1, SearchEntryType
  <2>3. /\ route' = [route EXCEPT ![d] = SearchEntry(route[d])]
        /\ timer' = running \cup {d} /\ deferred' = pending
        /\ rreqCount' = rreqCount + 1
    BY <1>2 DEF SendRequest
  <2>4. rreqCount' \in 0..RreqRateLimit
    BY <1>2, <2>3, DiscoveryAssumption DEF SearchesOK
  <2> QED BY <2>2, <2>3, <2>4 DEF SearchesOK
<1> QED BY <1>1, <1>2

(* TypeOK by its parts, before and after a step.                           *)
Parts == /\ QueueOK /\ SearchesOK /\ heard \in 0..MaxHeard
         /\ loop \subseteq Packet /\ out \subseteq Packet
         /\ dropped \subseteq Packet

LEMMA TypeParts == (TypeOK <=> Parts) /\ (TypeOK' <=> Parts')
BY DEF TypeOK, Parts, QueueOK, SearchesOK

(* The values a new packet's or a packet's own step leaves alone.          *)
packets == <<loop, queue, out, dropped>>

(* A packet comes back from the loopback device.                           *)
LEMMA DeferredRouteOutputType ==
    ASSUME TypeOK, NEW p \in Packet, NEW dead \in Outdated,
           DeferredRouteOutput(p, dead)
    PROVE  TypeOK'
<1>1. QueueOK' /\ dropped' \subseteq Packet
  <2>1. Enqueue(p, dead) /\ QueueOK /\ dropped \subseteq Packet
    BY TypeParts DEF Parts, DeferredRouteOutput
  <2>2. PICK gone \in SUBSET Queued : dropped' = dropped \cup gone
    BY <2>1, EnqueuedQueue
  <2> QED BY <2>1, <2>2, EnqueuedQueue DEF QueueOK
<1>2. SearchesOK'
  <2>1. DstOf[p] \in Dst
    BY DiscoveryAssumption
  <2>2. CASE route[DstOf[p]].flag = "IN_SEARCH"
    BY <2>2, TypeParts DEF Parts, DeferredRouteOutput, SearchesOK
  <2>3. CASE route[DstOf[p]].flag # "IN_SEARCH"
    <3>1. SendRequest(DstOf[p], deferred, timer)
      BY <2>3 DEF DeferredRouteOutput
    <3> QED BY <2>1, <3>1, SendRequestType, TypeParts DEF Parts, SearchesOK
  <2> QED BY <2>2, <2>3
<1>3. /\ loop' \subseteq Packet /\ out' \subseteq Packet
      /\ heard' \in 0..MaxHeard
  BY TypeParts DEF Parts, DeferredRouteOutput
<1> QED BY <1>1, <1>2, <1>3, TypeParts DEF Parts

(* The three outcomes of a request timer, told apart.                      *)
LEMMA RouteRequestTimerExpireCases ==
    ASSUME NEW d \in Dst, NEW dead \in Outdated,
           RouteRequestTimerExpire(d, dead)
    PROVE  \/ /\ route[d].flag = "VALID"
              /\ SendPacketFromQueue(d, route[d].dev, dead)
              /\ timer' = timer \ {d}
              /\ UNCHANGED <<route, deferred, rreqCount, loop, heard>>
           \/ /\ route[d].flag = "IN_SEARCH"
              /\ SendRequest(d, deferred, timer \ {d})
              /\ UNCHANGED <<queue, out, dropped, loop, heard>>
           \/ /\ route' = [route EXCEPT ![d] = NoEntry]
              /\ DropPacketWithDst(d, dead)
              /\ timer' = timer \ {d}
              /\ UNCHANGED <<deferred, rreqCount, out, loop, heard>>
BY DEF RouteRequestTimerExpire

(* A request timer fires: types, and what becomes of the packets.          *)
LEMMA RouteRequestTimerExpireType ==
    ASSUME TypeOK, NEW d \in Dst, NEW dead \in Outdated,
           RouteRequestTimerExpire(d, dead)
    PROVE  /\ TypeOK'
           /\ UNCHANGED packets \/ (Release(d) /\ loop' = loop)
<1>1. QueueOK /\ SearchesOK /\ loop' \subseteq Packet /\ heard' \in 0..MaxHeard
      /\ loop' = loop /\ out \subseteq Packet /\ dropped \subseteq Packet
  BY TypeParts DEF Parts, RouteRequestTimerExpire
<1>2. ASSUME Release(d) PROVE out' \subseteq Packet /\ dropped' \subseteq Packet
  BY <1>1, <1>2 DEF Release, QueueOK
<1>3. CASE /\ route[d].flag = "VALID"
           /\ SendPacketFromQueue(d, route[d].dev, dead)
           /\ timer' = timer \ {d}
           /\ UNCHANGED <<route, deferred, rreqCount, loop, heard>>
  <2>1. QueueOK' /\ Release(d)
    BY <1>1, <1>3, SendPacketFromQueueReleases
  <2>2. SearchesOK'
    BY <1>1, <1>3 DEF SearchesOK
  <2> QED BY <1>1, <1>2, <2>1, <2>2, TypeParts DEF Parts
<1>4. CASE /\ SendRequest(d, deferred, timer \ {d})
           /\ UNCHANGED <<queue, out, dropped, loop, heard>>
  <2>1. SearchesOK'
    BY <1>1, <1>4, SendRequestType DEF SearchesOK
  <2>2. QueueOK'
    BY <1>1, <1>4 DEF QueueOK, Queued
  <2> QED BY <1>1, <1>4, <2>1, <2>2, TypeParts DEF Parts, packets
<1>5. CASE /\ route' = [route EXCEPT ![d] = NoEntry]
           /\ DropPacketWithDst(d, dead)
           /\ timer' = timer \ {d}
           /\ UNCHANGED <<deferred, rreqCount, out, loop, heard>>
  <2>1. QueueOK' /\ Release(d)
    BY <1>1, <1>5, DropPacketWithDstReleases
  <2>2. SearchesOK'
    BY <1>1, <1>5 DEF SearchesOK, Entry, NoEntry
  <2> QED BY <1>1, <1>2, <2>1, <2>2, TypeParts DEF Parts
<1> QED BY <1>3, <1>4, <1>5, RouteRequestTimerExpireCases

(* A reply reaches the origin.                                             *)
LEMMA RecvReplyType ==
    ASSUME TypeOK, NEW d \in Dst, NEW hop \in Nat, NEW dev \in Iface,
           NEW dead \in Outdated, RecvReply(d, hop, dev, dead)
    PROVE  TypeOK' /\ Release(d) /\ loop' = loop
<1>1. QueueOK /\ SearchesOK /\ out \subseteq Packet /\ dropped \subseteq Packet
  BY TypeParts DEF Parts
<1>2. QueueOK' /\ Release(d)
  BY <1>1, SendPacketFromQueueReleases DEF RecvReply
<1>3. out' \subseteq Packet /\ dropped' \subseteq Packet
  BY <1>1, <1>2 DEF Release, QueueOK
<1>4. SearchesOK'
  <2>1. Route(hop, dev) \in Entry
    BY DEF Route, Entry
  <2> QED BY <1>1, <2>1 DEF SearchesOK, RecvReply
<1>5. loop' = loop /\ loop \subseteq Packet /\ heard' \in 0..MaxHeard
  BY TypeParts DEF Parts, RecvReply
<1> QED BY <1>2, <1>3, <1>4, <1>5, TypeParts DEF Parts

(* Messages of other nodes and lost links: the table alone changes.        *)
LEMMA NetworkType ==
    ASSUME TypeOK, NEW d \in Dst,
           \/ LoseRoute(d)
           \/ \E dev \in Iface : HearNeighbour(d, dev)
           \/ \E dev \in Iface, hop \in Nat : HearRequestOf(d, hop, dev)
    PROVE  TypeOK' /\ UNCHANGED packets
<1>1. QueueOK /\ SearchesOK /\ route[d] \in Entry
  BY TypeParts DEF Parts, SearchesOK
<1>2. \E e \in Entry : route' = [route EXCEPT ![d] = e]
  <2>1. CASE LoseRoute(d)
    <3>1. [route[d] EXCEPT !.flag = "INVALID"] \in Entry /\ NoEntry \in Entry
      BY <1>1 DEF Entry, NoEntry
    <3>2. \/ route' = [route EXCEPT ![d] = [route[d] EXCEPT !.flag = "INVALID"]]
          \/ route' = [route EXCEPT ![d] = NoEntry]
      BY <2>1 DEF LoseRoute
    <3> QED BY <3>1, <3>2
  <2>2. ASSUME NEW dev \in Iface, HearNeighbour(d, dev)
        PROVE  \E e \in Entry : route' = [route EXCEPT ![d] = e]
    BY <2>2 DEF HearNeighbour, Route, Entry
  <2>3. ASSUME NEW dev \in Iface, NEW hop \in Nat, HearRequestOf(d, hop, dev)
        PROVE  \E e \in Entry : route' = [route EXCEPT ![d] = e]
    <3>1. /\ [route[d] EXCEPT !.hop = hop, !.dev = dev] \in Entry
          /\ Route(hop, dev) \in Entry
      BY <1>1 DEF Entry, Route
    <3>2. \/ route' = [route EXCEPT ![d] = [route[d] EXCEPT !.hop = hop, !.dev = dev]]
          \/ route' = [route EXCEPT ![d] = Route(hop, dev)]
      BY <2>3 DEF HearRequestOf
    <3> QED BY <3>1, <3>2
  <2> QED BY <2>1, <2>2, <2>3
<1>3. /\ UNCHANGED packets /\ heard' \in 0..MaxHeard
      /\ UNCHANGED <<timer, deferred, rreqCount>>
  <2>1. heard + 1 \in 0..MaxHeard \/ ~(heard < MaxHeard)
    BY TypeParts, DiscoveryAssumption DEF Parts
  <2> QED
    BY <2>1, TypeParts DEF Parts, LoseRoute, HearNeighbour, HearRequestOf, packets
<1>4. SearchesOK'
  BY <1>1, <1>2, <1>3 DEF SearchesOK
<1>5. QueueOK' /\ loop' \subseteq Packet /\ out' \subseteq Packet
      /\ dropped' \subseteq Packet
  BY <1>1, <1>3, TypeParts DEF Parts, QueueOK, Queued, packets
<1> QED BY <1>3, <1>4, <1>5, TypeParts DEF Parts

(* Every step keeps the types, and it takes in a packet, moves one from    *)
(* the loopback device to the queue, releases packets or leaves them be.   *)
LEMMA NextType ==
    ASSUME TypeOK, Next
    PROVE  /\ TypeOK'
           /\ \/ \E p \in Packet : RouteOutput(p)
              \/ \E p \in Packet, dead \in Outdated :
                    DeferredRouteOutput(p, dead)
              \/ \E d \in Dst : Release(d) /\ loop' = loop
              \/ UNCHANGED packets
<1>1. ASSUME NEW p \in Packet, RouteOutput(p) PROVE TypeOK'
  BY <1>1 DEF RouteOutput, TypeOK, Queued
<1>2. CASE SendDeferredRequest
  <2>1. Head(deferred) \in Dst /\ Tail(deferred) \in Seq(Dst) /\ timer \in SUBSET Dst
    BY <1>2, TypeParts DEF Parts, SendDeferredRequest, SearchesOK
  <2>2. SearchesOK'
    BY <1>2, <2>1, SendRequestType, TypeParts DEF Parts, SendDeferredRequest
  <2>3. UNCHANGED packets /\ heard' = heard
    BY <1>2 DEF SendDeferredRequest, packets
  <2>4. QueueOK'
    BY <2>3, TypeParts DEF Parts, QueueOK, Queued, packets
  <2> QED BY <2>2, <2>3, <2>4, TypeParts DEF Parts, packets
<1>3. CASE RreqRateLimitTimerExpire
  <2>1. UNCHANGED packets
    BY <1>3 DEF RreqRateLimitTimerExpire, packets
  <2>2. TypeOK'
    BY <1>3, DiscoveryAssumption DEF RreqRateLimitTimerExpire, TypeOK, Queued
  <2> QED BY <2>1, <2>2
<1>4. 1..NetDiameter \subseteq Nat /\ 2..NetDiameter \subseteq Nat
  BY RingAssumption
<1> QED
  BY <1>1, <1>2, <1>3, <1>4, DeferredRouteOutputType, NetworkType,
     RouteRequestTimerExpireType, RecvReplyType
  DEF Next

(* The types hold at the start.                                            *)
LEMMA InitType == Init => TypeOK
<1> SUFFICES ASSUME Init PROVE Parts
  BY TypeParts
<1>1. Queued = {} /\ queue \in [Queued -> Nat]
  BY DEF Init, Queued
<1>2. QueueOK
  BY <1>1, FS_EmptySet, DiscoveryAssumption DEF QueueOK
<1>3. SearchesOK
  BY DiscoveryAssumption DEF Init, SearchesOK, Entry, NoEntry
<1> QED BY <1>2, <1>3, DiscoveryAssumption DEF Parts, Init

(* A step that changes nothing keeps the types.                            *)
LEMMA StutterType == TypeOK /\ UNCHANGED vars => TypeOK'
BY DEF TypeOK, Queued, vars

(* The state of route discovery is always of its type: the queue never     *)
(* outgrows MaxQueueLen and the requests of a second never pass            *)
(* RreqRateLimit, though the code tests both with == only.                 *)
THEOREM DiscoveryTyped == Spec => []TypeOK
<1>1. TypeOK /\ [Next]_vars => TypeOK'
  BY NextType, StutterType
<1> QED BY <1>1, InitType, PTL DEF Spec

(* If the ring search ends at the diameter, ScheduleRreqRetry always finds *)
(* a retry interval for the request that was just sent, and never aborts.  *)
(* The program does not check the condition: with a threshold beyond the   *)
(* diameter a TTL can step over the diameter, and the abort is reached.    *)
THEOREM RetriesDefined ==
    ASSUME TtlThreshold <= NetDiameter
    PROVE  Spec => RetryDefined
<1> DEFINE Defined ==
      rreqCount' > rreqCount =>
        \A d \in Dst : route'[d].flag = "IN_SEARCH" /\ route'[d] # route[d]
          => route'[d].hop < NetDiameter \/ route'[d].cnt > 0
<1>1. ASSUME TypeOK, NEW c \in Dst, NEW pending, NEW running,
             SendRequest(c, pending, running)
      PROVE  Defined
  <2>1. SearchesOK /\ route[c] \in Entry
    BY <1>1, TypeParts DEF Parts, SearchesOK
  <2>2. CASE rreqCount = RreqRateLimit
    BY <1>1, <2>1, <2>2 DEF SendRequest, SearchesOK
  <2>3. CASE rreqCount # RreqRateLimit
    <3>1. route' = [route EXCEPT ![c] = SearchEntry(route[c])]
      BY <1>1, <2>3 DEF SendRequest
    <3> QED BY <2>1, <3>1, SearchEntryType DEF SearchesOK
  <2> QED BY <2>2, <2>3
<1>2. ASSUME TypeOK, rreqCount' = rreqCount \/ rreqCount' = 0 PROVE Defined
  BY <1>2, TypeParts DEF Parts, SearchesOK
<1>3. TypeOK /\ Next => Defined
  <2> HIDE DEF Defined
  <2> SUFFICES ASSUME TypeOK, Next PROVE Defined
    OBVIOUS
  <2>1. ASSUME NEW p \in Packet, RouteOutput(p) PROVE Defined
    BY <1>2, <2>1 DEF RouteOutput
  <2>2. ASSUME NEW p \in Packet, NEW dead, DeferredRouteOutput(p, dead)
        PROVE  Defined
    <3>1. DstOf[p] \in Dst
      BY DiscoveryAssumption
    <3> QED BY <1>1, <1>2, <2>2, <3>1 DEF DeferredRouteOutput
  <2>3. ASSUME NEW d \in Dst, NEW dead \in Outdated, RouteRequestTimerExpire(d, dead)
        PROVE  Defined
    BY <1>1, <1>2, <2>3, RouteRequestTimerExpireCases
  <2>4. CASE SendDeferredRequest
    <3>1. Head(deferred) \in Dst
      BY <2>4, TypeParts DEF SendDeferredRequest, Parts, SearchesOK
    <3> QED BY <1>1, <2>4, <3>1 DEF SendDeferredRequest
  <2>5. CASE RreqRateLimitTimerExpire
    BY <1>2, <2>5 DEF RreqRateLimitTimerExpire
  <2>6. ASSUME NEW d \in Dst, NEW dev, NEW hop, NEW dead,
               \/ LoseRoute(d) \/ HearNeighbour(d, dev)
               \/ HearRequestOf(d, hop, dev) \/ RecvReply(d, hop, dev, dead)
        PROVE  Defined
    BY <1>2, <2>6 DEF LoseRoute, HearNeighbour, HearRequestOf, RecvReply
  <2> QED BY <2>1, <2>2, <2>3, <2>4, <2>5, <2>6 DEF Next
<1>4. TypeOK /\ [Next]_vars => [Defined]_vars
  BY <1>3
<1> QED BY <1>4, DiscoveryTyped, PTL DEF Spec, RetryDefined

(* The counts.  A count is kept by searches only, so the first request for *)
(* a destination starts from zero; and a step that takes a count past      *)
(* RreqRetries is the call that waited longest.                            *)
CountsOK == \A c \in Dst : route[c].flag # "IN_SEARCH" => route[c].cnt = 0

Overrun(c) == route'[c].cnt > RreqRetries /\ route[c].cnt <= RreqRetries

LongestWaiting(c) ==
    deferred # <<>> /\ Head(deferred) = c /\ deferred' = Tail(deferred)

LEMMA CallCounts ==
    ASSUME TypeOK, NEW d \in Dst, NEW pending, NEW running,
           SendRequest(d, pending, running), NEW c \in Dst
    PROVE  \/ route'[c] = route[c]
           \/ /\ c = d /\ route'[c].flag = "IN_SEARCH" /\ deferred' = pending
              /\ route'[c].cnt \in {route[c].cnt, Counted(route[c].cnt)}
<1>1. SearchesOK /\ route[d] \in Entry
  BY TypeParts DEF Parts, SearchesOK
<1>2. CASE rreqCount = RreqRateLimit
  BY <1>2 DEF SendRequest
<1>3. CASE rreqCount # RreqRateLimit
  <2>1. route' = [route EXCEPT ![d] = SearchEntry(route[d])] /\ deferred' = pending
    BY <1>3 DEF SendRequest
  <2> QED BY <1>1, <2>1, SearchEntryType DEF SearchesOK
<1> QED BY <1>2, <1>3

(* With at least one retry, the timer alone stops at RreqRetries: the test *)
(* with == can be passed over by a call that was put off, and by nothing   *)
(* else.                                                                   *)
THEOREM RetriesAloneStop ==
    ASSUME RreqRetries > 0
    PROVE  Spec => RetriesStop
<1> DEFINE Kept(c) ==
             /\ route'[c].flag # "IN_SEARCH" => route'[c].cnt = 0
             /\ Overrun(c) => LongestWaiting(c)
<1>1. RreqRetries \in Nat
  BY RingAssumption
<1>2. ASSUME TypeOK, NEW c \in Dst PROVE route[c] \in Entry /\ route[c].cnt \in Nat
  BY <1>2, TypeParts DEF Parts, SearchesOK, Entry
<1>3. ASSUME TypeOK, CountsOK, NEW c \in Dst,
             \/ route'[c] = route[c]
             \/ route'[c].cnt = 0
             \/ /\ route'[c].flag = "IN_SEARCH" /\ route[c].cnt # RreqRetries
                /\ route'[c].cnt \in {route[c].cnt, Counted(route[c].cnt)}
      PROVE  Kept(c)
  BY <1>1, <1>2, <1>3 DEF CountsOK, Overrun, Counted
<1>4. ASSUME TypeOK, CountsOK, Next, NEW c \in Dst PROVE Kept(c)
  <2> HIDE DEF Kept
  <2>1. ASSUME NEW p \in Packet, RouteOutput(p) PROVE Kept(c)
    BY <1>3, <1>4, <2>1 DEF RouteOutput
  <2>2. ASSUME NEW p \in Packet, NEW dead, DeferredRouteOutput(p, dead)
        PROVE  Kept(c)
    <3>1. DstOf[p] \in Dst
      BY DiscoveryAssumption
    <3>2. CASE route[DstOf[p]].flag = "IN_SEARCH"
      BY <1>3, <1>4, <2>2, <3>2 DEF DeferredRouteOutput
    <3>3. CASE route[DstOf[p]].flag # "IN_SEARCH"
      <4>1. SendRequest(DstOf[p], deferred, timer) /\ route[DstOf[p]].cnt = 0
        BY <1>4, <2>2, <3>1, <3>3 DEF DeferredRouteOutput, CountsOK
      <4> QED BY <1>3, <1>4, <3>1, <4>1, CallCounts
    <3> QED BY <3>2, <3>3
  <2>3. ASSUME NEW d \in Dst, NEW dead \in Outdated, RouteRequestTimerExpire(d, dead)
        PROVE  Kept(c)
    <3>1. CASE UNCHANGED route
      BY <1>3, <1>4, <3>1
    <3>2. CASE /\ route[d].cnt # RreqRetries
               /\ SendRequest(d, deferred, timer \ {d})
      BY <1>3, <1>4, <3>2, CallCounts
    <3>3. CASE route' = [route EXCEPT ![d] = NoEntry]
      <4>1. route'[c] = route[c] \/ route'[c] = NoEntry
        BY <1>4, <3>3, TypeParts DEF Parts, SearchesOK
      <4> QED BY <1>3, <1>4, <4>1 DEF NoEntry
    <3> QED BY <2>3, <3>1, <3>2, <3>3 DEF RouteRequestTimerExpire
  <2>4. CASE SendDeferredRequest
    <3>1. /\ Head(deferred) \in Dst /\ deferred # <<>>
          /\ SendRequest(Head(deferred), Tail(deferred), timer)
      BY <1>4, <2>4, TypeParts DEF SendDeferredRequest, Parts, SearchesOK
    <3>2. \/ route'[c] = route[c]
          \/ route'[c].flag = "IN_SEARCH" /\ LongestWaiting(c)
      BY <1>4, <3>1, CallCounts DEF LongestWaiting
    <3> QED BY <1>3, <1>4, <3>2 DEF Kept
  <2>5. CASE RreqRateLimitTimerExpire
    BY <1>3, <1>4, <2>5 DEF RreqRateLimitTimerExpire
  <2>6. ASSUME NEW d \in Dst, NEW dev, NEW hop, NEW dead,
               \/ LoseRoute(d) \/ HearNeighbour(d, dev)
               \/ HearRequestOf(d, hop, dev) \/ RecvReply(d, hop, dev, dead)
        PROVE  Kept(c)
    <3>1. /\ route \in [Dst -> Entry] /\ route[d] \in Entry
      BY <1>2, <1>4, TypeParts DEF Parts, SearchesOK
    <3>2. \/ route' = route
          \/ \E h : route' = [route EXCEPT ![d] = Route(h, dev)]
          \/ route' = [route EXCEPT ![d] = NoEntry]
          \/ /\ route[d].flag = "VALID"
             /\ route' = [route EXCEPT ![d].flag = "INVALID"]
          \/ /\ route[d].flag # "NONE"
             /\ route' = [route EXCEPT ![d] = [@ EXCEPT !.hop = hop, !.dev = dev]]
      BY <2>6 DEF LoseRoute, HearNeighbour, HearRequestOf, RecvReply
    <3>3. CASE c # d
      BY <1>3, <1>4, <3>1, <3>2, <3>3
    <3>4. CASE c = d
      <4>1. \/ route'[d] = route[d]
            \/ \E h : route'[d] = Route(h, dev)
            \/ route'[d] = NoEntry
            \/ /\ route[d].flag = "VALID"
               /\ route'[d] = [route[d] EXCEPT !.flag = "INVALID"]
            \/ route'[d] = [route[d] EXCEPT !.hop = hop, !.dev = dev]
        BY <3>1, <3>2
      <4>2. CASE route'[d].cnt = 0
        BY <1>3, <1>4, <3>4, <4>2
      <4>3. CASE route'[d].cnt = route[d].cnt /\ route'[d].flag = route[d].flag
        <5>1. route[c].cnt \in Nat
          BY <1>2, <1>4
        <5>2. ~Overrun(c)
          BY <1>1, <3>4, <4>3, <5>1 DEF Overrun
        <5>3. route'[c].flag # "IN_SEARCH" => route'[c].cnt = 0
          BY <1>4, <3>4, <4>3 DEF CountsOK
        <5> QED BY <5>2, <5>3 DEF Kept
      <4>4. CASE \E h : route'[d] = Route(h, dev)
        BY <4>2, <4>4 DEF Route
      <4>5. CASE route'[d] = NoEntry
        BY <4>2, <4>5 DEF NoEntry
      <4>6. CASE /\ route[d].flag = "VALID"
                 /\ route'[d] = [route[d] EXCEPT !.flag = "INVALID"]
        <5>1. route[d].cnt = 0
          BY <1>4, <4>6 DEF CountsOK
        <5> QED BY <3>1, <4>2, <4>6, <5>1 DEF Entry
      <4>7. CASE route'[d] = [route[d] EXCEPT !.hop = hop, !.dev = dev]
        BY <3>1, <4>3, <4>7 DEF Entry
      <4> QED BY <4>1, <4>3, <4>4, <4>5, <4>6, <4>7
    <3> QED BY <3>3, <3>4
  <2> QED BY <1>4, <2>1, <2>2, <2>3, <2>4, <2>5, <2>6 DEF Next
<1>5. Init => CountsOK
  BY DEF Init, CountsOK, NoEntry
<1>6. TypeOK /\ CountsOK /\ [Next]_vars => CountsOK'
  <2>1. ASSUME UNCHANGED vars, CountsOK PROVE CountsOK'
    BY <2>1 DEF vars, CountsOK
  <2> QED BY <1>4, <2>1 DEF CountsOK
<1> DEFINE Stops == \A d \in Dst : Overrun(d) => LongestWaiting(d)
<1>7. TypeOK /\ CountsOK /\ [Next]_vars => [Stops]_vars
  BY <1>4
<1>8. RetriesStop <=> [][Stops]_vars
  BY DEF RetriesStop, Overrun, LongestWaiting
<1> HIDE DEF Stops
<1> QED BY <1>5, <1>6, <1>7, <1>8, DiscoveryTyped, PTL DEF Spec

-----------------------------------------------------------------------------
(* The pursuit.  A destination is pursued while its timer runs or a call   *)
(* for it waits for the rate limit.  The invariant: so is every search,    *)
(* for a packet that meets a search asks for nothing itself, and so is     *)
(* every destination whose packets all fit every device.                   *)
Pursued == timer \cup Range(deferred)

Fits(d) == \A p \in Packet, dev \in Iface : DstOf[p] = d => ~Mismatch(p, dev)

DevicesKnown ==
    \A d \in Dst : route[d].flag \in {"VALID", "INVALID"} => route[d].dev \in Iface

SearchPursued == \A d \in Dst : route[d].flag = "IN_SEARCH" => d \in Pursued

FittingPursued == \A p \in Queued : Fits(DstOf[p]) => DstOf[p] \in Pursued

PursuitInv == TypeOK /\ DevicesKnown /\ SearchPursued /\ FittingPursued

(* SendRequest leaves its destination pursued, and all those that the      *)
(* timers and the calls it is given pursue; it touches one entry.          *)
LEMMA SendRequestPursues ==
    ASSUME SearchesOK, NEW d \in Dst, NEW pending \in Seq(Dst), NEW running,
           SendRequest(d, pending, running)
    PROVE  /\ running \cup Range(pending) \cup {d} \subseteq Pursued'
           /\ \A c \in Dst : \/ route'[c] = route[c]
                             \/ c = d /\ route'[c].flag = "IN_SEARCH"
<1>1. CASE rreqCount = RreqRateLimit
  <2>1. /\ deferred' = Append(pending, d) /\ timer' = running
        /\ route' = route
    BY <1>1 DEF SendRequest
  <2>2. /\ DOMAIN deferred' = 1..(Len(pending) + 1)
        /\ DOMAIN pending = 1..Len(pending) /\ Len(pending) \in Nat
        /\ deferred'[Len(pending) + 1] = d
        /\ \A i \in 1..Len(pending) : deferred'[i] = pending[i]
    BY <2>1
  <2>3. Len(pending) + 1 \in DOMAIN deferred' /\ DOMAIN pending \subseteq DOMAIN deferred'
    BY <2>2
  <2>4. d \in Range(deferred')
    BY <2>2, <2>3 DEF Range
  <2>5. Range(pending) \subseteq Range(deferred')
    BY <2>2, <2>3 DEF Range
  <2>6. Pursued' = running \cup Range(deferred')
    BY <2>1 DEF Pursued
  <2>7. running \cup Range(pending) \cup {d} \subseteq Pursued'
    BY <2>4, <2>5, <2>6
  <2> QED BY <2>1, <2>7
<1>2. CASE rreqCount # RreqRateLimit
  <2>1. route[d] \in Entry
    BY DEF SearchesOK
  <2>2. /\ route' = [route EXCEPT ![d] = SearchEntry(route[d])]
        /\ timer' = running \cup {d} /\ deferred' = pending
    BY <1>2 DEF SendRequest
  <2>3. SearchEntry(route[d]).flag = "IN_SEARCH"
    BY <2>1, SearchEntryType
  <2>4. running \cup Range(pending) \cup {d} \subseteq Pursued'
    BY <2>2 DEF Pursued, Range
  <2>5. ASSUME NEW c \in Dst, c # d PROVE route'[c] = route[c]
    BY <2>2, <2>5 DEF SearchesOK
  <2>6. route'[d].flag = "IN_SEARCH"
    BY <2>2, <2>3 DEF SearchesOK
  <2> QED BY <2>4, <2>5, <2>6
<1> QED BY <1>1, <1>2

(* When a step makes no call: no new search, no packet that was not there, *)
(* every device known, and no pursuit ended but those that are over.       *)
LEMMA QuietPursuit ==
    ASSUME PursuitInv, Queued' \subseteq Queued,
           \A c \in Dst :
              \/ route'[c] = route[c]
              \/ route'[c].flag \in {"VALID", "INVALID"} /\ route'[c].dev \in Iface
              \/ route'[c].flag = "NONE"
              \/ route[c].flag = "IN_SEARCH" /\ route'[c].flag = "IN_SEARCH",
           \A c \in Pursued \ Pursued' :
              /\ route'[c].flag # "IN_SEARCH"
              /\ Fits(c) => \A p \in Queued' : DstOf[p] # c
    PROVE  DevicesKnown' /\ SearchPursued' /\ FittingPursued'
<1>1. \A c : Fits(c)' <=> Fits(c)
  BY DEF Fits, Mismatch
<1>2. DevicesKnown' /\ SearchPursued'
  BY DEF PursuitInv, DevicesKnown, SearchPursued
<1>3. ASSUME NEW p \in Queued', Fits(DstOf[p]) PROVE DstOf[p] \in Pursued'
  BY <1>3 DEF PursuitInv, FittingPursued
<1> QED BY <1>1, <1>2, <1>3 DEF FittingPursued

(* When a call of SendRequest for d ends the step: what was pursued still  *)
(* is, or is d, and new packets in the queue are for d.                    *)
LEMMA RequestPursuit ==
    ASSUME PursuitInv, NEW d \in Dst, NEW pending \in Seq(Dst), NEW running,
           SendRequest(d, pending, running),
           Pursued \subseteq running \cup Range(pending) \cup {d},
           \A p \in Queued' : p \in Queued \/ DstOf[p] = d
    PROVE  DevicesKnown' /\ SearchPursued' /\ FittingPursued'
<1>1. SearchesOK
  BY TypeParts DEF PursuitInv, Parts
<1>2. /\ Pursued \cup {d} \subseteq Pursued'
      /\ \A c \in Dst : \/ route'[c] = route[c]
                        \/ c = d /\ route'[c].flag = "IN_SEARCH"
  BY <1>1, SendRequestPursues
<1>3. \A c : Fits(c)' <=> Fits(c)
  BY DEF Fits, Mismatch
<1>4. DevicesKnown' /\ SearchPursued'
  BY <1>2 DEF PursuitInv, DevicesKnown, SearchPursued
<1>5. ASSUME NEW p \in Queued', Fits(DstOf[p]) PROVE DstOf[p] \in Pursued'
  BY <1>2, <1>5 DEF PursuitInv, FittingPursued
<1> QED BY <1>3, <1>4, <1>5 DEF FittingPursued

(* A packet enters the queue with a search under way or a call of its own. *)
LEMMA DeferredRouteOutputPursuit ==
    ASSUME PursuitInv, NEW p \in Packet, NEW dead \in Outdated,
           DeferredRouteOutput(p, dead)
    PROVE  DevicesKnown' /\ SearchPursued' /\ FittingPursued'
<1>1. QueueOK /\ SearchesOK /\ DstOf[p] \in Dst /\ Enqueue(p, dead)
  BY TypeParts, DiscoveryAssumption
  DEF PursuitInv, Parts, DeferredRouteOutput
<1>2. \A q \in Queued' : q \in Queued \/ q = p
  BY <1>1, EnqueuedQueue
<1>3. CASE route[DstOf[p]].flag = "IN_SEARCH"
  <2>1. UNCHANGED <<route, timer, deferred>>
    BY <1>3 DEF DeferredRouteOutput
  <2>2. Pursued' = Pursued
    BY <2>1 DEF Pursued
  <2>3. \A c : Fits(c)' <=> Fits(c)
    BY DEF Fits, Mismatch
  <2>4. DevicesKnown' /\ SearchPursued'
    BY <2>1, <2>2 DEF PursuitInv, DevicesKnown, SearchPursued
  <2>5. DstOf[p] \in Pursued
    BY <1>1, <1>3 DEF PursuitInv, SearchPursued
  <2>6. ASSUME NEW q \in Queued', Fits(DstOf[q]) PROVE DstOf[q] \in Pursued'
    BY <1>2, <2>2, <2>5, <2>6 DEF PursuitInv, FittingPursued
  <2> QED BY <2>3, <2>4, <2>6 DEF FittingPursued
<1>4. CASE route[DstOf[p]].flag # "IN_SEARCH"
  <2>1. SendRequest(DstOf[p], deferred, timer)
    BY <1>4 DEF DeferredRouteOutput
  <2>2. deferred \in Seq(Dst)
    BY <1>1 DEF SearchesOK
  <2> QED BY <1>1, <1>2, <2>1, <2>2, RequestPursuit DEF Pursued
<1> QED BY <1>3, <1>4

(* A timer that stops has released its packets, or given up on them.       *)
LEMMA RouteRequestTimerExpirePursuit ==
    ASSUME PursuitInv, NEW d \in Dst, NEW dead \in Outdated,
           RouteRequestTimerExpire(d, dead)
    PROVE  DevicesKnown' /\ SearchPursued' /\ FittingPursued'
<1>1. QueueOK /\ SearchesOK
  BY TypeParts DEF PursuitInv, Parts
<1>2. CASE /\ route[d].flag = "VALID"
           /\ SendPacketFromQueue(d, route[d].dev, dead)
           /\ timer' = timer \ {d}
           /\ UNCHANGED <<route, deferred, rreqCount, loop, heard>>
  <2>1. Release(d) /\ Queued' \subseteq Queued
    BY <1>1, <1>2, SendPacketFromQueueReleases DEF Release
  <2>2. Pursued \ Pursued' \subseteq {d}
    BY <1>2 DEF Pursued
  <2>3. route[d].dev \in Iface
    BY <1>2 DEF PursuitInv, DevicesKnown
  <2>4. Fits(d) => \A p \in Queued' : DstOf[p] # d
    BY <1>1, <1>2, <2>3, SendPacketFromQueueReleases DEF Fits
  <2> QED BY <1>2, <2>1, <2>2, <2>4, QuietPursuit
<1>3. CASE /\ SendRequest(d, deferred, timer \ {d})
           /\ UNCHANGED <<queue, out, dropped, loop, heard>>
  <2>1. deferred \in Seq(Dst) /\ Queued' = Queued
    BY <1>1, <1>3 DEF SearchesOK, Queued
  <2>2. Pursued \subseteq (timer \ {d}) \cup Range(deferred) \cup {d}
    BY DEF Pursued
  <2> QED BY <1>3, <2>1, <2>2, RequestPursuit
<1>4. CASE /\ route' = [route EXCEPT ![d] = NoEntry]
           /\ DropPacketWithDst(d, dead)
           /\ timer' = timer \ {d}
           /\ UNCHANGED <<deferred, rreqCount, out, loop, heard>>
  <2>1. Queued' \subseteq Queued /\ \A p \in Queued' : DstOf[p] # d
    BY <1>1, <1>4, DropPacketWithDstReleases DEF Release
  <2>2. Pursued \ Pursued' \subseteq {d}
    BY <1>4 DEF Pursued
  <2>3. /\ route'[d].flag = "NONE"
        /\ \A c \in Dst : route'[c] = route[c] \/ route'[c].flag = "NONE"
    BY <1>1, <1>4 DEF SearchesOK, NoEntry
  <2> QED BY <2>1, <2>2, <2>3, QuietPursuit
<1> QED BY <1>2, <1>3, <1>4, RouteRequestTimerExpireCases

(* A reply ends the pursuit of a search, and its packets leave.            *)
LEMMA RecvReplyPursuit ==
    ASSUME PursuitInv, NEW d \in Dst, NEW hop \in Nat, NEW dev \in Iface,
           NEW dead \in Outdated, RecvReply(d, hop, dev, dead)
    PROVE  DevicesKnown' /\ SearchPursued' /\ FittingPursued'
<1>1. QueueOK /\ SearchesOK
  BY TypeParts DEF PursuitInv, Parts
<1>2. /\ \/ route' = [route EXCEPT ![d] = Route(hop, dev)]
         \/ route[d].flag \in {"VALID", "INVALID"} /\ route' = route
      /\ timer' = IF route[d].flag = "IN_SEARCH" THEN timer \ {d} ELSE timer
      /\ SendPacketFromQueue(d, route'[d].dev, dead)
      /\ deferred' = deferred
  BY DEF RecvReply
<1>3. /\ route'[d].flag # "IN_SEARCH" /\ route'[d].dev \in Iface
      /\ \A c \in Dst : \/ route'[c] = route[c]
                        \/ route'[c].flag = "VALID" /\ route'[c].dev \in Iface
  <2>1. Route(hop, dev).flag = "VALID" /\ Route(hop, dev).dev \in Iface
    BY DEF Route
  <2>2. route \in [Dst -> Entry]
    BY <1>1 DEF SearchesOK
  <2> QED BY <1>2, <2>1, <2>2 DEF PursuitInv, DevicesKnown
<1>4. Queued' \subseteq Queued
  BY <1>1, <1>2, SendPacketFromQueueReleases DEF Release
<1>5. Fits(d) => \A p \in Queued' : DstOf[p] # d
  BY <1>1, <1>2, <1>3, SendPacketFromQueueReleases DEF Fits
<1>6. Pursued \ Pursued' \subseteq {d}
  BY <1>2 DEF Pursued
<1> QED BY <1>3, <1>4, <1>5, <1>6, QuietPursuit

(* Every step keeps the invariant.                                         *)
LEMMA NextPursuit == PursuitInv /\ Next => PursuitInv'
<1> SUFFICES ASSUME PursuitInv, Next
             PROVE  DevicesKnown' /\ SearchPursued' /\ FittingPursued'
  BY NextType DEF PursuitInv
<1>1. SearchesOK
  BY TypeParts DEF PursuitInv, Parts
<1>2. ASSUME NEW p \in Packet, RouteOutput(p)
      PROVE  DevicesKnown' /\ SearchPursued' /\ FittingPursued'
  <2>1. Queued' = Queued /\ Pursued' = Pursued /\ route' = route
    BY <1>2 DEF RouteOutput, Queued, Pursued
  <2> QED BY <2>1, QuietPursuit
<1>3. CASE SendDeferredRequest
  <2>1. /\ Head(deferred) \in Dst /\ Tail(deferred) \in Seq(Dst)
        /\ Range(deferred) = Range(Tail(deferred)) \cup {Head(deferred)}
    <3>1. deferred \in Seq(Dst) /\ deferred # <<>>
      BY <1>1, <1>3 DEF SendDeferredRequest, SearchesOK
    <3>2. /\ Len(deferred) \in Nat /\ Len(deferred) > 0
          /\ DOMAIN deferred = 1..Len(deferred)
          /\ DOMAIN Tail(deferred) = 1..(Len(deferred) - 1)
          /\ Head(deferred) = deferred[1]
          /\ \A i \in 1..(Len(deferred) - 1) : Tail(deferred)[i] = deferred[i + 1]
      BY <3>1
    <3>3. ASSUME NEW i \in DOMAIN deferred
          PROVE  deferred[i] \in Range(Tail(deferred)) \cup {Head(deferred)}
      <4>1. CASE i = 1
        BY <3>2, <4>1
      <4>2. CASE i # 1
        <5>1. i - 1 \in 1..(Len(deferred) - 1) /\ (i - 1) + 1 = i
          BY <3>2, <4>2
        <5>2. Tail(deferred)[i - 1] = deferred[i]
          BY <3>2, <5>1
        <5> QED BY <3>2, <5>1, <5>2 DEF Range
      <4> QED BY <4>1, <4>2
    <3>4. \A i \in DOMAIN Tail(deferred) : Tail(deferred)[i] \in Range(deferred)
      <4>1. ASSUME NEW i \in 1..(Len(deferred) - 1)
            PROVE  i + 1 \in DOMAIN deferred /\ Tail(deferred)[i] = deferred[i + 1]
        BY <3>2
      <4> QED BY <3>2, <4>1 DEF Range
    <3>5. Head(deferred) \in Range(deferred)
      <4>1. 1 \in DOMAIN deferred
        BY <3>2
      <4> QED BY <3>2, <4>1 DEF Range
    <3>6. Range(deferred) \subseteq Range(Tail(deferred)) \cup {Head(deferred)}
      BY <3>3 DEF Range
    <3>7. Range(Tail(deferred)) \subseteq Range(deferred)
      BY <3>4 DEF Range
    <3>8. Head(deferred) \in Dst /\ Tail(deferred) \in Seq(Dst)
      BY <3>1
    <3> QED BY <3>5, <3>6, <3>7, <3>8
  <2>2. Pursued \subseteq timer \cup Range(Tail(deferred)) \cup {Head(deferred)}
    BY <2>1 DEF Pursued
  <2>3. Queued' = Queued /\ SendRequest(Head(deferred), Tail(deferred), timer)
    BY <1>3 DEF SendDeferredRequest, Queued
  <2> QED BY <2>1, <2>2, <2>3, RequestPursuit
<1>4. CASE RreqRateLimitTimerExpire
  <2>1. Queued' = Queued /\ Pursued' = Pursued /\ route' = route
    BY <1>4 DEF RreqRateLimitTimerExpire, Queued, Pursued
  <2> QED BY <2>1, QuietPursuit
<1>5. ASSUME NEW d \in Dst, LoseRoute(d)
      PROVE  DevicesKnown' /\ SearchPursued' /\ FittingPursued'
  <2>1. Queued' = Queued /\ Pursued' = Pursued
    BY <1>5 DEF LoseRoute, Queued, Pursued
  <2>2. route \in [Dst -> Entry]
    BY <1>1 DEF SearchesOK
  <2>3. /\ \A c \in Dst : c # d => route'[c] = route[c]
        /\ \/ route'[d].flag = "NONE"
           \/ /\ route'[d].flag = "INVALID"
              /\ route'[d].dev = route[d].dev /\ route[d].flag = "VALID"
    BY <1>5, <2>2 DEF LoseRoute, NoEntry, Entry
  <2>4. route[d].flag = "VALID" => route[d].dev \in Iface
    BY DEF PursuitInv, DevicesKnown
  <2> QED BY <2>1, <2>3, <2>4, QuietPursuit
<1>6. ASSUME NEW d \in Dst, NEW dev \in Iface, NEW hop,
             HearNeighbour(d, dev) \/ HearRequestOf(d, hop, dev)
      PROVE  DevicesKnown' /\ SearchPursued' /\ FittingPursued'
  <2>1. Queued' = Queued /\ Pursued' = Pursued
    BY <1>6 DEF HearNeighbour, HearRequestOf, Queued, Pursued
  <2>2. route \in [Dst -> Entry]
    BY <1>1 DEF SearchesOK
  <2>3. /\ \A c \in Dst : c # d => route'[c] = route[c]
        /\ route'[d].dev \in Iface
        /\ route'[d].flag = "VALID" \/ route'[d].flag = route[d].flag
    <3>1. Route(1, dev).flag = "VALID" /\ Route(1, dev).dev = dev
          /\ Route(hop, dev).flag = "VALID" /\ Route(hop, dev).dev = dev
      BY DEF Route
    <3>2. CASE HearNeighbour(d, dev)
      BY <2>2, <3>1, <3>2 DEF HearNeighbour
    <3>3. CASE HearRequestOf(d, hop, dev)
      <4> DEFINE e == IF route[d].flag = "NONE" THEN Route(hop, dev)
                      ELSE [route[d] EXCEPT !.hop = hop, !.dev = dev]
      <4>1. e.dev = dev /\ (e.flag = "VALID" \/ e.flag = route[d].flag)
        BY <2>2, <3>1 DEF Entry
      <4>2. route' = [route EXCEPT ![d] = e]
        BY <3>3 DEF HearRequestOf
      <4> HIDE DEF e
      <4> QED BY <2>2, <4>1, <4>2
    <3> QED BY <1>6, <3>2, <3>3
  <2>4. route[d].flag \in {"NONE", "VALID", "INVALID", "IN_SEARCH"}
    BY <2>2 DEF Entry
  <2> QED BY <2>1, <2>3, <2>4, QuietPursuit
<1>7. 1..NetDiameter \subseteq Nat
  BY RingAssumption
<1> QED
  BY <1>2, <1>3, <1>4, <1>5, <1>6, <1>7, DeferredRouteOutputPursuit,
     RouteRequestTimerExpirePursuit, RecvReplyPursuit
  DEF Next

(* No packets and no searches at the start.                                *)
LEMMA InitPursuit == Init => PursuitInv
BY InitType
DEF Init, PursuitInv, DevicesKnown, SearchPursued, FittingPursued, NoEntry, Queued

(* Packets that fit every device their destination may be reached through  *)
(* are pursued for as long as they wait, however the table changes under   *)
(* the search: none is left in the queue with nothing to release it.       *)
THEOREM FittingPacketsPursued == Spec => []FittingPursued
<1>1. PursuitInv /\ UNCHANGED vars => PursuitInv'
  BY StutterType
  DEF vars, PursuitInv, DevicesKnown, SearchPursued, FittingPursued, Queued,
      Pursued, Fits, Mismatch
<1>2. PursuitInv /\ [Next]_vars => PursuitInv'
  BY <1>1, NextPursuit
<1>3. PursuitInv => FittingPursued
  BY DEF PursuitInv
<1> QED BY <1>2, <1>3, InitPursuit, PTL DEF Spec

(* So every packet in the queue is pursued if no socket insists on a       *)
(* device that a packet for its destination might not leave by.            *)
THEOREM PacketsPursued ==
    ASSUME \A p \in Packet, dev \in Iface : ~Mismatch(p, dev)
    PROVE  Spec => []QueuePursued
<1>1. TypeOK /\ FittingPursued => QueuePursued
  BY TypeParts
  DEF Parts, QueueOK, FittingPursued, Fits, QueuePursued, Pursued, Range
<1> QED BY <1>1, DiscoveryTyped, FittingPacketsPursued, PTL

-----------------------------------------------------------------------------
(* The refinement.  A packet is in one place only, which makes Status easy *)
(* to read.                                                                *)
Apart ==
    /\ loop \cap Queued = {} /\ out \cap dropped = {}
    /\ (loop \cup Queued) \cap (out \cup dropped) = {}

BufferInv == TypeOK /\ Apart

(* What Status is before and after a step.                                 *)
LEMMA StatusIs ==
    /\ Apart => Status =
         [p \in Packet |-> IF p \in loop \cup Queued THEN "held"
                           ELSE IF p \in out THEN "sent"
                           ELSE IF p \in dropped THEN "dropped" ELSE "new"]
    /\ Apart' => Status' =
         [p \in Packet |-> IF p \in loop' \cup Queued' THEN "held"
                           ELSE IF p \in out' THEN "sent"
                           ELSE IF p \in dropped' THEN "dropped" ELSE "new"]
<1>1. ASSUME NEW held, NEW sent, NEW gone, NEW p,
             sent \cap gone = {}, held \cap (sent \cup gone) = {}
      PROVE  (CASE p \in held \ (sent \cup gone)     -> "held"
                [] p \in sent \ (held \cup gone)     -> "sent"
                [] p \in gone \ (held \cup sent)     -> "dropped"
                [] p \notin held \cup sent \cup gone -> "new"
                [] OTHER                             -> "several")
             = IF p \in held THEN "held" ELSE IF p \in sent THEN "sent"
               ELSE IF p \in gone THEN "dropped" ELSE "new"
  <2>1. CASE p \in held
    BY <1>1, <2>1
  <2>2. CASE p \in sent
    BY <1>1, <2>2
  <2>3. CASE p \in gone
    BY <1>1, <2>3
  <2>4. CASE p \notin held \cup sent \cup gone
    BY <2>4
  <2> QED BY <2>1, <2>2, <2>3, <2>4
<1> QED BY <1>1 DEF Apart, Status

(* A step that takes in no packet and only lets held packets go is a step  *)
(* of the buffer that settles packets, or is invisible.                    *)
LEMMA SettleStep ==
    ASSUME TypeOK, Apart, Apart', NEW d \in Dst,
           loop' \cup Queued' \subseteq loop \cup Queued,
           loop \cup Queued \subseteq loop' \cup Queued' \cup out' \cup dropped',
           out \subseteq out', dropped \subseteq dropped',
           (out' \ out) \cup (dropped' \ dropped) \subseteq loop \cup Queued,
           \A p \in out' \ out : DstOf[p] = d
    PROVE  [Buffer!Next]_Status
<1> SUFFICES ASSUME Status' # Status PROVE Buffer!Next
  OBVIOUS
<1> DEFINE to == IF \E p \in Packet : p \in out' \ out THEN d
                 ELSE DstOf[CHOOSE p \in Packet : Status'[p] # Status[p]]
<1>1. /\ loop \cup Queued \subseteq Packet /\ out \subseteq Packet
      /\ dropped \subseteq Packet
  BY TypeParts DEF Parts, QueueOK
<1>2. \A p \in Packet :
        \/ Status'[p] = Status[p]
        \/ /\ Status[p] = "held"
           /\ Status'[p] = "dropped" \/ (Status'[p] = "sent" /\ p \in out' \ out)
  BY <1>1, StatusIs DEF Apart
<1>3. \E p \in Packet : Status'[p] # Status[p]
  BY StatusIs
<1>4. to \in {DstOf[p] : p \in Packet}
  BY <1>3
<1>5. \A p \in out' \ out : DstOf[p] = to
  BY <1>1
<1> HIDE DEF to
<1>6. Buffer!Settle(to)
  BY <1>2, <1>5 DEF Buffer!Settle
<1> QED BY <1>4, <1>6 DEF Buffer!Next

(* A route, a failed search and the purge of the queue release packets.    *)
LEMMA ReleaseStep ==
    ASSUME BufferInv, NEW d \in Dst, Release(d), loop' = loop
    PROVE  Apart' /\ [Buffer!Next]_Status
<1>1. PICK sent \in SUBSET Queued, gone \in SUBSET Queued :
        /\ sent \cap gone = {} /\ \A p \in sent : DstOf[p] = d
        /\ Queued' = Queued \ (sent \cup gone)
        /\ out' = out \cup sent /\ dropped' = dropped \cup gone
  BY DEF Release
<1>2. Apart'
  BY <1>1 DEF BufferInv, Apart
<1> QED BY <1>1, <1>2, SettleStep DEF BufferInv

(* Nobody outside sees a packet go from the loopback device to the queue,  *)
(* only those that must make room for it.                                  *)
LEMMA EnqueueStep ==
    ASSUME BufferInv, NEW p \in Packet, NEW dead \in Outdated,
           DeferredRouteOutput(p, dead)
    PROVE  Apart' /\ [Buffer!Next]_Status
<1>1. QueueOK /\ p \in loop /\ loop' = loop \ {p} /\ out' = out
      /\ Enqueue(p, dead) /\ DstOf[p] \in Dst
  BY TypeParts, DiscoveryAssumption DEF BufferInv, Parts, DeferredRouteOutput
<1>2. PICK gone \in SUBSET Queued :
        /\ Queued' = (Queued \ gone) \cup {p} /\ dropped' = dropped \cup gone
  BY <1>1, EnqueuedQueue
<1>3. Apart'
  BY <1>1, <1>2 DEF BufferInv, Apart
<1> QED BY <1>1, <1>2, <1>3, SettleStep DEF BufferInv

(* A packet of an application: taken in, sent at once or refused.          *)
LEMMA RouteOutputStep ==
    ASSUME BufferInv, NEW p \in Packet, RouteOutput(p)
    PROVE  Apart' /\ [Buffer!Next]_Status
<1>1. p \notin loop \cup Queued \cup out \cup dropped /\ Queued' = Queued
  BY DEF RouteOutput, Queued
<1>2. Status[p] = "new"
  BY <1>1, StatusIs DEF BufferInv
<1>3. CASE loop' = loop \cup {p} /\ UNCHANGED <<out, dropped>>
  <2>1. Apart'
    BY <1>1, <1>3 DEF BufferInv, Apart
  <2>2. Status' = [Status EXCEPT ![p] = "held"]
    BY <1>1, <1>3, <2>1, StatusIs DEF BufferInv
  <2> QED BY <1>2, <2>1, <2>2 DEF Buffer!Next, Buffer!Hold
<1>4. CASE /\ UNCHANGED loop
           /\ \/ out' = out \cup {p} /\ dropped' = dropped
              \/ dropped' = dropped \cup {p} /\ out' = out
  <2>1. Apart'
    BY <1>1, <1>4 DEF BufferInv, Apart
  <2>2. Status'[p] \in {"sent", "dropped"}
    BY <1>1, <1>4, <2>1, StatusIs DEF BufferInv
  <2>3. \A q \in Packet : q # p => Status'[q] = Status[q]
    BY <1>1, <1>4, <2>1, StatusIs DEF BufferInv
  <2>4. Buffer!Settle(DstOf[p])
    BY <1>2, <2>2, <2>3 DEF Buffer!Settle
  <2> QED BY <2>1, <2>4 DEF Buffer!Next
<1> QED BY <1>3, <1>4 DEF RouteOutput

(* All packets are new at the start.                                       *)
LEMMA InitBuffer == Init => BufferInv /\ Buffer!Init
<1>1. Init => Queued = {}
  BY DEF Init, Queued
<1>2. Init => Apart
  BY <1>1 DEF Init, Apart
<1>3. Init => Status = [p \in Packet |-> "new"]
  BY <1>1, <1>2, StatusIs DEF Init
<1> QED BY <1>2, <1>3, InitType DEF BufferInv, Buffer!Init

(* Every step is a step of the buffer, or invisible to the applications.   *)
LEMMA NextBuffer ==
    BufferInv /\ [Next]_vars => BufferInv' /\ [Buffer!Next]_Status
<1> SUFFICES ASSUME BufferInv, [Next]_vars
             PROVE  BufferInv' /\ [Buffer!Next]_Status
  OBVIOUS
<1>1. ASSUME UNCHANGED packets PROVE Apart' /\ [Buffer!Next]_Status
  <2>1. UNCHANGED <<loop, Queued, out, dropped>>
    BY <1>1 DEF packets, Queued
  <2>2. Apart' /\ Status' = Status
    BY <2>1, StatusIs DEF BufferInv, Apart
  <2> QED BY <2>2
<1>2. CASE Next
  BY <1>1, <1>2, NextType, ReleaseStep, EnqueueStep, RouteOutputStep
  DEF BufferInv
<1>3. CASE UNCHANGED vars
  BY <1>1, <1>3, StutterType DEF BufferInv, vars, packets
<1> QED BY <1>2, <1>3

(* Route discovery implements the buffer of AodvBuffer: no packet is sent  *)
(* twice, sent after it was dropped or forgotten, and a route releases     *)
(* packets of its own destination only, in every instance.                 *)
THEOREM DiscoveryImplementsBuffer == Spec => ImplementsBuffer
BY InitBuffer, NextBuffer, PTL DEF Spec, ImplementsBuffer, Buffer!Spec
=============================================================================
