-------------------------- MODULE AodvSearchProofs --------------------------
(***************************************************************************)
(* Searches and floods in AodvRouting: proofs, for every network, that a   *)
(* search and the packets behind it always have a timer or a request put   *)
(* off, that a flood stays within the widest ring and that it never comes  *)
(* back.                                                                   *)
(***************************************************************************)
EXTENDS AodvRoutingProofs

(* The four kinds of steps, as far as requests are concerned.              *)
LEMMA RequestSteps ==
    ASSUME RangeInv, Next
    PROVE  \/ \E n, d \in Node : FloodRequest(n, d)
           \/ \E m \in rreq, x \in Node \cup {NoNode} : RelayRequest(m, x)
           \/ \E m \in rreq, x \in Node \cup {NoNode} :
                Learn(m, x) /\ rreq' \subseteq rreq /\ reqId' = reqId
           \/ rreq' \subseteq rreq /\ UNCHANGED <<reqId, seen>>
<1>1. CASE Originate
  BY <1>1
  DEF Originate, SendData, DeferredRouteOutput, SendDeferredRequest,
      RouteRequestTimerExpire, SendRequest, own
<1>2. CASE RecvRequest
  <2>1. PICK m \in rreq, x \in Node \cup {NoNode} :
          \/ RecvDuplicateRequest(m) \/ RecvRequestAsDestination(m, x)
          \/ RecvRequestAsIntermediate(m, x) \/ RelayRequest(m, x)
    BY <1>2 DEF RecvRequest
  <2>2. CASE RecvDuplicateRequest(m)
    BY <2>2 DEF RecvDuplicateRequest, Forget, own
  <2>3. CASE RecvRequestAsDestination(m, x)
    BY <2>3 DEF RecvRequestAsDestination, Forget
  <2>4. CASE RecvRequestAsIntermediate(m, x)
    BY <2>4 DEF RecvRequestAsIntermediate, Forget
  <2> QED BY <2>1, <2>2, <2>3, <2>4
<1>3. CASE RecvReply
  BY <1>3 DEF RecvReply, RecvReplyAsOrigin, RelayReply, ProcessHello, own
<1>4. CASE \E m \in ack : RecvReplyAck(m)
  BY <1>4 DEF RecvReplyAck, own
<1>5. CASE \E m \in rerr : RecvError(m)
  BY <1>5 DEF RecvError, own
<1>6. CASE RecvData
  BY <1>6
  DEF RecvData, Forwarding, NoRouteToForward, DropOwnPacket, Deliver, own
<1>7. CASE Maintain
  BY <1>7
  DEF Maintain, LinkFailure, Expire, SendHello, RreqRateLimitTimerExpire,
      RerrRateLimitTimerExpire, own
<1>8. CASE Lose
  BY <1>8 DEF Lose, own
<1> QED BY <1>1, <1>2, <1>3, <1>4, <1>5, <1>6, <1>7, <1>8 DEF Next

(* The requests a step adds.                                               *)
LEMMA NewRequests ==
    ASSUME RangeInv, NEW n \in Node, NEW d \in Node, FloodRequest(n, d),
           NEW m \in rreq' \ rreq
    PROVE  /\ m.orig = n /\ m.from = n /\ m.id = reqId[n] + 1
           /\ m.oseq = seqNo[n] + 1 /\ m.dst = d /\ m.hop = 0
           /\ m.ttl \in 1..WidestRing
<1>1. rt[n][d].flag \in Flags /\ rt[n][d].hop \in Nat
  BY DEF RangeInv, TablesOK, Table, Entry
<1> QED BY <1>1, RequestTtlBound DEF FloodRequest

(* A relay keeps the identity of the request and shifts one hop of its     *)
(* TTL.                                                                    *)
LEMMA RelayedRequests ==
    ASSUME RangeInv, NEW r \in rreq, NEW x, RelayRequest(r, x),
           NEW m \in rreq' \ rreq
    PROVE  /\ m.orig = r.orig /\ m.from = r.to /\ m.id = r.id
           /\ m.oseq = r.oseq /\ m.dst = r.dst
           /\ r.ttl >= 2 /\ m.hop = r.hop + 1 /\ m.ttl = r.ttl - 1
<1> DEFINE t == After(RequestTable(r), x)
<1>1. r \in RreqMessage /\ t \in Table /\ Neighbours(r.to) \subseteq Node
  BY AnswerTableSound, RangeSymmetric DEF RangeInv, RreqOK, RreqMessage, Sound
<1>2. ~(r.ttl < 2) /\ \E y \in Neighbours(r.to) : m = Relayed(r, y, t)
  BY DEF RelayRequest
<1> HIDE DEF t
<1>3. PICK y \in Neighbours(r.to) : m = Relayed(r, y, t)
  BY <1>2
<1>4. r.ttl >= 2
  BY <1>1, <1>2 DEF RreqMessage
<1> QED BY <1>1, <1>3, <1>4, RelayedFields

-----------------------------------------------------------------------------
(* The expanding ring.                                                     *)
RingInv == RangeInv /\ RingBound

(* No request is in flight at the start.                                   *)
LEMMA InitRing == Init => RingInv
BY InitRange DEF Init, RingInv, RingBound

(* Every step keeps hops plus TTL within WidestRing.                      *)
LEMMA NextRing == RingInv /\ Next => RingInv'
<1> SUFFICES ASSUME RingInv, Next PROVE RingBound'
  BY NextRange DEF RingInv
<1>1. \A m \in rreq : m.hop \in Nat /\ m.ttl \in Nat
  BY DEF RingInv, RangeInv, RreqOK, RreqMessage
<1>2. ASSUME NEW n \in Node, NEW d \in Node, FloodRequest(n, d),
             NEW m \in rreq' \ rreq
      PROVE  m.ttl >= 1 /\ m.hop + m.ttl <= WidestRing
  BY <1>2, NewRequests, RingAssumption DEF RingInv
<1>3. ASSUME NEW r \in rreq, NEW x, RelayRequest(r, x), NEW m \in rreq' \ rreq
      PROVE  m.ttl >= 1 /\ m.hop + m.ttl <= WidestRing
  <2>1. r.ttl >= 2 /\ m.hop = r.hop + 1 /\ m.ttl = r.ttl - 1
    BY <1>3, RelayedRequests DEF RingInv
  <2> QED BY <1>1, <2>1, RingAssumption DEF RingInv, RingBound
<1>4. ASSUME NEW m \in rreq'
      PROVE  m.ttl >= 1 /\ m.hop + m.ttl <= WidestRing
  <2>1. CASE m \in rreq
    BY <2>1 DEF RingInv, RingBound
  <2>2. CASE m \notin rreq
    BY <1>2, <1>3, <2>2, RequestSteps DEF RingInv
  <2> QED BY <2>1, <2>2
<1> QED BY <1>4 DEF RingBound

(* No flood ever reaches further than WidestRing, whatever hop counts the  *)
(* ring search starts from and whatever the parameters are.                *)
THEOREM FloodsAreBounded == Spec => []RingBound
<1>1. RingInv /\ [Next]_vars => RingInv'
  <2>1. RingInv /\ UNCHANGED vars => RingInv'
    BY StutterRange DEF vars, RingInv, RingBound
  <2> QED BY <2>1, NextRing
<1>2. RingInv => RingBound
  BY DEF RingInv
<1> QED BY <1>1, <1>2, InitRing, PTL DEF Spec

-----------------------------------------------------------------------------
(* Floods.  The id cache never runs ahead of the originator's counter: a   *)
(* new id is not in anybody's cache yet.                                   *)
SeenBounded == \A n \in Node : \A p \in seen[n] : p[2] <= reqId[p[1]]

FloodInv == RangeInv /\ SeenBounded /\ RequestIdentity

(* No id has been used at the start.                                       *)
LEMMA InitFlood == Init => FloodInv
BY InitRange DEF Init, FloodInv, SeenBounded, RequestIdentity

(* Everything a request in flight is known by has an old id.               *)
LEMMA OldIds ==
    ASSUME FloodInv, NEW m \in rreq
    PROVE  m.id \in Nat /\ m.orig \in Node /\ m.id <= reqId[m.orig]
<1>1. m.id \in Nat /\ m.orig \in Node /\ m.from \in Node
  BY DEF FloodInv, RangeInv, RreqOK, RreqMessage
<1>2. <<m.orig, m.id>> \in seen[m.from]
  BY DEF FloodInv, RequestIdentity
<1> QED BY <1>1, <1>2 DEF FloodInv, SeenBounded

(* FloodRequest takes an id that nobody has seen and records it itself.     *)
LEMMA FloodRequestFlood ==
    ASSUME FloodInv, NEW n \in Node, NEW d \in Node, FloodRequest(n, d)
    PROVE  SeenBounded' /\ RequestIdentity'
<1>1. /\ reqId \in [Node -> Nat] /\ seen \in [Node -> SUBSET (Node \X Nat)]
      /\ \A m \in rreq : m.from \in Node
  BY DEF FloodInv, RangeInv, OwnOK, RreqOK, RreqMessage
<1>2. /\ reqId' = [reqId EXCEPT ![n] = @ + 1]
      /\ seen' = [seen EXCEPT ![n] = @ \cup {<<n, reqId[n] + 1>>}]
  BY DEF FloodRequest
<1>3. SeenBounded'
  <2> SUFFICES ASSUME NEW k \in Node, NEW p \in seen'[k]
               PROVE  p[2] <= reqId'[p[1]]
    BY DEF SeenBounded
  <2>1. CASE p \in seen[k]
    <3>1. p[1] \in Node /\ p[2] \in Nat /\ p[2] <= reqId[p[1]]
      BY <1>1, <2>1 DEF FloodInv, SeenBounded
    <3> QED BY <1>1, <1>2, <3>1
  <2>2. CASE p = <<n, reqId[n] + 1>>
    BY <1>1, <1>2, <2>2
  <2> QED BY <1>1, <1>2, <2>1, <2>2
<1>4. \A m \in rreq' \ rreq :
        /\ m.orig = n /\ m.from = n /\ m.id = reqId[n] + 1
        /\ m.oseq = seqNo[n] + 1 /\ m.dst = d
  BY NewRequests DEF FloodInv
<1>5. \A m \in rreq : m.orig = n => m.id # reqId[n] + 1
  BY <1>1, OldIds
<1>6. ASSUME NEW m1 \in rreq', NEW m2 \in rreq', m1.orig = m2.orig,
             m1.id = m2.id
      PROVE  m1.dst = m2.dst /\ m1.oseq = m2.oseq
  BY <1>4, <1>5, <1>6 DEF FloodInv, RequestIdentity
<1>7. ASSUME NEW m \in rreq'
      PROVE  <<m.orig, m.id>> \in seen'[m.from]
  BY <1>1, <1>2, <1>4 DEF FloodInv, RequestIdentity
<1> QED BY <1>3, <1>6, <1>7 DEF RequestIdentity

(* A fresh request is recorded before it goes on.                          *)
LEMMA LearnFlood ==
    ASSUME FloodInv, NEW r \in rreq, NEW x, Learn(r, x), reqId' = reqId,
           \A m \in rreq' \ rreq :
              /\ m.orig = r.orig /\ m.from = r.to /\ m.id = r.id
              /\ m.oseq = r.oseq /\ m.dst = r.dst
    PROVE  SeenBounded' /\ RequestIdentity'
<1>1. /\ seen \in [Node -> SUBSET (Node \X Nat)] /\ r.to \in Node
      /\ \A m \in rreq : m.from \in Node
  BY DEF FloodInv, RangeInv, OwnOK, RreqOK, RreqMessage
<1>2. seen' = [seen EXCEPT ![r.to] = @ \cup {<<r.orig, r.id>>}]
  BY DEF Learn
<1>3. SeenBounded'
  BY <1>1, <1>2, OldIds DEF FloodInv, SeenBounded
<1>4. ASSUME NEW m1 \in rreq', NEW m2 \in rreq', m1.orig = m2.orig,
             m1.id = m2.id
      PROVE  m1.dst = m2.dst /\ m1.oseq = m2.oseq
  BY <1>4 DEF FloodInv, RequestIdentity
<1>5. ASSUME NEW m \in rreq'
      PROVE  <<m.orig, m.id>> \in seen'[m.from]
  BY <1>1, <1>2 DEF FloodInv, RequestIdentity
<1> QED BY <1>3, <1>4, <1>5 DEF RequestIdentity

(* Every step keeps the invariant.                                         *)
LEMMA NextFlood == FloodInv /\ Next => FloodInv'
<1> SUFFICES ASSUME FloodInv, Next PROVE SeenBounded' /\ RequestIdentity'
  BY NextRange DEF FloodInv
<1>1. ASSUME NEW m \in rreq, NEW x, RelayRequest(m, x)
      PROVE  SeenBounded' /\ RequestIdentity'
  BY <1>1, RelayedRequests, LearnFlood DEF RelayRequest, FloodInv
<1>2. ASSUME NEW m \in rreq, NEW x, Learn(m, x), rreq' \subseteq rreq,
             reqId' = reqId
      PROVE  SeenBounded' /\ RequestIdentity'
  BY <1>2, LearnFlood
<1>3. CASE rreq' \subseteq rreq /\ UNCHANGED <<reqId, seen>>
  BY <1>3 DEF FloodInv, SeenBounded, RequestIdentity
<1> QED
  BY <1>1, <1>2, <1>3, RequestSteps, FloodRequestFlood DEF FloodInv

(* The invariant holds in every reachable state.                           *)
LEMMA FloodInvariant == Spec => []FloodInv
<1>1. FloodInv /\ [Next]_vars => FloodInv'
  <2>1. FloodInv /\ UNCHANGED vars => FloodInv'
    BY StutterRange DEF vars, FloodInv, SeenBounded, RequestIdentity
  <2> QED BY <2>1, NextFlood
<1> QED BY <1>1, InitFlood, PTL DEF Spec

(* An originator and an id identify one request, everywhere in the network.*)
THEOREM RequestsIdentified == Spec => []RequestIdentity
<1>1. FloodInv => RequestIdentity
  BY DEF FloodInv
<1> QED BY <1>1, FloodInvariant, PTL

(* No node transmits the same request twice.                               *)
THEOREM NodesFloodOnce == Spec => FloodOnce
<1>1. ASSUME FloodInv, Next, NEW m \in rreq' \ rreq
      PROVE  <<m.orig, m.id>> \notin seen[m.from]
  <2>1. ASSUME NEW n \in Node, NEW d \in Node, FloodRequest(n, d)
        PROVE  <<m.orig, m.id>> \notin seen[m.from]
    <3>1. m.orig = n /\ m.from = n /\ m.id = reqId[n] + 1 /\ reqId[n] \in Nat
      BY <1>1, <2>1, NewRequests DEF FloodInv, RangeInv, OwnOK
    <3> QED BY <1>1, <3>1 DEF FloodInv, SeenBounded
  <2>2. ASSUME NEW r \in rreq, NEW x, RelayRequest(r, x)
        PROVE  <<m.orig, m.id>> \notin seen[m.from]
    BY <1>1, <2>2, RelayedRequests DEF FloodInv, RelayRequest, Learn, Fresh
  <2> QED BY <1>1, <2>1, <2>2, RequestSteps DEF FloodInv
<1>2. FloodInv /\ [Next]_vars =>
        [\A m \in rreq' \ rreq : <<m.orig, m.id>> \notin seen[m.from]]_vars
  BY <1>1
<1> QED BY <1>2, FloodInvariant, PTL DEF Spec, FloodOnce

-----------------------------------------------------------------------------
(* Timers and requests put off.  A handler that writes a table starts no   *)
(* search and leaves both alone, with the exceptions below.                *)
PursuitInv == RangeInv /\ SearchIsPursued /\ QueuedIsPursued

(* A handler that writes one table and starts no search keeps both         *)
(* properties.                                                             *)
LEMMA WritePursued ==
    ASSUME PursuitInv, NEW n \in Node, NEW t, NoSearch(rt[n], t),
           rt' = [rt EXCEPT ![n] = t], UNCHANGED queues
    PROVE  SearchIsPursued' /\ QueuedIsPursued'
BY DEF PursuitInv, RangeInv, TablesOK, SearchIsPursued, QueuedIsPursued,
       Pursued, NoSearch, queues, limit

(* UpdateRouteToNeighbor ends searches for the sender and starts none.     *)
LEMMA UpdatedTable ==
    ASSUME RangeInv, NEW n \in Node, NEW x \in Neighbours(n)
    PROVE  /\ UpdateRouteToNeighbor(rt[n], x) \in Table
           /\ NoSearch(rt[n], UpdateRouteToNeighbor(rt[n], x))
<1>1. Sound(rt[n], Neighbours(n)) /\ Neighbours(n) \subseteq Node
  BY RangeSymmetric DEF RangeInv, TablesOK
<1>2. Sound(UpdateRouteToNeighbor(rt[n], x), Neighbours(n))
  BY <1>1, SoundUpdateRouteToNeighbor
<1> QED BY <1>1, <1>2, NoSearchUpdateRouteToNeighbor DEF Sound

(* The three writes of RecvRequest start no search.                        *)
LEMMA RequestTablePursued ==
    ASSUME RangeInv, NEW m \in rreq, NEW x
    PROVE  NoSearch(rt[m.to], After(RequestTable(m), x))
<1> DEFINE N  == Neighbours(m.to)
           t1 == UpdateRouteToNeighbor(rt[m.to], m.from)
           t2 == ReverseRoute(t1, m.orig, m.oseq, m.hop + 1, m.from)
           t3 == PreviousHop(t2, m.from, m.oseq)
<1>1. /\ m.to \in Node /\ m.from \in N /\ m.orig \in Node
      /\ m.oseq \in Nat /\ m.hop + 1 \in Nat /\ N \subseteq Node
  BY RangeSymmetric DEF RangeInv, RreqOK, InReach, RreqMessage
<1>2. Sound(t1, N) /\ NoSearch(rt[m.to], t1)
  BY <1>1, UpdatedTable, SoundUpdateRouteToNeighbor DEF RangeInv, TablesOK
<1>3. RequestTable(m) = t3
  BY DEF RequestTable
<1> HIDE DEF t1
<1>4. Sound(t2, N)
  <2> HIDE DEF N
  <2> QED BY <1>1, <1>2, SoundReverseRoute
<1>5. NoSearch(t1, t2)
  BY <1>1, <1>2, NoSearchReverseRoute DEF Sound
<1> HIDE DEF t2
<1>6. t3 \in Table /\ NoSearch(t2, t3)
  BY <1>1, <1>3, <1>4, NoSearchPreviousHop, RequestTableSound DEF Sound
<1> HIDE DEF t3
<1>7. NoSearch(t3, After(t3, x))
  BY <1>6, NoSearchInvalidate DEF After
<1>8. NoSearch(rt[m.to], t2)
  BY <1>2, <1>5, NoSearchTrans
<1>9. NoSearch(rt[m.to], t3)
  BY <1>6, <1>8, NoSearchTrans
<1> QED BY <1>3, <1>7, <1>9, NoSearchTrans

(* The table of RecvReply holds no new search.                             *)
LEMMA ReplyTablePursued ==
    ASSUME RangeInv, NEW m \in rrep
    PROVE  /\ ReplyTable(m) \in Table /\ NoSearch(rt[m.to], ReplyTable(m))
           /\ Offered(m).flag = "VALID"
<1> DEFINE t == UpdateRouteToNeighbor(rt[m.to], m.from)
<1>1. /\ m.to \in Node /\ m.dst \in Node /\ m.from \in Neighbours(m.to)
  BY DEF RangeInv, RrepOK, InReach, RrepMessage
<1>2. t \in Table /\ NoSearch(rt[m.to], t)
  BY <1>1, UpdatedTable
<1>3. Offered(m).flag = "VALID"
  BY RouteFlag DEF Offered
<1>4. \/ ReplyTable(m) = [t EXCEPT ![m.dst] = Offered(m)]
      \/ ReplyTable(m) = t
  BY DEF ReplyTable
<1>5. ReplyTable(m) \in Table
  BY ReplyTableSound DEF Sound
<1> HIDE DEF t
<1>6. NoSearch(t, [t EXCEPT ![m.dst] = Offered(m)])
  BY <1>1, <1>2, <1>3, NoSearchWrite
<1>7. NoSearch(rt[m.to], ReplyTable(m))
  BY <1>2, <1>4, <1>6, NoSearchTrans
<1> QED BY <1>3, <1>5, <1>7

(* SendRequest starts the timer of the search it starts, or is put off; no *)
(* destination is given up that the caller still pursues.                  *)
LEMMA SendRequestPursued ==
    ASSUME PursuitInv, NEW n \in Node, NEW d \in Node,
           NEW pending \in [Node -> Nat], NEW running \in SUBSET Node,
           \A k \in Node \ {d} :
              k \in Pursued(n) => k \in running \/ pending[k] > 0,
           SendRequest(n, d, pending, running)
    PROVE  /\ SearchIsPursued' /\ d \in Pursued(n)'
           /\ \A k \in Node : Pursued(k) \subseteq Pursued(k)'
<1>1. /\ timer \in [Node -> SUBSET Node] /\ rt \in [Node -> [Node -> Entry]]
      /\ deferred \in [Node -> [Node -> Nat]]
  BY DEF PursuitInv, RangeInv, NotSelf, TablesOK, Table, QueuesOK, LimitOK
<1>2. d \in Pursued(n)' /\ \A k \in Node : Pursued(k) \subseteq Pursued(k)'
  <2>1. CASE rreqCount[n] = RreqRateLimit
    <3> DEFINE p == [pending EXCEPT ![d] = @ + 1]
    <3>1. /\ p \in [Node -> Nat] /\ p[d] > 0
          /\ \A k \in Node \ {d} : p[k] = pending[k]
      OBVIOUS
    <3>2. /\ deferred' = [deferred EXCEPT ![n] = p]
          /\ timer' = [timer EXCEPT ![n] = running]
      BY <2>1 DEF SendRequest
    <3> HIDE DEF p
    <3> QED BY <1>1, <3>1, <3>2 DEF Pursued
  <2>2. CASE rreqCount[n] # RreqRateLimit
    <3>1. /\ deferred' = [deferred EXCEPT ![n] = pending]
          /\ timer' = [timer EXCEPT ![n] = running \cup {d}]
      BY <2>2 DEF SendRequest
    <3> QED BY <1>1, <3>1 DEF Pursued
  <2> QED BY <2>1, <2>2
<1>3. rt' = rt \/ \E w : rt' = [rt EXCEPT ![n][d] = w]
  BY DEF SendRequest, FloodRequest
<1>4. SearchIsPursued'
  <2> SUFFICES ASSUME NEW k \in Node, NEW c \in Node,
                      rt'[k][c].flag = "IN_SEARCH"
               PROVE  c \in Pursued(k)'
    BY DEF SearchIsPursued
  <2>1. rt'[k][c] = rt[k][c] \/ (k = n /\ c = d)
    BY <1>1, <1>3
  <2> QED BY <1>2, <2>1 DEF PursuitInv, SearchIsPursued
<1> QED BY <1>2, <1>4

(* A packet is queued behind a search that is pursued or starts one.       *)
LEMMA DeferredRouteOutputPursued ==
    ASSUME PursuitInv, NEW n \in Node, NEW d \in Node, DeferredRouteOutput(n, d)
    PROVE  SearchIsPursued' /\ QueuedIsPursued'
<1>1. /\ waiting \in [Node -> SUBSET Node]
      /\ waiting' = [waiting EXCEPT ![n] = @ \cup {d}]
      /\ timer[n] \in SUBSET Node /\ deferred[n] \in [Node -> Nat]
  BY DEF PursuitInv, RangeInv, QueuesOK, LimitOK, NotSelf, DeferredRouteOutput
<1>2. CASE rt[n][d].flag = "IN_SEARCH"
  <2>1. UNCHANGED <<rt, timer, deferred>>
    BY <1>2 DEF DeferredRouteOutput, limit
  <2>2. d \in Pursued(n) /\ \A k \in Node : Pursued(k)' = Pursued(k)
    BY <1>2, <2>1 DEF PursuitInv, SearchIsPursued, Pursued
  <2>3. SearchIsPursued'
    BY <2>1, <2>2 DEF PursuitInv, SearchIsPursued
  <2> QED BY <1>1, <2>2, <2>3 DEF PursuitInv, QueuedIsPursued
<1>3. CASE rt[n][d].flag # "IN_SEARCH"
  <2>1. SendRequest(n, d, deferred[n], timer[n])
    BY <1>3 DEF DeferredRouteOutput
  <2>2. /\ SearchIsPursued' /\ d \in Pursued(n)'
        /\ \A k \in Node : Pursued(k) \subseteq Pursued(k)'
    BY <1>1, <2>1, SendRequestPursued DEF Pursued
  <2> QED BY <1>1, <2>2 DEF PursuitInv, QueuedIsPursued
<1> QED BY <1>2, <1>3

(* A call that was put off floods, or is put off again.                    *)
LEMMA SendDeferredRequestPursued ==
    ASSUME PursuitInv, NEW n \in Node, NEW d \in Node, SendDeferredRequest(n, d)
    PROVE  SearchIsPursued' /\ QueuedIsPursued'
<1> DEFINE pending == [deferred[n] EXCEPT ![d] = @ - 1]
<1>1. /\ timer[n] \in SUBSET Node /\ deferred[n] \in [Node -> Nat]
      /\ deferred[n][d] > 0
  BY DEF PursuitInv, RangeInv, QueuesOK, LimitOK, NotSelf, SendDeferredRequest
<1>2. /\ pending \in [Node -> Nat]
      /\ \A k \in Node \ {d} : pending[k] = deferred[n][k]
  BY <1>1
<1>3. SendRequest(n, d, pending, timer[n]) /\ waiting' = waiting
  BY DEF SendDeferredRequest
<1> HIDE DEF pending
<1>4. /\ SearchIsPursued'
      /\ \A k \in Node : Pursued(k) \subseteq Pursued(k)'
  BY <1>1, <1>2, <1>3, SendRequestPursued DEF Pursued
<1> QED BY <1>3, <1>4 DEF PursuitInv, QueuedIsPursued

(* A timer that ends takes its search and its packets with it.             *)
LEMMA RouteRequestTimerExpirePursued ==
    ASSUME PursuitInv, NEW n \in Node, NEW d \in Node,
           RouteRequestTimerExpire(n, d)
    PROVE  SearchIsPursued' /\ QueuedIsPursued'
<1>1. /\ waiting \in [Node -> SUBSET Node] /\ timer \in [Node -> SUBSET Node]
      /\ rt \in [Node -> [Node -> Entry]] /\ deferred \in [Node -> [Node -> Nat]]
  BY DEF PursuitInv, RangeInv, QueuesOK, LimitOK, NotSelf, TablesOK, Table
<1>2. CASE SendRequest(n, d, deferred[n], timer[n] \ {d}) /\ UNCHANGED waiting
  <2>1. /\ timer[n] \ {d} \in SUBSET Node /\ deferred[n] \in [Node -> Nat]
        /\ \A k \in Node \ {d} :
              k \in Pursued(n) => k \in timer[n] \ {d} \/ deferred[n][k] > 0
    BY <1>1 DEF Pursued
  <2>2. /\ SearchIsPursued'
        /\ \A k \in Node : Pursued(k) \subseteq Pursued(k)'
    BY <1>2, <2>1, SendRequestPursued
  <2> QED BY <1>2, <2>2 DEF PursuitInv, QueuedIsPursued
<1>3. CASE /\ Valid(rt[n], d) /\ rt' = rt
           /\ waiting' = [waiting EXCEPT ![n] = @ \ {d}]
           /\ timer' = [timer EXCEPT ![n] = @ \ {d}]
           /\ UNCHANGED limit
  BY <1>1, <1>3
  DEF PursuitInv, SearchIsPursued, QueuedIsPursued, Pursued, limit, Valid
<1>4. CASE /\ rt' = [rt EXCEPT ![n][d] = NoEntry]
           /\ waiting' = [waiting EXCEPT ![n] = @ \ {d}]
           /\ timer' = [timer EXCEPT ![n] = @ \ {d}]
           /\ UNCHANGED limit
  <2>1. NoEntry.flag = "NONE"
    BY DEF NoEntry
  <2> QED BY <1>1, <1>4, <2>1
          DEF PursuitInv, SearchIsPursued, QueuedIsPursued, Pursued, limit
<1> QED BY <1>2, <1>3, <1>4 DEF RouteRequestTimerExpire

(* RecvRequest, whatever becomes of the request.                           *)
LEMMA RecvRequestPursued ==
    ASSUME PursuitInv, RecvRequest
    PROVE  SearchIsPursued' /\ QueuedIsPursued'
<1>1. PICK m \in rreq, x \in Node \cup {NoNode} :
        \/ RecvDuplicateRequest(m) \/ RecvRequestAsDestination(m, x)
        \/ RecvRequestAsIntermediate(m, x) \/ RelayRequest(m, x)
  BY DEF RecvRequest
<1> DEFINE t == After(RequestTable(m), x)
<1>2. m.to \in Node /\ m.from \in Neighbours(m.to) /\ m.dst \in Node
  BY DEF PursuitInv, RangeInv, RreqOK, InReach, RreqMessage
<1>3. t \in Table /\ NoSearch(rt[m.to], t)
  BY RequestTablePursued, AnswerTableSound DEF PursuitInv, Sound
<1>4. CASE RecvDuplicateRequest(m)
  BY <1>2, <1>4, UpdatedTable, WritePursued DEF RecvDuplicateRequest, PursuitInv
<1>5. CASE RecvRequestAsDestination(m, x) \/ RelayRequest(m, x)
  <2>1. rt' = [rt EXCEPT ![m.to] = t] /\ UNCHANGED queues
    BY <1>5 DEF RecvRequestAsDestination, RelayRequest, queues
  <2> HIDE DEF t
  <2> QED BY <1>2, <1>3, <2>1, WritePursued
<1>6. CASE RecvRequestAsIntermediate(m, x)
  <2> DEFINE u1 == AddPrecursor(t, m.dst, t[m.orig].nh)
             u  == AddPrecursor(u1, m.orig, t[m.dst].nh)
  <2>1. rt' = [rt EXCEPT ![m.to] = u] /\ UNCHANGED queues
    BY <1>6 DEF RecvRequestAsIntermediate, queues
  <2> HIDE DEF t
  <2>2. u1 \in Table /\ NoSearch(t, u1)
    BY <1>3, NoSearchAddPrecursor, PrecursorTable
  <2> HIDE DEF u1
  <2>3. NoSearch(u1, u)
    BY <2>2, NoSearchAddPrecursor
  <2> HIDE DEF u
  <2>4. NoSearch(rt[m.to], u1)
    BY <1>3, <2>2, NoSearchTrans
  <2>5. NoSearch(rt[m.to], u)
    BY <2>3, <2>4, NoSearchTrans
  <2> QED BY <1>2, <2>1, <2>5, WritePursued
<1> QED BY <1>1, <1>4, <1>5, <1>6

(* The timer that RecvReply cancels has no search and no packets left.     *)
LEMMA RecvReplyAsOriginPursued ==
    ASSUME PursuitInv, NEW m \in rrep, RecvReplyAsOrigin(m)
    PROVE  SearchIsPursued' /\ QueuedIsPursued'
<1> DEFINE n == m.to
           r == ReplyTable(m)
           searching ==
             UpdateRouteToNeighbor(rt[n], m.from)[m.dst].flag = "IN_SEARCH"
           t == IF searching THEN [r EXCEPT ![m.dst] = Offered(m)] ELSE r
<1>1. n \in Node /\ m.dst \in Node
  BY DEF PursuitInv, RangeInv, RrepOK, RrepMessage
<1>2. r \in Table /\ NoSearch(rt[n], r) /\ Offered(m).flag = "VALID"
  BY ReplyTablePursued DEF PursuitInv
<1>3. /\ rt \in [Node -> Table] /\ timer \in [Node -> SUBSET Node]
      /\ waiting \in [Node -> SUBSET Node]
  BY DEF PursuitInv, RangeInv, TablesOK, NotSelf, QueuesOK
<1>4. /\ rt' = [rt EXCEPT ![n] = t]
      /\ timer' = IF searching THEN [timer EXCEPT ![n] = @ \ {m.dst}] ELSE timer
      /\ waiting' = [waiting EXCEPT ![n] = @ \ {m.dst}]
      /\ deferred' = deferred
  BY DEF RecvReplyAsOrigin, limit
<1> HIDE DEF searching, r
<1>5. QueuedIsPursued'
  BY <1>1, <1>3, <1>4 DEF PursuitInv, QueuedIsPursued, Pursued
<1>6. CASE searching
  <2>1. rt' = [rt EXCEPT ![n] = [r EXCEPT ![m.dst] = Offered(m)]]
    BY <1>4, <1>6
  <2>2. timer' = [timer EXCEPT ![n] = @ \ {m.dst}]
    BY <1>4, <1>6
  <2>3. ASSUME NEW k \in Node, NEW d \in Node, rt'[k][d].flag = "IN_SEARCH"
        PROVE  d \in Pursued(k)'
    <3>1. CASE k # n
      BY <1>1, <1>3, <1>4, <2>1, <2>2, <2>3, <3>1
      DEF PursuitInv, SearchIsPursued, Pursued
    <3>2. CASE k = n
      <4>1. d # m.dst /\ r[d].flag = "IN_SEARCH"
        BY <1>1, <1>2, <1>3, <2>1, <2>3, <3>2 DEF Table
      <4>2. d \in Pursued(n)
        BY <1>1, <1>2, <4>1 DEF NoSearch, PursuitInv, SearchIsPursued
      <4> QED BY <1>1, <1>3, <1>4, <2>2, <3>2, <4>1, <4>2 DEF Pursued
    <3> QED BY <3>1, <3>2
  <2> QED BY <1>5, <2>3 DEF SearchIsPursued
<1>7. CASE ~searching
  BY <1>1, <1>2, <1>3, <1>4, <1>5, <1>7
  DEF NoSearch, PursuitInv, SearchIsPursued, Pursued
<1> QED BY <1>6, <1>7

(* Writing precursors changes no flag.                                     *)
LEMMA PassReplyPursued ==
    ASSUME NEW t \in Table, NEW dst \in Node, NEW orig \in Node
    PROVE  NoSearch(t, PassReply(t, dst, orig))
<1> DEFINE p  == t[orig].nh
           q  == t[dst].nh
           a  == AddPrecursor(t, dst, p)
           t1 == AddPrecursor(a, q, p)
           e  == [t[orig] EXCEPT !.prec = @ \cup {q}]
           t2 == IF q \in Node THEN [t1 EXCEPT ![orig] = e] ELSE t1
<1>1. PassReply(t, dst, orig) = t \/ PassReply(t, dst, orig) = AddPrecursor(t2, p, q)
  BY DEF PassReply
<1>2. e.flag = t[orig].flag /\ (q \in Node => e \in Entry)
  <2>1. t[orig] \in Entry
    BY DEF Table
  <2> HIDE DEF q
  <2> QED BY <2>1 DEF Entry
<1>3. NoSearch(t, t)
  BY DEF NoSearch
<1> HIDE DEF p, q, e
<1>4. a \in Table /\ NoSearch(t, a)
  BY NoSearchAddPrecursor, PrecursorTable
<1> HIDE DEF a
<1>5. t1 \in Table /\ NoSearch(a, t1)
  BY <1>4, NoSearchAddPrecursor, PrecursorTable
<1>6. NoSearch(t, t1)
  BY <1>4, <1>5, NoSearchTrans
<1> HIDE DEF t1
<1>7. t2 \in Table /\ NoSearch(t, t2)
  <2>1. CASE q \in Node
    BY <1>2, <1>5, <1>6, <2>1 DEF Table, NoSearch
  <2> QED BY <1>5, <1>6, <2>1
<1> HIDE DEF t2
<1>8. NoSearch(t2, AddPrecursor(t2, p, q))
  BY <1>7, NoSearchAddPrecursor
<1>9. NoSearch(t, AddPrecursor(t2, p, q))
  BY <1>7, <1>8, NoSearchTrans
<1> QED BY <1>1, <1>3, <1>9

(* RecvReply at a node that did not ask.                                   *)
LEMMA RelayReplyPursued ==
    ASSUME PursuitInv, NEW m \in rrep, RelayReply(m)
    PROVE  SearchIsPursued' /\ QueuedIsPursued'
<1> DEFINE t == ReplyTable(m)
           u == IF Has(t, m.orig) /\ t[m.orig].flag # "IN_SEARCH"
                THEN PassReply(t, m.dst, m.orig) ELSE t
<1>1. m.to \in Node /\ m.dst \in Node /\ m.orig \in Node
  BY DEF PursuitInv, RangeInv, RrepOK, RrepMessage
<1>2. t \in Table /\ NoSearch(rt[m.to], t)
  BY ReplyTablePursued DEF PursuitInv
<1>3. rt' = [rt EXCEPT ![m.to] = u] /\ UNCHANGED queues
  BY DEF RelayReply
<1> HIDE DEF t
<1>4. NoSearch(t, PassReply(t, m.dst, m.orig))
  BY <1>1, <1>2, PassReplyPursued
<1>5. NoSearch(rt[m.to], u)
  BY <1>2, <1>4, NoSearchTrans
<1> HIDE DEF u
<1> QED BY <1>1, <1>3, <1>5, WritePursued

(* ProcessHello ends searches and leaves their timers running.             *)
LEMMA ProcessHelloPursued ==
    ASSUME PursuitInv, NEW m \in rrep, NEW x, ProcessHello(m, x)
    PROVE  SearchIsPursued' /\ QueuedIsPursued'
<1> DEFINE n  == m.to
           t1 == UpdateRouteToNeighbor(rt[n], m.from)
           t  == HelloRoute(t1, m.dst, m.dseq)
<1>1. /\ n \in Node /\ m.from \in Neighbours(n) /\ m.dst = m.from
      /\ m.dst \in Node /\ m.dseq \in Nat /\ Neighbours(n) \subseteq Node
  BY RangeSymmetric
  DEF PursuitInv, RangeInv, RrepOK, InReach, RrepMessage, ProcessHello
<1>2. Sound(t1, Neighbours(n)) /\ NoSearch(rt[n], t1)
  BY <1>1, UpdatedTable, SoundUpdateRouteToNeighbor
  DEF PursuitInv, RangeInv, TablesOK
<1>3. rt' = [rt EXCEPT ![n] = After(t, x)] /\ UNCHANGED queues
  BY DEF ProcessHello
<1> HIDE DEF t1
<1>4. t \in Table /\ NoSearch(t1, t)
  BY <1>1, <1>2, SoundHelloRoute, NoSearchHelloRoute DEF Sound
<1>5. NoSearch(rt[n], t)
  BY <1>2, <1>4, NoSearchTrans
<1> HIDE DEF t
<1>6. NoSearch(t, After(t, x))
  BY <1>4, NoSearchInvalidate DEF After
<1>7. NoSearch(rt[n], After(t, x))
  BY <1>5, <1>6, NoSearchTrans
<1> QED BY <1>1, <1>3, <1>7, WritePursued

(* So does RecvReplyAck.                                                   *)
LEMMA RecvReplyAckPursued ==
    ASSUME PursuitInv, NEW m \in ack, RecvReplyAck(m)
    PROVE  SearchIsPursued' /\ QueuedIsPursued'
<1> DEFINE t == UpdateRouteToNeighbor(rt[m.to], m.from)
           e == [t[m.from] EXCEPT !.flag = "VALID", !.cnt = 0]
           u == [t EXCEPT ![m.from].flag = "VALID", ![m.from].cnt = 0]
<1>1. m.to \in Node /\ m.from \in Neighbours(m.to) /\ m.from \in Node
  BY DEF PursuitInv, RangeInv, AckOK, InReach, AckMessage
<1>2. t \in Table /\ NoSearch(rt[m.to], t)
  BY <1>1, UpdatedTable DEF PursuitInv
<1>3. rt' = [rt EXCEPT ![m.to] = u] /\ UNCHANGED queues
  BY DEF RecvReplyAck
<1> HIDE DEF t
<1>4. u = [t EXCEPT ![m.from] = e]
  BY <1>1, <1>2, TwoFields, Zenon DEF Table
<1>5. e.flag = "VALID"
  <2>1. t[m.from] \in Entry
    BY <1>1, <1>2 DEF Table
  <2> QED BY <2>1 DEF Entry
<1> HIDE DEF e, u
<1>6. NoSearch(t, u)
  BY <1>1, <1>2, <1>4, <1>5, NoSearchWrite
<1>7. NoSearch(rt[m.to], u)
  BY <1>2, <1>6, NoSearchTrans
<1> QED BY <1>1, <1>3, <1>7, WritePursued

(* RecvError invalidates VALID entries only.                               *)
LEMMA RecvErrorPursued ==
    ASSUME PursuitInv, NEW m \in rerr, RecvError(m)
    PROVE  SearchIsPursued' /\ QueuedIsPursued'
<1> DEFINE t == UpdateRouteToNeighbor(rt[m.to], m.from)
           D == m.dests \cap Via(t, m.from)
<1>1. m.to \in Node /\ m.from \in Neighbours(m.to)
  BY DEF PursuitInv, RangeInv, RerrOK, InReach, RerrMessage
<1>2. t \in Table /\ NoSearch(rt[m.to], t)
  BY <1>1, UpdatedTable DEF PursuitInv
<1>3. rt' = [rt EXCEPT ![m.to] = Invalidate(t, D)] /\ UNCHANGED queues
  BY DEF RecvError
<1> HIDE DEF t, D
<1>4. NoSearch(rt[m.to], Invalidate(t, D))
  BY <1>2, NoSearchInvalidate, NoSearchTrans
<1> QED BY <1>1, <1>3, <1>4, WritePursued

(* So does a lost neighbour.                                               *)
LEMMA LossPursued ==
    ASSUME PursuitInv, NEW n \in Node, NEW x,
           rt' = [rt EXCEPT ![n] = After(rt[n], x)], UNCHANGED queues
    PROVE  SearchIsPursued' /\ QueuedIsPursued'
<1>1. rt[n] \in Table
  BY DEF PursuitInv, RangeInv, TablesOK
<1>2. NoSearch(rt[n], After(rt[n], x))
  BY <1>1, NoSearchInvalidate DEF After
<1> QED BY <1>2, WritePursued

(* Steps that touch neither tables nor queues.                             *)
LEMMA SameTables ==
    ASSUME PursuitInv, rt' = rt, UNCHANGED queues
    PROVE  SearchIsPursued' /\ QueuedIsPursued'
BY DEF PursuitInv, SearchIsPursued, QueuedIsPursued, Pursued, queues, limit

(* Data packets at a node that they pass or reach.                         *)
LEMMA RecvDataPursued ==
    ASSUME PursuitInv, RecvData
    PROVE  SearchIsPursued' /\ QueuedIsPursued'
<1>1. PICK m \in data, x \in Node \cup {NoNode} :
        \/ Forwarding(m, x) \/ NoRouteToForward(m)
        \/ DropOwnPacket(m) \/ Deliver(m, x)
  BY DEF RecvData
<1>2. m.to \in Node
  BY DEF PursuitInv, RangeInv, DataOK, DataMessage
<1>3. CASE Forwarding(m, x) \/ Deliver(m, x)
  BY <1>2, <1>3, LossPursued DEF Forwarding, Deliver
<1>4. CASE NoRouteToForward(m) \/ DropOwnPacket(m)
  BY <1>4, SameTables DEF NoRouteToForward, DropOwnPacket, tables
<1> QED BY <1>1, <1>3, <1>4

(* Lost links, expiries, hello messages and the rate limit timers.         *)
LEMMA MaintainPursued ==
    ASSUME PursuitInv, Maintain
    PROVE  SearchIsPursued' /\ QueuedIsPursued'
<1>1. ASSUME NEW n \in Node, NEW x \in Node, LinkFailure(n, x)
      PROVE  SearchIsPursued' /\ QueuedIsPursued'
  BY <1>1, LossPursued DEF LinkFailure
<1>2. ASSUME NEW n \in Node, NEW d \in Node, Expire(n, d)
      PROVE  SearchIsPursued' /\ QueuedIsPursued'
  <2>1. rt[n] \in Table
    BY DEF PursuitInv, RangeInv, TablesOK
  <2> QED BY <1>2, <2>1, NoSearchExpired, WritePursued DEF Expire
<1>3. ASSUME NEW n \in Node, SendHello(n) \/ RerrRateLimitTimerExpire(n)
      PROVE  SearchIsPursued' /\ QueuedIsPursued'
  BY <1>3, SameTables DEF SendHello, RerrRateLimitTimerExpire, tables
<1>4. ASSUME NEW n \in Node, RreqRateLimitTimerExpire(n)
      PROVE  SearchIsPursued' /\ QueuedIsPursued'
  BY <1>4
  DEF RreqRateLimitTimerExpire, PursuitInv, SearchIsPursued, QueuedIsPursued,
      Pursued, tables
<1> QED BY <1>1, <1>2, <1>3, <1>4 DEF Maintain

(* No search at the start.                                                 *)
LEMMA InitPursuit == Init => PursuitInv
BY InitRange DEF Init, PursuitInv, SearchIsPursued, QueuedIsPursued, NoEntry

(* Every step keeps the invariant.                                         *)
LEMMA NextPursuit == PursuitInv /\ Next => PursuitInv'
<1> SUFFICES ASSUME PursuitInv, Next PROVE SearchIsPursued' /\ QueuedIsPursued'
  BY NextRange DEF PursuitInv
<1>1. CASE Originate
  <2>1. ASSUME NEW n \in Node, NEW d \in Node, SendData(n, d)
        PROVE  SearchIsPursued' /\ QueuedIsPursued'
    BY <2>1, SameTables DEF SendData, tables
  <2> QED
    BY <1>1, <2>1, DeferredRouteOutputPursued, SendDeferredRequestPursued,
       RouteRequestTimerExpirePursued
    DEF Originate
<1>2. CASE RecvReply
  BY <1>2, RecvReplyAsOriginPursued, RelayReplyPursued, ProcessHelloPursued
  DEF RecvReply
<1>3. CASE \E m \in ack : RecvReplyAck(m)
  BY <1>3, RecvReplyAckPursued
<1>4. CASE \E m \in rerr : RecvError(m)
  BY <1>4, RecvErrorPursued
<1>5. CASE Lose
  BY <1>5, SameTables DEF Lose, tables
<1> QED
  BY <1>1, <1>2, <1>3, <1>4, <1>5, RecvRequestPursued, RecvDataPursued,
     MaintainPursued
  DEF Next

(* The invariant holds in every reachable state.                           *)
LEMMA PursuitInvariant == Spec => []PursuitInv
<1>1. PursuitInv /\ [Next]_vars => PursuitInv'
  <2>1. PursuitInv /\ UNCHANGED vars => PursuitInv'
    BY StutterRange
    DEF vars, PursuitInv, SearchIsPursued, QueuedIsPursued, Pursued
  <2> QED BY <2>1, NextPursuit
<1> QED BY <1>1, InitPursuit, PTL DEF Spec

(* In every network a search has its retry timer running or a request put  *)
(* off by the rate limit, whatever other messages rewrite the entry of its *)
(* destination and whatever the limit is.                                  *)
THEOREM SearchesPursued == Spec => []SearchIsPursued
<1>1. PursuitInv => SearchIsPursued
  BY DEF PursuitInv
<1> QED BY <1>1, PursuitInvariant, PTL

(* ... and so has every packet that waits for a route: something is left   *)
(* that will send it, drop it or start the search for it.                  *)
THEOREM PacketsPursued == Spec => []QueuedIsPursued
<1>1. PursuitInv => QueuedIsPursued
  BY DEF PursuitInv
<1> QED BY <1>1, PursuitInvariant, PTL
=============================================================================
