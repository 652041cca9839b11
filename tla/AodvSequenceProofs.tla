------------------------ MODULE AodvSequenceProofs ------------------------
(***************************************************************************)
(* Destination sequence numbers in AodvRouting: proofs, for every network, *)
(* that nobody is ever ahead of the owner of a number, and that therefore  *)
(* a node's number moves only when it originates a request.                *)
(***************************************************************************)
EXTENDS AodvRoutingProofs

TablesHonest == \A n \in Node : Honest(rt[n], seqNo)

RequestHonest(m, s) == /\ m.oseq <= s[m.orig]
                       /\ ~m.unk => m.dseq <= s[m.dst]
RequestsHonest == \A m \in rreq : RequestHonest(m, seqNo)
RepliesHonest  == \A m \in rrep : m.dseq <= seqNo[m.dst]

SeqInv == RangeInv /\ TablesHonest /\ RequestsHonest /\ RepliesHonest

(* The invariant contains the property the runs check.                     *)
LEMMA SeqInvImplies == SeqInv => NoFutureSeq
BY DEF SeqInv, TablesHonest, RequestsHonest, RequestHonest, RepliesHonest,
       Honest, NoFutureSeq

-----------------------------------------------------------------------------
(* A step that leaves all sequence numbers alone and writes one table.     *)
LEMMA WriteHonest ==
    ASSUME RangeInv, TablesHonest, NEW n \in Node, NEW t, Honest(t, seqNo),
           rt' = [rt EXCEPT ![n] = t], seqNo' = seqNo
    PROVE  TablesHonest'
BY DEF TablesHonest, RangeInv, TablesOK

(* Losing a neighbour leaves all sequence numbers alone.                   *)
LEMMA AfterHonest ==
    ASSUME NEW t \in Table, NEW s, Honest(t, s), NEW x
    PROVE  Honest(After(t, x), s)
BY HonestInvalidate DEF After

(* UpdateRouteToNeighbor either keeps an entry or forgets its number.      *)
LEMMA UpdatedHonest ==
    ASSUME RangeInv, TablesHonest, NEW n \in Node, NEW x \in Neighbours(n)
    PROVE  /\ UpdateRouteToNeighbor(rt[n], x) \in Table
           /\ Honest(UpdateRouteToNeighbor(rt[n], x), seqNo)
<1>1. x \in Node /\ Neighbours(n) \subseteq Node
  BY RangeSymmetric
<1>2. Sound(rt[n], Neighbours(n)) /\ Honest(rt[n], seqNo)
  BY DEF RangeInv, TablesOK, TablesHonest
<1>3. Sound(UpdateRouteToNeighbor(rt[n], x), Neighbours(n))
  BY <1>1, <1>2, SoundUpdateRouteToNeighbor
<1>4. Honest(UpdateRouteToNeighbor(rt[n], x), seqNo)
  BY <1>1, <1>2, HonestUpdateRouteToNeighbor DEF Sound
<1> QED BY <1>3, <1>4 DEF Sound

(* PreviousHop writes one entry, with the number of the originator.        *)
LEMMA PreviousHopEntries ==
    ASSUME NEW t \in Table, NEW from \in Node, NEW oseq, NEW d \in Node
    PROVE  PreviousHop(t, from, oseq)[d].seq = IF d = from THEN oseq ELSE t[d].seq
<1> DEFINE e == t[from]
           r == [e EXCEPT !.flag = "VALID", !.vseq = FALSE, !.seq = oseq,
                          !.hop = 1, !.nh = from, !.cnt = 0]
           q == Route(FALSE, oseq, 1, from)
           w == IF Has(t, from) THEN r ELSE q
<1>1. e \in Entry
  BY DEF Table
<1>2. PreviousHop(t, from, oseq) = [t EXCEPT ![from] = w]
  BY DEF PreviousHop, Neighbour
<1> HIDE DEF e
<1>3. r.seq = oseq /\ q.seq = oseq
  BY <1>1 DEF Entry, Route
<1> HIDE DEF r, q
<1>4. w.seq = oseq
  BY <1>3
<1> HIDE DEF w
<1> QED BY <1>2, <1>4 DEF Table

(* The table with which a fresh request is handled; its entry for the      *)
(* originator is not ahead even where its number is not marked as valid.   *)
LEMMA RequestTableHonest ==
    ASSUME SeqInv, NEW m \in rreq
    PROVE  /\ RequestTable(m) \in Table
           /\ Honest(RequestTable(m), seqNo)
           /\ RequestTable(m)[m.orig].seq <= seqNo[m.orig]
<1> DEFINE N  == Neighbours(m.to)
           t1 == UpdateRouteToNeighbor(rt[m.to], m.from)
           t2 == ReverseRoute(t1, m.orig, m.oseq, m.hop + 1, m.from)
<1>1. /\ m.to \in Node /\ m.from \in N /\ m.orig \in Node
      /\ m.oseq \in Nat /\ m.hop + 1 \in Nat /\ m.oseq <= seqNo[m.orig]
  BY DEF SeqInv, RangeInv, RreqOK, InReach, RreqMessage, RequestsHonest,
         RequestHonest
<1>2. N \subseteq Node
  BY <1>1, RangeSymmetric
<1>3. Sound(t1, N) /\ Honest(t1, seqNo)
  BY <1>1, <1>2, SoundUpdateRouteToNeighbor, UpdatedHonest
  DEF SeqInv, RangeInv, TablesOK
<1>4. Sound(t2, N) /\ Honest(t2, seqNo)
  <2> HIDE DEF t1, N
  <2>1. Sound(t2, N)
    BY <1>1, <1>2, <1>3, SoundReverseRoute
  <2>2. t1 \in Table
    BY <1>3 DEF Sound
  <2>3. Honest(t2, seqNo)
    BY <1>1, <1>3, <2>2, HonestReverseRoute
  <2> QED BY <2>1, <2>3
<1>5. t2[m.orig].seq <= seqNo[m.orig]
  <2>1. t2[m.orig].vseq
    BY <1>1, <1>3 DEF t2, ReverseRoute, Reversed, Route, Sound, Table, Entry
  <2> HIDE DEF t2
  <2> QED BY <1>1, <1>4, <2>1 DEF Honest
<1>6. t2 \in Table /\ m.from \in Node
  BY <1>1, <1>2, <1>4 DEF Sound
<1> HIDE DEF t2
<1>7. Honest(PreviousHop(t2, m.from, m.oseq), seqNo)
  BY <1>4, <1>6, HonestPreviousHop
<1>8. PreviousHop(t2, m.from, m.oseq)[m.orig].seq <= seqNo[m.orig]
  BY <1>1, <1>5, <1>6, PreviousHopEntries
<1>9. RequestTable(m) \in Table
  BY RequestTableSound DEF SeqInv, Sound
<1> QED BY <1>7, <1>8, <1>9 DEF RequestTable, t2

(* A table stays honest when a node's own number grows.                    *)
LEMMA TablesHonestLater ==
    ASSUME RangeInv, TablesHonest, NEW s \in [Node -> Nat],
           \A d \in Node : seqNo[d] <= s[d], NEW n \in Node
    PROVE  Honest(rt[n], s)
BY HonestMonotone DEF RangeInv, TablesOK, Sound, OwnOK, TablesHonest

-----------------------------------------------------------------------------
(* Every action keeps the invariant.                                       *)
HonestAfter == TablesHonest' /\ RequestsHonest' /\ RepliesHonest'

(* A search keeps the number of the entry it starts from.                  *)
LEMMA SearchEntryNumber ==
    ASSUME NEW e \in Entry
    PROVE  SearchEntry(e).vseq = e.vseq /\ SearchEntry(e).seq = e.seq
<1> DEFINE ttl == RequestTtl(e)
           cnt == IF ttl = NetDiameter THEN Counted(e.cnt) ELSE e.cnt
<1>1. SearchEntry(e) = [e EXCEPT !.flag = "IN_SEARCH", !.hop = ttl, !.cnt = cnt]
  BY DEF SearchEntry
<1> HIDE DEF ttl, cnt
<1> QED BY <1>1 DEF Entry

(* A flood quotes the number the node knows and raises its own first.      *)
LEMMA FloodRequestSeq ==
    ASSUME SeqInv, NEW n \in Node, NEW d \in Node, FloodRequest(n, d)
    PROVE  /\ TablesHonest' /\ RequestsHonest'
           /\ \A x \in Node : seqNo[x] <= seqNo'[x]
<1> DEFINE e == rt[n][d]
           w == SearchEntry(e)
<1>1. /\ rt \in [Node -> Table] /\ seqNo \in [Node -> Nat] /\ e \in Entry
      /\ (e.vseq => e.seq <= seqNo[d])
  BY DEF SeqInv, RangeInv, TablesOK, OwnOK, Table, TablesHonest, Honest
<1>2. seqNo' = [seqNo EXCEPT ![n] = seqNo[n] + 1]
  BY DEF FloodRequest
<1>3. seqNo' \in [Node -> Nat] /\ \A x \in Node : seqNo[x] <= seqNo'[x]
  BY <1>1, <1>2
<1>4. TablesHonest'
  <2>1. w.vseq = e.vseq /\ w.seq = e.seq
    BY <1>1, SearchEntryNumber
  <2>2. rt' = [rt EXCEPT ![n] = [rt[n] EXCEPT ![d] = w]]
    BY <1>1 DEF FloodRequest
  <2>3. \A x \in Node : Honest(rt[x], seqNo')
    BY <1>3, TablesHonestLater DEF SeqInv
  <2>4. w.vseq => w.seq <= seqNo'[d]
    BY <1>1, <1>3, <2>1 DEF Entry
  <2>5. rt[n] \in Table
    BY <1>1
  <2> HIDE DEF w, e
  <2>6. Honest([rt[n] EXCEPT ![d] = w], seqNo')
    BY <2>3, <2>4, <2>5, HonestWrite
  <2> QED BY <1>1, <2>2, <2>3, <2>6 DEF TablesHonest
<1>5. RequestsHonest'
  <2> DEFINE q(x) == [to |-> x, from |-> n, orig |-> n, id |-> reqId[n] + 1,
                      oseq |-> seqNo[n] + 1, dst |-> d, unk |-> ~e.vseq,
                      dseq |-> IF e.vseq THEN e.seq ELSE 0, hop |-> 0,
                      ttl |-> RequestTtl(e), grat |-> GratuitousReply,
                      only |-> DestinationOnly]
  <2>1. ASSUME NEW m \in rreq
        PROVE  RequestHonest(m, seqNo')
    <3>1. /\ m.orig \in Node /\ m.dst \in Node /\ m.oseq \in Nat
          /\ m.dseq \in Nat /\ RequestHonest(m, seqNo)
      BY DEF SeqInv, RangeInv, RreqOK, RreqMessage, RequestsHonest
    <3> QED BY <1>1, <1>3, <3>1 DEF RequestHonest
  <2>2. ASSUME NEW x \in Neighbours(n)
        PROVE  RequestHonest(q(x), seqNo')
    <3>1. /\ q(x).oseq = seqNo[n] + 1 /\ q(x).orig = n
          /\ q(x).dst = d
          /\ (~q(x).unk => e.vseq /\ q(x).dseq = e.seq)
      OBVIOUS
    <3>2. e.vseq => e.seq <= seqNo'[d]
      BY <1>1, <1>3 DEF Entry
    <3>3. seqNo'[n] = seqNo[n] + 1
      BY <1>1, <1>2
    <3> HIDE DEF q, e
    <3> QED BY <1>1, <3>1, <3>2, <3>3 DEF RequestHonest
  <2>3. rreq' = rreq \cup {q(x) : x \in Neighbours(n)}
    BY DEF FloodRequest
  <2> HIDE DEF q
  <2> QED BY <2>1, <2>2, <2>3 DEF RequestsHonest
<1> QED BY <1>3, <1>4, <1>5

(* Steps that do not touch what the invariant is about.                    *)
LEMMA RepliesLater ==
    ASSUME SeqInv, seqNo' \in [Node -> Nat], rrep' \subseteq rrep,
           \A x \in Node : seqNo[x] <= seqNo'[x]
    PROVE  RepliesHonest'
<1>1. ASSUME NEW m \in rrep'
      PROVE  m.dseq <= seqNo'[m.dst]
  <2>1. /\ m.dst \in Node /\ m.dseq \in Nat /\ m.dseq <= seqNo[m.dst]
        /\ seqNo \in [Node -> Nat]
    BY DEF SeqInv, RangeInv, RrepOK, RrepMessage, RepliesHonest, OwnOK
  <2> QED BY <2>1
<1> QED BY <1>1 DEF RepliesHonest

(* A step that adds no message and moves no number.                        *)
LEMMA MessagesKept ==
    ASSUME SeqInv, seqNo' = seqNo
    PROVE  /\ rreq' \subseteq rreq => RequestsHonest'
           /\ rrep' \subseteq rrep => RepliesHonest'
BY DEF SeqInv, RequestsHonest, RepliesHonest

(* A step that writes no table and moves no number.                        *)
LEMMA TablesKept ==
    ASSUME SeqInv, seqNo' = seqNo, rt' = rt
    PROVE  TablesHonest'
BY DEF SeqInv, TablesHonest

(* The handlers of the source: RouteOutput, its deferred part, a request   *)
(* put off and the retry.                                                  *)
LEMMA OriginateSeq ==
    ASSUME SeqInv, RangeInv', NEW n \in Node, NEW d \in Node,
           \/ SendData(n, d) \/ DeferredRouteOutput(n, d)
           \/ SendDeferredRequest(n, d) \/ RouteRequestTimerExpire(n, d)
    PROVE  HonestAfter
<1>1. CASE FloodRequest(n, d) /\ rrep' = rrep
  BY <1>1, FloodRequestSeq, RepliesLater DEF HonestAfter, RangeInv, OwnOK
<1>2. CASE rt' = rt /\ UNCHANGED <<seqNo, rreq, rrep>>
  BY <1>2, MessagesKept, TablesKept DEF HonestAfter
<1>3. CASE /\ rt' = [rt EXCEPT ![n][d] = NoEntry]
           /\ UNCHANGED <<seqNo, rreq, rrep>>
  <2>1. rt[n] \in Table /\ Honest(rt[n], seqNo) /\ rt \in [Node -> Table]
    BY DEF SeqInv, RangeInv, TablesOK, TablesHonest
  <2>2. Honest([rt[n] EXCEPT ![d] = NoEntry], seqNo)
    <3>1. NoEntry.vseq = FALSE
      BY DEF NoEntry
    <3> QED BY <2>1, <3>1, HonestWrite
  <2>3. rt' = [rt EXCEPT ![n] = [rt[n] EXCEPT ![d] = NoEntry]]
    BY <1>3, <2>1
  <2> QED BY <1>3, <2>2, <2>3, WriteHonest, MessagesKept DEF HonestAfter, SeqInv
<1> QED
  BY <1>1, <1>2, <1>3
  DEF SendData, DeferredRouteOutput, SendDeferredRequest,
      RouteRequestTimerExpire, SendRequest, tables, own

(* A duplicate request only refreshes its sender.                          *)
LEMMA RecvDuplicateRequestSeq ==
    ASSUME SeqInv, NEW m \in rreq, RecvDuplicateRequest(m)
    PROVE  HonestAfter
<1>1. m.to \in Node /\ m.from \in Neighbours(m.to)
  BY DEF SeqInv, RangeInv, RreqOK, InReach, RreqMessage
<1>2. TablesHonest'
  BY <1>1, UpdatedHonest, WriteHonest DEF SeqInv, RecvDuplicateRequest, own
<1> QED
  BY <1>2, MessagesKept DEF HonestAfter, RecvDuplicateRequest, Forget, own

(* A destination never takes the increment of SendReply: a request that    *)
(* asks for the next number would be ahead of it.                          *)
LEMMA DestinationKeepsNumber ==
    ASSUME SeqInv, NEW m \in rreq, NEW x, RecvRequestAsDestination(m, x)
    PROVE  seqNo' = seqNo
<1>1. /\ m.to \in Node /\ m.dst = m.to /\ seqNo \in [Node -> Nat]
      /\ (~m.unk => m.dseq <= seqNo[m.to])
  BY DEF SeqInv, RangeInv, OwnOK, RreqOK, RreqMessage, RequestsHonest,
         RequestHonest, RecvRequestAsDestination
<1>2. ~(~m.unk /\ m.dseq = seqNo[m.to] + 1)
  BY <1>1
<1>3. seqNo' = [seqNo EXCEPT ![m.to] = seqNo[m.to]]
  BY <1>2 DEF RecvRequestAsDestination
<1> QED BY <1>1, <1>3

(* SendReply offers the destination's own number.                          *)
LEMMA RecvRequestAsDestinationSeq ==
    ASSUME SeqInv, NEW m \in rreq, NEW x, RecvRequestAsDestination(m, x)
    PROVE  HonestAfter
<1>1. m.to \in Node
  BY DEF SeqInv, RangeInv, RreqOK, RreqMessage
<1>2. seqNo' = seqNo
  BY DestinationKeepsNumber
<1>3. TablesHonest'
  BY <1>1, <1>2, RequestTableHonest, AfterHonest, WriteHonest
  DEF SeqInv, RecvRequestAsDestination
<1>4. RepliesHonest'
  <2> DEFINE o  == After(RequestTable(m), x)[m.orig]
             sn == IF ~m.unk /\ m.dseq = seqNo[m.to] + 1
                   THEN seqNo[m.to] + 1 ELSE seqNo[m.to]
             q  == [to |-> o.nh, from |-> m.to, orig |-> m.orig,
                    dst |-> m.to, dseq |-> sn, hop |-> 0, ttl |-> o.hop,
                    ack |-> FALSE]
  <2>1. rrep' = rrep \cup {q} /\ seqNo' = [seqNo EXCEPT ![m.to] = sn]
    BY DEF RecvRequestAsDestination
  <2>2. sn = seqNo[m.to] /\ seqNo[m.to] \in Nat
    BY <1>1, <1>2, <2>1 DEF SeqInv, RangeInv, OwnOK
  <2>3. q.dseq = sn /\ q.dst = m.to
    OBVIOUS
  <2> HIDE DEF q, sn
  <2> QED BY <1>2, <2>1, <2>2, <2>3 DEF SeqInv, RepliesHonest
<1> QED
  BY <1>2, <1>3, <1>4, MessagesKept DEF HonestAfter, RecvRequestAsDestination, Forget

(* An intermediate node offers numbers it holds as valid.                  *)
LEMMA RecvRequestAsIntermediateSeq ==
    ASSUME SeqInv, NEW m \in rreq, NEW x, RecvRequestAsIntermediate(m, x)
    PROVE  HonestAfter
<1> DEFINE n  == m.to
           t1 == RequestTable(m)
           t  == After(t1, x)
           d  == t[m.dst]
           o  == t[m.orig]
           u1 == AddPrecursor(t, m.dst, o.nh)
           u  == AddPrecursor(u1, m.orig, d.nh)
           q1 == [to |-> o.nh, from |-> n, orig |-> m.orig, dst |-> m.dst,
                  dseq |-> d.seq, hop |-> d.hop, ttl |-> o.hop,
                  ack |-> d.hop = 1]
           q2 == [to |-> d.nh, from |-> n, orig |-> m.dst,
                  dst |-> m.orig, dseq |-> o.seq, hop |-> o.hop,
                  ttl |-> d.hop, ack |-> FALSE]
<1>1. n \in Node /\ m.orig \in Node /\ m.dst \in Node
  BY DEF SeqInv, RangeInv, RreqOK, RreqMessage
<1>2. /\ t1 \in Table /\ Honest(t1, seqNo)
      /\ t1[m.orig].seq <= seqNo[m.orig]
  BY RequestTableHonest
<1>3. /\ rt' = [rt EXCEPT ![n] = u]
      /\ rrep' = rrep \cup {q1} \cup (IF m.grat THEN {q2} ELSE {})
      /\ Forget(m) /\ d.vseq /\ seqNo' = seqNo
  BY DEF RecvRequestAsIntermediate, UpToDate
<1> HIDE DEF t1
<1>4. t \in Table /\ Honest(t, seqNo)
  <2>1. t \in Table
    BY AnswerTableSound DEF SeqInv, Sound, t1
  <2> QED BY <1>2, <2>1, AfterHonest
<1>5. d.seq <= seqNo[m.dst] /\ o.seq <= seqNo[m.orig]
  <2>1. o.seq = t1[m.orig].seq
    BY <1>1, <1>2, InvalidateKeeps DEF After
  <2> QED BY <1>1, <1>2, <1>3, <1>4, <2>1 DEF Honest
<1>6. q1.dseq = d.seq /\ q1.dst = m.dst /\ q2.dseq = o.seq /\ q2.dst = m.orig
  OBVIOUS
<1> HIDE DEF t, d, o
<1>7. TablesHonest'
  <2>1. u1 \in Table /\ Honest(u1, seqNo)
    BY <1>4, HonestAddPrecursor, PrecursorTable
  <2> HIDE DEF u1
  <2>2. Honest(u, seqNo)
    BY <2>1, HonestAddPrecursor
  <2> HIDE DEF u
  <2> QED BY <1>1, <1>3, <2>2, WriteHonest DEF SeqInv
<1>8. RepliesHonest'
  <2> HIDE DEF q1, q2
  <2> QED BY <1>3, <1>5, <1>6 DEF SeqInv, RepliesHonest
<1> QED BY <1>3, <1>7, <1>8, MessagesKept DEF HonestAfter, Forget

(* A relay only ever raises the number asked for to one it holds as valid. *)
LEMMA RelayRequestSeq ==
    ASSUME SeqInv, NEW m \in rreq, NEW x, RelayRequest(m, x)
    PROVE  HonestAfter
<1> DEFINE n  == m.to
           t1 == RequestTable(m)
           t  == After(t1, x)
           relayed == IF m.ttl < 2 \/ (Has(t, m.dst) /\ t[m.dst].nh = m.from)
                      THEN {} ELSE {Relayed(m, y, t) : y \in Neighbours(n)}
<1>1. /\ m \in RreqMessage /\ n \in Node /\ m.orig \in Node /\ m.dst \in Node
      /\ Neighbours(n) \subseteq Node /\ RequestHonest(m, seqNo)
  BY RangeSymmetric DEF SeqInv, RangeInv, RreqOK, RreqMessage, RequestsHonest
<1>2. t1 \in Table /\ Honest(t1, seqNo)
  BY RequestTableHonest
<1>3. /\ rt' = [rt EXCEPT ![n] = t]
      /\ rreq' = (rreq \ {m}) \cup relayed
      /\ seqNo' = seqNo /\ rrep' = rrep
  BY DEF RelayRequest
<1> HIDE DEF t1
<1>4. t \in Table /\ Honest(t, seqNo)
  <2>1. t \in Table
    BY AnswerTableSound DEF SeqInv, Sound, t1
  <2> QED BY <1>2, <2>1, AfterHonest
<1> HIDE DEF t
<1>5. TablesHonest'
  BY <1>1, <1>3, <1>4, WriteHonest DEF SeqInv
<1>6. ASSUME NEW r \in relayed
      PROVE  RequestHonest(r, seqNo)
  <2>1. m.ttl >= 2
    BY <1>1, <1>6 DEF RreqMessage
  <2>2. PICK y \in Neighbours(n) : r = Relayed(m, y, t)
    BY <1>6
  <2>3. /\ r.orig = m.orig /\ r.dst = m.dst /\ r.oseq = m.oseq
        /\ LET newer == Has(t, m.dst) /\ UpToDate(t[m.dst], m)
           IN  /\ r.unk = (m.unk /\ ~newer)
               /\ r.dseq = IF newer THEN t[m.dst].seq ELSE m.dseq
    BY <1>1, <1>4, <2>1, <2>2, RelayedFields
  <2>4. UpToDate(t[m.dst], m) => t[m.dst].seq <= seqNo[m.dst]
    BY <1>1, <1>4 DEF UpToDate, Honest
  <2> QED BY <1>1, <2>3, <2>4 DEF RequestHonest
<1>7. RequestsHonest'
  <2> HIDE DEF relayed
  <2> QED BY <1>3, <1>6 DEF SeqInv, RequestsHonest
<1> QED BY <1>3, <1>5, <1>7, MessagesKept DEF HonestAfter

(* The route that a reply offers carries a number its destination has      *)
(* reached.                                                                *)
LEMMA ReplyTableHonest ==
    ASSUME SeqInv, NEW m \in rrep
    PROVE  /\ ReplyTable(m) \in Table /\ Honest(ReplyTable(m), seqNo)
           /\ Offered(m).seq <= seqNo[m.dst]
<1> DEFINE t == UpdateRouteToNeighbor(rt[m.to], m.from)
<1>1. /\ m.to \in Node /\ m.dst \in Node /\ m.from \in Neighbours(m.to)
      /\ m.dseq <= seqNo[m.dst]
  BY DEF SeqInv, RangeInv, RrepOK, InReach, RrepMessage, RepliesHonest
<1>2. t \in Table /\ Honest(t, seqNo)
  BY <1>1, UpdatedHonest DEF SeqInv
<1>3. Offered(m).seq = m.dseq
  BY DEF Offered, Route
<1>4. \/ ReplyTable(m) = [t EXCEPT ![m.dst] = Offered(m)]
      \/ ReplyTable(m) = t
  BY DEF ReplyTable
<1>5. ReplyTable(m) \in Table
  BY ReplyTableSound DEF SeqInv, Sound
<1>6. Offered(m).seq <= seqNo[m.dst]
  BY <1>1, <1>3
<1> HIDE DEF t
<1>7. Honest(ReplyTable(m), seqNo)
  BY <1>1, <1>2, <1>4, <1>6, HonestWrite
<1> QED BY <1>5, <1>6, <1>7

(* RecvReply at the node that asked.                                       *)
LEMMA RecvReplyAsOriginSeq ==
    ASSUME SeqInv, NEW m \in rrep, RecvReplyAsOrigin(m)
    PROVE  HonestAfter
<1> DEFINE searching ==
             UpdateRouteToNeighbor(rt[m.to], m.from)[m.dst].flag = "IN_SEARCH"
           t == IF searching THEN [ReplyTable(m) EXCEPT ![m.dst] = Offered(m)]
                ELSE ReplyTable(m)
<1>1. m.to \in Node /\ m.dst \in Node
  BY DEF SeqInv, RangeInv, RrepOK, RrepMessage
<1>2. /\ ReplyTable(m) \in Table /\ Honest(ReplyTable(m), seqNo)
      /\ Offered(m).seq <= seqNo[m.dst]
  BY ReplyTableHonest
<1>3. Honest(t, seqNo)
  BY <1>1, <1>2, HonestWrite
<1>4. /\ rt' = [rt EXCEPT ![m.to] = t]
      /\ seqNo' = seqNo /\ rreq' = rreq /\ rrep' \subseteq rrep
  BY DEF RecvReplyAsOrigin, Acknowledge, own
<1> HIDE DEF t
<1>5. TablesHonest'
  BY <1>1, <1>3, <1>4, WriteHonest DEF SeqInv
<1> QED BY <1>4, <1>5, MessagesKept DEF HonestAfter

(* Writing precursors, even to a copy of an entry, keeps the numbers.      *)
LEMMA PassReplyHonest ==
    ASSUME NEW t \in Table, NEW s, Honest(t, s), NEW dst \in Node,
           NEW orig \in Node
    PROVE  Honest(PassReply(t, dst, orig), s)
<1> DEFINE p  == t[orig].nh
           q  == t[dst].nh
           a  == AddPrecursor(t, dst, p)
           t1 == AddPrecursor(a, q, p)
           e  == [t[orig] EXCEPT !.prec = @ \cup {q}]
           t2 == IF q \in Node THEN [t1 EXCEPT ![orig] = e] ELSE t1
<1>1. p \in Node \cup {NoNode} /\ q \in Node \cup {NoNode}
  BY DEF Table, Entry
<1>2. PassReply(t, dst, orig) = t \/ PassReply(t, dst, orig) = AddPrecursor(t2, p, q)
  BY DEF PassReply
<1>3. e \in Entry \/ q \notin Node
  <2>1. t[orig] \in Entry
    BY DEF Table
  <2> HIDE DEF q
  <2> QED BY <2>1 DEF Entry
<1>4. e.vseq = t[orig].vseq /\ e.seq = t[orig].seq
  <2>1. t[orig] \in Entry
    BY DEF Table
  <2> HIDE DEF q
  <2> QED BY <2>1 DEF Entry
<1>5. e.vseq => e.seq <= s[orig]
  BY <1>4 DEF Honest
<1> HIDE DEF p, q, e
<1>6. a \in Table /\ Honest(a, s)
  BY <1>1, HonestAddPrecursor, PrecursorTable
<1> HIDE DEF a
<1>7. t1 \in Table /\ Honest(t1, s)
  BY <1>1, <1>6, HonestAddPrecursor, PrecursorTable
<1> HIDE DEF t1
<1>8. t2 \in Table /\ Honest(t2, s)
  <2>1. CASE q \in Node
    BY <1>3, <1>5, <1>7, <2>1, HonestWrite DEF Table
  <2> QED BY <1>7, <2>1
<1> HIDE DEF t2
<1> QED BY <1>2, <1>8, HonestAddPrecursor

(* RecvReply at any other node.                                            *)
LEMMA RelayReplySeq ==
    ASSUME SeqInv, NEW m \in rrep, RelayReply(m)
    PROVE  HonestAfter
<1> DEFINE n == m.to
           t == ReplyTable(m)
           o == t[m.orig]
           known == Has(t, m.orig) /\ o.flag # "IN_SEARCH"
           u == IF known THEN PassReply(t, m.dst, m.orig) ELSE t
           q == [m EXCEPT !.to = o.nh, !.from = n, !.hop = @ + 1,
                          !.ttl = @ - 1, !.ack = FALSE]
<1>1. /\ m \in RrepMessage /\ n \in Node /\ m.dst \in Node /\ m.orig \in Node
      /\ m.dseq <= seqNo[m.dst]
  BY DEF SeqInv, RangeInv, RrepOK, RrepMessage, RepliesHonest
<1>2. t \in Table /\ Honest(t, seqNo)
  BY ReplyTableHonest
<1>3. /\ rt' = [rt EXCEPT ![n] = u]
      /\ \A r \in rrep' : r \in rrep \/ r = q
      /\ seqNo' = seqNo /\ rreq' = rreq
  BY DEF RelayReply, own
<1>4. Honest(u, seqNo)
  <2> HIDE DEF t
  <2> QED BY <1>1, <1>2, PassReplyHonest
<1>5. q.dseq = m.dseq /\ q.dst = m.dst
  BY <1>1 DEF RrepMessage
<1> HIDE DEF u, q
<1>6. TablesHonest'
  BY <1>1, <1>3, <1>4, WriteHonest DEF SeqInv
<1>7. RepliesHonest'
  BY <1>1, <1>3, <1>5 DEF SeqInv, RepliesHonest
<1> QED BY <1>3, <1>6, <1>7, MessagesKept DEF HonestAfter

(* An acknowledgement revives an entry without touching its number.        *)
LEMMA RecvReplyAckSeq ==
    ASSUME SeqInv, NEW m \in ack, RecvReplyAck(m)
    PROVE  HonestAfter
<1> DEFINE t == UpdateRouteToNeighbor(rt[m.to], m.from)
           e == [t[m.from] EXCEPT !.flag = "VALID", !.cnt = 0]
           u == [t EXCEPT ![m.from].flag = "VALID", ![m.from].cnt = 0]
<1>1. m.to \in Node /\ m.from \in Neighbours(m.to) /\ m.from \in Node
  BY DEF SeqInv, RangeInv, AckOK, InReach, AckMessage
<1>2. t \in Table /\ Honest(t, seqNo)
  BY <1>1, UpdatedHonest DEF SeqInv
<1>3. /\ rt' = [rt EXCEPT ![m.to] = u]
      /\ seqNo' = seqNo /\ rreq' = rreq /\ rrep' = rrep
  BY DEF RecvReplyAck, own
<1> HIDE DEF t
<1>4. u = [t EXCEPT ![m.from] = e]
  BY <1>1, <1>2, TwoFields, Zenon DEF Table
<1>5. e.vseq => e.seq <= seqNo[m.from]
  <2>1. t[m.from] \in Entry /\ (t[m.from].vseq => t[m.from].seq <= seqNo[m.from])
    BY <1>1, <1>2 DEF Table, Honest
  <2>2. e.vseq = t[m.from].vseq /\ e.seq = t[m.from].seq
    BY <2>1 DEF Entry
  <2> QED BY <2>1, <2>2
<1> HIDE DEF e, u
<1>6. Honest(u, seqNo)
  BY <1>1, <1>2, <1>4, <1>5, HonestWrite
<1>7. TablesHonest'
  BY <1>1, <1>3, <1>6, WriteHonest DEF SeqInv
<1> QED BY <1>3, <1>7, MessagesKept DEF HonestAfter

(* SendHello announces the node's own number.                              *)
LEMMA SendHelloSeq ==
    ASSUME SeqInv, NEW n \in Node, SendHello(n)
    PROVE  HonestAfter
<1>1. seqNo' = seqNo /\ rt' = rt /\ rreq' = rreq
  BY DEF SendHello, tables, own
<1>2. \A m \in rrep' : m \in rrep \/ (m.dseq = seqNo[n] /\ m.dst = n)
  BY DEF SendHello
<1>3. seqNo[n] \in Nat
  BY DEF SeqInv, RangeInv, OwnOK
<1>4. RepliesHonest'
  BY <1>1, <1>2, <1>3 DEF SeqInv, RepliesHonest
<1> QED BY <1>1, <1>4, MessagesKept, TablesKept DEF HonestAfter

(* ProcessHello takes over the number the sender announces.                *)
LEMMA ProcessHelloSeq ==
    ASSUME SeqInv, NEW m \in rrep, NEW x, ProcessHello(m, x)
    PROVE  HonestAfter
<1> DEFINE n  == m.to
           t1 == UpdateRouteToNeighbor(rt[n], m.from)
           t  == HelloRoute(t1, m.dst, m.dseq)
<1>1. /\ n \in Node /\ m.from \in Neighbours(n) /\ m.dst = m.from
      /\ m.dseq \in Nat /\ m.dst \in Node /\ m.dseq <= seqNo[m.dst]
      /\ Neighbours(n) \subseteq Node
  BY RangeSymmetric
  DEF SeqInv, RangeInv, RrepOK, InReach, RrepMessage, ProcessHello, RepliesHonest
<1>2. t1 \in Table /\ Honest(t1, seqNo) /\ Sound(t1, Neighbours(n))
  BY <1>1, UpdatedHonest, SoundUpdateRouteToNeighbor
  DEF SeqInv, RangeInv, TablesOK
<1>3. /\ rt' = [rt EXCEPT ![n] = After(t, x)]
      /\ seqNo' = seqNo /\ rreq' = rreq /\ rrep' \subseteq rrep
  BY DEF ProcessHello, own
<1> HIDE DEF t1
<1>4. t \in Table /\ Honest(t, seqNo)
  <2>1. Sound(t, Neighbours(n))
    BY <1>1, <1>2, SoundHelloRoute
  <2>2. Honest(t, seqNo)
    BY <1>1, <1>2, HonestHelloRoute
  <2> QED BY <2>1, <2>2 DEF Sound
<1> HIDE DEF t
<1>5. TablesHonest'
  BY <1>1, <1>3, <1>4, AfterHonest, WriteHonest DEF SeqInv
<1> QED BY <1>3, <1>5, MessagesKept DEF HonestAfter

(* RecvError changes flags; the numbers in a route error are not read.     *)
LEMMA RecvErrorSeq ==
    ASSUME SeqInv, NEW m \in rerr, RecvError(m)
    PROVE  HonestAfter
<1> DEFINE t == UpdateRouteToNeighbor(rt[m.to], m.from)
           D == m.dests \cap Via(t, m.from)
<1>1. m.to \in Node /\ m.from \in Neighbours(m.to)
  BY DEF SeqInv, RangeInv, RerrOK, InReach, RerrMessage
<1>2. t \in Table /\ Honest(t, seqNo)
  BY <1>1, UpdatedHonest DEF SeqInv
<1>3. /\ rt' = [rt EXCEPT ![m.to] = Invalidate(t, D)]
      /\ seqNo' = seqNo /\ rreq' = rreq /\ rrep' = rrep
  BY DEF RecvError, own
<1> HIDE DEF t, D
<1>4. TablesHonest'
  BY <1>1, <1>2, <1>3, HonestInvalidate, WriteHonest DEF SeqInv
<1> QED BY <1>3, <1>4, MessagesKept DEF HonestAfter

(* A neighbour lost without any other write to the table.                  *)
LEMMA LossSeq ==
    ASSUME SeqInv, NEW n \in Node, NEW x,
           rt' = [rt EXCEPT ![n] = After(rt[n], x)],
           UNCHANGED <<seqNo, rreq, rrep>>
    PROVE  HonestAfter
<1>1. rt[n] \in Table /\ Honest(rt[n], seqNo)
  BY DEF SeqInv, RangeInv, TablesOK, TablesHonest
<1>2. TablesHonest'
  BY <1>1, AfterHonest, WriteHonest DEF SeqInv
<1> QED BY <1>2, MessagesKept DEF HonestAfter

(* RoutingTable::Purge only forgets numbers.                               *)
LEMMA ExpireSeq ==
    ASSUME SeqInv, NEW n \in Node, NEW d \in Node, Expire(n, d)
    PROVE  HonestAfter
<1>1. rt[n] \in Table /\ Honest(rt[n], seqNo)
  BY DEF SeqInv, RangeInv, TablesOK, TablesHonest
<1>2. TablesHonest'
  BY <1>1, HonestExpired, WriteHonest DEF SeqInv, Expire, own
<1> QED BY <1>2, MessagesKept DEF HonestAfter, Expire, own

(* Data packets carry no numbers.                                          *)
LEMMA RecvDataSeq ==
    ASSUME SeqInv, RecvData
    PROVE  HonestAfter
<1>1. PICK m \in data, x \in Node \cup {NoNode} :
        \/ Forwarding(m, x) \/ NoRouteToForward(m)
        \/ DropOwnPacket(m) \/ Deliver(m, x)
  BY DEF RecvData
<1>2. m.to \in Node
  BY DEF SeqInv, RangeInv, DataOK, DataMessage
<1>3. CASE Forwarding(m, x) \/ Deliver(m, x)
  BY <1>2, <1>3, LossSeq DEF Forwarding, Deliver, own
<1>4. CASE NoRouteToForward(m) \/ DropOwnPacket(m)
  BY <1>4, MessagesKept, TablesKept
  DEF HonestAfter, NoRouteToForward, DropOwnPacket, tables, own
<1> QED BY <1>1, <1>3, <1>4

(* Lost links, expiries, hello messages and the rate limit timers.         *)
LEMMA MaintainSeq ==
    ASSUME SeqInv, Maintain
    PROVE  HonestAfter
<1>1. ASSUME NEW n \in Node, NEW x \in Node, LinkFailure(n, x)
      PROVE  HonestAfter
  BY <1>1, LossSeq DEF LinkFailure, own
<1>2. ASSUME NEW n \in Node,
             RreqRateLimitTimerExpire(n) \/ RerrRateLimitTimerExpire(n)
      PROVE  HonestAfter
  BY <1>2, MessagesKept, TablesKept
  DEF HonestAfter, RreqRateLimitTimerExpire, RerrRateLimitTimerExpire, tables,
      own
<1> QED BY <1>1, <1>2, ExpireSeq, SendHelloSeq DEF Maintain

(* A lost frame makes no claim.                                            *)
LEMMA LoseSeq ==
    ASSUME SeqInv, Lose
    PROVE  HonestAfter
BY MessagesKept, TablesKept DEF HonestAfter, Lose, tables, own

-----------------------------------------------------------------------------
(* Nothing is known at the start.                                          *)
LEMMA InitSeq == Init => SeqInv
BY InitRange
DEF Init, SeqInv, TablesHonest, RequestsHonest, RepliesHonest, Honest, NoEntry

(* Every step keeps the invariant.                                         *)
LEMMA NextSeq == SeqInv /\ Next => SeqInv'
<1> SUFFICES ASSUME SeqInv, Next PROVE SeqInv'
  OBVIOUS
<1>1. RangeInv'
  BY NextRange DEF SeqInv
<1>2. HonestAfter
  <2>1. CASE Originate
    BY <1>1, <2>1, OriginateSeq DEF Originate
  <2>2. CASE RecvRequest
    BY <2>2, RecvDuplicateRequestSeq, RecvRequestAsDestinationSeq,
       RecvRequestAsIntermediateSeq, RelayRequestSeq
    DEF RecvRequest
  <2>3. CASE RecvReply
    BY <2>3, RecvReplyAsOriginSeq, RelayReplySeq, ProcessHelloSeq DEF RecvReply
  <2>4. CASE \E m \in ack : RecvReplyAck(m)
    BY <2>4, RecvReplyAckSeq
  <2>5. CASE \E m \in rerr : RecvError(m)
    BY <2>5, RecvErrorSeq
  <2> QED
    BY <2>1, <2>2, <2>3, <2>4, <2>5, RecvDataSeq, MaintainSeq, LoseSeq DEF Next
<1> QED BY <1>1, <1>2 DEF HonestAfter, SeqInv

(* The invariant holds in every reachable state.                           *)
LEMMA SeqInvariant == Spec => []SeqInv
<1>1. SeqInv /\ [Next]_vars => SeqInv'
  <2>1. SeqInv /\ UNCHANGED vars => SeqInv'
    BY StutterRange
    DEF vars, SeqInv, TablesHonest, RequestsHonest, RepliesHonest
  <2> QED BY <2>1, NextSeq
<1> QED BY <1>1, InitSeq, PTL DEF Spec

(* No node and no message ever claims a sequence number that its owner has *)
(* not reached, in any network and in any order of arrival.                *)
THEOREM NobodyAhead == Spec => []NoFutureSeq
BY SeqInvariant, SeqInvImplies, PTL

(* Only SendRequest moves a sequence number.                               *)
LEMMA NumberMoves ==
    ASSUME SeqInv, Next, NEW n \in Node, seqNo'[n] # seqNo[n]
    PROVE  reqId'[n] = reqId[n] + 1
<1>1. seqNo \in [Node -> Nat] /\ reqId \in [Node -> Nat]
  BY DEF SeqInv, RangeInv, OwnOK
<1>2. ASSUME NEW k \in Node, NEW d \in Node, FloodRequest(k, d)
      PROVE  reqId'[n] = reqId[n] + 1
  BY <1>1, <1>2 DEF FloodRequest
<1>3. CASE Originate
  BY <1>2, <1>3
  DEF Originate, SendData, DeferredRouteOutput, SendDeferredRequest,
      RouteRequestTimerExpire, SendRequest, own
<1>4. CASE RecvRequest
  BY <1>4, DestinationKeepsNumber
  DEF RecvRequest, RecvDuplicateRequest, RecvRequestAsIntermediate,
      RelayRequest, own
<1>5. CASE RecvReply
  BY <1>5 DEF RecvReply, RecvReplyAsOrigin, RelayReply, ProcessHello, own
<1>6. CASE \E m \in ack : RecvReplyAck(m)
  BY <1>6 DEF RecvReplyAck, own
<1>7. CASE \E m \in rerr : RecvError(m)
  BY <1>7 DEF RecvError, own
<1>8. CASE RecvData
  BY <1>8
  DEF RecvData, Forwarding, NoRouteToForward, DropOwnPacket, Deliver, own
<1>9. CASE Maintain
  BY <1>9
  DEF Maintain, LinkFailure, Expire, SendHello, RreqRateLimitTimerExpire,
      RerrRateLimitTimerExpire, own
<1>10. CASE Lose
  BY <1>10 DEF Lose, own
<1> QED BY <1>3, <1>4, <1>5, <1>6, <1>7, <1>8, <1>9, <1>10 DEF Next

(* A node's own number moves only when it originates a request: the        *)
(* increment of SendReply is dead code while no node forgets its number.   *)
THEOREM OnlyRequestsMoveNumbers == Spec => SeqOnlyByRequest
<1>1. SeqInv /\ [Next]_vars =>
        [\A n \in Node : seqNo'[n] # seqNo[n] => reqId'[n] = reqId[n] + 1]_vars
  BY NumberMoves
<1> QED BY <1>1, SeqInvariant, PTL DEF Spec, SeqOnlyByRequest
=============================================================================
