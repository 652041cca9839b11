------------------------- MODULE AodvRoutingProofs -------------------------
(***************************************************************************)
(* Proofs about AodvRouting for every network and every parameter: types,  *)
(* and routes, precursors and errors that never name a node out of range.  *)
(***************************************************************************)
EXTENDS AodvRouting, TLAPS

-----------------------------------------------------------------------------
(* What the operators of AodvTable keep of two properties of a table.  N   *)
(* stands for the nodes in range of its owner and s for the sequence       *)
(* numbers that the nodes have reached.                                    *)

(* An entry of the right type whose next hop, if it can ever be used, and  *)
(* whose precursors are in N.                                              *)
InRange(e, N) ==
    /\ e \in Entry
    /\ e.vseq \/ e.flag \in {"VALID", "INVALID"} => e.nh \in N
    /\ e.prec \subseteq N

Sound(t, N) == t \in Table /\ \A d \in Node : InRange(t[d], N)

(* No valid sequence number is ahead of the node it belongs to.            *)
Honest(t, s) == \A d \in Node : t[d].vseq => t[d].seq <= s[d]

-----------------------------------------------------------------------------
(* A table stays sound when a sound entry is written.                      *)
LEMMA SoundWrite ==
    ASSUME NEW N, NEW t, Sound(t, N), NEW d \in Node, NEW e, InRange(e, N)
    PROVE  Sound([t EXCEPT ![d] = e], N)
BY DEF Sound, InRange, Table

(* No entry: nothing to be sound about.                                    *)
LEMMA SoundNoEntry == ASSUME NEW N PROVE InRange(NoEntry, N)
BY DEF InRange, NoEntry, Entry, Flags

(* The constructor with a next hop in range.                               *)
LEMMA SoundRoute ==
    ASSUME NEW N, N \subseteq Node, NEW vseq \in BOOLEAN, NEW seq \in Nat,
           NEW hop \in Nat, NEW nh \in N
    PROVE  InRange(Route(vseq, seq, hop, nh), N)
BY DEF InRange, Route, Entry, Flags

(* The handlers' writes to an entry that exists.                           *)
LEMMA SoundNeighbour ==
    ASSUME NEW N, N \subseteq Node, NEW e, InRange(e, N), NEW nh \in N,
           NEW vseq \in BOOLEAN, NEW seq \in Nat
    PROVE  InRange(Neighbour(e, vseq, seq, nh), N)
BY DEF InRange, Entry, Flags, Neighbour

(* RecvRequest's write of the reverse route.                               *)
LEMMA SoundReversed ==
    ASSUME NEW N, N \subseteq Node, NEW e, InRange(e, N), NEW oseq \in Nat,
           NEW hop \in Nat, NEW from \in N
    PROVE  InRange(Reversed(e, oseq, hop, from), N)
<1> DEFINE seq == IF e.seq < oseq \/ ~e.vseq THEN oseq ELSE e.seq
<1>1. seq \in Nat
  BY DEF InRange, Entry
<1>2. Reversed(e, oseq, hop, from) =
        [e EXCEPT !.seq = seq, !.vseq = TRUE, !.nh = from, !.hop = hop]
  BY DEF Reversed
<1> HIDE DEF seq
<1> QED BY <1>1, <1>2 DEF InRange, Entry, Flags

(* RoutingTableEntry::Invalidate keeps the next hop.                       *)
LEMMA SoundInvalid ==
    ASSUME NEW N, NEW e, InRange(e, N), e.flag = "VALID"
    PROVE  InRange([e EXCEPT !.flag = "INVALID", !.cnt = 0], N)
BY DEF InRange, Entry, Flags

(* An entry made VALID again needs a next hop in range.                    *)
LEMMA SoundRevived ==
    ASSUME NEW N, NEW e, InRange(e, N), e.nh \in N
    PROVE  InRange([e EXCEPT !.flag = "VALID", !.cnt = 0], N)
BY DEF InRange, Entry, Flags

(* InsertPrecursor with a node in range.                                   *)
LEMMA SoundPrecursor ==
    ASSUME NEW N, N \subseteq Node, NEW e, InRange(e, N), NEW p \in N
    PROVE  InRange([e EXCEPT !.prec = @ \cup {p}], N)
BY DEF InRange, Entry, Flags

(* InvalidateRoutesWithDst.                                                *)
LEMMA SoundInvalidate ==
    ASSUME NEW N, NEW t, Sound(t, N), NEW D
    PROVE  Sound(Invalidate(t, D), N)
<1>1. ASSUME NEW d \in Node
      PROVE  InRange(Invalidate(t, D)[d], N)
  BY SoundInvalid DEF Sound, Valid, Invalidate
<1> QED BY <1>1 DEF Sound, Table, Invalidate, InRange

(* InvalidateRoutesWithDst changes nothing but the flag.                   *)
LEMMA InvalidateKeeps ==
    ASSUME NEW t \in Table, NEW D, NEW d \in Node
    PROVE  /\ Invalidate(t, D)[d].vseq = t[d].vseq
           /\ Invalidate(t, D)[d].seq = t[d].seq
           /\ Invalidate(t, D)[d].nh = t[d].nh
           /\ \/ Invalidate(t, D)[d].flag = t[d].flag
              \/ t[d].flag = "VALID" /\ Invalidate(t, D)[d].flag = "INVALID"
<1> DEFINE e == t[d]
           r == [e EXCEPT !.flag = "INVALID", !.cnt = 0]
<1>1. e \in Entry
  BY DEF Table
<1>2. Invalidate(t, D)[d] = IF d \in D /\ Valid(t, d) THEN r ELSE e
  BY DEF Invalidate
<1> HIDE DEF e
<1>3. /\ r.vseq = e.vseq /\ r.seq = e.seq /\ r.nh = e.nh /\ r.flag = "INVALID"
  BY <1>1 DEF Entry
<1> HIDE DEF r
<1> QED BY <1>2, <1>3 DEF Valid, e

(* RoutingTable::Purge.                                                    *)
LEMMA SoundExpired ==
    ASSUME NEW N, NEW t, Sound(t, N), NEW d \in Node
    PROVE  Sound(Expired(t, d), N)
<1>1. InRange(IF t[d].flag = "VALID"
              THEN [t[d] EXCEPT !.flag = "INVALID", !.cnt = 0] ELSE NoEntry, N)
  BY SoundNoEntry, SoundInvalid DEF Sound
<1> QED BY <1>1, SoundWrite DEF Expired

(* InsertPrecursor followed by Update, whether or not the entry exists.    *)
LEMMA SoundAddPrecursor ==
    ASSUME NEW N, N \subseteq Node, NEW t, Sound(t, N), NEW d, NEW p \in N
    PROVE  Sound(AddPrecursor(t, d, p), N)
<1>1. ASSUME d \in Node
      PROVE  InRange([t[d] EXCEPT !.prec = @ \cup {p}], N)
  BY <1>1, SoundPrecursor DEF Sound
<1> QED BY <1>1, SoundWrite DEF AddPrecursor

(* UpdateRouteToNeighbor for a sender in range.                            *)
LEMMA SoundUpdateRouteToNeighbor ==
    ASSUME NEW N, N \subseteq Node, NEW t, Sound(t, N), NEW s \in N
    PROVE  Sound(UpdateRouteToNeighbor(t, s), N)
<1>1. InRange(Route(FALSE, 0, 1, s), N)
  BY SoundRoute
<1> QED BY <1>1, SoundWrite DEF UpdateRouteToNeighbor

(* The reverse route through a sender in range.                            *)
LEMMA SoundReverseRoute ==
    ASSUME NEW N, N \subseteq Node, NEW t, Sound(t, N), NEW o \in Node,
           NEW oseq \in Nat, NEW hop \in Nat, NEW from \in N
    PROVE  Sound(ReverseRoute(t, o, oseq, hop, from), N)
<1>1. /\ InRange(Route(TRUE, oseq, hop, from), N)
      /\ InRange(Reversed(t[o], oseq, hop, from), N)
  BY SoundRoute, SoundReversed DEF Sound
<1> QED BY <1>1, SoundWrite DEF ReverseRoute

(* The entry of the previous hop.                                          *)
LEMMA SoundPreviousHop ==
    ASSUME NEW N, N \subseteq Node, NEW t, Sound(t, N), NEW from \in N,
           NEW oseq \in Nat
    PROVE  Sound(PreviousHop(t, from, oseq), N)
<1>1. /\ InRange(Route(FALSE, oseq, 1, from), N)
      /\ InRange(Neighbour(t[from], FALSE, oseq, from), N)
  BY SoundRoute, SoundNeighbour DEF Sound
<1> QED BY <1>1, SoundWrite DEF PreviousHop

(* The entry of a node whose hello message has been heard.                 *)
LEMMA SoundHelloRoute ==
    ASSUME NEW N, N \subseteq Node, NEW t, Sound(t, N), NEW s \in N,
           NEW dseq \in Nat
    PROVE  Sound(HelloRoute(t, s, dseq), N)
<1>1. /\ InRange(Route(TRUE, dseq, 1, s), N)
      /\ InRange(Neighbour(t[s], TRUE, dseq, s), N)
  BY SoundRoute, SoundNeighbour DEF Sound
<1> QED BY <1>1, SoundWrite DEF HelloRoute

-----------------------------------------------------------------------------
(* Sequence numbers: the same operators keep a table honest.               *)
LEMMA HonestWrite ==
    ASSUME NEW t \in Table, NEW s, Honest(t, s), NEW d \in Node, NEW e,
           e.vseq => e.seq <= s[d]
    PROVE  Honest([t EXCEPT ![d] = e], s)
BY DEF Honest, Table

(* A table stays honest when owners raise their numbers.                   *)
LEMMA HonestMonotone ==
    ASSUME NEW t \in Table, NEW s \in [Node -> Nat], NEW r \in [Node -> Nat],
           Honest(t, s), \A d \in Node : s[d] <= r[d]
    PROVE  Honest(t, r)
BY DEF Honest, Table, Entry

(* InvalidateRoutesWithDst keeps the numbers.                              *)
LEMMA HonestInvalidate ==
    ASSUME NEW t \in Table, NEW s, Honest(t, s), NEW D
    PROVE  Honest(Invalidate(t, D), s)
BY InvalidateKeeps DEF Honest

(* RoutingTable::Purge keeps a number or forgets it.                       *)
LEMMA HonestExpired ==
    ASSUME NEW t \in Table, NEW s, Honest(t, s), NEW d \in Node
    PROVE  Honest(Expired(t, d), s)
<1> DEFINE e == t[d]
           r == [e EXCEPT !.flag = "INVALID", !.cnt = 0]
           w == IF e.flag = "VALID" THEN r ELSE NoEntry
<1>1. e \in Entry /\ (e.vseq => e.seq <= s[d])
  BY DEF Table, Honest
<1>2. Expired(t, d) = [t EXCEPT ![d] = w]
  BY DEF Expired
<1> HIDE DEF e
<1>3. r.vseq = e.vseq /\ r.seq = e.seq
  BY <1>1 DEF Entry
<1> HIDE DEF r
<1>4. w.vseq => w.seq <= s[d]
  BY <1>1, <1>3 DEF NoEntry
<1> HIDE DEF w
<1> QED BY <1>2, <1>4, HonestWrite

(* A precursor does not change the type of a table.                        *)
LEMMA PrecursorTable ==
    ASSUME NEW t \in Table, NEW d, NEW p
    PROVE  AddPrecursor(t, d, p) \in Table
<1> DEFINE e == [t[d] EXCEPT !.prec = @ \cup {p}]
<1>1. CASE d \in Node /\ Has(t, d) /\ p \in Node
  <2>1. t[d] \in Entry
    BY <1>1 DEF Table
  <2>2. e \in Entry
    BY <1>1, <2>1 DEF Entry
  <2>3. AddPrecursor(t, d, p) = [t EXCEPT ![d] = e]
    BY <1>1 DEF AddPrecursor
  <2> HIDE DEF e
  <2> QED BY <2>2, <2>3 DEF Table
<1>2. CASE ~(d \in Node /\ Has(t, d) /\ p \in Node)
  BY <1>2 DEF AddPrecursor
<1> QED BY <1>1, <1>2

(* Precursors and numbers are independent.                                 *)
LEMMA HonestAddPrecursor ==
    ASSUME NEW t \in Table, NEW s, Honest(t, s), NEW d, NEW p
    PROVE  Honest(AddPrecursor(t, d, p), s)
<1> DEFINE e == [t[d] EXCEPT !.prec = @ \cup {p}]
<1>1. CASE d \in Node
  <2>1. t[d] \in Entry /\ (t[d].vseq => t[d].seq <= s[d])
    BY <1>1 DEF Table, Honest
  <2>2. e.vseq = t[d].vseq /\ e.seq = t[d].seq
    BY <2>1 DEF Entry
  <2>3. AddPrecursor(t, d, p) = [t EXCEPT ![d] = e] \/ AddPrecursor(t, d, p) = t
    BY DEF AddPrecursor
  <2> HIDE DEF e
  <2> QED BY <1>1, <2>1, <2>2, <2>3, HonestWrite
<1>2. CASE d \notin Node
  BY <1>2 DEF AddPrecursor
<1> QED BY <1>1, <1>2

(* A fresh entry for the sender has no valid number.                       *)
LEMMA HonestUpdateRouteToNeighbor ==
    ASSUME NEW t \in Table, NEW s, Honest(t, s), NEW x \in Node
    PROVE  Honest(UpdateRouteToNeighbor(t, x), s)
<1> DEFINE e == Route(FALSE, 0, 1, x)
<1>1. ~e.vseq
  BY DEF Route
<1>2. \/ UpdateRouteToNeighbor(t, x) = [t EXCEPT ![x] = e]
      \/ UpdateRouteToNeighbor(t, x) = t
  BY DEF UpdateRouteToNeighbor
<1> HIDE DEF e
<1> QED BY <1>1, <1>2, HonestWrite

(* The reverse route carries a number the originator has reached.          *)
LEMMA HonestReverseRoute ==
    ASSUME NEW t \in Table, NEW s, Honest(t, s), NEW o \in Node,
           NEW oseq \in Nat, oseq <= s[o], NEW hop, NEW from
    PROVE  Honest(ReverseRoute(t, o, oseq, hop, from), s)
<1> DEFINE e   == t[o]
           seq == IF e.seq < oseq \/ ~e.vseq THEN oseq ELSE e.seq
           r   == [e EXCEPT !.seq = seq, !.vseq = TRUE, !.nh = from, !.hop = hop]
           w   == IF Has(t, o) THEN Reversed(e, oseq, hop, from)
                  ELSE Route(TRUE, oseq, hop, from)
<1>1. e \in Entry /\ (e.vseq => e.seq <= s[o])
  BY DEF Table, Honest
<1>2. seq <= s[o]
  BY <1>1 DEF Entry
<1>3. Reversed(e, oseq, hop, from) = r
  BY DEF Reversed
<1>4. ReverseRoute(t, o, oseq, hop, from) = [t EXCEPT ![o] = w]
  BY DEF ReverseRoute
<1> HIDE DEF e, seq
<1>5. r.seq = seq
  BY <1>1 DEF Entry
<1> HIDE DEF r
<1>6. w.vseq => w.seq <= s[o]
  BY <1>2, <1>3, <1>5 DEF Route
<1> HIDE DEF w
<1> QED BY <1>4, <1>6, HonestWrite

(* A previous hop's number is marked as not valid ...                      *)
LEMMA NeighbourVseq ==
    ASSUME NEW e \in Entry, NEW seq, NEW nh
    PROVE  Neighbour(e, FALSE, seq, nh).vseq = FALSE
BY DEF Neighbour, Entry

(* ... and a hello sender's number is the one announced.                   *)
LEMMA NeighbourSeq ==
    ASSUME NEW e \in Entry, NEW seq, NEW nh
    PROVE  Neighbour(e, TRUE, seq, nh).seq = seq
BY DEF Neighbour, Entry

(* The originator's number in the previous hop's entry is not a valid one. *)
LEMMA HonestPreviousHop ==
    ASSUME NEW t \in Table, NEW s, Honest(t, s), NEW from \in Node, NEW oseq
    PROVE  Honest(PreviousHop(t, from, oseq), s)
<1> DEFINE e == IF Has(t, from) THEN Neighbour(t[from], FALSE, oseq, from)
                ELSE Route(FALSE, oseq, 1, from)
<1>1. t[from] \in Entry
  BY DEF Table
<1>2. e.vseq => e.seq <= s[from]
  <2>1. Neighbour(t[from], FALSE, oseq, from).vseq = FALSE
    BY <1>1, NeighbourVseq, Zenon
  <2>2. Route(FALSE, oseq, 1, from).vseq = FALSE
    BY DEF Route
  <2> QED BY <2>1, <2>2
<1>3. PreviousHop(t, from, oseq) = [t EXCEPT ![from] = e]
  BY DEF PreviousHop
<1> HIDE DEF e
<1> QED BY <1>2, <1>3, HonestWrite

(* A hello message announces a number its sender has reached.              *)
LEMMA HonestHelloRoute ==
    ASSUME NEW t \in Table, NEW s, Honest(t, s), NEW x \in Node, NEW dseq,
           dseq <= s[x]
    PROVE  Honest(HelloRoute(t, x, dseq), s)
<1> DEFINE e == IF Has(t, x) THEN Neighbour(t[x], TRUE, dseq, x)
                ELSE Route(TRUE, dseq, 1, x)
<1>1. t[x] \in Entry
  BY DEF Table
<1>2. e.vseq => e.seq <= s[x]
  <2>1. Neighbour(t[x], TRUE, dseq, x).seq = dseq
    BY <1>1, NeighbourSeq
  <2>2. Route(TRUE, dseq, 1, x).seq = dseq
    BY DEF Route
  <2>3. \/ e = Neighbour(t[x], TRUE, dseq, x)
        \/ e = Route(TRUE, dseq, 1, x)
    OBVIOUS
  <2> HIDE DEF e
  <2>4. e.seq = dseq
    BY <2>1, <2>2, <2>3, Zenon
  <2> QED BY <2>4
<1>3. HelloRoute(t, x, dseq) = [t EXCEPT ![x] = e]
  BY DEF HelloRoute
<1> HIDE DEF e
<1> QED BY <1>2, <1>3, HonestWrite

-----------------------------------------------------------------------------
(* Searches: none of these operators starts one.  (SendRequest alone does.)*)
NoSearch(t, u) ==
    \A d \in Node : u[d].flag = "IN_SEARCH" => t[d].flag = "IN_SEARCH"

(* Operators that start no search compose.                                 *)
LEMMA NoSearchTrans ==
    ASSUME NEW t, NEW u, NEW v, NoSearch(t, u), NoSearch(u, v)
    PROVE  NoSearch(t, v)
BY DEF NoSearch

(* Writing an entry that is no new search.                                 *)
LEMMA NoSearchWrite ==
    ASSUME NEW t \in Table, NEW d \in Node, NEW e,
           e.flag = "IN_SEARCH" => t[d].flag = "IN_SEARCH"
    PROVE  NoSearch(t, [t EXCEPT ![d] = e])
BY DEF NoSearch, Table

(* A new entry is VALID ...                                                *)
LEMMA RouteFlag ==
    ASSUME NEW vseq, NEW seq, NEW hop, NEW nh
    PROVE  Route(vseq, seq, hop, nh).flag = "VALID"
BY DEF Route

(* ... and so is that of a neighbour.                                      *)
LEMMA NeighbourFlag ==
    ASSUME NEW e \in Entry, NEW seq, NEW nh
    PROVE  /\ Neighbour(e, TRUE, seq, nh).flag = "VALID"
           /\ Neighbour(e, FALSE, seq, nh).flag = "VALID"
BY DEF Neighbour, Entry

(* InvalidateRoutesWithDst.                                                *)
LEMMA NoSearchInvalidate ==
    ASSUME NEW t \in Table, NEW D
    PROVE  NoSearch(t, Invalidate(t, D))
BY InvalidateKeeps DEF NoSearch

(* RoutingTable::Purge.                                                    *)
LEMMA NoSearchExpired ==
    ASSUME NEW t \in Table, NEW d \in Node
    PROVE  NoSearch(t, Expired(t, d))
<1> DEFINE e == t[d]
           r == [e EXCEPT !.flag = "INVALID", !.cnt = 0]
           w == IF e.flag = "VALID" THEN r ELSE NoEntry
<1>1. e \in Entry
  BY DEF Table
<1>2. Expired(t, d) = [t EXCEPT ![d] = w]
  BY DEF Expired
<1> HIDE DEF e
<1>3. r.flag = "INVALID" /\ NoEntry.flag = "NONE"
  BY <1>1 DEF Entry, NoEntry
<1> HIDE DEF r
<1>4. w.flag # "IN_SEARCH"
  BY <1>3
<1> HIDE DEF w
<1> QED BY <1>2, <1>4, NoSearchWrite

(* InsertPrecursor.                                                        *)
LEMMA NoSearchAddPrecursor ==
    ASSUME NEW t \in Table, NEW d, NEW p
    PROVE  NoSearch(t, AddPrecursor(t, d, p))
<1> DEFINE e == [t[d] EXCEPT !.prec = @ \cup {p}]
<1>1. CASE d \in Node
  <2>1. t[d] \in Entry
    BY <1>1 DEF Table
  <2>2. e.flag = t[d].flag
    BY <2>1 DEF Entry
  <2>3. AddPrecursor(t, d, p) = [t EXCEPT ![d] = e] \/ AddPrecursor(t, d, p) = t
    BY DEF AddPrecursor
  <2> HIDE DEF e
  <2>4. NoSearch(t, t)
    BY DEF NoSearch
  <2> QED BY <1>1, <2>2, <2>3, <2>4, NoSearchWrite
<1>2. CASE d \notin Node
  BY <1>2 DEF AddPrecursor, NoSearch
<1> QED BY <1>1, <1>2

(* UpdateRouteToNeighbor.                                                  *)
LEMMA NoSearchUpdateRouteToNeighbor ==
    ASSUME NEW t \in Table, NEW x \in Node
    PROVE  NoSearch(t, UpdateRouteToNeighbor(t, x))
<1> DEFINE e == Route(FALSE, 0, 1, x)
<1>1. e.flag = "VALID"
  BY DEF Route
<1>2. \/ UpdateRouteToNeighbor(t, x) = [t EXCEPT ![x] = e]
      \/ UpdateRouteToNeighbor(t, x) = t
  BY DEF UpdateRouteToNeighbor
<1>3. NoSearch(t, t)
  BY DEF NoSearch
<1> HIDE DEF e
<1> QED BY <1>1, <1>2, <1>3, NoSearchWrite

(* The reverse route keeps the flag.                                       *)
LEMMA NoSearchReverseRoute ==
    ASSUME NEW t \in Table, NEW o \in Node, NEW oseq, NEW hop, NEW from
    PROVE  NoSearch(t, ReverseRoute(t, o, oseq, hop, from))
<1> DEFINE e   == t[o]
           seq == IF e.seq < oseq \/ ~e.vseq THEN oseq ELSE e.seq
           r   == [e EXCEPT !.seq = seq, !.vseq = TRUE, !.nh = from, !.hop = hop]
           w   == IF Has(t, o) THEN r ELSE Route(TRUE, oseq, hop, from)
<1>1. e \in Entry
  BY DEF Table
<1>2. ReverseRoute(t, o, oseq, hop, from) = [t EXCEPT ![o] = w]
  BY DEF ReverseRoute, Reversed
<1> HIDE DEF e, seq
<1>3. r.flag = e.flag
  BY <1>1 DEF Entry
<1> HIDE DEF r
<1>4. w.flag = "IN_SEARCH" => e.flag = "IN_SEARCH"
  BY <1>3 DEF Route
<1> HIDE DEF w
<1> QED BY <1>2, <1>4, NoSearchWrite DEF e

(* The entry of the previous hop.                                          *)
LEMMA NoSearchPreviousHop ==
    ASSUME NEW t \in Table, NEW from \in Node, NEW oseq
    PROVE  NoSearch(t, PreviousHop(t, from, oseq))
<1> DEFINE w == IF Has(t, from) THEN Neighbour(t[from], FALSE, oseq, from)
                ELSE Route(FALSE, oseq, 1, from)
<1>1. w.flag = "VALID"
  <2>1. t[from] \in Entry
    BY DEF Table
  <2>2. Neighbour(t[from], FALSE, oseq, from).flag = "VALID"
    BY <2>1, NeighbourFlag
  <2>3. Route(FALSE, oseq, 1, from).flag = "VALID"
    BY RouteFlag
  <2> QED BY <2>2, <2>3
<1>2. PreviousHop(t, from, oseq) = [t EXCEPT ![from] = w]
  BY DEF PreviousHop
<1> HIDE DEF w
<1> QED BY <1>1, <1>2, NoSearchWrite

(* The entry of a node whose hello message has been heard.                 *)
LEMMA NoSearchHelloRoute ==
    ASSUME NEW t \in Table, NEW x \in Node, NEW dseq
    PROVE  NoSearch(t, HelloRoute(t, x, dseq))
<1> DEFINE w == IF Has(t, x) THEN Neighbour(t[x], TRUE, dseq, x)
                ELSE Route(TRUE, dseq, 1, x)
<1>1. w.flag = "VALID"
  <2>1. t[x] \in Entry
    BY DEF Table
  <2>2. Neighbour(t[x], TRUE, dseq, x).flag = "VALID"
    BY <2>1, NeighbourFlag
  <2>3. Route(TRUE, dseq, 1, x).flag = "VALID"
    BY RouteFlag
  <2> QED BY <2>2, <2>3
<1>2. HelloRoute(t, x, dseq) = [t EXCEPT ![x] = w]
  BY DEF HelloRoute
<1> HIDE DEF w
<1> QED BY <1>1, <1>2, NoSearchWrite

-----------------------------------------------------------------------------
(* The network *)

(* The inductive invariant, variable by variable.  Beyond TypeOK and       *)
(* NextHopInRange it says that every message comes from a node in range,   *)
(* which is what makes its sender a legal next hop, that a hello message   *)
(* comes from the node it is about, and that no node ever searches for     *)
(* itself, so that no other message looks like a hello message.            *)
TablesOK == rt \in [Node -> Table] /\ \A n \in Node : Sound(rt[n], Neighbours(n))

OwnOK == /\ seqNo \in [Node -> Nat] /\ reqId \in [Node -> Nat]
         /\ seen \in [Node -> SUBSET (Node \X Nat)]

LinksOK == /\ nb \in [Node -> SUBSET Node]
           /\ rerrCount \in [Node -> 0..RerrRateLimit]

NotSelf(f) == f \in [Node -> SUBSET Node] /\ \A n \in Node : n \notin f[n]

LimitOK == /\ rreqCount \in [Node -> 0..RreqRateLimit]
           /\ deferred \in [Node -> [Node -> Nat]]
           /\ \A n \in Node : deferred[n][n] = 0

QueuesOK == waiting \in [Node -> SUBSET Node] /\ LimitOK

InReach(S) == \A m \in S : m.from \in Neighbours(m.to)

RreqOK(S) == /\ S \subseteq RreqMessage /\ InReach(S)
             /\ \A m \in S : m.orig # m.dst
RrepOK(S) == /\ S \subseteq RrepMessage /\ InReach(S)
             /\ \A m \in S : IsHello(m) => m.from = m.dst
RerrOK(S) == S \subseteq RerrMessage /\ InReach(S)
AckOK(S)  == S \subseteq AckMessage /\ InReach(S)
DataOK(S) == S \subseteq DataMessage

CountersOK == sent \in 0..MaxPackets /\ faults \in 0..MaxFaults

RangeInv ==
    /\ TablesOK /\ OwnOK /\ LinksOK
    /\ NotSelf(loop) /\ NotSelf(timer) /\ QueuesOK
    /\ RreqOK(rreq) /\ RrepOK(rrep) /\ RerrOK(rerr) /\ AckOK(ack)
    /\ DataOK(data) /\ CountersOK

(* The invariant contains the two properties the runs check.               *)
LEMMA RangeInvImplies == RangeInv => TypeOK /\ NextHopInRange
BY DEF RangeInv, TablesOK, OwnOK, LinksOK, NotSelf, QueuesOK, LimitOK, RreqOK,
       RrepOK, RerrOK, AckOK, DataOK, CountersOK, TypeOK, NextHopInRange,
       Sound, InRange

-----------------------------------------------------------------------------
(* Radio range is symmetric and excludes the node itself.                  *)
LEMMA RangeSymmetric ==
    ASSUME NEW n \in Node
    PROVE  /\ Neighbours(n) \subseteq Node /\ n \notin Neighbours(n)
           /\ \A x \in Neighbours(n) : n \in Neighbours(x)
BY LinkAssumption DEF Neighbours

(* The ring search asks for a positive TTL within the widest ring.         *)
LEMMA RequestTtlBound ==
    ASSUME NEW e, e.flag \in Flags, e.hop \in Nat
    PROVE  RequestTtl(e) \in 1..WidestRing
BY RingAssumption DEF RequestTtl, WidestRing, Flags

(* SendRequest keeps the next hop and precursors of the entry it searches  *)
(* with.                                                                   *)
LEMMA SoundSearchEntry ==
    ASSUME NEW N, NEW e, InRange(e, N)
    PROVE  InRange(SearchEntry(e), N)
<1> DEFINE ttl == RequestTtl(e)
           cnt == IF ttl = NetDiameter THEN Counted(e.cnt) ELSE e.cnt
<1>1. ttl \in Nat
  BY RequestTtlBound DEF InRange, Entry
<1>2. cnt \in Nat
  BY DEF InRange, Entry, Counted
<1>3. SearchEntry(e) = [e EXCEPT !.flag = "IN_SEARCH", !.hop = ttl, !.cnt = cnt]
  BY DEF SearchEntry
<1> HIDE DEF ttl, cnt
<1> QED BY <1>1, <1>2, <1>3 DEF InRange, Entry, Flags

(* What a node loses with a neighbour are destinations.                    *)
LEMMA BrokenNodes ==
    ASSUME NEW t, NEW x
    PROVE  Broken(t, x) \subseteq Node
BY DEF Broken, Via

(* Losing a neighbour in the middle of a handler keeps the table sound.    *)
LEMMA SoundAfter ==
    ASSUME NEW N, NEW t, Sound(t, N), NEW x
    PROVE  Sound(After(t, x), N)
BY SoundInvalidate DEF After

(* A table write keeps all tables sound.                                   *)
LEMMA TablesWrite ==
    ASSUME TablesOK, NEW n \in Node, NEW t, Sound(t, Neighbours(n)),
           rt' = [rt EXCEPT ![n] = t]
    PROVE  TablesOK'
BY DEF TablesOK, Sound, Neighbours

(* The same for a handler that writes a single entry.                      *)
LEMMA EntryWrite ==
    ASSUME TablesOK, NEW n \in Node, NEW d \in Node, NEW e,
           InRange(e, Neighbours(n)), rt' = [rt EXCEPT ![n][d] = e]
    PROVE  TablesOK'
<1>1. Sound([rt[n] EXCEPT ![d] = e], Neighbours(n))
  BY SoundWrite DEF TablesOK
<1>2. rt' = [rt EXCEPT ![n] = [rt[n] EXCEPT ![d] = e]]
  BY DEF TablesOK
<1> QED BY <1>1, <1>2, TablesWrite

(* Destinations that reach the loopback device are neighbours, never the   *)
(* node itself.                                                            *)
LEMMA LoopGrows ==
    ASSUME NotSelf(loop), NEW n \in Node, NEW S, S \subseteq Neighbours(n),
           NEW t, loop' = [loop EXCEPT ![n] = @ \cup Unrouted(t, S)]
    PROVE  NotSelf(loop)'
BY RangeSymmetric DEF NotSelf, Unrouted

-----------------------------------------------------------------------------
(* Reporting errors: the receivers are in range, the count stays within    *)
(* the limit.                                                              *)
LEMMA PrecursorsInRange ==
    ASSUME NEW N, NEW t, Sound(t, N), NEW D, D \subseteq Node
    PROVE  Precursors(t, D) \subseteq N
BY DEF Precursors, Sound, InRange

(* SendRerrMessage only addresses neighbours, by unicast or broadcast.     *)
LEMMA RerrReceivers ==
    ASSUME NEW n \in Node, NEW t, Sound(t, Neighbours(n)),
           NEW D, D \subseteq Node
    PROVE  /\ RerrUnicast(n, t, D) \subseteq Neighbours(n)
           /\ RerrBroadcast(n, t, D) \subseteq Neighbours(n)
BY PrecursorsInRange DEF RerrUnicast, RerrBroadcast

(* Reporting errors keeps the messages, the loopback packets and the count *)
(* legal.                                                                  *)
LEMMA ReportOK ==
    ASSUME LinksOK, NotSelf(loop), NEW n \in Node, NEW t,
           Sound(t, Neighbours(n)), NEW D, D \subseteq Node,
           NEW S, RerrOK(S), NEW used, used \subseteq Neighbours(n),
           Report(n, t, D, S, used)
    PROVE  /\ RerrOK(rerr') /\ NotSelf(loop)'
           /\ rerrCount' \in [Node -> 0..RerrRateLimit]
<1>1. /\ RerrUnicast(n, t, D) \subseteq Neighbours(n)
      /\ RerrBroadcast(n, t, D) \subseteq Neighbours(n)
  BY RerrReceivers
<1>2. RerrOK(RerrMessages(n, t, D))
  BY <1>1, RangeSymmetric DEF RerrOK, InReach, RerrMessages, RerrMessage
<1>3. RerrOK(rerr')
  BY <1>2 DEF Report, RerrOK, InReach
<1>4. NotSelf(loop)'
  <2>1. used \cup RerrUnicast(n, t, D) \subseteq Neighbours(n)
    BY <1>1
  <2> QED BY <2>1, LoopGrows DEF Report
<1>5. rerrCount' \in [Node -> 0..RerrRateLimit]
  <2>1. rerrCount[n] + RerrCharge(n, t, D) \in 0..RerrRateLimit
    BY ParameterAssumption DEF LinksOK, RerrCharge, RerrUnicast
  <2> QED BY <2>1 DEF Report, LinksOK
<1> QED BY <1>3, <1>4, <1>5

(* So does a lost neighbour, which is reported and leaves the neighbour    *)
(* list.                                                                   *)
LEMMA LoseNeighbourOK ==
    ASSUME LinksOK, NotSelf(loop), RerrOK(rerr), NEW n \in Node, NEW t,
           Sound(t, Neighbours(n)), NEW x, NEW new, new \subseteq Node,
           NEW used, used \subseteq Neighbours(n),
           LoseNeighbour(n, t, x, new, used)
    PROVE  LinksOK' /\ RerrOK(rerr') /\ NotSelf(loop)'
<1>1. /\ RerrOK(rerr') /\ NotSelf(loop)'
      /\ rerrCount' \in [Node -> 0..RerrRateLimit]
  BY BrokenNodes, ReportOK DEF LoseNeighbour
<1>2. nb' \in [Node -> SUBSET Node]
  BY DEF LoseNeighbour, LinksOK
<1> QED BY <1>1, <1>2 DEF LinksOK

(* A neighbour lost in the middle of a handler is counted as a fault.      *)
LEMMA ChargeOK ==
    ASSUME CountersOK, NEW n \in Node, NEW new, NEW x \in Lost(n, new),
           Charge(x)
    PROVE  CountersOK'
BY ParameterAssumption DEF CountersOK, Lost, Charge
-----------------------------------------------------------------------------
(* Every action keeps the invariant.                                       *)
LEMMA InitRange == Init => RangeInv
<1>1. ASSUME NEW n \in Node
      PROVE  Sound([d \in Node |-> NoEntry], Neighbours(n))
  BY SoundNoEntry DEF Sound, Table, InRange
<1>2. Init => TablesOK
  BY <1>1 DEF Init, TablesOK, Sound
<1>3. Init => OwnOK /\ LinksOK /\ NotSelf(loop) /\ NotSelf(timer) /\ QueuesOK
  BY ParameterAssumption DEF Init, OwnOK, LinksOK, NotSelf, QueuesOK, LimitOK
<1>4. Init => /\ RreqOK(rreq) /\ RrepOK(rrep) /\ RerrOK(rerr) /\ AckOK(ack)
              /\ DataOK(data) /\ CountersOK
  BY ParameterAssumption
  DEF Init, RreqOK, RrepOK, RerrOK, AckOK, DataOK, InReach, CountersOK
<1> QED BY <1>2, <1>3, <1>4 DEF RangeInv

(* RouteOutput: an application's packet leaves through a VALID entry.      *)
LEMMA SendDataRange ==
    ASSUME RangeInv, NEW n \in Node, NEW d \in Node, SendData(n, d)
    PROVE  RangeInv'
<1>1. n # d
  BY FlowAssumption DEF SendData
<1>2. CountersOK'
  BY ParameterAssumption DEF RangeInv, CountersOK, SendData
<1>3. CASE Valid(rt[n], d)
  <2>1. rt[n][d].nh \in Node
    BY <1>3, RangeSymmetric DEF RangeInv, TablesOK, Sound, InRange, Valid
  <2>2. DataOK(data')
    BY <1>3, <2>1 DEF RangeInv, DataOK, DataMessage, SendData
  <2> QED
    BY <1>2, <1>3, <2>2
    DEF SendData, RangeInv, TablesOK, OwnOK, LinksOK, NotSelf, QueuesOK,
        LimitOK, tables, own, queues, limit
<1>4. CASE ~Valid(rt[n], d)
  <2>1. NotSelf(loop)'
    BY <1>1, <1>4 DEF RangeInv, NotSelf, SendData
  <2> QED
    BY <1>2, <1>4, <2>1
    DEF SendData, RangeInv, TablesOK, OwnOK, LinksOK, NotSelf, QueuesOK,
        LimitOK, tables, own, queues, limit
<1> QED BY <1>3, <1>4

(* What the flood of a request changes.                                    *)
LEMMA FloodRequestRange ==
    ASSUME RangeInv, NEW n \in Node, NEW d \in Node, n # d, FloodRequest(n, d)
    PROVE  TablesOK' /\ OwnOK' /\ RreqOK(rreq')
<1>1. InRange(rt[n][d], Neighbours(n))
  BY DEF RangeInv, TablesOK, Sound
<1>2. TablesOK'
  <2>1. InRange(SearchEntry(rt[n][d]), Neighbours(n))
    BY <1>1, SoundSearchEntry
  <2> QED BY <2>1, EntryWrite DEF RangeInv, FloodRequest
<1>3. OwnOK'
  BY DEF RangeInv, OwnOK, FloodRequest
<1>4. RreqOK(rreq')
  <2> DEFINE e == rt[n][d]
             q(x) == [to |-> x, from |-> n, orig |-> n, id |-> reqId[n] + 1,
                      oseq |-> seqNo[n] + 1, dst |-> d, unk |-> ~e.vseq,
                      dseq |-> IF e.vseq THEN e.seq ELSE 0, hop |-> 0,
                      ttl |-> RequestTtl(e), grat |-> GratuitousReply,
                      only |-> DestinationOnly]
  <2>1. RequestTtl(e) \in Nat
    BY <1>1, RequestTtlBound DEF InRange, Entry
  <2>2. (~e.vseq) \in BOOLEAN /\ (IF e.vseq THEN e.seq ELSE 0) \in Nat
    BY <1>1 DEF InRange, Entry
  <2>3. ASSUME NEW x \in Neighbours(n)
        PROVE  q(x) \in RreqMessage /\ n \in Neighbours(x)
    BY <2>1, <2>2, RangeSymmetric, ParameterAssumption
    DEF RreqMessage, RangeInv, OwnOK
  <2>4. rreq' = rreq \cup {q(x) : x \in Neighbours(n)}
    BY DEF FloodRequest
  <2>5. \A x : q(x).to = x /\ q(x).from = n /\ q(x).orig = n /\ q(x).dst = d
    OBVIOUS
  <2> HIDE DEF q
  <2> QED BY <2>3, <2>4, <2>5 DEF RangeInv, RreqOK, InReach
<1> QED BY <1>2, <1>3, <1>4

(* What SendRequest changes, whether it floods or is put off: the count    *)
(* never passes the limit it is compared with.                             *)
LEMMA SendRequestRange ==
    ASSUME RangeInv, NEW n \in Node, NEW d \in Node, n # d,
           NEW pending \in [Node -> Nat], pending[n] = 0,
           NEW running \in SUBSET Node, n \notin running,
           SendRequest(n, d, pending, running)
    PROVE  TablesOK' /\ OwnOK' /\ NotSelf(timer)' /\ RreqOK(rreq') /\ LimitOK'
<1>1. CASE rreqCount[n] = RreqRateLimit
  <2>1. /\ deferred' = [deferred EXCEPT ![n] = [pending EXCEPT ![d] = @ + 1]]
        /\ timer' = [timer EXCEPT ![n] = running]
        /\ UNCHANGED <<rt, own, rreq, rreqCount>>
    BY <1>1 DEF SendRequest
  <2>2. TablesOK' /\ OwnOK' /\ RreqOK(rreq')
    BY <2>1 DEF RangeInv, TablesOK, OwnOK, RreqOK, InReach, own
  <2>3. NotSelf(timer)'
    BY <2>1 DEF RangeInv, NotSelf
  <2>4. LimitOK'
    <3> DEFINE p == [pending EXCEPT ![d] = @ + 1]
    <3>1. p \in [Node -> Nat] /\ p[n] = 0
      OBVIOUS
    <3>2. deferred' = [deferred EXCEPT ![n] = p]
      BY <2>1
    <3> HIDE DEF p
    <3> QED BY <2>1, <3>1, <3>2 DEF RangeInv, QueuesOK, LimitOK
  <2> QED BY <2>2, <2>3, <2>4
<1>2. CASE rreqCount[n] # RreqRateLimit
  <2>1. /\ FloodRequest(n, d)
        /\ rreqCount' = [rreqCount EXCEPT ![n] = @ + 1]
        /\ deferred' = [deferred EXCEPT ![n] = pending]
        /\ timer' = [timer EXCEPT ![n] = running \cup {d}]
    BY <1>2 DEF SendRequest
  <2>2. TablesOK' /\ OwnOK' /\ RreqOK(rreq')
    BY <2>1, FloodRequestRange
  <2>3. NotSelf(timer)'
    BY <2>1 DEF RangeInv, NotSelf
  <2>4. LimitOK'
    <3>1. rreqCount[n] + 1 \in 0..RreqRateLimit
      BY <1>2, ParameterAssumption DEF RangeInv, QueuesOK, LimitOK
    <3> QED BY <2>1, <3>1 DEF RangeInv, QueuesOK, LimitOK
  <2> QED BY <2>2, <2>3, <2>4
<1> QED BY <1>1, <1>2

(* DeferredRouteOutput never searches for the node itself.                 *)
LEMMA DeferredRouteOutputRange ==
    ASSUME RangeInv, NEW n \in Node, NEW d \in Node, DeferredRouteOutput(n, d)
    PROVE  RangeInv'
<1>1. n # d
  BY DEF RangeInv, NotSelf, DeferredRouteOutput
<1>2. NotSelf(loop)' /\ waiting' \in [Node -> SUBSET Node]
  BY DEF RangeInv, NotSelf, QueuesOK, DeferredRouteOutput
<1>3. TablesOK' /\ OwnOK' /\ NotSelf(timer)' /\ RreqOK(rreq') /\ LimitOK'
  <2>1. CASE rt[n][d].flag = "IN_SEARCH"
    BY <2>1
    DEF DeferredRouteOutput, RangeInv, TablesOK, OwnOK, NotSelf, QueuesOK,
        LimitOK, own, limit
  <2>2. CASE rt[n][d].flag # "IN_SEARCH"
    <3>1. SendRequest(n, d, deferred[n], timer[n])
      BY <2>2 DEF DeferredRouteOutput
    <3>2. /\ deferred[n] \in [Node -> Nat] /\ deferred[n][n] = 0
          /\ timer[n] \in SUBSET Node /\ n \notin timer[n]
      BY DEF RangeInv, NotSelf, QueuesOK, LimitOK
    <3> QED BY <1>1, <3>1, <3>2, SendRequestRange
  <2> QED BY <2>1, <2>2
<1> QED
  BY <1>2, <1>3
  DEF DeferredRouteOutput, RangeInv, LinksOK, QueuesOK, CountersOK, counters

(* A call of SendRequest that was put off was not for the node itself.     *)
LEMMA SendDeferredRequestRange ==
    ASSUME RangeInv, NEW n \in Node, NEW d \in Node, SendDeferredRequest(n, d)
    PROVE  RangeInv'
<1> DEFINE pending == [deferred[n] EXCEPT ![d] = @ - 1]
<1>1. n # d
  BY DEF RangeInv, QueuesOK, LimitOK, SendDeferredRequest
<1>2. pending \in [Node -> Nat] /\ pending[n] = 0
  BY <1>1 DEF RangeInv, QueuesOK, LimitOK, SendDeferredRequest
<1>3. timer[n] \in SUBSET Node /\ n \notin timer[n]
  BY DEF RangeInv, NotSelf
<1>4. SendRequest(n, d, pending, timer[n])
  BY DEF SendDeferredRequest
<1> HIDE DEF pending
<1>5. TablesOK' /\ OwnOK' /\ NotSelf(timer)' /\ RreqOK(rreq') /\ LimitOK'
  BY <1>1, <1>2, <1>3, <1>4, SendRequestRange
<1> QED
  BY <1>5
  DEF SendDeferredRequest, RangeInv, LinksOK, NotSelf, QueuesOK, CountersOK,
      counters

(* The reset of m_rreqCount.                                               *)
LEMMA RreqRateLimitTimerExpireRange ==
    ASSUME RangeInv, NEW n \in Node, RreqRateLimitTimerExpire(n)
    PROVE  RangeInv'
BY ParameterAssumption
DEF RreqRateLimitTimerExpire, RangeInv, TablesOK, OwnOK, LinksOK, NotSelf,
    QueuesOK, LimitOK, CountersOK, tables, own, counters

(* SendPacketFromQueue sends data packets.                                 *)
LEMMA FlushOK ==
    ASSUME NEW n \in Node, NEW d \in Node, NEW t
    PROVE  DataOK(Flush(n, t, d))
BY DEF DataOK, Flush, DataMessage

(* RouteRequestTimerExpire: found, repeated or given up.                   *)
LEMMA RouteRequestTimerExpireRange ==
    ASSUME RangeInv, NEW n \in Node, NEW d \in Node,
           RouteRequestTimerExpire(n, d)
    PROVE  RangeInv'
<1>1. n # d
  BY DEF RangeInv, NotSelf, RouteRequestTimerExpire
<1>2. /\ TablesOK' /\ OwnOK' /\ NotSelf(timer)' /\ RreqOK(rreq')
      /\ DataOK(data') /\ QueuesOK'
  <2>1. CASE /\ Valid(rt[n], d)
             /\ data' = data \cup Flush(n, rt[n], d)
             /\ waiting' = [waiting EXCEPT ![n] = @ \ {d}]
             /\ timer' = [timer EXCEPT ![n] = @ \ {d}]
             /\ UNCHANGED <<rt, own, rreq, limit>>
    BY <2>1, FlushOK
    DEF RangeInv, TablesOK, OwnOK, NotSelf, DataOK, QueuesOK, LimitOK, own,
        limit
  <2>2. CASE /\ SendRequest(n, d, deferred[n], timer[n] \ {d})
             /\ UNCHANGED <<data, waiting>>
    <3>1. /\ deferred[n] \in [Node -> Nat] /\ deferred[n][n] = 0
          /\ timer[n] \ {d} \in SUBSET Node /\ n \notin timer[n] \ {d}
      BY DEF RangeInv, NotSelf, QueuesOK, LimitOK
    <3> QED BY <1>1, <2>2, <3>1, SendRequestRange DEF RangeInv, QueuesOK
  <2>3. CASE /\ rt' = [rt EXCEPT ![n][d] = NoEntry]
             /\ waiting' = [waiting EXCEPT ![n] = @ \ {d}]
             /\ timer' = [timer EXCEPT ![n] = @ \ {d}]
             /\ UNCHANGED <<own, rreq, data, limit>>
    <3>1. TablesOK'
      BY <2>3, SoundNoEntry, EntryWrite DEF RangeInv
    <3> QED
      BY <2>3, <3>1 DEF RangeInv, OwnOK, NotSelf, QueuesOK, LimitOK, own, limit
  <2> QED BY <2>1, <2>2, <2>3 DEF RouteRequestTimerExpire
<1> QED
  BY <1>2
  DEF RouteRequestTimerExpire, RangeInv, LinksOK, NotSelf, CountersOK, counters

-----------------------------------------------------------------------------
(* Route requests.                                                         *)

(* The table with which a fresh request is handled.                        *)
LEMMA RequestTableSound ==
    ASSUME RangeInv, NEW m \in rreq
    PROVE  /\ Sound(RequestTable(m), Neighbours(m.to))
           /\ RequestTable(m)[m.orig].vseq \/ RequestTable(m)[m.orig].flag = "VALID"
<1> DEFINE N  == Neighbours(m.to)
           t1 == UpdateRouteToNeighbor(rt[m.to], m.from)
           t2 == ReverseRoute(t1, m.orig, m.oseq, m.hop + 1, m.from)
<1>1. /\ m.to \in Node /\ m.from \in N /\ m.orig \in Node
      /\ m.oseq \in Nat /\ m.hop + 1 \in Nat
  BY DEF RangeInv, RreqOK, InReach, RreqMessage
<1>2. N \subseteq Node
  BY <1>1, RangeSymmetric
<1>3. Sound(t1, N)
  BY <1>1, <1>2, SoundUpdateRouteToNeighbor DEF RangeInv, TablesOK
<1>4. Sound(t2, N)
  <2> HIDE DEF t1, N
  <2> QED BY <1>1, <1>2, <1>3, SoundReverseRoute DEF t2
<1>5. t2[m.orig].vseq
  BY <1>1, <1>3 DEF t2, ReverseRoute, Reversed, Route, Sound, Table, Entry
<1>6. Sound(PreviousHop(t2, m.from, m.oseq), N)
  <2> HIDE DEF t2, N
  <2> QED BY <1>1, <1>2, <1>4, SoundPreviousHop
<1>7. \/ PreviousHop(t2, m.from, m.oseq)[m.orig].vseq
      \/ PreviousHop(t2, m.from, m.oseq)[m.orig].flag = "VALID"
  <2> HIDE DEF t2
  <2> QED BY <1>1, <1>2, <1>4, <1>5
          DEF PreviousHop, Neighbour, Route, Sound, Table, Entry
<1> QED BY <1>6, <1>7 DEF RequestTable

(* ... and with which it is answered, if a neighbour was lost meanwhile.   *)
LEMMA AnswerTableSound ==
    ASSUME RangeInv, NEW m \in rreq, NEW x
    PROVE  /\ Sound(After(RequestTable(m), x), Neighbours(m.to))
           /\ After(RequestTable(m), x)[m.orig].nh \in Neighbours(m.to)
           /\ After(RequestTable(m), x)[m.orig].hop \in Nat
<1> DEFINE t == RequestTable(m)
           N == Neighbours(m.to)
<1>1. Sound(t, N) /\ (t[m.orig].vseq \/ t[m.orig].flag = "VALID")
  BY RequestTableSound
<1>2. m.orig \in Node
  BY DEF RangeInv, RreqOK, RreqMessage
<1> HIDE DEF t
<1>3. Sound(After(t, x), N)
  BY <1>1, SoundAfter
<1>4. \/ After(t, x)[m.orig].vseq
      \/ After(t, x)[m.orig].flag \in {"VALID", "INVALID"}
  BY <1>1, <1>2, InvalidateKeeps DEF After, Sound
<1> QED BY <1>2, <1>3, <1>4 DEF Sound, InRange, Entry, t

(* A request that is received leaves the set of those in flight.           *)
LEMMA RreqShrinks ==
    ASSUME RreqOK(rreq), NEW m, Forget(m)
    PROVE  RreqOK(rreq')
BY DEF RreqOK, InReach, Forget

(* A duplicate request still refreshes the entry of its sender.            *)
LEMMA RecvDuplicateRequestRange ==
    ASSUME RangeInv, NEW m \in rreq, RecvDuplicateRequest(m)
    PROVE  RangeInv'
<1>1. m.to \in Node /\ m.from \in Neighbours(m.to)
  BY DEF RangeInv, RreqOK, InReach, RreqMessage
<1>2. TablesOK'
  <2>1. Sound(UpdateRouteToNeighbor(rt[m.to], m.from), Neighbours(m.to))
    BY <1>1, RangeSymmetric, SoundUpdateRouteToNeighbor
    DEF RangeInv, TablesOK
  <2> QED BY <1>1, <2>1, TablesWrite DEF RangeInv, RecvDuplicateRequest
<1>3. RreqOK(rreq')
  BY RreqShrinks DEF RangeInv, RecvDuplicateRequest
<1> QED
  BY <1>2, <1>3
  DEF RecvDuplicateRequest, RangeInv, OwnOK, LinksOK, NotSelf, QueuesOK,
      LimitOK, CountersOK, own, queues, limit, counters

(* What the handlers of a fresh request have in common.                    *)
LEMMA LearnOK ==
    ASSUME RangeInv, NEW m \in rreq, NEW x, Learn(m, x)
    PROVE  /\ CountersOK'
           /\ seen' \in [Node -> SUBSET (Node \X Nat)]
<1>1. m.to \in Node /\ m.orig \in Node /\ m.id \in Nat
  BY DEF RangeInv, RreqOK, RreqMessage
<1>2. CountersOK'
  BY <1>1, ChargeOK DEF RangeInv, Learn
<1>3. seen' \in [Node -> SUBSET (Node \X Nat)]
  BY <1>1 DEF RangeInv, OwnOK, Learn
<1> QED BY <1>2, <1>3

(* SendReply: the answer goes to a neighbour, the reverse next hop.        *)
LEMMA RecvRequestAsDestinationRange ==
    ASSUME RangeInv, NEW m \in rreq, NEW x, RecvRequestAsDestination(m, x)
    PROVE  RangeInv'
<1> DEFINE n  == m.to
           t  == RequestTable(m)
           o  == After(t, x)[m.orig]
           sn == IF ~m.unk /\ m.dseq = seqNo[n] + 1
                 THEN seqNo[n] + 1 ELSE seqNo[n]
           q  == [to |-> o.nh, from |-> n, orig |-> m.orig, dst |-> n,
                  dseq |-> sn, hop |-> 0, ttl |-> o.hop, ack |-> FALSE]
<1>1. /\ n \in Node /\ m.from \in Neighbours(n) /\ m.orig \in Node
      /\ m.orig # n
  BY DEF RangeInv, RreqOK, InReach, RreqMessage, RecvRequestAsDestination
<1>2. Neighbours(n) \subseteq Node
  BY <1>1, RangeSymmetric
<1>3. /\ Sound(t, Neighbours(n)) /\ Sound(After(t, x), Neighbours(n))
      /\ o.nh \in Neighbours(n) /\ o.hop \in Nat
  BY RequestTableSound, AnswerTableSound
<1>4. sn \in Nat
  BY <1>1 DEF RangeInv, OwnOK
<1>5. /\ Learn(m, x) /\ Forget(m)
      /\ rt' = [rt EXCEPT ![n] = After(t, x)]
      /\ LoseNeighbour(n, t, x, {m.from}, {o.nh})
      /\ seqNo' = [seqNo EXCEPT ![n] = sn]
      /\ rrep' = rrep \cup {q}
      /\ UNCHANGED <<reqId, queues, ack, data>>
  BY DEF RecvRequestAsDestination
<1> HIDE DEF o, t, sn
<1>6. TablesOK'
  BY <1>1, <1>3, <1>5, TablesWrite DEF RangeInv
<1>7. LinksOK' /\ RerrOK(rerr') /\ NotSelf(loop)'
  BY <1>1, <1>2, <1>3, <1>5, LoseNeighbourOK DEF RangeInv
<1>8. OwnOK'
  BY <1>4, <1>5, LearnOK DEF RangeInv, OwnOK
<1>9. RrepOK(rrep')
  <2>1. q \in RrepMessage /\ q.from \in Neighbours(q.to) /\ ~IsHello(q)
    BY <1>1, <1>2, <1>3, <1>4, RangeSymmetric DEF RrepMessage, IsHello
  <2> QED BY <1>5, <2>1 DEF RangeInv, RrepOK, InReach
<1>10. CountersOK'
  BY <1>5, LearnOK
<1>11. RreqOK(rreq')
  BY <1>5, RreqShrinks DEF RangeInv
<1> QED
  BY <1>5, <1>6, <1>7, <1>8, <1>9, <1>10, <1>11
  DEF RangeInv, NotSelf, QueuesOK, LimitOK, queues, limit

(* SendReplyByIntermediateNode: both replies go to neighbours.             *)
LEMMA RecvRequestAsIntermediateRange ==
    ASSUME RangeInv, NEW m \in rreq, NEW x, RecvRequestAsIntermediate(m, x)
    PROVE  RangeInv'
<1> DEFINE n  == m.to
           t1 == RequestTable(m)
           t  == After(t1, x)
           d  == t[m.dst]
           o  == t[m.orig]
           u  == AddPrecursor(AddPrecursor(t, m.dst, o.nh), m.orig, d.nh)
           used == {o.nh} \cup (IF m.grat THEN {d.nh} ELSE {})
           q1 == [to |-> o.nh, from |-> n, orig |-> m.orig, dst |-> m.dst,
                  dseq |-> d.seq, hop |-> d.hop, ttl |-> o.hop,
                  ack |-> d.hop = 1]
           q2 == [to |-> d.nh, from |-> n, orig |-> m.dst,
                  dst |-> m.orig, dseq |-> o.seq, hop |-> o.hop,
                  ttl |-> d.hop, ack |-> FALSE]
<1>1. /\ n \in Node /\ m.from \in Neighbours(n) /\ m.orig \in Node
      /\ m.dst \in Node /\ m.orig # m.dst
  BY DEF RangeInv, RreqOK, InReach, RreqMessage
<1>2. Neighbours(n) \subseteq Node
  BY <1>1, RangeSymmetric
<1>3. /\ Sound(t1, Neighbours(n)) /\ Sound(t, Neighbours(n))
      /\ o.nh \in Neighbours(n)
  BY RequestTableSound, AnswerTableSound
<1>4. /\ Learn(m, x) /\ Forget(m)
      /\ rt' = [rt EXCEPT ![n] = u]
      /\ LoseNeighbour(n, t1, x, {m.from}, used)
      /\ rrep' = rrep \cup {q1} \cup (IF m.grat THEN {q2} ELSE {})
      /\ UNCHANGED <<seqNo, reqId, queues, ack, data>>
      /\ Valid(t, m.dst)
  BY DEF RecvRequestAsIntermediate
<1>5. d.nh \in Neighbours(n)
  BY <1>1, <1>3, <1>4 DEF Sound, InRange, Valid
<1>6. d \in Entry /\ o \in Entry
  BY <1>1, <1>3 DEF Sound, Table
<1> HIDE DEF o, d, t, t1
<1>7. TablesOK'
  <2>1. Sound(AddPrecursor(t, m.dst, o.nh), Neighbours(n))
    BY <1>2, <1>3, SoundAddPrecursor
  <2>2. Sound(u, Neighbours(n))
    BY <1>2, <1>5, <2>1, SoundAddPrecursor
  <2> HIDE DEF u
  <2> QED BY <1>1, <1>4, <2>2, TablesWrite DEF RangeInv
<1>8. LinksOK' /\ RerrOK(rerr') /\ NotSelf(loop)'
  <2>1. used \subseteq Neighbours(n) /\ {m.from} \subseteq Node
    BY <1>1, <1>2, <1>3, <1>5
  <2> HIDE DEF used
  <2> QED BY <1>1, <1>3, <1>4, <2>1, LoseNeighbourOK DEF RangeInv
<1>9. OwnOK'
  BY <1>4, LearnOK DEF RangeInv, OwnOK
<1>10. RrepOK(rrep')
  <2>1. q1 \in RrepMessage /\ q1.from \in Neighbours(q1.to) /\ ~IsHello(q1)
    BY <1>1, <1>2, <1>3, <1>6, RangeSymmetric DEF RrepMessage, IsHello, Entry
  <2>2. q2 \in RrepMessage /\ q2.from \in Neighbours(q2.to) /\ ~IsHello(q2)
    BY <1>1, <1>2, <1>5, <1>6, RangeSymmetric DEF RrepMessage, IsHello, Entry
  <2> HIDE DEF q1, q2
  <2> QED BY <1>4, <2>1, <2>2 DEF RangeInv, RrepOK, InReach
<1>11. CountersOK'
  BY <1>4, LearnOK
<1>12. RreqOK(rreq')
  BY <1>4, RreqShrinks DEF RangeInv
<1> QED
  BY <1>4, <1>7, <1>8, <1>9, <1>10, <1>11, <1>12
  DEF RangeInv, NotSelf, QueuesOK, LimitOK, queues, limit

(* A relayed request is one, and differs in six fields.                    *)
LEMMA RelayedFields ==
    ASSUME NEW m \in RreqMessage, NEW t \in Table, m.ttl >= 2, NEW y \in Node,
           NEW r, r = Relayed(m, y, t)
    PROVE  LET newer == Has(t, m.dst) /\ UpToDate(t[m.dst], m)
           IN  /\ r \in RreqMessage /\ r.to = y /\ r.from = m.to
               /\ r.orig = m.orig /\ r.dst = m.dst /\ r.id = m.id
               /\ r.oseq = m.oseq /\ r.hop = m.hop + 1 /\ r.ttl = m.ttl - 1
               /\ r.unk = (m.unk /\ ~newer)
               /\ r.dseq = IF newer THEN t[m.dst].seq ELSE m.dseq
<1> DEFINE newer == Has(t, m.dst) /\ UpToDate(t[m.dst], m)
           unk   == m.unk /\ ~newer
           dseq  == IF newer THEN t[m.dst].seq ELSE m.dseq
           hop   == m.hop + 1
           ttl   == m.ttl - 1
<1>1. unk \in BOOLEAN /\ dseq \in Nat
  BY DEF RreqMessage, Table, Entry
<1>2. r = [m EXCEPT !.to = y, !.from = m.to, !.hop = hop, !.ttl = ttl,
                    !.unk = unk, !.dseq = dseq]
  BY DEF Relayed, RreqMessage
<1>3. m.to \in Node /\ hop \in Nat /\ ttl \in Nat
  BY DEF RreqMessage
<1> HIDE DEF hop, ttl, unk, dseq
<1>4. /\ r \in RreqMessage /\ r.to = y /\ r.from = m.to
      /\ r.orig = m.orig /\ r.dst = m.dst /\ r.id = m.id
      /\ r.oseq = m.oseq /\ r.hop = hop /\ r.ttl = ttl
      /\ r.unk = unk /\ r.dseq = dseq
  BY <1>1, <1>2, <1>3 DEF RreqMessage
<1> QED BY <1>4 DEF hop, ttl, unk, dseq

(* A relayed request comes from a node in range and is not a search for    *)
(* oneself.                                                                *)
LEMMA RelayedOK ==
    ASSUME RangeInv, NEW m \in rreq, NEW t \in Table, m.ttl >= 2,
           NEW y \in Neighbours(m.to)
    PROVE  /\ Relayed(m, y, t) \in RreqMessage
           /\ Relayed(m, y, t).from \in Neighbours(Relayed(m, y, t).to)
           /\ Relayed(m, y, t).orig # Relayed(m, y, t).dst
<1>1. m \in RreqMessage /\ m.orig # m.dst
  BY DEF RangeInv, RreqOK
<1>2. y \in Node /\ m.to \in Neighbours(y)
  BY <1>1, RangeSymmetric DEF RreqMessage
<1> QED BY <1>1, <1>2, RelayedFields

(* The rebroadcast of RecvRequest.                                         *)
LEMMA RelayRequestRange ==
    ASSUME RangeInv, NEW m \in rreq, NEW x, RelayRequest(m, x)
    PROVE  RangeInv'
<1> DEFINE n  == m.to
           t1 == RequestTable(m)
           t  == After(t1, x)
           relayed == IF m.ttl < 2 \/ (Has(t, m.dst) /\ t[m.dst].nh = m.from)
                      THEN {} ELSE {Relayed(m, y, t) : y \in Neighbours(n)}
<1>1. m \in RreqMessage /\ m.from \in Neighbours(n)
  BY DEF RangeInv, RreqOK, InReach
<1>2. n \in Node /\ Neighbours(n) \subseteq Node
  BY <1>1, RangeSymmetric DEF RreqMessage
<1>3. Sound(t1, Neighbours(n)) /\ Sound(t, Neighbours(n))
  BY RequestTableSound, AnswerTableSound
<1>4. /\ Learn(m, x)
      /\ rt' = [rt EXCEPT ![n] = t]
      /\ LoseNeighbour(n, t1, x, {m.from}, {})
      /\ rreq' = (rreq \ {m}) \cup relayed
      /\ UNCHANGED <<seqNo, reqId, queues, rrep, ack, data>>
  BY DEF RelayRequest
<1> HIDE DEF t, t1
<1>5. TablesOK'
  BY <1>2, <1>3, <1>4, TablesWrite DEF RangeInv
<1>6. LinksOK' /\ RerrOK(rerr') /\ NotSelf(loop)'
  BY <1>1, <1>2, <1>3, <1>4, LoseNeighbourOK DEF RangeInv
<1>7. OwnOK'
  BY <1>4, LearnOK DEF RangeInv, OwnOK
<1>8. RreqOK(rreq')
  <2>1. ASSUME NEW r \in relayed
        PROVE  r \in RreqMessage /\ r.from \in Neighbours(r.to) /\ r.orig # r.dst
    <3>1. m.ttl \in Nat /\ ~(m.ttl < 2)
      BY <1>1, <2>1 DEF RreqMessage
    <3>2. PICK y \in Neighbours(n) : r = Relayed(m, y, t)
      BY <2>1
    <3> QED BY <1>3, <3>1, <3>2, RelayedOK DEF Sound
  <2> HIDE DEF relayed
  <2> QED BY <1>4, <2>1 DEF RangeInv, RreqOK, InReach
<1>9. CountersOK'
  BY <1>4, LearnOK
<1> QED
  BY <1>4, <1>5, <1>6, <1>7, <1>8, <1>9
  DEF RangeInv, NotSelf, QueuesOK, LimitOK, queues, limit

-----------------------------------------------------------------------------
(* Replies, hello messages and acknowledgements.                           *)
LEMMA ReplyTableSound ==
    ASSUME RangeInv, NEW m \in rrep
    PROVE  /\ Sound(ReplyTable(m), Neighbours(m.to))
           /\ InRange(Offered(m), Neighbours(m.to))
<1> DEFINE t == UpdateRouteToNeighbor(rt[m.to], m.from)
           N == Neighbours(m.to)
<1>1. m \in RrepMessage /\ m.from \in N
  BY DEF RangeInv, RrepOK, InReach
<1>2. m.to \in Node /\ m.dst \in Node /\ N \subseteq Node
  BY <1>1, RangeSymmetric DEF RrepMessage
<1>3. Sound(t, N)
  BY <1>1, <1>2, SoundUpdateRouteToNeighbor DEF RangeInv, TablesOK
<1>4. InRange(Offered(m), N)
  <2>1. m.dseq \in Nat /\ m.hop + 1 \in Nat
    BY <1>1 DEF RrepMessage
  <2> HIDE DEF N
  <2> QED BY <1>1, <1>2, <2>1, SoundRoute DEF Offered
<1>5. ReplyTable(m) = IF Accepts(t[m.dst], m.dseq, m.hop + 1)
                      THEN [t EXCEPT ![m.dst] = Offered(m)] ELSE t
  BY DEF ReplyTable
<1> HIDE DEF t, N
<1> QED BY <1>2, <1>3, <1>4, <1>5, SoundWrite DEF N

(* SendReplyAck answers a node in range.                                   *)
LEMMA AckSent ==
    ASSUME RangeInv, NEW m \in rrep,
           ack' = IF m.ack THEN ack \cup {[to |-> m.from, from |-> m.to]} ELSE ack
    PROVE  AckOK(ack')
<1>1. m.from \in Neighbours(m.to) /\ m.to \in Node
  BY DEF RangeInv, RrepOK, InReach, RrepMessage
<1> QED BY <1>1, RangeSymmetric DEF RangeInv, AckOK, InReach, AckMessage

(* RecvReply at the node that asked.                                       *)
LEMMA RecvReplyAsOriginRange ==
    ASSUME RangeInv, NEW m \in rrep, RecvReplyAsOrigin(m)
    PROVE  RangeInv'
<1> DEFINE n == m.to
           searching ==
             UpdateRouteToNeighbor(rt[n], m.from)[m.dst].flag = "IN_SEARCH"
           t == IF searching THEN [ReplyTable(m) EXCEPT ![m.dst] = Offered(m)]
                ELSE ReplyTable(m)
<1>1. m \in RrepMessage /\ m.from \in Neighbours(n)
  BY DEF RangeInv, RrepOK, InReach
<1>2. n \in Node /\ m.dst \in Node /\ Neighbours(n) \subseteq Node
  BY <1>1, RangeSymmetric DEF RrepMessage
<1>3. /\ Sound(ReplyTable(m), Neighbours(n))
      /\ InRange(Offered(m), Neighbours(n))
  BY ReplyTableSound
<1>4. Sound(t, Neighbours(n))
  BY <1>2, <1>3, SoundWrite
<1>5. /\ Acknowledge(m)
      /\ rt' = [rt EXCEPT ![n] = t]
      /\ timer' = IF searching THEN [timer EXCEPT ![n] = @ \ {m.dst}] ELSE timer
      /\ data' = data \cup Flush(n, t, m.dst)
      /\ waiting' = [waiting EXCEPT ![n] = @ \ {m.dst}]
      /\ loop' = [loop EXCEPT ![n] = @ \cup
                    Unrouted(ReplyTable(m), IF m.ack THEN {m.from} ELSE {})]
      /\ UNCHANGED <<own, nb, rerrCount, limit, rreq, rerr, counters>>
  BY DEF RecvReplyAsOrigin
<1> HIDE DEF t, searching
<1>6. TablesOK'
  BY <1>2, <1>4, <1>5, TablesWrite DEF RangeInv
<1>7. NotSelf(loop)'
  <2>1. (IF m.ack THEN {m.from} ELSE {}) \subseteq Neighbours(n)
    BY <1>1
  <2> QED BY <1>2, <1>5, <2>1, LoopGrows DEF RangeInv
<1>8. NotSelf(timer)' /\ QueuesOK'
  BY <1>2, <1>5 DEF RangeInv, NotSelf, QueuesOK, LimitOK, limit
<1>9. AckOK(ack') /\ RrepOK(rrep')
  BY <1>5, AckSent DEF Acknowledge, RangeInv, RrepOK, InReach
<1>10. DataOK(data')
  BY <1>2, <1>5, FlushOK DEF RangeInv, DataOK
<1> QED
  BY <1>5, <1>6, <1>7, <1>8, <1>9, <1>10
  DEF RangeInv, OwnOK, LinksOK, CountersOK, own, counters

(* Writing a precursor to an entry that may have changed since it was read.*)
LEMMA PassReplySound ==
    ASSUME NEW N, N \subseteq Node, NEW t, Sound(t, N), NEW dst \in Node,
           NEW orig \in Node, t[orig].nh \in N
    PROVE  Sound(PassReply(t, dst, orig), N)
<1> DEFINE p  == t[orig].nh
           q  == t[dst].nh
           t1 == AddPrecursor(AddPrecursor(t, dst, p), q, p)
           e  == [t[orig] EXCEPT !.prec = @ \cup {q}]
           t2 == IF q \in Node THEN [t1 EXCEPT ![orig] = e] ELSE t1
<1>1. CASE ~Valid(t, dst)
  BY <1>1 DEF PassReply
<1>2. CASE Valid(t, dst)
  <2>1. q \in N
    BY <1>2 DEF Sound, InRange, Valid
  <2>2. InRange(e, N)
    BY <2>1, SoundPrecursor DEF Sound
  <2>3. PassReply(t, dst, orig) = AddPrecursor(t2, p, q)
    BY <1>2 DEF PassReply
  <2>4. p \in N
    OBVIOUS
  <2> HIDE DEF p, q, e
  <2>5. Sound(t1, N)
    BY <2>4, SoundAddPrecursor
  <2> HIDE DEF t1
  <2>6. Sound(t2, N)
    BY <2>2, <2>5, SoundWrite
  <2> HIDE DEF t2
  <2> QED BY <2>1, <2>3, <2>6, SoundAddPrecursor
<1> QED BY <1>1, <1>2

(* RecvReply at any other node; the reply goes on to the reverse next hop. *)
LEMMA RelayReplyRange ==
    ASSUME RangeInv, NEW m \in rrep, RelayReply(m)
    PROVE  RangeInv'
<1> DEFINE n == m.to
           t == ReplyTable(m)
           o == t[m.orig]
           known == Has(t, m.orig) /\ o.flag # "IN_SEARCH"
           goes  == known /\ m.ttl >= 2
           u == IF known THEN PassReply(t, m.dst, m.orig) ELSE t
           used == (IF m.ack THEN {m.from} ELSE {}) \cup
                   (IF goes THEN {o.nh} ELSE {})
           q == [m EXCEPT !.to = o.nh, !.from = n, !.hop = @ + 1,
                          !.ttl = @ - 1, !.ack = FALSE]
<1>1. m \in RrepMessage /\ m.from \in Neighbours(n) /\ ~IsHello(m)
  BY DEF RangeInv, RrepOK, InReach, RelayReply
<1>2. /\ n \in Node /\ m.dst \in Node /\ m.orig \in Node
      /\ Neighbours(n) \subseteq Node
  BY <1>1, RangeSymmetric DEF RrepMessage
<1>3. Sound(t, Neighbours(n))
  BY ReplyTableSound
<1>4. known => o.nh \in Neighbours(n)
  BY <1>2, <1>3 DEF Sound, InRange, Has, Entry, Flags
<1>5. /\ rt' = [rt EXCEPT ![n] = u]
      /\ ack' = IF m.ack THEN ack \cup {[to |-> m.from, from |-> n]} ELSE ack
      /\ rrep' = (rrep \ {m}) \cup (IF goes THEN {q} ELSE {})
      /\ loop' = [loop EXCEPT ![n] = @ \cup Unrouted(t, used)]
      /\ UNCHANGED <<own, nb, rerrCount, queues, rreq, rerr, data, counters>>
  BY DEF RelayReply
<1>6. TablesOK'
  <2>1. Sound(u, Neighbours(n))
    <3> HIDE DEF t
    <3> QED BY <1>2, <1>3, <1>4, PassReplySound
  <2> HIDE DEF u
  <2> QED BY <1>2, <1>5, <2>1, TablesWrite DEF RangeInv
<1>7. NotSelf(loop)'
  <2>1. used \subseteq Neighbours(n)
    BY <1>1, <1>4
  <2> HIDE DEF used, t
  <2> QED BY <1>2, <1>5, <2>1, LoopGrows DEF RangeInv
<1>8. AckOK(ack')
  BY <1>5, AckSent
<1>9. RrepOK(rrep')
  <2>1. ASSUME goes
        PROVE  q \in RrepMessage /\ q.from \in Neighbours(q.to) /\ ~IsHello(q)
    <3> DEFINE x == o.nh
               hop == m.hop + 1
               ttl == m.ttl - 1
    <3>1. x \in Neighbours(n) /\ x \in Node /\ n \in Neighbours(x)
      BY <1>2, <1>4, <2>1, RangeSymmetric
    <3>2. hop \in Nat /\ ttl \in Nat
      BY <1>1, <2>1 DEF RrepMessage
    <3>3. q = [m EXCEPT !.to = x, !.from = m.to, !.hop = hop, !.ttl = ttl,
                        !.ack = FALSE]
      BY <1>1 DEF RrepMessage
    <3> HIDE DEF q, x, hop, ttl
    <3> QED BY <1>1, <1>2, <3>1, <3>2, <3>3 DEF RrepMessage, IsHello
  <2> HIDE DEF q, goes
  <2> QED BY <1>5, <2>1 DEF RangeInv, RrepOK, InReach
<1> QED
  BY <1>5, <1>6, <1>7, <1>8, <1>9
  DEF RangeInv, OwnOK, LinksOK, NotSelf, QueuesOK, LimitOK, CountersOK, own,
      queues, limit, counters

(* Two fields of an entry written one after the other.                     *)
LEMMA TwoFields ==
    ASSUME NEW t \in [Node -> Entry], NEW d \in Node, NEW flag, NEW cnt
    PROVE  [t EXCEPT ![d].flag = flag, ![d].cnt = cnt] =
           [t EXCEPT ![d] = [t[d] EXCEPT !.flag = flag, !.cnt = cnt]]
OBVIOUS

(* RecvReplyAck revives the entry of the sender, which is in range.        *)
LEMMA RecvReplyAckRange ==
    ASSUME RangeInv, NEW m \in ack, RecvReplyAck(m)
    PROVE  RangeInv'
<1> DEFINE n == m.to
           t == UpdateRouteToNeighbor(rt[n], m.from)
           e == [t[m.from] EXCEPT !.flag = "VALID", !.cnt = 0]
<1>1. n \in Node /\ m.from \in Neighbours(n) /\ Neighbours(n) \subseteq Node
  BY RangeSymmetric DEF RangeInv, AckOK, InReach, AckMessage
<1>2. Sound(t, Neighbours(n))
  BY <1>1, SoundUpdateRouteToNeighbor DEF RangeInv, TablesOK
<1>3. t[m.from].nh \in Neighbours(n)
  BY <1>1, <1>2
  DEF UpdateRouteToNeighbor, Has, Route, RangeInv, TablesOK, Sound, InRange,
      Table
<1>4. rt' = [rt EXCEPT ![n] = [t EXCEPT ![m.from] = e]]
  <2>1. t \in [Node -> Entry] /\ m.from \in Node
    BY <1>1, <1>2 DEF Sound, Table
  <2>2. rt' = [rt EXCEPT ![n] = [t EXCEPT ![m.from].flag = "VALID",
                                          ![m.from].cnt = 0]]
    BY DEF RecvReplyAck
  <2> HIDE DEF t
  <2>3. [t EXCEPT ![m.from].flag = "VALID", ![m.from].cnt = 0] =
        [t EXCEPT ![m.from] = e]
    BY <2>1, TwoFields, Zenon
  <2> HIDE DEF e
  <2> QED BY <2>2, <2>3
<1>5. InRange(e, Neighbours(n))
  <2>1. InRange(t[m.from], Neighbours(n))
    BY <1>1, <1>2 DEF Sound
  <2> HIDE DEF t
  <2> QED BY <1>3, <2>1, SoundRevived
<1>6. Sound([t EXCEPT ![m.from] = e], Neighbours(n))
  <2> HIDE DEF t, e
  <2> QED BY <1>1, <1>2, <1>5, SoundWrite
<1>7. TablesOK'
  <2> HIDE DEF t, e
  <2> QED BY <1>1, <1>4, <1>6, TablesWrite DEF RangeInv
<1>8. AckOK(ack')
  BY DEF RecvReplyAck, RangeInv, AckOK, InReach
<1> QED
  BY <1>7, <1>8
  DEF RecvReplyAck, RangeInv, OwnOK, LinksOK, NotSelf, QueuesOK, LimitOK,
      CountersOK, own, queues, limit, counters

(* SendHello: the sender of a hello message is its subject.                *)
LEMMA SendHelloRange ==
    ASSUME RangeInv, NEW n \in Node, SendHello(n)
    PROVE  RangeInv'
<1>1. RrepOK(rrep')
  <2> DEFINE q(x) == [to |-> x, from |-> n, orig |-> n, dst |-> n,
                      dseq |-> seqNo[n], hop |-> 0, ttl |-> 1, ack |-> FALSE]
  <2>1. ASSUME NEW x \in Neighbours(n)
        PROVE  /\ q(x) \in RrepMessage /\ n \in Neighbours(x)
               /\ q(x).to = x /\ q(x).from = n /\ q(x).dst = n
    BY RangeSymmetric DEF RangeInv, OwnOK, RrepMessage
  <2>2. rrep' = rrep \cup {q(x) : x \in Neighbours(n)}
    BY DEF SendHello
  <2> HIDE DEF q
  <2> QED BY <2>1, <2>2 DEF RangeInv, RrepOK, InReach
<1> QED
  BY <1>1
  DEF SendHello, RangeInv, TablesOK, OwnOK, LinksOK, NotSelf, QueuesOK,
      LimitOK, CountersOK, tables, own, queues, limit, counters

(* ProcessHello makes the sender a one-hop route.                          *)
LEMMA ProcessHelloRange ==
    ASSUME RangeInv, NEW m \in rrep, NEW x, ProcessHello(m, x)
    PROVE  RangeInv'
<1> DEFINE n  == m.to
           t1 == UpdateRouteToNeighbor(rt[n], m.from)
           t  == HelloRoute(t1, m.dst, m.dseq)
           new == IF n \in EnableHello THEN {m.dst} ELSE {}
<1>1. /\ n \in Node /\ m.from \in Neighbours(n) /\ m.dst = m.from
      /\ m.dseq \in Nat
  BY DEF RangeInv, RrepOK, InReach, RrepMessage, ProcessHello
<1>2. Neighbours(n) \subseteq Node
  BY <1>1, RangeSymmetric
<1>3. Sound(t, Neighbours(n))
  <2>1. Sound(t1, Neighbours(n))
    BY <1>1, <1>2, SoundUpdateRouteToNeighbor DEF RangeInv, TablesOK
  <2> HIDE DEF t1
  <2> QED BY <1>1, <1>2, <2>1, SoundHelloRoute
<1>4. /\ x \in Lost(n, new)
      /\ Charge(x)
      /\ rt' = [rt EXCEPT ![n] = After(t, x)]
      /\ LoseNeighbour(n, t, x, new, {})
      /\ rrep' = rrep \ {m}
      /\ UNCHANGED <<own, queues, rreq, ack, data>>
      /\ new \subseteq Node
  BY <1>1, <1>2 DEF ProcessHello
<1> HIDE DEF t, new
<1>5. TablesOK'
  BY <1>1, <1>3, <1>4, SoundAfter, TablesWrite DEF RangeInv
<1>6. LinksOK' /\ RerrOK(rerr') /\ NotSelf(loop)'
  BY <1>1, <1>2, <1>3, <1>4, LoseNeighbourOK DEF RangeInv
<1>7. CountersOK'
  BY <1>1, <1>4, ChargeOK DEF RangeInv
<1>8. RrepOK(rrep')
  BY <1>4 DEF RangeInv, RrepOK, InReach
<1> QED
  BY <1>4, <1>5, <1>6, <1>7, <1>8
  DEF RangeInv, OwnOK, NotSelf, QueuesOK, LimitOK, own, queues, limit

-----------------------------------------------------------------------------
(* Route errors, lost links, timers and lost frames.                       *)
LEMMA RecvErrorRange ==
    ASSUME RangeInv, NEW m \in rerr, RecvError(m)
    PROVE  RangeInv'
<1> DEFINE n == m.to
           t == UpdateRouteToNeighbor(rt[n], m.from)
           D == m.dests \cap Via(t, m.from)
<1>1. /\ n \in Node /\ m.from \in Neighbours(n) /\ Neighbours(n) \subseteq Node
      /\ D \subseteq Node
  BY RangeSymmetric DEF RangeInv, RerrOK, InReach, RerrMessage
<1>2. Sound(t, Neighbours(n))
  BY <1>1, SoundUpdateRouteToNeighbor DEF RangeInv, TablesOK
<1>3. /\ rt' = [rt EXCEPT ![n] = Invalidate(t, D)]
      /\ Report(n, t, D, rerr \ {m}, {})
      /\ UNCHANGED <<own, nb, queues, rreq, rrep, ack, data, counters>>
  BY DEF RecvError
<1> HIDE DEF t, D
<1>4. TablesOK'
  BY <1>1, <1>2, <1>3, SoundInvalidate, TablesWrite DEF RangeInv
<1>5. /\ RerrOK(rerr') /\ NotSelf(loop)'
      /\ rerrCount' \in [Node -> 0..RerrRateLimit]
  <2>1. RerrOK(rerr \ {m})
    BY DEF RangeInv, RerrOK, InReach
  <2> QED BY <1>1, <1>2, <1>3, <2>1, ReportOK DEF RangeInv
<1> QED
  BY <1>3, <1>4, <1>5
  DEF RangeInv, OwnOK, LinksOK, NotSelf, QueuesOK, LimitOK, CountersOK, own,
      queues, limit, counters

(* Neighbors::Purge and ProcessTxError.                                    *)
LEMMA LinkFailureRange ==
    ASSUME RangeInv, NEW n \in Node, NEW x \in Node, LinkFailure(n, x)
    PROVE  RangeInv'
<1>1. Sound(rt[n], Neighbours(n))
  BY DEF RangeInv, TablesOK
<1>2. TablesOK'
  BY <1>1, SoundAfter, TablesWrite DEF RangeInv, LinkFailure
<1>3. LinksOK' /\ RerrOK(rerr') /\ NotSelf(loop)'
  BY <1>1, LoseNeighbourOK DEF RangeInv, LinkFailure
<1>4. CountersOK'
  BY ParameterAssumption DEF RangeInv, CountersOK, LinkFailure
<1> QED
  BY <1>2, <1>3, <1>4
  DEF LinkFailure, RangeInv, OwnOK, NotSelf, QueuesOK, LimitOK, own, queues,
      limit

(* The reset of m_rerrCount.                                               *)
LEMMA RerrRateLimitTimerExpireRange ==
    ASSUME RangeInv, NEW n \in Node, RerrRateLimitTimerExpire(n)
    PROVE  RangeInv'
BY ParameterAssumption
DEF RerrRateLimitTimerExpire, RangeInv, TablesOK, OwnOK, LinksOK, NotSelf,
    QueuesOK, LimitOK, CountersOK, tables, own, queues, limit, counters

(* RoutingTable::Purge keeps the next hop of what it invalidates.          *)
LEMMA ExpireRange ==
    ASSUME RangeInv, NEW n \in Node, NEW d \in Node, Expire(n, d)
    PROVE  RangeInv'
<1>1. TablesOK'
  <2>1. Sound(Expired(rt[n], d), Neighbours(n))
    BY SoundExpired DEF RangeInv, TablesOK
  <2> QED BY <2>1, TablesWrite DEF RangeInv, Expire
<1>2. CountersOK'
  BY ParameterAssumption DEF RangeInv, CountersOK, Expire
<1> QED
  BY <1>1, <1>2
  DEF Expire, RangeInv, OwnOK, LinksOK, NotSelf, QueuesOK, LimitOK, own,
      queues, limit

(* A lost frame only makes the sets in flight smaller.                     *)
LEMMA LoseRange ==
    ASSUME RangeInv, Lose
    PROVE  RangeInv'
<1>1. /\ RreqOK(rreq') /\ RrepOK(rrep') /\ RerrOK(rerr') /\ AckOK(ack')
      /\ DataOK(data')
  BY DEF Lose, RangeInv, RreqOK, RrepOK, RerrOK, AckOK, DataOK, InReach
<1> QED
  BY <1>1
  DEF Lose, RangeInv, TablesOK, OwnOK, LinksOK, NotSelf, QueuesOK, LimitOK,
      CountersOK, tables, own, queues, limit, counters

-----------------------------------------------------------------------------
(* Data packets.                                                           *)
LEMMA ForwardingRange ==
    ASSUME RangeInv, NEW m \in data, NEW x, Forwarding(m, x)
    PROVE  RangeInv'
<1> DEFINE n   == m.to
           t   == rt[n]
           g   == t[m.dst].nh
           new == Refreshed(t, m.src, g)
           q   == [m EXCEPT !.to = g, !.from = n]
<1>1. m \in DataMessage
  BY DEF RangeInv, DataOK
<1>2. n \in Node /\ m.dst \in Node /\ m.src \in Node /\ Neighbours(n) \subseteq Node
  BY <1>1, RangeSymmetric DEF DataMessage
<1>3. Sound(t, Neighbours(n))
  BY <1>2 DEF RangeInv, TablesOK
<1>4. g \in Node
  BY <1>2, <1>3 DEF Forwarding, Valid, Sound, InRange
<1>5. new \subseteq Node
  BY <1>2, <1>3, <1>4 DEF Refreshed, Sound, InRange, Entry
<1>6. /\ x \in Lost(n, new)
      /\ Charge(x)
      /\ rt' = [rt EXCEPT ![n] = After(t, x)]
      /\ LoseNeighbour(n, t, x, new, {})
      /\ data' = (data \ {m}) \cup {q}
      /\ UNCHANGED <<own, queues, rreq, rrep, ack>>
  BY DEF Forwarding
<1>7. q \in DataMessage
  BY <1>1, <1>4 DEF DataMessage
<1> HIDE DEF q, new, g, t
<1>8. TablesOK'
  BY <1>2, <1>3, <1>6, SoundAfter, TablesWrite DEF RangeInv
<1>9. LinksOK' /\ RerrOK(rerr') /\ NotSelf(loop)'
  BY <1>2, <1>3, <1>5, <1>6, LoseNeighbourOK DEF RangeInv
<1>10. CountersOK'
  BY <1>2, <1>6, ChargeOK DEF RangeInv
<1> QED
  BY <1>6, <1>7, <1>8, <1>9, <1>10
  DEF RangeInv, OwnOK, NotSelf, QueuesOK, LimitOK, DataOK, own, queues, limit

(* SendRerrWhenNoRouteToForward addresses neighbours only.                 *)
LEMMA NoRouteToForwardRange ==
    ASSUME RangeInv, NEW m \in data, NoRouteToForward(m)
    PROVE  RangeInv'
<1> DEFINE n == m.to
           back == IF Valid(rt[n], m.src) THEN {rt[n][m.src].nh}
                   ELSE Neighbours(n)
<1>1. n \in Node /\ m.src \in Node /\ m.dst \in Node
  BY DEF RangeInv, DataOK, DataMessage
<1>2. back \subseteq Neighbours(n)
  BY <1>1 DEF RangeInv, TablesOK, Sound, InRange, Valid
<1>3. RerrOK(rerr')
  <2> HIDE DEF back
  <2>1. ASSUME NEW y \in back
        PROVE  /\ [to |-> y, from |-> n, dests |-> {m.dst}] \in RerrMessage
               /\ n \in Neighbours(y)
    BY <1>1, <1>2, RangeSymmetric DEF RerrMessage
  <2>2. rerr' = rerr \/ rerr' = rerr \cup
          {[to |-> y, from |-> n, dests |-> {m.dst}] : y \in back}
    BY DEF NoRouteToForward, back
  <2> QED BY <2>1, <2>2 DEF RangeInv, RerrOK, InReach
<1>4. NotSelf(loop)'
  <2>1. \/ loop' = loop
        \/ loop' = [loop EXCEPT ![n] = @ \cup Unrouted(rt[n], back)]
    BY DEF NoRouteToForward
  <2> HIDE DEF back
  <2>2. CASE loop' = loop
    BY <2>2 DEF RangeInv, NotSelf
  <2> QED BY <1>1, <1>2, <2>1, <2>2, LoopGrows DEF RangeInv
<1> QED
  BY <1>3, <1>4
  DEF NoRouteToForward, RangeInv, TablesOK, OwnOK, LinksOK, NotSelf, QueuesOK,
      LimitOK, DataOK, CountersOK, tables, own, queues, limit, counters

(* A packet back at its source is removed and nothing else changes.        *)
LEMMA DropOwnPacketRange ==
    ASSUME RangeInv, NEW m \in data, DropOwnPacket(m)
    PROVE  RangeInv'
BY DEF DropOwnPacket, RangeInv, TablesOK, OwnOK, LinksOK, NotSelf, QueuesOK,
       LimitOK, DataOK, CountersOK, tables, own, queues, limit, counters

(* Local delivery refreshes neighbours and may lose one.                   *)
LEMMA DeliverRange ==
    ASSUME RangeInv, NEW m \in data, NEW x, Deliver(m, x)
    PROVE  RangeInv'
<1> DEFINE n == m.to
           back == IF Valid(rt[n], m.src) THEN {rt[n][m.src].nh} ELSE {}
<1>1. n \in Node /\ m.src \in Node /\ Neighbours(n) \subseteq Node
  BY RangeSymmetric DEF RangeInv, DataOK, DataMessage
<1>2. Sound(rt[n], Neighbours(n))
  BY <1>1 DEF RangeInv, TablesOK
<1>3. back \subseteq Node
  BY <1>1, <1>2 DEF Sound, InRange, Valid
<1>4. /\ x \in Lost(n, back)
      /\ Charge(x)
      /\ rt' = [rt EXCEPT ![n] = After(@, x)]
      /\ LoseNeighbour(n, rt[n], x, back, {})
      /\ data' = data \ {m}
      /\ UNCHANGED <<own, queues, rreq, rrep, ack>>
  BY DEF Deliver
<1> HIDE DEF back
<1>5. TablesOK'
  BY <1>1, <1>2, <1>4, SoundAfter, TablesWrite DEF RangeInv
<1>6. LinksOK' /\ RerrOK(rerr') /\ NotSelf(loop)'
  BY <1>1, <1>2, <1>3, <1>4, LoseNeighbourOK DEF RangeInv
<1>7. CountersOK'
  BY <1>1, <1>4, ChargeOK DEF RangeInv
<1> QED
  BY <1>4, <1>5, <1>6, <1>7
  DEF RangeInv, OwnOK, NotSelf, QueuesOK, LimitOK, DataOK, own, queues, limit

-----------------------------------------------------------------------------
(* Steps that change nothing.                                              *)
LEMMA StutterRange == RangeInv /\ UNCHANGED vars => RangeInv'
BY DEF vars, RangeInv, TablesOK, OwnOK, LinksOK, NotSelf, QueuesOK, LimitOK,
       CountersOK

(* Every step keeps the invariant.                                         *)
LEMMA NextRange == RangeInv /\ Next => RangeInv'
<1> SUFFICES ASSUME RangeInv, Next PROVE RangeInv'
  OBVIOUS
<1>1. CASE Originate
  BY <1>1, SendDataRange, DeferredRouteOutputRange, SendDeferredRequestRange,
     RouteRequestTimerExpireRange
  DEF Originate
<1>2. CASE RecvRequest
  BY <1>2, RecvDuplicateRequestRange, RecvRequestAsDestinationRange,
     RecvRequestAsIntermediateRange, RelayRequestRange
  DEF RecvRequest
<1>3. CASE RecvReply
  BY <1>3, RecvReplyAsOriginRange, RelayReplyRange, ProcessHelloRange
  DEF RecvReply
<1>4. CASE \E m \in ack : RecvReplyAck(m)
  BY <1>4, RecvReplyAckRange
<1>5. CASE \E m \in rerr : RecvError(m)
  BY <1>5, RecvErrorRange
<1>6. CASE RecvData
  BY <1>6, ForwardingRange, NoRouteToForwardRange, DropOwnPacketRange,
     DeliverRange
  DEF RecvData
<1>7. CASE Maintain
  BY <1>7, LinkFailureRange, ExpireRange, SendHelloRange,
     RreqRateLimitTimerExpireRange, RerrRateLimitTimerExpireRange
  DEF Maintain
<1>8. CASE Lose
  BY <1>8, LoseRange
<1> QED BY <1>1, <1>2, <1>3, <1>4, <1>5, <1>6, <1>7, <1>8 DEF Next

(* The invariant holds in every reachable state.                           *)
LEMMA RangeInvariant == Spec => []RangeInv
<1>1. RangeInv /\ [Next]_vars => RangeInv'
  BY NextRange, StutterRange
<1> QED BY <1>1, InitRange, PTL DEF Spec

(* Every variable keeps its type in every network, whatever its size, its  *)
(* topology and its parameters; in particular m_rreqCount and m_rerrCount  *)
(* never pass the rate limits they are compared with by ==.                *)
THEOREM TypeCorrect == Spec => []TypeOK
BY RangeInvariant, RangeInvImplies, PTL

(* In every network, whatever messages are lost or reordered and whenever  *)
(* links fail and entries expire, routes and precursors stay in range.     *)
THEOREM RoutesInRange == Spec => []NextHopInRange
BY RangeInvariant, RangeInvImplies, PTL

-----------------------------------------------------------------------------
(* Lost neighbours.  The table a handler has reached when it loses one has *)
(* an entry for every node the table had at the start.                     *)
Keeps(t, u) == \A d \in Node : Has(t, d) => Has(u, d)

(* Writing an entry removes none.                                          *)
LEMMA KeepsWrite ==
    ASSUME NEW t \in Table, NEW d \in Node, NEW e, e.flag # "NONE"
    PROVE  Keeps(t, [t EXCEPT ![d] = e])
BY DEF Keeps, Has, Table

(* UpdateRouteToNeighbor.                                                  *)
LEMMA KeepsUpdateRouteToNeighbor ==
    ASSUME NEW t \in Table, NEW x \in Node
    PROVE  Keeps(t, UpdateRouteToNeighbor(t, x))
<1> DEFINE e == Route(FALSE, 0, 1, x)
<1>1. e.flag # "NONE"
  BY RouteFlag
<1>2. \/ UpdateRouteToNeighbor(t, x) = [t EXCEPT ![x] = e]
      \/ UpdateRouteToNeighbor(t, x) = t
  BY DEF UpdateRouteToNeighbor
<1>3. Keeps(t, t)
  BY DEF Keeps
<1> HIDE DEF e
<1> QED BY <1>1, <1>2, <1>3, KeepsWrite

(* The reverse route.                                                      *)
LEMMA KeepsReverseRoute ==
    ASSUME NEW t \in Table, NEW o \in Node, NEW oseq, NEW hop, NEW from
    PROVE  Keeps(t, ReverseRoute(t, o, oseq, hop, from))
<1> DEFINE e   == t[o]
           seq == IF e.seq < oseq \/ ~e.vseq THEN oseq ELSE e.seq
           r   == [e EXCEPT !.seq = seq, !.vseq = TRUE, !.nh = from,
                            !.hop = hop]
           w   == IF Has(t, o) THEN r ELSE Route(TRUE, oseq, hop, from)
<1>1. e \in Entry
  BY DEF Table
<1>2. ReverseRoute(t, o, oseq, hop, from) = [t EXCEPT ![o] = w]
  BY DEF ReverseRoute, Reversed
<1> HIDE DEF e, seq
<1>3. r.flag = e.flag
  BY <1>1 DEF Entry
<1> HIDE DEF r
<1>4. w.flag # "NONE"
  BY <1>3, RouteFlag DEF Has, e
<1> HIDE DEF w
<1> QED BY <1>2, <1>4, KeepsWrite

(* The entry of a node that has just been heard.                           *)
LEMMA KeepsHeard ==
    ASSUME NEW t \in Table, NEW x \in Node, NEW seq
    PROVE  Keeps(t, PreviousHop(t, x, seq)) /\ Keeps(t, HelloRoute(t, x, seq))
<1> DEFINE v == IF Has(t, x) THEN Neighbour(t[x], FALSE, seq, x)
                ELSE Route(FALSE, seq, 1, x)
           w == IF Has(t, x) THEN Neighbour(t[x], TRUE, seq, x)
                ELSE Route(TRUE, seq, 1, x)
<1>1. t[x] \in Entry
  BY DEF Table
<1>2. v.flag # "NONE" /\ w.flag # "NONE"
  BY <1>1, NeighbourFlag, RouteFlag
<1>3. /\ PreviousHop(t, x, seq) = [t EXCEPT ![x] = v]
      /\ HelloRoute(t, x, seq) = [t EXCEPT ![x] = w]
  BY DEF PreviousHop, HelloRoute
<1> HIDE DEF v, w
<1>4. Keeps(t, [t EXCEPT ![x] = v])
  BY <1>2, KeepsWrite
<1>5. Keeps(t, [t EXCEPT ![x] = w])
  BY <1>2, KeepsWrite
<1> QED BY <1>3, <1>4, <1>5

(* The three writes of RecvRequest.                                        *)
LEMMA KeepsRequestTable ==
    ASSUME RangeInv, NEW m \in rreq
    PROVE  m.to \in Node /\ Keeps(rt[m.to], RequestTable(m))
<1> DEFINE N  == Neighbours(m.to)
           t1 == UpdateRouteToNeighbor(rt[m.to], m.from)
           t2 == ReverseRoute(t1, m.orig, m.oseq, m.hop + 1, m.from)
<1>1. /\ m.to \in Node /\ m.from \in N /\ m.orig \in Node
      /\ m.oseq \in Nat /\ m.hop + 1 \in Nat /\ N \subseteq Node
  BY RangeSymmetric DEF RangeInv, RreqOK, InReach, RreqMessage
<1>2. Sound(t1, N) /\ Keeps(rt[m.to], t1)
  BY <1>1, SoundUpdateRouteToNeighbor, KeepsUpdateRouteToNeighbor
  DEF RangeInv, TablesOK
<1>3. RequestTable(m) = PreviousHop(t2, m.from, m.oseq)
  BY DEF RequestTable
<1> HIDE DEF t1
<1>4. Sound(t2, N)
  <2> HIDE DEF N
  <2> QED BY <1>1, <1>2, SoundReverseRoute
<1>5. Keeps(t1, t2)
  BY <1>1, <1>2, KeepsReverseRoute DEF Sound
<1> HIDE DEF t2
<1>6. Keeps(t2, PreviousHop(t2, m.from, m.oseq))
  BY <1>1, <1>4, KeepsHeard DEF Sound
<1> QED BY <1>1, <1>2, <1>3, <1>5, <1>6 DEF Keeps

(* What LostNeighbourUnused says of a step.                                *)
LossReported ==
    \A n, x, d \in Node :
        x \in nb[n] \ nb'[n] /\ Has(rt[n], x)
        => ~(Valid(rt'[n], d) /\ rt'[n][d].nh = x)

(* Two tables with the same flags and next hops.                           *)
SameRoutes(t, u) == \A d \in Node : u[d].flag = t[d].flag /\ u[d].nh = t[d].nh

(* A handler that loses y once its table is t, and after that writes no    *)
(* flag and no next hop.                                                   *)
LEMMA LossIsReported ==
    ASSUME RangeInv, NEW n \in Node, NEW t \in Table, Keeps(rt[n], t),
           NEW y, NEW new, NEW used, LoseNeighbour(n, t, y, new, used),
           NEW u, rt' = [rt EXCEPT ![n] = u],
           SameRoutes(After(t, y), u)
    PROVE  LossReported
<1> SUFFICES ASSUME NEW k \in Node, NEW x \in Node, NEW d \in Node,
                    x \in nb[k] \ nb'[k], Has(rt[k], x),
                    Valid(rt'[k], d), rt'[k][d].nh = x
             PROVE  FALSE
  BY DEF LossReported
<1>1. /\ nb' = [nb EXCEPT ![n] = (@ \cup new) \ {y}]
      /\ nb \in [Node -> SUBSET Node] /\ rt \in [Node -> Table]
  BY DEF LoseNeighbour, RangeInv, LinksOK, TablesOK
<1>2. k = n /\ x = y
  BY <1>1
<1>3. Has(t, x)
  BY <1>2 DEF Keeps
<1>4. Valid(After(t, x), d) /\ After(t, x)[d].nh = x
  BY <1>1, <1>2 DEF SameRoutes, Valid
<1>5. t[d].nh = x /\ Valid(t, d)
  BY <1>4, InvalidateKeeps DEF After, Valid
<1>6. d \in Broken(t, x)
  BY <1>3, <1>5 DEF Broken, Via, Has, Valid
<1>7. After(t, x)[d] = [t[d] EXCEPT !.flag = "INVALID", !.cnt = 0]
  BY <1>5, <1>6 DEF After, Invalidate
<1>8. t[d] \in Entry
  BY DEF Table
<1>9. After(t, x)[d].flag = "INVALID"
  <2> DEFINE e == t[d]
  <2>1. [e EXCEPT !.flag = "INVALID", !.cnt = 0].flag = "INVALID"
    BY <1>8 DEF Entry
  <2> QED BY <1>7, <2>1
<1> QED BY <1>4, <1>9 DEF Valid

(* InsertPrecursor writes neither.                                         *)
LEMMA PrecursorKeeps ==
    ASSUME NEW t \in Table, NEW d, NEW p
    PROVE  /\ AddPrecursor(t, d, p) \in Table
           /\ SameRoutes(t, AddPrecursor(t, d, p))
<1> DEFINE e == [t[d] EXCEPT !.prec = @ \cup {p}]
<1>1. AddPrecursor(t, d, p) \in Table
  BY PrecursorTable
<1>2. CASE AddPrecursor(t, d, p) = t
  BY <1>1, <1>2 DEF SameRoutes
<1>3. CASE d \in Node /\ AddPrecursor(t, d, p) = [t EXCEPT ![d] = e]
  <2>1. t[d] \in Entry
    BY <1>3 DEF Table
  <2>2. e.flag = t[d].flag /\ e.nh = t[d].nh
    BY <2>1 DEF Entry
  <2> HIDE DEF e
  <2> QED BY <1>1, <1>3, <2>2 DEF Table, SameRoutes
<1> QED BY <1>2, <1>3 DEF AddPrecursor

(* No step loses a neighbour and leaves a route through it.                *)
LEMMA NextReports == RangeInv /\ Next => LossReported
<1> SUFFICES ASSUME RangeInv, Next PROVE LossReported
  OBVIOUS
<1>1. ASSUME nb' = nb
      PROVE  LossReported
  BY <1>1 DEF LossReported
<1>2. CASE Originate
  BY <1>1, <1>2
  DEF Originate, SendData, DeferredRouteOutput, SendDeferredRequest,
      RouteRequestTimerExpire, tables
<1>3. CASE RecvRequest
  <2>1. PICK m \in rreq, x \in Node \cup {NoNode} :
          \/ RecvDuplicateRequest(m) \/ RecvRequestAsDestination(m, x)
          \/ RecvRequestAsIntermediate(m, x) \/ RelayRequest(m, x)
    BY <1>3 DEF RecvRequest
  <2> DEFINE t == RequestTable(m)
  <2>2. /\ m.to \in Node /\ t \in Table /\ Keeps(rt[m.to], t)
        /\ After(t, x) \in Table
    BY KeepsRequestTable, RequestTableSound, AnswerTableSound DEF Sound
  <2>3. CASE RecvDuplicateRequest(m)
    BY <1>1, <2>3 DEF RecvDuplicateRequest
  <2>4. CASE RecvRequestAsDestination(m, x) \/ RelayRequest(m, x)
    <3>1. /\ rt' = [rt EXCEPT ![m.to] = After(t, x)]
          /\ \E used : LoseNeighbour(m.to, t, x, {m.from}, used)
      BY <2>4 DEF RecvRequestAsDestination, RelayRequest
    <3> HIDE DEF t
    <3>2. SameRoutes(After(t, x), After(t, x))
      BY DEF SameRoutes
    <3> QED BY <2>2, <3>1, <3>2, LossIsReported
  <2>5. CASE RecvRequestAsIntermediate(m, x)
    <3> DEFINE a == After(t, x)
               b == AddPrecursor(a, m.dst, a[m.orig].nh)
               u == AddPrecursor(b, m.orig, a[m.dst].nh)
    <3>1. /\ rt' = [rt EXCEPT ![m.to] = u]
          /\ \E used : LoseNeighbour(m.to, t, x, {m.from}, used)
      BY <2>5 DEF RecvRequestAsIntermediate
    <3> HIDE DEF t
    <3>2. a \in Table
      BY <2>2
    <3>3. a = After(t, x)
      OBVIOUS
    <3> HIDE DEF a
    <3>4. b \in Table
      BY <3>2, PrecursorKeeps
    <3>5. SameRoutes(a, b)
      BY <3>2, PrecursorKeeps
    <3> HIDE DEF b
    <3>6. SameRoutes(b, u)
      BY <3>4, PrecursorKeeps
    <3> HIDE DEF u, t
    <3>7. SameRoutes(After(t, x), u)
      BY <3>3, <3>5, <3>6 DEF SameRoutes
    <3>8. PICK used : LoseNeighbour(m.to, t, x, {m.from}, used)
      BY <3>1
    <3> QED BY <2>2, <3>1, <3>7, <3>8, LossIsReported
  <2> QED BY <2>1, <2>3, <2>4, <2>5
<1>4. CASE RecvReply
  <2>1. ASSUME NEW m \in rrep, NEW x, ProcessHello(m, x)
        PROVE  LossReported
    <3> DEFINE t1 == UpdateRouteToNeighbor(rt[m.to], m.from)
               t  == HelloRoute(t1, m.dst, m.dseq)
    <3>1. /\ m.to \in Node /\ m.from \in Neighbours(m.to) /\ m.dst = m.from
          /\ m.dseq \in Nat /\ Neighbours(m.to) \subseteq Node
      BY <2>1, RangeSymmetric
      DEF RangeInv, RrepOK, InReach, RrepMessage, ProcessHello
    <3>2. /\ rt' = [rt EXCEPT ![m.to] = After(t, x)]
          /\ \E new : LoseNeighbour(m.to, t, x, new, {})
      BY <2>1 DEF ProcessHello
    <3>3. Sound(t1, Neighbours(m.to)) /\ Keeps(rt[m.to], t1)
      BY <3>1, SoundUpdateRouteToNeighbor, KeepsUpdateRouteToNeighbor
      DEF RangeInv, TablesOK
    <3> HIDE DEF t1
    <3>4. Sound(t, Neighbours(m.to)) /\ Keeps(t1, t)
      BY <3>1, <3>3, SoundHelloRoute, KeepsHeard DEF Sound
    <3> HIDE DEF t
    <3>5. t \in Table /\ Keeps(rt[m.to], t)
      BY <3>3, <3>4 DEF Sound, Keeps
    <3>6. SameRoutes(After(t, x), After(t, x))
      BY DEF SameRoutes
    <3> QED BY <3>1, <3>2, <3>5, <3>6, LossIsReported
  <2> QED BY <1>1, <1>4, <2>1 DEF RecvReply, RecvReplyAsOrigin, RelayReply
<1>5. CASE (\E m \in ack : RecvReplyAck(m)) \/ (\E m \in rerr : RecvError(m))
  BY <1>1, <1>5 DEF RecvReplyAck, RecvError
<1>6. ASSUME NEW n \in Node, NEW x, NEW new,
             rt' = [rt EXCEPT ![n] = After(rt[n], x)],
             LoseNeighbour(n, rt[n], x, new, {})
      PROVE  LossReported
  <2>1. rt[n] \in Table /\ Keeps(rt[n], rt[n])
    BY DEF RangeInv, TablesOK, Keeps
  <2>2. SameRoutes(After(rt[n], x), After(rt[n], x))
    BY DEF SameRoutes
  <2> QED BY <1>6, <2>1, <2>2, LossIsReported
<1>7. CASE RecvData
  <2>1. PICK m \in data, x \in Node \cup {NoNode} :
          \/ Forwarding(m, x) \/ NoRouteToForward(m)
          \/ DropOwnPacket(m) \/ Deliver(m, x)
    BY <1>7 DEF RecvData
  <2>2. m.to \in Node
    BY DEF RangeInv, DataOK, DataMessage
  <2>3. CASE Forwarding(m, x) \/ Deliver(m, x)
    BY <1>6, <2>2, <2>3 DEF Forwarding, Deliver
  <2>4. CASE NoRouteToForward(m) \/ DropOwnPacket(m)
    BY <1>1, <2>4 DEF NoRouteToForward, DropOwnPacket, tables
  <2> QED BY <2>1, <2>3, <2>4
<1>8. CASE Maintain
  <2>1. ASSUME NEW n \in Node, NEW x \in Node, LinkFailure(n, x)
        PROVE  LossReported
    BY <1>6, <2>1 DEF LinkFailure
  <2> QED
    BY <1>1, <1>8, <2>1
    DEF Maintain, Expire, SendHello, RreqRateLimitTimerExpire,
        RerrRateLimitTimerExpire, tables
<1>9. CASE Lose
  BY <1>1, <1>9 DEF Lose, tables
<1> QED BY <1>2, <1>3, <1>4, <1>5, <1>7, <1>8, <1>9 DEF Next

(* A handler that loses a neighbour half-way leaves no VALID route through *)
(* it, in any network: what it has read before is read again.              *)
THEOREM NoRouteThroughTheLost == Spec => LostNeighbourUnused
<1>1. RangeInv /\ [Next]_vars =>
        [\A n, x, d \in Node :
            x \in nb[n] \ nb'[n] /\ Has(rt[n], x)
            => ~(Valid(rt'[n], d) /\ rt'[n][d].nh = x)]_vars
  BY NextReports DEF LossReported
<1> QED BY <1>1, RangeInvariant, PTL DEF Spec, LostNeighbourUnused
=============================================================================
