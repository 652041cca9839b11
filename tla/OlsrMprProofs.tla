--------------------------- MODULE OlsrMprProofs ---------------------------
(***************************************************************************)
(* How an OLSR node chooses its multipoint relays: proofs about the        *)
(* operators of OlsrMpr, for every view of a finite network.               *)
(***************************************************************************)
EXTENDS OlsrMpr, FiniteSetTheorems, TLAPS

(* A set of numbers has a least element.                                   *)
LEMMA Minimum ==
    ASSUME NEW S \in SUBSET Nat, S # {}
    PROVE  \E m \in S : \A k \in S : m <= k
<1>1. PICK m \in S : \A k \in S : ~(<<k, m>> \in OpToRel(<, Nat))
  BY NatLessThanWellFounded, WFMin
<1>2. \A k \in S : ~(k < m)
  BY <1>1 DEF OpToRel
<1> QED BY <1>2

(* A round of step 4 covers something.                                     *)
LEMMA UncoveredShrinks ==
    ASSUME NEW v, NEW left \in SUBSET (Node \X Node), IsFiniteSet(left),
           NEW y \in Preferred(v, left)
    PROVE  /\ y \in v.nbr /\ \E t \in left : t[1] = y
           /\ Uncovered(left, {y}) \in SUBSET left
           /\ IsFiniteSet(Uncovered(left, {y}))
           /\ Cardinality(Uncovered(left, {y})) \in Nat
           /\ Cardinality(Uncovered(left, {y})) < Cardinality(left)
<1> DEFINE covered == {t \in left : t[1] = y}
<1>1. y \in v.nbr /\ Cardinality(covered) > 0
  BY DEF Preferred, Reachability
<1>2. covered # {}
  <2> HIDE DEF covered
  <2> QED BY <1>1, FS_EmptySet
<1>3. PICK t \in left : t[1] = y
  BY <1>2
<1>4. t = <<y, t[2]>>
  BY <1>3
<1>5. Uncovered(left, {y}) \in SUBSET left /\ t \notin Uncovered(left, {y})
  BY <1>4 DEF Uncovered
<1>6. /\ IsFiniteSet(Uncovered(left, {y}))
      /\ Cardinality(Uncovered(left, {y})) <= Cardinality(left)
      /\ Cardinality(Uncovered(left, {y})) # Cardinality(left)
  BY <1>5, FS_Subset
<1>7. Cardinality(left) \in Nat /\ Cardinality(Uncovered(left, {y})) \in Nat
  BY <1>6, FS_CardinalityType
<1> QED BY <1>1, <1>3, <1>5, <1>6, <1>7

(* One round of step 4, given the rest of it.                              *)
Round(v, rest, left) ==
    IF left = {} THEN {{}}
    ELSE UNION {{{y} \cup M : M \in rest[Uncovered(left, {y})]} : y \in Preferred(v, left)}

(* What a round returns.                                                   *)
OneMore(v, rest, left, M) ==
    \E y \in Preferred(v, left) : \E L \in rest[Uncovered(left, {y})] : M = {y} \cup L

LEMMA RoundMembers ==
    ASSUME NEW v, NEW rest, NEW left, left # {}, NEW M
    PROVE  M \in Round(v, rest, left) <=> OneMore(v, rest, left, M)
<1> DEFINE P == Preferred(v, left)
           U(y) == Uncovered(left, {y})
<1>1. Round(v, rest, left) = UNION {{{y} \cup L : L \in rest[U(y)]} : y \in P}
  BY DEF Round
<1> HIDE DEF P, U
<1>2. M \in Round(v, rest, left) <=> \E y \in P : M \in {{y} \cup L : L \in rest[U(y)]}
  BY <1>1
<1>3. \A y \in P : M \in {{y} \cup L : L \in rest[U(y)]}
                   <=> \E L \in rest[U(y)] : M = {y} \cup L
  OBVIOUS
<1>4. M \in Round(v, rest, left) <=> \E y \in P : \E L \in rest[U(y)] : M = {y} \cup L
  BY <1>2, <1>3
<1> QED BY <1>4 DEF P, U, OneMore

(* The round looks at the rest for smaller sets only.                      *)
LEMMA RoundDepends ==
    ASSUME NEW v, NEW left, NEW f, NEW g,
           \A y \in Preferred(v, left) :
              f[Uncovered(left, {y})] = g[Uncovered(left, {y})]
    PROVE  Round(v, f, left) = Round(v, g, left)
<1>1. ASSUME left # {}, NEW M
      PROVE  M \in Round(v, f, left) <=> M \in Round(v, g, left)
  <2>1. OneMore(v, f, left, M) <=> OneMore(v, g, left, M)
    BY DEF OneMore
  <2> QED BY <1>1, <2>1, RoundMembers
<1>2. CASE left = {}
  BY <1>2 DEF Round
<1> QED BY <1>1, <1>2

(* The loop of step 4 is well defined: it ends from every set of tuples.   *)
LEMMA RelaysExist ==
    ASSUME NEW v, NEW start \in SUBSET (Node \X Node), IsFiniteSet(start)
    PROVE  \E f : f = [left \in SUBSET start |-> Round(v, f, left)]
<1> DEFINE Sized(n) == {left \in SUBSET start : Cardinality(left) <= n}
           Defined(n) == \E f : f = [left \in Sized(n) |-> Round(v, f, left)]
           Bad == {n \in Nat : ~Defined(n)}
<1>1. ASSUME NEW left \in SUBSET start
      PROVE  IsFiniteSet(left) /\ Cardinality(left) \in Nat
             /\ Cardinality(left) <= Cardinality(start)
  BY FS_Subset, FS_CardinalityType
<1>2. ASSUME NEW left \in SUBSET start, NEW y \in Preferred(v, left)
      PROVE  /\ Uncovered(left, {y}) \in SUBSET start
             /\ Cardinality(Uncovered(left, {y})) \in Nat
             /\ Cardinality(Uncovered(left, {y})) < Cardinality(left)
  <2>1. left \in SUBSET (Node \X Node) /\ IsFiniteSet(left)
    BY <1>1
  <2> QED BY <2>1, UncoveredShrinks
<1>3. Defined(0)
  <2> DEFINE f == [left \in Sized(0) |-> {{}}]
  <2>1. ASSUME NEW left \in Sized(0) PROVE left = {}
    <3>1. IsFiniteSet(left) /\ Cardinality(left) = 0
      BY <1>1
    <3> QED BY <3>1, FS_EmptySet
  <2>2. \A left \in Sized(0) : Round(v, f, left) = {{}}
    BY <2>1 DEF Round
  <2>3. f = [left \in Sized(0) |-> Round(v, f, left)]
    BY <2>2
  <2> QED BY <2>3
<1>4. ASSUME NEW n \in Nat, Defined(n) PROVE Defined(n + 1)
  <2>1. PICK f : f = [left \in Sized(n) |-> Round(v, f, left)]
    BY <1>4
  <2> DEFINE g == [left \in Sized(n + 1) |->
                     IF left \in Sized(n) THEN f[left] ELSE Round(v, f, left)]
  <2>2. ASSUME NEW left \in Sized(n + 1)
        PROVE  g[left] = Round(v, f, left) /\ Round(v, f, left) = Round(v, g, left)
    <3>1. ASSUME NEW y \in Preferred(v, left)
          PROVE  f[Uncovered(left, {y})] = g[Uncovered(left, {y})]
      <4>1. /\ Uncovered(left, {y}) \in SUBSET start
            /\ Cardinality(Uncovered(left, {y})) \in Nat
            /\ Cardinality(Uncovered(left, {y})) < Cardinality(left)
            /\ Cardinality(left) \in Nat /\ Cardinality(left) <= n + 1
        BY <1>1, <1>2
      <4>2. Uncovered(left, {y}) \in Sized(n) /\ Uncovered(left, {y}) \in Sized(n + 1)
        <5>1. Cardinality(Uncovered(left, {y})) <= n
          BY <4>1
        <5>2. Cardinality(Uncovered(left, {y})) <= n + 1
          BY <4>1
        <5> QED BY <4>1, <5>1, <5>2
      <4> QED BY <4>2
    <3>2. Round(v, f, left) = Round(v, g, left)
      <4> HIDE DEF g
      <4> QED BY <3>1, RoundDepends
    <3>3. left \in Sized(n) => f[left] = Round(v, f, left)
      <4> HIDE DEF Sized
      <4> QED BY <2>1
    <3> QED BY <3>2, <3>3
  <2>3. g = [left \in Sized(n + 1) |-> Round(v, g, left)]
    <3>1. \A left \in Sized(n + 1) : g[left] = Round(v, g, left)
      BY <2>2
    <3>2. g = [left \in Sized(n + 1) |-> g[left]]
      OBVIOUS
    <3> HIDE DEF g, Sized
    <3> QED BY <3>1, <3>2
  <2> QED BY <2>3
<1>5. ASSUME NEW n \in Bad PROVE FALSE
  <2>1. PICK m \in Bad : \A k \in Bad : ~(<<k, m>> \in OpToRel(<, Nat))
    <3>1. Bad \subseteq Nat /\ Bad # {}
      BY <1>5
    <3> HIDE DEF Bad
    <3> QED BY <3>1, NatLessThanWellFounded, WFMin
  <2>2. m \in Nat /\ ~Defined(m) /\ \A k \in Bad : ~(k < m)
    BY <2>1 DEF OpToRel
  <2>3. m # 0
    BY <1>3, <2>2
  <2>4. m - 1 \in Nat /\ m - 1 < m /\ (m - 1) + 1 = m
    BY <2>2, <2>3
  <2>5. Defined(m - 1)
    BY <2>2, <2>4
  <2> HIDE DEF Defined
  <2>6. Defined((m - 1) + 1)
    BY <1>4, <2>4, <2>5
  <2> QED BY <2>2, <2>4, <2>6
<1>6. Cardinality(start) \in Nat /\ Sized(Cardinality(start)) = SUBSET start
  BY <1>1, FS_CardinalityType
<1>7. Defined(Cardinality(start))
  BY <1>5, <1>6
<1> QED BY <1>6, <1>7

(* So every value of FurtherRelays is one more round.                            *)
LEMMA RelaysRound ==
    ASSUME NEW v, NEW start \in SUBSET (Node \X Node), IsFiniteSet(start),
           NEW left \in SUBSET start
    PROVE  FurtherRelays(v, start)[left] = Round(v, FurtherRelays(v, start), left)
<1> DEFINE f == CHOOSE f : f = [l \in SUBSET start |-> Round(v, f, l)]
<1>1. f = [l \in SUBSET start |-> Round(v, f, l)]
  BY RelaysExist
<1>2. FurtherRelays(v, start) = f
  BY DEF FurtherRelays, Round
<1> HIDE DEF f
<1> QED BY <1>1, <1>2

(* What step 4 adds: neighbours that cover something, and enough of them.  *)
Suffices(left, M) ==
    /\ \A y \in M : \E t \in left : t[1] = y
    /\ \A t \in left : \E y \in M : <<y, t[2]>> \in left

LEMMA FurtherRelaysSuffice ==
    ASSUME NEW v, NEW start \in SUBSET (Node \X Node), IsFiniteSet(start),
           NEW left \in SUBSET start, NEW M \in FurtherRelays(v, start)[left]
    PROVE  Suffices(left, M)
<1> DEFINE F == FurtherRelays(v, start)
           Sound(l) == \A K \in F[l] : Suffices(l, K)
           Bad == {n \in Nat : \E l \in SUBSET start : Cardinality(l) = n /\ ~Sound(l)}
<1>1. ASSUME NEW n \in Bad PROVE FALSE
  <2>1. PICK m \in Bad : \A k \in Bad : ~(<<k, m>> \in OpToRel(<, Nat))
    <3>1. Bad \subseteq Nat /\ Bad # {}
      BY <1>1
    <3> HIDE DEF Bad
    <3> QED BY <3>1, NatLessThanWellFounded, WFMin
  <2>2. \A k \in Bad : ~(k < m)
    BY <2>1 DEF OpToRel
  <2>3. PICK l \in SUBSET start : Cardinality(l) = m /\ ~Sound(l)
    OBVIOUS
  <2>4. IsFiniteSet(l) /\ l \in SUBSET (Node \X Node)
    BY FS_Subset
  <2>5. PICK K \in F[l] : ~Suffices(l, K)
    BY <2>3
  <2>6. F[l] = Round(v, F, l)
    BY RelaysRound
  <2> HIDE DEF F
  <2>7. CASE l = {}
    <3>1. K = {}
      BY <2>5, <2>6, <2>7 DEF Round
    <3> QED BY <2>5, <2>7, <3>1 DEF Suffices
  <2>8. CASE l # {}
    <3>1. PICK y \in Preferred(v, l) :
            \E L \in F[Uncovered(l, {y})] : K = {y} \cup L
      <4>1. OneMore(v, F, l, K)
        BY <2>5, <2>6, <2>8, RoundMembers
      <4> QED BY <4>1 DEF OneMore
    <3>2. PICK L \in F[Uncovered(l, {y})] : K = {y} \cup L
      BY <3>1
    <3>3. /\ \E t \in l : t[1] = y
          /\ Uncovered(l, {y}) \in SUBSET l
          /\ Cardinality(Uncovered(l, {y})) \in Nat
          /\ Cardinality(Uncovered(l, {y})) < Cardinality(l)
      BY <2>4, UncoveredShrinks
    <3>4. Cardinality(Uncovered(l, {y})) \notin Bad
      <4> HIDE DEF Bad
      <4> QED BY <2>2, <2>3, <3>3
    <3>5. Uncovered(l, {y}) \in SUBSET start
      BY <3>3
    <3>6. Suffices(Uncovered(l, {y}), L)
      <4> HIDE DEF F
      <4> QED BY <3>2, <3>3, <3>4, <3>5
    <3>7. \A x \in K : \E t \in l : t[1] = x
      BY <3>2, <3>3, <3>6 DEF Suffices
    <3>8. ASSUME NEW t \in l PROVE \E x \in K : <<x, t[2]>> \in l
      <4>1. CASE t \in Uncovered(l, {y})
        BY <3>2, <3>3, <3>6, <4>1 DEF Suffices
      <4>2. CASE t \notin Uncovered(l, {y})
        BY <3>2, <4>2 DEF Uncovered
      <4> QED BY <4>1, <4>2
    <3> QED BY <2>5, <3>7, <3>8 DEF Suffices
  <2> QED BY <2>7, <2>8
<1>2. IsFiniteSet(left) /\ Cardinality(left) \in Nat
  BY FS_Subset, FS_CardinalityType
<1>3. Sound(left)
  <2> HIDE DEF Sound
  <2> QED BY <1>1, <1>2
<1> QED BY <1>3

(* MprComputation, whichever way its ties fall: the relays are willing     *)
(* neighbours, and every strict 2-hop neighbour is next to one of them.    *)
THEOREM RelaysOfAnyView ==
    ASSUME NEW v, v.two \subseteq Node \X Node, IsFiniteSet(v.two),
           NEW M \in MprSets(v)
    PROVE  /\ \A y \in M : y \in v.nbr /\ v.will[y] # NEVER
           /\ \A t \in StrictTwoHops(v) :
                 \E y \in M : <<y, t[2]>> \in StrictTwoHops(v)
<1> DEFINE all   == StrictTwoHops(v)
           left1 == Uncovered(all, AlwaysWilling(v))
           left2 == Uncovered(left1, OnlyProviders(left1))
<1>1. all \subseteq v.two /\ left1 \subseteq all /\ left2 \subseteq left1
  BY DEF StrictTwoHops, Uncovered
<1>2. left2 \in SUBSET (Node \X Node) /\ IsFiniteSet(left2)
  BY <1>1, FS_Subset
<1>3. PICK K \in FurtherRelays(v, left2)[left2] :
        M = AlwaysWilling(v) \cup OnlyProviders(left1) \cup K
  BY DEF MprSets
<1>4. Suffices(left2, K)
  <2> HIDE DEF left2
  <2> QED BY <1>2, <1>3, FurtherRelaysSuffice
<1>5. ASSUME NEW t \in all PROVE t[1] \in v.nbr /\ v.will[t[1]] # NEVER
  BY DEF StrictTwoHops
<1>6. ASSUME NEW y \in M PROVE y \in v.nbr /\ v.will[y] # NEVER
  <2>1. CASE y \in AlwaysWilling(v)
    BY <2>1 DEF AlwaysWilling, ALWAYS, NEVER
  <2>2. CASE y \in OnlyProviders(left1)
    <3>1. \E t \in left1 : t[1] = y
      BY <2>2 DEF OnlyProviders
    <3> HIDE DEF all, left1
    <3> QED BY <1>1, <1>5, <3>1
  <2>3. CASE y \in K
    <3>1. \E t \in left2 : t[1] = y
      BY <1>4, <2>3 DEF Suffices
    <3> HIDE DEF all, left1, left2
    <3> QED BY <1>1, <1>5, <3>1
  <2> QED BY <1>3, <2>1, <2>2, <2>3
<1>7. ASSUME NEW t \in all PROVE \E y \in M : <<y, t[2]>> \in all
  <2>1. CASE t \notin left1
    <3>1. \E y \in AlwaysWilling(v) : <<y, t[2]>> \in all
      BY <2>1 DEF Uncovered
    <3> QED BY <1>3, <3>1
  <2>2. CASE t \in left1 \ left2
    <3>1. \E y \in OnlyProviders(left1) : <<y, t[2]>> \in left1
      BY <2>2 DEF Uncovered
    <3> QED BY <1>1, <1>3, <3>1
  <2>3. CASE t \in left2
    <3>1. \E y \in K : <<y, t[2]>> \in left2
      BY <1>4, <2>3 DEF Suffices
    <3> QED BY <1>1, <1>3, <3>1
  <2> QED BY <2>1, <2>2, <2>3
<1> QED BY <1>6, <1>7

-----------------------------------------------------------------------------
(* Step 4 never waits for a candidate that does not exist.                 *)

(* A view of the types MprComputation reads, with finitely many tuples.    *)
Sensible(v) == /\ v.nbr \subseteq Node /\ v.will \in [Node -> Willingness]
               /\ v.two \subseteq Node \X Node /\ IsFiniteSet(v.two)

LEMMA SomeonePreferred ==
    ASSUME NEW v, Sensible(v), NEW left, left # {}, left \subseteq v.two,
           \A t \in left : t[1] \in v.nbr
    PROVE  Preferred(v, left) # {}
<1> DEFINE useful == {y \in v.nbr : Reachability(left, y) > 0}
           c == Cardinality(left)
<1>1. IsFiniteSet(left) /\ c \in Nat
  BY FS_Subset, FS_CardinalityType DEF Sensible
<1>2. ASSUME NEW y \in v.nbr
      PROVE  /\ Reachability(left, y) \in Nat /\ Reachability(left, y) <= c
             /\ v.will[y] \in 0 .. 7
  <2> DEFINE some == {t \in left : t[1] = y}
  <2>1. some \in SUBSET left
    OBVIOUS
  <2> HIDE DEF some
  <2>2. Cardinality(some) \in Nat /\ Cardinality(some) <= c
    BY <1>1, <2>1, FS_Subset, FS_CardinalityType
  <2>3. v.will[y] \in 0 .. 7
    BY DEF Sensible, Willingness, NEVER, ALWAYS
  <2> QED BY <2>2, <2>3 DEF Reachability, some
<1>3. useful # {}
  <2>1. PICK t \in left : TRUE
    OBVIOUS
  <2> DEFINE some == {u \in left : u[1] = t[1]}
  <2>2. some # {} /\ IsFiniteSet(some)
    BY <1>1, FS_Subset
  <2>3. Cardinality(some) # 0
    <3> HIDE DEF some
    <3> QED BY <2>2, FS_EmptySet
  <2>4. Reachability(left, t[1]) # 0
    BY <2>3 DEF Reachability
  <2> HIDE DEF some
  <2> QED BY <1>2, <2>4
<1>4. PICK x \in useful : \A y \in useful : v.will[x] >= v.will[y]
  <2> DEFINE W == {7 - v.will[y] : y \in useful}
  <2>1. W \in SUBSET Nat /\ W # {}
    BY <1>2, <1>3
  <2>2. PICK m \in W : \A k \in W : m <= k
    <3> HIDE DEF W
    <3> QED BY <2>1, Minimum
  <2>3. PICK x \in useful : m = 7 - v.will[x]
    OBVIOUS
  <2>4. \A y \in useful : 7 - v.will[x] <= 7 - v.will[y]
    BY <2>2, <2>3
  <2> QED BY <1>2, <2>4
<1>5. PICK z \in useful : /\ v.will[z] = v.will[x]
                          /\ \A y \in useful : v.will[y] = v.will[x] =>
                                Reachability(left, z) >= Reachability(left, y)
  <2> DEFINE C == {c - Reachability(left, y) : y \in {u \in useful : v.will[u] = v.will[x]}}
  <2>1. C \in SUBSET Nat /\ C # {}
    BY <1>1, <1>2
  <2>2. PICK m \in C : \A k \in C : m <= k
    <3> HIDE DEF C
    <3> QED BY <2>1, Minimum
  <2>3. PICK z \in useful : v.will[z] = v.will[x] /\ m = c - Reachability(left, z)
    OBVIOUS
  <2>4. \A y \in useful : v.will[y] = v.will[x] =>
                            c - Reachability(left, z) <= c - Reachability(left, y)
    BY <2>2, <2>3
  <2>5. \A y \in useful : v.will[y] = v.will[x] =>
                            Reachability(left, z) >= Reachability(left, y)
    BY <1>1, <1>2, <2>4
  <2> QED BY <2>3, <2>5
<1>6. \A y \in useful : \/ v.will[z] > v.will[y]
                        \/ /\ v.will[z] = v.will[y]
                           /\ Reachability(left, z) >= Reachability(left, y)
  BY <1>2, <1>4, <1>5
<1>7. z \in Preferred(v, left)
  BY <1>6 DEF Preferred
<1> QED BY <1>7

(* MprComputation has a result for every view: step 4 ends.                *)
THEOREM RelaysAlwaysFound ==
    ASSUME NEW v, Sensible(v)
    PROVE  MprSets(v) # {}
<1> DEFINE left1 == Uncovered(StrictTwoHops(v), AlwaysWilling(v))
           start == Uncovered(left1, OnlyProviders(left1))
           F == FurtherRelays(v, start)
           Bad == {n \in Nat : \E l \in SUBSET start : Cardinality(l) = n /\ F[l] = {}}
<1>1. start \subseteq StrictTwoHops(v) /\ StrictTwoHops(v) \subseteq v.two
  BY DEF StrictTwoHops, Uncovered
<1>2. start \in SUBSET (Node \X Node) /\ IsFiniteSet(start)
  BY <1>1, FS_Subset DEF Sensible
<1>3. MprSets(v) = {AlwaysWilling(v) \cup OnlyProviders(left1) \cup M : M \in F[start]}
  BY DEF MprSets
<1>4. \A t \in start : t[1] \in v.nbr
  <2>1. \A t \in StrictTwoHops(v) : t[1] \in v.nbr
    BY DEF StrictTwoHops
  <2> QED BY <1>1, <2>1
<1> HIDE DEF start
<1>5. ASSUME NEW n \in Bad PROVE FALSE
  <2>1. PICK m \in Bad : \A k \in Bad : m <= k
    <3>1. Bad \in SUBSET Nat /\ Bad # {}
      BY <1>5
    <3> HIDE DEF Bad
    <3> QED BY <3>1, Minimum
  <2>2. PICK l \in SUBSET start : Cardinality(l) = m /\ F[l] = {}
    OBVIOUS
  <2>3. F[l] = Round(v, F, l)
    BY <1>2, RelaysRound
  <2> HIDE DEF F
  <2>4. l # {}
    BY <2>2, <2>3 DEF Round
  <2>5. IsFiniteSet(l) /\ l \in SUBSET (Node \X Node) /\ l \subseteq v.two
    BY <1>1, <1>2, FS_Subset
  <2>6. PICK y \in Preferred(v, l) : TRUE
    BY <1>4, <2>4, <2>5, SomeonePreferred
  <2>7. /\ Uncovered(l, {y}) \in SUBSET start
        /\ Cardinality(Uncovered(l, {y})) \in Nat
        /\ Cardinality(Uncovered(l, {y})) < m
    BY <2>2, <2>5, UncoveredShrinks
  <2>8. m \in Nat /\ Cardinality(Uncovered(l, {y})) \notin Bad
    <3>1. m \in Nat
      OBVIOUS
    <3> HIDE DEF Bad
    <3> QED BY <2>1, <2>7, <3>1
  <2>9. PICK L : L \in F[Uncovered(l, {y})]
    BY <2>7, <2>8
  <2>10. OneMore(v, F, l, {y} \cup L)
    BY <2>9 DEF OneMore
  <2> QED BY <2>2, <2>3, <2>4, <2>10, RoundMembers
<1>6. F[start] # {}
  <2>1. Cardinality(start) \in Nat
    BY <1>2, FS_CardinalityType
  <2>2. Cardinality(start) \notin Bad
    BY <1>5
  <2> QED BY <2>1, <2>2
<1> QED BY <1>3, <1>6
=============================================================================
