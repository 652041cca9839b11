------------------------- MODULE OlsrRoutingProofs -------------------------
(***************************************************************************)
(* Nodes running OLSR, in every finite network: the sets of a node and its *)
(* table keep their types, whatever a node knows or uses goes over links   *)
(* that work in both directions, and the next hop of a table entry has an  *)
(* entry of its own.                                                       *)
(***************************************************************************)
EXTENDS OlsrRouting, OlsrMprProofs

-----------------------------------------------------------------------------
(* Loops: a function that is defined one argument after the other.         *)

(* What holds at the start and is kept by each step holds to the end.      *)
LEMMA LoopKeeps ==
    ASSUME NEW a \in Nat, NEW k \in Nat, NEW S, NEW f, f[a] \in S,
           \A i \in a .. k : i # a /\ f[i - 1] \in S => f[i] \in S
    PROVE  \A i \in a .. k : f[i] \in S
<1> DEFINE Bad == {i \in a .. k : f[i] \notin S}
<1>1. ASSUME Bad # {} PROVE FALSE
  <2>1. PICK m \in Bad : \A i \in Bad : m <= i
    <3> Bad \in SUBSET Nat
      OBVIOUS
    <3> HIDE DEF Bad
    <3> QED BY <1>1, Minimum
  <2>2. m \in a .. k /\ f[m] \notin S /\ m # a
    OBVIOUS
  <2>3. m - 1 \in a .. k /\ m - 1 \notin Bad
    <3>1. m - 1 \in a .. k
      BY <2>2
    <3>2. ~(m <= m - 1)
      BY <2>2
    <3> HIDE DEF Bad
    <3> QED BY <2>1, <3>1, <3>2
  <2>4. f[m - 1] \in S
    BY <2>3
  <2> HIDE DEF Bad
  <2> QED BY <2>2, <2>4
<1> QED BY <1>1

(* The run f of a loop from a to k that begins with b, of rounds G.        *)
IsLoop(a, k, b, G, f) == f = [i \in a .. k |-> IF i = a THEN b ELSE G[i][f[i - 1]]]

(* A loop over states S, whose rounds are the functions in G, has a run.   *)
LEMMA LoopExists ==
    ASSUME NEW a \in Nat, NEW k \in Nat, NEW S, NEW b \in S, NEW G \in [a .. k -> [S -> S]]
    PROVE  \E f \in [a .. k -> S] : IsLoop(a, k, b, G, f)
<1> USE DEF IsLoop
<1> DEFINE Run(j) == \E f \in [a .. j -> S] :
                       f = [i \in a .. j |-> IF i = a THEN b ELSE G[i][f[i - 1]]]
           Bad == {j \in a .. k : ~Run(j)}
<1>1. CASE k < a
  <2>1. a .. k = {}
    BY <1>1
  <2>2. [i \in a .. k |-> b] = [i \in a .. k |-> IF i = a THEN b ELSE G[i][[j \in a .. k |-> b][i - 1]]]
    BY <2>1
  <2> QED BY <2>2
<1>2. ASSUME a <= k, Bad # {} PROVE FALSE
  <2>1. PICK m \in Bad : \A i \in Bad : m <= i
    <3> Bad \in SUBSET Nat
      OBVIOUS
    <3> HIDE DEF Bad
    <3> QED BY <1>2, Minimum
  <2>2. m \in a .. k /\ m \in Nat /\ ~Run(m)
    OBVIOUS
  <2>3. CASE m = a
    <3> DEFINE f == [i \in a .. a |-> b]
    <3>1. f \in [a .. a -> S]
      OBVIOUS
    <3>2. f = [i \in a .. a |-> IF i = a THEN b ELSE G[i][f[i - 1]]]
      OBVIOUS
    <3> HIDE DEF f
    <3> QED BY <2>2, <2>3, <3>1, <3>2
  <2>4. CASE m # a
    <3>1. m - 1 \in a .. k /\ m - 1 \notin Bad
      <4>1. m - 1 \in a .. k
        BY <2>2, <2>4
      <4>2. ~(m <= m - 1)
        BY <2>2
      <4> HIDE DEF Bad
      <4> QED BY <2>1, <4>1, <4>2
    <3>2. PICK f \in [a .. m - 1 -> S] :
            f = [i \in a .. m - 1 |-> IF i = a THEN b ELSE G[i][f[i - 1]]]
      BY <3>1
    <3> DEFINE g == [i \in a .. m |-> IF i = m THEN G[m][f[m - 1]] ELSE f[i]]
    <3>3. /\ m - 1 \in a .. m - 1 /\ m \in a .. k
          /\ \A i \in a .. m : i # m => i \in a .. m - 1
          /\ \A i \in a .. m : i # a => i - 1 \in a .. m - 1 /\ i - 1 # m /\ i - 1 \in a .. m
      BY <2>2, <2>4, <3>1
    <3>4. g \in [a .. m -> S]
      BY <3>3
    <3>5. ASSUME NEW i \in a .. m
          PROVE  g[i] = IF i = a THEN b ELSE G[i][g[i - 1]]
      <4>1. CASE i = m
        <5>1. g[m - 1] = f[m - 1]
          BY <2>4, <3>3, <4>1
        <5> QED BY <2>4, <4>1, <5>1
      <4>2. CASE i # m
        <5>1. g[i] = f[i] /\ f[i] = IF i = a THEN b ELSE G[i][f[i - 1]]
          BY <3>2, <3>3, <4>2
        <5>2. i # a => g[i - 1] = f[i - 1]
          BY <3>3
        <5> QED BY <5>1, <5>2
      <4> QED BY <4>1, <4>2
    <3>6. g = [i \in a .. m |-> g[i]]
      OBVIOUS
    <3> HIDE DEF g
    <3>7. g = [i \in a .. m |-> IF i = a THEN b ELSE G[i][g[i - 1]]]
      BY <3>5, <3>6
    <3> QED BY <2>2, <3>4, <3>7
  <2> QED BY <2>3, <2>4
<1>3. CASE a <= k
  <2>1. k \in a .. k
    BY <1>3
  <2> HIDE DEF Run
  <2>2. Run(k)
    BY <1>2, <1>3, <2>1
  <2> QED BY <2>2 DEF Run
<1> QED BY <1>1, <1>3

-----------------------------------------------------------------------------
(* RoutingTableComputation *)

RealEntry == [dist : Nat \ {0}, next : Node]
Entry == {NoEntry} \cup RealEntry

LEMMA EntryIsReal ==
    /\ \A k \in Nat \ {0}, y \in Node : /\ [dist |-> k, next |-> y] \in RealEntry
                                        /\ [dist |-> k, next |-> y].dist = k
                                        /\ [dist |-> k, next |-> y].next = y
    /\ NoEntry \notin RealEntry
    /\ \A e \in RealEntry : e.dist \in Nat \ {0} /\ e.next \in Node
BY DEF RealEntry, NoEntry

(* Tables while they are put together: the next hop is a symmetric         *)
(* neighbour with an entry of its own, no entry is further than k, and     *)
(* there is one at each smaller distance.                                  *)
Routed(s, k, tb, d) ==
    /\ tb[d] \in RealEntry /\ tb[d].dist <= k
    /\ s.nb[tb[d].next] = "sym"
    /\ tb[tb[d].next] = [dist |-> 1, next |-> tb[d].next]
    /\ tb[d].dist = 1 \/ \E e \in Node : tb[e] \in RealEntry /\ tb[e].dist = tb[d].dist - 1

TablesUpTo(s, k) ==
    {tb \in [Node -> Entry] : \A d \in Node : tb[d] # NoEntry => Routed(s, k, tb, d)}

LEMMA OneHopRouted ==
    ASSUME NEW s
    PROVE  OneHop(s) \in TablesUpTo(s, 2)
<1> DEFINE tb == OneHop(s)
<1>1. \A d \in Node : tb[d] = IF s.nb[d] = "sym" /\ s.link[d] # "none"
                              THEN [dist |-> 1, next |-> d] ELSE NoEntry
  BY DEF OneHop
<1>2. tb \in [Node -> Entry]
  BY EntryIsReal DEF OneHop, Entry
<1> HIDE DEF tb
<1>3. ASSUME NEW d \in Node, tb[d] # NoEntry PROVE Routed(s, 2, tb, d)
  <2>1. tb[d] = [dist |-> 1, next |-> d] /\ s.nb[d] = "sym"
    BY <1>1, <1>3
  <2>2. tb[d] \in RealEntry /\ tb[d].dist = 1 /\ tb[d].next = d
    BY <2>1, EntryIsReal
  <2> QED BY <2>1, <2>2 DEF Routed
<1> QED BY <1>2, <1>3 DEF TablesUpTo, tb

LEMMA WithTupleRouted ==
    ASSUME NEW s, NEW tb \in TablesUpTo(s, 2), NEW t \in Node \X Node, s.nb[t[2]] # "sym"
    PROVE  WithTuple(tb, t) \in TablesUpTo(s, 2)
<1>1. CASE tb[t[1]] = NoEntry
  BY <1>1 DEF WithTuple
<1>2. CASE tb[t[1]] # NoEntry
  <2> DEFINE e == [dist |-> 2, next |-> tb[t[1]].next]
             nt == [tb EXCEPT ![t[2]] = e]
  <2>1. WithTuple(tb, t) = nt
    BY <1>2 DEF WithTuple
  <2>2. tb \in [Node -> Entry] /\ \A d \in Node : tb[d] # NoEntry => Routed(s, 2, tb, d)
    BY DEF TablesUpTo
  <2>3. t[1] \in Node /\ t[2] \in Node /\ Routed(s, 2, tb, t[1])
    BY <1>2, <2>2
  <2>4. tb[t[1]].next \in Node /\ e \in RealEntry /\ e.dist = 2 /\ e.next = tb[t[1]].next
    BY <2>3, EntryIsReal DEF Routed
  <2> HIDE DEF e
  <2>5. nt \in [Node -> Entry]
    BY <2>2, <2>4 DEF Entry
  <2>6. \A d \in Node : nt[d] = IF d = t[2] THEN e ELSE tb[d]
    BY <2>2
  <2> HIDE DEF nt
  <2>7. ASSUME NEW d \in Node, nt[d] # NoEntry PROVE Routed(s, 2, nt, d)
    <3>1. /\ nt[d] \in RealEntry /\ nt[d].dist <= 2
          /\ s.nb[nt[d].next] = "sym"
          /\ tb[nt[d].next] = [dist |-> 1, next |-> nt[d].next]
      <4>1. CASE d = t[2]
        BY <2>3, <2>4, <2>6, <4>1 DEF Routed
      <4>2. CASE d # t[2]
        BY <2>2, <2>6, <2>7, <4>2 DEF Routed
      <4> QED BY <4>1, <4>2
    <3>2. nt[d].next \in Node /\ nt[d].dist \in Nat \ {0}
      BY <3>1, EntryIsReal
    <3>3. nt[nt[d].next] = [dist |-> 1, next |-> nt[d].next]
      BY <2>6, <3>1, <3>2
    <3>4. nt[nt[d].next] \in RealEntry /\ nt[nt[d].next].dist = 1
      BY <3>2, <3>3, EntryIsReal
    <3>5. nt[d].dist = 1 \/ nt[nt[d].next].dist = nt[d].dist - 1
      BY <3>1, <3>2, <3>4
    <3> QED BY <3>1, <3>2, <3>3, <3>4, <3>5 DEF Routed
  <2> QED BY <2>1, <2>5, <2>7 DEF TablesUpTo
<1> QED BY <1>1, <1>2

(* Step 3, for the tuples in any order.                                    *)
LEMMA TwoHopTableRouted ==
    ASSUME NEW s, NEW order \in Seq(Node \X Node),
           \A i \in 1 .. Len(order) : s.nb[order[i][2]] # "sym"
    PROVE  TwoHopTable(s, order) \in TablesUpTo(s, 2)
<1> DEFINE S == TablesUpTo(s, 2)
           k == Len(order)
           G == [i \in 0 .. k |-> [tb \in S |-> IF i = 0 THEN tb ELSE WithTuple(tb, order[i])]]
           after == CHOOSE after :
                      after = [i \in 0 .. k |-> IF i = 0 THEN OneHop(s)
                                                ELSE WithTuple(after[i - 1], order[i])]
<1>1. k \in Nat /\ \A i \in 1 .. k : order[i] \in Node \X Node
  OBVIOUS
<1>2. ASSUME NEW i \in 0 .. k, i # 0, NEW tb \in S PROVE WithTuple(tb, order[i]) \in S
  <2>1. i \in 1 .. k
    BY <1>1, <1>2
  <2> QED BY <1>1, <2>1, WithTupleRouted
<1>3. OneHop(s) \in S
  BY OneHopRouted
<1> HIDE DEF S
<1>4. G \in [0 .. k -> [S -> S]]
  BY <1>2
<1>5. \A i \in 0 .. k, tb \in S : i # 0 => G[i][tb] = WithTuple(tb, order[i])
  OBVIOUS
<1> HIDE DEF G, k
<1>6. PICK f \in [0 .. k -> S] : IsLoop(0, k, OneHop(s), G, f)
  BY <1>1, <1>3, <1>4, LoopExists
<1>7. f = [i \in 0 .. k |-> IF i = 0 THEN OneHop(s) ELSE WithTuple(f[i - 1], order[i])]
  <2>1. \A i \in 0 .. k : i # 0 => f[i - 1] \in S /\ G[i][f[i - 1]] = WithTuple(f[i - 1], order[i])
    BY <1>1, <1>5
  <2>2. \A i \in 0 .. k : f[i] = IF i = 0 THEN OneHop(s) ELSE WithTuple(f[i - 1], order[i])
    BY <1>6, <2>1 DEF IsLoop
  <2> QED BY <1>6, <2>2 DEF IsLoop
<1>8. after = [i \in 0 .. k |-> IF i = 0 THEN OneHop(s) ELSE WithTuple(after[i - 1], order[i])]
  BY <1>7
<1>9. TwoHopTable(s, order) = after[k]
  BY DEF TwoHopTable, k
<1> HIDE DEF after
<1>10. after[0] \in S
  BY <1>1, <1>3, <1>8
<1>11. \A i \in 0 .. k : i # 0 /\ after[i - 1] \in S => after[i] \in S
  BY <1>2, <1>8
<1>12. \A i \in 0 .. k : after[i] \in S
  BY <1>1, <1>10, <1>11, LoopKeeps
<1> QED BY <1>1, <1>9, <1>12 DEF S

LEMMA TwoHopTablesRouted ==
    ASSUME NEW n \in Node, NEW s, s.two \subseteq Node \X Node
    PROVE  TwoHopTables(n, s) \subseteq TablesUpTo(s, 2)
<1> DEFINE T == {t \in s.two : /\ t[2] # n /\ s.nb[t[2]] # "sym"
                               /\ s.nb[t[1]] # "none" /\ Will[t[1]] # NEVER}
<1>1. IsFiniteSet(T) /\ Cardinality(T) \in Nat /\ T \subseteq Node \X Node
  <2>1. IsFiniteSet(Node \X Node)
    BY RoutingAssumption, FS_Product
  <2>2. T \subseteq Node \X Node
    OBVIOUS
  <2> HIDE DEF T
  <2> QED BY <2>1, <2>2, FS_Subset, FS_CardinalityType
<1>2. \A t \in T : s.nb[t[2]] # "sym"
  OBVIOUS
<1>3. TwoHopTables(n, s) = {TwoHopTable(s, order) : order \in SetToSeqs(T)}
  BY DEF TwoHopTables
<1> HIDE DEF T
<1>4. ASSUME NEW order \in SetToSeqs(T)
      PROVE  TwoHopTable(s, order) \in TablesUpTo(s, 2)
  <2>1. order \in [1 .. Cardinality(T) -> T]
    BY DEF SetToSeqs
  <2>2. order \in Seq(Node \X Node) /\ Len(order) = Cardinality(T)
    BY <1>1, <2>1
  <2>3. \A i \in 1 .. Len(order) : s.nb[order[i][2]] # "sym"
    BY <1>2, <2>1, <2>2
  <2> QED BY <2>2, <2>3, TwoHopTableRouted
<1> QED BY <1>3, <1>4

(* A round of step 4.                                                      *)
LEMMA ExtendedRouted ==
    ASSUME NEW s, s.topo \subseteq Topology, NEW k \in Nat, NEW h \in Nat \ {0}, h < k,
           NEW tb \in TablesUpTo(s, k), NEW nt \in Extended(s, tb, h)
    PROVE  nt \in TablesUpTo(s, k)
<1> DEFINE D == {d \in Node : tb[d] = NoEntry /\ Leading(s, tb, h, d) # {}}
<1>1. PICK via \in [D -> s.topo] :
        /\ \A d \in D : via[d] \in Leading(s, tb, h, d)
        /\ nt = [d \in Node |-> IF d \in D THEN [dist |-> h + 1, next |-> tb[via[d].last].next]
                                ELSE tb[d]]
  BY DEF Extended
<1>2. tb \in [Node -> Entry] /\ \A d \in Node : tb[d] # NoEntry => Routed(s, k, tb, d)
  BY DEF TablesUpTo
<1>3. ASSUME NEW d \in D
      PROVE  /\ via[d].last \in Node /\ tb[via[d].last] # NoEntry
             /\ tb[via[d].last].dist = h
             /\ Routed(s, k, tb, via[d].last)
  <2>1. /\ via[d] \in Topology /\ tb[via[d].last] # NoEntry
        /\ tb[via[d].last].dist = h
    BY <1>1 DEF Leading
  <2>2. via[d].last \in Node
    BY <2>1 DEF Topology
  <2> QED BY <1>2, <2>1, <2>2
<1>4. ASSUME NEW d \in D
      PROVE  /\ nt[d] \in RealEntry /\ nt[d].dist = h + 1
             /\ nt[d].next = tb[via[d].last].next
  <2>3. tb[via[d].last] \in RealEntry
    BY <1>3 DEF Routed
  <2>1. tb[via[d].last].next \in Node /\ h + 1 \in Nat \ {0}
    BY <2>3, EntryIsReal
  <2>2. nt[d] = [dist |-> h + 1, next |-> tb[via[d].last].next]
    BY <1>1
  <2> QED BY <2>1, <2>2, EntryIsReal
<1>5. \A d \in Node : tb[d] # NoEntry => nt[d] = tb[d]
  BY <1>1
<1>6. \A d \in Node : d \notin D => nt[d] = tb[d]
  BY <1>1
<1>7. nt \in [Node -> Entry]
  <2>1. \A d \in Node : nt[d] \in Entry
    BY <1>2, <1>4, <1>6 DEF Entry
  <2>2. nt = [d \in Node |-> nt[d]]
    BY <1>1
  <2> QED BY <2>1, <2>2
<1> HIDE DEF D
<1>8. ASSUME NEW d \in Node, nt[d] # NoEntry PROVE Routed(s, k, nt, d)
  <2>1. CASE d \in D
    <3> DEFINE e == via[d].last
    <3>1. /\ e \in Node /\ tb[e] \in RealEntry /\ tb[e].dist = h
          /\ s.nb[tb[e].next] = "sym"
          /\ tb[tb[e].next] = [dist |-> 1, next |-> tb[e].next]
      BY <1>3, <2>1 DEF Routed
    <3> HIDE DEF e
    <3>2. tb[e].next \in Node /\ tb[tb[e].next] # NoEntry /\ tb[e] # NoEntry
      BY <3>1, EntryIsReal
    <3>3. nt[tb[e].next] = [dist |-> 1, next |-> tb[e].next] /\ nt[e] = tb[e]
      BY <1>5, <3>1, <3>2
    <3>4. nt[d] \in RealEntry /\ nt[d].dist = h + 1 /\ nt[d].next = tb[e].next
      BY <1>4, <2>1 DEF e
    <3>5. h + 1 <= k /\ (h + 1) - 1 = h
      OBVIOUS
    <3> QED BY <3>1, <3>3, <3>4, <3>5 DEF Routed
  <2>2. CASE d \notin D
    <3>1. nt[d] = tb[d] /\ Routed(s, k, tb, d)
      BY <1>2, <1>6, <1>8, <2>2
    <3>2. tb[d].next \in Node /\ tb[tb[d].next] # NoEntry
      BY <3>1, EntryIsReal DEF Routed
    <3>3. nt[tb[d].next] = tb[tb[d].next]
      BY <1>5, <3>2
    <3>4. \A e \in Node : tb[e] \in RealEntry => nt[e] = tb[e]
      BY <1>5, EntryIsReal
    <3> QED BY <3>1, <3>3, <3>4 DEF Routed
  <2> QED BY <2>1, <2>2
<1> QED BY <1>7, <1>8 DEF TablesUpTo

(* There are as many nodes as there are distances.                         *)
LEMMA DistancesBounded ==
    ASSUME NEW s, NEW k, NEW tb \in TablesUpTo(s, k), NEW d \in Node, tb[d] # NoEntry
    PROVE  tb[d].dist <= Cardinality(Node)
<1> DEFINE E == {e \in Node : tb[e] \in RealEntry}
           D == {tb[e].dist : e \in E}
           m == tb[d].dist
           down == [i \in 0 .. m - 1 |-> m - i]
<1>1. \A e \in Node : tb[e] # NoEntry => Routed(s, k, tb, e)
  BY DEF TablesUpTo
<1>2. tb[d] \in RealEntry /\ m \in Nat \ {0} /\ m \in D
  BY <1>1, EntryIsReal DEF Routed
<1>3. ASSUME NEW j \in D, j # 1 PROVE j - 1 \in D
  <2>1. PICK e \in E : tb[e].dist = j
    OBVIOUS
  <2>2. Routed(s, k, tb, e)
    BY <1>1, EntryIsReal
  <2> QED BY <1>3, <2>1, <2>2 DEF Routed
<1>4. D \subseteq Nat \ {0}
  BY EntryIsReal
<1> HIDE DEF m, D
<1>5. \A i \in 0 .. m - 1 : down[i] \in D
  <2>1. down[0] \in D
    BY <1>2
  <2>2. ASSUME NEW i \in 0 .. m - 1, i # 0, down[i - 1] \in D PROVE down[i] \in D
    <3>1. down[i - 1] = m - i + 1 /\ down[i] = m - i /\ m - i + 1 # 1
      BY <1>2, <2>2
    <3>2. (m - i + 1) - 1 = m - i
      BY <1>2
    <3> QED BY <1>3, <2>2, <3>1, <3>2
  <2>3. 0 \in Nat /\ m - 1 \in Nat
    BY <1>2
  <2> HIDE DEF down
  <2> QED BY <2>1, <2>2, <2>3, LoopKeeps
<1>6. 1 .. m \subseteq D
  <2> SUFFICES ASSUME NEW j \in 1 .. m PROVE j \in D
    OBVIOUS
  <2>1. m - j \in 0 .. m - 1 /\ m - (m - j) = j
    BY <1>2
  <2>2. down[m - j] = j
    BY <2>1
  <2> QED BY <1>5, <2>1, <2>2
<1>7. IsFiniteSet(E) /\ Cardinality(E) <= Cardinality(Node)
  <2>1. E \in SUBSET Node
    OBVIOUS
  <2> HIDE DEF E
  <2> QED BY <2>1, RoutingAssumption, FS_Subset
<1>8. IsFiniteSet(D) /\ Cardinality(D) <= Cardinality(E)
  <2> DEFINE dists == [e \in E |-> tb[e].dist]
  <2>1. D = {dists[e] : e \in E} /\ dists \in [E -> D]
    BY DEF D
  <2>2. dists \in Surjection(E, D)
    BY <2>1 DEF Surjection
  <2> HIDE DEF dists, E
  <2> QED BY <1>7, <2>2, FS_Surjection
<1>9. Cardinality(1 .. m) <= Cardinality(D)
  BY <1>6, <1>8, FS_Subset
<1>10. Cardinality(1 .. m) = m
  BY <1>2, FS_Interval
<1>11. Cardinality(D) \in Nat /\ Cardinality(E) \in Nat /\ Cardinality(Node) \in Nat
  BY <1>7, <1>8, RoutingAssumption, FS_CardinalityType
<1>12. m <= Cardinality(Node)
  BY <1>2, <1>7, <1>8, <1>9, <1>10, <1>11
<1> QED BY <1>12 DEF m

(* RoutingTableComputation                                                 *)
LEMMA TablesRouted ==
    ASSUME NEW n \in Node, NEW s, s.two \subseteq Node \X Node, s.topo \subseteq Topology,
           NEW tb \in Tables(n, s)
    PROVE  tb \in TablesUpTo(s, Cardinality(Node))
<1> DEFINE N == Cardinality(Node)
           S == SUBSET TablesUpTo(s, N + 1)
           G == [h \in 1 .. N |-> [R \in S |-> IF h = 1 THEN R
                                               ELSE UNION {Extended(s, t, h) : t \in R}]]
           after == CHOOSE after :
                      after = [h \in 1 .. N |->
                                 IF h = 1 THEN TwoHopTables(n, s)
                                 ELSE UNION {Extended(s, t, h) : t \in after[h - 1]}]
<1>1. N \in Nat /\ N >= 1
  <2>1. N \in Nat /\ (N = 0 <=> Node = {})
    BY RoutingAssumption, FS_CardinalityType, FS_EmptySet
  <2> QED BY <2>1
<1>2. TwoHopTables(n, s) \in S
  <2>1. TwoHopTables(n, s) \subseteq TablesUpTo(s, 2)
    BY TwoHopTablesRouted
  <2>2. TablesUpTo(s, 2) \subseteq TablesUpTo(s, N + 1)
    <3> SUFFICES ASSUME NEW t \in TablesUpTo(s, 2), NEW d \in Node, t[d] # NoEntry
                 PROVE  Routed(s, N + 1, t, d)
      BY DEF TablesUpTo
    <3>1. Routed(s, 2, t, d)
      BY DEF TablesUpTo
    <3>2. t[d].dist \in Nat
      BY <3>1, EntryIsReal DEF Routed
    <3> QED BY <1>1, <3>1, <3>2 DEF Routed
  <2> QED BY <2>1, <2>2
<1>3. ASSUME NEW h \in 1 .. N, h # 1, NEW R \in S
      PROVE  UNION {Extended(s, t, h) : t \in R} \in S
  <2>1. ASSUME NEW t \in R, NEW nt \in Extended(s, t, h)
        PROVE  nt \in TablesUpTo(s, N + 1)
    <3>1. /\ N + 1 \in Nat /\ h \in Nat \ {0} /\ h < N + 1
          /\ t \in TablesUpTo(s, N + 1)
      BY <1>1
    <3> HIDE DEF N
    <3> QED BY <3>1, ExtendedRouted
  <2> QED BY <2>1
<1> HIDE DEF N, S
<1>4. G \in [1 .. N -> [S -> S]]
  BY <1>3
<1>5. \A h \in 1 .. N, R \in S : h # 1 => G[h][R] = UNION {Extended(s, t, h) : t \in R}
  OBVIOUS
<1> HIDE DEF G
<1>6. PICK f \in [1 .. N -> S] : IsLoop(1, N, TwoHopTables(n, s), G, f)
  BY <1>1, <1>2, <1>4, LoopExists
<1>7. f = [h \in 1 .. N |-> IF h = 1 THEN TwoHopTables(n, s)
                            ELSE UNION {Extended(s, t, h) : t \in f[h - 1]}]
  <2>1. \A h \in 1 .. N : h # 1 => /\ f[h - 1] \in S
                                   /\ G[h][f[h - 1]] = UNION {Extended(s, t, h) : t \in f[h - 1]}
    BY <1>1, <1>5
  <2>2. \A h \in 1 .. N : f[h] = IF h = 1 THEN TwoHopTables(n, s)
                                 ELSE UNION {Extended(s, t, h) : t \in f[h - 1]}
    BY <1>6, <2>1 DEF IsLoop
  <2>3. f = [h \in 1 .. N |-> f[h]]
    OBVIOUS
  <2> QED BY <2>2, <2>3
<1>8. after = [h \in 1 .. N |-> IF h = 1 THEN TwoHopTables(n, s)
                                ELSE UNION {Extended(s, t, h) : t \in after[h - 1]}]
  BY <1>7
<1>9. Tables(n, s) = after[N]
  BY DEF Tables, N
<1> HIDE DEF after
<1>10. after[1] \in S
  BY <1>1, <1>2, <1>8
<1>11. ASSUME NEW h \in 1 .. N, h # 1, after[h - 1] \in S PROVE after[h] \in S
  <2>1. after[h] = UNION {Extended(s, t, h) : t \in after[h - 1]}
    BY <1>8, <1>11
  <2>2. UNION {Extended(s, t, h) : t \in after[h - 1]} \in S
    BY <1>3, <1>11
  <2> QED BY <2>1, <2>2
<1>12. \A h \in 1 .. N : after[h] \in S
  BY <1>1, <1>10, <1>11, LoopKeeps
<1>13. tb \in TablesUpTo(s, N + 1)
  BY <1>1, <1>9, <1>12 DEF S
<1>14. ASSUME NEW d \in Node, tb[d] # NoEntry PROVE Routed(s, N, tb, d)
  <2>1. tb[d].dist <= N
    BY <1>13, <1>14, DistancesBounded DEF N
  <2> QED BY <1>13, <1>14, <2>1 DEF TablesUpTo, Routed
<1> QED BY <1>13, <1>14 DEF TablesUpTo, N

-----------------------------------------------------------------------------
(* What a node knows and says, when the links are those of L.              *)

Both(L) == {l \in L : <<l[2], l[1]>> \in L}

NodeState ==
    [link : [Node -> LinkState], nb : [Node -> NbStatus], two : SUBSET (Node \X Node),
     mpr : SUBSET Node, sel : SUBSET Node, topo : SUBSET Topology,
     dup : SUBSET (Node \X MsgId), ansn : Nat, first : BOOLEAN, table : [Node -> Entry]]

(* A link tuple says who was heard, a symmetric one also who hears; a      *)
(* neighbour tuple goes with it, but may stay symmetric for longer.        *)
Linked(n, L, s) ==
    \A m \in Node : /\ s.link[m] = "none" <=> s.nb[m] = "none"
                    /\ s.link[m] # "none" => <<m, n>> \in L
                    /\ s.link[m] = "sym" \/ s.nb[m] = "sym" => <<n, m>> \in Both(L)

Related(n, L, s) ==
    /\ \A m \in s.mpr \cup s.sel : <<n, m>> \in Both(L)
    /\ s.two \subseteq Both(L)
    /\ \A t \in s.topo : <<t.last, t.dest>> \in Both(L)

Leads(n, L, tb, d) ==
    /\ tb[d] \in RealEntry /\ tb[d].dist <= Cardinality(Node)
    /\ <<n, tb[d].next>> \in Both(L)
    /\ tb[tb[d].next] = [dist |-> 1, next |-> tb[d].next]
GoodTable(n, L, tb) == \A d \in Node : tb[d] # NoEntry => Leads(n, L, tb, d)

GoodStates(n, L) ==
    {s \in NodeState : Linked(n, L, s) /\ Related(n, L, s) /\ GoodTable(n, L, s.table)}

(* A HELLO of n speaks of nodes it has heard, and says of no other than a  *)
(* symmetric neighbour that it is one.  A TC names symmetric neighbours of *)
(* its origin.                                                             *)
Words == {"silent", "asym", "sym", "lost", "not", "mpr"}
GoodSays(n, L) ==
    {f \in [Node -> Words \X Words] :
       \A m \in Node : /\ f[m][1] \in {"sym", "asym"} => <<m, n>> \in L
                       /\ f[m][2] \in {"sym", "mpr"} => <<n, m>> \in Both(L)}
Hellos(n, L) == {Hello(says) : says \in GoodSays(n, L)}
Tcs(L) == {m \in [kind : {"tc"}, orig : Node, id : MsgId, ansn : Nat, adv : SUBSET Node] :
             \A d \in m.adv : <<m.orig, d>> \in Both(L)}
GoodMsgs(n, L) == Hellos(n, L) \cup Tcs(L)

LEMMA BothSymmetric ==
    ASSUME NEW L, NEW a, NEW b
    PROVE  <<a, b>> \in Both(L) <=> <<a, b>> \in L /\ <<b, a>> \in L
BY DEF Both

(* LinkSensing                                                             *)
LEMMA LinkSensingGood ==
    ASSUME NEW n \in Node, NEW L, NEW s \in GoodStates(n, L), NEW from \in Node,
           <<from, n>> \in L, NEW says \in GoodSays(from, L)
    PROVE  LinkSensing(n, s, from, says) \in GoodStates(n, L)
<1> DEFINE said == says[n]
           l    == CASE said[1] = "lost"                              -> "asym"
                     [] said[1] = "asym" \/ (said[1] = "sym" /\ said[2] # "not") -> "sym"
                     [] s.link[from] = "sym"                          -> "sym"
                     [] OTHER                                         -> "asym"
           b    == IF l = "sym" THEN "sym" ELSE "not_sym"
           new  == IF s.link[from] # "none" THEN 0 ELSE IF said = Silent THEN 1 ELSE 2
           t    == LinkSensing(n, s, from, says)
<1>1. t = [s EXCEPT !.link[from] = l, !.nb[from] = b, !.ansn = @ + new]
  BY DEF LinkSensing
<1>2. l \in {"asym", "sym"} /\ b \in {"not_sym", "sym"} /\ (l = "sym" <=> b = "sym")
  OBVIOUS
<1>3. s \in NodeState /\ Linked(n, L, s) /\ Related(n, L, s) /\ GoodTable(n, L, s.table)
  BY DEF GoodStates
<1>4. l = "sym" => <<n, from>> \in Both(L)
  <2>1. CASE s.link[from] = "sym"
    BY <1>3, <2>1 DEF Linked
  <2>2. CASE said[1] \in {"sym", "asym"}
    <3>1. <<n, from>> \in L
      BY <2>2 DEF GoodSays
    <3> QED BY <3>1, BothSymmetric
  <2> QED BY <2>1, <2>2
<1>5. new \in Nat
  OBVIOUS
<1> HIDE DEF l, b, new, t
<1>6. t \in NodeState
  <2> DEFINE links == [s.link EXCEPT ![from] = l]
             nbs   == [s.nb EXCEPT ![from] = b]
  <2>1. links \in [Node -> LinkState] /\ nbs \in [Node -> NbStatus] /\ s.ansn + new \in Nat
    BY <1>2, <1>3, <1>5 DEF NodeState, LinkState, NbStatus
  <2>2. t = [s EXCEPT !.link = links, !.nb = nbs, !.ansn = s.ansn + new]
    BY <1>1
  <2> HIDE DEF links, nbs
  <2> QED BY <1>3, <2>1, <2>2 DEF NodeState
<1>7. /\ \A m \in Node : /\ t.link[m] = IF m = from THEN l ELSE s.link[m]
                         /\ t.nb[m] = IF m = from THEN b ELSE s.nb[m]
      /\ t.two = s.two /\ t.mpr = s.mpr /\ t.sel = s.sel /\ t.topo = s.topo /\ t.table = s.table
  BY <1>1, <1>3 DEF NodeState
<1>8. Linked(n, L, t)
  <2> SUFFICES ASSUME NEW m \in Node
               PROVE  /\ t.link[m] = "none" <=> t.nb[m] = "none"
                      /\ t.link[m] # "none" => <<m, n>> \in L
                      /\ t.link[m] = "sym" \/ t.nb[m] = "sym" => <<n, m>> \in Both(L)
    BY DEF Linked
  <2>1. CASE m = from
    BY <1>2, <1>4, <1>7, <2>1
  <2>2. CASE m # from
    BY <1>3, <1>7, <2>2 DEF Linked
  <2> QED BY <2>1, <2>2
<1>9. Related(n, L, t) /\ GoodTable(n, L, t.table)
  BY <1>3, <1>7 DEF Related
<1> QED BY <1>6, <1>8, <1>9 DEF GoodStates, t

LEMMA TwoHopGood ==
    ASSUME NEW n \in Node, NEW L, NEW s \in GoodStates(n, L), NEW from \in Node,
           NEW says \in GoodSays(from, L)
    PROVE  PopulateTwoHopNeighborSet(n, s, from, says) \in GoodStates(n, L)
<1> DEFINE new == {<<from, z>> : z \in {x \in Node : x # n /\ says[x][2] \in {"sym", "mpr"}}}
           two == {t \in s.two : ~(t[1] = from /\ says[t[2]][2] = "not")} \cup new
           r == [s EXCEPT !.two = two]
<1>1. s \in NodeState /\ Linked(n, L, s) /\ Related(n, L, s) /\ GoodTable(n, L, s.table)
  BY DEF GoodStates
<1>2. new \subseteq Node \X Node /\ new \subseteq Both(L)
  <2>1. \A x \in Node : says[x][2] \in {"sym", "mpr"} => <<from, x>> \in Both(L)
    BY DEF GoodSays
  <2> QED BY <2>1
<1>3. two \subseteq Node \X Node /\ two \subseteq Both(L)
  BY <1>1, <1>2 DEF NodeState, Related
<1>4. PopulateTwoHopNeighborSet(n, s, from, says) = IF s.link[from] # "sym" THEN s ELSE r
  BY DEF PopulateTwoHopNeighborSet
<1> HIDE DEF two
<1>5. r \in NodeState
  BY <1>1, <1>3 DEF NodeState
<1>6. /\ r.two = two /\ r.link = s.link /\ r.nb = s.nb /\ r.mpr = s.mpr /\ r.sel = s.sel
      /\ r.topo = s.topo /\ r.table = s.table
  BY <1>1 DEF NodeState
<1> HIDE DEF r
<1>7. Linked(n, L, r) /\ Related(n, L, r) /\ GoodTable(n, L, r.table)
  BY <1>1, <1>3, <1>6 DEF Linked, Related
<1> QED BY <1>4, <1>5, <1>7 DEF GoodStates

(* MprComputation                                                          *)
LEMMA MprGood ==
    ASSUME NEW n \in Node, NEW L, NEW s \in GoodStates(n, L), NEW r \in MprComputation(n, s)
    PROVE  r \in GoodStates(n, L)
<1> DEFINE v == [self |-> n, nbr |-> SymNeighbors(s), two |-> s.two, will |-> Will]
<1>1. s \in NodeState /\ Linked(n, L, s) /\ Related(n, L, s) /\ GoodTable(n, L, s.table)
  BY DEF GoodStates
<1>2. PICK M \in MprSets(v) : r = [s EXCEPT !.mpr = M]
  BY DEF MprComputation
<1>3. v.two = s.two /\ v.nbr = SymNeighbors(s)
  OBVIOUS
<1>4. s.two \subseteq Node \X Node /\ IsFiniteSet(s.two)
  BY <1>1, RoutingAssumption, FS_Product, FS_Subset DEF NodeState
<1> HIDE DEF v
<1>5. \A y \in M : y \in SymNeighbors(s)
  BY <1>3, <1>4, RelaysOfAnyView
<1>6. M \subseteq Node /\ \A y \in M : <<n, y>> \in Both(L)
  BY <1>1, <1>5 DEF SymNeighbors, Linked
<1>7. r \in NodeState
  BY <1>1, <1>2, <1>6 DEF NodeState
<1>8. /\ r.mpr = M /\ r.two = s.two /\ r.link = s.link /\ r.nb = s.nb /\ r.sel = s.sel
      /\ r.topo = s.topo /\ r.table = s.table
  BY <1>1, <1>2 DEF NodeState
<1>9. Linked(n, L, r) /\ Related(n, L, r) /\ GoodTable(n, L, r.table)
  BY <1>1, <1>6, <1>8 DEF Linked, Related
<1> QED BY <1>7, <1>9 DEF GoodStates

LEMMA SelectorGood ==
    ASSUME NEW n \in Node, NEW L, NEW s \in GoodStates(n, L), NEW from \in Node,
           NEW says \in GoodSays(from, L)
    PROVE  PopulateMprSelectorSet(n, s, from, says) \in GoodStates(n, L)
<1> DEFINE r == [s EXCEPT !.sel = @ \cup {from}, !.ansn = @ + 1]
<1>1. s \in NodeState /\ Linked(n, L, s) /\ Related(n, L, s) /\ GoodTable(n, L, s.table)
  BY DEF GoodStates
<1>2. PopulateMprSelectorSet(n, s, from, says)
        = IF says[n][2] = "mpr" /\ from \notin s.sel THEN r ELSE s
  BY DEF PopulateMprSelectorSet
<1>3. CASE says[n][2] = "mpr"
  <2>1. <<n, from>> \in Both(L)
    BY <1>3, BothSymmetric DEF GoodSays
  <2>2. s.sel \cup {from} \in SUBSET Node /\ s.ansn + 1 \in Nat
    BY <1>1 DEF NodeState
  <2>3. r \in NodeState
    BY <1>1, <2>2 DEF NodeState
  <2>4. /\ r.sel = s.sel \cup {from} /\ r.two = s.two /\ r.link = s.link /\ r.nb = s.nb
        /\ r.mpr = s.mpr /\ r.topo = s.topo /\ r.table = s.table
    BY <1>1 DEF NodeState
  <2> HIDE DEF r
  <2>5. Linked(n, L, r) /\ Related(n, L, r) /\ GoodTable(n, L, r.table)
    BY <1>1, <2>1, <2>4 DEF Linked, Related
  <2> QED BY <1>2, <2>3, <2>5 DEF GoodStates
<1> QED BY <1>2, <1>3

LEMMA HelloGood ==
    ASSUME NEW n \in Node, NEW L, NEW s \in GoodStates(n, L), NEW from \in Node,
           <<from, n>> \in L, NEW says \in GoodSays(from, L),
           NEW r \in ProcessHello(n, s, from, says)
    PROVE  r \in GoodStates(n, L)
<1>1. PICK u \in MprComputation(n, PopulateTwoHopNeighborSet(n, LinkSensing(n, s, from, says),
                                                             from, says)) :
        r = PopulateMprSelectorSet(n, u, from, says)
  BY DEF ProcessHello
<1>2. u \in GoodStates(n, L)
  BY <1>1, LinkSensingGood, TwoHopGood, MprGood
<1> QED BY <1>1, <1>2, SelectorGood

LEMMA TcGood ==
    ASSUME NEW n \in Node, NEW L, NEW s \in GoodStates(n, L), NEW from, NEW m \in Tcs(L)
    PROVE  ProcessTc(s, from, m) \in GoodStates(n, L)
<1> DEFINE kept == {t \in s.topo : t.last = m.orig => t.seq >= m.ansn}
           news == {d \in m.adv : ~\E t \in kept : t.last = m.orig /\ t.dest = d}
           topo == kept \cup {[last |-> m.orig, dest |-> d, seq |-> m.ansn] : d \in news}
           r == [s EXCEPT !.topo = topo]
<1>1. s \in NodeState /\ Linked(n, L, s) /\ Related(n, L, s) /\ GoodTable(n, L, s.table)
  BY DEF GoodStates
<1>2. ProcessTc(s, from, m) \in {s, r}
  BY DEF ProcessTc
<1>3. ASSUME NEW t \in topo
      PROVE  t \in Topology /\ <<t.last, t.dest>> \in Both(L)
  <2>1. CASE t \in kept
    BY <1>1, <2>1 DEF NodeState, Related
  <2>2. CASE t \notin kept
    <3>1. PICK d \in news : t = [last |-> m.orig, dest |-> d, seq |-> m.ansn]
      BY <2>2
    <3>2. /\ m.orig \in Node /\ m.ansn \in Nat /\ d \in m.adv /\ d \in Node
          /\ <<m.orig, d>> \in Both(L)
      BY DEF Tcs
    <3> QED BY <3>1, <3>2 DEF Topology
  <2> QED BY <2>1, <2>2
<1> HIDE DEF topo
<1>4. r \in NodeState
  BY <1>1, <1>3 DEF NodeState
<1>5. /\ r.topo = topo /\ r.two = s.two /\ r.link = s.link /\ r.nb = s.nb
      /\ r.mpr = s.mpr /\ r.sel = s.sel /\ r.table = s.table
  BY <1>1 DEF NodeState
<1> HIDE DEF r
<1>6. Linked(n, L, r) /\ Related(n, L, r) /\ GoodTable(n, L, r.table)
  BY <1>1, <1>3, <1>5 DEF Linked, Related
<1> QED BY <1>2, <1>4, <1>6 DEF GoodStates

(* RoutingTableComputation                                                 *)
LEMMA RoutingGood ==
    ASSUME NEW n \in Node, NEW L, NEW s \in GoodStates(n, L),
           NEW r \in RoutingTableComputation(n, s)
    PROVE  r \in GoodStates(n, L) /\ r.link = s.link
<1>1. PICK tb \in Tables(n, s) : r = [s EXCEPT !.table = tb]
  BY DEF RoutingTableComputation
<1>2. s \in NodeState /\ Linked(n, L, s) /\ Related(n, L, s)
  BY DEF GoodStates
<1>3. s.two \subseteq Node \X Node /\ s.topo \subseteq Topology
  BY <1>2 DEF NodeState
<1>4. tb \in TablesUpTo(s, Cardinality(Node))
  BY <1>3, TablesRouted
<1>5. tb \in [Node -> Entry]
  BY <1>4 DEF TablesUpTo
<1>6. ASSUME NEW d \in Node, tb[d] # NoEntry PROVE Leads(n, L, tb, d)
  <2>1. Routed(s, Cardinality(Node), tb, d)
    BY <1>4, <1>6 DEF TablesUpTo
  <2>2. tb[d].next \in Node /\ s.nb[tb[d].next] = "sym"
    BY <2>1, EntryIsReal DEF Routed
  <2>3. <<n, tb[d].next>> \in Both(L)
    BY <1>2, <2>2 DEF Linked
  <2> QED BY <2>1, <2>3 DEF Routed, Leads
<1>7. r \in NodeState
  BY <1>1, <1>2, <1>5 DEF NodeState
<1>8. /\ r.table = tb /\ r.topo = s.topo /\ r.two = s.two /\ r.link = s.link /\ r.nb = s.nb
      /\ r.mpr = s.mpr /\ r.sel = s.sel
  BY <1>1, <1>2 DEF NodeState
<1>9. Linked(n, L, r) /\ Related(n, L, r) /\ GoodTable(n, L, r.table)
  BY <1>2, <1>6, <1>8 DEF Linked, Related, GoodTable
<1> QED BY <1>7, <1>8, <1>9 DEF GoodStates

(* NeighborLoss                                                            *)
LEMMA LossGood ==
    ASSUME NEW n \in Node, NEW L, NEW s \in GoodStates(n, L), NEW m \in Node,
           s.link[m] # "none", NEW r \in NeighborLoss(n, s, m)
    PROVE  r \in GoodStates(n, L)
<1> DEFINE nbs == [s.nb EXCEPT ![m] = "not_sym"]
           two == {t \in s.two : t[1] # m}
           sel == s.sel \ {m}
           u   == [s EXCEPT !.nb = nbs, !.two = two, !.sel = sel]
<1>1. s \in NodeState /\ Linked(n, L, s) /\ Related(n, L, s) /\ GoodTable(n, L, s.table)
  BY DEF GoodStates
<1>2. PICK t \in MprComputation(n, u) : r \in RoutingTableComputation(n, t)
  BY DEF NeighborLoss
<1>3. /\ nbs \in [Node -> NbStatus] /\ two \in SUBSET (Node \X Node) /\ sel \in SUBSET Node
      /\ \A x \in Node : nbs[x] = IF x = m THEN "not_sym" ELSE s.nb[x]
      /\ two \subseteq s.two /\ sel \subseteq s.sel
  BY <1>1 DEF NodeState, NbStatus
<1> HIDE DEF nbs, two, sel
<1>4. u \in NodeState
  BY <1>1, <1>3 DEF NodeState
<1>5. /\ u.nb = nbs /\ u.two = two /\ u.sel = sel /\ u.link = s.link /\ u.mpr = s.mpr
      /\ u.topo = s.topo /\ u.table = s.table
  BY <1>1 DEF NodeState
<1> HIDE DEF u
<1>6. Linked(n, L, u)
  <2> SUFFICES ASSUME NEW x \in Node
               PROVE  /\ u.link[x] = "none" <=> u.nb[x] = "none"
                      /\ u.link[x] # "none" => <<x, n>> \in L
                      /\ u.link[x] = "sym" \/ u.nb[x] = "sym" => <<n, x>> \in Both(L)
    BY DEF Linked
  <2> QED BY <1>1, <1>3, <1>5 DEF Linked
<1>7. Related(n, L, u) /\ GoodTable(n, L, u.table)
  BY <1>1, <1>3, <1>5 DEF Related
<1>8. u \in GoodStates(n, L)
  BY <1>4, <1>6, <1>7 DEF GoodStates
<1> QED BY <1>2, <1>8, MprGood, RoutingGood

LEMMA TimerGood ==
    ASSUME NEW n \in Node, NEW L, NEW s \in GoodStates(n, L), NEW m \in Node,
           s.link[m] # "none", NEW r \in LinkTupleTimerExpire(n, s, m)
    PROVE  r \in GoodStates(n, L)
<1>1. CASE s.first
  <2> DEFINE u == [s EXCEPT !.first = FALSE]
  <2>1. r = u
    BY <1>1 DEF LinkTupleTimerExpire
  <2>2. s \in NodeState /\ Linked(n, L, s) /\ Related(n, L, s) /\ GoodTable(n, L, s.table)
    BY DEF GoodStates
  <2>3. u \in NodeState
    BY <2>2 DEF NodeState
  <2>4. /\ u.nb = s.nb /\ u.two = s.two /\ u.sel = s.sel /\ u.link = s.link
        /\ u.mpr = s.mpr /\ u.topo = s.topo /\ u.table = s.table
    BY <2>2 DEF NodeState
  <2> HIDE DEF u
  <2>5. Linked(n, L, u) /\ Related(n, L, u) /\ GoodTable(n, L, u.table)
    BY <2>2, <2>4 DEF Linked, Related
  <2> QED BY <2>1, <2>3, <2>5 DEF GoodStates
<1>2. CASE ~s.first
  BY <1>2, LossGood DEF LinkTupleTimerExpire
<1> QED BY <1>1, <1>2

(* RecvOlsr: a message, the messages of a packet, the packet.              *)
GoodResults(n, L) == [s : GoodStates(n, L), q : Seq(GoodMsgs(n, L))]

LEMMA MsgKinds ==
    ASSUME NEW n, NEW L, NEW m \in GoodMsgs(n, L)
    PROVE  /\ m.kind = "hello" => \E says \in GoodSays(n, L) : m = Hello(says)
           /\ m.kind # "hello" => m \in Tcs(L)
BY DEF GoodMsgs, Hellos, Tcs, Hello

LEMMA HandleGood ==
    ASSUME NEW n \in Node, NEW L, NEW r \in GoodResults(n, L), NEW from \in Node,
           <<from, n>> \in L, NEW m \in GoodMsgs(from, L), NEW x \in Handle(n, r, from, m)
    PROVE  x \in GoodResults(n, L)
<1>1. r.s \in GoodStates(n, L) /\ r.q \in Seq(GoodMsgs(n, L))
  BY DEF GoodResults
<1>2. CASE m.kind = "hello"
  <2>1. m.says \in GoodSays(from, L)
    BY <1>2, MsgKinds DEF Hello
  <2>2. PICK t \in ProcessHello(n, r.s, from, m.says) : x = [s |-> t, q |-> r.q]
    BY <1>2 DEF Handle
  <2>3. t \in GoodStates(n, L)
    BY <1>1, <2>1, HelloGood
  <2> QED BY <1>1, <2>2, <2>3 DEF GoodResults
<1>3. CASE m.kind # "hello"
  <2> DEFINE t == ProcessTc(r.s, from, m)
             dup == t.dup \cup {<<m.orig, m.id>>}
             u == [t EXCEPT !.dup = dup]
             q == IF from \in r.s.sel THEN Append(r.q, m) ELSE r.q
  <2>1. m \in Tcs(L)
    BY <1>3, MsgKinds
  <2>2. t \in GoodStates(n, L)
    BY <1>1, <2>1, TcGood
  <2>3. x = r \/ x = [s |-> t, q |-> r.q] \/ x = [s |-> u, q |-> q]
    BY <1>3 DEF Handle
  <2> HIDE DEF t
  <2>4. t \in NodeState /\ Linked(n, L, t) /\ Related(n, L, t) /\ GoodTable(n, L, t.table)
    BY <2>2 DEF GoodStates
  <2>5. dup \subseteq Node \X MsgId
    BY <2>1, <2>4 DEF NodeState, Tcs
  <2> HIDE DEF dup
  <2>6. u \in NodeState
    BY <2>4, <2>5 DEF NodeState
  <2>7. /\ u.nb = t.nb /\ u.two = t.two /\ u.sel = t.sel /\ u.link = t.link
        /\ u.mpr = t.mpr /\ u.topo = t.topo /\ u.table = t.table
    BY <2>4 DEF NodeState
  <2> HIDE DEF u
  <2>8. Linked(n, L, u) /\ Related(n, L, u) /\ GoodTable(n, L, u.table)
    BY <2>4, <2>7 DEF Linked, Related
  <2>9. u \in GoodStates(n, L)
    BY <2>6, <2>8 DEF GoodStates
  <2>10. q \in Seq(GoodMsgs(n, L))
    BY <1>1, <2>1 DEF GoodMsgs
  <2> HIDE DEF q
  <2> QED BY <1>1, <2>2, <2>3, <2>9, <2>10 DEF GoodResults
<1> QED BY <1>2, <1>3

LEMMA HandledGood ==
    ASSUME NEW n \in Node, NEW L, st[n] \in GoodStates(n, L),
           queue[n] \in Seq(GoodMsgs(n, L)), NEW from \in Node, <<from, n>> \in L,
           NEW p \in Seq(GoodMsgs(from, L)), NEW r \in Handled(n, from, p)
    PROVE  r \in GoodResults(n, L)
<1> DEFINE k == Len(p)
           S == SUBSET GoodResults(n, L)
           start == {[s |-> st[n], q |-> queue[n]]}
           G == [i \in 0 .. k |-> [R \in S |-> IF i = 0 THEN R
                                               ELSE UNION {Handle(n, x, from, p[i]) : x \in R}]]
           after == CHOOSE after :
                      after = [i \in 0 .. k |->
                                 IF i = 0 THEN start
                                 ELSE UNION {Handle(n, x, from, p[i]) : x \in after[i - 1]}]
<1>1. k \in Nat /\ \A i \in 1 .. k : p[i] \in GoodMsgs(from, L)
  OBVIOUS
<1>2. start \in S
  BY DEF GoodResults
<1>3. ASSUME NEW i \in 0 .. k, i # 0, NEW R \in S
      PROVE  UNION {Handle(n, x, from, p[i]) : x \in R} \in S
  <2>1. p[i] \in GoodMsgs(from, L)
    <3>1. i \in 1 .. k
      BY <1>1, <1>3
    <3> QED BY <1>1, <3>1
  <2>2. ASSUME NEW x \in R, NEW y \in Handle(n, x, from, p[i])
        PROVE  y \in GoodResults(n, L)
    BY <2>1, HandleGood
  <2> QED BY <2>2
<1>4. Handled(n, from, p) = after[k]
  BY DEF Handled
<1> HIDE DEF S, start
<1>5. G \in [0 .. k -> [S -> S]]
  BY <1>3
<1>6. \A i \in 0 .. k, R \in S : i # 0 => G[i][R] = UNION {Handle(n, x, from, p[i]) : x \in R}
  OBVIOUS
<1> HIDE DEF G, k
<1>7. PICK f \in [0 .. k -> S] : IsLoop(0, k, start, G, f)
  BY <1>1, <1>2, <1>5, LoopExists
<1>8. f = [i \in 0 .. k |-> IF i = 0 THEN start
                            ELSE UNION {Handle(n, x, from, p[i]) : x \in f[i - 1]}]
  <2>1. \A i \in 0 .. k : i # 0 =>
           /\ f[i - 1] \in S
           /\ G[i][f[i - 1]] = UNION {Handle(n, x, from, p[i]) : x \in f[i - 1]}
    BY <1>1, <1>6
  <2>2. \A i \in 0 .. k : f[i] = IF i = 0 THEN start
                                 ELSE UNION {Handle(n, x, from, p[i]) : x \in f[i - 1]}
    BY <1>7, <2>1 DEF IsLoop
  <2>3. f = [i \in 0 .. k |-> f[i]]
    OBVIOUS
  <2> QED BY <2>2, <2>3
<1>9. after = [i \in 0 .. k |-> IF i = 0 THEN start
                                ELSE UNION {Handle(n, x, from, p[i]) : x \in after[i - 1]}]
  BY <1>8
<1> HIDE DEF after
<1>10. after[0] \in S
  BY <1>1, <1>2, <1>9
<1>11. ASSUME NEW i \in 0 .. k, i # 0, after[i - 1] \in S PROVE after[i] \in S
  <2>1. after[i] = UNION {Handle(n, x, from, p[i]) : x \in after[i - 1]}
    BY <1>9, <1>11
  <2>2. UNION {Handle(n, x, from, p[i]) : x \in after[i - 1]} \in S
    BY <1>3, <1>11
  <2> QED BY <2>1, <2>2
<1>12. \A i \in 0 .. k : after[i] \in S
  BY <1>1, <1>10, <1>11, LoopKeeps
<1> QED BY <1>1, <1>4, <1>12 DEF S

LEMMA RecvGood ==
    ASSUME NEW n \in Node, NEW L, st[n] \in GoodStates(n, L),
           queue[n] \in Seq(GoodMsgs(n, L)), NEW from \in Node, <<from, n>> \in L,
           NEW p \in Seq(GoodMsgs(from, L)), NEW r \in RecvOlsr(n, from, p)
    PROVE  r \in GoodResults(n, L)
<1>1. PICK h \in Handled(n, from, p) : \E c \in Computed(n, h) :
        r \in IF st[n].link[from] = "none" /\ c.s.link[from] = "asym"
              THEN {[s |-> t, q |-> c.q] : t \in LinkTupleTimerExpire(n, c.s, from)}
              ELSE {c}
  BY DEF RecvOlsr
<1>2. PICK c \in Computed(n, h) :
        r \in IF st[n].link[from] = "none" /\ c.s.link[from] = "asym"
              THEN {[s |-> t, q |-> c.q] : t \in LinkTupleTimerExpire(n, c.s, from)}
              ELSE {c}
  BY <1>1
<1>3. h.s \in GoodStates(n, L) /\ h.q \in Seq(GoodMsgs(n, L))
  BY HandledGood DEF GoodResults
<1>4. c.s \in GoodStates(n, L) /\ c.q \in Seq(GoodMsgs(n, L)) /\ c \in GoodResults(n, L)
  <2>1. PICK t \in RoutingTableComputation(n, h.s) : c = [s |-> t, q |-> h.q]
    BY DEF Computed
  <2>2. t \in GoodStates(n, L)
    BY <1>3, RoutingGood
  <2> QED BY <1>3, <2>1, <2>2 DEF GoodResults
<1>5. CASE r = c
  BY <1>4, <1>5
<1>6. CASE c.s.link[from] = "asym" /\ \E t \in LinkTupleTimerExpire(n, c.s, from) : r = [s |-> t, q |-> c.q]
  <2>1. PICK t \in LinkTupleTimerExpire(n, c.s, from) : r = [s |-> t, q |-> c.q]
    BY <1>6
  <2>2. t \in GoodStates(n, L)
    BY <1>4, <1>6, TimerGood
  <2> QED BY <1>4, <2>1, <2>2 DEF GoodResults
<1> QED BY <1>2, <1>5, <1>6

(* SendHello                                                               *)
LEMMA SaysGood ==
    ASSUME NEW n \in Node, NEW L, NEW s \in GoodStates(n, L)
    PROVE  SaysOf(s) \in GoodSays(n, L)
<1>1. s \in NodeState /\ Linked(n, L, s) /\ Related(n, L, s)
  BY DEF GoodStates
<1>2. ASSUME NEW m \in Node
      PROVE  /\ SaysOf(s)[m] \in Words \X Words
             /\ SaysOf(s)[m][1] \in {"sym", "asym"} => <<m, n>> \in L
             /\ SaysOf(s)[m][2] \in {"sym", "mpr"} => <<n, m>> \in Both(L)
  <2>1. CASE s.link[m] = "none"
    <3>1. SaysOf(s)[m] = <<"silent", "silent">>
      BY <2>1 DEF SaysOf, Silent
    <3> QED BY <3>1 DEF Words
  <2>2. CASE s.link[m] # "none"
    <3>1. SaysOf(s)[m] = <<s.link[m], NeighborType(s, m)>>
      BY <2>2 DEF SaysOf
    <3>2. /\ s.link[m] \in {"asym", "sym", "lost"} /\ <<m, n>> \in L
          /\ NeighborType(s, m) \in {"mpr", "sym", "not"}
      BY <1>1, <2>2 DEF NodeState, LinkState, Linked, NeighborType
    <3>3. NeighborType(s, m) \in {"sym", "mpr"} => <<n, m>> \in Both(L)
      BY <1>1 DEF NeighborType, Linked, Related
    <3> QED BY <3>1, <3>2, <3>3 DEF Words
  <2> QED BY <2>1, <2>2
<1>3. SaysOf(s) = [m \in Node |-> SaysOf(s)[m]]
  BY DEF SaysOf
<1> QED BY <1>2, <1>3 DEF GoodSays

-----------------------------------------------------------------------------
(* The steps of the nodes *)

(* What is up is a link, what comes up late is not yet up, and every state *)
(* and every queue is one that these links allow.                          *)
NetInv ==
    /\ net \in Network /\ \A n \in Node : <<n, n>> \notin net.link
    /\ net.late \subseteq net.link /\ up \subseteq net.link /\ net.late \cap up = {}

RInv ==
    /\ NetInv
    /\ DOMAIN st = Node /\ \A n \in Node : st[n] \in GoodStates(n, net.link)
    /\ DOMAIN queue = Node /\ \A n \in Node : queue[n] \in Seq(GoodMsgs(n, net.link))

(* Only the state of n changes.                                            *)
LEMMA StateKeeps ==
    ASSUME RInv, NEW n \in Node, NEW s \in GoodStates(n, net.link),
           st' = [st EXCEPT ![n] = s], UNCHANGED <<queue, net, up>>
    PROVE  RInv'
<1>1. DOMAIN st' = Node /\ \A x \in Node : st'[x] = IF x = n THEN s ELSE st[x]
  BY DEF RInv
<1>2. \A x \in Node : st'[x] \in GoodStates(x, net.link)
  BY <1>1 DEF RInv
<1>3. NetInv'
  BY DEF RInv, NetInv
<1> QED BY <1>1, <1>2, <1>3 DEF RInv

(* The queues change, the states do not.                                   *)
LEMMA QueuesKeep ==
    ASSUME RInv, UNCHANGED <<st, net, up>>, DOMAIN queue' = Node,
           \A n \in Node : queue'[n] \in Seq(GoodMsgs(n, net.link))
    PROVE  RInv'
<1>1. NetInv'
  BY DEF RInv, NetInv
<1> QED BY <1>1 DEF RInv

LEMMA HelloTimerKeeps ==
    ASSUME RInv, HelloTimerExpire
    PROVE  RInv'
<1>1. /\ queue' = [n \in Node |-> IF n \in net.node
                                  THEN Append(queue[n], Hello(SaysOf(st[n]))) ELSE <<>>]
      /\ UNCHANGED <<st, net, up>>
  BY DEF HelloTimerExpire
<1>2. ASSUME NEW n \in Node PROVE queue'[n] \in Seq(GoodMsgs(n, net.link))
  <2>1. Hello(SaysOf(st[n])) \in GoodMsgs(n, net.link)
    BY SaysGood DEF RInv, GoodMsgs, Hellos
  <2>2. queue[n] \in Seq(GoodMsgs(n, net.link))
    BY DEF RInv
  <2>3. /\ Append(queue[n], Hello(SaysOf(st[n]))) \in Seq(GoodMsgs(n, net.link))
        /\ <<>> \in Seq(GoodMsgs(n, net.link))
    BY <2>1, <2>2
  <2> QED BY <1>1, <2>3
<1> QED BY <1>1, <1>2, QueuesKeep

LEMMA TcTimerKeeps ==
    ASSUME RInv, TcTimerExpire
    PROVE  RInv'
<1> DEFINE id(n) == CHOOSE i \in Unused(n) : TRUE
           tc(n) == Tc(n, id(n), st[n].ansn, st[n].sel)
<1>1. /\ queue' = [n \in Node |-> IF n \in Chosen THEN Append(queue[n], tc(n)) ELSE queue[n]]
      /\ UNCHANGED <<st, net, up>> /\ TcDue
  BY DEF TcTimerExpire
<1>2. ASSUME NEW n \in Node PROVE queue'[n] \in Seq(GoodMsgs(n, net.link))
  <2>1. queue[n] \in Seq(GoodMsgs(n, net.link))
    BY DEF RInv
  <2>2. ASSUME n \in Chosen PROVE tc(n) \in GoodMsgs(n, net.link)
    <3>1. Unused(n) # {} /\ Unused(n) \subseteq MsgId
      BY <1>1, <2>2 DEF TcDue, Unused
    <3>2. id(n) \in MsgId
      BY <3>1
    <3>3. /\ st[n].ansn \in Nat /\ st[n].sel \subseteq Node
          /\ \A m \in st[n].sel : <<n, m>> \in Both(net.link)
      BY DEF RInv, GoodStates, NodeState, Related
    <3> HIDE DEF id
    <3>4. tc(n) \in Tcs(net.link)
      BY <3>2, <3>3 DEF Tc, Tcs
    <3> QED BY <3>4 DEF GoodMsgs
  <2> HIDE DEF tc
  <2>3. n \in Chosen => Append(queue[n], tc(n)) \in Seq(GoodMsgs(n, net.link))
    BY <2>1, <2>2
  <2> QED BY <1>1, <2>1, <2>3
<1> HIDE DEF tc
<1> QED BY <1>1, <1>2, QueuesKeep

LEMMA SendKeeps ==
    ASSUME RInv, NEW n \in Node, SendQueuedMessages(n)
    PROVE  RInv'
<1> DEFINE to == {m \in Node : <<n, m>> \in up}
<1>1. PICK r : /\ \A m \in to : r[m] \in RecvOlsr(m, n, queue[n])
               /\ st' = [m \in Node |-> IF m \in to THEN r[m].s ELSE st[m]]
               /\ queue' = [m \in Node |-> IF m = n THEN <<>>
                                           ELSE IF m \in to THEN r[m].q ELSE queue[m]]
  BY DEF SendQueuedMessages
<1>2. net' = net /\ up' = up
  BY DEF SendQueuedMessages
<1>3. ASSUME NEW m \in to PROVE r[m] \in GoodResults(m, net.link)
  <2>1. <<n, m>> \in net.link /\ m \in Node
    BY DEF RInv, NetInv
  <2>2. /\ st[m] \in GoodStates(m, net.link) /\ queue[m] \in Seq(GoodMsgs(m, net.link))
        /\ queue[n] \in Seq(GoodMsgs(n, net.link))
    BY <2>1 DEF RInv
  <2>3. r[m] \in RecvOlsr(m, n, queue[n])
    BY <1>1
  <2> QED BY <2>1, <2>2, <2>3, RecvGood
<1>4. \A m \in to : r[m].s \in GoodStates(m, net.link) /\ r[m].q \in Seq(GoodMsgs(m, net.link))
  BY <1>3 DEF GoodResults
<1>5. \A m \in Node : st'[m] \in GoodStates(m, net.link)
  BY <1>1, <1>4 DEF RInv
<1>6. \A m \in Node : queue'[m] \in Seq(GoodMsgs(m, net.link))
  <2>1. \A m \in Node : <<>> \in Seq(GoodMsgs(m, net.link))
    OBVIOUS
  <2> QED BY <1>1, <1>4, <2>1 DEF RInv
<1>7. DOMAIN st' = Node /\ DOMAIN queue' = Node
  BY <1>1
<1>8. NetInv'
  BY <1>2 DEF RInv, NetInv
<1> QED BY <1>2, <1>5, <1>6, <1>7, <1>8 DEF RInv

-----------------------------------------------------------------------------
(* Time and links *)

(* A link tuple that exists is no longer symmetric.                        *)
LEMMA LinkEndsGood ==
    ASSUME NEW n \in Node, NEW L, NEW s \in GoodStates(n, L), NEW m \in Node,
           s.link[m] # "none", NEW l \in {"asym", "lost"}
    PROVE  [s EXCEPT !.link[m] = l] \in GoodStates(n, L)
<1> DEFINE links == [s.link EXCEPT ![m] = l]
           u == [s EXCEPT !.link = links]
<1>1. s \in NodeState /\ Linked(n, L, s) /\ Related(n, L, s) /\ GoodTable(n, L, s.table)
  BY DEF GoodStates
<1>2. /\ links \in [Node -> LinkState]
      /\ \A x \in Node : links[x] = IF x = m THEN l ELSE s.link[x]
  BY <1>1 DEF NodeState, LinkState
<1>3. [s EXCEPT !.link[m] = l] = u
  OBVIOUS
<1> HIDE DEF links
<1>4. u \in NodeState
  BY <1>1, <1>2 DEF NodeState
<1>5. /\ u.link = links /\ u.nb = s.nb /\ u.two = s.two /\ u.sel = s.sel
      /\ u.mpr = s.mpr /\ u.topo = s.topo /\ u.table = s.table
  BY <1>1 DEF NodeState
<1> HIDE DEF u
<1>6. Linked(n, L, u)
  BY <1>1, <1>2, <1>5 DEF Linked
<1>7. Related(n, L, u) /\ GoodTable(n, L, u.table)
  BY <1>1, <1>5 DEF Related
<1> QED BY <1>3, <1>4, <1>6, <1>7 DEF GoodStates

(* It is removed, with its neighbour tuple.                                *)
LEMMA LinkGoneGood ==
    ASSUME NEW n \in Node, NEW L, NEW s \in GoodStates(n, L), NEW m \in Node
    PROVE  [s EXCEPT !.link[m] = "none", !.nb[m] = "none"] \in GoodStates(n, L)
<1> DEFINE links == [s.link EXCEPT ![m] = "none"]
           nbs == [s.nb EXCEPT ![m] = "none"]
           u == [s EXCEPT !.link = links, !.nb = nbs]
<1>1. s \in NodeState /\ Linked(n, L, s) /\ Related(n, L, s) /\ GoodTable(n, L, s.table)
  BY DEF GoodStates
<1>2. /\ links \in [Node -> LinkState] /\ nbs \in [Node -> NbStatus]
      /\ \A x \in Node : /\ links[x] = IF x = m THEN "none" ELSE s.link[x]
                         /\ nbs[x] = IF x = m THEN "none" ELSE s.nb[x]
  BY <1>1 DEF NodeState, LinkState, NbStatus
<1>3. [s EXCEPT !.link[m] = "none", !.nb[m] = "none"] = u
  BY <1>1 DEF NodeState
<1> HIDE DEF links, nbs
<1>4. u \in NodeState
  BY <1>1, <1>2 DEF NodeState
<1>5. /\ u.link = links /\ u.nb = nbs /\ u.two = s.two /\ u.sel = s.sel
      /\ u.mpr = s.mpr /\ u.topo = s.topo /\ u.table = s.table
  BY <1>1 DEF NodeState
<1> HIDE DEF u
<1>6. Linked(n, L, u)
  BY <1>1, <1>2, <1>5 DEF Linked
<1>7. Related(n, L, u) /\ GoodTable(n, L, u.table)
  BY <1>1, <1>5 DEF Related
<1> QED BY <1>3, <1>4, <1>6, <1>7 DEF GoodStates

(* Other tuples are removed.                                               *)
LEMMA ForgetGood ==
    ASSUME NEW n \in Node, NEW L, NEW s \in GoodStates(n, L),
           NEW two \in SUBSET s.two, NEW sel \in SUBSET s.sel, NEW topo \in SUBSET s.topo,
           NEW dup \in SUBSET s.dup, NEW ansn \in Nat
    PROVE  [s EXCEPT !.two = two, !.sel = sel, !.topo = topo, !.dup = dup, !.ansn = ansn]
             \in GoodStates(n, L)
<1> DEFINE u == [s EXCEPT !.two = two, !.sel = sel, !.topo = topo, !.dup = dup, !.ansn = ansn]
<1>1. s \in NodeState /\ Linked(n, L, s) /\ Related(n, L, s) /\ GoodTable(n, L, s.table)
  BY DEF GoodStates
<1>2. u \in NodeState
  BY <1>1 DEF NodeState
<1>3. /\ u.link = s.link /\ u.nb = s.nb /\ u.two = two /\ u.sel = sel
      /\ u.mpr = s.mpr /\ u.topo = topo /\ u.table = s.table
  BY <1>1 DEF NodeState
<1> HIDE DEF u
<1>4. Linked(n, L, u) /\ Related(n, L, u) /\ GoodTable(n, L, u.table)
  BY <1>1, <1>3 DEF Linked, Related
<1> QED BY <1>2, <1>4 DEF GoodStates, u

LEMMA LinkKeeps ==
    ASSUME RInv, NEW n \in Node, NEW m \in Node,
           SymTimeEnds(n, m) \/ AsymTimeEnds(n, m) \/ LinkTimeEnds(n, m) \/ StillNotSym(n, m)
    PROVE  RInv'
<1>1. st[n] \in GoodStates(n, net.link)
  BY DEF RInv
<1>2. CASE SymTimeEnds(n, m)
  <2> DEFINE l == IF <<m, n>> \in up THEN "asym" ELSE "lost"
             u == [st[n] EXCEPT !.link[m] = l]
  <2>1. /\ st[n].link[m] = "sym" /\ UNCHANGED <<queue, net, up>>
        /\ \E s \in LinkTupleTimerExpire(n, u, m) : st' = [st EXCEPT ![n] = s]
    BY <1>2 DEF SymTimeEnds, SymTimeDue, Becomes
  <2>2. u \in GoodStates(n, net.link)
    BY <1>1, <2>1, LinkEndsGood
  <2>3. u.link[m] # "none"
    BY <1>1 DEF GoodStates, NodeState
  <2> HIDE DEF u
  <2>4. PICK s \in LinkTupleTimerExpire(n, u, m) : st' = [st EXCEPT ![n] = s]
    BY <2>1
  <2>5. s \in GoodStates(n, net.link)
    BY <2>2, <2>3, TimerGood
  <2> QED BY <2>1, <2>4, <2>5, StateKeeps
<1>3. CASE AsymTimeEnds(n, m)
  <2> DEFINE u == [st[n] EXCEPT !.link[m] = "lost"]
  <2>1. /\ st[n].link[m] = "asym" /\ UNCHANGED <<queue, net, up>>
        /\ st' = [st EXCEPT ![n] = u]
    BY <1>3 DEF AsymTimeEnds, AsymTimeDue
  <2>2. u \in GoodStates(n, net.link)
    BY <1>1, <2>1, LinkEndsGood
  <2> HIDE DEF u
  <2> QED BY <2>1, <2>2, StateKeeps
<1>4. CASE LinkTimeEnds(n, m)
  <2> DEFINE u == [st[n] EXCEPT !.link[m] = "none", !.nb[m] = "none"]
  <2>1. UNCHANGED <<queue, net, up>> /\ st' = [st EXCEPT ![n] = u]
    BY <1>4 DEF LinkTimeEnds, RInv
  <2>2. u \in GoodStates(n, net.link)
    BY <1>1, LinkGoneGood
  <2> HIDE DEF u
  <2> QED BY <2>1, <2>2, StateKeeps
<1>5. CASE StillNotSym(n, m)
  <2>1. PICK s \in LinkTupleTimerExpire(n, st[n], m) : st' = [st EXCEPT ![n] = s]
    BY <1>5 DEF StillNotSym, Becomes
  <2>2. st[n].link[m] = "asym" /\ UNCHANGED <<queue, net, up>>
    BY <1>5 DEF StillNotSym
  <2>3. s \in GoodStates(n, net.link)
    BY <1>1, <2>2, TimerGood
  <2> QED BY <2>1, <2>2, <2>3, StateKeeps
<1> QED BY <1>2, <1>3, <1>4, <1>5

LEMMA TuplesKeep ==
    ASSUME RInv, NEW n \in Node,
           TwoHopExpires(n) \/ MprSelExpires(n) \/ TopologyExpires(n)
    PROVE  RInv'
<1> DEFINE s == st[n]
           To(two, sel, topo, ansn) ==
             [s EXCEPT !.two = two, !.sel = sel, !.topo = topo, !.dup = s.dup, !.ansn = ansn]
<1>1. s \in GoodStates(n, net.link) /\ s \in NodeState
  BY DEF RInv, GoodStates
<1>2. \E two \in SUBSET s.two, sel \in SUBSET s.sel, topo \in SUBSET s.topo, ansn \in Nat :
         st' = [st EXCEPT ![n] = To(two, sel, topo, ansn)]
  <2>0. s.ansn \in Nat
    BY <1>1 DEF NodeState
  <2>1. CASE TwoHopExpires(n)
    <3>1. PICK t \in s.two : st' = [st EXCEPT ![n].two = @ \ {t}]
      BY <2>1 DEF TwoHopExpires, Nb2hopTupleTimerExpire
    <3>2. [s EXCEPT !.two = s.two \ {t}] = To(s.two \ {t}, s.sel, s.topo, s.ansn)
      BY <1>1 DEF NodeState
    <3>3. st' = [st EXCEPT ![n] = [s EXCEPT !.two = s.two \ {t}]]
      BY <3>1
    <3> HIDE DEF s, To
    <3> QED BY <2>0, <3>2, <3>3
  <2>2. CASE MprSelExpires(n)
    <3>1. PICK m \in Node : st' = [st EXCEPT ![n].sel = @ \ {m}, ![n].ansn = @ + 1]
      BY <2>2 DEF MprSelExpires, MprSelTupleTimerExpire
    <3>2. [s EXCEPT !.sel = s.sel \ {m}, !.ansn = s.ansn + 1]
            = To(s.two, s.sel \ {m}, s.topo, s.ansn + 1)
      BY <1>1 DEF NodeState
    <3>3. st' = [st EXCEPT ![n] = [s EXCEPT !.sel = s.sel \ {m}, !.ansn = s.ansn + 1]]
      BY <3>1 DEF RInv
    <3>4. s.ansn + 1 \in Nat
      BY <2>0
    <3> HIDE DEF s, To
    <3> QED BY <3>2, <3>3, <3>4
  <2>3. CASE TopologyExpires(n)
    <3>1. PICK t \in s.topo : st' = [st EXCEPT ![n].topo = @ \ {t}]
      BY <2>3 DEF TopologyExpires, TopologyTupleTimerExpire
    <3>2. [s EXCEPT !.topo = s.topo \ {t}] = To(s.two, s.sel, s.topo \ {t}, s.ansn)
      BY <1>1 DEF NodeState
    <3>3. st' = [st EXCEPT ![n] = [s EXCEPT !.topo = s.topo \ {t}]]
      BY <3>1
    <3> HIDE DEF s, To
    <3> QED BY <2>0, <3>2, <3>3
  <2> QED BY <2>1, <2>2, <2>3
<1>3. UNCHANGED <<queue, net, up>>
  BY DEF TwoHopExpires, Nb2hopTupleTimerExpire, MprSelExpires, MprSelTupleTimerExpire,
         TopologyExpires, TopologyTupleTimerExpire
<1>4. PICK two \in SUBSET s.two, sel \in SUBSET s.sel, topo \in SUBSET s.topo, ansn \in Nat :
        st' = [st EXCEPT ![n] = To(two, sel, topo, ansn)]
  BY <1>2
<1>5. To(two, sel, topo, ansn) \in GoodStates(n, net.link)
  BY <1>1, ForgetGood
<1> HIDE DEF To
<1> QED BY <1>3, <1>4, <1>5, StateKeeps

LEMMA DupKeeps ==
    ASSUME RInv, DupExpires
    PROVE  RInv'
<1>1. PICK k : DupTupleTimerExpire(k)
  BY DEF DupExpires
<1>2. /\ st' = [n \in Node |-> [st[n] EXCEPT !.dup = @ \ {k}]]
      /\ UNCHANGED <<queue, net, up>>
  BY <1>1 DEF DupTupleTimerExpire
<1>3. ASSUME NEW n \in Node PROVE st'[n] \in GoodStates(n, net.link)
  <2> DEFINE s == st[n]
             u == [s EXCEPT !.two = s.two, !.sel = s.sel, !.topo = s.topo,
                            !.dup = s.dup \ {k}, !.ansn = s.ansn]
  <2>1. s \in GoodStates(n, net.link) /\ s \in NodeState /\ s.ansn \in Nat
    BY DEF RInv, GoodStates, NodeState
  <2>2. st'[n] = u
    BY <1>2, <2>1 DEF NodeState
  <2>3. u \in GoodStates(n, net.link)
    BY <2>1, ForgetGood
  <2> QED BY <2>2, <2>3
<1>4. NetInv' /\ DOMAIN st' = Node
  BY <1>2 DEF RInv, NetInv
<1> QED BY <1>2, <1>3, <1>4 DEF RInv

LEMMA NetworkKeeps ==
    ASSUME RInv, NEW m \in Node, NEW n \in Node, Appear(m, n) \/ Break(m, n)
    PROVE  RInv'
<1>1. NetInv
  BY DEF RInv
<1>2. UNCHANGED <<st, queue>>
  BY DEF Appear, Break
<1>3. net'.link = net.link /\ NetInv'
  <2>1. CASE Appear(m, n)
    <3> DEFINE late == net.late \ {<<m, n>>}
    <3>1. net' = [net EXCEPT !.late = late] /\ <<m, n>> \in net.late /\ up' = up \cup {<<m, n>>}
      BY <2>1 DEF Appear
    <3>2. net' \in Network /\ net'.link = net.link /\ net'.late = late
      BY <1>1, <3>1 DEF NetInv, Network
    <3> QED BY <1>1, <3>1, <3>2 DEF NetInv
  <2>2. CASE Break(m, n)
    <3>1. /\ net' = [net EXCEPT !.fragile = {}]
          /\ up' = up \ {<<m, n>>, <<n, m>>} \/ up' = up \ {<<m, n>>}
      BY <2>2 DEF Break
    <3>2. net' \in Network /\ net'.link = net.link /\ net'.late = net.late
      BY <1>1, <3>1 DEF NetInv, Network
    <3> QED BY <1>1, <3>1, <3>2 DEF NetInv
  <2> QED BY <2>1, <2>2
<1> QED BY <1>2, <1>3 DEF RInv

LEMMA FreshGood ==
    ASSUME NEW n \in Node, NEW L
    PROVE  Fresh \in GoodStates(n, L)
<1>1. Fresh \in NodeState
  BY DEF Fresh, NodeState, LinkState, NbStatus, Entry
<1>2. Linked(n, L, Fresh) /\ Related(n, L, Fresh) /\ GoodTable(n, L, Fresh.table)
  BY DEF Fresh, Linked, Related, GoodTable
<1> QED BY <1>1, <1>2 DEF GoodStates

LEMMA RoutingInit == Init => RInv
<1> SUFFICES ASSUME Init PROVE RInv
  OBVIOUS
<1>1. NetInv
  BY RoutingAssumption DEF Init, NetInv, Network
<1>2. \A n \in Node : st[n] \in GoodStates(n, net.link)
  BY FreshGood DEF Init
<1>3. \A n \in Node : queue[n] \in Seq(GoodMsgs(n, net.link))
  BY DEF Init
<1> QED BY <1>1, <1>2, <1>3 DEF Init, RInv

LEMMA RoutingStep == RInv /\ [Next]_vars => RInv'
<1> SUFFICES ASSUME RInv, [Next]_vars PROVE RInv'
  OBVIOUS
<1>1. CASE UNCHANGED vars
  BY <1>1 DEF vars, RInv, NetInv
<1>2. CASE Next
  BY <1>2, HelloTimerKeeps, TcTimerKeeps, DupKeeps, SendKeeps, LinkKeeps, TuplesKeep, NetworkKeeps
     DEF Next, LinkExpires
<1> QED BY <1>1, <1>2

THEOREM RoutingInvariance == Spec => []RInv
BY RoutingInit, RoutingStep, PTL DEF Spec

(* The sets of a node and its routing table keep their types.              *)
THEOREM RoutingTypes == Spec => []TypeOK
<1>1. RInv => TypeOK
  <2> SUFFICES ASSUME RInv PROVE TypeOK
    OBVIOUS
  <2>1. ASSUME NEW n \in Node
        PROVE  LET s == st[n]
               IN  /\ s.link \in [Node -> LinkState] /\ s.nb \in [Node -> NbStatus]
                   /\ \A m \in Node : s.link[m] = "none" <=> s.nb[m] = "none"
                   /\ s.link[n] = "none"
                   /\ s.two \subseteq Node \X Node /\ s.mpr \subseteq Node \ {n}
                   /\ s.sel \subseteq Node \ {n} /\ s.topo \subseteq Topology
                   /\ s.dup \subseteq Node \X MsgId
                   /\ s.ansn \in Nat /\ s.first \in BOOLEAN
                   /\ \A d \in Node : \/ s.table[d] = NoEntry
                                      \/ s.table[d] \in [dist : 1 .. Cardinality(Node), next : Node]
    <3> DEFINE s == st[n]
    <3>1. /\ s \in NodeState /\ Linked(n, net.link, s) /\ Related(n, net.link, s)
          /\ GoodTable(n, net.link, s.table)
      BY DEF RInv, GoodStates
    <3>2. <<n, n>> \notin net.link
      BY DEF RInv, NetInv
    <3> HIDE DEF s
    <3>3. s.link[n] = "none"
      BY <3>1, <3>2 DEF Linked
    <3>4. s.mpr \subseteq Node \ {n} /\ s.sel \subseteq Node \ {n}
      BY <3>1, <3>2 DEF NodeState, Related, Both
    <3>5. ASSUME NEW d \in Node, s.table[d] # NoEntry
          PROVE  s.table[d] \in [dist : 1 .. Cardinality(Node), next : Node]
      <4>1. s.table[d] \in RealEntry /\ s.table[d].dist <= Cardinality(Node)
        BY <3>1, <3>5 DEF GoodTable, Leads
      <4>2. Cardinality(Node) \in Nat
        BY RoutingAssumption, FS_CardinalityType
      <4> QED BY <4>1, <4>2 DEF RealEntry
    <3>6. \A m \in Node : s.link[m] = "none" <=> s.nb[m] = "none"
      BY <3>1 DEF Linked
    <3> QED BY <3>1, <3>3, <3>4, <3>5, <3>6 DEF NodeState, s
  <2>2. /\ net.link \subseteq Node \X Node /\ net.late \cap up = {}
        /\ up \subseteq net.link
    BY DEF RInv, NetInv, Network
  <2> QED BY <2>1, <2>2 DEF TypeOK
<1> QED BY <1>1, RoutingInvariance, PTL

(* Neighbours, relays, selectors, topology and next hops are links that    *)
(* work in both directions (LinkSensing, line 1980).                       *)
THEOREM LinksBothWays == Spec => []OnlyTwoWay
<1>1. RInv => OnlyTwoWay
  <2> SUFFICES ASSUME RInv, NEW n \in Node
               PROVE  LET s == st[n]
                      IN  /\ \A m \in SymNeighbors(s) \cup s.mpr \cup s.sel : <<n, m>> \in TwoWay
                          /\ s.two \subseteq TwoWay
                          /\ \A t \in s.topo : <<t.last, t.dest>> \in TwoWay
                          /\ \A d \in Node : s.table[d] # NoEntry => <<n, s.table[d].next>> \in TwoWay
    BY DEF OnlyTwoWay
  <2> DEFINE s == st[n]
  <2>1. /\ Linked(n, net.link, s) /\ Related(n, net.link, s)
        /\ GoodTable(n, net.link, s.table)
    BY DEF RInv, GoodStates
  <2>2. TwoWay = Both(net.link)
    BY DEF TwoWay, Both
  <2> HIDE DEF s
  <2>3. \A m \in SymNeighbors(s) \cup s.mpr \cup s.sel : <<n, m>> \in TwoWay
    BY <2>1, <2>2 DEF SymNeighbors, Linked, Related
  <2>4. s.two \subseteq TwoWay /\ \A t \in s.topo : <<t.last, t.dest>> \in TwoWay
    BY <2>1, <2>2 DEF Related
  <2>5. \A d \in Node : s.table[d] # NoEntry => <<n, s.table[d].next>> \in TwoWay
    BY <2>1, <2>2 DEF GoodTable, Leads
  <2> QED BY <2>3, <2>4, <2>5 DEF s
<1> QED BY <1>1, RoutingInvariance, PTL

(* The next hop of an entry has an entry that leads to itself: the fatal   *)
(* error of RouteOutput and RouteInput is never reached.                   *)
THEOREM SendEntries == Spec => []SendEntryFound
<1>1. RInv => SendEntryFound
  BY DEF RInv, GoodStates, GoodTable, Leads, SendEntryFound
<1> QED BY <1>1, RoutingInvariance, PTL
=============================================================================
