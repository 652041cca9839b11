------------------------------ MODULE OlsrMpr ------------------------------
(***************************************************************************)
(* How an OLSR node chooses its multipoint relays: MprComputation of       *)
(* olsr-routing-protocol.cc.  A view is what the computation reads:        *)
(*                                                                         *)
(*   self   the node itself                                                *)
(*   nbr    N, its symmetric neighbours                                    *)
(*   two    the 2-hop tuples: <<y, z>> says that neighbour y is next to z  *)
(*   will   the willingness in the neighbour tuples                        *)
(*                                                                         *)
(* "left" stands for the local variable N2: the 2-hop tuples whose second  *)
(* node is not yet covered.                                                *)
(***************************************************************************)
EXTENDS Naturals, FiniteSets

CONSTANT Node

NEVER   == 0
DEFAULT == 3
HIGH    == 6
ALWAYS  == 7
Willingness == NEVER .. ALWAYS

View == [self : Node, nbr : SUBSET Node, two : SUBSET (Node \X Node),
         will : [Node -> Willingness]]

(* Mutant: also through unwilling neighbours. *)
StrictTwoHopsOfAll(v) ==
    {t \in v.two : t[1] \in v.nbr /\ t[2] # v.self /\ t[2] \notin v.nbr}

(* N2 at the start: not the node itself, not its neighbours, and only      *)
(* through neighbours that are willing at all.                             *)
StrictTwoHops(v) ==
    {t \in v.two : /\ t[1] \in v.nbr /\ v.will[t[1]] # NEVER
                   /\ t[2] # v.self /\ t[2] \notin v.nbr}

(* Mutant: all that share a 2-hop neighbour with a relay count as covered. *)
UncoveredProviders(left, M) ==
    {t \in left : \A y \in M : t[1] # y /\ \A u \in left : u[1] = t[1] => <<y, u[2]>> \notin left}

(* CoverTwoHopNeighbors, for every neighbour in M.                         *)
Uncovered(left, M) == {t \in left : \A y \in M : <<y, t[2]>> \notin left}

(* Step 1: neighbours that always relay.                                   *)
AlwaysWilling(v) == {y \in v.nbr : v.will[y] = ALWAYS}

(* Step 3: neighbours that are the only ones next to some 2-hop neighbour. *)
OnlyProviders(left) ==
    {y \in {t[1] : t \in left} :
       \E t \in left : t[1] = y /\ \A u \in left : u[2] = t[2] => u[1] = y}

(* Step 4: the most willing of the neighbours that cover something, and of *)
(* these one that covers most.  D(y) does not decide: Degree counts the    *)
(* tuples of y if y has no neighbour tuple.                                *)
Reachability(left, y) == Cardinality({t \in left : t[1] = y})

(* Mutant: neighbours that cover nothing compete. *)
PreferredOfAll(v, left) ==
    {y \in v.nbr :
       \A x \in v.nbr :
         \/ v.will[y] > v.will[x]
         \/ v.will[y] = v.will[x] /\ Reachability(left, y) >= Reachability(left, x)}

Preferred(v, left) ==
    LET useful == {y \in v.nbr : Reachability(left, y) > 0}
    IN  {y \in useful :
           \A x \in useful :
             \/ v.will[y] > v.will[x]
             \/ v.will[y] = v.will[x] /\ Reachability(left, y) >= Reachability(left, x)}

(* Step 4 in all its ways: what it may add to the relays, by what is left  *)
(* to cover.  Which of several preferred neighbours is taken depends on    *)
(* the order of the neighbour set.                                         *)
FurtherRelays(v, start) ==
    LET rest[left \in SUBSET start] ==
          IF left = {} THEN {{}}
          ELSE UNION {{{y} \cup M : M \in rest[Uncovered(left, {y})]} : y \in Preferred(v, left)}
    IN  rest

(* All results of MprComputation.                                          *)
MprSets(v) ==
    LET left1 == Uncovered(StrictTwoHops(v), AlwaysWilling(v))
        left2 == Uncovered(left1, OnlyProviders(left1))
    IN  {AlwaysWilling(v) \cup OnlyProviders(left1) \cup M : M \in FurtherRelays(v, left2)[left2]}
=============================================================================
