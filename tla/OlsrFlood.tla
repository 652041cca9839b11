----------------------------- MODULE OlsrFlood -----------------------------
(***************************************************************************)
(* Flooding over multipoint relays in a network at rest, from              *)
(* olsr-routing-protocol.cc.  Every node knows its neighbours and 2-hop    *)
(* neighbours, and they are what the graph says.  The nodes first choose   *)
(* their relays, one after the other (a choice reads nothing of the        *)
(* others), here with the steps of MprComputation as steps of the model;   *)
(* when all have heard of the choices, TC messages are flooded.            *)
(*                                                                         *)
(* A frame reaches all neighbours before any node sends again: the jitter  *)
(* of a queued message is far longer than the way through the air.  A      *)
(* message stands for its key in the duplicate sets; the order of messages *)
(* in one packet is left out.  There are fewer than 255 nodes, so that no  *)
(* TTL runs out, and the 30 s for which a duplicate is remembered do not   *)
(* pass.                                                                   *)
(***************************************************************************)
EXTENDS OlsrMpr

CONSTANTS Will,    \* willingness of each node
          MaxTc    \* bound: TC messages, of all nodes

ASSUME FloodAssumption == /\ Node \subseteq Nat /\ IsFiniteSet(Node)
                          /\ Will \in [Node -> Willingness] /\ MaxTc \in Nat

VARIABLES edge,   \* pairs of nodes in range, both ways
          step,   \* how far the choice of a node is
          left,   \* N2 in the choice of a node
          mpr,    \* the relays of a node, so far
          tc,     \* TC messages each node has made
          queue,  \* m_queuedMessages
          sent,   \* messages sent before
          dup,    \* duplicate set
          heard   \* messages that ProcessTc has seen

vars == <<edge, step, left, mpr, tc, queue, sent, dup, heard>>

Neighbors(n) == {m \in Node : <<n, m>> \in edge}

ViewOf(n) == [self |-> n, nbr |-> Neighbors(n), will |-> Will,
              two |-> {t \in edge : t[1] \in Neighbors(n) /\ t[2] # n}]

(* All graphs on the nodes, by their edges in one direction.               *)
Graphs == {{<<e[1], e[2]>> : e \in E} \cup {<<e[2], e[1]>> : e \in E} :
             E \in SUBSET {e \in Node \X Node : e[1] < e[2]}}

Message == Node \X Nat

Init == /\ edge \in Graphs
        /\ step = [n \in Node |-> "always"]
        /\ left = [n \in Node |-> StrictTwoHops(ViewOf(n))]
        /\ mpr = [n \in Node |-> {}]
        /\ tc = [n \in Node |-> 0]
        /\ queue = [n \in Node |-> {}]
        /\ sent = [n \in Node |-> {}]
        /\ dup = [n \in Node |-> {}]
        /\ heard = [n \in Node |-> {}]

-----------------------------------------------------------------------------
(* MprComputation *)

Turn(n) == \A m \in Node : m < n => step[m] = "done"

Select(n, M, next) ==
    /\ mpr' = [mpr EXCEPT ![n] = @ \cup M]
    /\ left' = [left EXCEPT ![n] = Uncovered(@, M)]
    /\ step' = [step EXCEPT ![n] = next]
    /\ UNCHANGED <<edge, tc, queue, sent, dup, heard>>

SelectAlways(n) == /\ Turn(n) /\ step[n] = "always"
                   /\ Select(n, AlwaysWilling(ViewOf(n)), "only")

SelectOnly(n) == /\ step[n] = "only"
                 /\ Select(n, OnlyProviders(left[n]), "rest")

(* Mutant: any neighbour that covers something will do. *)
SelectUseful(n) == /\ step[n] = "rest" /\ left[n] # {}
                   /\ \E y \in {t[1] : t \in left[n]} : Select(n, {y}, "rest")

SelectPreferred(n) == /\ step[n] = "rest" /\ left[n] # {}
                      /\ \E y \in Preferred(ViewOf(n), left[n]) : Select(n, {y}, "rest")

SetMprSet(n) == /\ step[n] = "rest" /\ left[n] = {}
                /\ step' = [step EXCEPT ![n] = "done"]
                /\ UNCHANGED <<edge, left, mpr, tc, queue, sent, dup, heard>>

MprComputation(n) ==
    SelectAlways(n) \/ SelectOnly(n) \/ SelectPreferred(n) \/ SetMprSet(n)

-----------------------------------------------------------------------------
(* Flooding *)

AllChosen == \A n \in Node : step[n] = "done"

(* The MPR selector set, once the HELLO messages after the choice are in.  *)
MprSelectors(n) == {m \in Node : n \in mpr[m]}

Made == {m \in Node \X (1 .. MaxTc) : m[2] <= tc[m[1]]}

(* TcTimerExpire, SendTc: a node that no one chose sends nothing.          *)
TcTimerExpire(n) ==
    /\ AllChosen
    /\ Cardinality(Made) < MaxTc
    /\ MprSelectors(n) # {}
    /\ tc' = [tc EXCEPT ![n] = @ + 1]
    /\ queue' = [queue EXCEPT ![n] = @ \cup {<<n, tc[n] + 1>>}]
    /\ UNCHANGED <<edge, step, left, mpr, sent, dup, heard>>

(* RecvOlsr: what n looks at, of a packet with the messages p: neither its *)
(* own messages nor duplicates.                                            *)
IsNews(n, m) == m[1] # n /\ m \notin dup[n]

(* Mutant: relays for those it has chosen. *)
RelaysForMprs(n, from, p) == {m \in p : IsNews(n, m) /\ from \in mpr[n]}

(* ForwardDefault: relays for those that have chosen it.                   *)
Relays(n, from, p) == {m \in p : IsNews(n, m) /\ from \in MprSelectors(n)}

(* Mutant: only what is not relayed is noted. *)
NotedIfQuiet(n, from, p) == {m \in p : IsNews(n, m) /\ from \notin MprSelectors(n)}

(* ... and notes the message in any case.                                  *)
Noted(n, from, p) == {m \in p : IsNews(n, m)}

(* SendQueuedMessages, with RecvOlsr at every neighbour.                   *)
SendQueuedMessages(n) ==
    LET p == queue[n]
        Hears(m) == <<n, m>> \in edge
    IN  /\ p # {}
        /\ sent' = [sent EXCEPT ![n] = @ \cup p]
        /\ queue' = [m \in Node |-> IF m = n THEN {}
                                    ELSE IF Hears(m) THEN queue[m] \cup Relays(m, n, p)
                                    ELSE queue[m]]
        /\ dup' = [m \in Node |-> IF Hears(m) THEN dup[m] \cup Noted(m, n, p) ELSE dup[m]]
        /\ heard' = [m \in Node |-> IF Hears(m) THEN heard[m] \cup {x \in p : IsNews(m, x)}
                                    ELSE heard[m]]
        /\ UNCHANGED <<edge, step, left, mpr, tc>>

Next == \E n \in Node : MprComputation(n) \/ TcTimerExpire(n) \/ SendQueuedMessages(n)

Spec == Init /\ [][Next]_vars

(* The computation goes on; the timer of queued messages fires.            *)
Fairness == \A n \in Node : /\ WF_vars(MprComputation(n))
                            /\ WF_vars(SendQueuedMessages(n))
FairSpec == Spec /\ Fairness

-----------------------------------------------------------------------------
(* Properties *)

(* Relays are willing neighbours, what is left to cover is a set of strict *)
(* 2-hop tuples, and duplicates are messages of others that were made.     *)
TypeOK ==
    /\ edge \subseteq Node \X Node
    /\ \A e \in edge : e[1] # e[2] /\ <<e[2], e[1]>> \in edge
    /\ step \in [Node -> {"always", "only", "rest", "done"}]
    /\ DOMAIN left = Node /\ \A n \in Node : left[n] \subseteq StrictTwoHops(ViewOf(n))
    /\ DOMAIN mpr = Node
    /\ \A n \in Node : \A y \in mpr[n] : y \in Neighbors(n) /\ Will[y] # NEVER
    /\ tc \in [Node -> Nat]
    /\ queue \in [Node -> SUBSET Message] /\ sent \in [Node -> SUBSET Message]
    /\ dup \in [Node -> SUBSET Message] /\ heard \in [Node -> SUBSET Message]

(* At every moment of the computation, a strict 2-hop neighbour that is no *)
(* longer in N2 has a neighbour among the relays: when N2 is empty, all    *)
(* have (MprComputation, RFC 3626 section 8.3.1).                          *)
MprCovers ==
    \A n \in Node :
      \A t \in StrictTwoHops(ViewOf(n)) \ left[n] :
        \E y \in mpr[n] : <<y, t[2]>> \in StrictTwoHops(ViewOf(n))

(* The most willing relay first (comment of step 4.2, line 911): a relay   *)
(* that is not the only way to some 2-hop neighbour was taken when every   *)
(* more willing neighbour was useless, so the other relays cover whatever  *)
(* a more willing neighbour that was left out could reach.                 *)
WillingFirst ==
    \A n \in Node :
      LET two == StrictTwoHops(ViewOf(n))
          OnlyWay(y) == \E t \in two : t[1] = y /\ \A u \in two : u[2] = t[2] => u[1] = y
      IN  \A y \in mpr[n], x \in Neighbors(n) \ mpr[n] :
            Will[x] > Will[y] /\ ~OnlyWay(y) =>
              \A t \in two : t[1] = x => \E w \in mpr[n] \ {y} : <<w, t[2]>> \in two

(* The loop of step 4 ends: N2 shrinks in each round, and no node waits    *)
(* for a candidate that does not exist (line 862).                         *)
SelectionEnds == <>AllChosen

(* A node sends a message at most once, be it its own or a relayed one:    *)
(* whatever its neighbours are about to send, it will not relay what it    *)
(* has queued or sent before (ForwardDefault, line 1577).                  *)
FloodOnce ==
    \A e \in edge : Relays(e[2], e[1], queue[e[1]]) \cap (queue[e[2]] \cup sent[e[2]]) = {}

(* Relays are enough: when nothing is left to send, a message is known to  *)
(* the neighbours of its sender and of every node that knows it and is     *)
(* willing at all, hence to every node to which a path of willing nodes    *)
(* leads; although a node that hears it first from a node that did not     *)
(* choose it will never relay it.                                          *)
Knows(msg) == {m \in Node : m = msg[1] \/ msg \in heard[m]}
FloodReachesAll ==
    (\A n \in Node : queue[n] = {}) =>
      \A msg \in Made : /\ Neighbors(msg[1]) \subseteq Knows(msg)
                        /\ \A n \in Knows(msg) : Will[n] # NEVER => Neighbors(n) \subseteq Knows(msg)
=============================================================================
