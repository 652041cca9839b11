-------------------------- MODULE OlsrFloodProofs --------------------------
(***************************************************************************)
(* For every graph, every willingness and every number of messages: the    *)
(* relays of a node cover its strict 2-hop neighbours, the most willing    *)
(* come first, a node relays nothing twice, and the relays are enough to   *)
(* reach every node.                                                       *)
(***************************************************************************)
EXTENDS OlsrFlood, OlsrMprProofs

(* Before all have chosen, there are no messages.                          *)
Silent == \A n \in Node : /\ tc[n] = 0 /\ queue[n] = {} /\ sent[n] = {}
                          /\ dup[n] = {} /\ heard[n] = {}

Exists(m) == m[2] \in 1 .. tc[m[1]]

(* What a node has queued or sent is its own or known to it; what it has   *)
(* heard is not its own; what is noted is what is heard.                   *)
Books == \A n \in Node :
           /\ dup[n] = heard[n]
           /\ \A m \in queue[n] \cup sent[n] : Exists(m) /\ (m[1] = n \/ m \in heard[n])
           /\ \A m \in heard[n] : Exists(m) /\ m[1] # n

(* A message exists because its node has queued it.                        *)
Origins == \A m \in Message : Exists(m) => m \in queue[m[1]] \cup sent[m[1]]

(* Who has sent a message has told its neighbours.                         *)
Spoken == \A n \in Node : \A m \in sent[n] :
            \A b \in Neighbors(n) : b = m[1] \/ m \in heard[b]

(* A node that does not know a message although a willing neighbour has    *)
(* heard it has a neighbour that is about to send it.                      *)
Misses(b, m)   == b # m[1] /\ m \notin heard[b]
Heralds(b, m)  == {y \in Neighbors(b) : Will[y] # NEVER /\ m \in heard[y]}
Promised == \A m \in Message : \A b \in Node :
              Misses(b, m) /\ Heralds(b, m) # {}
                => \E q \in Neighbors(b) : m \in queue[q]

Choices == /\ \A n \in Node : step[n] = "done" => left[n] = {}
           /\ Silent \/ AllChosen

FInv == TypeOK /\ MprCovers /\ Choices /\ Books /\ Origins /\ Spoken /\ Promised

-----------------------------------------------------------------------------
(* The choice of relays *)

(* Each step of MprComputation takes willing neighbours only.              *)
LEMMA WillingNeighbours ==
    ASSUME NEW n \in Node, NEW L, L \subseteq StrictTwoHops(ViewOf(n)),
           NEW y \in AlwaysWilling(ViewOf(n)) \cup OnlyProviders(L) \cup Preferred(ViewOf(n), L)
    PROVE  y \in Neighbors(n) /\ Will[y] # NEVER
<1>1. CASE y \in AlwaysWilling(ViewOf(n))
  BY <1>1 DEF AlwaysWilling, ViewOf, ALWAYS, NEVER
<1>2. ASSUME NEW t \in L
      PROVE  t[1] \in Neighbors(n) /\ Will[t[1]] # NEVER
  BY DEF StrictTwoHops, ViewOf
<1>3. CASE y \in OnlyProviders(L)
  BY <1>2, <1>3 DEF OnlyProviders
<1>4. CASE y \in Preferred(ViewOf(n), L)
  <2>1. Reachability(L, y) > 0
    BY <1>4 DEF Preferred
  <2>2. {t \in L : t[1] = y} # {}
    BY <2>1, FS_EmptySet DEF Reachability
  <2> QED BY <1>2, <2>2
<1> QED BY <1>1, <1>3, <1>4

(* One step of the choice: N2 shrinks by what the new relays cover.        *)
LEMMA SelectKeeps ==
    ASSUME FInv, NEW n \in Node, step[n] # "done", NEW M, NEW next \in {"only", "rest"},
           \A y \in M : y \in Neighbors(n) /\ Will[y] # NEVER, Select(n, M, next)
    PROVE  FInv'
<1>1. /\ mpr' = [mpr EXCEPT ![n] = @ \cup M]
      /\ left' = [left EXCEPT ![n] = Uncovered(@, M)]
      /\ step' = [step EXCEPT ![n] = next]
      /\ UNCHANGED <<edge, tc, queue, sent, dup, heard>>
  BY DEF Select
<1>2. /\ DOMAIN mpr = Node /\ DOMAIN left = Node
      /\ step \in [Node -> {"always", "only", "rest", "done"}]
      /\ \A x \in Node : left[x] \subseteq StrictTwoHops(ViewOf(x))
  BY DEF FInv, TypeOK
<1>3. \A x \in Node : Neighbors(x)' = Neighbors(x) /\ ViewOf(x)' = ViewOf(x)
  BY <1>1 DEF Neighbors, ViewOf
<1>4. \A x \in Node : StrictTwoHops(ViewOf(x))' = StrictTwoHops(ViewOf(x))
  BY <1>3 DEF StrictTwoHops
<1>5. /\ Uncovered(left[n], M) \subseteq left[n]
      /\ \A t \in left[n] \ Uncovered(left[n], M) : \E y \in M : <<y, t[2]>> \in left[n]
  BY DEF Uncovered
<1>6. TypeOK'
  <2>1. \A x \in Node : left'[x] \subseteq StrictTwoHops(ViewOf(x))'
    BY <1>1, <1>2, <1>4, <1>5
  <2>2. \A x \in Node : \A y \in mpr'[x] : y \in Neighbors(x)' /\ Will[y] # NEVER
    BY <1>1, <1>2, <1>3 DEF FInv, TypeOK
  <2> QED BY <1>1, <1>2, <2>1, <2>2 DEF FInv, TypeOK
<1>7. MprCovers'
  <2> SUFFICES ASSUME NEW x \in Node, NEW t \in StrictTwoHops(ViewOf(x)) \ left'[x]
               PROVE  \E y \in mpr'[x] : <<y, t[2]>> \in StrictTwoHops(ViewOf(x))
    BY <1>4 DEF MprCovers
  <2>1. CASE t \notin left[x]
    BY <1>1, <1>2, <2>1 DEF FInv, MprCovers
  <2>2. CASE t \in left[x]
    <3>1. x = n /\ t \notin Uncovered(left[n], M)
      BY <1>1, <1>2, <2>2
    <3> QED BY <1>1, <1>2, <1>5, <2>2, <3>1
  <2> QED BY <2>1, <2>2
<1>8. Silent
  BY DEF FInv, Choices, AllChosen
<1>9. Choices'
  BY <1>1, <1>2, <1>8 DEF FInv, Choices, Silent
<1>10. Books' /\ Origins' /\ Spoken' /\ Promised'
  <2>1. Books'
    BY <1>1 DEF FInv, Books, Exists
  <2>2. Origins'
    BY <1>1 DEF FInv, Origins, Exists
  <2>3. Spoken'
    BY <1>1, <1>3 DEF FInv, Spoken
  <2>4. Promised'
    BY <1>1, <1>3 DEF FInv, Promised, Misses, Heralds
  <2> QED BY <2>1, <2>2, <2>3, <2>4
<1> QED BY <1>6, <1>7, <1>9, <1>10 DEF FInv

(* The set of relays is stored.                                            *)
LEMMA SetKeeps ==
    ASSUME FInv, NEW n \in Node, SetMprSet(n)
    PROVE  FInv'
<1>1. /\ step' = [step EXCEPT ![n] = "done"] /\ left[n] = {} /\ step[n] = "rest"
      /\ UNCHANGED <<edge, left, mpr, tc, queue, sent, dup, heard>>
  BY DEF SetMprSet
<1>2. \A x \in Node : Neighbors(x)' = Neighbors(x) /\ ViewOf(x)' = ViewOf(x)
  BY <1>1 DEF Neighbors, ViewOf
<1>3. TypeOK' /\ MprCovers'
  <2>1. \A x \in Node : StrictTwoHops(ViewOf(x))' = StrictTwoHops(ViewOf(x))
    BY <1>2 DEF StrictTwoHops
  <2>2. step' \in [Node -> {"always", "only", "rest", "done"}]
    BY <1>1 DEF FInv, TypeOK
  <2>3. TypeOK'
    BY <1>1, <1>2, <2>1, <2>2 DEF FInv, TypeOK
  <2>4. MprCovers'
    BY <1>1, <2>1 DEF FInv, MprCovers
  <2> QED BY <2>3, <2>4
<1>4. Silent
  BY <1>1 DEF FInv, Choices, AllChosen
<1>5. Choices'
  BY <1>1, <1>4 DEF FInv, TypeOK, Choices, Silent
<1>6. Books' /\ Origins'
  BY <1>1 DEF FInv, Books, Origins, Exists
<1>7. Spoken' /\ Promised'
  BY <1>1, <1>2 DEF FInv, Spoken, Promised, Misses, Heralds
<1> QED BY <1>3, <1>5, <1>6, <1>7 DEF FInv

LEMMA ChoiceKeeps ==
    ASSUME FInv, NEW n \in Node, MprComputation(n)
    PROVE  FInv'
<1>0. left[n] \subseteq StrictTwoHops(ViewOf(n))
  BY DEF FInv, TypeOK
<1>1. CASE SelectAlways(n)
  <2> DEFINE M == AlwaysWilling(ViewOf(n))
  <2>1. \A y \in M : y \in Neighbors(n) /\ Will[y] # NEVER
    BY <1>0, WillingNeighbours
  <2>2. Select(n, M, "only") /\ step[n] # "done"
    BY <1>1 DEF SelectAlways
  <2> HIDE DEF M
  <2> QED BY <2>1, <2>2, SelectKeeps
<1>2. CASE SelectOnly(n)
  <2> DEFINE M == OnlyProviders(left[n])
  <2>1. \A y \in M : y \in Neighbors(n) /\ Will[y] # NEVER
    BY <1>0, WillingNeighbours
  <2>2. Select(n, M, "rest") /\ step[n] # "done"
    BY <1>2 DEF SelectOnly
  <2> HIDE DEF M
  <2> QED BY <2>1, <2>2, SelectKeeps
<1>3. CASE SelectPreferred(n)
  <2>1. PICK y \in Preferred(ViewOf(n), left[n]) : Select(n, {y}, "rest")
    BY <1>3 DEF SelectPreferred
  <2>2. \A x \in {y} : x \in Neighbors(n) /\ Will[x] # NEVER
    BY <1>0, <2>1, WillingNeighbours
  <2>3. step[n] # "done"
    BY <1>3 DEF SelectPreferred
  <2> QED BY <2>1, <2>2, <2>3, SelectKeeps
<1> QED BY <1>1, <1>2, <1>3, SetKeeps DEF MprComputation

-----------------------------------------------------------------------------
(* Messages *)

(* The relations that no message changes.                                  *)
LEMMA RestKeeps ==
    ASSUME FInv, UNCHANGED <<edge, step, left, mpr>>, AllChosen
    PROVE  /\ \A x \in Node : Neighbors(x)' = Neighbors(x) /\ Neighbors(x) \subseteq Node
           /\ MprCovers' /\ Choices'
           /\ \A x \in Node : left'[x] \subseteq StrictTwoHops(ViewOf(x))'
<1>1. \A x \in Node : /\ Neighbors(x)' = Neighbors(x) /\ ViewOf(x)' = ViewOf(x)
                      /\ Neighbors(x) \subseteq Node
  BY DEF Neighbors, ViewOf
<1>2. \A x \in Node : StrictTwoHops(ViewOf(x))' = StrictTwoHops(ViewOf(x))
  BY <1>1 DEF StrictTwoHops
<1>3. MprCovers'
  BY <1>2 DEF FInv, MprCovers
<1>4. Choices'
  BY DEF FInv, Choices, AllChosen
<1>5. \A x \in Node : left'[x] \subseteq StrictTwoHops(ViewOf(x))'
  BY <1>2 DEF FInv, TypeOK
<1> QED BY <1>1, <1>3, <1>4, <1>5

(* A new message of n.                                                     *)
LEMMA TcKeeps ==
    ASSUME FInv, NEW n \in Node, TcTimerExpire(n)
    PROVE  FInv'
<1> DEFINE new == <<n, tc[n] + 1>>
<1>1. /\ tc' = [tc EXCEPT ![n] = @ + 1] /\ queue' = [queue EXCEPT ![n] = @ \cup {new}]
      /\ UNCHANGED <<edge, step, left, mpr, sent, dup, heard>> /\ AllChosen
  BY DEF TcTimerExpire
<1>2. /\ \A x \in Node : Neighbors(x)' = Neighbors(x) /\ Neighbors(x) \subseteq Node
      /\ MprCovers' /\ Choices'
      /\ \A x \in Node : left'[x] \subseteq StrictTwoHops(ViewOf(x))'
  BY <1>1, RestKeeps
<1>3. tc \in [Node -> Nat] /\ queue \in [Node -> SUBSET Message]
  BY DEF FInv, TypeOK
<1>4. new \in Message /\ new[1] = n /\ new[2] = tc[n] + 1
  BY <1>3 DEF Message
<1>5. \A m \in Message : Exists(m)' <=> Exists(m) \/ m = new
  BY <1>1, <1>3 DEF Exists, Message
<1> HIDE DEF new
<1>6. TypeOK'
  BY <1>1, <1>2, <1>3, <1>4 DEF FInv, TypeOK
<1>7. \A x \in Node : /\ heard[x] \subseteq Message /\ queue[x] \subseteq Message
                      /\ sent[x] \subseteq Message
                      /\ queue'[x] = IF x = n THEN queue[x] \cup {new} ELSE queue[x]
  BY <1>1, <1>3 DEF FInv, TypeOK
<1>8. Books'
  <2>1. ASSUME NEW y \in Node
        PROVE  /\ dup'[y] = heard'[y]
               /\ \A m \in heard'[y] : Exists(m)' /\ m[1] # y
    BY <1>1, <1>5, <1>7 DEF FInv, Books
  <2>2. ASSUME NEW y \in Node, NEW m \in queue'[y] \cup sent'[y]
        PROVE  Exists(m)' /\ (m[1] = y \/ m \in heard'[y])
    <3>1. CASE m \in queue[y] \cup sent[y]
      BY <1>1, <1>5, <1>7, <3>1 DEF FInv, Books
    <3>2. CASE m \notin queue[y] \cup sent[y]
      BY <1>1, <1>4, <1>5, <1>7, <2>2, <3>2
    <3> QED BY <3>1, <3>2
  <2> QED BY <2>1, <2>2 DEF Books
<1>9. Origins'
  <2> SUFFICES ASSUME NEW m \in Message, Exists(m)'
               PROVE  m \in queue'[m[1]] \cup sent'[m[1]]
    BY DEF Origins
  <2>1. m[1] \in Node
    BY DEF Message
  <2>2. CASE m = new
    BY <1>4, <1>7, <2>2
  <2>3. CASE Exists(m)
    BY <1>1, <1>7, <2>1, <2>3 DEF FInv, Origins
  <2> QED BY <1>5, <2>2, <2>3
<1>10. Spoken'
  BY <1>1, <1>2 DEF FInv, Spoken
<1>11. Promised'
  <2> SUFFICES ASSUME NEW m \in Message, NEW b \in Node, Misses(b, m), Heralds(b, m)' # {}
               PROVE  \E q \in Neighbors(b) : m \in queue'[q]
    BY <1>1, <1>2 DEF Promised, Misses
  <2>1. Heralds(b, m) # {}
    BY <1>1, <1>2 DEF Heralds
  <2>2. PICK q \in Neighbors(b) : m \in queue[q]
    BY <2>1 DEF FInv, Promised
  <2> QED BY <1>2, <1>7, <2>2
<1> QED BY <1>2, <1>6, <1>8, <1>9, <1>10, <1>11 DEF FInv

(* A packet of x: the messages p.                                          *)
LEMMA SendKeeps ==
    ASSUME FInv, NEW x \in Node, SendQueuedMessages(x)
    PROVE  FInv'
<1> DEFINE p == queue[x]
<1>1. /\ p # {} /\ sent' = [sent EXCEPT ![x] = @ \cup p]
      /\ queue' = [m \in Node |-> IF m = x THEN {}
                                  ELSE IF <<x, m>> \in edge THEN queue[m] \cup Relays(m, x, p)
                                  ELSE queue[m]]
      /\ dup' = [m \in Node |-> IF <<x, m>> \in edge THEN dup[m] \cup Noted(m, x, p) ELSE dup[m]]
      /\ heard' = [m \in Node |-> IF <<x, m>> \in edge
                                  THEN heard[m] \cup {k \in p : IsNews(m, k)} ELSE heard[m]]
      /\ UNCHANGED <<edge, step, left, mpr, tc>>
  BY DEF SendQueuedMessages
<1>2. AllChosen
  BY <1>1 DEF FInv, Choices, Silent
<1>3. /\ \A y \in Node : Neighbors(y)' = Neighbors(y) /\ Neighbors(y) \subseteq Node
      /\ MprCovers' /\ Choices'
      /\ \A y \in Node : left'[y] \subseteq StrictTwoHops(ViewOf(y))'
  BY <1>1, <1>2, RestKeeps
<1>4. \A y \in Node : /\ heard[y] \subseteq Message /\ queue[y] \subseteq Message
                      /\ sent[y] \subseteq Message /\ dup[y] = heard[y]
  BY DEF FInv, TypeOK, Books
<1>5. /\ \A y, z \in Node : z \in Neighbors(y) <=> <<y, z>> \in edge
      /\ \A y, z \in Node : <<y, z>> \in edge => <<z, y>> \in edge /\ y # z
  BY DEF FInv, TypeOK, Neighbors
<1> HIDE DEF p
<1>6. \A m \in p : m \in Message /\ Exists(m) /\ (m[1] = x \/ m \in heard[x])
  BY <1>4 DEF FInv, Books, p
<1>7. \A y \in Node :
        /\ queue'[y] = IF y = x THEN {}
                       ELSE IF y \in Neighbors(x) THEN queue[y] \cup Relays(y, x, p) ELSE queue[y]
        /\ sent'[y] = IF y = x THEN sent[y] \cup p ELSE sent[y]
        /\ heard'[y] = IF y \in Neighbors(x) THEN heard[y] \cup {m \in p : IsNews(y, m)}
                       ELSE heard[y]
        /\ dup'[y] = heard'[y]
  BY <1>1, <1>4, <1>5 DEF Noted, FInv, TypeOK
<1>8. \A y \in Node : \A m \in p :
        /\ IsNews(y, m) <=> m[1] # y /\ m \notin heard[y]
        /\ m \in Relays(y, x, p) <=> IsNews(y, m) /\ y \in mpr[x]
        /\ m \in Relays(y, x, p) => IsNews(y, m)
  BY <1>4 DEF IsNews, Relays, MprSelectors
<1>9. \A y \in Node : Relays(y, x, p) \subseteq p /\ {m \in p : IsNews(y, m)} \subseteq p
  BY DEF Relays
<1>10. TypeOK'
  <2>1. \A y \in Node : queue'[y] \subseteq Message /\ sent'[y] \subseteq Message
                        /\ dup'[y] \subseteq Message /\ heard'[y] \subseteq Message
    BY <1>4, <1>6, <1>7, <1>9
  <2>2. /\ queue' \in [Node -> SUBSET Message] /\ sent' \in [Node -> SUBSET Message]
        /\ dup' \in [Node -> SUBSET Message] /\ heard' \in [Node -> SUBSET Message]
    BY <1>1, <2>1 DEF FInv, TypeOK
  <2> QED BY <1>1, <1>3, <2>2 DEF FInv, TypeOK
<1>11. Books'
  <2> SUFFICES ASSUME NEW y \in Node
               PROVE  /\ \A m \in queue'[y] \cup sent'[y] :
                           Exists(m) /\ (m[1] = y \/ m \in heard'[y])
                      /\ \A m \in heard'[y] : Exists(m) /\ m[1] # y
    BY <1>1, <1>7 DEF Books, Exists
  <2>1. \A m \in queue[y] \cup sent[y] : Exists(m) /\ (m[1] = y \/ m \in heard[y])
    BY DEF FInv, Books
  <2>2. \A m \in heard[y] : Exists(m) /\ m[1] # y
    BY DEF FInv, Books
  <2>3. heard[y] \subseteq heard'[y]
    BY <1>7
  <2>4. \A m \in heard'[y] : Exists(m) /\ m[1] # y
    BY <1>6, <1>7, <1>8, <2>2
  <2>5. \A m \in sent'[y] : Exists(m) /\ (m[1] = y \/ m \in heard'[y])
    BY <1>6, <1>7, <2>1, <2>3
  <2>6. \A m \in queue'[y] : Exists(m) /\ (m[1] = y \/ m \in heard'[y])
    <3> SUFFICES ASSUME NEW m \in queue'[y] PROVE Exists(m) /\ (m[1] = y \/ m \in heard'[y])
      OBVIOUS
    <3>1. CASE m \in queue[y]
      BY <2>1, <2>3, <3>1
    <3>2. CASE m \notin queue[y]
      <4>1. y \in Neighbors(x) /\ m \in Relays(y, x, p) /\ m \in p
        BY <1>7, <1>9, <3>2
      <4>2. IsNews(y, m)
        BY <1>8, <4>1
      <4>3. m \in heard'[y]
        BY <1>7, <4>1, <4>2
      <4> QED BY <1>6, <4>1, <4>3
    <3> QED BY <3>1, <3>2
  <2> QED BY <2>4, <2>5, <2>6
<1>12. Origins'
  <2> SUFFICES ASSUME NEW m \in Message, Exists(m)
               PROVE  m \in queue'[m[1]] \cup sent'[m[1]]
    BY <1>1 DEF Origins, Exists
  <2>1. m[1] \in Node /\ m \in queue[m[1]] \cup sent[m[1]]
    BY DEF FInv, Origins, Message
  <2> QED BY <1>7, <2>1 DEF p
<1>13. Spoken'
  <2> SUFFICES ASSUME NEW y \in Node, NEW m \in sent'[y], NEW b \in Neighbors(y), b # m[1]
               PROVE  m \in heard'[b]
    BY <1>3 DEF Spoken
  <2>1. b \in Node
    BY <1>3
  <2>2. CASE m \in sent[y]
    BY <1>7, <2>1, <2>2 DEF FInv, Spoken
  <2>3. CASE m \notin sent[y]
    BY <1>7, <1>8, <2>1, <2>3
  <2> QED BY <2>2, <2>3
<1>14. Promised'
  <2> SUFFICES ASSUME NEW m \in Message, NEW b \in Node, b # m[1], m \notin heard'[b],
                      NEW y \in Neighbors(b), Will[y] # NEVER, m \in heard'[y]
               PROVE  \E q \in Neighbors(b) : m \in queue'[q]
    BY <1>3 DEF Promised, Misses, Heralds
  <2>1. m \notin heard[b] /\ y \in Node
    BY <1>3, <1>7
  <2>2. ~(m \in p /\ b \in Neighbors(x))
    BY <1>7, <1>8
  <2>3. ASSUME NEW q \in Neighbors(b), m \in queue[q]
        PROVE  m \in queue'[q]
    <3>1. q \in Node /\ q # x
      BY <1>3, <1>5, <2>2, <2>3 DEF p
    <3> QED BY <1>7, <2>3, <3>1
  <2>4. ASSUME NEW z \in Neighbors(b), Will[z] # NEVER, m \in heard[z]
        PROVE  \E q \in Neighbors(b) : m \in queue'[q]
    <3>1. Misses(b, m) /\ Heralds(b, m) # {}
      BY <2>1, <2>4 DEF Misses, Heralds
    <3> QED BY <2>3, <3>1 DEF FInv, Promised
  <2>5. CASE m \notin heard[y]
    <3>1. m \in p /\ y \in Neighbors(x) /\ b \notin Neighbors(x)
      BY <1>7, <2>1, <2>2, <2>5
    <3>2. b # x
      BY <1>6, <2>1, <3>1
    <3>3. <<y, b>> \in StrictTwoHops(ViewOf(x)) /\ left[x] = {}
      <4>1. <<y, b>> \in edge
        BY <1>5, <2>1
      <4>2. left[x] = {}
        BY <1>2 DEF FInv, Choices, AllChosen
      <4> QED BY <3>1, <3>2, <4>1, <4>2 DEF StrictTwoHops, ViewOf
    <3>4. PICK z \in mpr[x] : <<z, b>> \in StrictTwoHops(ViewOf(x))
      BY <3>3 DEF FInv, MprCovers
    <3>5. /\ z \in Neighbors(x) /\ Will[z] # NEVER /\ z \in Node /\ <<z, b>> \in edge
          /\ z # x
      BY <1>3, <1>5, <3>4 DEF StrictTwoHops, ViewOf
    <3>6. z \in Neighbors(b)
      BY <1>5, <3>5
    <3>7. CASE z = m[1]
      <4>1. Exists(m)
        BY <1>6, <3>1
      <4>2. m \in queue[z] \cup sent[z]
        BY <3>7, <4>1 DEF FInv, Origins
      <4>3. b \in Neighbors(z)
        BY <1>5, <3>5
      <4>4. m \notin sent[z]
        BY <2>1, <3>5, <4>3 DEF FInv, Spoken
      <4> QED BY <2>3, <3>6, <4>2, <4>4
    <3>8. CASE z # m[1] /\ m \in heard[z]
      BY <2>4, <3>5, <3>6, <3>8
    <3>9. CASE z # m[1] /\ m \notin heard[z]
      <4>1. m \in Relays(z, x, p)
        BY <1>8, <3>1, <3>4, <3>5, <3>9
      <4> QED BY <1>7, <3>5, <3>6, <4>1
    <3> QED BY <3>7, <3>8, <3>9
  <2> QED BY <2>4, <2>5
<1> QED BY <1>3, <1>10, <1>11, <1>12, <1>13, <1>14 DEF FInv

-----------------------------------------------------------------------------
(* Theorems *)

LEMMA FInit == Init => FInv
<1> SUFFICES ASSUME Init PROVE FInv
  OBVIOUS
<1>1. PICK E \in SUBSET {e \in Node \X Node : e[1] < e[2]} :
        edge = {<<e[1], e[2]>> : e \in E} \cup {<<e[2], e[1]>> : e \in E}
  BY DEF Init, Graphs
<1>2. /\ edge \subseteq Node \X Node
      /\ \A e \in edge : e[1] # e[2] /\ <<e[2], e[1]>> \in edge
  <2>1. \A e \in E : e \in Node \X Node /\ e[1] \in Nat /\ e[2] \in Nat /\ e[1] < e[2]
    BY FloodAssumption
  <2>2. ASSUME NEW e \in edge
        PROVE  e \in Node \X Node /\ e[1] # e[2] /\ <<e[2], e[1]>> \in edge
    <3>1. CASE \E f \in E : e = <<f[1], f[2]>>
      BY <1>1, <2>1, <3>1
    <3>2. CASE \E f \in E : e = <<f[2], f[1]>>
      BY <1>1, <2>1, <3>2
    <3> QED BY <1>1, <3>1, <3>2
  <2> QED BY <2>2
<1>3. TypeOK /\ MprCovers
  BY <1>2 DEF Init, TypeOK, MprCovers
<1>4. Choices /\ Books
  BY DEF Init, Choices, Silent, Books
<1>5. Origins
  BY DEF Init, Origins, Exists, Message
<1>6. Spoken /\ Promised
  <2>1. \A b \in Node, m \in Message : Heralds(b, m) = {}
    BY DEF Init, Heralds, Neighbors
  <2> QED BY <2>1 DEF Init, Spoken, Promised
<1> QED BY <1>3, <1>4, <1>5, <1>6 DEF FInv

LEMMA FStep == FInv /\ [Next]_vars => FInv'
<1> SUFFICES ASSUME FInv, [Next]_vars PROVE FInv'
  OBVIOUS
<1>1. CASE UNCHANGED vars
  <2>1. \A x \in Node : Neighbors(x)' = Neighbors(x) /\ ViewOf(x)' = ViewOf(x)
    BY <1>1 DEF vars, Neighbors, ViewOf
  <2>2. \A x \in Node : StrictTwoHops(ViewOf(x))' = StrictTwoHops(ViewOf(x))
    BY <2>1 DEF StrictTwoHops
  <2>3. TypeOK' /\ MprCovers'
    BY <1>1, <2>1, <2>2 DEF vars, FInv, TypeOK, MprCovers
  <2>4. Choices' /\ Books' /\ Origins'
    BY <1>1 DEF vars, FInv, Choices, Silent, AllChosen, Books, Origins, Exists
  <2>5. Spoken' /\ Promised'
    BY <1>1, <2>1 DEF vars, FInv, Spoken, Promised, Misses, Heralds
  <2> QED BY <2>3, <2>4, <2>5 DEF FInv
<1>2. CASE Next
  BY <1>2, ChoiceKeeps, TcKeeps, SendKeeps DEF Next
<1> QED BY <1>1, <1>2

THEOREM FloodInvariance == Spec => []FInv
BY FInit, FStep, PTL DEF Spec

(* Sets, messages and relays keep their types.                             *)
THEOREM FloodTypes == Spec => []TypeOK
<1>1. FInv => TypeOK
  BY DEF FInv
<1> QED BY <1>1, FloodInvariance, PTL

(* The relays chosen so far cover what is no longer in N2.                 *)
THEOREM RelaysCover == Spec => []MprCovers
<1>1. FInv => MprCovers
  BY DEF FInv
<1> QED BY <1>1, FloodInvariance, PTL

(* A node relays nothing that it has queued or sent.                       *)
THEOREM RelaysOnce == Spec => []FloodOnce
<1>1. FInv => FloodOnce
  <2> SUFFICES ASSUME FInv, NEW e \in edge,
                      NEW m \in Relays(e[2], e[1], queue[e[1]]),
                      m \in queue[e[2]] \cup sent[e[2]]
               PROVE  FALSE
    BY DEF FloodOnce
  <2>1. e[2] \in Node
    BY DEF FInv, TypeOK
  <2>2. m[1] # e[2] /\ m \notin heard[e[2]]
    BY <2>1 DEF Relays, IsNews, FInv, Books
  <2> QED BY <2>1, <2>2 DEF FInv, Books
<1> QED BY <1>1, FloodInvariance, PTL

(* When nothing is left to send, a message is known to the neighbours of   *)
(* its sender and of every willing node that knows it.                     *)
THEOREM RelaysReachAll == Spec => []FloodReachesAll
<1>1. FInv => FloodReachesAll
  <2> SUFFICES ASSUME FInv, \A n \in Node : queue[n] = {}, NEW msg \in Made
               PROVE  /\ Neighbors(msg[1]) \subseteq Knows(msg)
                      /\ \A n \in Knows(msg) :
                           Will[n] # NEVER => Neighbors(n) \subseteq Knows(msg)
    BY DEF FloodReachesAll
  <2>1. msg \in Message /\ Exists(msg) /\ msg[1] \in Node
    BY FloodAssumption DEF Made, Message, Exists, FInv, TypeOK
  <2>2. msg \in sent[msg[1]]
    BY <2>1 DEF FInv, Origins
  <2>3. \A n \in Node : Neighbors(n) \subseteq Node
    BY DEF Neighbors
  <2>4. Neighbors(msg[1]) \subseteq Knows(msg)
    BY <2>1, <2>2, <2>3 DEF FInv, Spoken, Knows
  <2>5. ASSUME NEW n \in Knows(msg), n # msg[1], Will[n] # NEVER, NEW b \in Neighbors(n)
        PROVE  b \in Knows(msg)
    <3>1. n \in Node /\ msg \in heard[n] /\ b \in Node /\ n \in Neighbors(b)
      BY <2>5 DEF Knows, Neighbors, FInv, TypeOK
    <3>2. n \in Heralds(b, msg)
      BY <2>5, <3>1 DEF Heralds
    <3>3. ~ \E q \in Neighbors(b) : msg \in queue[q]
      BY <2>3, <3>1
    <3>4. ~Misses(b, msg)
      BY <2>1, <3>1, <3>2, <3>3 DEF FInv, Promised
    <3> QED BY <3>1, <3>4 DEF Misses, Knows
  <2> QED BY <2>4, <2>5
<1> QED BY <1>1, FloodInvariance, PTL

-----------------------------------------------------------------------------
(* The most willing relay first *)

TwoOf(n) == StrictTwoHops(ViewOf(n))

(* N2 is what the relays so far do not cover, no more and no less.         *)
LeftIs(n, L, R) == L = {t \in TwoOf(n) : \A w \in R : <<w, t[2]>> \notin TwoOf(n)}

OnlyWayOf(n, y) ==
    \E t \in TwoOf(n) : t[1] = y /\ \A u \in TwoOf(n) : u[2] = t[2] => u[1] = y

(* Whatever a more willing neighbour x reaches, other relays than y cover. *)
Useless(n, R, y, x) ==
    \A t \in TwoOf(n) : t[1] = x => \E w \in R \ {y} : <<w, t[2]>> \in TwoOf(n)

FirstOf(n, R) ==
    \A y \in R, x \in Neighbors(n) \ R :
       Will[x] > Will[y] /\ ~OnlyWayOf(n, y) => Useless(n, R, y, x)

WInv == TypeOK /\ \A n \in Node : LeftIs(n, left[n], mpr[n]) /\ FirstOf(n, mpr[n])

(* N2 stays exact when relays are added.                                   *)
LEMMA LeftStaysExact ==
    ASSUME NEW n \in Node, NEW L, NEW R, NEW M, LeftIs(n, L, R)
    PROVE  LeftIs(n, Uncovered(L, M), R \cup M)
<1>1. ASSUME NEW t \in Uncovered(L, M)
      PROVE  t \in TwoOf(n) /\ \A w \in R \cup M : <<w, t[2]>> \notin TwoOf(n)
  <2>1. t \in L /\ \A y \in M : <<y, t[2]>> \notin L
    BY DEF Uncovered
  <2>2. t \in TwoOf(n) /\ \A w \in R : <<w, t[2]>> \notin TwoOf(n)
    BY <2>1 DEF LeftIs
  <2>3. ASSUME NEW y \in M, <<y, t[2]>> \in TwoOf(n) PROVE <<y, t[2]>> \in L
    <3>1. \A w \in R : <<w, <<y, t[2]>>[2]>> \notin TwoOf(n)
      BY <2>2
    <3> QED BY <2>3, <3>1 DEF LeftIs
  <2> QED BY <2>1, <2>2, <2>3
<1>2. ASSUME NEW t \in TwoOf(n), \A w \in R \cup M : <<w, t[2]>> \notin TwoOf(n)
      PROVE  t \in Uncovered(L, M)
  <2>1. t \in L /\ L \subseteq TwoOf(n)
    BY <1>2 DEF LeftIs
  <2> QED BY <1>2, <2>1 DEF Uncovered
<1>3. Uncovered(L, M) = {t \in TwoOf(n) : \A w \in R \cup M : <<w, t[2]>> \notin TwoOf(n)}
  BY <1>1, <1>2
<1> QED BY <1>3 DEF LeftIs

(* A relay that is the only one next to something of N2 is the only way.   *)
LEMMA OnlyProviderIsOnlyWay ==
    ASSUME NEW n \in Node, NEW L, NEW R, LeftIs(n, L, R), NEW y \in OnlyProviders(L)
    PROVE  OnlyWayOf(n, y)
<1>1. PICK t \in L : t[1] = y /\ \A u \in L : u[2] = t[2] => u[1] = y
  BY DEF OnlyProviders
<1>2. t \in TwoOf(n) /\ \A w \in R : <<w, t[2]>> \notin TwoOf(n)
  BY DEF LeftIs
<1>3. ASSUME NEW u \in TwoOf(n), u[2] = t[2] PROVE u \in L
  BY <1>2, <1>3 DEF LeftIs
<1> QED BY <1>1, <1>2, <1>3 DEF OnlyWayOf

(* When y is preferred, more willing neighbours reach nothing of N2.       *)
LEMMA PreferredIsMostWilling ==
    ASSUME TypeOK, NEW n \in Node, LeftIs(n, left[n], mpr[n]),
           NEW y \in Preferred(ViewOf(n), left[n]), y \notin mpr[n],
           NEW x \in Neighbors(n), Will[x] > Will[y]
    PROVE  Useless(n, mpr[n], y, x)
<1>1. ViewOf(n).nbr = Neighbors(n) /\ ViewOf(n).will = Will
  BY DEF ViewOf
<1>2. y \in Neighbors(n) /\ Will[x] \in Nat /\ Will[y] \in Nat
  <2>1. y \in Neighbors(n)
    BY <1>1 DEF Preferred
  <2>2. \A m \in Node : Will[m] \in Nat
    BY FloodAssumption DEF Willingness, NEVER, ALWAYS
  <2> QED BY <2>1, <2>2 DEF Neighbors
<1>3. ~(Reachability(left[n], x) > 0)
  BY <1>1, <1>2 DEF Preferred
<1> DEFINE reach == {t \in left[n] : t[1] = x}
<1>4. IsFiniteSet(reach)
  <2>1. IsFiniteSet(Node \X Node)
    BY FloodAssumption, FS_Product
  <2>2. reach \subseteq Node \X Node
    BY DEF TypeOK, StrictTwoHops, ViewOf
  <2> QED BY <2>1, <2>2, FS_Subset
<1>5. reach = {}
  <2>1. Reachability(left[n], x) = Cardinality(reach)
    BY DEF Reachability
  <2> HIDE DEF reach
  <2>2. Cardinality(reach) \in Nat
    BY <1>4, FS_CardinalityType
  <2> QED BY <1>3, <1>4, <2>1, <2>2, FS_EmptySet
<1>6. ASSUME NEW t \in TwoOf(n), t[1] = x
      PROVE  \E w \in mpr[n] \ {y} : <<w, t[2]>> \in TwoOf(n)
  <2>1. t \notin left[n]
    BY <1>5, <1>6
  <2> QED BY <2>1 DEF LeftIs
<1> QED BY <1>6 DEF Useless

(* New relays that are all as willing as can be, the only way to something *)
(* or preferred keep the order.                                            *)
LEMMA OrderKept ==
    ASSUME WInv, NEW n \in Node, NEW M,
           \/ M = AlwaysWilling(ViewOf(n))
           \/ M = OnlyProviders(left[n])
           \/ \E y \in Preferred(ViewOf(n), left[n]) : M = {y}
    PROVE  FirstOf(n, mpr[n] \cup M)
<1> SUFFICES ASSUME NEW y \in mpr[n] \cup M, NEW x \in Neighbors(n) \ (mpr[n] \cup M),
                    Will[x] > Will[y], ~OnlyWayOf(n, y)
             PROVE  Useless(n, mpr[n] \cup M, y, x)
  BY DEF FirstOf
<1>1. TypeOK /\ LeftIs(n, left[n], mpr[n]) /\ FirstOf(n, mpr[n])
  BY DEF WInv
<1>2. Useless(n, mpr[n], y, x) => Useless(n, mpr[n] \cup M, y, x)
  BY DEF Useless
<1>3. CASE y \in mpr[n]
  BY <1>1, <1>2, <1>3 DEF FirstOf
<1>4. CASE y \notin mpr[n] /\ M = AlwaysWilling(ViewOf(n))
  <2>1. Will[y] = 7 /\ Will[x] \in 0 .. 7
    BY <1>4, FloodAssumption DEF AlwaysWilling, ViewOf, ALWAYS, NEVER, Neighbors, Willingness
  <2> QED BY <2>1
<1>5. CASE y \notin mpr[n] /\ M = OnlyProviders(left[n])
  BY <1>1, <1>5, OnlyProviderIsOnlyWay
<1>6. CASE y \notin mpr[n] /\ \E z \in Preferred(ViewOf(n), left[n]) : M = {z}
  <2>1. y \in Preferred(ViewOf(n), left[n])
    BY <1>6
  <2> QED BY <1>1, <1>2, <1>6, <2>1, PreferredIsMostWilling
<1> QED BY <1>3, <1>4, <1>5, <1>6

(* The graph stays, and with it all that is said of it.                    *)
LEMMA WFrame ==
    ASSUME WInv, TypeOK', edge' = edge, NEW n \in Node, NEW M,
           left' = [left EXCEPT ![n] = Uncovered(@, M)],
           mpr' = [mpr EXCEPT ![n] = @ \cup M],
           FirstOf(n, mpr[n] \cup M)
    PROVE  WInv'
<1>1. \A x \in Node : Neighbors(x)' = Neighbors(x) /\ TwoOf(x)' = TwoOf(x)
  BY DEF Neighbors, TwoOf, ViewOf, StrictTwoHops
<1>2. DOMAIN left = Node /\ DOMAIN mpr = Node
  BY DEF WInv, TypeOK
<1>3. ASSUME NEW x \in Node
      PROVE  LeftIs(x, left'[x], mpr'[x]) /\ FirstOf(x, mpr'[x])
  <2>1. CASE x = n
    BY <1>2, <2>1, LeftStaysExact DEF WInv
  <2>2. CASE x # n
    BY <1>2, <2>2 DEF WInv
  <2> QED BY <2>1, <2>2
<1>4. ASSUME NEW x \in Node
      PROVE  LeftIs(x, left[x], mpr[x])' /\ FirstOf(x, mpr[x])'
  <2>1. LeftIs(x, left[x], mpr[x])' = LeftIs(x, left'[x], mpr'[x])
    BY <1>1 DEF LeftIs
  <2>2. FirstOf(x, mpr[x])' = FirstOf(x, mpr'[x])
    BY <1>1 DEF FirstOf, OnlyWayOf, Useless
  <2> QED BY <1>3, <2>1, <2>2
<1> QED BY <1>4 DEF WInv

LEMMA WInit == Init => WInv
<1> SUFFICES ASSUME Init PROVE WInv
  OBVIOUS
<1>1. TypeOK
  BY FInit DEF FInv
<1>2. \A n \in Node : LeftIs(n, left[n], mpr[n]) /\ FirstOf(n, mpr[n])
  BY DEF Init, LeftIs, FirstOf, TwoOf
<1> QED BY <1>1, <1>2 DEF WInv

LEMMA WStep == WInv /\ TypeOK' /\ [Next]_vars => WInv'
<1> SUFFICES ASSUME WInv, TypeOK', [Next]_vars PROVE WInv'
  OBVIOUS
<1>1. CASE UNCHANGED <<edge, left, mpr>>
  <2>1. \A x \in Node : Neighbors(x)' = Neighbors(x) /\ TwoOf(x)' = TwoOf(x)
    BY <1>1 DEF Neighbors, TwoOf, ViewOf, StrictTwoHops
  <2> QED BY <1>1, <2>1 DEF WInv, LeftIs, FirstOf, OnlyWayOf, Useless
<1>2. ASSUME NEW n \in Node, SelectAlways(n) PROVE WInv'
  BY <1>2, OrderKept, WFrame DEF SelectAlways, Select
<1>3. ASSUME NEW n \in Node, SelectOnly(n) PROVE WInv'
  BY <1>3, OrderKept, WFrame DEF SelectOnly, Select
<1>4. ASSUME NEW n \in Node, SelectPreferred(n) PROVE WInv'
  <2>1. PICK y \in Preferred(ViewOf(n), left[n]) : Select(n, {y}, "rest")
    BY <1>4 DEF SelectPreferred
  <2> QED BY <2>1, OrderKept, WFrame DEF Select
<1>5. ASSUME NEW n \in Node,
             SetMprSet(n) \/ TcTimerExpire(n) \/ SendQueuedMessages(n)
      PROVE  UNCHANGED <<edge, left, mpr>>
  BY <1>5 DEF SetMprSet, TcTimerExpire, SendQueuedMessages
<1> QED BY <1>1, <1>2, <1>3, <1>4, <1>5 DEF Next, MprComputation, vars

(* A relay that is not the only way to some node was taken when all more   *)
(* willing neighbours that are left out had nothing to add (line 911).     *)
THEOREM MostWillingFirst == Spec => []WillingFirst
<1>1. WInv => WillingFirst
  BY DEF WInv, FirstOf, OnlyWayOf, Useless, TwoOf, WillingFirst
<1> QED BY <1>1, WInit, WStep, FloodTypes, PTL DEF Spec

(* No node is stuck in step 4: while N2 is not empty there is a neighbour  *)
(* to choose, and the choice leaves less of N2 (the loop at line 868 has   *)
(* no other exit).                                                         *)
THEOREM ChoiceGoesOn ==
    Spec => [](\A n \in Node : left[n] # {} =>
                 /\ Preferred(ViewOf(n), left[n]) # {}
                 /\ \A y \in Preferred(ViewOf(n), left[n]) :
                       Cardinality(Uncovered(left[n], {y})) < Cardinality(left[n]))
<1> DEFINE Goes(n) == left[n] # {} =>
                        /\ Preferred(ViewOf(n), left[n]) # {}
                        /\ \A y \in Preferred(ViewOf(n), left[n]) :
                              Cardinality(Uncovered(left[n], {y})) < Cardinality(left[n])
<1>1. ASSUME TypeOK, NEW n \in Node PROVE Goes(n)
  <2> DEFINE v == ViewOf(n)
  <2>1. /\ v.nbr = Neighbors(n) /\ v.will = Will /\ v.self = n
        /\ v.two = {t \in edge : t[1] \in Neighbors(n) /\ t[2] # n}
    BY DEF ViewOf
  <2>2. /\ v.nbr \subseteq Node /\ v.will \in [Node -> Willingness]
        /\ v.two \subseteq Node \X Node
    <3>1. edge \subseteq Node \X Node
      BY <1>1 DEF TypeOK
    <3> QED BY <2>1, <3>1, FloodAssumption DEF Neighbors
  <2>3. IsFiniteSet(Node \X Node)
    BY FloodAssumption, FS_Product
  <2>4. left[n] \subseteq StrictTwoHops(v)
    BY <1>1 DEF TypeOK
  <2> HIDE DEF v
  <2>5. Sensible(v)
    BY <2>2, <2>3, FS_Subset DEF Sensible
  <2>6. left[n] \subseteq v.two /\ \A t \in left[n] : t[1] \in v.nbr
    BY <2>4 DEF StrictTwoHops
  <2>7. left[n] \in SUBSET (Node \X Node) /\ IsFiniteSet(left[n])
    BY <2>2, <2>3, <2>6, FS_Subset
  <2>8. left[n] # {} => Preferred(v, left[n]) # {}
    BY <2>5, <2>6, SomeonePreferred
  <2>9. \A y \in Preferred(v, left[n]) :
           Cardinality(Uncovered(left[n], {y})) < Cardinality(left[n])
    BY <2>7, UncoveredShrinks
  <2> QED BY <2>8, <2>9 DEF v
<1>2. TypeOK => \A n \in Node : Goes(n)
  BY <1>1
<1> QED BY <1>2, FloodTypes, PTL
=============================================================================
