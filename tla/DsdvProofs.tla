----------------------------- MODULE DsdvProofs -----------------------------
(***************************************************************************)
(* For every network of nodes running DsdvRouting: the tables keep their   *)
(* type, every advertised entry that waits has an event, and no sequence   *)
(* number is one that its owner has not reached.                           *)
(*                                                                         *)
(* The three belong together: S[d] stands for the numbers that may occur   *)
(* for node d.                                                             *)
(***************************************************************************)
EXTENDS DsdvRouting, WellFoundedInduction, TLAPS

(* A set of numbers to which that of a broken route belongs as well.       *)
Closed(Q) == Q \subseteq Nat /\ 0 \in Q /\ \A s \in Q : Even(s) => s + 1 \in Q

Numbers == [Node -> {Q \in SUBSET Nat : Closed(Q)}]

RouteOK(e, Q) == e \in MainEntry /\ e.seq \in Q /\ Even(e.seq)
AdvertOK(a, Q) == a \in AdvEntry /\ a.seq \in Q
Recorded(a, ev) == a.on /\ ~a.changed => ev # "none"

(* Sound tables, but for the events of the destinations in W, which an     *)
(* operator has yet to see to.                                             *)
Sound(t, S, W) ==
    /\ t \in Tables
    /\ \A d \in Node : /\ RouteOK(t.main[d], S[d])
                       /\ AdvertOK(t.adv[d], S[d])
                       /\ d \notin W => Recorded(t.adv[d], t.event[d])

-----------------------------------------------------------------------------
(* Entries *)

(* No entry is a sound entry.                                              *)
LEMMA NoneOK ==
    ASSUME NEW Q, Closed(Q)
    PROVE  RouteOK(NoRoute, Q) /\ AdvertOK(NoAdvert, Q)
BY DEF RouteOK, AdvertOK, NoRoute, NoAdvert, MainEntry, AdvEntry, Closed, Even

(* A header that is taken makes sound entries in both tables.              *)
LEMMA HeardOK ==
    ASSUME NEW Q, Closed(Q), NEW seq \in Q, NEW hop \in Nat, NEW from \in Node,
           NEW shared \in BOOLEAN
    PROVE  /\ AdvertOK(Heard(seq, hop, from, shared), Q)
           /\ Even(seq) => RouteOK(AsRoute(Heard(seq, hop, from, shared)), Q)
BY DEF RouteOK, AdvertOK, Heard, AsRoute, MainEntry, AdvEntry, Closed, Even

(* The fields of an entry that is there.                                   *)
LEMMA RouteFields ==
    ASSUME NEW e \in MainEntry, e.on
    PROVE  /\ e.seq \in Nat /\ e.hop \in Nat /\ e.nh \in Node
           /\ e.changed \in BOOLEAN /\ e.old \in BOOLEAN
<1>1. e # NoRoute
  BY DEF NoRoute
<1> QED BY <1>1 DEF MainEntry

LEMMA AdvertFields ==
    ASSUME NEW a \in AdvEntry, a.on
    PROVE  /\ a.seq \in Nat /\ a.hop \in Nat /\ a.nh \in Node
           /\ a.changed \in BOOLEAN /\ a.shared \in BOOLEAN
<1>1. a # NoAdvert
  BY DEF NoAdvert
<1> QED BY <1>1 DEF AdvEntry

(* Copies from the advertised table to the main table and back.            *)
LEMMA AdvertCopyOK ==
    ASSUME NEW Q, Closed(Q), NEW a, AdvertOK(a, Q), a.on, Even(a.seq)
    PROVE  /\ RouteOK(AsRoute(a), Q)
           /\ RouteOK([AsRoute(a) EXCEPT !.changed = FALSE], Q)
BY AdvertFields DEF RouteOK, AdvertOK, AsRoute, MainEntry

LEMMA RouteCopyOK ==
    ASSUME NEW Q, Closed(Q), NEW e, RouteOK(e, Q), e.on, NEW b \in BOOLEAN
    PROVE  AdvertOK(AsAdvert(e, b), Q)
BY RouteFields DEF RouteOK, AdvertOK, AsAdvert, AdvEntry

(* What is made of the entry of a route that is broken.                    *)
LEMMA BrokenOK ==
    ASSUME NEW S \in Numbers, NEW t, NEW D, NEW d \in D \cap Node,
           RouteOK(t.main[d], S[d]), t.main[d].on
    PROVE  LET b == Broken(t, D)[d]
           IN  AdvertOK(b, S[d]) /\ b.on /\ b.changed
<1>1. t.main[d].seq + 1 \in S[d] /\ t.main[d].seq + 1 \in Nat
  BY DEF RouteOK, Closed, Numbers
<1> QED BY <1>1, RouteFields DEF RouteOK, AdvertOK, AdvEntry, Broken

-----------------------------------------------------------------------------
(* Operators on tables *)

(* The types of the three tables together.                                 *)
Events == {"none", "pending", "expired"}

LEMMA TablesOf ==
    ASSUME NEW t \in Tables
    PROVE  /\ t.main \in [Node -> MainEntry] /\ t.adv \in [Node -> AdvEntry]
           /\ t.event \in [Node -> Events]
           /\ t = [main |-> t.main, adv |-> t.adv, event |-> t.event]
BY DEF Tables, Events

(* Tables are sound if every destination is.                               *)
LEMMA SoundBy ==
    ASSUME NEW S, NEW W, NEW t, NEW m, NEW a, NEW e,
           t = [main |-> m, adv |-> a, event |-> e],
           m = [d \in Node |-> m[d]], a = [d \in Node |-> a[d]], e = [d \in Node |-> e[d]],
           \A d \in Node : /\ RouteOK(m[d], S[d]) /\ AdvertOK(a[d], S[d]) /\ e[d] \in Events
                           /\ d \notin W => Recorded(a[d], e[d])
    PROVE  Sound(t, S, W)
<1>1. m \in [Node -> MainEntry] /\ a \in [Node -> AdvEntry] /\ e \in [Node -> Events]
  <2>1. /\ \A d \in Node : m[d] \in MainEntry
        /\ \A d \in Node : a[d] \in AdvEntry
        /\ \A d \in Node : e[d] \in Events
    BY DEF RouteOK, AdvertOK
  <2> QED BY <2>1
<1>2. t \in Tables
  BY <1>1 DEF Tables, Events
<1> QED BY <1>2 DEF Sound

(* One destination at a time.                                              *)
LEMMA SoundAt ==
    ASSUME NEW S, NEW t, NEW u, NEW d \in Node, Sound(t, S, {d}),
           NEW m, NEW a, NEW e, RouteOK(m, S[d]), AdvertOK(a, S[d]), e \in Events,
           Recorded(a, e),
           u \in Tables, u.main = [t.main EXCEPT ![d] = m], u.adv = [t.adv EXCEPT ![d] = a],
           u.event = [t.event EXCEPT ![d] = e]
    PROVE  Sound(u, S, {})
<1>1. t \in Tables
  BY DEF Sound
<1>2. ASSUME NEW x \in Node
      PROVE  /\ RouteOK(u.main[x], S[x]) /\ AdvertOK(u.adv[x], S[x]) /\ u.event[x] \in Events
             /\ Recorded(u.adv[x], u.event[x])
  BY <1>1, TablesOf DEF Sound
<1> QED BY <1>1, <1>2, TablesOf, SoundBy

(* An operator may leave a destination aside that is in order.             *)
LEMMA SoundWeaken ==
    ASSUME NEW S, NEW t, NEW W, Sound(t, S, {})
    PROVE  Sound(t, S, W)
BY DEF Sound

(* The advertised entry is dropped.                                        *)
LEMMA SoundDiscard ==
    ASSUME NEW S \in Numbers, NEW t, NEW d \in Node, Sound(t, S, {d})
    PROVE  Sound(Discard(t, d), S, {})
<1>0. t \in Tables /\ Closed(S[d])
  BY DEF Sound, Numbers
<1>1. CASE Settling(t, d)
  BY <1>1 DEF Discard, Sound, Settling, Recorded
<1>2. CASE ~Settling(t, d)
  <2>1. /\ Discard(t, d) \in Tables
        /\ Discard(t, d).main = [t.main EXCEPT ![d] = t.main[d]]
        /\ Discard(t, d).adv = [t.adv EXCEPT ![d] = NoAdvert]
        /\ Discard(t, d).event = [t.event EXCEPT ![d] = t.event[d]]
    BY <1>0, <1>2, NoneOK DEF Discard, Tables, AdvertOK
  <2>2. Recorded(NoAdvert, t.event[d])
    BY DEF Recorded, NoAdvert
  <2> QED BY <1>0, <2>1, <2>2, NoneOK, TablesOf, SoundAt DEF Sound
<1> QED BY <1>1, <1>2

(* AddRoute writes where there is no entry.                                *)
LEMMA AnnounceIs ==
    ASSUME NEW t \in Tables, NEW D, NEW f
    PROVE  LET u == Announce(t, D, f)
           IN  /\ u.main = t.main /\ u.event = t.event
               /\ u.adv = [x \in Node |-> IF x \in D /\ ~t.adv[x].on THEN f[x] ELSE t.adv[x]]
               /\ u.adv \in [Node -> AdvEntry] => u \in Tables
BY DEF Announce, Tables

LEMMA SoundAnnounce ==
    ASSUME NEW S, NEW t, NEW W, Sound(t, S, W), NEW D, NEW f,
           \A x \in D \cap Node : AdvertOK(f[x], S[x])
    PROVE  /\ Sound(Announce(t, D, f), S, W \cup D)
           /\ (\A x \in D \cap Node : f[x].changed) => Sound(Announce(t, D, f), S, W)
           /\ (\A x \in D \cap Node : f[x].on) => \A x \in D \cap Node : Announce(t, D, f).adv[x].on
<1> DEFINE u == Announce(t, D, f)
<1>1. t \in Tables
  BY DEF Sound
<1>2. /\ u.main = t.main /\ u.event = t.event
      /\ u.adv = [x \in Node |-> IF x \in D /\ ~t.adv[x].on THEN f[x] ELSE t.adv[x]]
      /\ u.adv \in [Node -> AdvEntry] => u \in Tables
  BY <1>1, AnnounceIs
<1> HIDE DEF u
<1>3. ASSUME NEW x \in Node
      PROVE  RouteOK(u.main[x], S[x]) /\ AdvertOK(u.adv[x], S[x])
  BY <1>2 DEF Sound
<1>4. u \in Tables
  BY <1>2, <1>3 DEF AdvertOK
<1>5. ASSUME NEW x \in Node, x \notin W, x \notin D
      PROVE  Recorded(u.adv[x], u.event[x])
  BY <1>2, <1>5 DEF Sound
<1>6. ASSUME NEW x \in Node, x \notin W, x \in D, f[x].changed
      PROVE  Recorded(u.adv[x], u.event[x])
  BY <1>2, <1>6 DEF Sound, Recorded
<1>7. (\A x \in D \cap Node : f[x].on) => \A x \in D \cap Node : u.adv[x].on
  BY <1>2
<1>8. Sound(u, S, W \cup D)
  BY <1>3, <1>4, <1>5 DEF Sound
<1>9. (\A x \in D \cap Node : f[x].changed) => Sound(u, S, W)
  BY <1>3, <1>4, <1>5, <1>6 DEF Sound
<1> QED BY <1>7, <1>8, <1>9 DEF u

(* The main entry is copied before a header is looked at.                  *)
LEMMA SoundWithAdvert ==
    ASSUME NEW S \in Numbers, NEW t, NEW d \in Node, Sound(t, S, {}), t.main[d].on
    PROVE  /\ Sound(WithAdvert(t, d), S, {d})
           /\ WithAdvert(t, d).adv[d].on
           /\ WithAdvert(t, d).main = t.main
<1> DEFINE f == [x \in {d} |-> AsAdvert(t.main[x], TRUE)]
<1>1. Closed(S[d]) /\ t \in Tables
  BY DEF Numbers, Sound
<1>2. AdvertOK(f[d], S[d])
  BY <1>1, RouteCopyOK DEF Sound
<1>3. f[d].on
  BY DEF AsAdvert
<1>4. WithAdvert(t, d) = Announce(t, {d}, f)
  BY DEF WithAdvert
<1> HIDE DEF f
<1>5. \A x \in {d} \cap Node : AdvertOK(f[x], S[x]) /\ f[x].on
  BY <1>2, <1>3
<1>6. /\ Sound(Announce(t, {d}, f), S, {} \cup {d})
      /\ \A x \in {d} \cap Node : Announce(t, {d}, f).adv[x].on
  BY <1>5, SoundAnnounce
<1>7. {} \cup {d} = {d}
  OBVIOUS
<1>8. Sound(Announce(t, {d}, f), S, {d})
  BY <1>6, <1>7
<1>9. Announce(t, {d}, f).adv[d].on
  BY <1>6
<1>10. Announce(t, {d}, f).main = t.main
  BY <1>1 DEF Announce, Tables
<1> QED BY <1>4, <1>8, <1>9, <1>10

(* RecvDsdv takes a header: both tables at once.                           *)
LEMMA SoundSettle ==
    ASSUME NEW S \in Numbers, NEW t, NEW d \in Node, Sound(t, S, {d}),
           NEW seq \in S[d], Even(seq), NEW hop \in Nat, NEW from \in Node
    PROVE  Sound(Settle(t, d, seq, hop, from), S, {})
<1>0. t \in Tables /\ Closed(S[d])
  BY DEF Sound, Numbers
<1> DEFINE a == Heard(seq, hop, from, TRUE)
           m == AsRoute(a)
           u == Settle(t, d, seq, hop, from)
<1>1. RouteOK(m, S[d]) /\ AdvertOK(a, S[d])
  BY <1>0, HeardOK
<1>2. Recorded(a, "pending") /\ "pending" \in Events
  BY DEF Recorded, Events
<1>3. u = [t EXCEPT !.main[d] = m, !.adv[d] = a, !.event[d] = "pending"]
  BY DEF Settle
<1> HIDE DEF a, m, u
<1>4. /\ u \in Tables /\ u.main = [t.main EXCEPT ![d] = m]
      /\ u.adv = [t.adv EXCEPT ![d] = a] /\ u.event = [t.event EXCEPT ![d] = "pending"]
  BY <1>0, <1>1, <1>2, <1>3 DEF Tables, RouteOK, AdvertOK
<1>5. QED BY <1>1, <1>2, <1>4, SoundAt DEF u

(* ... or the advertised table only.                                       *)
LEMMA SoundSameMetric ==
    ASSUME NEW S \in Numbers, NEW t, NEW d \in Node, Sound(t, S, {d}),
           t.main[d].on, t.adv[d].on,
           NEW seq \in S[d], NEW hop \in Nat, NEW from \in Node
    PROVE  Sound(SameMetric(t, d, seq, hop, from), S, {})
<1>0. t \in Tables /\ Closed(S[d]) /\ t.adv[d] \in AdvEntry
  BY TablesOf DEF Sound, Numbers
<1> DEFINE a == Heard(seq, hop, from, t.adv[d].shared)
           m == [t.main[d] EXCEPT !.nh = IF t.adv[d].shared THEN from ELSE @]
           u == SameMetric(t, d, seq, hop, from)
<1>1. u = [t EXCEPT !.main[d].nh = IF t.adv[d].shared THEN from ELSE @,
                    !.adv[d] = a, !.event[d] = "none"]
  BY DEF SameMetric
<1>2. AdvertOK(a, S[d])
  BY <1>0, HeardOK, AdvertFields
<1>3. RouteOK(m, S[d])
  <2>1. RouteOK(t.main[d], S[d]) /\ t.main[d] # NoRoute
    BY DEF Sound, NoRoute
  <2> QED BY <2>1 DEF RouteOK, MainEntry
<1>4. Recorded(a, "none") /\ "none" \in Events
  BY DEF Recorded, Events, Heard
<1> HIDE DEF a, u
<1>5. /\ u \in Tables /\ u.main = [t.main EXCEPT ![d] = m]
      /\ u.adv = [t.adv EXCEPT ![d] = a] /\ u.event = [t.event EXCEPT ![d] = "none"]
  BY <1>0, <1>1, <1>2, <1>3, <1>4 DEF Tables, RouteOK, AdvertOK
<1> QED BY <1>2, <1>3, <1>4, <1>5, SoundAt DEF u

(* The advertised entry is written to the main table and dropped.          *)
LEMMA SoundDuplicate ==
    ASSUME NEW S \in Numbers, NEW t, NEW d \in Node, Sound(t, S, {d}),
           t.adv[d].on, Even(t.adv[d].seq), NEW from
    PROVE  Sound(Duplicate(t, d, from), S, {})
<1>0. t \in Tables /\ Closed(S[d])
  BY DEF Sound, Numbers
<1> DEFINE u == [t EXCEPT !.main[d] = AsRoute(t.adv[d])]
<1>1. u = [main |-> [t.main EXCEPT ![d] = AsRoute(t.adv[d])], adv |-> t.adv, event |-> t.event]
  BY <1>0, TablesOf
<1>2. RouteOK(AsRoute(t.adv[d]), S[d])
  BY <1>0, AdvertCopyOK DEF Sound
<1>3. ASSUME NEW x \in Node
      PROVE  /\ RouteOK(u.main[x], S[x]) /\ AdvertOK(u.adv[x], S[x]) /\ u.event[x] \in Events
             /\ x \notin {d} => Recorded(u.adv[x], u.event[x])
  BY <1>0, <1>1, <1>2, TablesOf DEF Sound
<1>4. Sound(u, S, {d})
  <2>1. u.main \in [Node -> MainEntry]
    BY <1>0, <1>1, <1>2, TablesOf DEF RouteOK
  <2> HIDE DEF u
  <2> QED BY <1>0, <1>1, <1>3, <2>1, TablesOf, SoundBy
<1> HIDE DEF u
<1>5. Sound(Discard(u, d), S, {}) /\ Sound(Discard(t, d), S, {})
  BY <1>4, SoundDiscard
<1> QED BY <1>5 DEF Duplicate, u

(* DeleteRoute on the main table.                                          *)
LEMMA SoundDropMain ==
    ASSUME NEW S \in Numbers, NEW t, NEW W, Sound(t, S, W), NEW D
    PROVE  Sound(DropMain(t, D), S, W)
<1> DEFINE u == DropMain(t, D)
           b(d) == [t.adv[d] EXCEPT !.shared = FALSE]
<1>1. t \in Tables
  BY DEF Sound
<1>2. /\ u.main = [d \in Node |-> IF d \in D THEN NoRoute ELSE t.main[d]]
      /\ u.adv = [d \in Node |-> IF d \in D /\ t.adv[d].on THEN b(d) ELSE t.adv[d]]
      /\ u.event = t.event
      /\ u.main \in [Node -> MainEntry] /\ u.adv \in [Node -> AdvEntry] => u \in Tables
  BY <1>1 DEF DropMain, Tables
<1> HIDE DEF u
<1>3. ASSUME NEW d \in Node
      PROVE  /\ RouteOK(u.main[d], S[d]) /\ AdvertOK(u.adv[d], S[d])
             /\ d \notin W => Recorded(u.adv[d], u.event[d])
  <2>1. RouteOK(u.main[d], S[d])
    BY <1>2, NoneOK DEF Sound, Numbers
  <2>2. t.adv[d].on => AdvertOK(b(d), S[d]) /\ b(d).changed = t.adv[d].changed
    <3>1. ASSUME t.adv[d].on PROVE t.adv[d] # NoAdvert
      BY <3>1 DEF NoAdvert
    <3> QED BY <3>1 DEF Sound, AdvertOK, AdvEntry
  <2>3. d \notin W => Recorded(t.adv[d], t.event[d])
    BY DEF Sound
  <2> QED BY <1>2, <2>1, <2>2, <2>3 DEF Sound, Recorded
<1>4. u \in Tables
  BY <1>2, <1>3 DEF RouteOK, AdvertOK
<1> QED BY <1>3, <1>4 DEF Sound, u

(* Broken routes make sound adverts.                                       *)
LEMMA SoundBroken ==
    ASSUME NEW S \in Numbers, NEW t, NEW W, Sound(t, S, W), NEW D,
           \A x \in D : x \in Node /\ t.main[x].on,
           NEW u, Sound(u, S, W)
    PROVE  Sound(Announce(u, D, Broken(t, D)), S, W)
<1>1. ASSUME NEW x \in D \cap Node
      PROVE  AdvertOK(Broken(t, D)[x], S[x]) /\ Broken(t, D)[x].changed
  BY BrokenOK DEF Sound
<1> QED BY <1>1, SoundAnnounce

(* The next hop says that the route is broken.                             *)
LEMMA SoundBreak ==
    ASSUME NEW S \in Numbers, NEW t, NEW d \in Node, Sound(t, S, {d}),
           t.adv[d].on, NEW seq \in S[d]
    PROVE  Sound(Break(t, d, seq), S, {})
<1> DEFINE a == [t.adv[d] EXCEPT !.seq = seq, !.changed = TRUE]
           u == [t EXCEPT !.adv[d] = a]
           lost == Using(t, d)
<1>0. t \in Tables /\ Closed(S[d]) /\ t.adv[d] \in AdvEntry /\ t.adv[d] # NoAdvert
  BY TablesOf DEF Sound, Numbers, NoAdvert
<1>1. AdvertOK(a, S[d]) /\ a.changed
  BY <1>0 DEF AdvertOK, AdvEntry, Closed
<1>2. Recorded(a, t.event[d])
  BY <1>1 DEF Recorded
<1> HIDE DEF a
<1>3. /\ u \in Tables /\ u.main = [t.main EXCEPT ![d] = t.main[d]]
      /\ u.adv = [t.adv EXCEPT ![d] = a] /\ u.event = [t.event EXCEPT ![d] = t.event[d]]
  BY <1>0, <1>1 DEF Tables, AdvertOK
<1>4. Sound(u, S, {})
  BY <1>0, <1>1, <1>2, <1>3, SoundAt, TablesOf DEF Sound
<1> HIDE DEF u
<1>5. \A x \in lost : x \in Node /\ t.main[x].on /\ u.main[x] = t.main[x]
  BY <1>0, <1>3, TablesOf DEF Using
<1>6. Broken(t, lost) = Broken(u, lost)
  BY <1>5 DEF Broken
<1>7. \A x \in lost : x \in Node /\ u.main[x].on
  BY <1>5
<1> HIDE DEF lost
<1>8. Sound(Announce(u, lost, Broken(t, lost)), S, {})
  BY <1>4, <1>6, <1>7, SoundBroken
<1>9. Sound(DropMain(Announce(u, lost, Broken(t, lost)), lost \cup {d}), S, {})
  BY <1>8, SoundDropMain
<1> QED BY <1>9 DEF Break, u, a, lost

(* An address without a route: both tables.                                *)
LEMMA SoundNewRoute ==
    ASSUME NEW S \in Numbers, NEW t, NEW d \in Node, Sound(t, S, {}),
           NEW seq \in S[d], Even(seq), NEW hop \in Nat, NEW from \in Node
    PROVE  Sound(NewRoute(t, d, seq, hop, from), S, {})
<1> DEFINE a == Heard(seq, hop, from, ~t.adv[d].on)
           u == [t EXCEPT !.main[d] = AsRoute(a)]
           f == [x \in {d} |-> a]
<1>0. t \in Tables /\ Closed(S[d]) /\ t.adv[d].on \in BOOLEAN
  <2>1. t \in Tables /\ t.adv[d] \in AdvEntry
    BY TablesOf DEF Sound
  <2>2. CASE t.adv[d] = NoAdvert
    BY <2>1, <2>2 DEF NoAdvert, Numbers
  <2>3. CASE t.adv[d] # NoAdvert
    BY <2>1, <2>3 DEF AdvEntry, Numbers
  <2> QED BY <2>2, <2>3
<1>1. RouteOK(AsRoute(a), S[d]) /\ AdvertOK(a, S[d]) /\ a.changed
  <2>1. (~t.adv[d].on) \in BOOLEAN
    BY <1>0
  <2> QED BY <1>0, <2>1, HeardOK DEF Heard
<1> HIDE DEF a
<1>2. u \in Tables /\ u.main = [t.main EXCEPT ![d] = AsRoute(a)] /\ u.adv = t.adv
      /\ u.event = t.event
  BY <1>0, <1>1 DEF Tables, RouteOK
<1> HIDE DEF u
<1>3. Sound(u, S, {})
  BY <1>1, <1>2, <1>0, TablesOf DEF Sound
<1>4. \A x \in {d} \cap Node : AdvertOK(f[x], S[x]) /\ f[x].changed
  BY <1>1
<1>5. Sound(Announce(u, {d}, f), S, {})
  <2> HIDE DEF f
  <2> QED BY <1>3, <1>4, SoundAnnounce
<1> QED BY <1>5 DEF NewRoute, u, a

(* The update procedures take what is ready out of the advertised table.   *)
LEMMA SoundFlush ==
    ASSUME NEW S \in Numbers, NEW t, NEW W, Sound(t, S, W)
    PROVE  /\ Sound(Flush(t), S, W)
           /\ Sound(ForgetEvents(Flush(t), Ready(t)), S, W)
<1> DEFINE R == Ready(t)
           m(d) == [AsRoute(t.adv[d]) EXCEPT !.changed = FALSE]
           u == Flush(t)
           v == ForgetEvents(u, R)
<1>1. t \in Tables
  BY DEF Sound
<1>2. /\ u.main = [d \in Node |-> IF d \in R /\ Even(t.adv[d].seq) /\ t.main[d].on
                                  THEN m(d) ELSE t.main[d]]
      /\ u.adv = [d \in Node |-> IF d \in R THEN NoAdvert ELSE t.adv[d]]
      /\ u.event = t.event
      /\ u.main \in [Node -> MainEntry] /\ u.adv \in [Node -> AdvEntry] => u \in Tables
  BY <1>1 DEF Flush, Tables
<1>3. ASSUME NEW d \in R
      PROVE  d \in Node /\ t.adv[d].on
  BY <1>3 DEF Ready
<1> HIDE DEF u, R
<1>4. ASSUME NEW d \in Node
      PROVE  RouteOK(u.main[d], S[d])
  <2>1. d \in R /\ Even(t.adv[d].seq) => RouteOK(m(d), S[d])
    BY <1>3, AdvertCopyOK DEF Sound, Numbers
  <2> HIDE DEF m
  <2> QED BY <1>2, <2>1 DEF Sound
<1>5. ASSUME NEW d \in Node
      PROVE  AdvertOK(u.adv[d], S[d])
  BY <1>2, NoneOK DEF Sound, Numbers
<1>6. u \in Tables
  BY <1>2, <1>4, <1>5 DEF RouteOK, AdvertOK
<1>7. ASSUME NEW d \in Node, d \notin W
      PROVE  Recorded(u.adv[d], u.event[d]) /\ (d \in R => Recorded(u.adv[d], "none"))
  BY <1>2, <1>7 DEF Sound, Recorded, NoAdvert
<1>8. /\ v \in Tables /\ v.main = u.main /\ v.adv = u.adv
      /\ v.event = [d \in Node |-> IF d \in R THEN "none" ELSE u.event[d]]
  BY <1>6 DEF ForgetEvents, Tables
<1> HIDE DEF v
<1>9. Sound(u, S, W)
  BY <1>4, <1>5, <1>6, <1>7 DEF Sound
<1>10. Sound(v, S, W)
  BY <1>4, <1>5, <1>7, <1>8 DEF Sound
<1> QED BY <1>9, <1>10 DEF u, v, R

(* Purge removes entries that are there, and only if one is old.           *)
LEMMA PurgedThere ==
    ASSUME NEW m
    PROVE  /\ \A d \in Purged(m) : d \in Node /\ m[d].on
           /\ Purged(m) # {} => \E d \in Node : m[d].on /\ m[d].old
BY DEF Purged

-----------------------------------------------------------------------------
(* The invariant *)

Possible == [d \in Node |-> IF faults.down = 0 THEN {s \in Nat : Reached(d, s)} ELSE Nat]

HeadersOK(hdr, S) ==
    \A d \in DOMAIN hdr : d \in Node /\ hdr[d] \in Header /\ hdr[d].seq \in S[d]

Sent(l, S) ==
    {p \in Packet : p.from = l[1] /\ p.gone \subseteq DOMAIN p.hdr /\ HeadersOK(p.hdr, S)}

NodesOK == /\ own \in [Node -> Nat] /\ up \in [Node -> BOOLEAN] /\ trig \in [Node -> BOOLEAN]
           /\ periodic \in [Node -> BOOLEAN] /\ faults \in Faults
           /\ faults.down = 0 => \A n \in Node : up[n]

TablesOK == /\ tab \in [Node -> Tables]
            /\ \A n \in Node : Sound(tab[n], Possible, {})

AirOK == /\ DOMAIN air = Link
         /\ \A l \in Link : air[l] \in Seq(Sent(l, Possible))

InHand == [at : Node, from : Node, hdr : UNION {[D -> Header] : D \in SUBSET Node},
           gone : SUBSET Node, rest : SUBSET Node]

ReadingOK == /\ Busy => /\ reading \in InHand
                        /\ reading.rest \subseteq DOMAIN reading.hdr
                        /\ <<reading.from, reading.at>> \in Link
             /\ HeadersOK(reading.hdr, Possible)

DInv == NodesOK /\ TablesOK /\ AirOK /\ ReadingOK

(* The numbers that are possible include that of a broken route.           *)
LEMMA PossibleNumbers == ASSUME NodesOK PROVE Possible \in Numbers
<1>1. ASSUME NEW d \in Node
      PROVE  Closed({s \in Nat : Reached(d, s)}) /\ Closed(Nat)
  <2>1. own[d] \in Nat
    BY DEF NodesOK
  <2>2. ASSUME NEW s \in Nat, Even(s), Reached(d, s)
        PROVE  Reached(d, s + 1)
    BY <2>1, <2>2 DEF Even, Reached
  <2>3. Reached(d, 0)
    BY <2>1 DEF Reached
  <2> QED BY <2>2, <2>3 DEF Closed
<1> QED BY <1>1 DEF Possible, Numbers

(* With more numbers, everything stays sound.                              *)
LEMMA SoundMore ==
    ASSUME NEW S, NEW R, \A d \in Node : S[d] \subseteq R[d]
    PROVE  /\ \A t, W : Sound(t, S, W) => Sound(t, R, W)
           /\ \A hdr : HeadersOK(hdr, S) => HeadersOK(hdr, R)
           /\ \A l \in Link : Sent(l, S) \subseteq Sent(l, R)
<1>1. ASSUME NEW t, NEW W, Sound(t, S, W)
      PROVE  Sound(t, R, W)
  BY <1>1 DEF Sound, RouteOK, AdvertOK
<1>2. ASSUME NEW hdr, HeadersOK(hdr, S)
      PROVE  HeadersOK(hdr, R)
  BY <1>2 DEF HeadersOK
<1> QED BY <1>1, <1>2 DEF Sent

LEMMA SeqMore ==
    ASSUME NEW A, NEW B, A \subseteq B, NEW s \in Seq(A)
    PROVE  s \in Seq(B)
<1>1. Len(s) \in Nat /\ s \in [1 .. Len(s) -> A]
  OBVIOUS
<1>2. s \in [1 .. Len(s) -> B]
  BY <1>1
<1> QED BY <1>1, <1>2

LEMMA SoundEmpty == ASSUME NEW S \in Numbers PROVE Sound(Empty, S, {})
<1>1. Empty \in Tables
  BY DEF Empty, Tables, MainEntry, AdvEntry
<1>2. ASSUME NEW d \in Node
      PROVE  /\ RouteOK(Empty.main[d], S[d]) /\ AdvertOK(Empty.adv[d], S[d])
             /\ Recorded(Empty.adv[d], Empty.event[d])
  <2>1. Closed(S[d])
    BY DEF Numbers
  <2> QED BY <2>1, NoneOK DEF Empty, Recorded, NoAdvert
<1> QED BY <1>1, <1>2 DEF Sound

LEMMA IdleHeaders == ASSUME NEW S PROVE HeadersOK(Idle.hdr, S) /\ Idle \notin InHand
<1>1. Idle.hdr = <<>> /\ DOMAIN <<>> = {} /\ Idle.at = NoNode
  BY DEF Idle
<1> QED BY <1>1, NodeAssumption DEF HeadersOK, InHand

LEMMA DInit == Init => DInv
<1> SUFFICES ASSUME Init PROVE DInv
  OBVIOUS
<1>1. NodesOK
  BY DEF Init, NodesOK, Faults
<1>2. TablesOK
  <2>1. tab = [n \in Node |-> Empty]
    BY DEF Init
  <2>2. Sound(Empty, Possible, {}) /\ Empty \in Tables
    BY <1>1, PossibleNumbers, SoundEmpty DEF Sound
  <2> QED BY <2>1, <2>2 DEF TablesOK
<1>3. AirOK
  BY DEF Init, AirOK
<1>4. ReadingOK
  BY IdleHeaders DEF Init, ReadingOK, Busy
<1> QED BY <1>1, <1>2, <1>3, <1>4 DEF DInv

-----------------------------------------------------------------------------
(* What an action does to the parts of the invariant *)

(* Nobody counts, nobody restarts: the possible numbers are the same.      *)
LEMMA PossibleSame ==
    ASSUME UNCHANGED own, faults'.down = faults.down
    PROVE  Possible' = Possible
BY DEF Possible, Reached

LEMMA TablesWrite ==
    ASSUME TablesOK, Possible' = Possible, NEW n \in Node, NEW t,
           Sound(t, Possible, {}), tab' = [tab EXCEPT ![n] = t]
    PROVE  TablesOK'
<1>1. t \in Tables
  BY DEF Sound
<1> QED BY <1>1 DEF TablesOK

LEMMA AirSame ==
    ASSUME AirOK, Possible' = Possible, UNCHANGED air
    PROVE  AirOK'
BY DEF AirOK, Sent, HeadersOK

LEMMA ReadingSame ==
    ASSUME ReadingOK, Possible' = Possible, UNCHANGED reading
    PROVE  ReadingOK'
BY DEF ReadingOK, HeadersOK, Busy

(* A packet with sound headers is added to the links of its sender.        *)
LEMMA AirBroadcast ==
    ASSUME AirOK, NEW n \in Node, NEW D \in SUBSET Node, NEW hdr \in [D -> Header],
           NEW gone \in SUBSET D, \A d \in Node : Possible[d] \subseteq Possible'[d],
           \A d \in D : hdr[d].seq \in Possible'[d], Broadcast(n, hdr, gone)
    PROVE  AirOK'
<1> DEFINE p == [from |-> n, hdr |-> hdr, gone |-> gone]
<1>1. /\ DOMAIN air' = Link
      /\ \A l \in Link : air'[l] = IF l[1] = n THEN Append(air[l], p) ELSE air[l]
  BY DEF Broadcast
<1>2. ASSUME NEW l \in Link
      PROVE  air[l] \in Seq(Sent(l, Possible'))
  BY SoundMore, SeqMore DEF AirOK
<1>3. ASSUME NEW l \in Link, l[1] = n
      PROVE  p \in Sent(l, Possible')
  <2>1. hdr \in UNION {[E -> Header] : E \in SUBSET Node}
    OBVIOUS
  <2>2. p \in Packet
    BY <2>1 DEF Packet
  <2>3. HeadersOK(hdr, Possible')
    BY DEF HeadersOK
  <2> QED BY <1>3, <2>2, <2>3 DEF Sent
<1> HIDE DEF p
<1>4. ASSUME NEW l \in Link
      PROVE  air'[l] \in Seq(Sent(l, Possible'))
  BY <1>1, <1>2, <1>3
<1> QED BY <1>1, <1>4 DEF AirOK, Sent, HeadersOK

(* SendTriggeredUpdate sends what it takes out of the table.               *)
LEMMA TriggeredStep ==
    ASSUME DInv, Possible' = Possible, NEW n \in Node, NEW t, Sound(t, Possible, {}),
           SendTriggered(n, t)
    PROVE  TablesOK' /\ AirOK'
<1> DEFINE D == Ready(t)
           f == [x \in D \cup {n} |-> IF x = n THEN [seq |-> own[n], hop |-> 1]
                                      ELSE [seq |-> t.adv[x].seq, hop |-> t.adv[x].hop + 1]]
<1>1. Possible \in Numbers /\ t \in Tables
  BY PossibleNumbers DEF DInv, Sound
<1>2. CASE up[n]
  <2>1. tab' = [tab EXCEPT ![n] = ForgetEvents(Flush(t), D)]
    BY <1>2 DEF SendTriggered
  <2>2. TablesOK'
    BY <1>1, <2>1, SoundFlush, TablesWrite DEF DInv
  <2>3. UNCHANGED air \/ Broadcast(n, f, {})
    BY <1>2 DEF SendTriggered
  <2>4. D \subseteq Node /\ D \cup {n} \in SUBSET Node /\ {} \in SUBSET (D \cup {n})
    BY DEF Ready
  <2>5. ASSUME NEW x \in D
        PROVE  t.adv[x].seq \in Possible[x] /\ t.adv[x].seq \in Nat /\ t.adv[x].hop \in Nat
    <3>1. t.adv[x] \in AdvEntry /\ t.adv[x].on /\ t.adv[x].seq \in Possible[x]
      BY <2>4 DEF Ready, Sound, AdvertOK
    <3> QED BY <3>1, AdvertFields
  <2>6. own[n] \in Nat /\ own[n] \in Possible[n]
    BY DEF DInv, NodesOK, Possible, Reached
  <2>7. f \in [D \cup {n} -> Header]
    BY <2>5, <2>6 DEF Header
  <2>8. \A x \in D \cup {n} : f[x].seq \in Possible'[x]
    BY <2>5, <2>6
  <2> HIDE DEF f, D
  <2>9. AirOK'
    BY <2>3, <2>4, <2>7, <2>8, AirBroadcast, AirSame DEF DInv
  <2> QED BY <2>2, <2>9
<1>3. CASE ~up[n]
  <2>1. tab' = [tab EXCEPT ![n] = t] /\ UNCHANGED air
    BY <1>3 DEF SendTriggered
  <2> QED BY <2>1, TablesWrite, AirSame DEF DInv
<1> QED BY <1>2, <1>3

LEMMA SendTriggeredStep ==
    ASSUME DInv, NEW n \in Node, SendTriggeredUpdate(n)
    PROVE  DInv'
<1>1. Possible' = Possible
  BY PossibleSame DEF SendTriggeredUpdate
<1>2. Sound(tab[n], Possible, {})
  BY DEF DInv, TablesOK
<1>3. TablesOK' /\ AirOK'
  BY <1>1, <1>2, TriggeredStep DEF SendTriggeredUpdate
<1>4. NodesOK'
  BY DEF DInv, NodesOK, SendTriggeredUpdate
<1>5. ReadingOK'
  BY <1>1, ReadingSame DEF DInv, SendTriggeredUpdate
<1> QED BY <1>3, <1>4, <1>5 DEF DInv

LEMMA SettlingStep ==
    ASSUME DInv, NEW n \in Node, NEW d \in Node, SettlingTimeEnds(n, d)
    PROVE  DInv'
<1> DEFINE t == [tab[n] EXCEPT !.event[d] = "expired"]
<1>1. Possible' = Possible
  BY PossibleSame DEF SettlingTimeEnds
<1>2. Sound(t, Possible, {})
  <2>1. tab[n] \in Tables /\ Sound(tab[n], Possible, {})
    BY DEF DInv, TablesOK
  <2>2. /\ t \in Tables /\ t.main = tab[n].main /\ t.adv = tab[n].adv
        /\ t.event = [tab[n].event EXCEPT ![d] = "expired"]
    BY <2>1 DEF Tables
  <2> HIDE DEF t
  <2>3. ASSUME NEW x \in Node PROVE Recorded(t.adv[x], t.event[x])
    BY <2>1, <2>2, TablesOf DEF Sound, Recorded
  <2> QED BY <2>1, <2>2, <2>3 DEF Sound
<1>3. TablesOK' /\ AirOK'
  BY <1>1, <1>2, TriggeredStep DEF SettlingTimeEnds
<1>4. NodesOK'
  BY DEF DInv, NodesOK, SettlingTimeEnds
<1>5. ReadingOK'
  BY <1>1, ReadingSame DEF DInv, SettlingTimeEnds
<1> QED BY <1>3, <1>4, <1>5 DEF DInv

LEMMA PeriodicDownStep ==
    ASSUME DInv, NEW n \in Node, PeriodicWhileDown(n)
    PROVE  DInv'
<1>1. Possible' = Possible
  BY PossibleSame DEF PeriodicWhileDown
<1>2. Sound(Flush(tab[n]), Possible, {})
  BY PossibleNumbers, SoundFlush DEF DInv, TablesOK
<1>3. TablesOK'
  BY <1>1, <1>2, TablesWrite DEF DInv, PeriodicWhileDown
<1>4. NodesOK'
  BY DEF DInv, NodesOK, PeriodicWhileDown
<1>5. ReadingOK' /\ AirOK'
  BY <1>1, ReadingSame, AirSame DEF DInv, PeriodicWhileDown
<1> QED BY <1>3, <1>4, <1>5 DEF DInv

(* SendPeriodicUpdate: the node's own number moves, the others stay.       *)
LEMMA PeriodicStep ==
    ASSUME DInv, NEW n \in Node, SendPeriodicUpdate(n)
    PROVE  DInv'
<1> DEFINE gone == Purged(tab[n].main)
           t == Flush(DropMain(tab[n], gone))
           D == {d \in Node : t.main[d].on}
           f == [d \in D \cup gone \cup {n} |->
                   CASE d = n      -> [seq |-> own[n] + 2, hop |-> 1]
                     [] d \in gone -> [seq |-> tab[n].main[d].seq + 1,
                                       hop |-> tab[n].main[d].hop + 1]
                     [] OTHER      -> [seq |-> t.main[d].seq, hop |-> t.main[d].hop + 1]]
<1>1. Possible \in Numbers /\ Sound(tab[n], Possible, {}) /\ own[n] \in Nat
  BY PossibleNumbers DEF DInv, TablesOK, NodesOK
<1>2. Sound(t, Possible, {})
  BY <1>1, SoundDropMain, SoundFlush
<1>3. /\ own' = [own EXCEPT ![n] = @ + 2] /\ tab' = [tab EXCEPT ![n] = t]
      /\ Broadcast(n, f, gone) /\ UNCHANGED <<up, trig, periodic, reading, faults>>
  BY DEF SendPeriodicUpdate
<1>4. NodesOK'
  BY <1>3 DEF DInv, NodesOK
<1>5. \A d \in Node : Possible[d] \subseteq Possible'[d]
  <2>1. own \in [Node -> Nat]
    BY DEF DInv, NodesOK
  <2> QED BY <1>3, <2>1 DEF Possible, Reached
<1>6. own[n] + 2 \in Possible'[n]
  <2>1. own \in [Node -> Nat] /\ own'[n] = own[n] + 2
    BY <1>3 DEF DInv, NodesOK
  <2> QED BY <2>1 DEF Possible, Reached
<1>7. gone \subseteq Node /\ \A d \in gone : tab[n].main[d].on
  BY PurgedThere
<1>8. ASSUME NEW d \in gone
      PROVE  /\ tab[n].main[d].seq + 1 \in Possible'[d] /\ tab[n].main[d].seq + 1 \in Nat
             /\ tab[n].main[d].hop \in Nat
  <2>1. RouteOK(tab[n].main[d], Possible[d]) /\ Closed(Possible[d])
    BY <1>1, <1>7 DEF Sound, Numbers
  <2>2. tab[n].main[d].seq + 1 \in Possible[d]
    BY <2>1 DEF RouteOK, Closed
  <2> QED BY <1>5, <1>7, <2>1, <2>2, RouteFields DEF RouteOK
<1>9. ASSUME NEW d \in D
      PROVE  t.main[d].seq \in Possible'[d] /\ t.main[d].seq \in Nat /\ t.main[d].hop \in Nat
  BY <1>2, <1>5, RouteFields DEF Sound, RouteOK
<1> HIDE DEF gone, t
<1>10. f \in [D \cup gone \cup {n} -> Header] /\ D \cup gone \cup {n} \in SUBSET Node
  BY <1>1, <1>7, <1>8, <1>9 DEF Header
<1>11. \A d \in D \cup gone \cup {n} : f[d].seq \in Possible'[d]
  BY <1>6, <1>8, <1>9
<1> HIDE DEF D, f
<1>12. AirOK'
  BY <1>3, <1>5, <1>10, <1>11, AirBroadcast DEF DInv
<1>13. TablesOK'
  <2>1. \A m \in Node : Sound(tab[m], Possible', {})
    BY <1>5, SoundMore DEF DInv, TablesOK
  <2>2. Sound(t, Possible', {}) /\ t \in Tables
    BY <1>2, <1>5, SoundMore DEF Sound
  <2> QED BY <1>3, <2>1, <2>2 DEF DInv, TablesOK, Sound
<1>14. ReadingOK'
  <2>1. HeadersOK(reading.hdr, Possible')
    BY <1>5, SoundMore DEF DInv, ReadingOK
  <2> QED BY <1>3, <2>1 DEF DInv, ReadingOK, Busy, HeadersOK
<1> QED BY <1>4, <1>12, <1>13, <1>14 DEF DInv

(* The first packet of a link, and the rest.                               *)
LEMMA AirDeliver ==
    ASSUME AirOK, Possible' = Possible, NEW l \in Link, air[l] # <<>>, Deliver(l)
    PROVE  AirOK' /\ Head(air[l]) \in Sent(l, Possible)
<1>1. air[l] \in Seq(Sent(l, Possible))
  BY DEF AirOK
<1>2. Head(air[l]) \in Sent(l, Possible) /\ Tail(air[l]) \in Seq(Sent(l, Possible))
  BY <1>1
<1>3. /\ DOMAIN air' = Link
      /\ \A k \in Link : air'[k] = IF k = l THEN Tail(air[l]) ELSE air[k]
  BY DEF Deliver, AirOK
<1>4. \A k \in Link : air'[k] \in Seq(Sent(k, Possible))
  BY <1>2, <1>3 DEF AirOK
<1> QED BY <1>2, <1>3, <1>4 DEF AirOK, Sent, HeadersOK

LEMMA ReceiveStep ==
    ASSUME DInv, NEW l \in Link, Receive(l)
    PROVE  DInv'
<1> DEFINE p == Head(air[l])
<1>1. Possible' = Possible
  BY PossibleSame DEF Receive
<1>2. AirOK' /\ p \in Sent(l, Possible)
  BY <1>1, AirDeliver DEF DInv, Receive
<1>3. reading' = [at |-> l[2], from |-> p.from, hdr |-> p.hdr, gone |-> p.gone,
                  rest |-> DOMAIN p.hdr]
  BY DEF Receive
<1>4. p \in Packet /\ p.from = l[1] /\ HeadersOK(p.hdr, Possible)
  BY <1>2 DEF Sent
<1>5. l[1] \in Node /\ l[2] \in Node /\ l = <<l[1], l[2]>>
  BY LinkAssumption
<1>6. DOMAIN p.hdr \subseteq Node
  BY <1>4 DEF HeadersOK
<1> HIDE DEF p
<1>7. reading' \in InHand
  BY <1>3, <1>4, <1>5, <1>6 DEF InHand, Packet
<1>8. ReadingOK'
  BY <1>1, <1>3, <1>4, <1>5, <1>7 DEF ReadingOK, HeadersOK
<1>9. NodesOK' /\ TablesOK'
  BY <1>1 DEF DInv, NodesOK, TablesOK, Receive
<1> QED BY <1>2, <1>8, <1>9 DEF DInv

(* Reading a header: sound tables, and the rest of the packet.             *)
LEMMA ReadStep ==
    ASSUME DInv, Busy, NEW d, IsNext(d), NEW t, Sound(t, Possible, {}), Read(d, t)
    PROVE  DInv'
<1>1. Possible' = Possible
  BY PossibleSame DEF Read
<1>2. reading.at \in Node /\ reading \in InHand
  BY DEF DInv, ReadingOK, InHand
<1>3. TablesOK'
  BY <1>1, <1>2, TablesWrite DEF DInv, Read
<1>4. AirOK'
  BY <1>1, AirSame DEF DInv, Read
<1>5. NodesOK'
  BY <1>2 DEF DInv, NodesOK, Read
<1>6. ReadingOK'
  <2>1. CASE reading' = Idle
    BY <1>1, <2>1, IdleHeaders DEF ReadingOK, Busy, Idle
  <2>2. CASE reading' = [reading EXCEPT !.rest = @ \ {d}]
    BY <1>1, <1>2, <2>2 DEF DInv, ReadingOK, InHand, HeadersOK
  <2> QED BY <2>1, <2>2 DEF Read
<1> QED BY <1>3, <1>4, <1>5, <1>6 DEF DInv

(* What the branches of RecvDsdv find.                                     *)
LEMMA ReadsFacts ==
    ASSUME DInv, Busy, NEW d, IsNext(d)
    PROVE  /\ d \in Node /\ reading.at \in Node /\ reading.from \in Node
           /\ SeqNo(d) \in Possible[d] /\ HopCount(d) \in Nat
           /\ Sound(Here, Possible, {})
           /\ Here.main[d].on => Sound(Both(d), Possible, {d}) /\ Adv(d).on
                                 /\ Both(d).main[d].on
<1>1. d \in DOMAIN reading.hdr /\ reading \in InHand
  BY DEF DInv, ReadingOK, IsNext
<1>2. d \in Node /\ reading.hdr[d] \in Header /\ SeqNo(d) \in Possible[d]
  BY <1>1 DEF DInv, ReadingOK, HeadersOK, SeqNo
<1>3. Sound(Here, Possible, {})
  BY <1>1 DEF InHand, Here, DInv, TablesOK
<1>4. Here.main[d].on => /\ Sound(Both(d), Possible, {d}) /\ Adv(d).on
                         /\ Both(d).main = Here.main
  BY <1>2, <1>3, PossibleNumbers, SoundWithAdvert DEF Both, Adv, DInv
<1> QED BY <1>1, <1>2, <1>3, <1>4 DEF InHand, HopCount, Header

LEMMA ReadHeaderStep ==
    ASSUME DInv, NEW d \in Node, ReadHeader(d)
    PROVE  DInv'
<1> USE DEF Route, Broke, Known, Reads
<1>0. Possible \in Numbers
  BY PossibleNumbers DEF DInv
<1>1. CASE ReadOwn(d)
  BY <1>1, ReadsFacts, ReadStep DEF ReadOwn
<1>2. CASE ReadNew(d)
  BY <1>0, <1>2, ReadsFacts, SoundNewRoute, ReadStep DEF ReadNew
<1>3. CASE ReadUnknownBroken(d)
  BY <1>3, ReadsFacts, ReadStep DEF ReadUnknownBroken
<1>4. CASE ReadSettle(d)
  BY <1>0, <1>4, ReadsFacts, SoundSettle, ReadStep DEF ReadSettle
<1>5. CASE ReadSameMetric(d)
  BY <1>0, <1>5, ReadsFacts, SoundSameMetric, ReadStep DEF ReadSameMetric, Adv
<1>6. CASE ReadDuplicate(d)
  <2>1. Even(Both(d).adv[d].seq)
    BY <1>6 DEF ReadDuplicate, Adv, Even
  <2> QED BY <1>0, <1>6, <2>1, ReadsFacts, SoundDuplicate, ReadStep DEF ReadDuplicate, Adv
<1>7. CASE ReadOld(d)
  BY <1>0, <1>7, ReadsFacts, SoundDiscard, ReadStep DEF ReadOld
<1>8. CASE ReadBroken(d)
  BY <1>0, <1>8, ReadsFacts, SoundBreak, ReadStep DEF ReadBroken, Adv
<1>9. CASE ReadOtherBroken(d)
  BY <1>0, <1>9, ReadsFacts, SoundDiscard, ReadStep DEF ReadOtherBroken
<1> QED BY <1>1, <1>2, <1>3, <1>4, <1>5, <1>6, <1>7, <1>8, <1>9 DEF ReadHeader

LEMMA RouteOutputStep ==
    ASSUME DInv, NEW n \in Node, RouteOutput(n)
    PROVE  DInv'
<1> DEFINE gone == Purged(tab[n].main)
           t == Announce(DropMain(tab[n], gone), gone, Broken(tab[n], gone))
<1>1. Possible' = Possible
  BY PossibleSame DEF RouteOutput
<1>2. Possible \in Numbers /\ Sound(tab[n], Possible, {})
  BY PossibleNumbers DEF DInv, TablesOK
<1>3. \A x \in gone : x \in Node /\ tab[n].main[x].on
  BY PurgedThere
<1>4. Sound(t, Possible, {})
  <2> HIDE DEF gone
  <2> QED BY <1>2, <1>3, SoundDropMain, SoundBroken
<1>5. tab' = [tab EXCEPT ![n] = t]
  BY DEF RouteOutput
<1> HIDE DEF t
<1>6. TablesOK'
  BY <1>1, <1>4, <1>5, TablesWrite DEF DInv
<1>7. NodesOK'
  BY DEF DInv, NodesOK, RouteOutput
<1>8. AirOK' /\ ReadingOK'
  BY <1>1, AirSame, ReadingSame DEF DInv, RouteOutput
<1> QED BY <1>6, <1>7, <1>8 DEF DInv

(* Faults are counted.                                                     *)
LEMMA FaultCounts ==
    ASSUME NodesOK, NEW k \in {"lost", "aged", "down"}, Fault(k)
    PROVE  /\ faults' \in Faults
           /\ k # "down" => faults'.down = faults.down
           /\ k = "down" => faults'.down # 0
<1>1. faults \in Faults /\ faults' = [faults EXCEPT ![k] = @ + 1]
  BY DEF NodesOK, Fault
<1> QED BY <1>1 DEF Faults

LEMMA AgeStep ==
    ASSUME DInv, NEW n \in Node, NEW d \in Node, Age(n, d)
    PROVE  DInv'
<1> DEFINE m == [tab[n].main[d] EXCEPT !.old = TRUE]
           t == [tab[n] EXCEPT !.main[d].old = TRUE]
<1>1. faults' \in Faults /\ faults'.down = faults.down
  BY FaultCounts DEF DInv, Age
<1>2. Possible' = Possible
  BY <1>1, PossibleSame DEF Age
<1>3. tab[n] \in Tables /\ Sound(tab[n], Possible, {}) /\ tab[n].main[d].on
  BY DEF DInv, TablesOK, Age
<1>4. RouteOK(m, Possible[d])
  <2>1. RouteOK(tab[n].main[d], Possible[d]) /\ tab[n].main[d] # NoRoute
    BY <1>3 DEF Sound, NoRoute
  <2> QED BY <2>1 DEF RouteOK, MainEntry
<1>5. /\ t \in Tables /\ t.main = [tab[n].main EXCEPT ![d] = m]
      /\ t.adv = tab[n].adv /\ t.event = tab[n].event
  BY <1>3, <1>4 DEF Tables, RouteOK
<1> HIDE DEF m
<1>6. tab' = [tab EXCEPT ![n] = t]
  BY DEF Age
<1> HIDE DEF t
<1>7. Sound(t, Possible, {})
  BY <1>3, <1>4, <1>5, TablesOf DEF Sound
<1>8. TablesOK'
  BY <1>2, <1>6, <1>7, TablesWrite DEF DInv
<1>9. NodesOK'
  BY <1>1 DEF DInv, NodesOK, Age
<1>10. AirOK' /\ ReadingOK'
  BY <1>2, AirSame, ReadingSame DEF DInv, Age
<1> QED BY <1>8, <1>9, <1>10 DEF DInv

LEMMA LoseStep ==
    ASSUME DInv, NEW l \in Link, Lose(l)
    PROVE  DInv'
<1>1. faults' \in Faults /\ faults'.down = faults.down
  BY FaultCounts DEF DInv, NodesOK, Lose
<1>2. Possible' = Possible
  BY <1>1, PossibleSame DEF Lose
<1>3. AirOK'
  BY <1>2, AirDeliver DEF DInv, Lose
<1>4. NodesOK' /\ TablesOK'
  BY <1>1, <1>2 DEF DInv, NodesOK, TablesOK, Lose
<1>5. ReadingOK'
  BY <1>2, ReadingSame DEF DInv, Lose
<1> QED BY <1>3, <1>4, <1>5 DEF DInv

(* When a node starts again, any number may come to be one that it has not *)
(* reached.                                                                *)
LEMMA MorePossible ==
    ASSUME DInv, \A d \in Node : Possible[d] \subseteq Possible'[d],
           UNCHANGED <<air, reading>>
    PROVE  /\ AirOK' /\ ReadingOK'
           /\ UNCHANGED tab => TablesOK'
           /\ \A t : Sound(t, Possible, {}) => Sound(t, Possible', {})
<1>1. ASSUME NEW l \in Link PROVE air[l] \in Seq(Sent(l, Possible'))
  BY SoundMore, SeqMore DEF DInv, AirOK
<1>2. AirOK'
  BY <1>1 DEF DInv, AirOK, Sent, HeadersOK
<1>3. HeadersOK(reading.hdr, Possible')
  BY SoundMore DEF DInv, ReadingOK
<1>4. ReadingOK'
  BY <1>3 DEF DInv, ReadingOK, Busy, HeadersOK
<1>5. \A t : Sound(t, Possible, {}) => Sound(t, Possible', {})
  BY SoundMore
<1>6. UNCHANGED tab => TablesOK'
  BY <1>5 DEF DInv, TablesOK, Sound
<1> QED BY <1>2, <1>4, <1>5, <1>6

LEMMA InterfaceDownStep ==
    ASSUME DInv, NEW n \in Node, InterfaceDown(n)
    PROVE  DInv'
<1> DEFINE t == DropMain(tab[n], Node)
<1>1. faults' \in Faults /\ faults'.down # 0
  BY FaultCounts DEF DInv, InterfaceDown
<1>2. \A d \in Node : Possible[d] \subseteq Possible'[d] /\ Possible'[d] = Nat
  BY <1>1 DEF Possible
<1>3. Sound(t, Possible, {})
  BY PossibleNumbers, SoundDropMain DEF DInv, TablesOK
<1>4. tab' = [tab EXCEPT ![n] = t] /\ UNCHANGED <<air, reading>>
  BY DEF InterfaceDown
<1> HIDE DEF t
<1>5. AirOK' /\ ReadingOK'
  BY <1>2, <1>4, MorePossible
<1>6. /\ Sound(t, Possible', {}) /\ t \in Tables
      /\ \A m \in Node : Sound(tab[m], Possible', {})
  BY <1>2, <1>3, <1>4, MorePossible DEF DInv, TablesOK, Sound
<1>7. TablesOK'
  BY <1>4, <1>6 DEF DInv, TablesOK, Sound
<1>8. NodesOK'
  BY <1>1 DEF DInv, NodesOK, InterfaceDown
<1> QED BY <1>5, <1>7, <1>8 DEF DInv

LEMMA InterfaceUpStep ==
    ASSUME DInv, NEW n \in Node, InterfaceUp(n)
    PROVE  DInv'
<1>1. faults.down # 0 /\ faults' = faults
  BY DEF DInv, NodesOK, InterfaceUp
<1>2. \A d \in Node : Possible[d] \subseteq Possible'[d]
  BY <1>1 DEF Possible
<1>3. AirOK' /\ ReadingOK' /\ TablesOK'
  BY <1>2, MorePossible DEF InterfaceUp
<1>4. NodesOK'
  BY <1>1 DEF DInv, NodesOK, InterfaceUp
<1> QED BY <1>3, <1>4 DEF DInv

LEMMA DStep == DInv /\ [Next]_vars => DInv'
<1> SUFFICES ASSUME DInv, [Next]_vars PROVE DInv'
  OBVIOUS
<1>1. CASE UNCHANGED vars
  <2>1. Possible' = Possible
    BY <1>1, PossibleSame DEF vars
  <2>2. NodesOK' /\ TablesOK'
    BY <1>1, <2>1 DEF vars, DInv, NodesOK, TablesOK
  <2> QED BY <1>1, <2>1, <2>2, AirSame, ReadingSame DEF vars, DInv
<1>2. ASSUME NEW n \in Node, \/ SendTriggeredUpdate(n) \/ SendPeriodicUpdate(n)
                             \/ PeriodicWhileDown(n) \/ RouteOutput(n)
                             \/ InterfaceDown(n) \/ InterfaceUp(n)
      PROVE  DInv'
  BY <1>2, SendTriggeredStep, PeriodicStep, PeriodicDownStep, RouteOutputStep,
     InterfaceDownStep, InterfaceUpStep
<1>3. ASSUME NEW n \in Node, NEW d \in Node, SettlingTimeEnds(n, d) \/ Age(n, d)
      PROVE  DInv'
  BY <1>3, SettlingStep, AgeStep
<1>4. ASSUME NEW l \in Link, Receive(l) \/ Lose(l)
      PROVE  DInv'
  BY <1>4, ReceiveStep, LoseStep
<1>5. ASSUME NEW d \in Node, ReadHeader(d)
      PROVE  DInv'
  BY <1>5, ReadHeaderStep
<1> QED BY <1>1, <1>2, <1>3, <1>4, <1>5 DEF Next

-----------------------------------------------------------------------------
(* Theorems *)

THEOREM Invariance == Spec => []DInv
BY DInit, DStep, PTL DEF Spec

(* Tables, packets and the handler keep their types.                       *)
THEOREM TypeCorrect == Spec => []TypeOK
<1>1. DInv => TypeOK
  <2> SUFFICES ASSUME DInv PROVE TypeOK
    OBVIOUS
  <2>1. ASSUME NEW l \in Link, NEW i \in DOMAIN air[l]
        PROVE  LET p == air[l][i]
               IN  /\ p.from = l[1] /\ DOMAIN p.hdr \subseteq Node /\ p.gone \subseteq DOMAIN p.hdr
                   /\ \A d \in DOMAIN p.hdr : p.hdr[d] \in Header
    <3>1. air[l] \in Seq(Sent(l, Possible))
      BY DEF DInv, AirOK
    <3>2. air[l][i] \in Sent(l, Possible)
      BY <3>1
    <3> QED BY <3>2 DEF Sent, HeadersOK
  <2>2. /\ \A d \in DOMAIN reading.hdr : reading.hdr[d] \in Header
        /\ DOMAIN reading.hdr \subseteq Node
    BY DEF DInv, ReadingOK, HeadersOK
  <2> QED BY <2>1, <2>2 DEF DInv, NodesOK, TablesOK, AirOK, ReadingOK, TypeOK
<1> QED BY <1>1, Invariance, PTL

(* An advertised entry that cannot be sent has an event: the assertion in  *)
(* SendTriggeredUpdate holds.                                              *)
THEOREM EventsRecorded == Spec => []UnsentHasEvent
<1>1. DInv => UnsentHasEvent
  BY DEF DInv, TablesOK, Sound, Recorded, UnsentHasEvent, Settling
<1> QED BY <1>1, Invariance, PTL

(* Only the owner of a number moves it on.                                 *)
THEOREM NumbersReached == Spec => []NoFutureNumber
<1>1. DInv => NoFutureNumber
  <2> SUFFICES ASSUME DInv, faults.down = 0
               PROVE  /\ \A n, d \in Node : /\ Reached(d, tab[n].main[d].seq)
                                            /\ Reached(d, tab[n].adv[d].seq)
                      /\ \A l \in Link : \A i \in DOMAIN air[l] :
                           \A d \in DOMAIN air[l][i].hdr : Reached(d, air[l][i].hdr[d].seq)
                      /\ \A d \in DOMAIN reading.hdr : Reached(d, reading.hdr[d].seq)
    BY DEF NoFutureNumber
  <2>1. \A d \in Node : Possible[d] = {s \in Nat : Reached(d, s)}
    BY DEF Possible
  <2>2. ASSUME NEW n \in Node, NEW d \in Node
        PROVE  Reached(d, tab[n].main[d].seq) /\ Reached(d, tab[n].adv[d].seq)
    BY <2>1 DEF DInv, TablesOK, Sound, RouteOK, AdvertOK
  <2>3. ASSUME NEW hdr, HeadersOK(hdr, Possible), NEW d \in DOMAIN hdr
        PROVE  Reached(d, hdr[d].seq)
    BY <2>1, <2>3 DEF HeadersOK
  <2>4. ASSUME NEW l \in Link, NEW i \in DOMAIN air[l]
        PROVE  HeadersOK(air[l][i].hdr, Possible)
    <3>1. air[l] \in Seq(Sent(l, Possible))
      BY DEF DInv, AirOK
    <3>2. air[l][i] \in Sent(l, Possible)
      BY <3>1
    <3> QED BY <3>2 DEF Sent
  <2> QED BY <2>2, <2>3, <2>4 DEF DInv, ReadingOK
<1> QED BY <1>1, Invariance, PTL

-----------------------------------------------------------------------------
(* While no route is forgotten, next hops form no cycle and every next hop *)
(* has an entry of its own, in every network running DsdvRouting.          *)
(*                                                                         *)
(* The invariant: the next hop of an entry, if it is not the destination   *)
(* itself, has a better entry, that is, a greater number or the same       *)
(* number and a smaller metric.  This holds of the advertised entry, which *)
(* will become the main entry, as well; entries only get better; and what  *)
(* a packet says is not as good as what its sender has.                    *)

Better(x, s, h)  == x.on /\ (x.seq > s \/ (x.seq = s /\ x.hop < h))
AtLeast(s, h, e) == s > e.seq \/ (s = e.seq /\ h <= e.hop)

(* An entry for d with next hop nh, number s and metric h, in table t of a *)
(* network with tables T.                                                  *)
Follows(nh, s, h, d, t, T) ==
    nh \in Node /\ t.main[nh].on /\ (nh # d => Better(T[nh].main[d], s, h))

Leads(e, d, t, T) == Follows(e.nh, e.seq, e.hop, d, t, T)

GoodAdvert(a, d, t, T) ==
    /\ t.main[d].on /\ Even(a.seq) /\ AtLeast(a.seq, a.hop, t.main[d])
    /\ Leads(a, d, t, T)

Good(t, T) ==
    \A d \in Node : /\ ~t.main[d].old
                    /\ t.main[d].on => Leads(t.main[d], d, t, T)
                    /\ t.adv[d].on => GoodAdvert(t.adv[d], d, t, T)

(* The entries of u are at least as good as those of t.                    *)
Improves(t, u) ==
    \A d \in Node : t.main[d].on =>
       u.main[d].on /\ AtLeast(u.main[d].seq, u.main[d].hop, t.main[d])

(* What the header of node m says about d.                                 *)
TrueHeader(m, d, hd, T) ==
    Even(hd.seq) /\ (d # m => Better(T[m].main[d], hd.seq, hd.hop))

-----------------------------------------------------------------------------
(* Entries *)

LEMMA EntryNumbers ==
    ASSUME NEW t \in Tables, NEW d \in Node
    PROVE  /\ t.main[d] \in MainEntry /\ t.main[d].seq \in Nat /\ t.main[d].hop \in Nat
           /\ t.adv[d] \in AdvEntry /\ t.adv[d].seq \in Nat /\ t.adv[d].hop \in Nat
<1>1. t.main[d] \in MainEntry /\ t.adv[d] \in AdvEntry
  BY DEF Tables
<1>2. ASSUME NEW e \in MainEntry PROVE e.seq \in Nat /\ e.hop \in Nat
  <2>1. CASE e = NoRoute
    BY <2>1 DEF NoRoute
  <2>2. CASE e # NoRoute
    BY <2>2 DEF MainEntry
  <2> QED BY <2>1, <2>2
<1>3. ASSUME NEW a \in AdvEntry PROVE a.seq \in Nat /\ a.hop \in Nat
  <2>1. CASE a = NoAdvert
    BY <2>1 DEF NoAdvert
  <2>2. CASE a # NoAdvert
    BY <2>2 DEF AdvEntry
  <2> QED BY <2>1, <2>2
<1> QED BY <1>1, <1>2, <1>3

LEMMA BetterStill ==
    ASSUME NEW t \in Tables, NEW u \in Tables, Improves(t, u), NEW d \in Node,
           NEW s \in Nat, NEW h \in Nat, Better(t.main[d], s, h)
    PROVE  Better(u.main[d], s, h)
BY EntryNumbers DEF Improves, Better, AtLeast

LEMMA ImprovesSelf == ASSUME NEW t \in Tables PROVE Improves(t, t)
BY EntryNumbers DEF Improves, AtLeast

(* When the tables of the network improve, good tables stay good.          *)
LEMMA GoodStill ==
    ASSUME NEW T \in [Node -> Tables], NEW U \in [Node -> Tables],
           \A m \in Node : Improves(T[m], U[m])
    PROVE  /\ \A t \in Tables : Good(t, T) => Good(t, U)
           /\ \A m, d \in Node : \A hd \in Header : TrueHeader(m, d, hd, T) => TrueHeader(m, d, hd, U)
<1>1. ASSUME NEW m \in Node, NEW d \in Node, NEW s \in Nat, NEW h \in Nat,
             Better(T[m].main[d], s, h)
      PROVE  Better(U[m].main[d], s, h)
  BY <1>1, BetterStill
<1>2. ASSUME NEW t \in Tables, Good(t, T)
      PROVE  Good(t, U)
  <2>1. ASSUME NEW d \in Node, NEW nh, NEW s \in Nat, NEW h \in Nat, Follows(nh, s, h, d, t, T)
        PROVE  Follows(nh, s, h, d, t, U)
    BY <1>1, <2>1 DEF Follows
  <2> QED BY <1>2, <2>1, EntryNumbers DEF Good, GoodAdvert, Leads
<1>3. ASSUME NEW m \in Node, NEW d \in Node, NEW hd \in Header, TrueHeader(m, d, hd, T)
      PROVE  TrueHeader(m, d, hd, U)
  BY <1>1, <1>3 DEF TrueHeader, Header
<1> QED BY <1>2, <1>3

(* Tables with the same main entries and fewer adverts.                    *)
LEMMA GoodFewer ==
    ASSUME NEW t \in Tables, NEW T, NEW u \in Tables, Good(t, T), u.main = t.main,
           \A d \in Node : u.adv[d].on => u.adv[d] = t.adv[d]
    PROVE  Good(u, T) /\ Improves(t, u)
BY EntryNumbers DEF Good, GoodAdvert, Leads, Follows, Improves, AtLeast

(* One destination at a time: an entry gets better, its advert follows.    *)
LEMMA GoodAt ==
    ASSUME NEW t \in Tables, NEW T, NEW u \in Tables, Good(t, T), NEW d \in Node,
           NEW m, NEW a,
           u.main = [t.main EXCEPT ![d] = m], u.adv = [t.adv EXCEPT ![d] = a],
           m.on, ~m.old, t.main[d].on => AtLeast(m.seq, m.hop, t.main[d]),
           Leads(m, d, u, T), a.on => GoodAdvert(a, d, u, T)
    PROVE  Good(u, T) /\ Improves(t, u)
<1>1. Improves(t, u)
  BY EntryNumbers, TablesOf DEF Improves, AtLeast
<1>2. ASSUME NEW x \in Node, x # d
      PROVE  /\ ~u.main[x].old
             /\ u.main[x].on => Leads(u.main[x], x, u, T)
             /\ u.adv[x].on => GoodAdvert(u.adv[x], x, u, T)
  <2>1. u.main[x] = t.main[x] /\ u.adv[x] = t.adv[x]
    BY <1>2, TablesOf
  <2>2. \A y \in Node : t.main[y].on => u.main[y].on
    BY <1>1 DEF Improves
  <2> QED BY <2>1, <2>2 DEF Good, GoodAdvert, Leads, Follows
<1>3. u.main[d] = m /\ u.adv[d] = a
  BY TablesOf
<1> QED BY <1>1, <1>2, <1>3 DEF Good

-----------------------------------------------------------------------------
(* Operators on tables *)

LEMMA GoodDiscard ==
    ASSUME NEW t \in Tables, NEW T, NEW d \in Node, Good(t, T)
    PROVE  Discard(t, d) \in Tables => Good(Discard(t, d), T) /\ Improves(t, Discard(t, d))
<1>1. CASE Settling(t, d)
  BY <1>1, ImprovesSelf DEF Discard
<1>2. CASE ~Settling(t, d)
  <2>1. /\ Discard(t, d).main = t.main
        /\ Discard(t, d).adv = [t.adv EXCEPT ![d] = NoAdvert]
    BY <1>2 DEF Discard, Tables
  <2>2. \A x \in Node : Discard(t, d).adv[x].on => Discard(t, d).adv[x] = t.adv[x]
    BY <2>1, TablesOf DEF NoAdvert
  <2> QED BY <2>1, <2>2, GoodFewer
<1> QED BY <1>1, <1>2

(* The copy of a main entry is as good as the entry.                       *)
LEMMA GoodWithAdvert ==
    ASSUME NEW S \in Numbers, NEW t, NEW T, NEW d \in Node, Sound(t, S, {}),
           Good(t, T), t.main[d].on
    PROVE  /\ WithAdvert(t, d) \in Tables
           /\ Good(WithAdvert(t, d), T) /\ Improves(t, WithAdvert(t, d))
<1> DEFINE u == WithAdvert(t, d)
<1>1. /\ t \in Tables /\ u \in Tables /\ u.main = t.main
      /\ Even(t.main[d].seq)
  BY SoundWithAdvert DEF Sound, RouteOK
<1>2. u.adv = [x \in Node |-> IF x \in {d} /\ ~t.adv[x].on
                              THEN AsAdvert(t.main[x], TRUE) ELSE t.adv[x]]
  BY <1>1 DEF WithAdvert, Announce, Tables
<1> HIDE DEF u
<1>3. ASSUME NEW x \in Node, u.adv[x].on
      PROVE  GoodAdvert(u.adv[x], x, u, T)
  <2>1. CASE x = d /\ ~t.adv[x].on
    <3>1. u.adv[x] = AsAdvert(t.main[d], TRUE)
      BY <1>2, <2>1
    <3>2. /\ u.adv[x].seq = t.main[d].seq /\ u.adv[x].hop = t.main[d].hop
          /\ u.adv[x].nh = t.main[d].nh
      BY <3>1 DEF AsAdvert
    <3> QED BY <1>1, <2>1, <3>2, EntryNumbers DEF Good, GoodAdvert, Leads, Follows, AtLeast
  <2>2. CASE ~(x = d /\ ~t.adv[x].on)
    <3>1. u.adv[x] = t.adv[x]
      BY <1>2, <2>2
    <3> QED BY <1>1, <1>3, <3>1 DEF Good, GoodAdvert, Leads, Follows
  <2> QED BY <2>1, <2>2
<1>4. Good(u, T)
  BY <1>1, <1>3 DEF Good, Leads, Follows
<1>5. Improves(t, u)
  BY <1>1, ImprovesSelf DEF Improves
<1> QED BY <1>1, <1>4, <1>5 DEF u

(* What RecvDsdv knows of a header about d from a neighbour whose own      *)
(* header has been read.                                                   *)
Told(t, d, seq, hop, from, T) ==
    /\ seq \in Nat /\ hop \in Nat /\ from \in Node /\ Even(seq)
    /\ from # d => t.main[from].on /\ Better(T[from].main[d], seq, hop)

LEMMA HeardFields ==
    ASSUME NEW seq, NEW hop, NEW from, NEW shared
    PROVE  LET a == Heard(seq, hop, from, shared)
           IN  /\ a.on /\ a.seq = seq /\ a.hop = hop /\ a.nh = from
               /\ AsRoute(a).on /\ ~AsRoute(a).old /\ AsRoute(a).seq = seq
               /\ AsRoute(a).hop = hop /\ AsRoute(a).nh = from
BY DEF Heard, AsRoute

LEMMA GoodSettle ==
    ASSUME NEW t \in Tables, NEW T, NEW d \in Node, Good(t, T), t.main[d].on,
           NEW seq, NEW hop, NEW from, Told(t, d, seq, hop, from, T),
           Settle(t, d, seq, hop, from) \in Tables, t.adv[d].on,
           seq > t.adv[d].seq \/ (seq = t.adv[d].seq /\ hop < t.adv[d].hop)
    PROVE  /\ Good(Settle(t, d, seq, hop, from), T)
           /\ Improves(t, Settle(t, d, seq, hop, from))
<1> DEFINE a == Heard(seq, hop, from, TRUE)
           m == AsRoute(a)
           u == Settle(t, d, seq, hop, from)
<1>1. u.main = [t.main EXCEPT ![d] = m] /\ u.adv = [t.adv EXCEPT ![d] = a]
  BY DEF Settle, Tables
<1>2. /\ a.on /\ a.seq = seq /\ a.hop = hop /\ a.nh = from
      /\ m.on /\ ~m.old /\ m.seq = seq /\ m.hop = hop /\ m.nh = from
  BY DEF Heard, AsRoute
<1> HIDE DEF a, m, u
<1>3. u.main[d] = m
  BY <1>1, TablesOf
<1>4. u.main[from].on
  BY <1>1, <1>2, <1>3, TablesOf DEF Told
<1>5. Follows(from, seq, hop, d, u, T)
  BY <1>4 DEF Told, Follows
<1>6. AtLeast(seq, hop, t.main[d])
  BY EntryNumbers DEF Good, GoodAdvert, AtLeast, Told
<1>7. GoodAdvert(a, d, u, T)
  BY <1>2, <1>3, <1>5 DEF GoodAdvert, Leads, AtLeast, Told
<1>8. Leads(m, d, u, T)
  BY <1>2, <1>5 DEF Leads
<1>9. Good(u, T) /\ Improves(t, u)
  BY <1>1, <1>2, <1>6, <1>7, <1>8, GoodAt DEF u
<1> QED BY <1>9 DEF u

(* Only the next hop of the main entry changes; its number is older than   *)
(* that of its new next hop.                                               *)
LEMMA GoodSameMetric ==
    ASSUME NEW t \in Tables, NEW T \in [Node -> Tables], NEW d \in Node, Good(t, T),
           t.main[d].on, NEW seq, NEW hop, NEW from, Told(t, d, seq, hop, from, T),
           SameMetric(t, d, seq, hop, from) \in Tables, t.adv[d].on, seq > t.adv[d].seq
    PROVE  /\ Good(SameMetric(t, d, seq, hop, from), T)
           /\ Improves(t, SameMetric(t, d, seq, hop, from))
<1> DEFINE a == Heard(seq, hop, from, t.adv[d].shared)
           m == [t.main[d] EXCEPT !.nh = IF t.adv[d].shared THEN from ELSE @]
           u == SameMetric(t, d, seq, hop, from)
<1>1. u.main = [t.main EXCEPT ![d] = m] /\ u.adv = [t.adv EXCEPT ![d] = a]
  BY DEF SameMetric, Tables
<1>2. a.on /\ a.seq = seq /\ a.hop = hop /\ a.nh = from
  BY HeardFields
<1>3. t.main[d] \in MainEntry /\ t.main[d] # NoRoute
  BY EntryNumbers DEF NoRoute
<1>4. /\ m.on /\ ~m.old /\ m.seq = t.main[d].seq /\ m.hop = t.main[d].hop
      /\ m.nh = IF t.adv[d].shared THEN from ELSE t.main[d].nh
  BY <1>3 DEF MainEntry, Good
<1> HIDE DEF a, m, u
<1>5. u.main[d] = m
  BY <1>1, TablesOf
<1>6. u.main[from].on
  BY <1>1, <1>4, <1>5, TablesOf DEF Told
<1>7. Follows(from, seq, hop, d, u, T)
  BY <1>6 DEF Told, Follows
<1>8. AtLeast(t.adv[d].seq, t.adv[d].hop, t.main[d])
  BY DEF Good, GoodAdvert
<1>9. seq > t.main[d].seq /\ seq \in Nat
  BY <1>8, EntryNumbers DEF AtLeast, Told
<1>10. Follows(from, t.main[d].seq, t.main[d].hop, d, u, T)
  <2>1. from # d => T[from].main[d].seq \in Nat /\ Better(T[from].main[d], seq, hop)
    BY EntryNumbers DEF Told
  <2> QED BY <1>6, <1>9, <2>1, EntryNumbers DEF Told, Follows, Better
<1>11. Leads(t.main[d], d, u, T)
  <2>1. Leads(t.main[d], d, t, T)
    BY DEF Good
  <2>2. \A x \in Node : t.main[x].on => u.main[x].on
    BY <1>1, <1>4, TablesOf
  <2> QED BY <2>1, <2>2 DEF Leads, Follows
<1>12. Leads(m, d, u, T)
  BY <1>4, <1>10, <1>11 DEF Leads
<1>13. GoodAdvert(a, d, u, T)
  BY <1>2, <1>4, <1>5, <1>7, <1>9 DEF GoodAdvert, Leads, AtLeast, Told
<1>14. AtLeast(m.seq, m.hop, t.main[d])
  BY <1>4, EntryNumbers DEF AtLeast
<1>15. Good(u, T) /\ Improves(t, u)
  BY <1>1, <1>4, <1>12, <1>13, <1>14, GoodAt DEF u
<1> QED BY <1>15 DEF u

(* The advertised entry replaces the main entry.                           *)
LEMMA GoodCopy ==
    ASSUME NEW t \in Tables, NEW T, NEW d \in Node, Good(t, T), t.adv[d].on,
           NEW u \in Tables, u.main = [t.main EXCEPT ![d] = AsRoute(t.adv[d])],
           u.adv = t.adv
    PROVE  Good(u, T) /\ Improves(t, u)
<1> DEFINE a == t.adv[d]
           m == AsRoute(t.adv[d])
<1>1. /\ m.on /\ ~m.old /\ m.seq = a.seq /\ m.hop = a.hop /\ m.nh = a.nh
      /\ a.seq \in Nat /\ a.hop \in Nat
  BY EntryNumbers DEF AsRoute
<1>2. GoodAdvert(a, d, t, T)
  BY DEF Good
<1>3. u.main = [t.main EXCEPT ![d] = m] /\ u.adv = [t.adv EXCEPT ![d] = a]
  BY TablesOf
<1> HIDE DEF a, m
<1>4. \A x \in Node : t.main[x].on => u.main[x].on
  BY <1>1, <1>3, TablesOf
<1>5. Leads(a, d, u, T)
  BY <1>2, <1>4 DEF GoodAdvert, Leads, Follows
<1>6. Leads(m, d, u, T)
  BY <1>1, <1>5 DEF Leads
<1>7. u.main[d] = m
  BY <1>3, TablesOf
<1>8. GoodAdvert(a, d, u, T)
  BY <1>1, <1>2, <1>5, <1>7 DEF GoodAdvert, AtLeast
<1>9. t.main[d].on => AtLeast(m.seq, m.hop, t.main[d])
  BY <1>1, <1>2 DEF GoodAdvert
<1> QED BY <1>1, <1>3, <1>6, <1>8, <1>9, GoodAt

LEMMA GoodDuplicate ==
    ASSUME NEW S \in Numbers, NEW t, NEW T, NEW d \in Node, Sound(t, S, {d}), Good(t, T),
           t.adv[d].on, Even(t.adv[d].seq), NEW from
    PROVE  Good(Duplicate(t, d, from), T) /\ Improves(t, Duplicate(t, d, from))
<1> DEFINE u == [t EXCEPT !.main[d] = AsRoute(t.adv[d])]
<1>1. t \in Tables /\ Discard(t, d) \in Tables
  BY SoundDiscard DEF Sound
<1>2. RouteOK(AsRoute(t.adv[d]), S[d])
  BY AdvertCopyOK DEF Sound, Numbers
<1>3. u \in Tables /\ u.main = [t.main EXCEPT ![d] = AsRoute(t.adv[d])] /\ u.adv = t.adv
      /\ u.event = t.event
  BY <1>1, <1>2 DEF Tables, RouteOK
<1> HIDE DEF u
<1>4. Good(u, T) /\ Improves(t, u)
  BY <1>1, <1>3, GoodCopy
<1>5. Discard(u, d) \in Tables
  <2>1. CASE Settling(u, d)
    BY <1>3, <2>1 DEF Discard
  <2>2. CASE ~Settling(u, d)
    BY <1>3, <2>2 DEF Discard, Tables, AdvEntry
  <2> QED BY <2>1, <2>2
<1>6. Good(Discard(u, d), T) /\ Improves(u, Discard(u, d))
  BY <1>3, <1>4, <1>5, GoodDiscard
<1>7. Improves(t, Discard(u, d))
  BY <1>1, <1>3, <1>4, <1>5, <1>6, EntryNumbers DEF Improves, AtLeast
<1>8. Good(Discard(t, d), T) /\ Improves(t, Discard(t, d))
  BY <1>1, GoodDiscard
<1> QED BY <1>6, <1>7, <1>8 DEF Duplicate, u

(* An address without a route has no advertised entry either.              *)
LEMMA GoodNewRoute ==
    ASSUME NEW t \in Tables, NEW T, NEW d \in Node, Good(t, T), ~t.main[d].on,
           NEW seq, NEW hop, NEW from, Told(t, d, seq, hop, from, T),
           NewRoute(t, d, seq, hop, from) \in Tables
    PROVE  /\ Good(NewRoute(t, d, seq, hop, from), T)
           /\ Improves(t, NewRoute(t, d, seq, hop, from))
           /\ NewRoute(t, d, seq, hop, from).main[d].on
<1> DEFINE a == Heard(seq, hop, from, ~t.adv[d].on)
           m == AsRoute(a)
           u == NewRoute(t, d, seq, hop, from)
<1>1. ~t.adv[d].on
  BY DEF Good, GoodAdvert
<1>2. u.main = [t.main EXCEPT ![d] = m]
  BY DEF NewRoute, Announce, Tables
<1>3. u.adv = [x \in Node |-> IF x \in {d} /\ ~t.adv[x].on THEN a ELSE t.adv[x]]
  BY DEF NewRoute, Announce, Tables
<1>4. /\ a.on /\ a.seq = seq /\ a.hop = hop /\ a.nh = from
      /\ m.on /\ ~m.old /\ m.seq = seq /\ m.hop = hop /\ m.nh = from
  BY DEF Heard, AsRoute
<1> HIDE DEF a, m, u
<1>5. u.adv = [t.adv EXCEPT ![d] = a]
  BY <1>1, <1>3, TablesOf
<1>6. u.main[d] = m
  BY <1>2, TablesOf
<1>7. u.main[from].on
  BY <1>2, <1>4, <1>6, TablesOf DEF Told
<1>8. Follows(from, seq, hop, d, u, T)
  BY <1>7 DEF Told, Follows
<1>9. Leads(m, d, u, T) /\ GoodAdvert(a, d, u, T)
  BY <1>4, <1>6, <1>8 DEF GoodAdvert, Leads, AtLeast, Told
<1>10. Good(u, T) /\ Improves(t, u)
  BY <1>2, <1>4, <1>5, <1>9, GoodAt DEF u
<1> QED BY <1>4, <1>6, <1>10 DEF u

(* The update procedures, and what they say.                               *)
LEMMA GoodFlush ==
    ASSUME NEW S \in Numbers, NEW t, NEW T, Sound(t, S, {}), Good(t, T)
    PROVE  /\ Good(Flush(t), T) /\ Improves(t, Flush(t))
           /\ Good(ForgetEvents(Flush(t), Ready(t)), T)
           /\ ForgetEvents(Flush(t), Ready(t)).main = Flush(t).main
           /\ \A d \in Ready(t) : /\ Even(t.adv[d].seq) /\ Flush(t).main[d].on
                                  /\ Flush(t).main[d].seq = t.adv[d].seq
                                  /\ Flush(t).main[d].hop = t.adv[d].hop
<1> DEFINE R == Ready(t)
           m(d) == [AsRoute(t.adv[d]) EXCEPT !.changed = FALSE]
           u == Flush(t)
           v == ForgetEvents(u, R)
<1>1. t \in Tables /\ u \in Tables /\ v \in Tables
  BY SoundFlush DEF Sound
<1>2. /\ u.main = [d \in Node |-> IF d \in R /\ Even(t.adv[d].seq) /\ t.main[d].on
                                  THEN m(d) ELSE t.main[d]]
      /\ u.adv = [d \in Node |-> IF d \in R THEN NoAdvert ELSE t.adv[d]]
  BY <1>1 DEF Flush, Tables
<1>3. v.main = u.main /\ v.adv = u.adv
  BY <1>1 DEF ForgetEvents, Tables
<1>4. ASSUME NEW d \in R
      PROVE  d \in Node /\ t.adv[d].on /\ GoodAdvert(t.adv[d], d, t, T)
             /\ Even(t.adv[d].seq) /\ t.main[d].on
  BY <1>4 DEF Ready, Good, GoodAdvert
<1>5. ASSUME NEW d \in Node
      PROVE  /\ m(d).on /\ ~m(d).old /\ m(d).seq = t.adv[d].seq /\ m(d).hop = t.adv[d].hop
             /\ m(d).nh = t.adv[d].nh
  BY DEF AsRoute
<1> HIDE DEF R, u, v, m
<1>6. ASSUME NEW d \in Node
      PROVE  u.main[d] = IF d \in R THEN m(d) ELSE t.main[d]
  BY <1>2, <1>4
<1>7. Improves(t, u)
  BY <1>1, <1>4, <1>5, <1>6, EntryNumbers DEF Improves, GoodAdvert, AtLeast
<1>8. \A x \in Node : t.main[x].on => u.main[x].on
  BY <1>7 DEF Improves
<1>9. ASSUME NEW d \in Node
      PROVE  /\ ~u.main[d].old
             /\ u.main[d].on => Leads(u.main[d], d, u, T)
             /\ u.adv[d].on => GoodAdvert(u.adv[d], d, u, T)
  <2>1. CASE d \in R
    <3>1. u.main[d] = m(d) /\ u.adv[d] = NoAdvert /\ ~NoAdvert.on
      BY <1>2, <1>6, <2>1 DEF NoAdvert
    <3>2. Leads(t.adv[d], d, u, T)
      BY <1>4, <1>8, <2>1 DEF GoodAdvert, Leads, Follows
    <3> QED BY <1>5, <3>1, <3>2 DEF Leads
  <2>2. CASE d \notin R
    <3>1. u.main[d] = t.main[d] /\ u.adv[d] = t.adv[d]
      BY <1>2, <1>6, <2>2
    <3> QED BY <1>8, <3>1 DEF Good, GoodAdvert, Leads, Follows
  <2> QED BY <2>1, <2>2
<1>10. Good(u, T)
  BY <1>9 DEF Good
<1>11. Good(v, T)
  BY <1>3, <1>10 DEF Good, GoodAdvert, Leads, Follows
<1>12. \A d \in R : /\ Even(t.adv[d].seq) /\ u.main[d].on
                    /\ u.main[d].seq = t.adv[d].seq /\ u.main[d].hop = t.adv[d].hop
  BY <1>4, <1>5, <1>6
<1> QED BY <1>3, <1>7, <1>10, <1>11, <1>12 DEF u, v, R

(* Without old entries nothing is purged.                                  *)
LEMMA NothingPurged ==
    ASSUME NEW t \in Tables, NEW T, Good(t, T)
    PROVE  Purged(t.main) = {} /\ Good(DropMain(t, {}), T) /\ DropMain(t, {}).main = t.main
<1>1. Purged(t.main) = {}
  BY PurgedThere DEF Good
<1>2. /\ DropMain(t, {}).main = t.main /\ DropMain(t, {}).adv = t.adv
  BY TablesOf DEF DropMain, Tables
<1> QED BY <1>1, <1>2 DEF Good, GoodAdvert, Leads, Follows

-----------------------------------------------------------------------------
(* The network *)

TruePacket(p, T) ==
    /\ p.gone = {} /\ p.from \in DOMAIN p.hdr
    /\ \A d \in DOMAIN p.hdr : TrueHeader(p.from, d, p.hdr[d], T)

TruePackets(T) == {p \in Packet : DOMAIN p.hdr \subseteq Node /\ TruePacket(p, T)}

GoodTables  == \A n \in Node : Good(tab[n], tab) /\ Even(own[n])
TrueAir     == \A l \in Link : air[l] \in Seq(TruePackets(tab))
TrueReading == Busy => /\ TruePacket(reading, tab)
                       /\ \/ reading.from \in reading.rest
                          \/ tab[reading.at].main[reading.from].on

Truth == GoodTables /\ TrueAir /\ TrueReading
LInv  == NothingForgotten => Truth

(* Tables that only improve make nothing untrue that was said.             *)
LEMMA TruePacketsStill ==
    ASSUME NEW T \in [Node -> Tables], NEW U \in [Node -> Tables],
           \A m \in Node : Improves(T[m], U[m])
    PROVE  /\ \A p \in TruePackets(T) : p \in TruePackets(U)
           /\ \A s : s \in Seq(TruePackets(T)) => s \in Seq(TruePackets(U))
<1>1. ASSUME NEW p \in TruePackets(T)
      PROVE  p \in TruePackets(U)
  <2>1. p \in Packet /\ DOMAIN p.hdr \subseteq Node /\ TruePacket(p, T)
    BY DEF TruePackets
  <2>2. ASSUME NEW d \in DOMAIN p.hdr PROVE p.hdr[d] \in Header
    BY <2>1, <2>2 DEF Packet
  <2>3. ASSUME NEW d \in DOMAIN p.hdr
        PROVE  TrueHeader(p.from, d, p.hdr[d], U)
    <3>1. p.from \in Node /\ d \in Node /\ p.hdr[d] \in Header
          /\ TrueHeader(p.from, d, p.hdr[d], T)
      BY <2>1, <2>2 DEF TruePacket
    <3> QED BY <3>1, GoodStill
  <2> QED BY <2>1, <2>3 DEF TruePackets, TruePacket
<1>2. TruePackets(T) \subseteq TruePackets(U)
  BY <1>1
<1>3. ASSUME NEW s \in Seq(TruePackets(T)) PROVE s \in Seq(TruePackets(U))
  BY <1>2, <1>3, SeqMore
<1> QED BY <1>1, <1>3

(* A node replaces its tables by better ones.                              *)
LEMMA GoodWrite ==
    ASSUME TablesOK, TablesOK', GoodTables, NEW n \in Node, NEW t \in Tables,
           Good(t, tab), Improves(tab[n], t), tab' = [tab EXCEPT ![n] = t],
           \A m \in Node : Even(own'[m])
    PROVE  /\ GoodTables'
           /\ \A m \in Node : Improves(tab[m], tab'[m])
           /\ \A s : s \in Seq(TruePackets(tab)) => s \in Seq(TruePackets(tab'))
           /\ \A p \in TruePackets(tab) : p \in TruePackets(tab')
<1>1. tab \in [Node -> Tables] /\ tab' \in [Node -> Tables]
  BY DEF TablesOK
<1>2. \A m \in Node : tab'[m] = IF m = n THEN t ELSE tab[m]
  BY <1>1
<1>3. ASSUME NEW m \in Node PROVE Improves(tab[m], tab'[m])
  <2>1. tab[m] \in Tables
    BY <1>1
  <2> QED BY <1>2, <2>1, ImprovesSelf
<1>4. ASSUME NEW m \in Node PROVE Good(tab'[m], tab')
  <2>1. tab[m] \in Tables /\ tab'[m] \in Tables /\ Good(tab'[m], tab)
    BY <1>1, <1>2 DEF GoodTables
  <2> QED BY <1>1, <1>3, <2>1, GoodStill
<1> QED BY <1>1, <1>3, <1>4, TruePacketsStill DEF GoodTables

(* What is being read stays true.                                          *)
LEMMA ReadingStill ==
    ASSUME DInv, TrueReading, NEW T \in [Node -> Tables],
           \A m \in Node : Improves(tab[m], T[m])
    PROVE  Busy => /\ TruePacket(reading, T)
                   /\ \/ reading.from \in reading.rest
                      \/ T[reading.at].main[reading.from].on
<1> SUFFICES ASSUME Busy
             PROVE  /\ TruePacket(reading, T)
                    /\ \/ reading.from \in reading.rest
                       \/ T[reading.at].main[reading.from].on
  OBVIOUS
<1>1. /\ reading \in InHand /\ tab \in [Node -> Tables]
      /\ \A d \in DOMAIN reading.hdr : d \in Node /\ reading.hdr[d] \in Header
  BY DEF DInv, ReadingOK, TablesOK, HeadersOK
<1>2. reading.from \in Node /\ reading.at \in Node
  BY <1>1 DEF InHand
<1>3. ASSUME NEW d \in DOMAIN reading.hdr
      PROVE  TrueHeader(reading.from, d, reading.hdr[d], T)
  <2>1. TrueHeader(reading.from, d, reading.hdr[d], tab)
    BY DEF TrueReading, TruePacket
  <2> QED BY <1>1, <1>2, <2>1, GoodStill
<1>4. tab[reading.at].main[reading.from].on => T[reading.at].main[reading.from].on
  BY <1>2 DEF Improves
<1> QED BY <1>3, <1>4 DEF TrueReading, TruePacket

LEMMA LInit == Init => LInv
<1> SUFFICES ASSUME Init PROVE Truth
  BY DEF LInv
<1>1. ASSUME NEW n \in Node PROVE Good(tab[n], tab) /\ Even(own[n])
  <2>1. tab[n] = Empty /\ own[n] = 0
    BY DEF Init
  <2> QED BY <2>1 DEF Good, Empty, NoRoute, NoAdvert, Even
<1>2. TrueAir
  BY DEF Init, TrueAir
<1>3. TrueReading
  BY DEF Init, TrueReading, Busy
<1> QED BY <1>1, <1>2, <1>3 DEF Truth, GoodTables

(* A true packet is added to the links of its sender.                      *)
LEMMA TrueBroadcast ==
    ASSUME AirOK, NEW T, \A l \in Link : air[l] \in Seq(TruePackets(T)),
           NEW n \in Node, NEW D \in SUBSET Node, n \in D, NEW hdr \in [D -> Header],
           \A d \in D : TrueHeader(n, d, hdr[d], T), Broadcast(n, hdr, {})
    PROVE  \A l \in Link : air'[l] \in Seq(TruePackets(T))
<1> DEFINE p == [from |-> n, hdr |-> hdr, gone |-> {}]
<1>1. p \in Packet
  <2>1. hdr \in UNION {[E -> Header] : E \in SUBSET Node}
    OBVIOUS
  <2> QED BY <2>1 DEF Packet
<1>2. p \in TruePackets(T)
  BY <1>1 DEF TruePackets, TruePacket
<1>3. \A l \in Link : air'[l] = IF l[1] = n THEN Append(air[l], p) ELSE air[l]
  BY DEF Broadcast
<1> HIDE DEF p
<1>4. ASSUME NEW l \in Link PROVE air'[l] \in Seq(TruePackets(T))
  <2>1. air[l] \in Seq(TruePackets(T))
    OBVIOUS
  <2>2. Append(air[l], p) \in Seq(TruePackets(T))
    BY <1>2, <2>1
  <2> QED BY <1>3, <2>1, <2>2
<1> QED BY <1>4

-----------------------------------------------------------------------------
(* Every action keeps what is true true *)

(* Nothing is forgotten, and nothing was.                                  *)
LEMMA StillNothing ==
    ASSUME NodesOK, UNCHANGED faults \/ \E k \in {"lost", "aged", "down"} : Fault(k),
           NothingForgotten'
    PROVE  NothingForgotten /\ \A k \in {"aged", "down"} : ~Fault(k)
<1>1. faults \in Faults
  BY DEF NodesOK
<1>2. ASSUME NEW k \in {"lost", "aged", "down"}, Fault(k)
      PROVE  k = "lost" /\ faults.aged = 0 /\ faults.down = 0
  <2>1. faults' = [faults EXCEPT ![k] = @ + 1]
    BY <1>2 DEF Fault
  <2> QED BY <1>1, <2>1 DEF Faults, NothingForgotten
<1> QED BY <1>2 DEF NothingForgotten

(* SendTriggeredUpdate, with tables that are good.                         *)
LEMMA TrueTriggered ==
    ASSUME DInv, DInv', Truth, NEW n \in Node, NEW t, Sound(t, Possible, {}),
           Good(t, tab), Improves(tab[n], t), up[n], SendTriggered(n, t),
           UNCHANGED <<own, reading>>
    PROVE  Truth'
<1> DEFINE D == Ready(t)
           v == ForgetEvents(Flush(t), D)
           f == [x \in D \cup {n} |-> IF x = n THEN [seq |-> own[n], hop |-> 1]
                                      ELSE [seq |-> t.adv[x].seq, hop |-> t.adv[x].hop + 1]]
<1>1. /\ Possible \in Numbers /\ t \in Tables /\ tab \in [Node -> Tables]
      /\ tab[n] \in Tables /\ own[n] \in Nat
  BY PossibleNumbers DEF DInv, TablesOK, NodesOK, Sound
<1>2. v \in Tables /\ Flush(t) \in Tables
  BY <1>1, SoundFlush DEF Sound
<1>3. /\ tab' = [tab EXCEPT ![n] = v]
      /\ UNCHANGED air \/ Broadcast(n, f, {})
  BY DEF SendTriggered
<1>4. /\ Good(v, tab) /\ Improves(t, Flush(t)) /\ v.main = Flush(t).main
      /\ \A d \in D : /\ Even(t.adv[d].seq) /\ v.main[d].on
                      /\ v.main[d].seq = t.adv[d].seq /\ v.main[d].hop = t.adv[d].hop
  BY <1>1, GoodFlush
<1>5. \A d \in D : d \in Node /\ t.adv[d].seq \in Nat /\ t.adv[d].hop \in Nat
  BY <1>1, EntryNumbers DEF Ready
<1> HIDE DEF v, D
<1>6. Improves(tab[n], v)
  BY <1>1, <1>2, <1>4, EntryNumbers DEF Improves, AtLeast
<1>7. /\ GoodTables'
      /\ \A m \in Node : Improves(tab[m], tab'[m])
      /\ \A s : s \in Seq(TruePackets(tab)) => s \in Seq(TruePackets(tab'))
  BY <1>2, <1>3, <1>4, <1>6, GoodWrite DEF DInv, Truth, GoodTables
<1>8. \A l \in Link : air[l] \in Seq(TruePackets(tab'))
  BY <1>7 DEF Truth, TrueAir
<1>9. f \in [D \cup {n} -> Header] /\ D \cup {n} \in SUBSET Node
  BY <1>1, <1>5 DEF Header
<1>10. \A d \in D \cup {n} : TrueHeader(n, d, f[d], tab')
  <2>1. tab'[n] = v
    BY <1>1, <1>3
  <2>2. ASSUME NEW d \in D, d # n PROVE TrueHeader(n, d, f[d], tab')
    <3>1. f[d].seq = t.adv[d].seq /\ f[d].hop = t.adv[d].hop + 1
      BY <2>2
    <3> HIDE DEF f
    <3> QED BY <1>4, <1>5, <2>1, <3>1 DEF TrueHeader, Better
  <2>3. TrueHeader(n, n, f[n], tab')
    BY DEF TrueHeader, Truth, GoodTables
  <2> QED BY <2>2, <2>3
<1> HIDE DEF f
<1>11. TrueAir'
  <2>1. CASE UNCHANGED air
    BY <1>8, <2>1 DEF TrueAir
  <2>2. CASE Broadcast(n, f, {})
    <3>1. \A l \in Link : air'[l] \in Seq(TruePackets(tab'))
      BY <1>8, <1>9, <1>10, <2>2, TrueBroadcast DEF DInv
    <3> QED BY <3>1 DEF TrueAir
  <2> QED BY <1>3, <2>1, <2>2
<1>12. TrueReading'
  <2>1. tab' \in [Node -> Tables] /\ UNCHANGED Busy
    BY DEF DInv, TablesOK, Busy
  <2> QED BY <1>7, <2>1, ReadingStill DEF Truth, TrueReading
<1> QED BY <1>7, <1>11, <1>12 DEF Truth

LEMMA TrueSendTriggered ==
    ASSUME DInv, DInv', LInv, NEW n \in Node, SendTriggeredUpdate(n)
    PROVE  LInv'
<1> SUFFICES ASSUME NothingForgotten' PROVE Truth'
  BY DEF LInv
<1>1. NothingForgotten /\ Truth /\ up[n]
  BY StillNothing DEF DInv, NodesOK, LInv, SendTriggeredUpdate, NothingForgotten
<1>2. tab[n] \in Tables /\ Sound(tab[n], Possible, {}) /\ Good(tab[n], tab)
  BY <1>1 DEF DInv, TablesOK, Truth, GoodTables
<1> QED BY <1>1, <1>2, ImprovesSelf, TrueTriggered DEF SendTriggeredUpdate

LEMMA TrueSettling ==
    ASSUME DInv, DInv', LInv, NEW n \in Node, NEW d \in Node, SettlingTimeEnds(n, d)
    PROVE  LInv'
<1> SUFFICES ASSUME NothingForgotten' PROVE Truth'
  BY DEF LInv
<1> DEFINE t == [tab[n] EXCEPT !.event[d] = "expired"]
<1>1. NothingForgotten /\ Truth /\ up[n]
  BY StillNothing DEF DInv, NodesOK, LInv, SettlingTimeEnds, NothingForgotten
<1>2. tab[n] \in Tables /\ Sound(tab[n], Possible, {}) /\ Good(tab[n], tab)
  BY <1>1 DEF DInv, TablesOK, Truth, GoodTables
<1>3. /\ t \in Tables /\ t.main = tab[n].main /\ t.adv = tab[n].adv
      /\ t.event = [tab[n].event EXCEPT ![d] = "expired"]
  BY <1>2 DEF Tables
<1>4. SendTriggered(n, t) /\ UNCHANGED <<own, reading>>
  BY DEF SettlingTimeEnds
<1> HIDE DEF t
<1>5. Good(t, tab) /\ Improves(tab[n], t)
  BY <1>2, <1>3, GoodFewer
<1>6. Sound(t, Possible, {})
  <2>1. ASSUME NEW x \in Node PROVE Recorded(t.adv[x], t.event[x])
    BY <1>2, <1>3, TablesOf DEF Sound, Recorded
  <2> QED BY <1>2, <1>3, <2>1 DEF Sound
<1> QED BY <1>1, <1>4, <1>5, <1>6, TrueTriggered

LEMMA TruePeriodic ==
    ASSUME DInv, DInv', LInv, NEW n \in Node, SendPeriodicUpdate(n)
    PROVE  LInv'
<1> SUFFICES ASSUME NothingForgotten' PROVE Truth'
  BY DEF LInv
<1> DEFINE gone == Purged(tab[n].main)
           w == DropMain(tab[n], gone)
           t == Flush(w)
           D == {d \in Node : t.main[d].on}
           f == [d \in D \cup gone \cup {n} |->
                   CASE d = n      -> [seq |-> own[n] + 2, hop |-> 1]
                     [] d \in gone -> [seq |-> tab[n].main[d].seq + 1,
                                       hop |-> tab[n].main[d].hop + 1]
                     [] OTHER      -> [seq |-> t.main[d].seq, hop |-> t.main[d].hop + 1]]
<1>1. Truth
  BY StillNothing DEF DInv, LInv, SendPeriodicUpdate
<1>2. /\ Possible \in Numbers /\ tab \in [Node -> Tables] /\ own \in [Node -> Nat]
      /\ tab[n] \in Tables /\ Sound(tab[n], Possible, {}) /\ Good(tab[n], tab)
  BY <1>1, PossibleNumbers DEF DInv, NodesOK, TablesOK, Truth, GoodTables
<1>3. gone = {} /\ Good(w, tab) /\ w.main = tab[n].main
  BY <1>2, NothingPurged
<1>4. Sound(w, Possible, {})
  BY <1>2, SoundDropMain
<1>5. /\ tab' = [tab EXCEPT ![n] = t] /\ own' = [own EXCEPT ![n] = @ + 2]
      /\ Broadcast(n, f, gone) /\ UNCHANGED reading
  BY DEF SendPeriodicUpdate
<1> HIDE DEF w
<1>6. Sound(t, Possible, {}) /\ t \in Tables /\ Good(t, tab) /\ Improves(w, t)
  BY <1>2, <1>3, <1>4, SoundFlush, GoodFlush DEF Sound
<1> HIDE DEF t
<1>7. Improves(tab[n], t)
  BY <1>3, <1>6 DEF Improves
<1>8. \A m \in Node : Even(own'[m]) /\ Even(own[m])
  <2>1. \A s \in Nat : Even(s) => Even(s + 2)
    BY DEF Even
  <2> QED BY <1>1, <1>2, <1>5, <2>1 DEF Truth, GoodTables
<1>9. /\ GoodTables'
      /\ \A m \in Node : Improves(tab[m], tab'[m])
      /\ \A s : s \in Seq(TruePackets(tab)) => s \in Seq(TruePackets(tab'))
  BY <1>1, <1>5, <1>6, <1>7, <1>8, GoodWrite DEF DInv, Truth
<1>10. \A l \in Link : air[l] \in Seq(TruePackets(tab'))
  BY <1>1, <1>9 DEF Truth, TrueAir
<1>11. ASSUME NEW d \in D
       PROVE  /\ t.main[d].seq \in Nat /\ t.main[d].hop \in Nat /\ Even(t.main[d].seq)
              /\ t.main[d].on
  BY <1>6, EntryNumbers DEF Sound, RouteOK
<1>12. D \cup {n} \in SUBSET Node /\ D \cup gone \cup {n} = D \cup {n}
  BY <1>3
<1>13. /\ \A d \in D : d # n => f[d] = [seq |-> t.main[d].seq, hop |-> t.main[d].hop + 1]
       /\ f[n] = [seq |-> own[n] + 2, hop |-> 1]
       /\ f = [d \in D \cup {n} |-> f[d]]
  BY <1>3, <1>12
<1> HIDE DEF f, D, gone
<1>14. f \in [D \cup {n} -> Header]
  <2>1. ASSUME NEW d \in D \cup {n} PROVE f[d] \in Header
    <3>1. CASE d = n
      BY <1>2, <1>13, <3>1 DEF Header
    <3>2. CASE d # n
      BY <1>11, <1>13, <3>2 DEF Header
    <3> QED BY <3>1, <3>2
  <2> QED BY <1>13, <2>1
<1>15. \A d \in D \cup {n} : TrueHeader(n, d, f[d], tab')
  <2>1. tab'[n] = t
    BY <1>2, <1>5
  <2>2. ASSUME NEW d \in D, d # n PROVE TrueHeader(n, d, f[d], tab')
    <3>1. f[d].seq = t.main[d].seq /\ f[d].hop = t.main[d].hop + 1
      BY <1>13, <2>2
    <3> QED BY <1>11, <2>1, <3>1 DEF TrueHeader, Better
  <2>3. TrueHeader(n, n, f[n], tab')
    BY <1>2, <1>5, <1>8, <1>13 DEF TrueHeader
  <2> QED BY <2>2, <2>3
<1>16. TrueAir'
  <2>1. \A l \in Link : air'[l] \in Seq(TruePackets(tab'))
    BY <1>3, <1>5, <1>10, <1>12, <1>14, <1>15, TrueBroadcast DEF DInv
  <2> QED BY <2>1 DEF TrueAir
<1>17. TrueReading'
  <2>1. tab' \in [Node -> Tables] /\ UNCHANGED <<Busy, reading>>
    BY <1>5 DEF DInv, TablesOK, Busy
  <2> QED BY <1>1, <1>9, <2>1, ReadingStill DEF Truth, TrueReading
<1> QED BY <1>9, <1>16, <1>17 DEF Truth

LEMMA TrueReceive ==
    ASSUME DInv, DInv', LInv, NEW l \in Link, Receive(l)
    PROVE  LInv'
<1> SUFFICES ASSUME NothingForgotten' PROVE Truth'
  BY DEF LInv
<1> DEFINE p == Head(air[l])
<1>1. Truth
  BY StillNothing DEF DInv, LInv, Receive
<1>2. /\ UNCHANGED <<tab, own>> /\ air' = [air EXCEPT ![l] = Tail(air[l])] /\ air[l] # <<>>
      /\ reading' = [at |-> l[2], from |-> p.from, hdr |-> p.hdr, gone |-> p.gone,
                     rest |-> DOMAIN p.hdr]
  BY DEF Receive, Deliver
<1>3. air[l] \in Seq(TruePackets(tab)) /\ DOMAIN air = Link
  BY <1>1 DEF Truth, TrueAir, DInv, AirOK
<1>4. p \in TruePackets(tab) /\ Tail(air[l]) \in Seq(TruePackets(tab))
  BY <1>2, <1>3
<1> HIDE DEF p
<1>5. TrueAir'
  <2>1. ASSUME NEW k \in Link PROVE air'[k] \in Seq(TruePackets(tab))
    BY <1>1, <1>2, <1>3, <1>4 DEF Truth, TrueAir
  <2>2. TruePackets(tab') = TruePackets(tab)
    BY <1>2
  <2> QED BY <2>1, <2>2 DEF TrueAir
<1>6. TruePacket(p, tab)
  BY <1>4 DEF TruePackets
<1>7. TrueReading'
  BY <1>2, <1>6 DEF TrueReading, TruePacket
<1> QED BY <1>1, <1>2, <1>5, <1>7 DEF Truth, GoodTables

LEMMA TrueLose ==
    ASSUME DInv, DInv', LInv, NEW l \in Link, Lose(l)
    PROVE  LInv'
<1> SUFFICES ASSUME NothingForgotten' PROVE Truth'
  BY DEF LInv
<1>1. Truth
  BY StillNothing DEF DInv, LInv, Lose
<1>2. /\ UNCHANGED <<tab, own, reading>> /\ air' = [air EXCEPT ![l] = Tail(air[l])]
      /\ air[l] # <<>>
  BY DEF Lose, Deliver
<1>3. air[l] \in Seq(TruePackets(tab)) /\ DOMAIN air = Link
  BY <1>1 DEF Truth, TrueAir, DInv, AirOK
<1>4. Tail(air[l]) \in Seq(TruePackets(tab))
  BY <1>2, <1>3
<1>5. TrueAir'
  <2>1. ASSUME NEW k \in Link PROVE air'[k] \in Seq(TruePackets(tab))
    BY <1>1, <1>2, <1>3, <1>4 DEF Truth, TrueAir
  <2>2. TruePackets(tab') = TruePackets(tab)
    BY <1>2
  <2> QED BY <2>1, <2>2 DEF TrueAir
<1> QED BY <1>1, <1>2, <1>5 DEF Truth, GoodTables, TrueReading, Busy

(* Reading a header.                                                       *)
LEMMA TrueRead ==
    ASSUME DInv, DInv', Truth, Busy, NEW d \in Node, IsNext(d), NEW t \in Tables,
           Good(t, tab), Improves(Here, t), d # reading.at => t.main[d].on, Read(d, t)
    PROVE  Truth'
<1> DEFINE n == reading.at
<1>1. n \in Node /\ reading \in InHand /\ n # reading.from /\ reading.from \in Node
  BY LinkAssumption DEF DInv, ReadingOK, InHand
<1>2. /\ tab' = [tab EXCEPT ![n] = t] /\ UNCHANGED <<own, air>>
      /\ Busy' => reading' = [reading EXCEPT !.rest = @ \ {d}]
  BY DEF Read, Busy
<1>3. Improves(tab[n], t)
  BY DEF Here
<1> HIDE DEF n
<1>4. /\ GoodTables'
      /\ \A m \in Node : Improves(tab[m], tab'[m])
      /\ \A s : s \in Seq(TruePackets(tab)) => s \in Seq(TruePackets(tab'))
  BY <1>1, <1>2, <1>3, GoodWrite DEF DInv, Truth, GoodTables
<1>5. TrueAir'
  BY <1>2, <1>4 DEF Truth, TrueAir
<1>6. tab' \in [Node -> Tables] /\ tab'[n] = t
  BY <1>1, <1>2 DEF DInv, TablesOK
<1>7. /\ TruePacket(reading, tab')
      /\ reading.from \in reading.rest \/ tab'[n].main[reading.from].on
  BY <1>4, <1>6, ReadingStill DEF Truth, n
<1>8. TrueReading'
  <2> SUFFICES ASSUME Busy'
               PROVE  /\ TruePacket(reading', tab')
                      /\ \/ reading'.from \in reading'.rest
                         \/ tab'[reading'.at].main[reading'.from].on
    BY DEF TrueReading
  <2>1. /\ reading'.from = reading.from /\ reading'.at = n /\ reading'.hdr = reading.hdr
        /\ reading'.gone = reading.gone /\ reading'.rest = reading.rest \ {d}
    BY <1>1, <1>2 DEF InHand, n
  <2>2. TruePacket(reading', tab')
    BY <1>7, <2>1 DEF TruePacket
  <2>3. d = reading.from => tab'[n].main[d].on
    BY <1>1, <1>6 DEF n
  <2> QED BY <1>7, <2>1, <2>2, <2>3
<1> QED BY <1>4, <1>5, <1>8 DEF Truth

(* What the branches of RecvDsdv find.                                     *)
LEMMA TrueReads ==
    ASSUME DInv, Truth, Busy, NEW d, IsNext(d), d # reading.at
    PROVE  /\ d \in Node /\ Here \in Tables /\ Good(Here, tab) /\ Even(SeqNo(d))
           /\ Told(Here, d, SeqNo(d), HopCount(d), reading.from, tab)
           /\ Here.main[d].on =>
                /\ Sound(Both(d), Possible, {d}) /\ Both(d) \in Tables
                /\ Both(d).main = Here.main
                /\ Both(d).main[d].on /\ Both(d).adv[d].on /\ Good(Both(d), tab)
                /\ Told(Both(d), d, SeqNo(d), HopCount(d), reading.from, tab)
<1>1. /\ d \in Node /\ reading.at \in Node /\ reading.from \in Node
      /\ HopCount(d) \in Nat /\ Sound(Here, Possible, {}) /\ Here \in Tables
      /\ Here = tab[reading.at] /\ Possible \in Numbers
      /\ Here.main[d].on => Sound(Both(d), Possible, {d}) /\ Adv(d).on
  BY ReadsFacts, PossibleNumbers DEF DInv, Here, Sound
<1>2. SeqNo(d) \in Nat
  <2>1. d \in DOMAIN reading.hdr /\ reading.hdr[d] \in Header
    BY DEF DInv, ReadingOK, HeadersOK, IsNext
  <2> QED BY <2>1 DEF SeqNo, Header
<1>3. Good(Here, tab)
  BY <1>1 DEF Truth, GoodTables
<1>4. TrueHeader(reading.from, d, reading.hdr[d], tab)
  BY DEF Truth, TrueReading, TruePacket, DInv, ReadingOK, IsNext
<1>5. reading.from # d => Here.main[reading.from].on
  BY <1>1 DEF Truth, TrueReading, TruePacket, IsNext
<1>6. Told(Here, d, SeqNo(d), HopCount(d), reading.from, tab)
  BY <1>1, <1>2, <1>4, <1>5 DEF Told, TrueHeader, SeqNo, HopCount
<1>7. Here.main[d].on =>
        /\ Both(d).main = Here.main /\ Both(d).adv[d].on /\ Good(Both(d), tab)
        /\ Both(d) \in Tables
  BY <1>1, <1>3, GoodWithAdvert, SoundWithAdvert DEF Both
<1>8. Here.main[d].on => Told(Both(d), d, SeqNo(d), HopCount(d), reading.from, tab)
  BY <1>6, <1>7 DEF Told
<1> QED BY <1>1, <1>3, <1>6, <1>7, <1>8 DEF Told

(* A known route.                                                          *)
LEMMA TrueReadKnown ==
    ASSUME DInv, DInv', Truth, NEW d \in Node, Known(d), NEW t, t \in Tables,
           Good(t, tab), Improves(Both(d), t), Read(d, t)
    PROVE  Truth'
<1>1. Busy /\ IsNext(d) /\ d # reading.at /\ Here.main[d].on
  BY DEF Known, Reads
<1>2. Both(d).main = Here.main
  BY <1>1, TrueReads
<1>3. Improves(Here, t) /\ t.main[d].on
  BY <1>1, <1>2 DEF Improves
<1> QED BY <1>1, <1>3, TrueRead

LEMMA TrueReadHeader ==
    ASSUME DInv, DInv', LInv, NEW d \in Node, ReadHeader(d)
    PROVE  LInv'
<1> SUFFICES ASSUME NothingForgotten' PROVE Truth'
  BY DEF LInv
<1>0. Truth /\ Possible \in Numbers /\ tab \in [Node -> Tables]
  <2>1. UNCHANGED faults
    BY DEF ReadHeader, ReadOwn, ReadNew, ReadUnknownBroken, ReadSettle, ReadSameMetric,
           ReadDuplicate, ReadOld, ReadBroken, ReadOtherBroken, Read
  <2> QED BY <2>1, PossibleNumbers DEF DInv, TablesOK, LInv, NothingForgotten
<1>1. CASE ReadOwn(d)
  <2>1. Busy /\ IsNext(d) /\ d = reading.at /\ Read(d, Here)
    BY <1>1 DEF ReadOwn
  <2>2. Here \in Tables /\ Good(Here, tab)
    BY <1>0, <2>1 DEF Here, Truth, GoodTables
  <2> QED BY <1>0, <2>1, <2>2, ImprovesSelf, TrueRead
<1>2. CASE ReadNew(d)
  <2> DEFINE t == NewRoute(Here, d, SeqNo(d), HopCount(d), reading.from)
  <2>1. Busy /\ IsNext(d) /\ d # reading.at /\ ~Here.main[d].on /\ Read(d, t)
    BY <1>2 DEF ReadNew, Reads
  <2>2. t \in Tables
    BY <1>0, <2>1, TrueReads, ReadsFacts, SoundNewRoute DEF Sound
  <2>3. Good(t, tab) /\ Improves(Here, t) /\ t.main[d].on
    BY <1>0, <2>1, <2>2, TrueReads, GoodNewRoute
  <2> QED BY <1>0, <2>1, <2>2, <2>3, TrueRead
<1>3. ASSUME Known(d)
      PROVE  /\ Sound(Both(d), Possible, {d}) /\ Both(d) \in Tables
             /\ Both(d).main[d].on /\ Both(d).adv[d].on /\ Good(Both(d), tab)
             /\ Told(Both(d), d, SeqNo(d), HopCount(d), reading.from, tab)
             /\ Adv(d) = Both(d).adv[d] /\ reading.from \in Node
             /\ SeqNo(d) \in Possible[d] /\ Even(SeqNo(d)) /\ HopCount(d) \in Nat
  BY <1>0, <1>3, TrueReads, ReadsFacts DEF Known, Reads, Adv
<1>4. CASE ReadSettle(d)
  <2> DEFINE t == Settle(Both(d), d, SeqNo(d), HopCount(d), reading.from)
  <2>1. /\ Known(d) /\ Read(d, t)
        /\ \/ SeqNo(d) > Both(d).adv[d].seq
           \/ SeqNo(d) = Both(d).adv[d].seq /\ HopCount(d) < Both(d).adv[d].hop
    BY <1>4 DEF ReadSettle, Route, Adv
  <2>2. t \in Tables
    BY <1>0, <1>3, <2>1, SoundSettle DEF Sound
  <2>3. Good(t, tab) /\ Improves(Both(d), t)
    BY <1>3, <2>1, <2>2, GoodSettle
  <2> QED BY <1>0, <2>1, <2>2, <2>3, TrueReadKnown
<1>5. CASE ReadSameMetric(d)
  <2> DEFINE t == SameMetric(Both(d), d, SeqNo(d), HopCount(d), reading.from)
  <2>1. Known(d) /\ Read(d, t) /\ SeqNo(d) > Both(d).adv[d].seq
    BY <1>5 DEF ReadSameMetric, Route, Adv
  <2>2. t \in Tables
    BY <1>0, <1>3, <2>1, SoundSameMetric DEF Sound
  <2>3. Good(t, tab) /\ Improves(Both(d), t)
    BY <1>0, <1>3, <2>1, <2>2, GoodSameMetric
  <2> QED BY <1>0, <2>1, <2>2, <2>3, TrueReadKnown
<1>6. CASE ReadDuplicate(d)
  <2> DEFINE t == Duplicate(Both(d), d, reading.from)
  <2>1. Known(d) /\ Read(d, t) /\ SeqNo(d) = Both(d).adv[d].seq
    BY <1>6 DEF ReadDuplicate, Route, Adv
  <2>2. Even(Both(d).adv[d].seq)
    BY <1>3, <2>1
  <2>3. t \in Tables
    BY <1>0, <1>3, <2>1, <2>2, SoundDuplicate DEF Sound
  <2>4. Good(t, tab) /\ Improves(Both(d), t)
    BY <1>0, <1>3, <2>1, <2>2, GoodDuplicate
  <2> QED BY <1>0, <2>1, <2>3, <2>4, TrueReadKnown
<1>7. CASE ReadOld(d)
  <2>1. Known(d) /\ Read(d, Discard(Both(d), d))
    BY <1>7 DEF ReadOld, Route
  <2>2. Discard(Both(d), d) \in Tables
    BY <1>0, <1>3, <2>1, SoundDiscard DEF Sound
  <2>3. Good(Discard(Both(d), d), tab) /\ Improves(Both(d), Discard(Both(d), d))
    BY <1>3, <2>1, <2>2, GoodDiscard
  <2> QED BY <1>0, <2>1, <2>2, <2>3, TrueReadKnown
<1>8. ~(ReadUnknownBroken(d) \/ ReadBroken(d) \/ ReadOtherBroken(d))
  <2>1. ReadUnknownBroken(d) => Reads(d) /\ ~Even(SeqNo(d))
    BY DEF ReadUnknownBroken
  <2>2. ReadBroken(d) \/ ReadOtherBroken(d) => Reads(d) /\ ~Even(SeqNo(d))
    BY DEF ReadBroken, ReadOtherBroken, Broke, Known
  <2>3. Reads(d) => Even(SeqNo(d))
    BY <1>0, TrueReads DEF Reads
  <2> QED BY <2>1, <2>2, <2>3
<1> QED BY <1>1, <1>2, <1>4, <1>5, <1>6, <1>7, <1>8 DEF ReadHeader

LEMMA LStep == DInv /\ DInv' /\ LInv /\ [Next]_vars => LInv'
<1> SUFFICES ASSUME DInv, DInv', LInv, [Next]_vars PROVE LInv'
  OBVIOUS
<1>1. CASE UNCHANGED vars
  <2>1. UNCHANGED <<tab, own, air, reading, faults>>
    BY <1>1 DEF vars
  <2>2. TrueAir => TrueAir'
    <3>1. TruePackets(tab') = TruePackets(tab)
      BY <2>1
    <3> QED BY <2>1, <3>1 DEF TrueAir
  <2> QED BY <2>1, <2>2 DEF LInv, NothingForgotten, Truth, GoodTables, TrueReading, Busy
<1>2. ASSUME NEW n \in Node, SendTriggeredUpdate(n) \/ SendPeriodicUpdate(n)
      PROVE  LInv'
  BY <1>2, TrueSendTriggered, TruePeriodic
<1>3. ASSUME NEW n \in Node, PeriodicWhileDown(n) \/ RouteOutput(n)
                             \/ InterfaceDown(n) \/ InterfaceUp(n)
      PROVE  LInv'
  <2> SUFFICES ASSUME NothingForgotten' PROVE FALSE
    BY DEF LInv
  <2>1. UNCHANGED faults \/ Fault("down")
    BY <1>3 DEF PeriodicWhileDown, RouteOutput, InterfaceDown, InterfaceUp
  <2>2. NothingForgotten /\ ~Fault("down")
    BY <2>1, StillNothing DEF DInv
  <2>3. up[n] /\ Good(tab[n], tab) /\ tab[n] \in Tables
    BY <2>2 DEF DInv, NodesOK, TablesOK, LInv, Truth, GoodTables, NothingForgotten
  <2>4. Purged(tab[n].main) = {}
    BY <2>3, NothingPurged
  <2> QED BY <1>3, <2>2, <2>3, <2>4
          DEF PeriodicWhileDown, RouteOutput, InterfaceDown, InterfaceUp
<1>4. ASSUME NEW n \in Node, NEW d \in Node, SettlingTimeEnds(n, d)
      PROVE  LInv'
  BY <1>4, TrueSettling
<1>5. ASSUME NEW n \in Node, NEW d \in Node, Age(n, d)
      PROVE  LInv'
  BY <1>5, StillNothing DEF LInv, DInv, Age
<1>6. ASSUME NEW l \in Link, Receive(l) \/ Lose(l)
      PROVE  LInv'
  BY <1>6, TrueReceive, TrueLose
<1>7. ASSUME NEW d \in Node, ReadHeader(d)
      PROVE  LInv'
  BY <1>7, TrueReadHeader
<1> QED BY <1>1, <1>2, <1>3, <1>4, <1>5, <1>6, <1>7 DEF Next

-----------------------------------------------------------------------------
(* A cycle has no best entry *)

LessThan == {p \in Nat \X Nat : p[1] < p[2]}

LEMMA LessThanWellFounded == IsWellFoundedOn(LessThan, Nat)
BY NatLessThanWellFounded DEF OpToRel, LessThan

LEMMA HasMin ==
    ASSUME NEW T \in SUBSET Nat, T # {}
    PROVE  \E x \in T : \A y \in T : x <= y
<1>1. PICK x \in T : \A y \in T : <<y, x>> \notin LessThan
  BY LessThanWellFounded, WFMin
<1>2. ASSUME NEW y \in T PROVE x <= y
  <2>1. <<y, x>> \notin LessThan /\ <<y, x>> \in Nat \X Nat /\ x \in Nat /\ y \in Nat
    BY <1>1
  <2> QED BY <2>1 DEF LessThan
<1> QED BY <1>2

(* No entry for d in S can lead to a better one that is again in S.        *)
LEMMA NoEndlessClimb ==
    ASSUME NEW S, NEW s \in [S -> Nat], NEW h \in [S -> Nat], NEW max \in Nat,
           \A n \in S : s[n] <= max,
           \A n \in S : \E m \in S : s[m] > s[n] \/ (s[m] = s[n] /\ h[m] < h[n])
    PROVE  S = {}
<1> SUFFICES ASSUME S # {} PROVE FALSE
  OBVIOUS
<1> DEFINE Gaps == {max - s[n] : n \in S}
<1>1. PICK k \in Gaps : \A y \in Gaps : k <= y
  <2>1. Gaps \in SUBSET Nat /\ Gaps # {}
    OBVIOUS
  <2> HIDE DEF Gaps
  <2> QED BY <2>1, HasMin
<1>2. PICK a \in S : k = max - s[a]
  BY <1>1
<1>3. ASSUME NEW n \in S PROVE s[n] <= s[a]
  <2>1. max - s[n] \in Gaps /\ k <= max - s[n]
    BY <1>1
  <2>2. s[n] \in Nat /\ s[a] \in Nat /\ s[n] <= max /\ s[a] <= max
    OBVIOUS
  <2> QED BY <1>2, <2>1, <2>2
<1> DEFINE Hops == {h[n] : n \in {x \in S : s[x] = s[a]}}
<1>4. PICK j \in Hops : \A y \in Hops : j <= y
  <2>1. Hops \in SUBSET Nat /\ h[a] \in Hops
    BY <1>2
  <2> HIDE DEF Hops
  <2> QED BY <2>1, HasMin
<1>5. PICK b \in S : s[b] = s[a] /\ j = h[b]
  BY <1>4
<1>6. PICK c \in S : s[c] > s[b] \/ (s[c] = s[b] /\ h[c] < h[b])
  OBVIOUS
<1>7. s[c] = s[a] /\ h[c] < h[b] /\ h[c] \in Nat /\ h[b] \in Nat
  BY <1>2, <1>3, <1>5, <1>6
<1>8. h[c] \in Hops
  BY <1>7
<1>9. j <= h[c]
  BY <1>4, <1>8
<1> QED BY <1>5, <1>7, <1>9

-----------------------------------------------------------------------------
(* Theorems *)

THEOREM LoopInvariance == Spec => [](DInv /\ LInv)
<1>1. Init => DInv /\ LInv
  BY DInit, LInit
<1>2. (DInv /\ LInv) /\ [Next]_vars => (DInv /\ LInv)'
  BY DStep, LStep
<1> QED BY <1>1, <1>2, PTL DEF Spec

(* While no route is forgotten, the entry by which a packet is sent to the *)
(* next hop exists.                                                        *)
THEOREM NextHopsKnown == Spec => []NextHopHasRoute
<1>1. LInv => NextHopHasRoute
  BY DEF LInv, NextHopHasRoute, Truth, GoodTables, Good, Leads, Follows
<1> QED BY <1>1, LoopInvariance, PTL

(* While no route is forgotten, next hops form no cycle.                   *)
THEOREM NoLoops == Spec => []LoopFree
<1>1. DInv /\ LInv => LoopFree
  <2> SUFFICES ASSUME DInv, Truth, NothingForgotten, NEW d \in Node, NEW S \in SUBSET Node,
                      Cycle(S, d)
               PROVE  FALSE
    BY DEF LoopFree, LInv
  <2> DEFINE s == [n \in S |-> tab[n].main[d].seq]
             h == [n \in S |-> tab[n].main[d].hop]
  <2>1. ASSUME NEW n \in S
        PROVE  /\ tab[n].main[d].seq \in Nat /\ tab[n].main[d].hop \in Nat
               /\ tab[n].main[d].seq <= own[d]
    <3>1. tab[n] \in Tables /\ RouteOK(tab[n].main[d], Possible[d]) /\ own[d] \in Nat
      BY DEF DInv, TablesOK, NodesOK, Sound
    <3>2. tab[n].main[d].seq \in Nat /\ tab[n].main[d].hop \in Nat
      BY <3>1, EntryNumbers
    <3> QED BY <3>1, <3>2 DEF RouteOK, Possible, NothingForgotten, Reached, Even
  <2>2. ASSUME NEW n \in S
        PROVE  \E m \in S : s[m] > s[n] \/ (s[m] = s[n] /\ h[m] < h[n])
    <3> DEFINE m == tab[n].main[d].nh
    <3>1. m \in S /\ m # d /\ tab[n].main[d].on
      BY DEF Cycle
    <3>2. Leads(tab[n].main[d], d, tab[n], tab)
      BY <3>1 DEF Truth, GoodTables, Good
    <3>3. Better(tab[m].main[d], tab[n].main[d].seq, tab[n].main[d].hop)
      BY <3>1, <3>2 DEF Leads, Follows
    <3>4. s[m] > s[n] \/ (s[m] = s[n] /\ h[m] < h[n])
      BY <3>1, <3>3 DEF Better
    <3> QED BY <3>1, <3>4
  <2>3. s \in [S -> Nat] /\ h \in [S -> Nat] /\ own[d] \in Nat /\ \A n \in S : s[n] <= own[d]
    BY <2>1 DEF DInv, NodesOK
  <2> HIDE DEF s, h
  <2>4. S = {}
    BY <2>2, <2>3, NoEndlessClimb
  <2> QED BY <2>4 DEF Cycle
<1> QED BY <1>1, LoopInvariance, PTL
=============================================================================
