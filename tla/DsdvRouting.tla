---------------------------- MODULE DsdvRouting ----------------------------
(***************************************************************************)
(* A network of nodes running dsdv-routing-protocol.cc.                    *)
(*                                                                         *)
(* The simulator is single-threaded: from the moment a node receives a     *)
(* packet until it has read its last header ("reading") nothing else       *)
(* happens.  Packets of one node reach another in the order they were      *)
(* sent, or are lost.  Several calls of SendTriggeredUpdate scheduled      *)
(* after received packets count as one (trig): all but the first find      *)
(* nothing to send.                                                        *)
(***************************************************************************)
EXTENDS DsdvTable, Sequences, FiniteSets

CONSTANTS Link,      \* pairs <<m, n>>: n is in range of m
          SlowTimers, \* BOOLEAN: is what is under way over before the next period?
          MaxPeriod, \* bound: periodic updates of each node, per time it is up
          MaxHop,    \* bound: metrics in the packets received
          MaxFaults  \* bounds: lost packets, routes that age, interfaces that go down

Faults == [lost : Nat, aged : Nat, down : Nat]

ASSUME LinkAssumption == /\ Link \subseteq Node \X Node
                         /\ \A l \in Link : <<l[2], l[1]>> \in Link /\ l[1] # l[2]
ASSUME BoundAssumption == SlowTimers \in BOOLEAN /\ MaxPeriod \in [Node -> Nat] /\ MaxHop \in Nat /\ MaxFaults \in Faults

VARIABLES tab,      \* tables of each node
          own,      \* sequence number in the entry of the broadcast address
          up,       \* is the interface up?
          trig,     \* is a call of SendTriggeredUpdate scheduled?
          periodic, \* is m_periodicUpdateTimer running?
          air,      \* packets in flight, by link
          reading,  \* the packet RecvDsdv is reading, and where
          faults    \* what has happened so far, counted against MaxFaults

vars == <<tab, own, up, trig, periodic, air, reading, faults>>

(* A packet: its sender, the headers by destination, and the headers of    *)
(* removed routes among them, which are read first.                        *)
Header == [seq : Nat, hop : Nat]
Packet == [from : Node, hdr : UNION {[D -> Header] : D \in SUBSET Node},
           gone : SUBSET Node]

Idle == [at |-> NoNode, from |-> NoNode, hdr |-> <<>>, gone |-> {}, rest |-> {}]
Busy == reading # Idle

Init == /\ tab = [n \in Node |-> Empty]
        /\ own = [n \in Node |-> 0]
        /\ up = [n \in Node |-> TRUE]
        /\ trig = [n \in Node |-> FALSE]
        /\ periodic = [n \in Node |-> TRUE]
        /\ air = [l \in Link |-> <<>>]
        /\ reading = Idle
        /\ faults = [lost |-> 0, aged |-> 0, down |-> 0]

Broadcast(n, hdr, gone) ==
    air' = [l \in Link |-> IF l[1] = n
                           THEN Append(air[l], [from |-> n, hdr |-> hdr, gone |-> gone])
                           ELSE air[l]]

-----------------------------------------------------------------------------
(* Updates sent *)

(* Mutant: the node's own header counts ahead. *)
SendTriggeredAhead(n, t) ==
    LET D == Ready(t)
        hdr == [d \in D \cup {n} |->
                  IF d = n THEN [seq |-> own[n] + 2, hop |-> 1]
                  ELSE [seq |-> t.adv[d].seq, hop |-> t.adv[d].hop + 1]]
    IN  IF up[n]
        THEN /\ tab' = [tab EXCEPT ![n] = ForgetEvents(Flush(t), D)]
             /\ IF D = {} THEN UNCHANGED air ELSE Broadcast(n, hdr, {})
        ELSE tab' = [tab EXCEPT ![n] = t] /\ UNCHANGED air

(* SendTriggeredUpdate with tables t.  The node adds its own header, which *)
(* does not count as an update.                                            *)
SendTriggered(n, t) ==
    LET D == Ready(t)
        hdr == [d \in D \cup {n} |->
                  IF d = n THEN [seq |-> own[n], hop |-> 1]
                  ELSE [seq |-> t.adv[d].seq, hop |-> t.adv[d].hop + 1]]
    IN  IF up[n]
        THEN /\ tab' = [tab EXCEPT ![n] = ForgetEvents(Flush(t), D)]
             /\ IF D = {} THEN UNCHANGED air ELSE Broadcast(n, hdr, {})
        ELSE tab' = [tab EXCEPT ![n] = t] /\ UNCHANGED air

SendTriggeredUpdate(n) ==
    /\ ~Busy /\ trig[n]
    /\ trig' = [trig EXCEPT ![n] = FALSE]
    /\ SendTriggered(n, tab[n])
    /\ UNCHANGED <<own, up, periodic, reading, faults>>

(* The settling timer of d calls SendTriggeredUpdate; its event counts as  *)
(* expired while it runs.                                                  *)
SettlingTimeEnds(n, d) ==
    /\ ~Busy /\ Settling(tab[n], d)
    /\ SendTriggered(n, [tab[n] EXCEPT !.event[d] = "expired"])
    /\ UNCHANGED <<own, up, trig, periodic, reading, faults>>

(* Nothing is under way: periodic intervals and hold-down times are tens   *)
(* of seconds, the delay of packets and triggered updates milliseconds.    *)
Calm == /\ \A l \in Link : air[l] = <<>>
        /\ \A n \in Node : ~trig[n]

(* SendPeriodicUpdate: purge, merge, and the whole main table.             *)
SendPeriodicUpdate(n) ==
    LET gone == Purged(tab[n].main)
        t    == Flush(DropMain(tab[n], gone))
        D    == {d \in Node : t.main[d].on}
        hdr  == [d \in D \cup gone \cup {n} |->
                   CASE d = n      -> [seq |-> own[n] + 2, hop |-> 1]
                     [] d \in gone -> [seq |-> tab[n].main[d].seq + 1,
                                       hop |-> tab[n].main[d].hop + 1]
                     [] OTHER      -> [seq |-> t.main[d].seq, hop |-> t.main[d].hop + 1]]
    IN  /\ ~Busy /\ periodic[n] /\ up[n]
        /\ own[n] < 2 * MaxPeriod[n]
        /\ SlowTimers => own[n] = 0 \/ Calm
        /\ tab' = [tab EXCEPT ![n] = t]
        /\ own' = [own EXCEPT ![n] = @ + 2]
        /\ Broadcast(n, hdr, gone)
        /\ UNCHANGED <<up, trig, periodic, reading, faults>>

(* While the interface is down the main table is empty, and the procedure  *)
(* returns before it schedules itself again.                               *)
PeriodicWhileDown(n) ==
    /\ ~Busy /\ periodic[n] /\ ~up[n]
    /\ tab' = [tab EXCEPT ![n] = Flush(tab[n])]
    /\ periodic' = [periodic EXCEPT ![n] = FALSE]
    /\ UNCHANGED <<own, up, trig, air, reading, faults>>

-----------------------------------------------------------------------------
(* RecvDsdv *)

Deliver(l) == air' = [air EXCEPT ![l] = Tail(@)]

Receive(l) ==
    LET p == Head(air[l])
    IN  /\ ~Busy /\ air[l] # <<>> /\ up[l[2]]
        /\ \A d \in DOMAIN p.hdr : p.hdr[d].hop <= MaxHop
        /\ Deliver(l)
        /\ reading' = [at |-> l[2], from |-> p.from, hdr |-> p.hdr, gone |-> p.gone,
                       rest |-> DOMAIN p.hdr]
        /\ UNCHANGED <<tab, own, up, trig, periodic, faults>>

(* Mutant: reads the sender's own header last. *)
IsNextOwnLast(d) ==
    LET r == reading.rest
    IN  d \in r /\ (r # {reading.from} => d # reading.from
                                          /\ \A x \in r \ {reading.from} : x <= d)

(* A header is read after those added to the packet later: the removed     *)
(* routes of a periodic update, the sender's own, then the others; within  *)
(* these, the greatest address first.                                      *)
IsNext(d) ==
    LET r == reading.rest
    IN  /\ d \in r
        /\ r \cap reading.gone # {} =>
             d \in reading.gone /\ \A x \in r \cap reading.gone : x <= d
        /\ r \cap reading.gone = {} =>
             d = reading.from \/ (reading.from \notin r /\ \A x \in r : x <= d)

(* The next header is read and the tables become t.  After the last header *)
(* a triggered update is scheduled.                                        *)
Read(d, t) ==
    LET n == reading.at
    IN  /\ tab' = [tab EXCEPT ![n] = t]
        /\ IF reading.rest = {d}
           THEN reading' = Idle /\ trig' = [trig EXCEPT ![n] = TRUE]
           ELSE /\ reading' = [reading EXCEPT !.rest = @ \ {d}]
                /\ UNCHANGED trig
        /\ UNCHANGED <<own, up, periodic, air, faults>>

(* What the branches of RecvDsdv look at: the header and the tables, with  *)
(* the main entry copied to the advertised table.                          *)
SeqNo(d)    == reading.hdr[d].seq
HopCount(d) == reading.hdr[d].hop
Here    == tab[reading.at]
Both(d) == WithAdvert(Here, d)
Adv(d)  == Both(d).adv[d]

Reads(d)  == Busy /\ IsNext(d) /\ d # reading.at
Known(d)  == Reads(d) /\ Here.main[d].on
Route(d)  == Known(d) /\ Even(SeqNo(d))      \* an update of a known route
Broke(d)  == Known(d) /\ ~Even(SeqNo(d))     \* a broken known route

ReadOwn(d) == Busy /\ IsNext(d) /\ d = reading.at /\ Read(d, Here)

ReadNew(d) == /\ Reads(d) /\ ~Here.main[d].on /\ Even(SeqNo(d))
              /\ Read(d, NewRoute(Here, d, SeqNo(d), HopCount(d), reading.from))

ReadUnknownBroken(d) == /\ Reads(d) /\ ~Here.main[d].on /\ ~Even(SeqNo(d))
                        /\ Read(d, Here)

(* Mutant: takes a worse metric with the same number. *)
ReadSettleAny(d) == /\ Route(d)
                    /\ SeqNo(d) >= Adv(d).seq /\ HopCount(d) # Adv(d).hop
                    /\ Read(d, Settle(Both(d), d, SeqNo(d), HopCount(d), reading.from))

ReadSettle(d) == /\ Route(d)
                 /\ \/ SeqNo(d) > Adv(d).seq /\ HopCount(d) # Adv(d).hop
                    \/ SeqNo(d) = Adv(d).seq /\ HopCount(d) < Adv(d).hop
                 /\ Read(d, Settle(Both(d), d, SeqNo(d), HopCount(d), reading.from))

ReadSameMetric(d) == /\ Route(d) /\ SeqNo(d) > Adv(d).seq /\ HopCount(d) = Adv(d).hop
                     /\ Read(d, SameMetric(Both(d), d, SeqNo(d), HopCount(d), reading.from))

ReadDuplicate(d) == /\ Route(d) /\ SeqNo(d) = Adv(d).seq /\ HopCount(d) >= Adv(d).hop
                    /\ Read(d, Duplicate(Both(d), d, reading.from))

ReadOld(d) == Route(d) /\ SeqNo(d) < Adv(d).seq /\ Read(d, Discard(Both(d), d))

ReadBroken(d) == /\ Broke(d) /\ Adv(d).nh = reading.from
                 /\ Read(d, Break(Both(d), d, SeqNo(d)))

ReadOtherBroken(d) == /\ Broke(d) /\ Adv(d).nh # reading.from
                      /\ Read(d, Discard(Both(d), d))

ReadHeader(d) ==
    \/ ReadOwn(d) \/ ReadNew(d) \/ ReadUnknownBroken(d)
    \/ ReadSettle(d) \/ ReadSameMetric(d) \/ ReadDuplicate(d) \/ ReadOld(d)
    \/ ReadBroken(d) \/ ReadOtherBroken(d)

-----------------------------------------------------------------------------
(* Data packets, time, interfaces *)

(* Mutant: schedules no update. *)
RouteOutputQuietly(n) ==
    LET gone == Purged(tab[n].main)
    IN  /\ ~Busy /\ up[n] /\ gone # {}
        /\ tab' = [tab EXCEPT ![n] = Announce(DropMain(@, gone), gone, Broken(@, gone))]
        /\ UNCHANGED <<own, up, trig, periodic, air, reading, faults>>

(* RouteOutput purges the main table.  What it removes is announced, except *)
(* where the advertised table has an entry already.                         *)
RouteOutput(n) ==
    LET gone == Purged(tab[n].main)
    IN  /\ ~Busy /\ up[n] /\ gone # {}
        /\ tab' = [tab EXCEPT ![n] = Announce(DropMain(@, gone), gone, Broken(@, gone))]
        /\ trig' = [trig EXCEPT ![n] = TRUE]
        /\ UNCHANGED <<own, up, periodic, air, reading, faults>>

Fault(k) == ~Busy /\ faults[k] < MaxFaults[k] /\ faults' = [faults EXCEPT ![k] = @ + 1]

(* The hold-down time passes without an update of the main entry.          *)
Age(n, d) ==
    /\ Fault("aged")
    /\ SlowTimers => Calm
    /\ tab[n].main[d].on /\ ~tab[n].main[d].old
    /\ tab' = [tab EXCEPT ![n].main[d].old = TRUE]
    /\ UNCHANGED <<own, up, trig, periodic, air, reading>>

(* A packet is lost in the air, or finds the socket of its receiver closed. *)
Lose(l) ==
    /\ air[l] # <<>>
    /\ IF up[l[2]] THEN Fault("lost") ELSE ~Busy /\ UNCHANGED faults
    /\ Deliver(l)
    /\ UNCHANGED <<tab, own, up, trig, periodic, reading>>

(* NotifyInterfaceDown: the only interface, so the main table is cleared   *)
(* and the advertised table and the timers are left as they are.           *)
InterfaceDown(n) ==
    /\ Fault("down") /\ up[n]
    /\ up' = [up EXCEPT ![n] = FALSE]
    /\ tab' = [tab EXCEPT ![n] = DropMain(@, Node)]
    /\ UNCHANGED <<own, trig, periodic, air, reading>>

(* NotifyInterfaceUp: a new socket and a new entry of the node itself.     *)
InterfaceUp(n) ==
    /\ ~Busy /\ ~up[n]
    /\ up' = [up EXCEPT ![n] = TRUE]
    /\ own' = [own EXCEPT ![n] = 0]
    /\ UNCHANGED <<tab, trig, periodic, air, reading, faults>>

Next ==
    \/ \E n \in Node :
         \/ SendTriggeredUpdate(n) \/ SendPeriodicUpdate(n) \/ PeriodicWhileDown(n)
         \/ RouteOutput(n) \/ InterfaceDown(n) \/ InterfaceUp(n)
         \/ \E d \in Node : SettlingTimeEnds(n, d) \/ Age(n, d)
    \/ \E l \in Link : Receive(l) \/ Lose(l)
    \/ \E d \in Node : ReadHeader(d)

Spec == Init /\ [][Next]_vars

(* Events the simulator has scheduled run; the handler reads to the end.   *)
Fairness == /\ WF_vars(\E d \in Node : ReadHeader(d))
            /\ \A n \in Node : WF_vars(SendTriggeredUpdate(n))
            /\ \A n, d \in Node : WF_vars(SettlingTimeEnds(n, d))

FairSpec == Spec /\ Fairness

-----------------------------------------------------------------------------
(* Properties *)

(* Tables, packets and the handler hold what the C++ types allow, and      *)
(* next hops are nodes (dsdv-rtable.h).                                    *)
TypeOK ==
    /\ tab \in [Node -> Tables]
    /\ own \in [Node -> Nat]
    /\ up \in [Node -> BOOLEAN] /\ trig \in [Node -> BOOLEAN]
    /\ periodic \in [Node -> BOOLEAN]
    /\ DOMAIN air = Link
    /\ \A l \in Link : \A i \in DOMAIN air[l] :
         LET p == air[l][i]
         IN  /\ p.from = l[1] /\ DOMAIN p.hdr \subseteq Node /\ p.gone \subseteq DOMAIN p.hdr
             /\ \A d \in DOMAIN p.hdr : p.hdr[d] \in Header
    /\ Busy => /\ <<reading.from, reading.at>> \in Link
               /\ reading.rest \subseteq DOMAIN reading.hdr
               /\ DOMAIN reading.hdr \subseteq Node
               /\ \A d \in DOMAIN reading.hdr : reading.hdr[d] \in Header
    /\ faults \in Faults

(* The assertion in SendTriggeredUpdate (line 852): an advertised entry    *)
(* that cannot be sent now has a settling event on record.  Otherwise the  *)
(* entry stays in the table for ever, and a debug build stops.             *)
UnsentHasEvent ==
    \A n, d \in Node :
      LET t == tab[n]
      IN  t.adv[d].on /\ (~t.adv[d].changed \/ Settling(t, d)) => t.event[d] # "none"

(* No route has been forgotten: what one node tells another remains true.  *)
(* (An entry that ages may be purged; an interface that goes down clears   *)
(* the main table.)                                                        *)
NothingForgotten == faults.aged = 0 /\ faults.down = 0

(* As long as no interface restarts, no table and no packet has a number   *)
(* for a node that this node has not reached; a broken route is one ahead. *)
(* Numbers only come from SendPeriodicUpdate (line 917) and from the three *)
(* places that add one for a broken route.                                 *)
Reached(d, s) == s <= own[d] + (s % 2)
NoFutureNumber ==
    faults.down = 0 =>
      /\ \A n, d \in Node : /\ Reached(d, tab[n].main[d].seq)
                            /\ Reached(d, tab[n].adv[d].seq)
      /\ \A l \in Link : \A i \in DOMAIN air[l] :
           \A d \in DOMAIN air[l][i].hdr : Reached(d, air[l][i].hdr[d].seq)
      /\ \A d \in DOMAIN reading.hdr : Reached(d, reading.hdr[d].seq)

(* RouteOutput and RouteInput send a packet for d by the entry of the next *)
(* hop of d, and LookForQueuedPackets (line 1138) does so without looking  *)
(* at the result of this second lookup.  While no route is forgotten the   *)
(* entry is there.                                                         *)
NextHopHasRoute ==
    NothingForgotten =>
      \A n, d \in Node : tab[n].main[d].on => tab[n].main[tab[n].main[d].nh].on

(* Next hops towards one node form no cycle: there is no set of nodes each *)
(* of which leads to another.  This although the next hop changes before   *)
(* the number does (SameMetric) and the new number may be dropped again.   *)
Cycle(S, d) ==
    S # {} /\ d \notin S /\ \A n \in S : tab[n].main[d].on /\ tab[n].main[d].nh \in S
LoopFree == NothingForgotten => \A d \in Node, S \in SUBSET Node : ~Cycle(S, d)

(* As long as the interface stays up, every advertised entry leaves the    *)
(* table (is sent, merged or dropped): no entry waits for a timer that     *)
(* does not run.                                                           *)
AdvertsLeave ==
    \A n, d \in Node : tab[n].adv[d].on ~> ~tab[n].adv[d].on \/ faults.down > 0

(* "It has to accept the update if the sequence number of the update       *)
(* message is higher" (dsdv.rst): what a node has accepted about a route   *)
(* that it keeps is not forgotten again, that is, the greater of the two   *)
(* numbers it has for it does not decrease.                                *)
Latest(t, d) == IF t.adv[d].on /\ Even(t.adv[d].seq) /\ t.adv[d].seq > t.main[d].seq
                THEN t.adv[d].seq ELSE t.main[d].seq
AcceptedIsKept ==
    [][\A n, d \in Node : tab[n].main[d].on /\ tab'[n].main[d].on
                            => Latest(tab'[n], d) >= Latest(tab[n], d)]_vars
=============================================================================
