# Verification of the MANET routing protocols

The repository is an ns-3 distribution with a study of four ad-hoc routing
protocols (AODV, DSDV, OLSR, DSR): scenario scripts in `src/scratch/my_*.cc`,
plotting and animation scripts, and the protocols themselves under
`src/src/{aodv,dsdv,olsr,dsr}`. This directory holds TLA+ models of the protocols,
the TLC configurations that check them and TLAPS proofs of the results that
matter most.

Below, `rp` is `src/src/aodv/model/aodv-routing-protocol.cc`, `dp` the file
`src/src/dsdv/model/dsdv-routing-protocol.cc`, `op` the file
`src/src/olsr/model/olsr-routing-protocol.cc`, and a number after one of them is a line.

## 1. The system

### Components

| Component | State | Operations | Hard behaviours | What makes it correct |
|---|---|---|---|---|
| AODV routing table (`aodv-rtable.*`) | entries: flag, valid-seqno flag, seqno, hops, next hop, precursors, RREQ count, lifetime, blacklist | AddRoute, Update, DeleteRoute, Purge, InvalidateRoutesWithDst, precursor lists | handlers copy an entry, change the copy, write it back; Purge runs inside every lookup | next hops and precursors are neighbours; sequence numbers are true |
| AODV protocol (`aodv-routing-protocol.*`) | table, queue, own seqno and request id, id cache, neighbour list, RREQ/RERR counts, timers | RecvRequest, RecvReply, RecvReplyAck, RecvError, ProcessHello, RouteInput/Forwarding, RouteOutput/DeferredRouteOutput, SendRequest, timers, Notify* | messages cross, are lost and reordered; every message first updates the route to its sender; neighbours time out in the middle of a handler | loop freedom, no future sequence numbers, bounded floods, no abandoned search or packet |
| AODV request queue (`aodv-rqueue.*`) | packets with an expiry time | Enqueue, Dequeue, DropPacketWithDst, Purge | full queue, timeouts, several destinations | each packet sent or dropped, once |
| AODV id cache, neighbours (`aodv-id-cache.*`, `aodv-neighbor.*`) | sets with expiry times | IsDuplicate; Update, Purge, ProcessTxError | Update purges and calls back into the protocol | duplicates recognised; a lost link invalidates routes |
| DSDV tables and protocol (`dsdv-rtable.*`, `dsdv-routing-protocol.*`) | permanent and advertised table, settling events, own number, periodic timer | RecvDsdv, SendTriggeredUpdate, SendPeriodicUpdate, MergeTriggerPeriodicUpdates, Purge, NotifyInterfaceDown/Up | two tables updated separately but for the next hop, which they share; settling timers; odd numbers for broken routes | no loops, no number ahead of its owner, every advertised entry leaves |
| DSDV queue (`dsdv-packet-queue.*`) | packets with an expiry time | Enqueue, LookForQueuedPackets | packets sent later with a route found earlier | next hops have routes |
| OLSR relays and flooding (`olsr-routing-protocol.*`, `olsr-state.*`) | 2-hop set, relays, duplicate set, queued messages | MprComputation, ForwardDefault, SendQueuedMessages | a greedy choice in five steps; a message first heard from the wrong neighbour | relays cover, floods reach all, once |
| OLSR link sensing and routes (same files) | link, neighbour, 2-hop, selector, topology, duplicate sets, ANSN, table | HELLO and TC processing, RoutingTableComputation, NeighborLoss, tuple timers | every set has its own expiry; one-way links; links that appear and break | only two-way links used; in the end shortest routes |
| OLSR associations (same files) | association set, HNA routing table | ProcessHna, AssociationTupleTimerExpire, Add/RemoveHostNetworkAssociation, RoutingTableComputation | routes kept from one computation to the next | routes as current as the table |
| DSR protocol (`src/src/dsr/model`) | route cache, send, maintenance and error buffers, request table, network queues | discovery, source routes, salvage, link, passive and network acknowledgements | retransmissions against late acknowledgements | source routes are loop free; packets leave the buffers |
| Headers of the four protocols | (fields) | serialisation | none | round trip |
| Helpers, scenarios, plots (`scratch/my_*.cc`, `*.py`) | none, or one-shot | install protocols, place nodes, draw | none | |
| Simulator, IPv4, Wi-Fi | the rest of ns-3 | events, frames | | seen by the models as environment |

`PROJECT.json` lists them with the files of each, and all the hazards we know of at
the lines where they bite.

### How the parts of AODV interact

IPv4 calls `RouteOutput` for local packets and `RouteInput` for received ones. Without
a valid route, `RouteOutput` sends the packet to the loopback device. It comes back as
input to `DeferredRouteOutput`, which queues it and, unless a search is on, calls
`SendRequest`. `SendRequest` writes the table entry (IN_SEARCH, the ring's TTL in its
hop count), numbers the request, broadcasts it and starts the retry timer of the
destination; above the rate limit it schedules itself again instead. `RecvAodv` calls
`UpdateRouteToNeighbor` for the sender of *every* message and then the handler.
`RecvRequest` answers (`SendReply`, `SendReplyByIntermediateNode`) or relays;
`RecvReply` updates the route, relays or, at the origin, cancels the timer and empties
the queue; `RecvError` and `SendRerrWhenBreaksLinkToNextHop` invalidate routes and tell
precursors. `Neighbors` calls the latter back when a link closes, also from inside
`Neighbors::Update`, that is in the middle of a handler. The simulator is
single-threaded: handlers do not interleave, except through such callbacks, but
events, frames and timers come in any order the delays allow.

### How the parts of DSDV interact

A node broadcasts headers (destination, number, hop count): all of its main table
periodically, what has changed when triggered. `RecvDsdv` reads a packet header by
header. An update with a better number and another metric goes into both tables and
starts the settling timer of its destination; one with the same metric goes into the
advertised table only, although its next hop reaches the main table at once because
entries share their `Ipv4Route`; everything else is copied or discarded. After the last
header a triggered update is scheduled. `SendTriggeredUpdate` and the merge inside
`SendPeriodicUpdate` take what has settled out of the advertised table and write it
back into the main one. A route that has aged out, or whose next hop announces it as
broken, leaves the main table with an odd number and takes with it the routes that lead
to it. When the interface goes down the main table is cleared, the advertised one is not.

### How the parts of OLSR interact

HELLO messages tell each node which links work in both directions and who its 2-hop
neighbours are; each HELLO received makes it choose its relays anew
(`MprComputation`), and the next HELLO sent tells them. A node chosen by somebody sends
TC messages with the set of those that chose it; relays pass TC messages on, once.
After every packet `RoutingTableComputation` builds the table from neighbours, 2-hop
tuples and topology tuples. Every tuple has its own timer; only the timer of a link
(`LinkTupleTimerExpire`, `NeighborLoss`) computes relays and table again. HNA messages
fill the association set, from which the same computation derives routes to networks.

## 2. Modules

| Module | Models |
|---|---|
| `AodvTable` | the AODV routing table and the pure rules by which handlers rewrite it |
| `AodvRing` | TTL and counting of requests (expanding ring), shared by the two AODV specifications |
| `AodvRouting` | a network of AODV nodes: all handlers, floods, replies, errors, hellos, link failures, data packets |
| `AodvBuffer` | abstract: a packet is taken, perhaps held, then sent or dropped, once |
| `AodvDiscovery` | one AODV source: queue, loopback detour, timers, retries, RREQ rate limit; the network is its environment |
| `DsdvTable` | the two tables and the settling events of a DSDV node, and the rules that rewrite them |
| `DsdvRouting` | a network of DSDV nodes: updates sent, packets read header by header, ageing, interfaces down and up |
| `OlsrMpr` | the choice of relays, in its steps and as the set of its possible results |
| `OlsrFlood` | a network at rest: the choices, then TC messages flooded over the relays, on every graph |
| `OlsrRouting` | OLSR nodes from the first HELLO on: link sensing, selectors, TC, routing table, expiry, links that change |
| `OlsrHna` | associations and routes to networks at one node |
| `MCAodvRouting`, `MCAodvDiscovery`, `MCDsdvRouting`, `MCOlsrFlood`, `MCOlsrRouting` | topologies, flows, budgets and the like for TLC |
| `AodvRoutingProofs` | lemmas about the AODV table operators; `TypeCorrect`, `RoutesInRange`, `NoRouteThroughTheLost` |
| `AodvSequenceProofs` | `NobodyAhead`, `OnlyRequestsMoveNumbers` |
| `AodvSearchProofs` | `FloodsAreBounded`, `RequestsIdentified`, `NodesFloodOnce`, `SearchesPursued`, `PacketsPursued` |
| `AodvDiscoveryProofs` | `DiscoveryTyped`, `RetriesDefined`, `RetriesAloneStop`, `FittingPacketsPursued`, `PacketsPursued`, `DiscoveryImplementsBuffer` |
| `DsdvProofs` | `TypeCorrect`, `EventsRecorded`, `NumbersReached`, `NextHopsKnown`, `NoLoops` |
| `OlsrMprProofs` | `RelaysOfAnyView`, `RelaysAlwaysFound`: the choice of relays on any view |
| `OlsrFloodProofs` | `FloodTypes`, `RelaysCover`, `RelaysOnce`, `RelaysReachAll`, `MostWillingFirst`, `ChoiceGoesOn` |
| `OlsrRoutingProofs` | `RoutingInvariance`, `RoutingTypes`, `LinksBothWays`, `SendEntries` |

### AodvRouting and the code

`rt[n]` is node n's `m_routingTable`, a function from destinations to entries in which
the flag `NONE` means that the map has no entry. `seqNo`, `reqId`, `seen`, `nb` and
`rerrCount` are `m_seqNo`, `m_requestId`, `m_rreqIdCache`, `m_nb` and `m_rerrCount`.
`loop` and `waiting` hold the destinations of the packets at the loopback device and in
`m_queue`; `timer` the destinations whose timer in `m_addressReqTimer` runs; `rreqCount`
is `m_rreqCount`, and `deferred` counts the calls of `SendRequest` for each destination
that the rate limit has put off (`rp` 1037). `rreq`,
`rrep`, `rerr`, `ack` and `data` are the frames in flight, one record per receiver: no
order, and a record that is never received is a lost frame. `sent` and `faults` only
count against bounds.

Each action is one event with everything its handler does: `RecvRequestAsDestination`,
for example, is `RecvAodv` (route to the neighbour), the duplicate test, the reverse
route, the entry of the previous hop, `m_nb.Update` with the callback it may cause, and
`SendReply`. Handlers that write back stale copies of entries are modelled with those
copies (`PassReply`, where the origin's entry written last is the one read first).
A control frame sent to a next hop for which there is no VALID entry comes back through
the loopback device, so the node ends up searching for that neighbour; `Unrouted` adds
it to `loop`.

`SendRequest(n, d, pending, running)` is the code's function with its early return: at the
limit it changes nothing but the list of calls put off. It is called for packets
(`DeferredRouteOutput`), by the retry timer and by the calls put off
(`SendDeferredRequest`). `FloodRequest` is the part after the return.

`Lost(n, new)` stands for the purge in `Neighbors::Update`: a neighbour may be lost at
that point of the handler, after the table has been rewritten and before the reply is
built. `ProcessHello` updates the neighbours only where `EnableHello` is set (`rp` 1822);
in the runs the receivers of hellos have it off, so that a neighbour added or lost
there is covered by the proofs only.

### AodvDiscovery and the code

`route` is the flag, hop count, RREQ count and device of each destination; `queue` is
`m_queue`, a function from the packets that wait to the number of packets queued after
each, which gives their order; `deferred` the list of pending `SendRequest` calls scheduled by line 1037 of
`rp`; `rreqCount` is `m_rreqCount`; `out` and `dropped` record what became of each
packet. A reply may come for any destination, whether the node has asked for it or not: a
gratuitous reply (`rp` 1593–1609) tells a node of a route it never searched for, and
also empties the queue. Every queue operation first purges the packets that have timed out: all wait equally
long (`MaxQueueTime`), so those are the oldest ones (`Outdated`, all such sets). `SendPacketFromQueue`
returns at the first packet whose output device does not match, as line 2027 does.
Replies, routes learnt from other messages and lost routes are the environment's
choices. The refinement maps the place of a packet to the status of `AodvBuffer`.

### DsdvRouting and the code

`tab[n].main`, `.adv` and `.event` are `m_routingTable`, `m_advRoutingTable` and the
events of the latter. Copying a `RoutingTableEntry` copies a pointer to its `Ipv4Route`,
so that `SetNextHop` on the advertised entry also changes the main one as long as both
are copies of the same entry: the field `shared` says whether they are.
`RecvDsdv` is one call of the program; the model takes a step per header (`reading`, no
other action is enabled meanwhile), in the order in which ns-3 removes headers, the last
added first: removed routes, the sender's own, then the rest from the greatest address
down. The sender's own header being read before the routes through it is what
`NextHopHasRoute` rests on. `trig` stands for all the calls of `SendTriggeredUpdate` that are
scheduled: when the first has run, the others find nothing to send. `own` is the number
in the entry of the broadcast address, which a restart of the interface sets back to 0.
`SlowTimers` restricts periodic updates and ageing to moments when nothing is under way
(`Calm`), as intervals of tens of seconds against milliseconds do.

### The OLSR modules and the code

`OlsrMpr` has the steps of `MprComputation` as operators on a view (neighbours, 2-hop
tuples, willingness). Where the order of a set decides, all outcomes are allowed.
`OlsrFlood` takes those steps one by one (`step`, `left` is the local variable N2) and then
floods; a node sends all its queued messages in one packet, and all its neighbours
process it in the same step, because queued messages are sent after a jitter that is far
longer than the way through the air. Messages are their keys in the duplicate set.

`OlsrRouting` keeps in `st[n]` the link state of each neighbour (the three times of a
link tuple reduced to which of them has passed), the neighbour tuple, the 2-hop, relay,
selector, topology and duplicate sets, `m_ansn`, `m_linkTupleTimerFirstTime` and the table. An operator per
handler gives the set of states it can lead to. The hold times are three intervals, so a
tuple expires when its renewals have stopped for good (`Renewals` looks at what the
neighbour says now and what it has queued); it is removed in one step with its timer, which
runs a microsecond later. The HELLO timers of all nodes run as a round, when the HELLOs
of the last round are gone, and so do the TC timers. `ansn = 0` stands for the initial 65 535.

`OlsrHna` keeps the association set and the HNA routes in their order, since the loop
that clears the routes depends on it; the rest of OLSR supplies any table.

## 3. Properties and runs

Every property of a passing run has a mutant, a plausible bug in one mapped
definition, under which the same run fails.

| Run | Instance | Properties | Distinct states |
|---|---|---|---|
| `aodv_line` | A–B–C, two packets A to C, two requests, one per second, two faults, timers slower than frames | `NextHopInRange`, `TypeOK`, `NoFutureSeq`, `QueuedIsPursued`, `SeqOnlyByRequest`, `LostNeighbourUnused` | 266 443 |
| `aodv_triangle` | A, B, C all in range, E out of reach, flow C to E, two requests of C, one per second, hellos of A, frames in any order | `RequestIdentity`, `RingBound`, `SearchIsPursued`, `FloodOnce` | 261 828 |
| `discovery` | three packets, two of them for one destination, a queue of two, one request per second, retries, queue timeouts | `TypeOK`, `QueuePursued`, `ImplementsBuffer`, `EveryPacketSettled`, `RetryDefined`, `RetriesStop` | 167 470 |
| `dsdv_line` | 1–2–3, one lost packet, one aged route, one interface down and up | `TypeOK`, `UnsentHasEvent`, `NoFutureNumber`, `AdvertsLeave` | 69 751 |
| `dsdv_triangle` | 1, 2, 3 all in range, two periodic updates of 1, no fault | `NextHopHasRoute`, `LoopFree` | 960 264 |
| `olsr_flood` | all 1024 graphs on five nodes, mixed willingness, two messages | `TypeOK`, `MprCovers`, `WillingFirst`, `FloodOnce`, `FloodReachesAll`, `SelectionEnds` | 65 806 |
| `olsr_links` | line of four with a one-way link, line of three with a link that breaks, triangle whose last link comes late | `TypeOK`, `OnlyTwoWay`, `SendEntryFound`, `RoutesSettle`, `SelectorsSettle` | 192 243 |

AODV:

- `NextHopInRange`: routes in use, routes that were in use, routes whose number a
  request quotes, and all precursors lead to neighbours. Copies written back after a
  search began or a link broke could undo this.
- `NoFutureSeq`: no entry and no message carries a number its owner has not reached.
  The handlers copy numbers between originator, previous hop, destination and request;
  the one questionable copy (the originator's number in the previous hop's entry, `rp`
  1406–1437) is harmless because it is marked invalid, and the property shows that
  nobody drops the mark.
- `LostNeighbourUnused`: `Neighbors::Update` may lose a neighbour in the middle of a handler
  that has copied entries and will write them back. When the handler ends, no VALID
  route leads through the neighbour it took off the list, if that neighbour had an
  entry of its own (without one, `rp` 2047 returns and its routes stay). The mutant
  copies the entries of `SendReplyByIntermediateNode` too early.
- `SearchIsPursued`, `QueuedIsPursued`: an IN_SEARCH entry is never purged and never
  searched again by `DeferredRouteOutput`, so it must have its retry timer or a call of
  `SendRequest` that the rate limit has put off; so must a packet that waits. The timer
  alone is not enough: the retry at `rp` 1918 may find the limit reached and leave an entry
  under search without a timer until the call put off runs.
- `RingBound`, `RequestIdentity`, `FloodOnce`: floods stay within the widest ring (the larger
  of `NetDiameter` and `TtlThreshold`), ids identify requests, and a node transmits
  each request once.
- `SeqOnlyByRequest`: the increment in `SendReply` (`rp` 1528) is never taken as long as
  no node loses its number; it would need a request that quotes a future number.
- `QueuePursued` (`discovery`): in the presence of retries, evictions and the rate limit,
  no packet is left without a timer or a pending request.
- `EveryPacketSettled`: each packet is sent or dropped in the end, *unless the request
  count of its destination has passed `RreqRetries`*. The exemption is needed. Two
  packets of one destination that come back from the loopback device while the limit is
  reached put off two requests; both count when they are sent, the count steps over
  `RreqRetries`, the `==` of `rp` 1903 never matches again and the search goes on for ever, with
  twice the interval each time, although the comment at `rp` 1897–1902 has the packets
  dropped after `RreqRetries` attempts. The run reaches this state (hence two packets of one
  destination), and without the exemption TLC finds the property violated.
- `RetriesStop`: a count passes `RreqRetries` only in a step that makes a call put off by the
  rate limit. The retry timer alone, whatever routes are learnt, lost or overwritten
  during the search, never takes it there: with the property above, this is what is left of
  the promise of `rp` 1897–1902.
- `RetryDefined`: with `TtlThreshold` at most `NetDiameter`, as in the defaults (7 and 35),
  `ScheduleRreqRetry` never reaches its `NS_ABORT_MSG_UNLESS`. Nothing in the code enforces
  the condition. With, say, `NetDiameter` 4 and the threshold left at 7 a search sends
  TTLs 1, 3 and 5: it steps over the diameter without being counted, and the program
  aborts at `rp` 1185.
- `ImplementsBuffer`: a packet is in one place only, never sent twice or after it was
  dropped, and a route releases only its own packets.

DSDV:

- `UnsentHasEvent`: the assertion of `SendTriggeredUpdate` (`dp` 852) never fails; entries
  whose event has fired, was deleted or belongs to the other table could break it.
- `NoFutureNumber`: as long as no interface restarts (which sets `own` back to 0), no
  table and no packet has a number its owner has not reached; the odd numbers of broken
  routes count as their owner's.
- `AdvertsLeave`: an advertised entry is sent, or dropped, in the end: every path that
  changes the advertised table schedules something that empties it.
- `LoopFree`, `NextHopHasRoute`: under `NothingForgotten` (no route has aged, no
  interface went down) next hops towards a node form no cycle, and the next hop of every
  route has an entry, on which the unchecked lookup of `LookForQueuedPackets` (`dp` 1163)
  relies. Once a route ages the two-table protocol does count to infinity; TLC finds it
  at once when the hypothesis is dropped.

OLSR:

- `MprCovers`, `SelectionEnds`: at each step of `MprComputation` the relays chosen so far
  cover the 2-hop neighbours that have left N2; and the `while` loop of step 4 ends.
- `WillingFirst`: the comment of step 4.2 (`op` 911) wants the relay of highest willingness.
  Said of the result and not of the step: a relay that is not the only way to some 2-hop
  neighbour has no more willing neighbour left out that would reach anything the other
  relays do not cover. It depends on N2 being exactly what is not covered when
  step 4 compares, so a tuple that step 3 fails to erase (`op` 847) or erases too early
  would break it; the mutant takes any neighbour that covers something.
- `FloodReachesAll`, `FloodOnce`: a message reaches every node that a path of willing
  nodes leads to, although a node that hears it first from a neighbour that did not
  choose it never relays it; and nobody relays it twice.
- `OnlyTwoWay`: links that are used, relays and 2-hop tuples all belong to links that
  work, or have worked, in both directions.
- `SendEntryFound`: the next hop of each route has an entry of its own, of one hop;
  `RouteOutput` and `RouteInput` stop the program otherwise.
- `RoutesSettle`, `SelectorsSettle`: once links have come to rest, every table in the end
  holds shortest routes to the nodes that can be reached over two-way links, and nodes
  agree about who relays for whom.

Runs that end in a violation, each a disagreement between code and documentation:

| Run | Property | What the code does |
|---|---|---|
| `aodv_loop` | `LoopFree` | Without loss or failure, B (route to C VALID) sends a request for C because its packet was already at the loopback device; by way of E the request reaches A, whose route to C leads through B. The test at `rp` 1452 compares with the frame's sender E only, A answers, and B, A and E form a cycle of VALID routes. |
| `discovery_oif` | `QueuePursued` | `rp` 2027 returns from the loop over the queue: packets behind one with another output device are left with no timer and no request. |
| `dsdv_lost_update` | `AcceptedIsKept` | `dp` 687–693 writes a better number with the same metric to the advertised table only; an older update read before the next transmission deletes it there (`dp` 757). |
| `olsr_loss` | `LossIsNoticed` | `op` 2679: one flag for all links swallows the first expiry of a link, and removing its tuple later computes nothing: the route over it stays. |
| `olsr_hna` | `NetworkRoutesAreCurrent` | `op` 1231: the loop that clears the routes to networks counts up against a number that goes down, and stops half way, when the first half of them is gone. |

`QueuePursued` holds in `discovery`, where all sockets are unbound, and fails in
`discovery_oif`, where one is bound to a device; the device is the whole difference.

Observations without a run: the count that has passed the retry limit (above) grows with
each retry, is shifted by (`rp` 1188) and has 8 bits; `m_rerrCount` grows on one
of three paths (`rp` 2186), so more errors than the limit leave a node in a second; a late
reply replaces an IN_SEARCH entry whatever its number (`rp` 1712), against the four
conditions listed at `rp` 1677; `rp` 2047 returns if a lost neighbour has no entry of its
own any more, and routes through it stay VALID; the comment at `rp` 1353 wants the
previous hop's entry without a valid number, and when the originator itself is the
previous hop, `rp` 1416 also clears the flag that the reverse route has just set; 16-bit
ANSNs of OLSR are compared without regard to wraparound (`olsr-state.cc` 375). The models
have each of these behaviours but the first (section 5) and the last.

### Bounds, and why they are enough

- AODV, `MaxSeq` (requests each node originates): two suffice for a stale number next to
  a fresh one and for a second flood that meets the first. `RreqRateLimit` 1 makes the limit
  bite at the second request. `MaxPackets`, flows: two packets give one that searches and one that finds a
  route or comes after the route was lost; `aodv_loop` needs two sources.
  `MaxFaults` (expiries, link failures and neighbours lost in a handler, together):
  VALID to INVALID to removed takes two. In `aodv_triangle` no fault is needed: the subject
  is floods in every order. `TtlStart`, `TtlThreshold` and `NetDiameter` are
  scaled down (defaults 1, 7, 35) with each branch of the TTL computation still taken.
- `discovery`: a queue of two for three packets and one request a second make both
  limits bite; two packets of one destination put off two requests for it; one foreign
  message (`MaxHeard`) brings a route during a search.
- DSDV, `MaxPeriod`: a second periodic update of one node meets the triggered updates of
  the first; `MaxHop` is the metric at which a route counts as too long; `MaxFaults`
  gives one fault of each kind, in every order.
- `olsr_flood`: five nodes are the fewest on which greedy choice, redundancy and
  two different sets of relays on one flood occur; all graphs are initial states.
- `olsr_links`: the networks are chosen for what changes in them (a link that is never
  two-way, one that breaks, one that appears); `MaxAnsn` is never reached. `MsgId` has
  one element: a node's next TC waits until the last is forgotten everywhere.
- Every safety property of the passing runs is also proved for all values of the
  constants (section 4), so for those the bounds only matter to the mutants; the liveness
  properties rest on the bounds above.

Sequence numbers do not wrap in the models: it takes 2^31 requests or updates of one
node. `CHECK_DEADLOCK FALSE` is set where it is because packets, requests and updates are
bounded: when they are used up the network comes to rest.

### Fairness

- `AodvDiscovery`: weak fairness for the events the simulator has itself scheduled and
  therefore always runs: a packet at the loopback device, a retry timer, a deferred
  `SendRequest`, the rate limit timer. Receiving a reply, hearing another message and
  losing a route are never fair: `EveryPacketSettled` holds in a network that never
  answers, and with routes that come and go. The deferred call alone is strongly fair,
  for it is disabled each time the limit is reached. The limit is lifted every second and the call
  comes 100 microseconds later, so it could be late for ever only if another request
  were sent in each of those windows; packets are finitely many, and a search that goes on
  for ever sends its requests at ever longer intervals.
- `DsdvRouting`, `FairSpec`: a packet that is being read is read to its end, a scheduled
  triggered update is sent, a settling timer fires. Receptions and periodic updates are
  not fair.
- `OlsrFlood`, `FairSpec`: `MprComputation` runs on, queued messages are sent.
- `OlsrRouting`, `FairSpec`: HELLO and TC timers run again and again, queued messages are
  sent, expired tuples are removed. `TimedSpec` says the same in the form that TLC
  checks faster (`[]<>~Due` for each event that can fall due): it is equivalent as long
  as an event that is due can only stop being so by happening or by a renewal. The
  network itself promises nothing but that links stop changing, which the premise of
  `RoutesSettle` states.

Everywhere else weak fairness is enough because a scheduled event stays enabled until it
runs.

## 4. Proofs

The assumptions on the constants are named: `NoNodeAssumption`, `RingAssumption` (types, and
`TtlStart` at most `NetDiameter`, without which `DoInitialize` aborts), `LinkAssumption` (radio range is symmetric
and irreflexive), `FlowAssumption` (nobody sends to itself), `ParameterAssumption` and
`DiscoveryAssumption` (types, and a queue that holds at least one packet) for AODV; `NodeAssumption` (addresses are positive numbers), `LinkAssumption`,
`BoundAssumption` for DSDV; `FloodAssumption` and `RoutingAssumption` (finitely many
nodes, nobody in range of itself, only links of the network come up late) for OLSR. The
bounds `MaxSeq`, `MaxPackets`, `MaxFaults`, `MaxHeard`, `MaxPeriod`, `MaxTc`, `MaxAnsn` are
arbitrary numbers in them.

AODV:

- `TypeCorrect`, `RoutesInRange`. The two properties are not inductive: a table is only as
  good as the messages written into it. `RangeInv` adds that every routing message comes
  from a node in range of its receiver, which makes its sender a legal next hop, that a
  hello comes from the node it is about (`ProcessHello` takes the destination of the
  message, not its sender, as the next hop), and that no node searches for itself, so
  that no other reply looks like a hello. One lemma per action says that it keeps
  `RangeInv`; the lemmas about the table operators come first in `AodvRoutingProofs`.
- `NobodyAhead`, `OnlyRequestsMoveNumbers`. `SeqInv` is `RangeInv` and honesty of tables,
  requests and replies: numbers are at most their owner's current one. `SendReply`'s
  test for the next number is then never true for its own node, which gives the second
  theorem.
- `NoRouteThroughTheLost`: an action property, from `RangeInv`. Whatever a handler writes
  before it loses x, `SendRerrWhenBreaksLinkToNextHop` invalidates what leads through x; the
  proof shows for each handler that what is written afterwards is read afterwards.
- `FloodsAreBounded`: `RingInv`. `RequestTtl` never exceeds `WidestRing` whatever the hop
  count in the entry, and a relay trades a hop for a unit of TTL.
- `RequestsIdentified`, `NodesFloodOnce`: `FloodInv` adds `SeenBounded`, that no id is known
  anywhere which its originator has not yet used, so a new request is new to everybody.
- `SearchesPursued`, `PacketsPursued`: `TimerInv`. The lemmas `NoSearch...` say that every
  table operation other than `SearchEntry` starts no search; the timer is cancelled only
  where the entry written is VALID and the queue has been emptied; a call of `SendRequest`
  leaves either the timer or one more call put off, and a call put off is only taken
  from the list by making it.
- `DiscoveryTyped`: the two limits that the code tests with `==` (`MaxQueueLen`, the requests
  of a second) are kept, because a packet or request is added only after the test and one
  at a time. `RetriesDefined` assumes `TtlThreshold <= NetDiameter` and says that then
  a request is either counted or has a hop count below `NetDiameter`; the hypothesis belongs
  to the theorem and not to `RingAssumption`, since the program does not enforce it.
- `RetriesAloneStop`, for `RreqRetries > 0`: the retry timer calls `SendRequest` only if the count
  is not `RreqRetries`, `DeferredRouteOutput` only for an entry that is not under search,
  whose count is 0 (the proof's invariant), and no message raises a count.
- `FittingPacketsPursued`, `PacketsPursued`: `PursuitInv`. `QueuePursued` is not inductive,
  for the release of the queue may leave packets behind (`discovery_oif`) and the search may be
  taken away by other messages. The invariant adds that a destination under search is
  itself pursued (its timer runs or its request is put off), that routes have a real
  device, and it states the property for destinations all of whose packets fit every
  device. `PacketsPursued` is the case that all do, which is what `discovery` instantiates
  and what the study scenarios do, where no socket is bound to a device.
- `DiscoveryImplementsBuffer`: a refinement by steps. `Apart` (what is sent, dropped,
  queued, at the loopback device or not yet taken are five different sets of packets) makes
  the mapping `Status` a function of one place per packet; then each action is a `Hold`, a
  `Settle` of one destination, or a stutter of `AodvBuffer`.

DSDV:

- `TypeCorrect`, `EventsRecorded`, `NumbersReached` follow from one invariant, `DInv`. To
  the types it adds what distinguishes the two tables (which entries may be shared, that
  an entry of the advertised table that is not ready has an event), and honesty of the
  main table, the advertised table, packets and the header being read.
- `NextHopsKnown`, `NoLoops`. Call an entry better than another for the same node if its
  number is greater, or equal with fewer hops. The invariant says that what a packet
  tells is no better than what its sender still has, and that a node's next hop has a
  better entry than the node itself. On a cycle of next hops there would then be an
  entry without a better one: the relation is well founded on the finite set of pairs
  (number, hops) that nodes may have, so a cycle has a minimal element
  (`WFMin`, from the library's theory of well-founded relations), whose next hop
  contradicts it. An entry that is shared between the tables is where the argument
  is delicate: a next hop that changes early must already have the better entry.

OLSR flooding:

- `FInv` = `TypeOK`, `MprCovers`, and the parts `Choices` (nothing is left in N2 for a node
  that has finished, and there are no messages before all have), `Books` (what a node has
  queued or sent is its own or known to it), `Origins` (a message exists because its
  node has queued it), `Spoken` (who has sent a message has told its neighbours) and
  `Promised`: a node that misses a message which a willing neighbour has heard has a
  neighbour that is about to send it. `Promised` is what makes `FloodReachesAll`
  inductive. Its one hard case is the neighbour that hears the message first from a
  node that did not choose it: then the sender's relays, by `MprCovers`, include one
  next to the node in question, and that one either queues the message now or knew it.
- `MostWillingFirst`: `WInv` adds to the types that N2 is *exactly* what the relays so far do
  not cover (`LeftIs`), and states the order for the relays so far. A preferred neighbour
  has no more willing rival of reachability above 0, so by exactness whatever a more
  willing one reaches is covered, and not by the new relay; an only provider in
  N2 is by exactness the only way at all; nobody is more willing than ALWAYS.
- `ChoiceGoesOn`: there always is a preferred neighbour, and N2 shrinks.

The choice of relays on any view, not only those of a network at rest:

- `RelaysOfAnyView`, `RelaysAlwaysFound`. `FurtherRelays` is defined by recursion on
  sets; that it is defined at all is proved by building it up by cardinality, and the two
  theorems by a smallest counterexample (`Minimum`), since the induction theorems of
  the library cannot be used. The one delicate fact is that `Uncovered`, which takes a
  tuple out with all others to the same 2-hop node, never removes a tuple whose node no relay is next to.

OLSR link sensing and routing table:

- `RoutingInvariance`: one invariant, `RInv`, from which `RoutingTypes`, `LinksBothWays` and
  `SendEntries` follow. The three properties speak of the state of a node, but the state
  is made from messages: `RInv` says of every queued HELLO that it speaks of nodes its
  sender has heard, and calls none a symmetric neighbour but over a link that works both
  ways, and of every TC that it names such neighbours of its origin (`GoodMsgs`).
  A symmetric link is then the result of a HELLO of a node that was heard and that has
  heard this one. Of the states (`GoodStates`) it adds `Linked`: link and neighbour tuples
  come and go together, though either may stay symmetric for longer.
- The routing table is the delicate part of `RInv`, because its rounds write entries
  from entries and 2-hop tuples overwrite what is there. `TablesUpTo(s, k)` are the tables in which
  every route has at most k hops, its next hop is a neighbour with an entry of one hop, and
  some other entry is one hop shorter; each round of `RoutingTableComputation` leads from
  k to k + 1. The last part bounds the hops by the number of nodes.
  The loops over messages and rounds are recursive functions: `LoopExists` and `LoopKeeps`
  say that they are defined and keep what each round keeps.

Only model-checked: the liveness properties (`EveryPacketSettled`, `AdvertsLeave`,
`SelectionEnds`, `RoutesSettle`, `SelectorsSettle`), because liveness under fairness and
`ENABLED` are out of the prover's reach, and the violations, which are counterexamples.
Inductions over data by the library's theorems that take an operator as a parameter are
out of reach as well: where a result needs one, it is argued by a smallest counterexample, as
above. There are no RECURSIVE operators. Not proved is what the rounds of
`RoutingTableComputation` compute, that they find *shortest* routes: `RoutesSettle` checks it
against a reference definition (`Shortest`). Every named assumption is evaluated by TLC in each
run of its module.

## 5. Abstractions and what is left out

AODV:

- Lifetimes: `Expire` may move any entry to INVALID or remove it. With `SlowTimers` it
  does so only when no frame is in flight (lifetimes are seconds, frames milliseconds)
  and frames are then lost explicitly by `Lose`; without it frames can outlive entries.
- Expiry of the id cache: a cached id lives for `PathDiscoveryTime`, longer than a flood.
- The blacklist: `AckTimerExpire` is never scheduled, so no reachable code fills it.
- `Forwarding` refreshes the next hop towards a source it may have no entry for, which
  puts the uninitialised address (`Ipv4Address()`, printed 102.102.102.102) in the
  neighbour list. Its timeout finds no entry and does nothing; `Refreshed` leaves it out.
- One interface per node in `AodvRouting`; several output devices in `AodvDiscovery`.
- `Counted`: one value stands for all request counts beyond `RreqRetries`. What the program
  does with such counts besides the two tests (the shift of `rp` 1188, the width of 8 bits)
  is left out.
- Identical frames in flight to one receiver count once.
- A RERR that needs more than 255 destinations is split by the code; not modelled.
- Deferred calls run 100 microseconds after the limit is lifted. The models let other
  events into that window; `AodvDiscovery` keeps the order of the calls, `AodvRouting`
  lets them run in any order.
- `Notify*` (interfaces and addresses that come and go) and attribute changes at run time.

DSDV:

- Real time: settling times, periods and ages are events that may come in any order
  (`SlowTimers` as described in section 2).
- The optional packet queue (`EnableBuffering`), route aggregation (off by default), several
  interfaces, and address changes other than an interface that goes down and up.

OLSR:

- One interface per node: MID messages, interface associations and
  `GetMainAddress` are the identity there. In `OlsrFlood` all links work both ways.
- Hold times as described in section 2; the ANSN does not wrap.
- `OlsrFlood` and `OlsrRouting` share `OlsrMpr`; in `OlsrRouting` a step takes the result
  of the whole computation, any of the possible ones.

### Not modelled

- DSR: the fourth protocol, as large as the other three together and independent of them.
- Message headers: fixed fields put into and read from a byte buffer, covered by the
  repository's own tests; the models use the fields.
- Helpers and study scenarios: construction of objects and scripts that supply flows and
  mobility, which the models choose freely. Plots and animations: one-shot scripts.
- The rest of ns-3 (simulator, IPv4, Wi-Fi and the other modules): what the protocols see
  of it is the environment of the models: frames that are lost, delayed and
  reordered, timers, layer 2 failures, interfaces.
