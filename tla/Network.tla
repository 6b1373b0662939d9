--------------------------------- MODULE Network ---------------------------------
(***************************************************************************)
(* A simulated network whose log the network spanner reads while the cards *)
(* send it contexts.                                                       *)
(*                                                                         *)
(* The simulation and the cards are external.  A packet visits one device  *)
(* after the other; a broadcast visits both branches of a switch in the    *)
(* order in which they are logged.  In each device it is enqueued and      *)
(* dequeued or dropped, or is dropped at once.  Packets interleave.        *)
(*                                                                         *)
(* Nothing the spanner does changes the simulation, so a log that is one   *)
(* event long is as good as a longer one: being slow is not seeing the     *)
(* next event yet.                                                         *)
(***************************************************************************)
EXTENDS NetworkSpanner, FiniteSetsExt, TLC

CONSTANTS
  Scenarios,   \* what may be simulated: for each name a sequence of packets, whether the
               \* pipeline has the NS3EventFilter, and a bound on the drops
  MaxLag       \* bound: the events logged and not consumed

ASSUME NetworkAssumption == MaxLag \in Nat \ {0}

(* A packet is enqueued once from an adapter, in the device of its sender, *)
(* and goes to one only where there is one.  The packets of interest are   *)
(* those of the cards.                                                     *)
Hops == [node : Nat, device : Nat, type : NetworkDeviceType,
         enq : {"kFromAdapter", "kWithinSimulator"}, deq : {"kToAdapter", "kWithinSimulator"}]
Device(h) == <<h.node, h.device>>
HasAdapter(h) == Device(h) \in DOMAIN host_channels /\ h.type = "kCosimNetDevice"
IsRoute(route) ==
  /\ route \in Seq(Hops) /\ route # <<>>
  /\ \A i \in DOMAIN route :
       /\ route[i].enq = "kFromAdapter" => i = 1 /\ HasAdapter(route[i])
       /\ route[i].deq = "kToAdapter" =>
            HasAdapter(route[i]) /\ route[i].enq # "kFromAdapter"
IsFromCard(h) == h.enq = "kFromAdapter" /\ host_channels[Device(h)] \in Cards
ASSUME ScenariosAssumption ==
  \A s \in DOMAIN Scenarios : \A p \in DOMAIN Scenarios[s].packets :
    LET packet == Scenarios[s].packets[p]
    IN /\ IsRoute(packet.route)
       /\ packet.interesting \in BOOLEAN
       /\ packet.interesting = IsFromCard(packet.route[1])

VARIABLES
  scenario,
  hop,         \* the hop each packet is at
  drops,       \* the number of drops
  inside,      \* the packets that are enqueued at their hop
  mixed,       \* the packets that were not alone on their way
  sent,        \* the packets each card transmitted
  given,       \* the number of contexts each card gave for them
  delivered    \* the packets each card was handed

simulation == <<scenario, hop, drops, inside, mixed, sent, given,
                delivered>>
vars == <<spanner, simulation>>

Packets == Scenarios[scenario].packets
Route(p) == Packets[p].route
Here(p) == Route(p)[hop[p]]
Over(p) == hop[p] > Len(Route(p))
OnTheWay == {p \in DOMAIN Packets : ~Over(p) /\ (hop[p] > 1 \/ p \in inside)}

Init ==
  /\ InitSpanner
  /\ scenario \in DOMAIN Scenarios
  /\ hop = [p \in DOMAIN Packets |-> 1]
  /\ drops = 0 /\ inside = {} /\ mixed = {}
  /\ sent = [c \in Cards |-> <<>>] /\ delivered = [c \in Cards |-> <<>>]
  /\ given = [c \in Cards |-> 0]

(* What is logged of a packet in the device it is at.  The parser sees no  *)
(* header but that of the ethernet where the packet comes from a card, and *)
(* no ARP header where it leaves for one.                                  *)
NetEvent(type, name, p, boundary) ==
  LET header(of) == IF Packets[p].header = of /\ Here(p).enq # "kFromAdapter"
                    THEN <<[src_ip |-> "src", dst_ip |-> "dst"]>> ELSE <<>>
  IN NetworkEvent([ts |-> 0, ident |-> 0, pname |-> "ns3"], type, name,
                  Here(p).node, Here(p).device, Here(p).type, p, Packets[p].interesting, 42,
                  boundary, <<>>, IF boundary = "kToAdapter" THEN <<>> ELSE header("arp"),
                  header("ip"))

Log(e) ==
  /\ Len(log) < MaxLag
  /\ log' = IF Scenarios[scenario].filtering /\ ~NS3EventFilter(e, node_device_filter)
            THEN log ELSE Append(log, e)
  /\ UNCHANGED <<spans, active, last, finished, from_host, to_host, terminated>>

CardAt(d) == {c \in Cards : <<d.node, d.device>> \in DOMAIN host_channels
                              /\ host_channels[<<d.node, d.device>>] = c}
Note(packets, cards, p) == [c \in Cards |-> IF c \in cards THEN Append(packets[c], p) ELSE packets[c]]

(* A packet enters the next device; the first is that of its sender.       *)
Enqueue(p) ==
  /\ ~Over(p) /\ p \notin inside
  /\ hop[p] = 1 => \A q \in Packets[p].after : Over(q)
  /\ Log(NetEvent("kNetworkEnqueueT", "NetworkEnqueue", p, Here(p).enq))
  /\ inside' = inside \cup {p}
  /\ mixed' = IF hop[p] = 1 /\ OnTheWay # {} THEN mixed \cup OnTheWay \cup {p} ELSE mixed
  /\ sent' = Note(sent, IF Here(p).enq = "kFromAdapter" THEN CardAt(Here(p)) ELSE {}, p)
  /\ UNCHANGED <<scenario, hop, drops, given, delivered>>

Dequeue(p) ==
  /\ p \in inside
  /\ Log(NetEvent("kNetworkDequeueT", "NetworkDequeue", p, Here(p).deq))
  /\ inside' = inside \ {p}
  /\ hop' = [hop EXCEPT ![p] = @ + 1]
  /\ delivered' = Note(delivered, IF Here(p).deq = "kToAdapter" THEN CardAt(Here(p)) ELSE {}, p)
  /\ UNCHANGED <<scenario, drops, mixed, sent, given>>

(* A packet is dropped by a device it has entered, or that it would enter. *)
(* That is the end of it, but for the other branch of a broadcast.         *)
Drop(p) ==
  /\ ~Over(p) /\ drops < Scenarios[scenario].drops
  /\ p \in inside \/ hop[p] > 1
  /\ drops' = drops + 1
  /\ \E boundary \in {"kWithinSimulator", Here(p).deq} :
       Log(NetEvent("kNetworkDropT", "NetworkDrop", p, boundary))
  /\ inside' = inside \ {p}
  /\ hop' = [hop EXCEPT ![p] = IF Here(p).deq = "kToAdapter" THEN @ + 1 ELSE Len(Route(p)) + 1]
  /\ UNCHANGED <<scenario, mixed, sent, given, delivered>>

Simulate == \E p \in DOMAIN Packets : Enqueue(p) \/ Dequeue(p) \/ Drop(p)

(* The spanner of a card reads of a transmission sooner or later than that *)
(* of the network.                                                         *)
FromCard(c) ==
  {p \in DOMAIN Packets : Route(p)[1].enq = "kFromAdapter" /\ CardAt(Route(p)[1]) = {c}}
CardSends(c) ==
  /\ given[c] < Cardinality(FromCard(c))
  /\ given' = [given EXCEPT ![c] = @ + 1]
  /\ from_host' = [from_host EXCEPT ![c] = Append(@, Context(<<c, given[c] + 1>>))]
  /\ UNCHANGED <<log, spans, active, last, finished, to_host, terminated>>
  /\ UNCHANGED <<scenario, hop, drops, inside, mixed, sent, delivered>>

Handle == HandelNetworkEvent /\ UNCHANGED simulation

Next == Simulate \/ (\E c \in Cards : CardSends(c)) \/ Handle

(* The network and each of the cards have a pipeline with its own thread.  *)
Spec == Init /\ [][Next]_vars /\ WF_vars(Handle) /\ \A c \in Cards : WF_vars(CardSends(c))
--------------------------------------------------------------------------------
PacketOf(i) == spans[i].dev_enq[1].packet_uid
SpansOf(p) == {i \in DOMAIN spans : PacketOf(i) = p}

(* The network hands a card one context for each packet, in the order of   *)
(* the packets, whatever else was dropped, filtered or never of interest:  *)
(* the card's spanner takes the next context for each packet it receives.  *)
ContextsInStep ==
  log = <<>> /\ ~terminated =>
    \A c \in Cards :
      /\ Len(to_host[c]) = Len(delivered[c])
      /\ \A k \in DOMAIN to_host[c] : PacketOf(to_host[c][k].parent[2]) = delivered[c][k]

(* The trace of a packet: its first span has the parent the sending card   *)
(* gave for that transmission, and, unless other packets were on their way *)
(* at the same time, each further one the packet's span before it.  (All   *)
(* packets share last_finished_device_span_.)                              *)
TraceFollowsPacket ==
  \A i \in DOMAIN spans :
    LET p == PacketOf(i)
        earlier == {j \in SpansOf(p) : j < i}
    IN Packets[p].interesting =>
         IF earlier = {}
         THEN \E c \in Cards : \E k \in DOMAIN sent[c] :
                sent[c][k] = p /\ spans[i].parent = <<c, k>>
         ELSE p \notin mixed => spans[i].parent = OfNetwork(Max(earlier))

(* The spanner does not wait for a context for ever.                       *)
EveryEventHandled == log # <<>> ~> log = <<>> \/ terminated

(* It is ended by nothing but a packet, handed to a card, of which no      *)
(* address was seen; and once all packets are over no span is left pending *)
(* nor a span unfinished.                                                  *)
EndsClean ==
  /\ terminated => /\ Head(log).boundary = "kToAdapter"
                   /\ Packets[Head(log).packet_uid].header \notin {"arp", "ip"}
  /\ log = <<>> /\ ~terminated /\ (\A p \in DOMAIN Packets : Over(p)) =>
       active = <<>> /\ finished = DOMAIN spans
================================================================================
