------------------------------ MODULE NetworkProofs ------------------------------
(***************************************************************************)
(* Theorems about Network, for all packets and routes, whatever is dropped *)
(* and however far the spanner is behind the simulation.                   *)
(***************************************************************************)
EXTENDS Network, WellFoundedInduction, TLAPS

Sequence(s) == \E S : s \in Seq(S)

(* The header of a packet, where the parser sees it.                       *)
Addressed == [src_ip |-> "src", dst_ip |-> "dst"]
HeaderIn(p, h, of) ==
  IF Packets[p].header = of /\ h.enq # "kFromAdapter" THEN <<Addressed>> ELSE <<>>

(* e is logged of its packet in the hop h.                                 *)
IsEventIn(e, h) ==
  LET p == e.packet_uid
  IN /\ e.type \in NetworkEvents
     /\ e.ident = 0 /\ e.payload_size = 42
     /\ e.node = h.node /\ e.device = h.device /\ e.device_type = h.type
     /\ e.interesting = Packets[p].interesting
     /\ e.ip_header = HeaderIn(p, h, "ip")
     /\ e.arp_header = IF e.boundary = "kToAdapter" THEN <<>> ELSE HeaderIn(p, h, "arp")
     /\ e.type = "kNetworkEnqueueT" => e.boundary = h.enq
     /\ e.type = "kNetworkDequeueT" => e.boundary = h.deq
     /\ e.type = "kNetworkDropT" => e.boundary \in {"kWithinSimulator", h.deq}
HopsOf(p) == {Route(p)[i] : i \in DOMAIN Route(p)}
IsLogged(e) ==
  e.packet_uid \in DOMAIN Packets /\ \E h \in HopsOf(e.packet_uid) : IsEventIn(e, h)

IsEnqueue(e) == e.type = "kNetworkEnqueueT"

(* The devices where a packet has a span.                                  *)
OfInterest(e) ==
  /\ IsInterestingNodeDevice(node_device_filter, e)
  /\ e.interesting \/ e.device_type = "kCosimNetDevice"
Begins(e) == IsEnqueue(e) /\ OfInterest(e)

(* f ends what e begins.                                                   *)
Ends(e, f) ==
  /\ f.packet_uid = e.packet_uid /\ ~IsEnqueue(f)
  /\ \E h \in HopsOf(e.packet_uid) : IsEventIn(e, h) /\ IsEventIn(f, h)

Unfinished == {active[k] : k \in DOMAIN active}
EnqueueOf(i) == spans[i].dev_enq[1]

(* A span that is not finished.                                            *)
SpanFields == {"parent", "dev_enq", "dev_deq", "drop", "ips", "boundary_types", "pending"}
IsUnfinished(sp) ==
  /\ DOMAIN sp = SpanFields
  /\ Len(sp.dev_enq) = 1 /\ DOMAIN sp.dev_enq = {1}
  /\ sp.dev_deq = <<>> /\ sp.drop = <<>> /\ sp.pending
  /\ LET e == sp.dev_enq[1]
     IN /\ IsLogged(e) /\ Begins(e)
        /\ sp.boundary_types = {e.boundary}
        /\ sp.ips = IF e.ip_header = <<>> /\ e.arp_header = <<>> THEN <<>>
                    ELSE <<Addresses(Addressed)>>
SpansInv ==
  /\ \A k, l \in DOMAIN active : active[k] = active[l] => k = l
  /\ Unfinished \subseteq DOMAIN spans
  /\ finished = DOMAIN spans \ Unfinished
  /\ finished # {} => last # <<>>
  /\ \A i \in Unfinished : IsUnfinished(spans[i])
  /\ \A i, j \in Unfinished : PacketOf(i) = PacketOf(j) => i = j

(* No event of the packet is in the log from position k on, before l.      *)
NoneOf(p, k, l) == \A m \in DOMAIN log : k <= m /\ m < l => log[m].packet_uid # p

(* What e begins ends at the next event of its packet, which is in the log *)
(* from position k on or still to come.                                    *)
WillEnd(e, k) ==
  LET p == e.packet_uid
  IN \/ \E l \in DOMAIN log : k <= l /\ Ends(e, log[l]) /\ NoneOf(p, k, l)
     \/ p \in inside /\ IsEventIn(e, Here(p)) /\ NoneOf(p, k, Len(log) + 1)
EndsInv ==
  /\ \A i \in Unfinished : WillEnd(EnqueueOf(i), 1)
  /\ \A k \in DOMAIN log : Begins(log[k]) => WillEnd(log[k], k + 1)

(* Before the event at position k of the log the packet has begun its way, *)
(* and is in a device.                                                     *)
HasBegun(p, k) ==
  \/ \E i \in DOMAIN spans : PacketOf(i) = p
  \/ \E l \in DOMAIN log : l < k /\ log[l].packet_uid = p /\ Begins(log[l])
IsIn(p, k) ==
  \/ (\E i \in Unfinished : PacketOf(i) = p) /\ NoneOf(p, 1, k)
  \/ \E l \in DOMAIN log : /\ l < k /\ log[l].packet_uid = p /\ Begins(log[l])
                           /\ NoneOf(p, l + 1, k)
HopOfInterest(p, h) ==
  Device(h) \in node_device_filter /\ (Packets[p].interesting \/ h.type = "kCosimNetDevice")
BeginsInv ==
  /\ \A p \in DOMAIN Packets : Packets[p].interesting /\ (hop[p] > 1 \/ p \in inside) =>
       HasBegun(p, Len(log) + 1)
  /\ \A k \in DOMAIN log : IsEnqueue(log[k]) /\ log[k].interesting
                             /\ log[k].boundary # "kFromAdapter" =>
       HasBegun(log[k].packet_uid, k)
  /\ \A p \in inside : HopOfInterest(p, Here(p)) => IsIn(p, Len(log) + 1)
  /\ \A k \in DOMAIN log : IsType(log[k], "kNetworkDequeueT") /\ OfInterest(log[k]) =>
       IsIn(log[k].packet_uid, k)

(* The events K of the log l tell of the packets s, but for the first t.   *)
IsPlacing(place, K, t, s, l) ==
  /\ place \in [K -> t + 1 .. Len(s)]
  /\ \A k, m \in K : k < m => place[k] < place[m]
  /\ \A n \in t + 1 .. Len(s) : \E k \in K : place[k] = n
  /\ \A k \in K : s[place[k]] = l[k].packet_uid
Tells(K, t, s, l) == t <= Len(s) /\ \E place : IsPlacing(place, K, t, s, l)

(* The packets handed to a card: those of which it was sent the context,   *)
(* then those of which the log tells.                                      *)
Delivers(e, c) ==
  IsType(e, "kNetworkDequeueT") /\ e.boundary = "kToAdapter" /\ c \in CardAt(e)
Deliveries(c) == {k \in DOMAIN log : Delivers(log[k], c)}
IsSentFor(con, p) == con.parent[2] \in DOMAIN spans /\ PacketOf(con.parent[2]) = p
AllSentFor(c) == \A k \in DOMAIN to_host[c] : IsSentFor(to_host[c][k], delivered[c][k])
DeliveredInv ==
  \A c \in Cards :
    AllSentFor(c) /\ Tells(Deliveries(c), Len(to_host[c]), delivered[c], log)

SimulationInv ==
  /\ scenario \in DOMAIN Scenarios
  /\ DOMAIN hop = DOMAIN Packets
  /\ \A p \in DOMAIN Packets : hop[p] \in Nat /\ hop[p] > 0
  /\ inside \subseteq DOMAIN Packets
  /\ \A p \in inside : ~Over(p)
  /\ \A k \in DOMAIN log : IsLogged(log[k])

(* Only a packet without addresses, at a card, ends the program.           *)
TerminatedInv ==
  terminated => /\ log # <<>> /\ Head(log).boundary = "kToAdapter"
                /\ Packets[Head(log).packet_uid].header \notin {"arp", "ip"}

TypeInv ==
  /\ Sequence(log) /\ Sequence(spans) /\ Sequence(active)
  /\ DOMAIN to_host = Cards /\ DOMAIN delivered = Cards
  /\ \A c \in Cards : Sequence(to_host[c]) /\ Sequence(delivered[c])

NetworkInv ==
  TypeInv /\ SpansInv /\ EndsInv /\ BeginsInv /\ DeliveredInv /\ SimulationInv
    /\ TerminatedInv

(* What handling the event e amounts to: a span begins, a span ends, or    *)
(* the event is of none.                                                   *)
NoSpanOf(p) == \A i \in Unfinished : PacketOf(i) # p
SpanStarts(e) ==
  /\ Begins(e) /\ NoSpanOf(e.packet_uid)
  /\ \E n : /\ n \notin DOMAIN spans /\ DOMAIN spans' = DOMAIN spans \cup {n}
            /\ Unfinished' = Unfinished \cup {n}
            /\ EnqueueOf(n)' = e /\ \A i \in DOMAIN spans : EnqueueOf(i)' = EnqueueOf(i)
  /\ UNCHANGED <<last, to_host, terminated>>
SpanStops(e) ==
  /\ ~IsEnqueue(e)
  /\ \E n \in Unfinished :
       /\ PacketOf(n) = e.packet_uid
       /\ Unfinished' = Unfinished \ {n} /\ last' = <<n>>
       /\ DOMAIN spans' = DOMAIN spans
       /\ \A i \in DOMAIN spans : EnqueueOf(i)' = EnqueueOf(i)
       /\ \A c \in Cards :
            to_host'[c] = IF Delivers(e, c) THEN Append(to_host[c], Context(OfNetwork(n)))
                          ELSE to_host[c]
  /\ UNCHANGED terminated
NoSpan(e) ==
  /\ ~Begins(e) /\ NoSpanOf(e.packet_uid)
  /\ UNCHANGED <<spans, active, last, finished, to_host, terminated>>

--------------------------------------------------------------------------------
(* Lemmas about sequences.                                                 *)

(* A set of positions has a first one.                                     *)
LEMMA FirstOf ==
  ASSUME NEW T \in SUBSET Nat, T # {}
  PROVE  First(T) \in T /\ \A j \in T : First(T) <= j
<1>1. PICK x \in T : \A y \in T : ~ (<<y, x>> \in OpToRel(<, Nat))
  BY NatLessThanWellFounded, WFMin
<1>2. \A y \in T : x <= y
  <2>1. \A y \in T : y \in Nat /\ x \in Nat /\ ~(y < x)
    BY <1>1, Zenon DEF OpToRel
  <2>2. QED
    BY <2>1
<1>3. QED
  BY <1>2 DEF First

(* t is the sequence s with e at its end.                                  *)
Extended(t, s, e) ==
  /\ Sequence(t) /\ Len(s) \in Nat /\ DOMAIN s = 1 .. Len(s)
  /\ Len(t) = Len(s) + 1 /\ DOMAIN t = 1 .. Len(s) + 1
  /\ t[Len(s) + 1] = e
  /\ \A i \in DOMAIN s : t[i] = s[i]

(* What Append does.                                                       *)
LEMMA Appending ==
  ASSUME NEW s, Sequence(s), NEW e, NEW t, t = Append(s, e)
  PROVE  Extended(t, s, e)
<1>1. PICK S : s \in Seq(S)
  BY DEF Sequence
<1>2. PICK S2 : S2 = S \cup {e}
  OBVIOUS
<1>3. s \in Seq(S2) /\ e \in S2
  BY <1>1, <1>2
<1>4. t \in Seq(S2)
  BY <1>3
<1>5. QED
  BY <1>3, <1>4 DEF Extended, Sequence

(* t is the sequence s without its first element.                          *)
Taken(t, s) ==
  /\ Sequence(t) /\ Len(s) \in Nat \ {0} /\ DOMAIN s = 1 .. Len(s)
  /\ DOMAIN t = 1 .. Len(s) - 1
  /\ \A i \in DOMAIN t : t[i] = s[i + 1]
  /\ Head(s) = s[1]

(* What Tail does to a queue that is not empty.                            *)
LEMMA Taking1 ==
  ASSUME NEW s, Sequence(s), s # <<>>, NEW t, t = Tail(s)
  PROVE  Taken(t, s)
<1>1. PICK S : s \in Seq(S)
  BY DEF Sequence
<1>2. t \in Seq(S)
  BY <1>1
<1>3. QED
  BY <1>1, <1>2 DEF Sequence, Taken

(* A function on 1 .. n is a sequence.                                     *)
LEMMA FunctionIsSequence ==
  ASSUME NEW n \in Nat, NEW S, NEW g \in [1 .. n -> S]
  PROVE  g \in Seq(S)
OBVIOUS

(* Changing an element of a sequence.                                      *)
LEMMA Replacing ==
  ASSUME NEW s, Sequence(s), NEW i \in DOMAIN s, NEW e, NEW t, t = [s EXCEPT ![i] = e]
  PROVE  /\ Sequence(t) /\ DOMAIN t = DOMAIN s
         /\ t[i] = e /\ \A j \in DOMAIN s : j # i => t[j] = s[j]
<1>1. PICK S : s \in Seq(S)
  BY DEF Sequence
<1>2. PICK S2 : S2 = S \cup {e}
  OBVIOUS
<1>3. PICK n \in Nat : DOMAIN s = 1 .. n
  BY <1>1
<1>4. t \in [1 .. n -> S2]
  BY <1>1, <1>2, <1>3
<1>5. t \in Seq(S2)
  BY <1>3, <1>4, FunctionIsSequence
<1>6. QED
  BY <1>5 DEF Sequence

(* WithoutActive keeps the others in their order.                          *)
LEMMA WithoutOne ==
  ASSUME NEW S, active \in Seq(S), NEW i \in DOMAIN active, NEW s, s = active
  PROVE  /\ WithoutActive(i) \in Seq(S)
         /\ DOMAIN WithoutActive(i) = 1 .. Len(s) - 1
         /\ \A j \in 1 .. Len(s) - 1 :
              WithoutActive(i)[j] = IF j < i THEN s[j] ELSE s[j + 1]
<1>1. PICK a, b : a = SubSeq(s, 1, i - 1) /\ b = SubSeq(s, i + 1, Len(s))
  OBVIOUS
<1>2. /\ a \in Seq(S) /\ Len(a) = i - 1 /\ \A j \in 1 .. i - 1 : a[j] = s[j]
  BY <1>1
<1>3. /\ b \in Seq(S) /\ Len(b) = Len(s) - i
      /\ \A j \in 1 .. Len(s) - i : b[j] = s[i + j]
  BY <1>1
<1>4. PICK t : t = a \o b
  OBVIOUS
<1>5. /\ i \in 1 .. Len(s) /\ Len(s) \in Nat
      /\ t \in Seq(S) /\ Len(t) = Len(s) - 1
      /\ \A j \in 1 .. Len(s) - 1 : t[j] = IF j <= i - 1 THEN a[j] ELSE b[j - (i - 1)]
  BY <1>2, <1>3, <1>4
<1>6. ASSUME NEW j \in 1 .. Len(s) - 1
      PROVE  t[j] = IF j < i THEN s[j] ELSE s[j + 1]
  <2>1. CASE j < i
    BY <1>2, <1>5, <2>1
  <2>2. CASE ~(j < i)
    <3>1. j - (i - 1) \in 1 .. Len(s) - i /\ i + (j - (i - 1)) = j + 1
      BY <1>5, <2>2
    <3>2. b[j - (i - 1)] = s[j + 1]
      BY <1>3, <3>1
    <3>3. QED
      BY <1>5, <2>2, <3>2
  <2>3. QED
    BY <2>1, <2>2
<1>7. WithoutActive(i) = t
  BY <1>1, <1>4 DEF WithoutActive
<1>8. QED
  BY <1>5, <1>6, <1>7

(* The first event of the log is that of the first packet that is left.    *)
IsFirst(place, t, s, l) ==
  /\ place[1] = t + 1 /\ t < Len(s)
  /\ t + 1 \in DOMAIN s /\ s[t + 1] = l[1].packet_uid

(* It is, if it is of those that tell of the packets.                      *)
LEMMA TellsFirst ==
  ASSUME NEW n \in Nat, NEW K \in SUBSET (1 .. n), NEW t \in Nat, NEW s, Sequence(s),
         NEW l, 1 \in K, NEW place, IsPlacing(place, K, t, s, l)
  PROVE  IsFirst(place, t, s, l)
<1>1. PICK d : d = Len(s) /\ d \in Nat /\ DOMAIN s = 1 .. d
  BY DEF Sequence
<1>2. /\ \A k \in K : k \in 1 .. n /\ place[k] \in t + 1 .. d /\ s[place[k]] = l[k].packet_uid
      /\ \A k, m \in K : k < m => place[k] < place[m]
      /\ \A m \in t + 1 .. d : \E k \in K : place[k] = m
  BY <1>1 DEF IsPlacing
<1>3. place[1] \in t + 1 .. d
  BY <1>2
<1>4. t + 1 \in t + 1 .. d /\ t < d
  BY <1>1, <1>3
<1>5. PICK k \in K : place[k] = t + 1
  BY <1>2, <1>4
<1>6. k = 1
  <2>1. k \in 1 .. n
    BY <1>2
  <2>2. k # 1 => 1 < k
    BY <2>1
  <2>3. k # 1 => place[1] < place[k]
    BY <1>2, <2>2
  <2>4. QED
    BY <1>1, <1>3, <1>5, <2>3
<1>7. QED
  BY <1>1, <1>2, <1>4, <1>5, <1>6 DEF IsFirst

(* The packets that are left once the first event is taken.                *)
LEMMA TellsTaken ==
  ASSUME NEW n \in Nat \ {0}, NEW K \in SUBSET (1 .. n), NEW t \in Nat, NEW s, Sequence(s),
         NEW l, Tells(K, t, s, l), NEW l2, \A k \in 1 .. n - 1 : l2[k] = l[k + 1],
         NEW K2 \in SUBSET (1 .. n - 1), \A k \in 1 .. n - 1 : k \in K2 <=> k + 1 \in K
  PROVE  /\ 1 \notin K => Tells(K2, t, s, l2)
         /\ 1 \in K => Tells(K2, t + 1, s, l2)
<1>1. PICK d : d = Len(s) /\ d \in Nat /\ DOMAIN s = 1 .. d
  BY DEF Sequence
<1>2. PICK place : IsPlacing(place, K, t, s, l)
  BY DEF Tells
<1>3. /\ \A k \in K : k \in 1 .. n /\ place[k] \in t + 1 .. d /\ s[place[k]] = l[k].packet_uid
      /\ \A k, m \in K : k < m => place[k] < place[m]
      /\ \A m \in t + 1 .. d : \E k \in K : place[k] = m
      /\ t <= d
  BY <1>1, <1>2 DEF IsPlacing, Tells
<1>4. PICK next : next = [k \in K2 |-> place[k + 1]]
  OBVIOUS
<1>5. \A k \in K2 : k \in 1 .. n - 1 /\ k + 1 \in K /\ next[k] = place[k + 1]
  BY <1>4
<1>6. /\ \A k, m \in K2 : k < m => next[k] < next[m]
      /\ \A k \in K2 : s[next[k]] = l2[k].packet_uid
  <2>1. \A k, m \in K2 : k < m => k + 1 < m + 1
    BY <1>5
  <2>2. QED
    BY <1>3, <1>5, <2>1
<1>7. \A k \in K : k = 1 \/ \E m \in K2 : m + 1 = k
  <2>1. SUFFICES ASSUME NEW k \in K, k # 1 PROVE \E m \in K2 : m + 1 = k
    OBVIOUS
  <2>2. k - 1 \in 1 .. n - 1 /\ (k - 1) + 1 = k
    BY <1>3, <2>1
  <2>3. QED
    BY <2>1, <2>2
<1>8. ASSUME 1 \notin K PROVE Tells(K2, t, s, l2)
  <2>1. next \in [K2 -> t + 1 .. d]
    BY <1>3, <1>4, <1>5
  <2>2. \A m \in t + 1 .. d : \E k \in K2 : next[k] = m
    BY <1>3, <1>5, <1>7, <1>8
  <2>3. QED
    BY <1>1, <1>3, <1>6, <2>1, <2>2 DEF Tells, IsPlacing
<1>9. 1 \in K => place[1] = t + 1 /\ t < d
  <2>1. n \in Nat
    OBVIOUS
  <2>2. 1 \in K => IsFirst(place, t, s, l)
    BY <1>2, <2>1, TellsFirst
  <2>3. QED
    BY <1>1, <2>2 DEF IsFirst
<1>10. ASSUME 1 \in K PROVE Tells(K2, t + 1, s, l2)
  <2>1. t + 1 <= d
    BY <1>1, <1>9, <1>10
  <2>2. next \in [K2 -> (t + 1) + 1 .. d]
    <3>1. SUFFICES ASSUME NEW k \in K2 PROVE next[k] \in (t + 1) + 1 .. d
      BY <1>4
    <3>2. k + 1 \in K /\ 1 < k + 1 /\ next[k] = place[k + 1]
      BY <1>5
    <3>3. place[1] < place[k + 1] /\ place[k + 1] \in t + 1 .. d
      BY <1>3, <1>10, <3>2
    <3>4. QED
      BY <1>1, <1>9, <1>10, <3>2, <3>3
  <2>3. \A m \in (t + 1) + 1 .. d : \E k \in K2 : next[k] = m
    <3>1. SUFFICES ASSUME NEW m \in (t + 1) + 1 .. d PROVE \E k \in K2 : next[k] = m
      OBVIOUS
    <3>2. m \in t + 1 .. d /\ m # t + 1
      BY <1>1
    <3>3. PICK k \in K : place[k] = m
      BY <1>3, <3>2
    <3>4. QED
      BY <1>5, <1>7, <1>9, <1>10, <3>2, <3>3
  <2>4. QED
    BY <1>1, <1>6, <2>1, <2>2, <2>3 DEF Tells, IsPlacing
<1>11. QED
  BY <1>8, <1>10

(* One more event, of one more packet.                                     *)
LEMMA TellsMore ==
  ASSUME NEW n \in Nat, NEW K \in SUBSET (1 .. n), NEW t \in Nat, NEW s, Sequence(s),
         NEW l, Tells(K, t, s, l), NEW l2, \A k \in 1 .. n : l2[k] = l[k],
         NEW p, l2[n + 1].packet_uid = p, NEW s2, Extended(s2, s, p)
  PROVE  Tells(K \cup {n + 1}, t, s2, l2)
<1>1. PICK d : d = Len(s) /\ d \in Nat /\ DOMAIN s = 1 .. d
  BY DEF Sequence
<1>2. PICK place : IsPlacing(place, K, t, s, l)
  BY DEF Tells
<1>3. /\ \A k \in K : k \in 1 .. n /\ place[k] \in t + 1 .. d /\ s[place[k]] = l[k].packet_uid
      /\ \A k, m \in K : k < m => place[k] < place[m]
      /\ \A m \in t + 1 .. d : \E k \in K : place[k] = m
      /\ t <= d
  BY <1>1, <1>2 DEF IsPlacing, Tells
<1>4. Len(s2) = d + 1 /\ s2[d + 1] = p /\ \A k \in 1 .. d : s2[k] = s[k]
  BY <1>1 DEF Extended
<1>5. PICK K2 : K2 = K \cup {n + 1}
  OBVIOUS
<1>6. PICK q : q = [k \in K2 |-> IF k = n + 1 THEN d + 1 ELSE place[k]]
  OBVIOUS
<1>7. \A k \in K : k < n + 1 /\ k # n + 1 /\ q[k] = place[k]
  BY <1>3, <1>5, <1>6
<1>8. q[n + 1] = d + 1
  BY <1>5, <1>6
<1>9. q \in [K2 -> t + 1 .. d + 1]
  <2>1. \A k \in K2 : q[k] \in t + 1 .. d + 1
    BY <1>1, <1>3, <1>5, <1>7, <1>8
  <2>2. QED
    BY <1>6, <2>1
<1>10. ASSUME NEW k \in K2, NEW m \in K2, k < m PROVE q[k] < q[m]
  <2>1. k \in K
    BY <1>5, <1>7, <1>10
  <2>2. CASE m \in K
    BY <1>3, <1>7, <1>10, <2>1, <2>2
  <2>3. CASE m = n + 1
    BY <1>1, <1>3, <1>7, <1>8, <2>1, <2>3
  <2>4. QED
    BY <1>5, <2>2, <2>3
<1>11. ASSUME NEW m \in t + 1 .. d + 1 PROVE \E k \in K2 : q[k] = m
  <2>1. CASE m = d + 1
    BY <1>5, <1>8, <2>1
  <2>2. CASE m # d + 1
    <3>1. m \in t + 1 .. d
      BY <1>1, <2>2
    <3>2. QED
      BY <1>3, <1>5, <1>7, <3>1
  <2>3. QED
    BY <2>1, <2>2
<1>12. ASSUME NEW k \in K2 PROVE s2[q[k]] = l2[k].packet_uid
  <2>1. CASE k = n + 1
    BY <1>4, <1>8, <2>1
  <2>2. CASE k \in K
    <3>1. place[k] \in 1 .. d
      BY <1>1, <1>3, <2>2
    <3>2. QED
      BY <1>3, <1>4, <1>7, <2>2, <3>1
  <2>3. QED
    BY <1>5, <2>1, <2>2
<1>13. t <= d + 1
  BY <1>1, <1>3
<1>14. IsPlacing(q, K2, t, s2, l2)
  BY <1>4, <1>9, <1>10, <1>11, <1>12 DEF IsPlacing
<1>15. QED
  BY <1>4, <1>5, <1>13, <1>14 DEF Tells

(* Other events are of no importance.                                      *)
LEMMA TellsSame ==
  ASSUME NEW K, NEW t, NEW s, NEW l, Tells(K, t, s, l), NEW l2, \A k \in K : l2[k] = l[k]
  PROVE  Tells(K, t, s, l2)
<1>1. PICK place : IsPlacing(place, K, t, s, l)
  BY DEF Tells
<1>2. IsPlacing(place, K, t, s, l2)
  BY <1>1 DEF IsPlacing
<1>3. QED
  BY <1>2 DEF Tells

(* No event is left: the first packets were all.                           *)
LEMMA TellsAll ==
  ASSUME NEW t \in Nat, NEW s, Sequence(s), NEW l, Tells({}, t, s, l)
  PROVE  t = Len(s)
<1>1. PICK d : d = Len(s) /\ d \in Nat
  BY DEF Sequence
<1>2. \A m \in t + 1 .. d : \E k \in {} : TRUE
  BY <1>1 DEF Tells, IsPlacing
<1>3. t <= d
  BY <1>1 DEF Tells
<1>4. t < d => t + 1 \in t + 1 .. d
  BY <1>1
<1>5. QED
  BY <1>1, <1>2, <1>3, <1>4

(* No events and no packets at first.                                      *)
LEMMA TellsNothing ==
  ASSUME NEW s, Len(s) = 0, NEW l
  PROVE  Tells({}, 0, s, l)
<1>1. PICK place : place = [k \in {} |-> k]
  OBVIOUS
<1>2. place \in [{} -> 0 + 1 .. 0] /\ 0 + 1 .. 0 = {}
  BY <1>1
<1>3. IsPlacing(place, {}, 0, s, l)
  BY <1>2 DEF IsPlacing
<1>4. QED
  BY <1>3 DEF Tells

--------------------------------------------------------------------------------
(* Lemmas about packets and their events.                                  *)

(* What is assumed of the route of a packet.                               *)
LEMMA RouteIs ==
  ASSUME scenario \in DOMAIN Scenarios, NEW p \in DOMAIN Packets
  PROVE  /\ IsRoute(Route(p)) /\ Packets[p].interesting \in BOOLEAN
         /\ Packets[p].interesting = IsFromCard(Route(p)[1])
BY ScenariosAssumption DEF Packets, Route

(* And of its hops.                                                        *)
LEMMA HopIs ==
  ASSUME scenario \in DOMAIN Scenarios, NEW p \in DOMAIN Packets, NEW h \in HopsOf(p)
  PROVE  /\ h.enq \in {"kFromAdapter", "kWithinSimulator"}
         /\ h.deq \in {"kToAdapter", "kWithinSimulator"}
         /\ h.enq = "kFromAdapter" => HasAdapter(h)
         /\ h.deq = "kToAdapter" => HasAdapter(h) /\ h.enq # "kFromAdapter"
<1>1. IsRoute(Route(p))
  BY RouteIs
<1>2. PICK i \in DOMAIN Route(p) : h = Route(p)[i]
  BY DEF HopsOf
<1>3. Route(p)[i] \in Hops
  BY <1>1 DEF IsRoute
<1>4. QED
  BY <1>1, <1>2, <1>3 DEF IsRoute, Hops

(* A packet that is not over is in a hop of its route.                     *)
LEMMA HereIs ==
  ASSUME scenario \in DOMAIN Scenarios, NEW p \in DOMAIN Packets, ~Over(p),
         hop[p] \in Nat, hop[p] > 0
  PROVE  /\ Here(p) \in HopsOf(p)
         /\ Here(p).enq = "kFromAdapter" => hop[p] = 1
         /\ hop[p] = 1 => Here(p) = Route(p)[1]
<1>1. IsRoute(Route(p))
  BY RouteIs
<1>2. PICK r, n : r = Route(p) /\ n = hop[p]
  OBVIOUS
<1>3. r \in Seq(Hops) /\ n \in Nat /\ n > 0 /\ ~(n > Len(r))
  BY <1>1, <1>2 DEF IsRoute, Over
<1>4. n \in DOMAIN r
  BY <1>3
<1>5. QED
  BY <1>1, <1>2, <1>4 DEF IsRoute, Here, HopsOf

(* What NetEvent makes.                                                    *)
LEMMA NetEventIs ==
  ASSUME NEW p, NEW type, NEW name, NEW boundary, NEW e,
         e = NetEvent(type, name, p, boundary),
         type \in NetworkEvents,
         type = "kNetworkEnqueueT" => boundary = Here(p).enq,
         type = "kNetworkDequeueT" => boundary = Here(p).deq,
         type = "kNetworkDropT" => boundary \in {"kWithinSimulator", Here(p).deq}
  PROVE  /\ e.packet_uid = p /\ e.type = type /\ e.boundary = boundary
         /\ IsEventIn(e, Here(p))
<1>1. PICK h : h = Here(p)
  OBVIOUS
<1>2. PICK q : q = Packets[p]
  OBVIOUS
<1>3. /\ e.packet_uid = p /\ e.type = type /\ e.boundary = boundary
      /\ e.ident = 0 /\ e.payload_size = 42
      /\ e.node = h.node /\ e.device = h.device /\ e.device_type = h.type
      /\ e.interesting = q.interesting
  BY <1>1, <1>2 DEF NetEvent, NetworkEvent
<1>4. /\ e.ip_header = IF q.header = "ip" /\ h.enq # "kFromAdapter" THEN <<Addressed>> ELSE <<>>
      /\ e.arp_header = IF boundary = "kToAdapter" THEN <<>>
                        ELSE IF q.header = "arp" /\ h.enq # "kFromAdapter" THEN <<Addressed>> ELSE <<>>
  BY <1>1, <1>2 DEF NetEvent, NetworkEvent, Addressed
<1>5. QED
  BY <1>1, <1>2, <1>3, <1>4 DEF IsEventIn, HeaderIn

(* The device of an event is that of the hop.                              *)
LEMMA EventIs ==
  ASSUME scenario \in DOMAIN Scenarios, NEW e, e.packet_uid \in DOMAIN Packets,
         NEW h \in HopsOf(e.packet_uid), IsEventIn(e, h)
  PROVE  /\ <<e.node, e.device>> = Device(h) /\ e.device_type = h.type
         /\ e.interesting = Packets[e.packet_uid].interesting
         /\ e.interesting \in BOOLEAN
         /\ OfInterest(e) <=> HopOfInterest(e.packet_uid, h)
BY RouteIs DEF IsEventIn, OfInterest, HopOfInterest, Device, IsInterestingNodeDevice

(* Header or not, the addresses of a packet are always the same.           *)
LEMMA Headers ==
  ASSUME NEW e, NEW h, IsEventIn(e, h)
  PROVE  e.ip_header \in {<<>>, <<Addressed>>} /\ e.arp_header \in {<<>>, <<Addressed>>}
BY DEF IsEventIn, HeaderIn

--------------------------------------------------------------------------------
(* Lemmas about spans.                                                     *)

(* SetAndCheckPotentialIp of one header.                                   *)
LEMMA OneHeader ==
  ASSUME NEW sp, DOMAIN sp = SpanFields, sp.ips \in {<<>>, <<Addresses(Addressed)>>},
         NEW header \in {<<>>, <<Addressed>>}, NEW t, t = SetPotentialIps(sp, header)
  PROVE  /\ CheckPotentialIps(sp, header)
         /\ DOMAIN t = SpanFields
         /\ \A f \in SpanFields \ {"ips"} : t[f] = sp[f]
         /\ t.ips = IF sp.ips = <<>> /\ header = <<>> THEN <<>> ELSE <<Addresses(Addressed)>>
<1>1. CASE sp.ips = <<>> /\ header # <<>>
  <2>1. header[1] = Addressed
    BY <1>1
  <2>2. t = [sp EXCEPT !.ips = <<Addresses(Addressed)>>]
    BY <1>1, <2>1 DEF SetPotentialIps
  <2>3. QED
    BY <1>1, <2>2 DEF CheckPotentialIps, SpanFields
<1>2. CASE ~(sp.ips = <<>> /\ header # <<>>)
  <2>1. t = sp
    BY <1>2 DEF SetPotentialIps
  <2>2. CheckPotentialIps(sp, header)
    BY <1>2 DEF CheckPotentialIps
  <2>3. QED
    BY <1>2, <2>1, <2>2
<1>3. QED
  BY <1>1, <1>2

(* The addresses of both headers are taken, and never refused.             *)
LEMMA BothHeaders ==
  ASSUME NEW sp, DOMAIN sp = SpanFields, sp.ips \in {<<>>, <<Addresses(Addressed)>>},
         NEW e, NEW h, IsEventIn(e, h), NEW t, t = SetIps(sp, e)
  PROVE  /\ CheckIps(sp, e)
         /\ DOMAIN t = SpanFields
         /\ \A f \in SpanFields \ {"ips"} : t[f] = sp[f]
         /\ t.ips = IF sp.ips = <<>> /\ e.ip_header = <<>> /\ e.arp_header = <<>>
                    THEN <<>> ELSE <<Addresses(Addressed)>>
<1>1. PICK a, b : /\ a = e.ip_header /\ b = e.arp_header
                  /\ a \in {<<>>, <<Addressed>>} /\ b \in {<<>>, <<Addressed>>}
  BY Headers
<1>2. PICK s : s = SetIp(sp, e)
  OBVIOUS
<1>3. s = SetPotentialIps(sp, a) /\ t = SetPotentialIps(s, b)
  BY <1>1, <1>2 DEF SetIp, SetIps
<1>4. /\ CheckPotentialIps(sp, a)
      /\ DOMAIN s = SpanFields
      /\ \A f \in SpanFields \ {"ips"} : s[f] = sp[f]
      /\ s.ips = IF sp.ips = <<>> /\ a = <<>> THEN <<>> ELSE <<Addresses(Addressed)>>
  <2>1. a \in {<<>>, <<Addressed>>} /\ s = SetPotentialIps(sp, a)
    BY <1>1, <1>3
  <2>2. CheckPotentialIps(sp, a)
    BY <2>1, OneHeader
  <2>3. DOMAIN s = SpanFields
    BY <2>1, OneHeader
  <2>4. \A f \in SpanFields \ {"ips"} : s[f] = sp[f]
    BY <2>1, OneHeader
  <2>5. s.ips = IF sp.ips = <<>> /\ a = <<>> THEN <<>> ELSE <<Addresses(Addressed)>>
    BY <2>1, OneHeader
  <2>6. QED
    BY <2>2, <2>3, <2>4, <2>5
<1>5. /\ CheckPotentialIps(s, b)
      /\ DOMAIN t = SpanFields
      /\ \A f \in SpanFields \ {"ips"} : t[f] = s[f]
      /\ t.ips = IF s.ips = <<>> /\ b = <<>> THEN <<>> ELSE <<Addresses(Addressed)>>
  <2>1. /\ DOMAIN s = SpanFields /\ s.ips \in {<<>>, <<Addresses(Addressed)>>}
        /\ b \in {<<>>, <<Addressed>>} /\ t = SetPotentialIps(s, b)
    BY <1>1, <1>3, <1>4
  <2>2. CheckPotentialIps(s, b)
    BY <2>1, OneHeader
  <2>3. DOMAIN t = SpanFields
    BY <2>1, OneHeader
  <2>4. QED
    BY <2>1, <2>2, <2>3, OneHeader
<1>6. CheckIps(sp, e)
  BY <1>1, <1>2, <1>4, <1>5 DEF CheckIps
<1>7. QED
  BY <1>1, <1>4, <1>5, <1>6

(* A span that begins with e, with the parent par.                         *)
LEMMA SpanBegins ==
  ASSUME NEW e, IsLogged(e), Begins(e), NEW par, NEW sp, sp = AddToSpan(NetDeviceSpan(par), e)
  PROVE  IsUnfinished(sp) /\ sp.dev_enq[1] = e /\ sp.parent = par
<1>1. PICK s : s = NetDeviceSpan(par)
  OBVIOUS
<1>2. /\ DOMAIN s = SpanFields /\ s.ips = <<>> /\ s.dev_deq = <<>> /\ s.drop = <<>>
      /\ s.pending = TRUE /\ s.boundary_types = {} /\ s.parent = par
  BY <1>1 DEF NetDeviceSpan, SpanFields
<1>3. PICK h : IsEventIn(e, h)
  BY DEF IsLogged
<1>4. PICK t : t = SetIps(s, e)
  OBVIOUS
<1>5. /\ DOMAIN t = SpanFields
      /\ \A f \in SpanFields \ {"ips"} : t[f] = s[f]
      /\ t.ips = IF e.ip_header = <<>> /\ e.arp_header = <<>>
                 THEN <<>> ELSE <<Addresses(Addressed)>>
  BY <1>2, <1>3, <1>4, BothHeaders
<1>6. sp = [t EXCEPT !.dev_enq = <<e>>, !.boundary_types = @ \cup {e.boundary}]
  BY <1>1, <1>4 DEF AddToSpan, HandelEnqueue, IsType, Begins, IsEnqueue
<1>7. /\ DOMAIN sp = SpanFields /\ sp.dev_enq = <<e>> /\ sp.dev_deq = <<>> /\ sp.drop = <<>>
      /\ sp.pending /\ sp.boundary_types = {e.boundary} /\ sp.parent = par /\ sp.ips = t.ips
  BY <1>2, <1>5, <1>6 DEF SpanFields
<1>8. Len(sp.dev_enq) = 1 /\ DOMAIN sp.dev_enq = {1} /\ sp.dev_enq[1] = e
  BY <1>7
<1>9. QED
  BY <1>5, <1>7, <1>8 DEF IsUnfinished

(* A span that is not finished takes the end of what it begins with, and   *)
(* no event of another packet.                                             *)
LEMMA SpanTakes ==
  ASSUME NEW sp, IsUnfinished(sp), NEW f, IsLogged(f)
  PROVE  /\ Ends(sp.dev_enq[1], f) => CanAdd(sp, f)
         /\ CanAdd(sp, f) => f.packet_uid = sp.dev_enq[1].packet_uid /\ ~IsEnqueue(f)
<1>1. PICK e : e = sp.dev_enq[1]
  OBVIOUS
<1>2. /\ DOMAIN sp = SpanFields /\ DOMAIN sp.dev_enq = {1} /\ sp.dev_enq # <<>>
      /\ sp.dev_deq = <<>> /\ sp.drop = <<>> /\ sp.pending
      /\ sp.ips \in {<<>>, <<Addresses(Addressed)>>} /\ IsLogged(e)
  BY <1>1 DEF IsUnfinished
<1>3. ASSUME CanAdd(sp, f)
      PROVE  f.packet_uid = e.packet_uid /\ ~IsEnqueue(f)
  <2>1. IsAnyType(f, {"kNetworkDequeueT", "kNetworkDropT"}) /\ IsConsistent(e, f)
    BY <1>1, <1>2, <1>3 DEF CanAdd, TakesEnqueue, TakesEnd
  <2>2. e["packet_uid"] = f["packet_uid"]
    BY <2>1 DEF IsConsistent, Same
  <2>3. QED
    BY <2>1, <2>2 DEF IsAnyType, IsEnqueue
<1>4. ASSUME Ends(e, f)
      PROVE  CanAdd(sp, f)
  <2>1. PICK h : IsEventIn(e, h) /\ IsEventIn(f, h) /\ f.packet_uid = e.packet_uid /\ ~IsEnqueue(f)
    BY <1>4 DEF Ends
  <2>2. e.ident = f.ident /\ e.ip_header = f.ip_header
    BY <2>1 DEF IsEventIn
  <2>3. e.arp_header # <<>> /\ f.arp_header # <<>> => e.arp_header = f.arp_header
    BY <2>1, Headers
  <2>4. \A x \in {"node", "device", "device_type", "packet_uid", "interesting", "payload_size"} :
          e[x] = f[x]
    BY <2>1 DEF IsEventIn
  <2>5. IsConsistent(e, f)
    BY <2>2, <2>3, <2>4 DEF IsConsistent, Same
  <2>6. CheckIps(sp, f)
    BY <1>2, <2>1, BothHeaders
  <2>7. f.type \in {"kNetworkDequeueT", "kNetworkDropT"}
    BY <2>1 DEF IsEventIn, IsEnqueue, NetworkEvents
  <2>8. IsPotentialAdd(sp, f)
    BY <1>1, <1>2, <2>2 DEF IsPotentialAdd
  <2>9. QED
    BY <1>1, <1>2, <2>5, <2>6, <2>7, <2>8 DEF CanAdd, TakesEnd, IsAnyType
<1>5. QED
  BY <1>1, <1>3, <1>4

(* What an end leaves as it was, and what it tells of the span.            *)
LEMMA SpanEnds ==
  ASSUME NEW sp, IsUnfinished(sp), NEW f, IsLogged(f), ~IsEnqueue(f),
         NEW t, t = AddToSpan(sp, f)
  PROVE  /\ t.dev_enq = sp.dev_enq /\ t.parent = sp.parent
         /\ IsDrop(t) <=> IsType(f, "kNetworkDropT")
         /\ t.boundary_types = {sp.dev_enq[1].boundary, f.boundary}
         /\ HasIpsSet(t) <=> sp.ips # <<>> \/ f.ip_header # <<>> \/ f.arp_header # <<>>
<1>1. /\ DOMAIN sp = SpanFields /\ sp.dev_deq = <<>> /\ sp.drop = <<>>
      /\ sp.ips \in {<<>>, <<Addresses(Addressed)>>}
      /\ sp.boundary_types = {sp.dev_enq[1].boundary}
  BY DEF IsUnfinished
<1>2. PICK h : IsEventIn(f, h)
  BY DEF IsLogged
<1>3. PICK s : s = SetIps(sp, f)
  OBVIOUS
<1>4. /\ DOMAIN s = SpanFields
      /\ \A x \in SpanFields \ {"ips"} : s[x] = sp[x]
      /\ s.ips = IF sp.ips = <<>> /\ f.ip_header = <<>> /\ f.arp_header = <<>>
                 THEN <<>> ELSE <<Addresses(Addressed)>>
  BY <1>1, <1>2, <1>3, BothHeaders
<1>5. f.type \in {"kNetworkDequeueT", "kNetworkDropT"}
  BY <1>2 DEF IsEventIn, IsEnqueue, NetworkEvents
<1>6. CASE f.type = "kNetworkDequeueT"
  <2>1. t = [s EXCEPT !.dev_deq = <<f>>, !.boundary_types = @ \cup {f.boundary}, !.pending = FALSE]
    BY <1>3, <1>6 DEF AddToSpan, HandelDequeue, IsType
  <2>2. /\ t.dev_enq = sp.dev_enq /\ t.parent = sp.parent /\ t.drop = <<>> /\ t.ips = s.ips
        /\ t.boundary_types = {sp.dev_enq[1].boundary, f.boundary}
    BY <1>1, <1>4, <2>1 DEF SpanFields
  <2>3. QED
    BY <1>4, <1>6, <2>2 DEF IsDrop, HasIpsSet, IsType
<1>7. CASE f.type = "kNetworkDropT"
  <2>1. t = [s EXCEPT !.drop = <<f>>, !.boundary_types = @ \cup {f.boundary}, !.pending = FALSE]
    BY <1>3, <1>7 DEF AddToSpan, HandelDrop, IsType
  <2>2. /\ t.dev_enq = sp.dev_enq /\ t.parent = sp.parent /\ t.drop = <<f>> /\ t.ips = s.ips
        /\ t.boundary_types = {sp.dev_enq[1].boundary, f.boundary}
    BY <1>1, <1>4, <2>1 DEF SpanFields
  <2>3. QED
    BY <1>4, <1>7, <2>2 DEF IsDrop, HasIpsSet, IsType
<1>8. QED
  BY <1>5, <1>6, <1>7

--------------------------------------------------------------------------------
(* What handling an event does.                                            *)

(* A span that is not finished ends with the next event of its packet.     *)
LEMMA HeadEnds ==
  ASSUME SpansInv, EndsInv, Len(log) \in Nat \ {0}, DOMAIN log = 1 .. Len(log),
         NEW i \in Unfinished, PacketOf(i) = log[1].packet_uid
  PROVE  Ends(EnqueueOf(i), log[1])
<1>1. EnqueueOf(i).packet_uid = log[1].packet_uid
  BY DEF PacketOf, EnqueueOf
<1>2. WillEnd(EnqueueOf(i), 1)
  BY DEF EndsInv
<1>3. PICK l \in DOMAIN log : Ends(EnqueueOf(i), log[l]) /\ NoneOf(log[1].packet_uid, 1, l)
  <2>1. CASE NoneOf(EnqueueOf(i).packet_uid, 1, Len(log) + 1)
    <3>1. PICK n : n = Len(log)
      OBVIOUS
    <3>2. 1 < n + 1
      BY <3>1
    <3>3. QED
      BY <1>1, <2>1, <3>1, <3>2 DEF NoneOf
  <2>2. QED
    BY <1>1, <1>2, <2>1 DEF WillEnd
<1>4. l = 1
  BY <1>3 DEF NoneOf
<1>5. QED
  BY <1>3, <1>4

(* The log is not empty, and e the first event of it.                      *)
IsNext(e) == ~terminated /\ log # <<>> /\ e = Next_

(* What is known of the next event.                                        *)
LEMMA NextEventIs ==
  ASSUME TypeInv, SimulationInv, NEW e, IsNext(e)
  PROVE  /\ Len(log) \in Nat \ {0} /\ DOMAIN log = 1 .. Len(log)
         /\ e = log[1] /\ IsLogged(e)
<1>1. Sequence(log) /\ log # <<>> /\ e = Head(log)
  BY DEF TypeInv, IsNext, Next_
<1>2. Len(log) \in Nat \ {0} /\ DOMAIN log = 1 .. Len(log) /\ e = log[1]
  BY <1>1 DEF Sequence
<1>3. 1 \in DOMAIN log
  BY <1>2
<1>4. QED
  BY <1>2, <1>3 DEF SimulationInv

(* The first span that takes the next event is that of the packet, and     *)
(* nothing takes the event of a packet without a span in the device.       *)
LEMMA TakingIs ==
  ASSUME TypeInv, SpansInv, EndsInv, SimulationInv, NEW e, IsNext(e)
  PROVE  /\ Taking(e) = {} <=> NoSpanOf(e.packet_uid)
         /\ Taking(e) # {} =>
              /\ First(Taking(e)) \in DOMAIN active
              /\ active[First(Taking(e))] \in Unfinished
              /\ PacketOf(active[First(Taking(e))]) = e.packet_uid
              /\ Ends(EnqueueOf(active[First(Taking(e))]), e)
<1>1. /\ Len(log) \in Nat \ {0} /\ DOMAIN log = 1 .. Len(log) /\ e = log[1] /\ IsLogged(e)
  BY NextEventIs
<1>2. \A k \in DOMAIN active : active[k] \in Unfinished /\ IsUnfinished(spans[active[k]])
  BY DEF Unfinished, SpansInv
<1>3. \A k \in DOMAIN active : CanAdd(spans[active[k]], e) <=> PacketOf(active[k]) = e.packet_uid
  <2>1. SUFFICES ASSUME NEW k \in DOMAIN active
                 PROVE  CanAdd(spans[active[k]], e) <=> PacketOf(active[k]) = e.packet_uid
    OBVIOUS
  <2>2. PICK i : i = active[k] /\ i \in Unfinished /\ IsUnfinished(spans[i])
    BY <1>2
  <2>3. CanAdd(spans[i], e) => PacketOf(i) = e.packet_uid
    BY <1>1, <2>2, SpanTakes DEF PacketOf
  <2>4. ASSUME PacketOf(i) = e.packet_uid PROVE CanAdd(spans[i], e)
    <3>1. Ends(EnqueueOf(i), e)
      BY <1>1, <2>2, <2>4, HeadEnds
    <3>2. Ends(spans[i].dev_enq[1], e)
      BY <3>1 DEF EnqueueOf
    <3>3. QED
      BY <1>1, <2>2, <3>2, SpanTakes
  <2>5. QED
    BY <2>2, <2>3, <2>4
<1>4. Taking(e) = {k \in DOMAIN active : PacketOf(active[k]) = e.packet_uid}
  BY <1>3 DEF Taking
<1>5. Taking(e) = {} <=> NoSpanOf(e.packet_uid)
  BY <1>4 DEF NoSpanOf, Unfinished
<1>6. ASSUME Taking(e) # {}
      PROVE  /\ First(Taking(e)) \in DOMAIN active
             /\ active[First(Taking(e))] \in Unfinished
             /\ PacketOf(active[First(Taking(e))]) = e.packet_uid
             /\ Ends(EnqueueOf(active[First(Taking(e))]), e)
  <2>1. Sequence(active)
    BY DEF TypeInv
  <2>2. DOMAIN active \in SUBSET Nat
    BY <2>1 DEF Sequence
  <2>3. Taking(e) \in SUBSET Nat
    BY <1>4, <2>2
  <2>4. PICK k : k = First(Taking(e)) /\ k \in Taking(e)
    BY <1>6, <2>3, FirstOf
  <2>5. k \in DOMAIN active /\ active[k] \in Unfinished /\ PacketOf(active[k]) = e.packet_uid
    BY <1>2, <1>4, <2>4
  <2>6. Ends(EnqueueOf(active[k]), e)
    BY <1>1, <2>5, HeadEnds
  <2>7. QED
    BY <2>4, <2>5, <2>6
<1>7. QED
  BY <1>5, <1>6

(* What begins and what ends it is of the same device.                     *)
LEMMA EndsAlike ==
  ASSUME scenario \in DOMAIN Scenarios, NEW e, IsLogged(e), NEW f, Ends(e, f)
  PROVE  /\ OfInterest(f) <=> OfInterest(e)
         /\ IsInterestingNodeDevice(node_device_filter, f) <=>
              IsInterestingNodeDevice(node_device_filter, e)
         /\ \A g : Ends(e, g) => g.interesting = e.interesting
<1>1. \A g : Ends(e, g) => /\ g.packet_uid = e.packet_uid
                           /\ \E h : IsEventIn(e, h) /\ IsEventIn(g, h)
  BY DEF Ends
<1>2. \A g : Ends(e, g) => /\ g.node = e.node /\ g.device = e.device
                           /\ g.device_type = e.device_type /\ g.interesting = e.interesting
  BY <1>1 DEF IsEventIn
<1>3. QED
  BY <1>2 DEF OfInterest, IsInterestingNodeDevice

(* What is said of events and packets is the same for the whole time.      *)
LEMMA SameScenario ==
  ASSUME UNCHANGED scenario
  PROVE  /\ Packets' = Packets
         /\ \A p : Route(p)' = Route(p) /\ HopsOf(p)' = HopsOf(p)
         /\ \A p, h : HopOfInterest(p, h)' <=> HopOfInterest(p, h)
         /\ \A e, h : IsEventIn(e, h)' <=> IsEventIn(e, h)
         /\ \A e : IsLogged(e)' <=> IsLogged(e)
         /\ \A e, f : Ends(e, f)' <=> Ends(e, f)
         /\ \A sp : IsUnfinished(sp)' <=> IsUnfinished(sp)
<1>1. Packets' = Packets
  BY DEF Packets
<1>2. \A p : Route(p)' = Route(p) /\ HopsOf(p)' = HopsOf(p)
  BY <1>1 DEF Route, HopsOf
<1>3. \A p, h : HopOfInterest(p, h)' <=> HopOfInterest(p, h)
  BY <1>1 DEF HopOfInterest
<1>4. \A e, h : IsEventIn(e, h)' <=> IsEventIn(e, h)
  BY <1>1 DEF IsEventIn, HeaderIn
<1>5. \A e : IsLogged(e)' <=> IsLogged(e)
  BY <1>1, <1>2, <1>4 DEF IsLogged
<1>6. \A e, f : Ends(e, f)' <=> Ends(e, f)
  BY <1>2, <1>4 DEF Ends
<1>7. \A sp : IsUnfinished(sp)' <=> IsUnfinished(sp)
  BY <1>5 DEF IsUnfinished
<1>8. QED
  BY <1>1, <1>2, <1>3, <1>4, <1>5, <1>6, <1>7

(* StartDeviceSpan.                                                        *)
LEMMA Started ==
  ASSUME TypeInv, SpansInv, NEW e, IsLogged(e), Begins(e), NoSpanOf(e.packet_uid),
         NEW par, StartDeviceSpan(par, e),
         UNCHANGED <<last, finished, to_host, terminated, scenario>>
  PROVE  /\ SpanStarts(e) /\ SpansInv' /\ Sequence(spans)' /\ Sequence(active)'
         /\ DOMAIN spans' = DOMAIN spans \cup {NextSpan}
         /\ \A i \in DOMAIN spans : spans'[i] = spans[i]
         /\ spans'[NextSpan].dev_enq[1] = e /\ spans'[NextSpan].parent = par
<1>1. PICK sp, n : sp = AddToSpan(NetDeviceSpan(par), e) /\ n = NextSpan
  OBVIOUS
<1>2. IsUnfinished(sp) /\ sp.dev_enq[1] = e /\ sp.parent = par
  BY <1>1, SpanBegins
<1>3. Extended(spans', spans, sp) /\ Extended(active', active, n)
  <2>1. spans' = Append(spans, sp) /\ active' = Append(active, n)
    BY <1>1 DEF StartDeviceSpan
  <2>2. Sequence(spans) /\ Sequence(active)
    BY DEF TypeInv
  <2>3. QED
    BY <2>1, <2>2, Appending
<1>4. n \notin DOMAIN spans /\ DOMAIN spans' = DOMAIN spans \cup {n} /\ spans'[n] = sp
  BY <1>1, <1>3 DEF Extended, NextSpan
<1>5. PICK k : /\ k \notin DOMAIN active /\ DOMAIN active' = DOMAIN active \cup {k}
               /\ active'[k] = n /\ \A l \in DOMAIN active : active'[l] = active[l]
  BY <1>3 DEF Extended
<1>6. \A i \in DOMAIN spans : spans'[i] = spans[i]
  BY <1>3 DEF Extended
<1>7. Unfinished' = Unfinished \cup {n} /\ Unfinished \subseteq DOMAIN spans
  BY <1>5 DEF Unfinished, SpansInv
<1>8. \A i \in DOMAIN spans : EnqueueOf(i)' = EnqueueOf(i) /\ PacketOf(i)' = PacketOf(i)
  BY <1>6 DEF EnqueueOf, PacketOf
<1>9. EnqueueOf(n)' = e /\ PacketOf(n)' = e.packet_uid
  BY <1>2, <1>4 DEF EnqueueOf, PacketOf
<1>10. SpansInv'
  <2>1. \A l, m \in DOMAIN active' : active'[l] = active'[m] => l = m
    <3>1. \A l \in DOMAIN active : active[l] # n
      BY <1>4, <1>7 DEF Unfinished
    <3>2. QED
      BY <1>5, <3>1 DEF SpansInv
  <2>2. Unfinished' \subseteq DOMAIN spans'
    BY <1>4, <1>7
  <2>3. finished' = DOMAIN spans' \ Unfinished'
    BY <1>4, <1>7 DEF SpansInv
  <2>4. \A i \in Unfinished' : IsUnfinished(spans'[i])
    BY <1>2, <1>4, <1>6, <1>7 DEF SpansInv
  <2>5. (\A i \in Unfinished : IsUnfinished(spans[i]))'
    BY <2>4, SameScenario
  <2>6. \A i, j \in Unfinished' : PacketOf(i)' = PacketOf(j)' => i = j
    BY <1>4, <1>7, <1>8, <1>9 DEF SpansInv, NoSpanOf
  <2>7. QED
    BY <2>1, <2>2, <2>3, <2>5, <2>6 DEF SpansInv
<1>11. SpanStarts(e)
  BY <1>4, <1>7, <1>8, <1>9 DEF SpanStarts
<1>12. QED
  BY <1>1, <1>2, <1>3, <1>4, <1>6, <1>10, <1>11 DEF Extended

(* Which span leaves for a card, once it ends with f.                      *)
LEMMA LeavesIf ==
  ASSUME scenario \in DOMAIN Scenarios, NEW sp, IsUnfinished(sp), NEW f,
         Ends(sp.dev_enq[1], f), NEW t, t = AddToSpan(sp, f)
  PROVE  /\ LeavesForCard(t) <=> IsType(f, "kNetworkDequeueT") /\ f.boundary = "kToAdapter"
         /\ LeavesForCard(t) => HasValidChannel(f)
         /\ LeavesForCard(t) /\ ~HasIpsSet(t) => Packets[f.packet_uid].header \notin {"arp", "ip"}
<1>1. PICK e : e = sp.dev_enq[1] /\ IsLogged(e) /\ IsEnqueue(e)
  BY DEF IsUnfinished, Begins
<1>2. PICK h \in HopsOf(e.packet_uid) : IsEventIn(e, h) /\ IsEventIn(f, h)
  BY <1>1 DEF Ends
<1>3. f.packet_uid = e.packet_uid /\ ~IsEnqueue(f) /\ e.packet_uid \in DOMAIN Packets
  BY <1>1 DEF Ends, IsLogged
<1>4. IsLogged(f)
  BY <1>2, <1>3 DEF IsLogged
<1>5. /\ IsDrop(t) <=> IsType(f, "kNetworkDropT")
      /\ t.boundary_types = {e.boundary, f.boundary}
      /\ HasIpsSet(t) <=> sp.ips # <<>> \/ f.ip_header # <<>> \/ f.arp_header # <<>>
  BY <1>1, <1>3, <1>4, SpanEnds
<1>6. f.type \in {"kNetworkDequeueT", "kNetworkDropT"}
  BY <1>2, <1>3 DEF IsEventIn, IsEnqueue, NetworkEvents
<1>7. e.boundary = h.enq /\ e.boundary \in {"kFromAdapter", "kWithinSimulator"}
  BY <1>1, <1>2, <1>3, HopIs DEF IsEventIn, IsEnqueue
<1>8. LeavesForCard(t) <=> IsType(f, "kNetworkDequeueT") /\ f.boundary = "kToAdapter"
  BY <1>5, <1>6, <1>7 DEF LeavesForCard, IsType
<1>9. ASSUME LeavesForCard(t)
      PROVE  h.deq = "kToAdapter" /\ h.enq # "kFromAdapter" /\ HasAdapter(h)
  BY <1>2, <1>3, <1>8, <1>9, HopIs DEF IsEventIn, IsType
<1>10. LeavesForCard(t) => HasValidChannel(f)
  BY <1>2, <1>9 DEF HasAdapter, HasValidChannel, Device, IsEventIn
<1>11. ASSUME LeavesForCard(t), ~HasIpsSet(t)
       PROVE  Packets[f.packet_uid].header \notin {"arp", "ip"}
  <2>1. sp.ips = <<>>
    BY <1>5, <1>11
  <2>2. e.ip_header = <<>> /\ e.arp_header = <<>>
    BY <1>1, <2>1 DEF IsUnfinished
  <2>3. e.boundary # "kToAdapter" /\ h.enq # "kFromAdapter"
    BY <1>7, <1>9, <1>11
  <2>4. HeaderIn(e.packet_uid, h, "ip") = <<>> /\ HeaderIn(e.packet_uid, h, "arp") = <<>>
    BY <1>2, <2>2, <2>3 DEF IsEventIn
  <2>5. QED
    BY <1>3, <2>3, <2>4 DEF HeaderIn
<1>12. QED
  BY <1>8, <1>10, <1>11

(* What is sent to a card at the end of a span.                            *)
LEMMA SentAtEnd ==
  ASSUME NEW s, Sequence(s), NEW q, NEW x, NEW y, q = IF x THEN <<y>> ELSE <<>>, x \in BOOLEAN
  PROVE  s \o q = IF x THEN Append(s, y) ELSE s
<1>1. PICK S : s \in Seq(S)
  BY DEF Sequence
<1>2. PICK S2 : S2 = S \cup {y}
  OBVIOUS
<1>3. s \in Seq(S2) /\ y \in S2
  BY <1>1, <1>2
<1>4. CASE x
  BY <1>3, <1>4
<1>5. CASE ~x
  BY <1>3, <1>5
<1>6. QED
  BY <1>4, <1>5

(* EndSpan.                                                                *)
LEMMA Ended1 ==
  ASSUME TypeInv, SpansInv, EndsInv, SimulationInv, NEW e, IsNext(e), EndSpan,
         UNCHANGED simulation
  PROVE  /\ SpanStops(e) /\ SpansInv' /\ Sequence(spans)' /\ Sequence(active)'
         /\ OfInterest(e)
         /\ \A i \in DOMAIN spans : spans'[i].parent = spans[i].parent
<1>1. e = Next_ /\ Taking(e) # {} /\ IsLogged(e)
  BY NextEventIs DEF EndSpan, FinishSpan, IsNext
<1>2. PICK k, n, t :
        /\ k = First(Taking(e)) /\ n = active[k] /\ t = AddToSpan(spans[n], e)
  OBVIOUS
<1>3. /\ k \in DOMAIN active /\ n \in Unfinished /\ PacketOf(n) = e.packet_uid
      /\ Ends(EnqueueOf(n), e)
  BY <1>1, <1>2, TakingIs
<1>4. Ended = n /\ EndedSpan(e) = t
  BY <1>1, <1>2 DEF Ended, EndedSpan
<1>5. IsUnfinished(spans[n]) /\ n \in DOMAIN spans /\ Ends(spans[n].dev_enq[1], e) /\ ~IsEnqueue(e)
  BY <1>3 DEF SpansInv, EnqueueOf, Ends
<1>6. t.dev_enq = spans[n].dev_enq /\ t.parent = spans[n].parent
  BY <1>1, <1>2, <1>5, SpanEnds
<1>7. /\ LeavesForCard(t) <=> IsType(e, "kNetworkDequeueT") /\ e.boundary = "kToAdapter"
      /\ LeavesForCard(t) => HasValidChannel(e)
  BY <1>2, <1>5, LeavesIf DEF SimulationInv
<1>8. Sequence(spans') /\ DOMAIN spans' = DOMAIN spans /\ spans'[n] = t
      /\ \A j \in DOMAIN spans : j # n => spans'[j] = spans[j]
  <2>1. spans' = [spans EXCEPT ![n] = t] /\ Sequence(spans)
    BY <1>1, <1>4 DEF EndSpan, FinishSpan, TypeInv
  <2>2. QED
    BY <1>5, <2>1, Replacing
<1>9. \A i \in DOMAIN spans : /\ EnqueueOf(i)' = EnqueueOf(i) /\ PacketOf(i)' = PacketOf(i)
                              /\ spans'[i].parent = spans[i].parent
  BY <1>6, <1>8 DEF EnqueueOf, PacketOf
<1>10. PICK S : active \in Seq(S)
  BY DEF TypeInv, Sequence
<1>11. PICK N : N = Len(active) /\ N \in Nat /\ DOMAIN active = 1 .. N
  BY <1>10
<1>12. /\ Sequence(active') /\ DOMAIN active' = 1 .. N - 1
       /\ \A j \in 1 .. N - 1 : active'[j] = IF j < k THEN active[j] ELSE active[j + 1]
  <2>1. active' = WithoutActive(k)
    BY <1>1, <1>2 DEF EndSpan, FinishSpan
  <2>2. QED
    BY <1>3, <1>10, <1>11, <2>1, WithoutOne DEF Sequence
<1>13. k \in 1 .. N
  BY <1>3, <1>11
<1>14. \A i, j \in 1 .. N : active[i] = active[j] => i = j
  BY <1>11 DEF SpansInv
<1>15. \A j \in 1 .. N - 1 : \E i \in 1 .. N : /\ i = IF j < k THEN j ELSE j + 1
                                               /\ i # k /\ active'[j] = active[i]
  BY <1>11, <1>12, <1>13
<1>16. \A i \in 1 .. N : i # k => \E j \in 1 .. N - 1 : active'[j] = active[i]
  <2>1. SUFFICES ASSUME NEW i \in 1 .. N, i # k PROVE \E j \in 1 .. N - 1 : active'[j] = active[i]
    OBVIOUS
  <2>2. CASE i < k
    BY <1>11, <1>12, <1>13, <2>2
  <2>3. CASE i > k
    <3>1. i - 1 \in 1 .. N - 1 /\ ~(i - 1 < k) /\ (i - 1) + 1 = i
      BY <1>11, <1>13, <2>3
    <3>2. QED
      BY <1>12, <3>1
  <2>4. QED
    BY <1>11, <1>13, <2>1, <2>2, <2>3
<1>17. Unfinished' = Unfinished \ {n}
  <2>1. Unfinished' = {active'[j] : j \in 1 .. N - 1}
    BY <1>12 DEF Unfinished
  <2>2. Unfinished = {active[j] : j \in 1 .. N}
    BY <1>11 DEF Unfinished
  <2>3. \A x \in Unfinished' : x \in Unfinished /\ x # n
    BY <1>2, <1>13, <1>14, <1>15, <2>1, <2>2
  <2>4. \A x \in Unfinished : x # n => x \in Unfinished'
    BY <1>2, <1>16, <2>1, <2>2
  <2>5. QED
    BY <2>3, <2>4
<1>18. SpansInv'
  <2>1. \A i, j \in DOMAIN active' : active'[i] = active'[j] => i = j
    <3>1. SUFFICES ASSUME NEW i \in 1 .. N - 1, NEW j \in 1 .. N - 1, active'[i] = active'[j]
                   PROVE  i = j
      BY <1>12
    <3>2. PICK a, b : /\ a = (IF i < k THEN i ELSE i + 1) /\ b = (IF j < k THEN j ELSE j + 1)
                      /\ a \in 1 .. N /\ b \in 1 .. N /\ active[a] = active[b]
      BY <1>15, <3>1
    <3>3. a = b
      BY <1>14, <3>2
    <3>4. QED
      BY <1>11, <1>13, <3>2, <3>3
  <2>2. Unfinished' \subseteq DOMAIN spans' /\ Unfinished \subseteq DOMAIN spans
    BY <1>8, <1>17 DEF SpansInv
  <2>3. finished' = DOMAIN spans' \ Unfinished'
    <3>1. finished' = finished \cup {n}
      BY <1>1, <1>4 DEF EndSpan, FinishSpan
    <3>2. QED
      BY <1>3, <1>8, <1>17, <2>2, <3>1 DEF SpansInv
  <2>4. \A i \in Unfinished' : IsUnfinished(spans'[i])
    BY <1>8, <1>17, <2>2 DEF SpansInv
  <2>5. (\A i \in Unfinished : IsUnfinished(spans[i]))'
    BY <2>4, SameScenario DEF simulation
  <2>6. \A i, j \in Unfinished' : PacketOf(i)' = PacketOf(j)' => i = j
    BY <1>9, <1>17, <2>2 DEF SpansInv
  <2>7. last' = <<n>> /\ <<n>> # <<>>
    BY <1>4 DEF EndSpan, FinishSpan
  <2>8. QED
    BY <2>1, <2>2, <2>3, <2>5, <2>6, <2>7 DEF SpansInv
<1>19. \A c \in Cards :
         to_host'[c] = IF Delivers(e, c) THEN Append(to_host[c], Context(OfNetwork(n)))
                       ELSE to_host[c]
  <2>1. SUFFICES ASSUME NEW c \in Cards
                 PROVE  to_host'[c] = IF Delivers(e, c) THEN Append(to_host[c], Context(OfNetwork(n)))
                                      ELSE to_host[c]
    OBVIOUS
  <2>2. PICK x : x = (LeavesForCard(t) /\ c = GetValidChannel(e))
    OBVIOUS
  <2>3. to_host'[c] = to_host[c] \o (IF x THEN <<Context(OfNetwork(n))>> ELSE <<>>)
    BY <1>1, <1>4, <2>1, <2>2 DEF EndSpan, FinishSpan
  <2>4. x <=> Delivers(e, c)
    BY <1>7, <2>1, <2>2 DEF Delivers, CardAt, HasValidChannel, GetValidChannel
  <2>5. x \in BOOLEAN /\ Sequence(to_host[c])
    BY <2>2 DEF TypeInv
  <2>6. QED
    BY <2>3, <2>4, <2>5, SentAtEnd
<1>20. SpanStops(e)
  <2>1. last' = <<n>> /\ UNCHANGED terminated
    BY <1>4 DEF EndSpan, FinishSpan
  <2>2. QED
    BY <1>3, <1>5, <1>8, <1>9, <1>17, <1>19, <2>1 DEF SpanStops
<1>21. OfInterest(e)
  <2>1. IsLogged(EnqueueOf(n)) /\ OfInterest(EnqueueOf(n))
    BY <1>5 DEF IsUnfinished, Begins, EnqueueOf
  <2>2. QED
    BY <1>3, <2>1, EndsAlike DEF SimulationInv
<1>22. QED
  BY <1>8, <1>9, <1>12, <1>18, <1>20, <1>21

(* An event is handled: all that happens, but for the end of the program.  *)
Handled(e) ==
  /\ IsNext(e) /\ Taken(log', log) /\ UNCHANGED simulation
  /\ SpansInv' /\ TypeInv'
  /\ SpanStarts(e) \/ SpanStops(e) \/ NoSpan(e)

(* TypeInv, by the variables it is about.                                  *)
LEMMA TypeKept ==
  ASSUME TypeInv, Sequence(log'), Sequence(spans'), Sequence(active'), UNCHANGED delivered,
         DOMAIN to_host' = Cards, \A c \in Cards : Sequence(to_host'[c])
  PROVE  TypeInv'
BY DEF TypeInv

(* The handler, by its disjuncts.                                          *)
LEMMA HandleIs ==
  ASSUME TypeInv, SpansInv, EndsInv, SimulationInv, Handle, ~Throws
  PROVE  \E e : Handled(e)
<1>1. PICK e : e = Next_
  OBVIOUS
<1>2. ~terminated /\ log # <<>> /\ log' = Tail(log) /\ UNCHANGED simulation
  BY DEF Handle, HandelNetworkEvent, Consume, FilterDevice, EndSpan, FinishSpan, IgnoreEnd,
         StartTrace, IgnoreUninteresting, StartFromAdapter, StartWithin
<1>3. IsNext(e) /\ Taken(log', log) /\ Sequence(log')
  <2>1. Sequence(log)
    BY DEF TypeInv
  <2>2. Taken(log', log)
    BY <1>2, <2>1, Taking1
  <2>3. QED
    BY <1>1, <1>2, <2>2 DEF IsNext, Taken
<1>4. IsLogged(e)
  BY <1>3, NextEventIs
<1>5. UNCHANGED delivered /\ UNCHANGED scenario /\ scenario \in DOMAIN Scenarios
  BY <1>2 DEF simulation, SimulationInv
<1>6. e.interesting \in BOOLEAN
  BY <1>4, <1>5, EventIs DEF IsLogged
<1>7. ASSUME NoSpan(e) PROVE Handled(e)
  <2>1. UNCHANGED <<spans, active, last, finished, to_host>>
    BY <1>7 DEF NoSpan
  <2>2. SpansInv'
    BY <1>5, <2>1, SameScenario DEF SpansInv, Unfinished, PacketOf
  <2>3. TypeInv'
    BY <1>3, <1>5, <2>1 DEF TypeInv
  <2>4. QED
    BY <1>2, <1>3, <1>7, <2>2, <2>3 DEF Handled
<1>8. ASSUME NEW par, StartDeviceSpan(par, e), Begins(e), Taking(e) = {},
             UNCHANGED <<last, finished, to_host, terminated>>
      PROVE  Handled(e)
  <2>1. NoSpanOf(e.packet_uid)
    BY <1>3, <1>8, TakingIs
  <2>2. SpanStarts(e) /\ SpansInv' /\ Sequence(spans)' /\ Sequence(active)'
    BY <1>4, <1>5, <1>8, <2>1, Started
  <2>3. TypeInv'
    BY <1>3, <1>5, <1>8, <2>2 DEF TypeInv
  <2>4. QED
    BY <1>2, <1>3, <2>2, <2>3 DEF Handled
<1>9. CASE FilterDevice
  <2>1. IsFiltered(e) /\ UNCHANGED <<spans, active, last, finished, to_host, terminated>>
    BY <1>1, <1>9 DEF FilterDevice
  <2>2. ~IsInterestingNodeDevice(node_device_filter, e)
    BY <2>1 DEF IsFiltered, IsNotInterestingNodeDevice
  <2>3. ASSUME Taking(e) # {} PROVE FALSE
    <3>1. PICK n : n \in Unfinished /\ Ends(EnqueueOf(n), e)
      BY <1>3, <2>3, TakingIs
    <3>2. IsLogged(EnqueueOf(n)) /\ OfInterest(EnqueueOf(n))
      BY <3>1 DEF SpansInv, IsUnfinished, Begins, EnqueueOf
    <3>3. OfInterest(e)
      BY <1>5, <3>1, <3>2, EndsAlike
    <3>4. QED
      BY <2>2, <3>3 DEF OfInterest
  <2>4. NoSpan(e)
    BY <1>3, <2>1, <2>2, <2>3, TakingIs DEF NoSpan, Begins, OfInterest
  <2>5. QED
    BY <1>7, <2>4
<1>10. CASE EndSpan
  <2>1. SpanStops(e) /\ SpansInv' /\ Sequence(spans)' /\ Sequence(active)'
    BY <1>2, <1>3, <1>10, Ended1
  <2>2. DOMAIN to_host' = Cards
    BY <1>10 DEF EndSpan, FinishSpan
  <2>3. \A c \in Cards : Sequence(to_host'[c])
    <3>1. SUFFICES ASSUME NEW c \in Cards PROVE Sequence(to_host'[c])
      OBVIOUS
    <3>2. PICK n : to_host'[c] = IF Delivers(e, c) THEN Append(to_host[c], Context(OfNetwork(n)))
                                 ELSE to_host[c]
      BY <2>1, <3>1 DEF SpanStops
    <3>3. Sequence(to_host[c])
      BY <3>1 DEF TypeInv
    <3>4. CASE ~Delivers(e, c)
      BY <3>2, <3>3, <3>4
    <3>5. CASE Delivers(e, c)
      <4>1. PICK t, x : t = to_host'[c] /\ t = Append(to_host[c], x)
        BY <3>2, <3>5
      <4>2. Extended(t, to_host[c], x)
        BY <3>3, <4>1, Appending
      <4>3. QED
        BY <4>1, <4>2 DEF Extended
    <3>6. QED
      BY <3>4, <3>5
  <2>4. TypeInv'
    BY <1>3, <1>5, <2>1, <2>2, <2>3, TypeKept
  <2>5. QED
    BY <1>2, <1>3, <2>1, <2>4 DEF Handled
<1>11. CASE IgnoreEnd
  <2>1. NoSpan(e)
    BY <1>1, <1>3, <1>11, TakingIs
       DEF IgnoreEnd, NoSpan, IsUnmatched, Begins, IsEnqueue, IsType
  <2>2. QED
    BY <1>7, <2>1
<1>12. CASE StartTrace
  <2>1. StartsTrace(e) /\ StartDeviceSpan(<<>>, e)
        /\ UNCHANGED <<last, finished, to_host, terminated>>
    BY <1>1, <1>12 DEF StartTrace
  <2>2. Begins(e) /\ Taking(e) = {}
    BY <2>1 DEF StartsTrace, IsStart, IsUnmatched, Begins, IsEnqueue, IsType, OfInterest
  <2>3. QED
    BY <1>8, <2>1, <2>2
<1>13. CASE IgnoreUninteresting
  <2>1. IsStart(e) /\ ~e.interesting /\ ~StartsTrace(e)
        /\ UNCHANGED <<spans, active, last, finished, to_host, terminated>>
    BY <1>1, <1>13 DEF IgnoreUninteresting
  <2>2. ~Begins(e) /\ Taking(e) = {}
    BY <2>1 DEF StartsTrace, IsStart, IsUnmatched, Begins, OfInterest
  <2>3. NoSpan(e)
    BY <1>3, <2>1, <2>2, TakingIs DEF NoSpan
  <2>4. QED
    BY <1>7, <2>3
<1>14. ASSUME IsStart(e), e.interesting
       PROVE  Begins(e) /\ Taking(e) = {}
  BY <1>14 DEF IsStart, IsUnmatched, IsFiltered, IsNotInterestingNodeDevice, Begins,
               IsEnqueue, IsType, OfInterest
<1>15. CASE StartFromAdapter
  <2>1. PICK par : StartDeviceSpan(par, e)
    BY <1>1, <1>15 DEF StartFromAdapter
  <2>2. IsFromAdapter(e) /\ UNCHANGED <<last, finished, to_host, terminated>>
    BY <1>1, <1>15 DEF StartFromAdapter
  <2>3. QED
    BY <1>8, <1>14, <2>1, <2>2 DEF IsFromAdapter
<1>16. CASE StartWithin
  <2>1. PICK par : StartDeviceSpan(par, e)
    BY <1>1, <1>16 DEF StartWithin
  <2>2. IsWithin(e) /\ UNCHANGED <<last, finished, to_host, terminated>>
    BY <1>1, <1>16 DEF StartWithin
  <2>3. QED
    BY <1>8, <1>14, <2>1, <2>2 DEF IsWithin
<1>17. QED
  BY <1>9, <1>10, <1>11, <1>12, <1>13, <1>15, <1>16 DEF Handle, HandelNetworkEvent

--------------------------------------------------------------------------------
(* The invariant is kept as an event is handled.                           *)

(* The positions of the log, with the first event gone.                    *)
LEMMA LogTaken ==
  ASSUME Taken(log', log)
  PROVE  /\ Len(log) \in Nat \ {0} /\ DOMAIN log = 1 .. Len(log)
         /\ Len(log') = Len(log) - 1 /\ DOMAIN log' = 1 .. Len(log) - 1
         /\ \A k \in DOMAIN log' : log'[k] = log[k + 1]
         /\ \A p : \A k, l \in Nat \ {0} : NoneOf(p, k + 1, l + 1) => NoneOf(p, k, l)'
<1>1. PICK n : n = Len(log) /\ n \in Nat \ {0} /\ DOMAIN log = 1 .. n
  BY DEF Taken
<1>2. DOMAIN log' = 1 .. n - 1 /\ \A k \in DOMAIN log' : log'[k] = log[k + 1]
  BY <1>1 DEF Taken
<1>3. Len(log') = n - 1
  <2>1. PICK t, S : t = log' /\ t \in Seq(S) /\ DOMAIN t = 1 .. n - 1
    BY <1>2 DEF Taken, Sequence
  <2>2. Len(t) = n - 1
    BY <1>1, <2>1
  <2>3. QED
    BY <2>1, <2>2
<1>4. ASSUME NEW p, NEW k \in Nat \ {0}, NEW l \in Nat \ {0}, NoneOf(p, k + 1, l + 1)
      PROVE  NoneOf(p, k, l)'
  <2>1. SUFFICES ASSUME NEW m \in DOMAIN log', k <= m, m < l
                 PROVE  log'[m].packet_uid # p
    BY DEF NoneOf
  <2>2. m + 1 \in DOMAIN log /\ k + 1 <= m + 1 /\ m + 1 < l + 1 /\ log'[m] = log[m + 1]
    BY <1>1, <1>2, <2>1
  <2>3. QED
    BY <1>4, <2>2 DEF NoneOf
<1>5. QED
  BY <1>1, <1>2, <1>3, <1>4

(* What will end still will, one position nearer.                          *)
LEMMA WillEndTaken ==
  ASSUME Taken(log', log), UNCHANGED simulation, NEW e, NEW k \in Nat \ {0}, WillEnd(e, k + 1)
  PROVE  WillEnd(e, k)'
<1>1. PICK n : n = Len(log) /\ n \in Nat \ {0} /\ DOMAIN log = 1 .. n
  BY LogTaken
<1>2. /\ Len(log') = n - 1 /\ DOMAIN log' = 1 .. n - 1
      /\ \A m \in DOMAIN log' : log'[m] = log[m + 1]
  BY <1>1, LogTaken
<1>3. PICK p : p = e.packet_uid
  OBVIOUS
<1>4. UNCHANGED <<scenario, inside, hop>>
  BY DEF simulation
<1>5. CASE \E l \in DOMAIN log : k + 1 <= l /\ Ends(e, log[l]) /\ NoneOf(p, k + 1, l)
  <2>1. PICK l \in DOMAIN log : k + 1 <= l /\ Ends(e, log[l]) /\ NoneOf(p, k + 1, l)
    BY <1>5
  <2>2. PICK m : m = l - 1 /\ m \in Nat \ {0} /\ m + 1 = l /\ k <= m /\ m \in DOMAIN log'
    BY <1>1, <1>2, <2>1
  <2>3. NoneOf(p, k, m)'
    BY <2>1, <2>2, LogTaken
  <2>4. Ends(e, log'[m])
    BY <1>2, <2>1, <2>2
  <2>5. Ends(e, log[m])'
    BY <1>4, <2>4, SameScenario
  <2>6. QED
    BY <1>3, <2>2, <2>3, <2>5 DEF WillEnd
<1>6. CASE p \in inside /\ IsEventIn(e, Here(p)) /\ NoneOf(p, k + 1, n + 1)
  <2>1. NoneOf(p, k, n)'
    BY <1>1, <1>6, LogTaken
  <2>2. (n - 1) + 1 = n
    BY <1>1
  <2>3. NoneOf(p, k, Len(log) + 1)'
    BY <1>2, <2>1, <2>2
  <2>4. Here(p)' = Here(p)
    BY <1>4, SameScenario DEF Here
  <2>5. IsEventIn(e, Here(p))'
    BY <1>4, <1>6, <2>4, SameScenario
  <2>6. QED
    BY <1>3, <1>4, <1>6, <2>3, <2>5 DEF WillEnd
<1>7. QED
  BY <1>1, <1>3, <1>5, <1>6 DEF WillEnd

(* The event that is handled is not the end of a span that stays.          *)
LEMMA WillEndLater ==
  ASSUME DOMAIN log \subseteq Nat \ {0}, NEW e, WillEnd(e, 1), log[1].packet_uid # e.packet_uid
  PROVE  WillEnd(e, 1 + 1)
<1>1. \A l : NoneOf(e.packet_uid, 1, l) => NoneOf(e.packet_uid, 1 + 1, l)
  BY DEF NoneOf
<1>2. \A l \in DOMAIN log : Ends(e, log[l]) => l # 1
  BY DEF Ends
<1>3. QED
  BY <1>1, <1>2 DEF WillEnd

(* The spans that are not finished afterwards: one that begins with the    *)
(* event, and those of other packets.                                      *)
LEMMA UnfinishedThen ==
  ASSUME SpansInv, NEW e, Handled(e)
  PROVE  /\ DOMAIN spans \subseteq DOMAIN spans'
         /\ \A i \in DOMAIN spans : EnqueueOf(i)' = EnqueueOf(i) /\ PacketOf(i)' = PacketOf(i)
         /\ \A i \in Unfinished' : 
              \/ Begins(e) /\ EnqueueOf(i)' = e /\ PacketOf(i)' = e.packet_uid
              \/ /\ i \in Unfinished /\ EnqueueOf(i)' = EnqueueOf(i)
                 /\ PacketOf(i)' = PacketOf(i) /\ PacketOf(i) # e.packet_uid
         /\ \A i \in Unfinished : PacketOf(i) # e.packet_uid => i \in Unfinished'
         /\ Begins(e) => \E i \in Unfinished' : PacketOf(i)' = e.packet_uid
<1>1. Unfinished \subseteq DOMAIN spans
  BY DEF SpansInv
<1>2. \A i : PacketOf(i) = EnqueueOf(i).packet_uid /\ PacketOf(i)' = EnqueueOf(i)'.packet_uid
  BY DEF PacketOf, EnqueueOf
<1>3. CASE SpanStarts(e)
  BY <1>1, <1>2, <1>3 DEF SpanStarts, NoSpanOf
<1>4. CASE SpanStops(e)
  <2>1. ~Begins(e)
    BY <1>4 DEF SpanStops, Begins
  <2>2. PICK n \in Unfinished :
         /\ PacketOf(n) = e.packet_uid
         /\ Unfinished' = Unfinished \ {n} /\ last' = <<n>>
         /\ DOMAIN spans' = DOMAIN spans
         /\ \A i \in DOMAIN spans : EnqueueOf(i)' = EnqueueOf(i)
    BY <1>4 DEF SpanStops
  <2>3. \A i \in Unfinished : PacketOf(i) = e.packet_uid => i = n
    BY <2>2 DEF SpansInv
  <2>4. QED
    BY <1>1, <1>2, <2>1, <2>2, <2>3
<1>5. CASE NoSpan(e)
  <2>1. UNCHANGED <<spans, active, last>>
    BY <1>5 DEF NoSpan
  <2>2. Unfinished' = Unfinished /\ \A i : EnqueueOf(i)' = EnqueueOf(i)
    BY <2>1 DEF Unfinished, EnqueueOf
  <2>3. ~Begins(e) /\ NoSpanOf(e.packet_uid)
    BY <1>5 DEF NoSpan
  <2>4. QED
    BY <1>1, <1>2, <2>1, <2>2, <2>3 DEF NoSpanOf
<1>6. QED
  BY <1>3, <1>4, <1>5 DEF Handled

(* The spans still end.                                                    *)
LEMMA EndsHandled ==
  ASSUME TypeInv, SpansInv, EndsInv, SimulationInv, NEW e, Handled(e)
  PROVE  EndsInv'
<1>1. Taken(log', log) /\ UNCHANGED simulation /\ IsNext(e)
  BY DEF Handled
<1>2. DOMAIN log \subseteq Nat \ {0} /\ 1 \in DOMAIN log /\ e = log[1]
  BY <1>1, NextEventIs
<1>3. ASSUME NEW i \in Unfinished' PROVE WillEnd(EnqueueOf(i), 1)'
  <2>1. PICK x : x = EnqueueOf(i)'
    OBVIOUS
  <2>2. CASE Begins(e) /\ x = e
    <3>1. WillEnd(e, 1 + 1)
      BY <1>2, <2>2 DEF EndsInv
    <3>2. QED
      BY <1>1, <2>1, <2>2, <3>1, WillEndTaken
  <2>3. CASE i \in Unfinished /\ x = EnqueueOf(i) /\ PacketOf(i) # e.packet_uid
    <3>1. WillEnd(x, 1) /\ x.packet_uid # log[1].packet_uid
      BY <1>2, <2>3 DEF EndsInv, PacketOf, EnqueueOf
    <3>2. WillEnd(x, 1 + 1)
      BY <1>2, <3>1, WillEndLater
    <3>3. WillEnd(x, 1)'
      BY <1>1, <3>2, WillEndTaken
    <3>4. QED
      BY <2>1, <3>3
  <2>4. QED
    BY <1>3, <2>1, <2>2, <2>3, UnfinishedThen
<1>4. ASSUME NEW k \in DOMAIN log', NEW x, x = log'[k], Begins(x)
      PROVE  WillEnd(x, k + 1)'
  <2>1. k \in Nat \ {0} /\ k + 1 \in DOMAIN log /\ x = log[k + 1]
    BY <1>1, <1>4, LogTaken
  <2>2. PICK j : j = k + 1 /\ j \in Nat \ {0} /\ j \in DOMAIN log
    BY <2>1
  <2>3. WillEnd(x, j + 1)
    BY <1>4, <2>1, <2>2 DEF EndsInv
  <2>4. WillEnd(x, j)'
    BY <1>1, <2>2, <2>3, WillEndTaken
  <2>5. QED
    BY <2>2, <2>4
<1>5. ASSUME NEW k \in DOMAIN log', Begins(log'[k])
      PROVE  WillEnd(log[k], k + 1)'
  <2>1. PICK x : x = log'[k]
    OBVIOUS
  <2>2. WillEnd(x, k + 1)'
    BY <1>4, <1>5, <2>1
  <2>3. QED
    BY <2>1, <2>2
<1>6. QED
  BY <1>3, <1>5 DEF EndsInv

(* What was before the event is still, one position nearer.                *)
LEMMA BegunTaken ==
  ASSUME SpansInv, TypeInv, SimulationInv, NEW e, Handled(e), NEW p, NEW k \in Nat \ {0}
  PROVE  /\ HasBegun(p, k + 1) => HasBegun(p, k)'
         /\ IsIn(p, k + 1) => IsIn(p, k)'
<1>1. Taken(log', log) /\ IsNext(e)
  BY DEF Handled
<1>2. PICK n : n = Len(log) /\ n \in Nat \ {0} /\ DOMAIN log = 1 .. n
  BY <1>1, LogTaken
<1>3. DOMAIN log' = 1 .. n - 1 /\ \A m \in DOMAIN log' : log'[m] = log[m + 1]
  BY <1>1, <1>2, LogTaken
<1>4. e = log[1]
  BY <1>1, NextEventIs
<1>5. ASSUME NEW l \in DOMAIN log, l < k + 1, log[l].packet_uid = p, Begins(log[l])
      PROVE  \/ l = 1 /\ \E i \in Unfinished' : PacketOf(i)' = p
             \/ \E m \in DOMAIN log' : /\ m + 1 = l /\ m < k /\ m \in Nat \ {0}
                                       /\ log'[m].packet_uid = p /\ Begins(log'[m])
  <2>1. CASE l = 1
    BY <1>4, <1>5, <2>1, UnfinishedThen
  <2>2. CASE l # 1
    <3>1. PICK m : m = l - 1 /\ m + 1 = l /\ m < k /\ m \in DOMAIN log' /\ m \in Nat \ {0}
      BY <1>2, <1>3, <1>5, <2>2
    <3>2. log'[m] = log[l]
      BY <1>3, <3>1
    <3>3. QED
      BY <1>5, <3>1, <3>2
  <2>3. QED
    BY <2>1, <2>2
<1>6. ASSUME HasBegun(p, k + 1) PROVE HasBegun(p, k)'
  <2>1. CASE \E i \in DOMAIN spans : PacketOf(i) = p
    BY <2>1, UnfinishedThen DEF HasBegun
  <2>2. CASE \E l \in DOMAIN log : l < k + 1 /\ log[l].packet_uid = p /\ Begins(log[l])
    <3>1. Unfinished' \subseteq DOMAIN spans'
      BY DEF Handled, SpansInv
    <3>2. QED
      BY <1>5, <2>2, <3>1 DEF HasBegun
  <2>3. QED
    BY <1>6, <2>1, <2>2 DEF HasBegun
<1>7. ASSUME IsIn(p, k + 1) PROVE IsIn(p, k)'
  <2>1. CASE (\E i \in Unfinished : PacketOf(i) = p) /\ NoneOf(p, 1, k + 1)
    <3>1. PICK i \in Unfinished : PacketOf(i) = p
      BY <2>1
    <3>2. 1 \in DOMAIN log /\ 1 < k + 1
      BY <1>2
    <3>3. p # e.packet_uid
      BY <1>4, <2>1, <3>2 DEF NoneOf
    <3>4. i \in Unfinished' /\ PacketOf(i)' = p
      BY <3>1, <3>3, UnfinishedThen DEF SpansInv
    <3>5. NoneOf(p, 1 + 1, k + 1)
      BY <1>2, <2>1 DEF NoneOf
    <3>6. NoneOf(p, 1, k)'
      BY <1>1, <3>5, LogTaken
    <3>7. QED
      BY <3>4, <3>6 DEF IsIn
  <2>2. CASE \E l \in DOMAIN log : /\ l < k + 1 /\ log[l].packet_uid = p /\ Begins(log[l])
                                   /\ NoneOf(p, l + 1, k + 1)
    <3>1. PICK l \in DOMAIN log : /\ l < k + 1 /\ log[l].packet_uid = p /\ Begins(log[l])
                                  /\ NoneOf(p, l + 1, k + 1)
      BY <2>2
    <3>2. l \in Nat \ {0}
      BY <1>2
    <3>3. NoneOf(p, l, k)'
      BY <1>1, <3>1, <3>2, LogTaken
    <3>4. QED
      BY <1>5, <3>1, <3>3 DEF IsIn
  <2>3. QED
    BY <1>7, <2>1, <2>2 DEF IsIn
<1>8. QED
  BY <1>6, <1>7

(* Packets that are on their way have begun it.                            *)
LEMMA BeginsHandled ==
  ASSUME TypeInv, SpansInv, SimulationInv, BeginsInv, NEW e, Handled(e)
  PROVE  BeginsInv'
<1>1. Taken(log', log) /\ IsNext(e) /\ UNCHANGED <<scenario, hop, inside>>
  BY DEF Handled, simulation
<1>2. PICK n : n = Len(log) /\ n \in Nat \ {0} /\ Len(log') + 1 = n
  BY <1>1, LogTaken
<1>3. ASSUME NEW k \in DOMAIN log' PROVE k \in Nat \ {0} /\ k + 1 \in DOMAIN log /\ log'[k] = log[k + 1]
  BY <1>1, <1>3, LogTaken
<1>4. /\ Packets' = Packets /\ \A p : Here(p)' = Here(p)
      /\ \A p, h : HopOfInterest(p, h)' <=> HopOfInterest(p, h)
  BY <1>1, SameScenario DEF Here
<1>5. ASSUME NEW p \in DOMAIN Packets, Packets[p].interesting, hop[p] > 1 \/ p \in inside
      PROVE  HasBegun(p, Len(log) + 1)'
  <2>1. HasBegun(p, n + 1)
    BY <1>2, <1>5 DEF BeginsInv
  <2>2. HasBegun(p, n)'
    BY <1>2, <2>1, BegunTaken
  <2>3. QED
    BY <1>2, <2>2
<1>6. ASSUME NEW k \in DOMAIN log', IsEnqueue(log'[k]), log'[k].interesting,
             log'[k].boundary # "kFromAdapter"
      PROVE  HasBegun(log[k].packet_uid, k)'
  <2>1. HasBegun(log[k + 1].packet_uid, k + 1)
    BY <1>3, <1>6 DEF BeginsInv
  <2>2. PICK p : p = log'[k].packet_uid /\ p = log[k + 1].packet_uid
    BY <1>3
  <2>3. HasBegun(p, k)'
    BY <1>3, <2>1, <2>2, BegunTaken
  <2>4. QED
    BY <2>2, <2>3
<1>7. ASSUME NEW p \in inside, HopOfInterest(p, Here(p))
      PROVE  IsIn(p, Len(log) + 1)'
  <2>1. IsIn(p, n + 1)
    BY <1>2, <1>7 DEF BeginsInv
  <2>2. IsIn(p, n)'
    BY <1>2, <2>1, BegunTaken
  <2>3. QED
    BY <1>2, <2>2
<1>8. ASSUME NEW k \in DOMAIN log', IsType(log'[k], "kNetworkDequeueT"), OfInterest(log'[k])
      PROVE  IsIn(log[k].packet_uid, k)'
  <2>1. IsIn(log[k + 1].packet_uid, k + 1)
    BY <1>3, <1>8 DEF BeginsInv
  <2>2. PICK p : p = log'[k].packet_uid /\ p = log[k + 1].packet_uid
    BY <1>3
  <2>3. IsIn(p, k)'
    BY <1>3, <2>1, <2>2, BegunTaken
  <2>4. QED
    BY <2>2, <2>3
<1>9. QED
  BY <1>1, <1>4, <1>5, <1>6, <1>7, <1>8 DEF BeginsInv

(* A packet is handed to a card in a device of interest.                   *)
LEMMA DeliversIs ==
  ASSUME scenario \in DOMAIN Scenarios, NEW e, IsLogged(e), NEW c \in Cards, Delivers(e, c)
  PROVE  OfInterest(e) /\ IsType(e, "kNetworkDequeueT")
<1>1. PICK h \in HopsOf(e.packet_uid) : IsEventIn(e, h) /\ e.packet_uid \in DOMAIN Packets
  BY DEF IsLogged
<1>2. e.type = "kNetworkDequeueT" /\ h.deq = "kToAdapter"
  BY <1>1 DEF Delivers, IsType, IsEventIn
<1>3. e.device_type = "kCosimNetDevice"
  BY <1>1, <1>2, HopIs DEF HasAdapter, IsEventIn
<1>4. <<e.node, e.device>> \in DOMAIN host_channels /\ host_channels[<<e.node, e.device>>] \in Cards
  BY DEF Delivers, CardAt
<1>5. <<e.node, e.device>> \in node_device_filter
  BY <1>4 DEF host_channels, Cards, node_device_filter
<1>6. QED
  BY <1>2, <1>3, <1>5 DEF OfInterest, IsInterestingNodeDevice, IsType

(* The contexts stay those of the packets.                                 *)
LEMMA DeliveredHandled ==
  ASSUME TypeInv, SpansInv, SimulationInv, BeginsInv, DeliveredInv, NEW e, Handled(e)
  PROVE  DeliveredInv'
<1>1. Taken(log', log) /\ IsNext(e) /\ UNCHANGED <<scenario, delivered>>
  BY DEF Handled, simulation
<1>2. PICK n : n = Len(log) /\ n \in Nat \ {0} /\ DOMAIN log = 1 .. n
  BY <1>1, LogTaken
<1>3. DOMAIN log' = 1 .. n - 1 /\ \A k \in DOMAIN log' : log'[k] = log[k + 1]
  BY <1>1, <1>2, LogTaken
<1>4. e = log[1] /\ 1 \in DOMAIN log /\ IsLogged(e) /\ scenario \in DOMAIN Scenarios
  BY <1>1, <1>2, NextEventIs DEF SimulationInv
<1>5. ASSUME NEW c \in Cards, NEW s2, s2 = to_host'[c],
             \A k \in DOMAIN s2 : IsSentFor(s2[k], delivered[c][k])
      PROVE  AllSentFor(c)'
  <2>1. \A i \in DOMAIN spans : i \in DOMAIN spans' /\ PacketOf(i)' = PacketOf(i)
    BY UnfinishedThen
  <2>2. \A k \in DOMAIN s2 : /\ s2[k].parent[2] \in DOMAIN spans'
                            /\ PacketOf(s2[k].parent[2]) = delivered[c][k]
                            /\ PacketOf(s2[k].parent[2])' = PacketOf(s2[k].parent[2])
    BY <1>5, <2>1 DEF IsSentFor
  <2>3. QED
    BY <1>1, <1>5, <2>2 DEF AllSentFor, IsSentFor, PacketOf
<1>6. SUFFICES ASSUME NEW c \in Cards
               PROVE  /\ AllSentFor(c)'
                      /\ Tells(Deliveries(c), Len(to_host[c]), delivered[c], log)'
  BY <1>1 DEF DeliveredInv
<1>7. PICK s, t, q : s = to_host[c] /\ Sequence(s) /\ t = Len(s) /\ t \in Nat /\ DOMAIN s = 1 .. t
                     /\ q = delivered[c] /\ Sequence(q)
  <2>1. PICK s : s = to_host[c] /\ Sequence(s)
    BY DEF TypeInv
  <2>2. Len(s) \in Nat /\ DOMAIN s = 1 .. Len(s)
    BY <2>1 DEF Sequence
  <2>3. QED
    BY <2>1, <2>2 DEF TypeInv
<1>8. Tells(Deliveries(c), t, q, log) /\ \A k \in 1 .. t : IsSentFor(s[k], q[k])
  BY <1>7 DEF DeliveredInv, AllSentFor
<1>9. PICK K, K2 : K = Deliveries(c) /\ K2 = Deliveries(c)'
  OBVIOUS
<1>10. K \in SUBSET (1 .. n) /\ K2 = {k \in 1 .. n - 1 : k + 1 \in K} /\ (1 \in K <=> Delivers(e, c))
  BY <1>2, <1>3, <1>4, <1>9 DEF Deliveries, Delivers, CardAt
<1>11. /\ 1 \notin K => Tells(K2, t, q, log')
       /\ 1 \in K => q[t + 1] = e.packet_uid /\ Tells(K2, t + 1, q, log')
  <2>1. PICK l, l2 : l = log /\ l2 = log'
    OBVIOUS
  <2>2. /\ n \in Nat \ {0} /\ K \in SUBSET (1 .. n) /\ t \in Nat /\ Sequence(q)
        /\ Tells(K, t, q, l) /\ \A k \in 1 .. n - 1 : l2[k] = l[k + 1]
        /\ K2 \in SUBSET (1 .. n - 1) /\ \A k \in 1 .. n - 1 : k \in K2 <=> k + 1 \in K
    BY <1>2, <1>3, <1>7, <1>8, <1>9, <1>10, <2>1
  <2>3. 1 \notin K => Tells(K2, t, q, l2)
    BY <2>2, TellsTaken, Zenon
  <2>4. 1 \in K => Tells(K2, t + 1, q, l2)
    BY <2>2, TellsTaken, Zenon
  <2>5. 1 \in K => q[t + 1] = l[1].packet_uid
    <3>1. n \in Nat /\ \E place : IsPlacing(place, K, t, q, l)
      BY <2>2 DEF Tells
    <3>2. 1 \in K => \E place : IsFirst(place, t, q, l)
      BY <2>2, <3>1, TellsFirst
    <3>3. QED
      BY <3>2 DEF IsFirst
  <2>6. QED
    BY <1>4, <2>1, <2>3, <2>4, <2>5
<1>12. CASE ~Delivers(e, c)
  <2>1. to_host'[c] = s
    BY <1>7, <1>12 DEF Handled, SpanStarts, SpanStops, NoSpan
  <2>2. AllSentFor(c)'
    BY <1>5, <1>7, <1>8, <2>1
  <2>3. QED
    BY <1>1, <1>7, <1>9, <1>10, <1>11, <1>12, <2>1, <2>2
<1>13. CASE Delivers(e, c)
  <2>1. ~NoSpanOf(e.packet_uid)
    <3>1. IsIn(e.packet_uid, 1)
      BY <1>4, <1>13, DeliversIs DEF BeginsInv
    <3>2. QED
      BY <1>2, <3>1 DEF IsIn, NoSpanOf
  <2>2. PICK i \in Unfinished :
          PacketOf(i) = e.packet_uid /\ to_host'[c] = Append(to_host[c], Context(OfNetwork(i)))
    BY <1>13, <2>1 DEF Handled, SpanStarts, SpanStops, NoSpan
  <2>3. PICK x, s2 : x = Context(OfNetwork(i)) /\ s2 = to_host'[c] /\ s2 = Append(s, x)
    BY <1>7, <2>2
  <2>4. /\ Len(s2) = t + 1 /\ DOMAIN s2 = 1 .. t + 1 /\ s2[t + 1] = x
        /\ \A k \in 1 .. t : s2[k] = s[k]
    BY <1>7, <2>3, Appending DEF Extended
  <2>5. IsSentFor(x, q[t + 1])
    <3>1. x.parent[2] = i /\ i \in DOMAIN spans
      BY <2>2, <2>3 DEF Context, OfNetwork, SpansInv
    <3>2. QED
      BY <1>10, <1>11, <1>13, <2>2, <3>1 DEF IsSentFor
  <2>6. \A k \in 1 .. t + 1 : k \in 1 .. t \/ k = t + 1
    BY <1>7
  <2>7. \A k \in DOMAIN s2 : IsSentFor(s2[k], q[k])
    BY <1>8, <2>4, <2>5, <2>6
  <2>8. AllSentFor(c)'
    BY <1>5, <1>7, <2>3, <2>7
  <2>9. QED
    BY <1>1, <1>7, <1>9, <1>10, <1>11, <1>13, <2>3, <2>4, <2>8
<1>14. QED
  BY <1>12, <1>13

(* What is not touched stays as it was.                                    *)
LEMMA AllKept ==
  ASSUME NetworkInv,
         UNCHANGED <<log, spans, active, last, finished, to_host, scenario, hop, inside, delivered>>
  PROVE  TypeInv' /\ SpansInv' /\ EndsInv' /\ BeginsInv' /\ DeliveredInv' /\ SimulationInv'
<1> USE DEF NetworkInv
<1>1. /\ Unfinished' = Unfinished /\ Packets' = Packets
      /\ \A i : EnqueueOf(i)' = EnqueueOf(i) /\ PacketOf(i)' = PacketOf(i)
      /\ \A p : Here(p)' = Here(p) /\ (Over(p)' <=> Over(p)) /\ Route(p)' = Route(p)
      /\ \A p, k, l : NoneOf(p, k, l)' <=> NoneOf(p, k, l)
  BY SameScenario DEF Unfinished, EnqueueOf, PacketOf, Here, Over, NoneOf
<1>2. TypeInv'
  BY DEF TypeInv
<1>3. SpansInv'
  BY <1>1, SameScenario DEF SpansInv
<1>4. \A e, k : WillEnd(e, k)' <=> WillEnd(e, k)
  BY <1>1, SameScenario DEF WillEnd
<1>5. EndsInv'
  <2>1. ASSUME NEW i \in Unfinished' PROVE WillEnd(EnqueueOf(i), 1)'
    <3>1. PICK x : x = EnqueueOf(i) /\ x = EnqueueOf(i)'
      BY <1>1
    <3>2. WillEnd(x, 1)'
      BY <1>1, <1>4, <2>1, <3>1 DEF EndsInv
    <3>3. QED
      BY <3>1, <3>2
  <2>2. ASSUME NEW k \in DOMAIN log', Begins(log'[k]) PROVE WillEnd(log[k], k + 1)'
    <3>1. PICK x : x = log[k] /\ x = log'[k]
      OBVIOUS
    <3>2. WillEnd(x, k + 1)'
      BY <1>4, <2>2, <3>1 DEF EndsInv
    <3>3. QED
      BY <3>1, <3>2
  <2>3. QED
    BY <2>1, <2>2 DEF EndsInv
<1>6. \A p, k : (HasBegun(p, k)' <=> HasBegun(p, k)) /\ (IsIn(p, k)' <=> IsIn(p, k))
  BY <1>1 DEF HasBegun, IsIn
<1>7. BeginsInv'
  <2>1. \A p \in DOMAIN Packets' : Packets'[p].interesting /\ (hop'[p] > 1 \/ p \in inside') =>
          HasBegun(p, Len(log) + 1)'
    BY <1>1, <1>6 DEF BeginsInv
  <2>2. ASSUME NEW k \in DOMAIN log', IsEnqueue(log'[k]), log'[k].interesting,
               log'[k].boundary # "kFromAdapter"
        PROVE  HasBegun(log[k].packet_uid, k)'
    <3>1. PICK p : p = log[k].packet_uid /\ p = log'[k].packet_uid
      OBVIOUS
    <3>2. HasBegun(p, k)'
      BY <1>6, <2>2, <3>1 DEF BeginsInv
    <3>3. QED
      BY <3>1, <3>2
  <2>3. \A p \in inside' : HopOfInterest(p, Here(p))' => IsIn(p, Len(log) + 1)'
    BY <1>1, <1>6, SameScenario DEF BeginsInv, HopOfInterest
  <2>4. ASSUME NEW k \in DOMAIN log', IsType(log'[k], "kNetworkDequeueT"), OfInterest(log'[k])
        PROVE  IsIn(log[k].packet_uid, k)'
    <3>1. PICK p : p = log[k].packet_uid /\ p = log'[k].packet_uid
      OBVIOUS
    <3>2. IsIn(p, k)'
      BY <1>6, <2>4, <3>1 DEF BeginsInv
    <3>3. QED
      BY <3>1, <3>2
  <2>5. QED
    BY <2>1, <2>2, <2>3, <2>4 DEF BeginsInv
<1>8. DeliveredInv'
  <2>1. \A c : Deliveries(c)' = Deliveries(c)
    BY DEF Deliveries
  <2>2. \A c : AllSentFor(c)' <=> AllSentFor(c)
    BY DEF AllSentFor, IsSentFor, PacketOf
  <2>3. QED
    BY <2>1, <2>2 DEF DeliveredInv
<1>9. SimulationInv'
  BY <1>1, SameScenario DEF SimulationInv
<1>10. QED
  BY <1>2, <1>3, <1>5, <1>7, <1>8, <1>9

(* The program ends only because of a packet without addresses.            *)
LEMMA ThrowsInv == NetworkInv /\ Handle /\ Throws => NetworkInv'
<1> SUFFICES ASSUME NetworkInv, Handle, Throws PROVE NetworkInv'
  OBVIOUS
<1> USE DEF NetworkInv
<1>1. PICK e : e = Next_ /\ IsNext(e)
  BY DEF Throws, IsNext
<1>2. IsLogged(e) /\ scenario \in DOMAIN Scenarios /\ e = log[1] /\ 1 \in DOMAIN log
      /\ DOMAIN log \subseteq Nat \ {0}
  BY <1>1, NextEventIs DEF SimulationInv
<1>3. UNCHANGED <<log, spans, active, last, finished, to_host>> /\ UNCHANGED simulation
  BY DEF Throws, Handle
<1>4. TypeInv' /\ SpansInv' /\ EndsInv' /\ BeginsInv' /\ DeliveredInv' /\ SimulationInv'
  BY <1>3, AllKept DEF simulation
<1>5. CASE CannotDeliver(e)
  <2>1. PICK n, t : n = active[First(Taking(e))] /\ t = AddToSpan(spans[n], e)
    OBVIOUS
  <2>2. Taking(e) # {} /\ LeavesForCard(t) /\ (~HasIpsSet(t) \/ ~HasValidChannel(e))
    BY <1>5, <2>1 DEF CannotDeliver, EndedSpan
  <2>3. n \in Unfinished /\ Ends(EnqueueOf(n), e)
    BY <1>1, <2>1, <2>2, TakingIs
  <2>4. IsUnfinished(spans[n]) /\ Ends(spans[n].dev_enq[1], e)
    BY <2>3 DEF SpansInv, EnqueueOf
  <2>5. e.boundary = "kToAdapter" /\ Packets[e.packet_uid].header \notin {"arp", "ip"}
    BY <1>2, <2>1, <2>2, <2>4, LeavesIf
  <2>6. log # <<>> /\ Head(log) = e
    BY <1>1 DEF IsNext, Next_
  <2>7. TerminatedInv'
    BY <1>3, <2>5, <2>6, SameScenario DEF TerminatedInv, simulation
  <2>8. QED
    BY <1>4, <2>7
<1>6. CASE IsFromAdapter(e) /\ (e.device_type # "kCosimNetDevice" \/ ~HasValidChannel(e))
  <2>1. PICK h \in HopsOf(e.packet_uid) : IsEventIn(e, h) /\ e.packet_uid \in DOMAIN Packets
    BY <1>2 DEF IsLogged
  <2>2. h.enq = "kFromAdapter"
    BY <1>6, <2>1 DEF IsFromAdapter, IsStart, IsType, IsEventIn
  <2>3. HasAdapter(h)
    BY <1>2, <2>1, <2>2, HopIs
  <2>4. QED
    BY <1>6, <2>1, <2>3 DEF HasAdapter, HasValidChannel, Device, IsEventIn
<1>7. CASE IsWithin(e) /\ last = <<>>
  <2>1. IsEnqueue(e) /\ e.interesting /\ e.boundary # "kFromAdapter" /\ Taking(e) = {}
    BY <1>7 DEF IsWithin, IsStart, IsUnmatched, IsType, IsEnqueue
  <2>2. NoSpanOf(e.packet_uid)
    BY <1>1, <2>1, TakingIs
  <2>3. HasBegun(e.packet_uid, 1)
    BY <1>2, <2>1 DEF BeginsInv
  <2>4. PICK i \in DOMAIN spans : PacketOf(i) = e.packet_uid
    BY <1>2, <2>3 DEF HasBegun
  <2>5. i \in finished
    BY <2>2, <2>4 DEF NoSpanOf, SpansInv
  <2>6. QED
    BY <1>7, <2>5 DEF SpansInv
<1>8. QED
  BY <1>1, <1>5, <1>6, <1>7 DEF Throws, CannotConnect

(* Handling an event keeps the invariant.                                  *)
LEMMA HandleInv == NetworkInv /\ Handle => NetworkInv'
<1> SUFFICES ASSUME NetworkInv, Handle, ~Throws PROVE NetworkInv'
  BY ThrowsInv
<1> USE DEF NetworkInv
<1>1. PICK e : Handled(e)
  BY HandleIs
<1>2. TypeInv' /\ SpansInv'
  BY <1>1 DEF Handled
<1>3. EndsInv' /\ BeginsInv' /\ DeliveredInv'
  BY <1>1, EndsHandled, BeginsHandled, DeliveredHandled
<1>4. SimulationInv'
  <2>1. Taken(log', log) /\ UNCHANGED <<scenario, hop, inside>>
    BY <1>1 DEF Handled, simulation
  <2>2. \A k \in DOMAIN log' : k + 1 \in DOMAIN log /\ log'[k] = log[k + 1]
    BY <2>1, LogTaken
  <2>3. \A k \in DOMAIN log' : IsLogged(log'[k])
    BY <2>2 DEF SimulationInv
  <2>4. (\A k \in DOMAIN log : IsLogged(log[k]))'
    BY <2>1, <2>3, SameScenario
  <2>5. QED
    BY <2>1, <2>4, SameScenario DEF SimulationInv, Over
<1>5. TerminatedInv'
  <2>1. ~terminated /\ UNCHANGED terminated
    BY <1>1 DEF Handled, IsNext, SpanStarts, SpanStops, NoSpan
  <2>2. QED
    BY <2>1 DEF TerminatedInv
<1>6. QED
  BY <1>2, <1>3, <1>4, <1>5

--------------------------------------------------------------------------------
(* The invariant is kept as the simulation goes on.                        *)

(* The packet p takes a step, of which e is logged unless it is filtered.  *)
Moves(p, e) ==
  /\ p \in DOMAIN Packets /\ e.packet_uid = p /\ ~Over(p)
  /\ Here(p) \in HopsOf(p) /\ IsEventIn(e, Here(p))
  /\ \/ Extended(log', log, e)
     \/ log' = log /\ ~NS3EventFilter(e, node_device_filter)
  /\ DOMAIN hop' = DOMAIN hop
  /\ \A q \in DOMAIN Packets : q # p => hop'[q] = hop[q] /\ (q \in inside' <=> q \in inside)
  /\ inside' \subseteq DOMAIN Packets /\ hop'[p] \in Nat /\ hop'[p] >= hop[p]
  /\ UNCHANGED <<spans, active, last, finished, to_host, terminated, scenario>>
EntersDevice(p, e) == Moves(p, e) /\ IsEnqueue(e) /\ p \notin inside /\ p \in inside' /\ hop' = hop
LeavesDevice(p, e) ==
  /\ Moves(p, e) /\ ~IsEnqueue(e)
  /\ p \in inside \/ hop[p] > 1
  /\ p \notin inside' /\ hop'[p] > 1

(* Log.                                                                    *)
LEMMA LogIs ==
  ASSUME TypeInv, NEW e, Log(e)
  PROVE  /\ \/ Extended(log', log, e)
            \/ log' = log /\ ~NS3EventFilter(e, node_device_filter)
         /\ UNCHANGED <<spans, active, last, finished, to_host, terminated>>
<1>1. Sequence(log) /\ (log' = log \/ log' = Append(log, e))
  BY DEF Log, TypeInv
<1>2. log' = Append(log, e) => Extended(log', log, e)
  BY <1>1, Appending
<1>3. QED
  BY <1>1, <1>2 DEF Log

(* A packet enters a device.                                               *)
LEMMA EnqueueIs ==
  ASSUME NetworkInv, NEW p \in DOMAIN Packets, Enqueue(p)
  PROVE  \E e : EntersDevice(p, e)
<1>1. PICK e : e = NetEvent("kNetworkEnqueueT", "NetworkEnqueue", p, Here(p).enq)
  OBVIOUS
<1>2. /\ ~Over(p) /\ p \notin inside /\ Log(e)
      /\ inside' = inside \cup {p} /\ UNCHANGED <<scenario, hop>>
  BY <1>1 DEF Enqueue
<1>3. /\ scenario \in DOMAIN Scenarios /\ hop[p] \in Nat /\ hop[p] > 0 /\ TypeInv
      /\ inside \subseteq DOMAIN Packets
  BY DEF NetworkInv, SimulationInv
<1>4. Here(p) \in HopsOf(p)
  BY <1>2, <1>3, HereIs
<1>5. e.packet_uid = p /\ e.type = "kNetworkEnqueueT" /\ IsEventIn(e, Here(p))
  BY <1>1, NetEventIs DEF NetworkEvents
<1>6. Moves(p, e)
  BY <1>2, <1>3, <1>4, <1>5, LogIs DEF Moves
<1>7. QED
  BY <1>2, <1>5, <1>6 DEF EntersDevice, IsEnqueue

(* A packet is dequeued.                                                   *)
LEMMA DequeueIs ==
  ASSUME NetworkInv, NEW p \in DOMAIN Packets, Dequeue(p)
  PROVE  \E e : /\ LeavesDevice(p, e) /\ IsType(e, "kNetworkDequeueT") /\ e.boundary = Here(p).deq
                /\ p \in inside
<1>1. PICK e : e = NetEvent("kNetworkDequeueT", "NetworkDequeue", p, Here(p).deq)
  OBVIOUS
<1>2. /\ p \in inside /\ Log(e) /\ inside' = inside \ {p} /\ UNCHANGED scenario
      /\ hop' = [hop EXCEPT ![p] = @ + 1]
  BY <1>1 DEF Dequeue
<1>3. /\ scenario \in DOMAIN Scenarios /\ hop[p] \in Nat /\ hop[p] > 0 /\ TypeInv
      /\ inside \subseteq DOMAIN Packets /\ DOMAIN hop = DOMAIN Packets /\ ~Over(p)
  BY <1>2 DEF NetworkInv, SimulationInv
<1>4. Here(p) \in HopsOf(p)
  BY <1>2, <1>3, HereIs
<1>5. /\ e.packet_uid = p /\ e.type = "kNetworkDequeueT" /\ IsEventIn(e, Here(p))
      /\ e.boundary = Here(p).deq
  BY <1>1, NetEventIs DEF NetworkEvents
<1>6. Moves(p, e)
  BY <1>2, <1>3, <1>4, <1>5, LogIs DEF Moves
<1>7. hop'[p] > 1
  BY <1>2, <1>3
<1>8. QED
  BY <1>2, <1>5, <1>6, <1>7 DEF LeavesDevice, IsEnqueue, IsType

(* A packet is dropped, in a device or before one.                         *)
LEMMA DropIs ==
  ASSUME NetworkInv, NEW p \in DOMAIN Packets, Drop(p)
  PROVE  \E e : LeavesDevice(p, e) /\ IsType(e, "kNetworkDropT")
<1>1. PICK boundary \in {"kWithinSimulator", Here(p).deq} :
        Log(NetEvent("kNetworkDropT", "NetworkDrop", p, boundary))
  BY DEF Drop
<1>2. PICK e : e = NetEvent("kNetworkDropT", "NetworkDrop", p, boundary) /\ Log(e)
  BY <1>1
<1>3. PICK n : /\ n = IF Here(p).deq = "kToAdapter" THEN hop[p] + 1 ELSE Len(Route(p)) + 1
               /\ hop' = [hop EXCEPT ![p] = n]
  BY DEF Drop
<1>4. ~Over(p) /\ (p \in inside \/ hop[p] > 1) /\ inside' = inside \ {p} /\ UNCHANGED scenario
  BY DEF Drop
<1>5. /\ scenario \in DOMAIN Scenarios /\ hop[p] \in Nat /\ hop[p] > 0 /\ TypeInv
      /\ inside \subseteq DOMAIN Packets /\ DOMAIN hop = DOMAIN Packets
  BY DEF NetworkInv, SimulationInv
<1>6. Here(p) \in HopsOf(p)
  BY <1>4, <1>5, HereIs
<1>7. e.packet_uid = p /\ e.type = "kNetworkDropT" /\ IsEventIn(e, Here(p))
  BY <1>1, <1>2, NetEventIs DEF NetworkEvents
<1>8. n \in Nat /\ n > hop[p]
  <2>1. PICK r, m : r = Route(p) /\ m = Len(r) /\ m \in Nat /\ hop[p] <= m
    <3>1. PICK r : r = Route(p) /\ r \in Seq(Hops)
      BY <1>5, RouteIs DEF IsRoute
    <3>2. Len(r) \in Nat
      BY <3>1
    <3>3. QED
      BY <1>4, <1>5, <3>1, <3>2 DEF Over
  <2>2. QED
    BY <1>3, <1>5, <2>1
<1>9. Moves(p, e)
  BY <1>2, <1>3, <1>4, <1>5, <1>6, <1>7, <1>8, LogIs DEF Moves
<1>10. hop'[p] > 1
  BY <1>3, <1>5, <1>8
<1>11. QED
  BY <1>4, <1>7, <1>9, <1>10 DEF LeavesDevice, IsEnqueue, IsType

(* What is handled of a packet is not filtered out of the log.             *)
LEMMA NotFiltered ==
  ASSUME NEW p, NEW e, Moves(p, e), OfInterest(e)
  PROVE  Extended(log', log, e)
BY DEF Moves, NS3EventFilter, OfInterest

(* The log with one more event, or without.                                *)
LEMMA LogMoved ==
  ASSUME TypeInv, NEW p, NEW e, Moves(p, e), NEW n, n = Len(log)
  PROVE  /\ n \in Nat /\ DOMAIN log = 1 .. n /\ DOMAIN log \subseteq DOMAIN log'
         /\ \A k \in DOMAIN log : log'[k] = log[k]
         /\ Len(log') \in {n, n + 1} /\ DOMAIN log' = 1 .. Len(log')
         /\ \A k \in DOMAIN log' : k \in DOMAIN log \/ (k = n + 1 /\ log'[k] = e)
         /\ \A q, k, l : l \in Nat /\ l <= n + 1 /\ NoneOf(q, k, l) => NoneOf(q, k, l)'
         /\ \A q, k : q # p /\ NoneOf(q, k, n + 1) => NoneOf(q, k, Len(log) + 1)'
         /\ OfInterest(e) => n + 1 \in DOMAIN log' /\ log'[n + 1] = e /\ Len(log') = n + 1
<1>1. n \in Nat /\ DOMAIN log = 1 .. n
  <2>1. PICK s, S : s = log /\ s \in Seq(S)
    BY DEF TypeInv, Sequence
  <2>2. QED
    BY <2>1
<1>2. PICK m : m = Len(log') /\ m \in {n, n + 1} /\ DOMAIN log' = 1 .. m
  <2>1. CASE log' = log
    BY <1>1, <2>1
  <2>2. CASE Extended(log', log, e)
    BY <1>1, <2>2 DEF Extended
  <2>3. QED
    BY <2>1, <2>2 DEF Moves
<1>3. \A k \in DOMAIN log : log'[k] = log[k]
  BY DEF Moves, Extended
<1>4. \A k \in DOMAIN log' : k \in DOMAIN log \/ (k = n + 1 /\ log'[k] = e)
  <2>1. CASE log' = log
    BY <2>1
  <2>2. CASE Extended(log', log, e)
    BY <1>1, <2>2 DEF Extended
  <2>3. QED
    BY <2>1, <2>2 DEF Moves
<1>5. e.packet_uid = p
  BY DEF Moves
<1>6. ASSUME NEW q, NEW k, NEW l, l \in Nat, l <= n + 1, NoneOf(q, k, l)
      PROVE  NoneOf(q, k, l)'
  <2>1. SUFFICES ASSUME NEW j \in DOMAIN log', k <= j, j < l PROVE log'[j].packet_uid # q
    BY DEF NoneOf
  <2>2. j \in DOMAIN log
    BY <1>1, <1>4, <1>6, <2>1
  <2>3. QED
    BY <1>3, <1>6, <2>1, <2>2 DEF NoneOf
<1>7. ASSUME NEW q, NEW k, q # p, NoneOf(q, k, n + 1)
      PROVE  NoneOf(q, k, Len(log) + 1)'
  <2>1. SUFFICES ASSUME NEW j \in DOMAIN log', k <= j PROVE log'[j].packet_uid # q
    BY DEF NoneOf
  <2>2. CASE j \in DOMAIN log
    <3>1. j < n + 1
      BY <1>1, <2>2
    <3>2. QED
      BY <1>3, <1>7, <2>1, <2>2, <3>1 DEF NoneOf
  <2>3. QED
    BY <1>4, <1>5, <1>7, <2>2
<1>8. OfInterest(e) => n + 1 \in DOMAIN log' /\ log'[n + 1] = e /\ Len(log') = n + 1
  <2>1. OfInterest(e) => Extended(log', log, e)
    BY NotFiltered
  <2>2. Extended(log', log, e) => n + 1 \in DOMAIN log' /\ log'[n + 1] = e /\ Len(log') = n + 1
    BY <1>1 DEF Extended
  <2>3. QED
    BY <2>1, <2>2
<1>9. QED
  BY <1>1, <1>2, <1>3, <1>4, <1>6, <1>7, <1>8

(* What will end still will, or ends with this step.                       *)
LEMMA WillEndMoved ==
  ASSUME TypeInv, SimulationInv, NEW p, NEW e, Moves(p, e), p \in inside => ~IsEnqueue(e),
         NEW f, IsLogged(f), Begins(f), NEW k \in Nat, k <= Len(log) + 1, WillEnd(f, k)
  PROVE  WillEnd(f, k)'
<1>1. PICK n, q : n = Len(log) /\ q = f.packet_uid
  OBVIOUS
<1>2. n \in Nat /\ DOMAIN log = 1 .. n /\ DOMAIN log \subseteq DOMAIN log'
      /\ \A j \in DOMAIN log : log'[j] = log[j]
  BY <1>1, LogMoved
<1>3. UNCHANGED scenario /\ scenario \in DOMAIN Scenarios /\ q \in DOMAIN Packets
  BY <1>1 DEF Moves, SimulationInv, IsLogged
<1>4. CASE \E l \in DOMAIN log : k <= l /\ Ends(f, log[l]) /\ NoneOf(q, k, l)
  <2>1. PICK l \in DOMAIN log : k <= l /\ Ends(f, log[l]) /\ NoneOf(q, k, l)
    BY <1>4
  <2>2. l \in Nat /\ l <= n + 1
    BY <1>2
  <2>3. NoneOf(q, k, l)'
    BY <1>1, <2>1, <2>2, LogMoved
  <2>4. l \in DOMAIN log' /\ Ends(f, log'[l])
    BY <1>2, <2>1
  <2>5. Ends(f, log[l])'
    BY <1>3, <2>4, SameScenario
  <2>6. QED
    BY <1>1, <2>1, <2>3, <2>4, <2>5 DEF WillEnd
<1>5. CASE q \in inside /\ IsEventIn(f, Here(q)) /\ NoneOf(q, k, n + 1) /\ q # p
  <2>1. NoneOf(q, k, Len(log) + 1)'
    BY <1>1, <1>5, LogMoved
  <2>2. q \in inside' /\ Here(q)' = Here(q)
    BY <1>3, <1>5, SameScenario DEF Moves, Here
  <2>3. IsEventIn(f, Here(q))'
    BY <1>3, <1>5, <2>2, SameScenario
  <2>4. QED
    BY <1>1, <2>1, <2>2, <2>3 DEF WillEnd
<1>6. CASE p \in inside /\ IsEventIn(f, Here(p)) /\ NoneOf(p, k, n + 1) /\ q = p
  <2>1. Ends(f, e)
    BY <1>1, <1>6 DEF Ends, Moves
  <2>2. OfInterest(e)
    BY <1>3, <2>1, EndsAlike DEF Begins
  <2>3. n + 1 \in DOMAIN log' /\ log'[n + 1] = e
    BY <1>1, <2>2, LogMoved
  <2>4. Ends(f, log[n + 1])'
    BY <1>3, <2>1, <2>3, SameScenario
  <2>5. n + 1 \in Nat /\ NoneOf(p, k, n + 1)'
    BY <1>1, <1>2, <1>6, LogMoved
  <2>6. QED
    BY <1>1, <1>6, <2>3, <2>4, <2>5 DEF WillEnd
<1>7. QED
  BY <1>1, <1>4, <1>5, <1>6 DEF WillEnd

(* A packet that is in a device begins a span there, or not, alike.        *)
LEMMA MovedIs ==
  ASSUME SimulationInv, NEW p, NEW e, Moves(p, e)
  PROVE  /\ p \in DOMAIN Packets /\ IsLogged(e) /\ scenario \in DOMAIN Scenarios
         /\ hop[p] \in Nat /\ hop[p] > 0
         /\ e.interesting = Packets[p].interesting
         /\ OfInterest(e) <=> HopOfInterest(p, Here(p))
<1>1. /\ p \in DOMAIN Packets /\ e.packet_uid = p /\ scenario \in DOMAIN Scenarios
      /\ Here(p) \in HopsOf(p) /\ IsEventIn(e, Here(p))
  BY DEF Moves, SimulationInv
<1>2. IsLogged(e)
  BY <1>1 DEF IsLogged
<1>3. QED
  BY <1>1, <1>2, EventIs DEF SimulationInv

(* Every span will still end, and what begins now will.                    *)
LEMMA EndsMoved ==
  ASSUME NetworkInv, NEW p, NEW e, EntersDevice(p, e) \/ LeavesDevice(p, e)
  PROVE  EndsInv'
<1> USE DEF NetworkInv
<1>1. PICK n : n = Len(log)
  OBVIOUS
<1>2. /\ Moves(p, e) /\ (p \in inside => ~IsEnqueue(e))
      /\ IsEnqueue(e) => EntersDevice(p, e)
  BY DEF EntersDevice, LeavesDevice
<1>3. /\ n \in Nat /\ DOMAIN log = 1 .. n
      /\ \A k \in DOMAIN log' : k \in DOMAIN log \/ (k = n + 1 /\ log'[k] = e)
      /\ \A k \in DOMAIN log : log'[k] = log[k]
  BY <1>1, <1>2, LogMoved
<1>4. UNCHANGED <<spans, active, scenario>>
  BY <1>2 DEF Moves
<1>5. ASSUME NEW i \in Unfinished' PROVE WillEnd(EnqueueOf(i), 1)'
  <2>1. PICK x : x = EnqueueOf(i) /\ x = EnqueueOf(i)' /\ i \in Unfinished
    BY <1>4 DEF EnqueueOf, Unfinished
  <2>2. IsLogged(x) /\ Begins(x)
    BY <2>1 DEF SpansInv, IsUnfinished, EnqueueOf
  <2>3. WillEnd(x, 1)
    BY <2>1 DEF EndsInv
  <2>4. WillEnd(x, 1)'
    <3>1. 1 \in Nat /\ 1 <= n + 1
      BY <1>3
    <3>2. QED
      BY <1>1, <1>2, <2>2, <2>3, <3>1, WillEndMoved
  <2>5. QED
    BY <2>1, <2>4
<1>6. ASSUME NEW k \in DOMAIN log', NEW x, x = log'[k], Begins(x)
      PROVE  WillEnd(x, k + 1)'
  <2>1. CASE k \in DOMAIN log
    <3>1. x = log[k] /\ IsLogged(x)
      BY <1>3, <1>6, <2>1 DEF SimulationInv
    <3>2. PICK j : j = k + 1 /\ j \in Nat /\ j <= n + 1
      BY <1>3, <2>1
    <3>3. WillEnd(x, j)
      BY <1>6, <2>1, <3>1, <3>2 DEF EndsInv
    <3>4. WillEnd(x, j)'
      BY <1>1, <1>2, <1>6, <3>1, <3>2, <3>3, WillEndMoved
    <3>5. QED
      BY <3>2, <3>4
  <2>2. CASE k = n + 1 /\ x = e
    <3>1. p \in inside' /\ hop' = hop /\ e.packet_uid = p /\ IsEventIn(e, Here(p))
      BY <1>2, <1>6, <2>2 DEF EntersDevice, Moves, Begins
    <3>2. Here(p)' = Here(p)
      BY <1>4, <3>1, SameScenario DEF Here
    <3>3. IsEventIn(e, Here(p))'
      BY <1>4, <3>1, <3>2, SameScenario
    <3>4. PICK j : j = k + 1 /\ j = n + 2
      BY <1>3, <2>2
    <3>5. NoneOf(p, j, Len(log) + 1)'
      BY <1>3, <3>4 DEF NoneOf
    <3>6. WillEnd(e, j)'
      BY <3>1, <3>3, <3>5 DEF WillEnd
    <3>7. QED
      BY <2>2, <3>4, <3>6
  <2>3. QED
    BY <1>3, <1>6, <2>1, <2>2
<1>7. ASSUME NEW k \in DOMAIN log', Begins(log'[k]) PROVE WillEnd(log[k], k + 1)'
  <2>1. PICK x : x = log'[k]
    OBVIOUS
  <2>2. WillEnd(x, k + 1)'
    BY <1>6, <1>7, <2>1
  <2>3. QED
    BY <2>1, <2>2
<1>8. QED
  BY <1>5, <1>7 DEF EndsInv

(* What was before an event is still, and also before the next.            *)
LEMMA BegunMoved ==
  ASSUME NetworkInv, NEW p, NEW e, Moves(p, e), NEW q, NEW n, n = Len(log)
  PROVE  /\ \A k \in Nat : HasBegun(q, k) => \A l \in Nat : k <= l => HasBegun(q, l)'
         /\ \A k \in Nat : k <= n + 1 /\ IsIn(q, k) => IsIn(q, k)'
         /\ q # p /\ IsIn(q, n + 1) => IsIn(q, Len(log) + 1)'
         /\ Begins(e) => HasBegun(p, Len(log) + 1)' /\ IsIn(p, Len(log) + 1)'
<1> USE DEF NetworkInv
<1>1. /\ n \in Nat /\ DOMAIN log = 1 .. n /\ DOMAIN log \subseteq DOMAIN log'
      /\ \A k \in DOMAIN log : log'[k] = log[k]
  BY LogMoved
<1>2. Len(log') \in Nat /\ n <= Len(log')
  BY <1>1, LogMoved
<1>3. /\ Unfinished' = Unfinished /\ spans' = spans
      /\ \A i : PacketOf(i)' = PacketOf(i)
  BY DEF Moves, Unfinished, PacketOf
<1>4. ASSUME NEW k \in Nat, HasBegun(q, k), NEW l \in Nat, k <= l PROVE HasBegun(q, l)'
  <2>1. \A m \in DOMAIN log : m < k => m < l
    BY <1>1, <1>4
  <2>2. QED
    BY <1>1, <1>3, <1>4, <2>1 DEF HasBegun
<1>5. ASSUME NEW k \in Nat, k <= n + 1, IsIn(q, k) PROVE IsIn(q, k)'
  <2>1. \A m : NoneOf(q, m, k) => NoneOf(q, m, k)'
    BY <1>5, LogMoved
  <2>2. QED
    BY <1>1, <1>3, <1>5, <2>1 DEF IsIn
<1>6. ASSUME q # p, IsIn(q, n + 1) PROVE IsIn(q, Len(log) + 1)'
  <2>1. ASSUME NEW m, NoneOf(q, m, n + 1) PROVE NoneOf(q, m, Len(log) + 1)'
    <3>1. SUFFICES ASSUME NEW j \in DOMAIN log', m <= j PROVE log'[j].packet_uid # q
      BY DEF NoneOf
    <3>2. j \in DOMAIN log => j < n + 1
      BY <1>1
    <3>3. j \in DOMAIN log \/ log'[j].packet_uid = p
      BY LogMoved DEF Moves
    <3>4. QED
      BY <1>1, <1>6, <2>1, <3>1, <3>2, <3>3 DEF NoneOf
  <2>2. \A m \in DOMAIN log : m < Len(log') + 1
    BY <1>1, <1>2
  <2>3. QED
    BY <1>1, <1>3, <1>6, <2>1, <2>2 DEF IsIn
<1>7. ASSUME Begins(e) PROVE HasBegun(p, Len(log) + 1)' /\ IsIn(p, Len(log) + 1)'
  <2>1. n + 1 \in DOMAIN log' /\ log'[n + 1] = e /\ Len(log') = n + 1 /\ e.packet_uid = p
    BY <1>7, LogMoved DEF Begins, Moves
  <2>2. n + 1 < Len(log') + 1 /\ NoneOf(p, n + 1 + 1, Len(log) + 1)'
    BY <1>1, <2>1 DEF NoneOf
  <2>3. QED
    BY <1>7, <2>1, <2>2 DEF HasBegun, IsIn
<1>8. QED
  BY <1>4, <1>5, <1>6, <1>7

(* A packet of interest begins where its card sends it.                    *)
LEMMA FirstHop ==
  ASSUME scenario \in DOMAIN Scenarios, NEW p \in DOMAIN Packets, Packets[p].interesting
  PROVE  HopOfInterest(p, Route(p)[1]) /\ Route(p)[1].enq = "kFromAdapter"
<1>1. PICK h : h = Route(p)[1]
  OBVIOUS
<1>2. IsFromCard(h) /\ IsRoute(Route(p))
  BY <1>1, RouteIs
<1>3. h.enq = "kFromAdapter" /\ host_channels[Device(h)] \in Cards
  BY <1>2 DEF IsFromCard
<1>4. 1 \in DOMAIN Route(p)
  <2>1. PICK r : r = Route(p) /\ r \in Seq(Hops) /\ r # <<>>
    BY <1>2 DEF IsRoute
  <2>2. 1 \in DOMAIN r
    BY <2>1
  <2>3. QED
    BY <2>1, <2>2
<1>5. HasAdapter(h)
  BY <1>1, <1>2, <1>3, <1>4 DEF IsRoute
<1>6. Device(h) \in node_device_filter
  BY <1>3, <1>5 DEF HasAdapter, host_channels, Cards, node_device_filter
<1>7. QED
  BY <1>1, <1>3, <1>6 DEF HopOfInterest

(* The packet moves; if it is dequeued it was in the device.               *)
MovesOn(p, e) ==
  \/ EntersDevice(p, e)
  \/ LeavesDevice(p, e) /\ (IsType(e, "kNetworkDequeueT") => p \in inside)

(* What enters or leaves a device has begun its way.                       *)
LEMMA BeginsMoved ==
  ASSUME NetworkInv, NEW p, NEW e, MovesOn(p, e)
  PROVE  BeginsInv'
<1> USE DEF NetworkInv
<1>1. PICK n : n = Len(log)
  OBVIOUS
<1>2. Moves(p, e)
  BY DEF MovesOn, EntersDevice, LeavesDevice
<1>3. /\ n \in Nat /\ DOMAIN log = 1 .. n /\ Len(log') \in Nat /\ n <= Len(log')
      /\ \A k \in DOMAIN log' : k \in DOMAIN log \/ (k = n + 1 /\ log'[k] = e)
      /\ \A k \in DOMAIN log : log'[k] = log[k]
  <2>1. n \in Nat /\ Len(log') \in {n, n + 1}
    BY <1>1, <1>2, LogMoved
  <2>2. Len(log') \in Nat /\ n <= Len(log')
    BY <2>1
  <2>3. QED
    BY <1>1, <1>2, <2>1, <2>2, LogMoved
<1>4. /\ p \in DOMAIN Packets /\ scenario \in DOMAIN Scenarios /\ UNCHANGED scenario
      /\ hop[p] \in Nat /\ hop[p] > 0 /\ ~Over(p) /\ e.packet_uid = p
      /\ e.interesting = Packets[p].interesting /\ IsEventIn(e, Here(p))
      /\ OfInterest(e) <=> HopOfInterest(p, Here(p))
      /\ \A q \in DOMAIN Packets : q # p => hop'[q] = hop[q] /\ (q \in inside' <=> q \in inside)
      /\ inside' \subseteq DOMAIN Packets
  BY <1>2, MovedIs DEF Moves
<1>5. IsEnqueue(e) => p \notin inside /\ p \in inside' /\ UNCHANGED hop
  BY DEF MovesOn, EntersDevice, LeavesDevice
<1>6. ~IsEnqueue(e) => (p \in inside \/ hop[p] > 1) /\ p \notin inside'
  BY DEF MovesOn, EntersDevice, LeavesDevice
<1>7. hop[p] = 1 /\ Packets[p].interesting =>
        OfInterest(e) /\ (IsEnqueue(e) => e.boundary = "kFromAdapter")
  BY <1>4, HereIs, FirstHop DEF IsEventIn, IsEnqueue
<1>8. ASSUME NEW q \in DOMAIN Packets, Packets[q].interesting, hop'[q] > 1 \/ q \in inside'
      PROVE  HasBegun(q, Len(log) + 1)'
  <2>1. CASE hop[q] > 1 \/ q \in inside
    <3>1. HasBegun(q, n + 1)
      BY <1>1, <1>8, <2>1 DEF BeginsInv
    <3>2. PICK l : l = Len(log') + 1 /\ l \in Nat /\ n + 1 \in Nat /\ n + 1 <= l
      BY <1>3
    <3>3. HasBegun(q, l)'
      BY <1>1, <1>2, <3>1, <3>2, BegunMoved
    <3>4. QED
      BY <3>2, <3>3
  <2>2. CASE ~(hop[q] > 1 \/ q \in inside)
    <3>1. q = p /\ IsEnqueue(e)
      BY <1>4, <1>6, <1>8, <2>2
    <3>2. hop[p] = 1
      BY <1>4, <2>2, <3>1
    <3>3. Begins(e)
      BY <1>7, <1>8, <3>1, <3>2 DEF Begins
    <3>4. QED
      BY <1>1, <1>2, <3>1, <3>3, BegunMoved
  <2>3. QED
    BY <2>1, <2>2
<1>9. ASSUME NEW k \in DOMAIN log', NEW x, x = log'[k], IsEnqueue(x), x.interesting,
             x.boundary # "kFromAdapter"
      PROVE  HasBegun(x.packet_uid, k)'
  <2>1. HasBegun(x.packet_uid, k)
    <3>1. CASE k \in DOMAIN log
      BY <1>3, <1>9, <3>1 DEF BeginsInv
    <3>2. CASE k = n + 1 /\ x = e
      <4>1. hop[p] # 1
        BY <1>4, <1>7, <1>9, <3>2
      <4>2. hop[p] > 1
        BY <1>4, <4>1
      <4>3. HasBegun(p, n + 1)
        BY <1>1, <1>4, <1>9, <3>2, <4>2 DEF BeginsInv
      <4>4. QED
        BY <1>4, <3>2, <4>3
    <3>3. QED
      BY <1>3, <1>9, <3>1, <3>2
  <2>2. k \in Nat /\ k <= k
    BY <1>3
  <2>3. QED
    BY <1>1, <1>2, <2>1, <2>2, BegunMoved
<1>10. ASSUME NEW q \in inside', HopOfInterest(q, Here(q))'
       PROVE  IsIn(q, Len(log) + 1)'
  <2>1. CASE q # p
    <3>1. q \in inside /\ Here(q)' = Here(q)
      BY <1>4, <2>1, SameScenario DEF Here
    <3>2. HopOfInterest(q, Here(q))
      BY <1>4, <1>10, <3>1, SameScenario
    <3>3. IsIn(q, n + 1)
      BY <1>1, <3>1, <3>2 DEF BeginsInv
    <3>4. QED
      BY <1>1, <1>2, <2>1, <3>3, BegunMoved
  <2>2. CASE q = p
    <3>1. IsEnqueue(e) /\ Here(p)' = Here(p)
      BY <1>4, <1>5, <1>6, <2>2, SameScenario DEF Here
    <3>2. HopOfInterest(p, Here(p))
      BY <1>4, <1>10, <2>2, <3>1, SameScenario
    <3>3. Begins(e)
      BY <1>4, <3>1, <3>2 DEF Begins
    <3>4. QED
      BY <1>1, <1>2, <2>2, <3>3, BegunMoved
  <2>3. QED
    BY <2>1, <2>2
<1>11. ASSUME NEW k \in DOMAIN log', NEW x, x = log'[k],
              IsType(x, "kNetworkDequeueT"), OfInterest(x)
       PROVE  IsIn(x.packet_uid, k)'
  <2>1. IsIn(x.packet_uid, k)
    <3>1. CASE k \in DOMAIN log
      BY <1>3, <1>11, <3>1 DEF BeginsInv
    <3>2. CASE k = n + 1 /\ x = e
      <4>1. p \in inside /\ HopOfInterest(p, Here(p))
        BY <1>4, <1>11, <3>2 DEF MovesOn, EntersDevice, IsEnqueue, IsType
      <4>2. IsIn(p, n + 1)
        BY <1>1, <4>1 DEF BeginsInv
      <4>3. QED
        BY <1>4, <3>2, <4>2
    <3>3. QED
      BY <1>3, <1>11, <3>1, <3>2
  <2>2. k \in Nat /\ k <= n + 1
    BY <1>3
  <2>3. QED
    BY <1>1, <1>2, <2>1, <2>2, BegunMoved
<1>12. ASSUME NEW k \in DOMAIN log', IsEnqueue(log'[k]), log'[k].interesting,
              log'[k].boundary # "kFromAdapter"
       PROVE  HasBegun(log[k].packet_uid, k)'
  <2>1. PICK x : x = log'[k]
    OBVIOUS
  <2>2. HasBegun(x.packet_uid, k)'
    BY <1>9, <1>12, <2>1
  <2>3. QED
    BY <2>1, <2>2
<1>13. ASSUME NEW k \in DOMAIN log', IsType(log'[k], "kNetworkDequeueT"), OfInterest(log'[k])
       PROVE  IsIn(log[k].packet_uid, k)'
  <2>1. PICK x : x = log'[k]
    OBVIOUS
  <2>2. IsIn(x.packet_uid, k)'
    BY <1>11, <1>13, <2>1
  <2>3. QED
    BY <2>1, <2>2
<1>14. \A q \in DOMAIN Packets' : Packets'[q].interesting /\ (hop'[q] > 1 \/ q \in inside') =>
         HasBegun(q, Len(log) + 1)'
  BY <1>4, <1>8, SameScenario
<1>15. QED
  BY <1>10, <1>12, <1>13, <1>14 DEF BeginsInv

(* A card is handed the packet if and only if the event tells of it.       *)
HandsOver(p, e) ==
  /\ DOMAIN delivered' = Cards
  /\ \A c \in Cards :
       delivered'[c] = IF Delivers(e, c) THEN Append(delivered[c], p) ELSE delivered[c]

(* What is still to come to a card includes a packet it is handed now.     *)
LEMMA DeliveredMoved ==
  ASSUME NetworkInv, NEW p, NEW e, Moves(p, e), HandsOver(p, e)
  PROVE  DeliveredInv' /\ TypeInv'
<1> USE DEF NetworkInv
<1>1. PICK n : n = Len(log)
  OBVIOUS
<1>2. /\ n \in Nat /\ DOMAIN log = 1 .. n
      /\ \A k \in DOMAIN log' : k \in DOMAIN log \/ (k = n + 1 /\ log'[k] = e)
      /\ \A k \in DOMAIN log : k \in DOMAIN log' /\ log'[k] = log[k]
  BY <1>1, LogMoved
<1>3. /\ UNCHANGED <<spans, active, to_host>> /\ IsLogged(e) /\ scenario \in DOMAIN Scenarios
      /\ e.packet_uid = p
  BY MovedIs DEF Moves
<1>4. ASSUME NEW c \in Cards
      PROVE  /\ Sequence(delivered'[c]) /\ AllSentFor(c)'
             /\ Tells(Deliveries(c), Len(to_host[c]), delivered[c], log)'
  <2>1. PICK s, t : s = delivered[c] /\ t = Len(to_host[c]) /\ Sequence(s)
                    /\ t \in Nat /\ DOMAIN to_host[c] = 1 .. t
    <3>1. PICK r : r = to_host[c] /\ Sequence(r)
      BY DEF TypeInv
    <3>2. Len(r) \in Nat /\ DOMAIN r = 1 .. Len(r)
      BY <3>1 DEF Sequence
    <3>3. QED
      BY <3>1, <3>2 DEF TypeInv
  <2>2. PICK d : d = Len(s) /\ d \in Nat /\ DOMAIN s = 1 .. d
    BY <2>1 DEF Sequence
  <2>3. PICK s2, K, K2 : s2 = delivered'[c] /\ K = Deliveries(c) /\ K2 = Deliveries(c)'
    OBVIOUS
  <2>4. Tells(K, t, s, log) /\ t <= d /\ \A k \in 1 .. t : IsSentFor(to_host[c][k], s[k])
    BY <2>1, <2>2, <2>3 DEF DeliveredInv, AllSentFor, Tells
  <2>5. K = {k \in DOMAIN log : Delivers(log[k], c)}
        /\ K2 = {k \in DOMAIN log' : Delivers(log'[k], c)}
    BY <2>3 DEF Deliveries, Delivers, CardAt
  <2>6. ASSUME \A k \in 1 .. t : s2[k] = s[k] PROVE AllSentFor(c)'
    <3>1. \A k \in 1 .. t : IsSentFor(to_host[c][k], s2[k])
      BY <2>4, <2>6
    <3>2. QED
      BY <1>3, <2>1, <2>3, <3>1 DEF AllSentFor, IsSentFor, PacketOf
  <2>7. CASE ~Delivers(e, c)
    <3>1. s2 = s
      BY <2>1, <2>3, <2>7 DEF HandsOver
    <3>2. K2 = K
      BY <1>2, <2>5, <2>7
    <3>3. Tells(K2, t, s2, log')
      <4>1. \A k \in K : log'[k] = log[k]
        BY <1>2, <2>5
      <4>2. QED
        BY <2>4, <3>1, <3>2, <4>1, TellsSame
    <3>4. AllSentFor(c)'
      BY <2>6, <3>1
    <3>5. QED
      BY <1>3, <2>1, <2>3, <3>1, <3>3, <3>4
  <2>8. CASE Delivers(e, c)
    <3>1. Extended(s2, s, p)
      BY <2>1, <2>3, <2>8, Appending DEF HandsOver
    <3>2. OfInterest(e)
      BY <1>3, <2>8, DeliversIs
    <3>3. n + 1 \in DOMAIN log' /\ log'[n + 1] = e
      BY <1>1, <3>2, LogMoved
    <3>4. K2 = K \cup {n + 1} /\ K \in SUBSET (1 .. n)
      BY <1>2, <2>5, <2>8, <3>3
    <3>5. Tells(K2, t, s2, log')
      BY <1>2, <1>3, <2>1, <2>4, <3>1, <3>3, <3>4, TellsMore
    <3>6. \A k \in 1 .. t : s2[k] = s[k]
      BY <2>1, <2>2, <2>4, <3>1 DEF Extended
    <3>7. AllSentFor(c)'
      BY <2>6, <3>6
    <3>8. QED
      BY <1>3, <2>1, <2>3, <3>1, <3>5, <3>7 DEF Extended
  <2>9. QED
    BY <2>7, <2>8
<1>5. Sequence(log')
  BY DEF Moves, Extended, TypeInv
<1>6. QED
  BY <1>3, <1>4, <1>5 DEF DeliveredInv, TypeInv, HandsOver

(* The first event stays the first.                                        *)
LEMMA HeadIs ==
  ASSUME NEW s, Sequence(s)
  PROVE  s # <<>> <=> 1 \in DOMAIN s /\ Head(s) = s[1]
<1>1. PICK S : s \in Seq(S)
  BY DEF Sequence
<1>2. s # <<>> => 1 \in DOMAIN s /\ Head(s) = s[1]
  BY <1>1
<1>3. 1 \in DOMAIN s => s # <<>>
  BY <1>1
<1>4. QED
  BY <1>2, <1>3

(* The packets stay on their routes, and the log tells of them only.       *)
LEMMA SimulationMoved ==
  ASSUME NetworkInv, NEW p, NEW e, MovesOn(p, e)
  PROVE  SimulationInv' /\ (TypeInv' => TerminatedInv')
<1> USE DEF NetworkInv
<1>1. PICK n : n = Len(log)
  OBVIOUS
<1>2. Moves(p, e)
  BY DEF MovesOn, EntersDevice, LeavesDevice
<1>3. /\ n \in Nat /\ DOMAIN log = 1 .. n
      /\ \A k \in DOMAIN log' : k \in DOMAIN log \/ (k = n + 1 /\ log'[k] = e)
      /\ \A k \in DOMAIN log : k \in DOMAIN log' /\ log'[k] = log[k]
  BY <1>1, <1>2, LogMoved
<1>4. /\ UNCHANGED <<scenario, terminated>> /\ IsLogged(e) /\ ~Over(p) /\ DOMAIN hop' = DOMAIN hop
      /\ hop'[p] \in Nat /\ hop'[p] > 0 /\ inside' \subseteq DOMAIN Packets
      /\ \A q \in DOMAIN Packets : q # p => hop'[q] = hop[q] /\ (q \in inside' <=> q \in inside)
  BY <1>2, MovedIs DEF Moves
<1>5. p \in inside' => hop' = hop
  BY DEF MovesOn, EntersDevice, LeavesDevice
<1>6. Packets' = Packets /\ \A q : Route(q)' = Route(q)
  BY <1>4, SameScenario
<1>7. ASSUME NEW q \in inside' PROVE ~Over(q)'
  <2>1. hop'[q] = hop[q] /\ ~Over(q)
    BY <1>4, <1>5 DEF SimulationInv
  <2>2. QED
    BY <1>6, <2>1 DEF Over
<1>8. \A k \in DOMAIN log' : IsLogged(log'[k])
  BY <1>3, <1>4 DEF SimulationInv
<1>9. (\A k \in DOMAIN log : IsLogged(log[k]))'
  BY <1>4, <1>8, SameScenario
<1>10. \A q \in DOMAIN Packets : hop'[q] \in Nat /\ hop'[q] > 0
  BY <1>4 DEF SimulationInv
<1>11. SimulationInv'
  BY <1>4, <1>6, <1>7, <1>9, <1>10 DEF SimulationInv
<1>12. ASSUME TypeInv' PROVE TerminatedInv'
  <2>1. SUFFICES ASSUME terminated PROVE TerminatedInv'
    BY <1>4 DEF TerminatedInv
  <2>2. Sequence(log) /\ Sequence(log')
    BY <1>12 DEF TypeInv
  <2>3. log # <<>> /\ Head(log).boundary = "kToAdapter"
        /\ Packets[Head(log).packet_uid].header \notin {"arp", "ip"}
    BY <2>1 DEF TerminatedInv
  <2>4. 1 \in DOMAIN log /\ Head(log) = log[1]
    BY <2>2, <2>3, HeadIs
  <2>5. 1 \in DOMAIN log' /\ log'[1] = log[1]
    BY <1>3, <2>4
  <2>6. log' # <<>> /\ Head(log') = Head(log)
    <3>1. PICK s, S : s = log' /\ s \in Seq(S)
      BY <2>2 DEF Sequence
    <3>2. s # <<>> /\ Head(s) = s[1]
      BY <2>5, <3>1
    <3>3. QED
      BY <2>4, <2>5, <3>1, <3>2
  <2>7. QED
    BY <1>6, <2>3, <2>6 DEF TerminatedInv
<1>13. QED
  BY <1>11, <1>12

(* A step of a packet keeps the invariant.                                 *)
LEMMA MovedInv ==
  ASSUME NetworkInv, NEW p, NEW e, MovesOn(p, e), HandsOver(p, e)
  PROVE  NetworkInv'
<1>1. Moves(p, e) /\ (EntersDevice(p, e) \/ LeavesDevice(p, e))
  BY DEF MovesOn, EntersDevice, LeavesDevice
<1>2. DeliveredInv' /\ TypeInv'
  BY <1>1, DeliveredMoved
<1>3. EndsInv' /\ BeginsInv'
  BY <1>1, EndsMoved, BeginsMoved
<1>4. SimulationInv' /\ TerminatedInv'
  BY <1>2, SimulationMoved
<1>5. SpansInv'
  <2>1. UNCHANGED <<spans, active, last, finished, scenario>> /\ SpansInv
    BY <1>1 DEF Moves, LeavesDevice, EntersDevice, NetworkInv
  <2>2. Unfinished' = Unfinished /\ \A i : PacketOf(i)' = PacketOf(i)
    BY <2>1 DEF Unfinished, PacketOf
  <2>3. QED
    BY <2>1, <2>2, SameScenario DEF SpansInv
<1>6. QED
  BY <1>2, <1>3, <1>4, <1>5 DEF NetworkInv

(* Whatever the simulation does keeps the invariant.                       *)
LEMMA SimulateInv == NetworkInv /\ Simulate => NetworkInv'
<1> SUFFICES ASSUME NetworkInv, NEW p \in DOMAIN Packets, Enqueue(p) \/ Dequeue(p) \/ Drop(p)
             PROVE  NetworkInv'
  BY DEF Simulate
<1>1. DOMAIN delivered = Cards
  BY DEF NetworkInv, TypeInv
<1>2. CASE Enqueue(p)
  <2>1. PICK e : EntersDevice(p, e)
    BY <1>2, EnqueueIs
  <2>2. UNCHANGED delivered /\ IsEnqueue(e)
    BY <1>2, <2>1 DEF Enqueue, EntersDevice
  <2>3. HandsOver(p, e)
    BY <1>1, <2>2 DEF HandsOver, Delivers, IsEnqueue, IsType
  <2>4. QED
    BY <2>1, <2>3, MovedInv DEF MovesOn
<1>3. CASE Dequeue(p)
  <2>1. PICK e : /\ LeavesDevice(p, e) /\ IsType(e, "kNetworkDequeueT")
                 /\ e.boundary = Here(p).deq /\ p \in inside
    BY <1>3, DequeueIs
  <2>2. IsEventIn(e, Here(p))
    BY <2>1 DEF LeavesDevice, Moves
  <2>3. CardAt(e) = CardAt(Here(p))
    BY <2>2 DEF IsEventIn, CardAt
  <2>4. delivered' = Note(delivered, IF Here(p).deq = "kToAdapter" THEN CardAt(Here(p)) ELSE {}, p)
    BY <1>3 DEF Dequeue
  <2>5. \A c : Delivers(e, c) <=> c \in (IF Here(p).deq = "kToAdapter" THEN CardAt(Here(p)) ELSE {})
    BY <2>1, <2>3 DEF Delivers
  <2>6. HandsOver(p, e)
    BY <2>4, <2>5 DEF HandsOver, Note
  <2>7. QED
    BY <2>1, <2>6, MovedInv DEF MovesOn
<1>4. CASE Drop(p)
  <2>1. PICK e : LeavesDevice(p, e) /\ IsType(e, "kNetworkDropT")
    BY <1>4, DropIs
  <2>2. HandsOver(p, e)
    BY <1>1, <1>4, <2>1 DEF Drop, HandsOver, Delivers, IsType
  <2>3. QED
    BY <2>1, <2>2, MovedInv DEF MovesOn, IsType
<1>5. QED
  BY <1>2, <1>3, <1>4

(* Whether the cards have sent their contexts yet is of no importance.     *)
LEMMA OtherInv ==
  NetworkInv /\ ((\E c \in Cards : CardSends(c)) \/ UNCHANGED vars) => NetworkInv'
<1> SUFFICES ASSUME NetworkInv, (\E c \in Cards : CardSends(c)) \/ UNCHANGED vars
             PROVE  NetworkInv'
  OBVIOUS
<1>1. UNCHANGED <<log, spans, active, last, finished, to_host, terminated, scenario, hop,
                  inside, delivered>>
  BY DEF CardSends, vars, spanner, simulation
<1>2. TypeInv' /\ SpansInv' /\ EndsInv' /\ BeginsInv' /\ DeliveredInv' /\ SimulationInv'
  BY <1>1, AllKept
<1>3. TerminatedInv'
  BY <1>1, SameScenario DEF NetworkInv, TerminatedInv
<1>4. QED
  BY <1>2, <1>3 DEF NetworkInv

(* At first nothing has happened.                                          *)
LEMMA InitInv == Init => NetworkInv
<1> SUFFICES ASSUME Init PROVE NetworkInv
  OBVIOUS
<1>1. /\ log = <<>> /\ spans = <<>> /\ active = <<>> /\ last = <<>> /\ finished = {}
      /\ to_host = [c \in Cards |-> <<>>] /\ delivered = [c \in Cards |-> <<>>]
      /\ ~terminated /\ inside = {} /\ scenario \in DOMAIN Scenarios
      /\ hop = [p \in DOMAIN Packets |-> 1]
  BY DEF Init, InitSpanner
<1>2. PICK empty : empty = <<>> /\ DOMAIN empty = {} /\ Len(empty) = 0 /\ Sequence(empty)
  <2>1. <<>> \in Seq({}) /\ DOMAIN <<>> = {} /\ Len(<<>>) = 0
    OBVIOUS
  <2>2. Sequence(<<>>)
    BY <2>1, Zenon DEF Sequence
  <2>3. QED
    BY <2>1, <2>2, Zenon
<1>3. TypeInv
  BY <1>1, <1>2 DEF TypeInv
<1>4. Unfinished = {}
  BY <1>1, <1>2 DEF Unfinished
<1>5. SpansInv
  BY <1>1, <1>2, <1>4 DEF SpansInv
<1>6. EndsInv /\ BeginsInv
  BY <1>1, <1>2, <1>4 DEF EndsInv, BeginsInv
<1>7. SimulationInv /\ TerminatedInv
  BY <1>1, <1>2 DEF SimulationInv, TerminatedInv
<1>8. DeliveredInv
  <2>1. \A c \in Cards : to_host[c] = empty /\ delivered[c] = empty
    BY <1>1, <1>2
  <2>2. \A c \in Cards : Deliveries(c) = {}
    BY <1>1, <1>2 DEF Deliveries
  <2>3. \A c \in Cards : Tells(Deliveries(c), Len(to_host[c]), delivered[c], log)
    BY <1>2, <2>1, <2>2, TellsNothing
  <2>4. QED
    BY <1>2, <2>1, <2>3 DEF DeliveredInv, AllSentFor
<1>9. QED
  BY <1>3, <1>5, <1>6, <1>7, <1>8 DEF NetworkInv

(* The invariant of the network, of its spanner and of what is between.    *)
THEOREM NetworkInvariance == Spec => []NetworkInv
<1>1. Init => NetworkInv
  BY InitInv
<1>2. NetworkInv /\ [Next]_vars => NetworkInv'
  <2>1. SUFFICES ASSUME NetworkInv, [Next]_vars PROVE NetworkInv'
    OBVIOUS
  <2>2. CASE Simulate
    BY <2>1, <2>2, SimulateInv
  <2>3. CASE (\E c \in Cards : CardSends(c)) \/ UNCHANGED vars
    BY <2>1, <2>3, OtherInv
  <2>4. CASE Handle
    BY <2>1, <2>4, HandleInv
  <2>5. QED
    BY <2>1, <2>2, <2>3, <2>4 DEF Next
<1>3. QED
  BY <1>1, <1>2, PTL DEF Spec

(* When the log is read to its end, the spanner has sent each card one     *)
(* context for every packet the card was handed, in their order.           *)
LEMMA InStep == NetworkInv => ContextsInStep
<1> SUFFICES ASSUME NetworkInv, log = <<>>, NEW c \in Cards
             PROVE  /\ Len(to_host[c]) = Len(delivered[c])
                    /\ \A k \in DOMAIN to_host[c] :
                         PacketOf(to_host[c][k].parent[2]) = delivered[c][k]
  BY DEF ContextsInStep
<1>1. DeliveredInv /\ TypeInv
  BY DEF NetworkInv
<1>2. Deliveries(c) = {}
  BY DEF Deliveries
<1>3. Tells({}, Len(to_host[c]), delivered[c], log) /\ AllSentFor(c)
  BY <1>1, <1>2 DEF DeliveredInv
<1>4. Sequence(to_host[c]) /\ Sequence(delivered[c])
  BY <1>1 DEF TypeInv
<1>5. Len(to_host[c]) \in Nat
  BY <1>4 DEF Sequence
<1>6. Len(to_host[c]) = Len(delivered[c])
  BY <1>3, <1>4, <1>5, TellsAll
<1>7. QED
  BY <1>3, <1>6 DEF AllSentFor, IsSentFor

(* ContextsInStep, which the spanner of a card relies on: it takes the     *)
(* next context for each packet it receives.                               *)
THEOREM ContextsInStepAlways == Spec => []ContextsInStep
BY NetworkInvariance, InStep, PTL

(* When all packets are over and the log is read, no span is open.         *)
LEMMA CleanAtEnd == NetworkInv => EndsClean
<1> SUFFICES ASSUME NetworkInv PROVE EndsClean
  OBVIOUS
<1>1. TerminatedInv /\ TypeInv /\ SpansInv /\ EndsInv /\ SimulationInv
  BY DEF NetworkInv
<1>2. ASSUME log = <<>>, \A p \in DOMAIN Packets : Over(p)
      PROVE  active = <<>> /\ finished = DOMAIN spans
  <2>1. ASSUME NEW i \in Unfinished PROVE FALSE
    <3>1. WillEnd(EnqueueOf(i), 1)
      BY <1>1 DEF EndsInv
    <3>2. DOMAIN log = {}
      BY <1>2
    <3>3. EnqueueOf(i).packet_uid \in inside
      BY <3>1, <3>2 DEF WillEnd
    <3>4. QED
      BY <1>1, <1>2, <3>3 DEF SimulationInv
  <2>2. Unfinished = {}
    BY <2>1
  <2>3. DOMAIN active = {}
    BY <2>2 DEF Unfinished
  <2>4. active = <<>>
    <3>1. PICK s, S : s = active /\ s \in Seq(S)
      BY <1>1 DEF TypeInv, Sequence
    <3>2. DOMAIN s = {}
      BY <2>3, <3>1
    <3>3. s = <<>>
      BY <3>1, <3>2
    <3>4. QED
      BY <3>1, <3>3
  <2>5. QED
    BY <1>1, <2>2, <2>4 DEF SpansInv
<1>3. QED
  BY <1>1, <1>2 DEF EndsClean, TerminatedInv

(* EndsClean: nothing but a packet without addresses ends the program, and *)
(* no span is left pending once all packets are over.                      *)
THEOREM EndsCleanAlways == Spec => []EndsClean
BY NetworkInvariance, CleanAtEnd, PTL

--------------------------------------------------------------------------------
(* TraceFollowsPacket: the parents of the spans.                           *)

(* The packets a card transmitted: those of which the network's spanner    *)
(* took the context, then those of which the log tells.                    *)
Sends(e, c) == IsEnqueue(e) /\ e.boundary = "kFromAdapter" /\ c \in CardAt(e)
Sendings(c) == {k \in DOMAIN log : Sends(log[k], c)}
Used(c) == given[c] - Len(from_host[c])
SentBy(c) ==
  /\ Sequence(from_host[c]) /\ Sequence(sent[c]) /\ given[c] \in Nat /\ Used(c) \in Nat
  /\ \A k \in DOMAIN from_host[c] : from_host[c][k].parent = <<c, Used(c) + k>>
  /\ Tells(Sendings(c), Used(c), sent[c], log)
SentInv ==
  /\ DOMAIN from_host = Cards /\ DOMAIN given = Cards /\ DOMAIN sent = Cards
  /\ \A c \in Cards : SentBy(c)

(* The packet was seen before the event at position k of the log.          *)
HasSpan(p) == \E i \in DOMAIN spans : PacketOf(i) = p
Seen(p, k) == HasSpan(p) \/ \E l \in DOMAIN log : l < k /\ log[l].packet_uid = p
(* From there on there is more of it.                                      *)
More(p, k) == p \in OnTheWay \/ \E l \in DOMAIN log : k <= l /\ log[l].packet_uid = p

(* A packet is new until it is sent.                                       *)
NewInv ==
  /\ \A p \in DOMAIN Packets : hop[p] = 1 /\ p \notin inside => ~Seen(p, Len(log) + 1)
  /\ \A k \in DOMAIN log : IsEnqueue(log[k]) /\ log[k].boundary = "kFromAdapter" =>
       ~Seen(log[k].packet_uid, k)

(* A packet that is not mixed is alone, on its way and in the log.         *)
AloneInv ==
  /\ \A p \in OnTheWay : p \notin mixed => OnTheWay \subseteq {p}
  /\ \A p \in DOMAIN Packets : \A k \in DOMAIN log :
       p \notin mixed /\ Seen(p, k) /\ More(p, k) => log[k].packet_uid = p

(* The newest span of a packet is the one that is not finished, or the one *)
(* that finished last.                                                     *)
IsNewest(m, p) == /\ m \in DOMAIN spans /\ PacketOf(m) = p
                  /\ \A j \in DOMAIN spans : PacketOf(j) = p => j <= m
NewestInv ==
  /\ \A i \in Unfinished : IsNewest(i, PacketOf(i))
  /\ \A p \in DOMAIN Packets : p \notin mixed /\ HasSpan(p) /\ More(p, 1) =>
       \E m \in DOMAIN spans : IsNewest(m, p) /\ (m \in Unfinished \/ last = <<m>>)

(* The parent of a span.                                                   *)
EarlierThan(i) == {j \in DOMAIN spans : PacketOf(j) = PacketOf(i) /\ j < i}
HasFirstParent(i) ==
  \E c \in Cards : \E k \in DOMAIN sent[c] :
    sent[c][k] = PacketOf(i) /\ spans[i].parent = <<c, k>>
HasNextParent(i) ==
  \E m \in EarlierThan(i) : /\ \A j \in EarlierThan(i) : j <= m
                            /\ spans[i].parent = OfNetwork(m)
IsTraced(i) ==
  Packets[PacketOf(i)].interesting =>
    IF EarlierThan(i) = {} THEN HasFirstParent(i)
    ELSE PacketOf(i) \in mixed \/ HasNextParent(i)
ParentInv == \A i \in DOMAIN spans : PacketOf(i) \in DOMAIN Packets /\ IsTraced(i)

TraceInv == SentInv /\ NewInv /\ AloneInv /\ NewestInv /\ ParentInv

(* What handling e means for parents: a span begins, or one may end.       *)
TakesParent(e, par) ==
  \/ ~e.interesting /\ UNCHANGED from_host
  \/ /\ e.interesting /\ e.boundary # "kFromAdapter" /\ UNCHANGED from_host
     /\ last # <<>> /\ par = OfNetwork(last[1])
  \/ /\ e.interesting /\ e.boundary = "kFromAdapter"
     /\ \E c \in CardAt(e) : /\ from_host[c] # <<>> /\ par = Head(from_host[c]).parent
                             /\ from_host' = [from_host EXCEPT ![c] = Tail(@)]
BeginsSpan(e, n, par) ==
  /\ Begins(e) /\ NoSpanOf(e.packet_uid) /\ TakesParent(e, par)
  /\ n \notin DOMAIN spans /\ \A i \in DOMAIN spans : i < n
  /\ DOMAIN spans' = DOMAIN spans \cup {n} /\ Unfinished' = Unfinished \cup {n}
  /\ PacketOf(n)' = e.packet_uid /\ spans'[n].parent = par /\ UNCHANGED last
EndsSpan(e, n) ==
  /\ n \in Unfinished /\ PacketOf(n) = e.packet_uid
  /\ Unfinished' = Unfinished \ {n} /\ last' = <<n>>
Traced(e) ==
  /\ IsNext(e) /\ Taken(log', log) /\ UNCHANGED simulation
  /\ \A i \in DOMAIN spans : PacketOf(i)' = PacketOf(i) /\ spans'[i].parent = spans[i].parent
  /\ \/ \E n, par : n \in Nat /\ BeginsSpan(e, n, par)
     \/ /\ ~Begins(e) /\ UNCHANGED from_host /\ DOMAIN spans' = DOMAIN spans
        /\ (\E n : EndsSpan(e, n)) \/ (Unfinished' = Unfinished /\ UNCHANGED last)

(* The handler, by its disjuncts.                                          *)
LEMMA TracedIs ==
  ASSUME NetworkInv, Handle, ~Throws
  PROVE  \E e : Traced(e)
<1>1. PICK e : e = Next_
  OBVIOUS
<1>2. /\ TypeInv /\ SpansInv /\ EndsInv /\ SimulationInv
      /\ ~terminated /\ log # <<>> /\ log' = Tail(log) /\ UNCHANGED simulation
  BY DEF Handle, HandelNetworkEvent, Consume, FilterDevice, EndSpan, FinishSpan, IgnoreEnd,
         StartTrace, IgnoreUninteresting, StartFromAdapter, StartWithin, NetworkInv
<1>3. IsNext(e) /\ Taken(log', log)
  BY <1>1, <1>2, Taking1 DEF IsNext, TypeInv
<1>4. IsLogged(e) /\ UNCHANGED scenario
  BY <1>2, <1>3, NextEventIs DEF simulation
<1>5. ASSUME ~Begins(e), UNCHANGED <<spans, active, last, from_host>> PROVE Traced(e)
  <2>1. Unfinished' = Unfinished /\ \A i : PacketOf(i)' = PacketOf(i)
    BY <1>5 DEF Unfinished, PacketOf
  <2>2. QED
    BY <1>2, <1>3, <1>5, <2>1 DEF Traced
<1>6. ASSUME NEW par, StartDeviceSpan(par, e), Begins(e), Taking(e) = {}, TakesParent(e, par),
             UNCHANGED <<last, finished, to_host, terminated>>
      PROVE  Traced(e)
  <2>1. NoSpanOf(e.packet_uid)
    BY <1>2, <1>3, <1>6, TakingIs
  <2>2. PICK n : n = NextSpan /\ n = Len(spans) + 1
    BY DEF NextSpan
  <2>3. /\ SpanStarts(e) /\ DOMAIN spans' = DOMAIN spans \cup {n}
        /\ \A i \in DOMAIN spans : spans'[i] = spans[i]
        /\ spans'[n].dev_enq[1] = e /\ spans'[n].parent = par
    BY <1>2, <1>4, <1>6, <2>1, <2>2, Started
  <2>4. n \in Nat /\ n \notin DOMAIN spans /\ \A i \in DOMAIN spans : i < n
    <3>1. PICK s : s = spans /\ Sequence(s)
      BY <1>2 DEF TypeInv
    <3>2. Len(s) \in Nat /\ DOMAIN s = 1 .. Len(s)
      BY <3>1 DEF Sequence
    <3>3. QED
      BY <2>2, <3>1, <3>2
  <2>5. Unfinished' = Unfinished \cup {n}
    BY <2>3, <2>4 DEF SpanStarts
  <2>6. PacketOf(n)' = e.packet_uid /\ \A i \in DOMAIN spans : PacketOf(i)' = PacketOf(i)
    BY <2>3 DEF PacketOf
  <2>7. BeginsSpan(e, n, par)
    BY <1>6, <2>1, <2>3, <2>4, <2>5, <2>6 DEF BeginsSpan
  <2>8. QED
    BY <1>2, <1>3, <2>3, <2>4, <2>6, <2>7 DEF Traced
<1>7. CASE FilterDevice
  BY <1>1, <1>5, <1>7 DEF FilterDevice, IsFiltered, IsNotInterestingNodeDevice, Begins, OfInterest
<1>8. CASE EndSpan
  <2>1. SpanStops(e) /\ \A i \in DOMAIN spans : spans'[i].parent = spans[i].parent
    BY <1>2, <1>3, <1>8, Ended1
  <2>2. PICK n : EndsSpan(e, n) /\ DOMAIN spans' = DOMAIN spans
                 /\ \A i \in DOMAIN spans : EnqueueOf(i)' = EnqueueOf(i)
    BY <2>1 DEF SpanStops, EndsSpan
  <2>3. \A i \in DOMAIN spans : PacketOf(i)' = PacketOf(i)
    BY <2>2 DEF PacketOf, EnqueueOf
  <2>4. UNCHANGED from_host /\ ~Begins(e)
    BY <1>8, <2>1 DEF EndSpan, FinishSpan, SpanStops, Begins
  <2>5. QED
    BY <1>2, <1>3, <2>1, <2>2, <2>3, <2>4 DEF Traced
<1>9. CASE IgnoreEnd
  BY <1>1, <1>5, <1>9 DEF IgnoreEnd, Begins, IsEnqueue, IsType
<1>10. CASE StartTrace
  <2>1. StartsTrace(e) /\ StartDeviceSpan(<<>>, e)
        /\ UNCHANGED <<last, finished, from_host, to_host, terminated>>
    BY <1>1, <1>10 DEF StartTrace
  <2>2. Begins(e) /\ Taking(e) = {} /\ ~e.interesting
    BY <2>1 DEF StartsTrace, IsStart, IsUnmatched, Begins, IsEnqueue, IsType, OfInterest
  <2>3. QED
    BY <1>6, <2>1, <2>2 DEF TakesParent
<1>11. CASE IgnoreUninteresting
  <2>1. IsStart(e) /\ ~e.interesting /\ ~StartsTrace(e) /\ UNCHANGED <<spans, active, last, from_host>>
    BY <1>1, <1>11 DEF IgnoreUninteresting
  <2>2. ~Begins(e)
    BY <2>1 DEF StartsTrace, IsStart, IsUnmatched, Begins, OfInterest
  <2>3. QED
    BY <1>5, <2>1, <2>2
<1>12. ASSUME IsStart(e), e.interesting
       PROVE  Begins(e) /\ Taking(e) = {}
  BY <1>12 DEF IsStart, IsUnmatched, IsFiltered, IsNotInterestingNodeDevice, Begins,
               IsEnqueue, IsType, OfInterest
<1>13. CASE StartFromAdapter
  <2>1. PICK c : c = GetValidChannel(e)
    OBVIOUS
  <2>2. /\ IsFromAdapter(e) /\ HasValidChannel(e) /\ c \in Cards /\ from_host[c] # <<>>
        /\ from_host' = [from_host EXCEPT ![c] = Tail(@)]
        /\ StartDeviceSpan(Head(from_host[c]).parent, e)
        /\ UNCHANGED <<last, finished, to_host, terminated>>
    BY <1>1, <1>13, <2>1 DEF StartFromAdapter
  <2>3. c \in CardAt(e) /\ IsStart(e) /\ e.interesting /\ e.boundary = "kFromAdapter"
    BY <2>1, <2>2 DEF CardAt, HasValidChannel, GetValidChannel, IsFromAdapter
  <2>4. TakesParent(e, Head(from_host[c]).parent)
    BY <2>2, <2>3 DEF TakesParent
  <2>5. QED
    BY <1>6, <1>12, <2>2, <2>3, <2>4
<1>14. CASE StartWithin
  <2>1. /\ IsWithin(e) /\ StartDeviceSpan(OfNetwork(last[1]), e) /\ last # <<>>
        /\ UNCHANGED <<last, finished, from_host, to_host, terminated>>
    BY <1>1, <1>14 DEF StartWithin
  <2>2. IsStart(e) /\ e.interesting /\ e.boundary # "kFromAdapter"
    BY <2>1 DEF IsWithin
  <2>3. QED
    BY <1>6, <1>12, <2>1, <2>2 DEF TakesParent
<1>15. QED
  BY <1>7, <1>8, <1>9, <1>10, <1>11, <1>13, <1>14 DEF Handle, HandelNetworkEvent

(* A card sends packets of interest only.                                  *)
LEMMA SendsIs ==
  ASSUME scenario \in DOMAIN Scenarios, NEW e, IsLogged(e), NEW c \in Cards, Sends(e, c)
  PROVE  Begins(e) /\ e.interesting
<1>1. PICK p : p = e.packet_uid /\ p \in DOMAIN Packets
  BY DEF IsLogged
<1>2. PICK h \in HopsOf(p) : IsEventIn(e, h)
  BY <1>1 DEF IsLogged
<1>3. h.enq = "kFromAdapter" /\ <<e.node, e.device>> = Device(h)
  BY <1>2 DEF Sends, IsEnqueue, IsEventIn, Device
<1>4. IsRoute(Route(p)) /\ Packets[p].interesting = IsFromCard(Route(p)[1])
  BY <1>1, RouteIs
<1>5. h = Route(p)[1]
  BY <1>3, <1>4 DEF IsRoute, HopsOf
<1>6. host_channels[Device(h)] \in Cards
  BY <1>3 DEF Sends, CardAt
<1>7. IsFromCard(h)
  BY <1>3, <1>6 DEF IsFromCard
<1>8. Packets[p].interesting
  BY <1>4, <1>5, <1>7
<1>9. HopOfInterest(p, h)
  BY <1>1, <1>5, <1>8, FirstHop
<1>10. OfInterest(e) /\ e.interesting
  BY <1>1, <1>2, <1>8, <1>9, EventIs
<1>11. QED
  BY <1>10 DEF Sends, Begins

(* One more packet a card transmitted is known to the spanner.             *)
LEMMA ContextTaken ==
  ASSUME SimulationInv, TypeInv, SentInv, NEW e, Traced(e)
  PROVE  /\ DOMAIN from_host' = Cards
         /\ \A c \in Cards :
              /\ ~Sends(e, c) => from_host'[c] = from_host[c]
              /\ Sends(e, c) => from_host[c] # <<>> /\ from_host'[c] = Tail(from_host[c])
<1>1. IsLogged(e) /\ scenario \in DOMAIN Scenarios /\ DOMAIN from_host = Cards
  BY NextEventIs DEF Traced, SimulationInv, SentInv
<1>2. CASE UNCHANGED from_host /\ \A c \in Cards : ~Sends(e, c)
  BY <1>1, <1>2
<1>3. CASE ~Begins(e) /\ UNCHANGED from_host
  <2>1. \A c \in Cards : ~Sends(e, c)
    BY <1>1, <1>3, SendsIs
  <2>2. QED
    BY <1>2, <1>3, <2>1
<1>4. ASSUME NEW n, NEW par, BeginsSpan(e, n, par)
      PROVE  /\ DOMAIN from_host' = Cards
             /\ \A c \in Cards :
                  /\ ~Sends(e, c) => from_host'[c] = from_host[c]
                  /\ Sends(e, c) => from_host[c] # <<>> /\ from_host'[c] = Tail(from_host[c])
  <2>1. CASE e.interesting /\ e.boundary = "kFromAdapter"
    <3>1. PICK d \in CardAt(e) : /\ from_host[d] # <<>>
                                 /\ from_host' = [from_host EXCEPT ![d] = Tail(@)]
      BY <1>4, <2>1 DEF BeginsSpan, TakesParent
    <3>2. \A c \in Cards : Sends(e, c) <=> c = d
      BY <1>4, <2>1, <3>1 DEF Sends, CardAt, BeginsSpan, Begins
    <3>3. d \in Cards
      BY <3>1 DEF CardAt
    <3>4. QED
      BY <1>1, <3>1, <3>2, <3>3
  <2>2. CASE ~e.interesting \/ e.boundary # "kFromAdapter"
    <3>1. UNCHANGED from_host
      BY <1>4, <2>2 DEF BeginsSpan, TakesParent
    <3>2. \A c \in Cards : ~Sends(e, c)
      BY <1>1, <2>2, SendsIs DEF Sends
    <3>3. QED
      BY <1>2, <3>1, <3>2
  <2>3. QED
    BY <2>1, <2>2
<1>5. CASE \E n, par : n \in Nat /\ BeginsSpan(e, n, par)
  BY <1>4, <1>5
<1>6. QED
  BY <1>3, <1>5 DEF Traced

(* The contexts that are left are those of the packets that are left.      *)
LEMMA SentHandled ==
  ASSUME SimulationInv, TypeInv, SentInv, NEW e, Traced(e)
  PROVE  SentInv'
<1>1. Taken(log', log) /\ IsNext(e) /\ UNCHANGED <<scenario, sent, given>>
  BY DEF Traced, simulation
<1>2. PICK n : n = Len(log) /\ n \in Nat \ {0} /\ DOMAIN log = 1 .. n
  BY <1>1, LogTaken
<1>3. DOMAIN log' = 1 .. n - 1 /\ \A k \in DOMAIN log' : log'[k] = log[k + 1]
  BY <1>1, <1>2, LogTaken
<1>4. e = log[1] /\ 1 \in DOMAIN log
  BY <1>1, <1>2, NextEventIs
<1>5. /\ DOMAIN from_host' = Cards
      /\ \A c \in Cards :
           /\ ~Sends(e, c) => from_host'[c] = from_host[c]
           /\ Sends(e, c) => from_host[c] # <<>> /\ from_host'[c] = Tail(from_host[c])
  BY ContextTaken
<1>6. SUFFICES ASSUME NEW c \in Cards PROVE SentBy(c)'
  BY <1>1, <1>5 DEF SentInv
<1>7. PICK r, r2, u, g, s : /\ r = from_host[c] /\ r2 = from_host'[c] /\ u = Used(c)
                            /\ g = given[c] /\ s = sent[c]
  OBVIOUS
<1>8. /\ Sequence(r) /\ Sequence(s) /\ g \in Nat /\ u \in Nat /\ u = g - Len(r)
      /\ \A k \in DOMAIN r : r[k].parent = <<c, u + k>>
      /\ Tells(Sendings(c), u, s, log)
  BY <1>7 DEF SentInv, SentBy, Used
<1>9. PICK K, K2 : K = Sendings(c) /\ K2 = Sendings(c)'
  OBVIOUS
<1>10. K \in SUBSET (1 .. n) /\ K2 = {k \in 1 .. n - 1 : k + 1 \in K} /\ (1 \in K <=> Sends(e, c))
  BY <1>2, <1>3, <1>4, <1>9 DEF Sendings, Sends, CardAt
<1>11. /\ 1 \notin K => Tells(K2, u, s, log')
       /\ 1 \in K => Tells(K2, u + 1, s, log')
  <2>1. PICK l, l2 : l = log /\ l2 = log'
    OBVIOUS
  <2>2. /\ n \in Nat \ {0} /\ K \in SUBSET (1 .. n) /\ u \in Nat /\ Sequence(s)
        /\ Tells(K, u, s, l) /\ \A k \in 1 .. n - 1 : l2[k] = l[k + 1]
        /\ K2 \in SUBSET (1 .. n - 1) /\ \A k \in 1 .. n - 1 : k \in K2 <=> k + 1 \in K
    BY <1>2, <1>3, <1>8, <1>9, <1>10, <2>1
  <2>3. 1 \notin K => Tells(K2, u, s, l2)
    BY <2>2, TellsTaken, Zenon
  <2>4. 1 \in K => Tells(K2, u + 1, s, l2)
    BY <2>2, TellsTaken, Zenon
  <2>5. QED
    BY <2>1, <2>3, <2>4
<1>12. ASSUME NEW v \in Nat, v = g - Len(r2), Sequence(r2), Tells(K2, v, s, log'),
              \A k \in DOMAIN r2 : r2[k].parent = <<c, v + k>>
       PROVE  SentBy(c)'
  <2>1. v = Used(c)' /\ given'[c] = g /\ sent'[c] = s
    BY <1>1, <1>7, <1>12 DEF Used
  <2>2. QED
    BY <1>7, <1>8, <1>9, <1>12, <2>1 DEF SentBy
<1>13. CASE ~Sends(e, c)
  BY <1>5, <1>7, <1>8, <1>10, <1>11, <1>12, <1>13
<1>14. CASE Sends(e, c)
  <2>1. r # <<>> /\ r2 = Tail(r)
    BY <1>5, <1>7, <1>14
  <2>2. Taken(r2, r)
    BY <1>8, <2>1, Taking1
  <2>3. Sequence(r2) /\ Len(r) \in Nat /\ DOMAIN r2 = 1 .. Len(r) - 1 /\ DOMAIN r = 1 .. Len(r)
        /\ \A k \in DOMAIN r2 : r2[k] = r[k + 1] /\ Len(r) > 0
    BY <2>2 DEF Taken
  <2>4. Len(r2) = Len(r) - 1
    BY <1>8, <2>1 DEF Sequence
  <2>5. \A k \in DOMAIN r2 : r2[k].parent = <<c, (u + 1) + k>>
    <3>1. SUFFICES ASSUME NEW k \in DOMAIN r2 PROVE r2[k].parent = <<c, (u + 1) + k>>
      OBVIOUS
    <3>2. PICK m : m = Len(r) /\ m \in Nat /\ k \in 1 .. m - 1 /\ DOMAIN r = 1 .. m /\ u \in Nat
      BY <1>8, <2>3, <3>1
    <3>3. PICK j : j = k + 1 /\ j \in 1 .. m /\ u + j = (u + 1) + k
      BY <3>2
    <3>4. r2[k] = r[j]
      BY <2>3, <3>1, <3>3
    <3>5. r[j].parent = <<c, u + j>>
      BY <1>8, <3>2, <3>3
    <3>6. QED
      BY <3>3, <3>4, <3>5
  <2>6. u + 1 \in Nat /\ u + 1 = g - Len(r2)
    BY <1>8, <2>3, <2>4
  <2>7. QED
    BY <1>10, <1>11, <1>12, <1>14, <2>3, <2>5, <2>6
<1>15. QED
  BY <1>13, <1>14

(* What was seen of a packet, and is to be seen, as an event is handled.   *)
LEMMA SeenTaken ==
  ASSUME TypeInv, SimulationInv, NEW e, Traced(e), NEW p
  PROVE  /\ Len(log) \in Nat \ {0} /\ Len(log') + 1 = Len(log)
         /\ DOMAIN log = 1 .. Len(log) /\ e = log[1]
         /\ HasSpan(p)' => HasSpan(p) \/ (Begins(e) /\ p = e.packet_uid)
         /\ OnTheWay' = OnTheWay
         /\ \A k \in DOMAIN log' : k \in Nat \ {0} /\ k + 1 \in DOMAIN log /\ log'[k] = log[k + 1]
         /\ \A k \in Nat \ {0} : (Seen(p, k)' => Seen(p, k + 1)) /\ (More(p, k)' => More(p, k + 1))
<1>1. Taken(log', log) /\ IsNext(e) /\ UNCHANGED <<scenario, hop, inside>>
  BY DEF Traced, simulation
<1>2. PICK n : /\ n = Len(log) /\ n \in Nat \ {0} /\ DOMAIN log = 1 .. n /\ Len(log') + 1 = n
               /\ DOMAIN log' = 1 .. n - 1 /\ \A k \in DOMAIN log' : log'[k] = log[k + 1]
  BY <1>1, LogTaken
<1>3. e = log[1] /\ 1 \in DOMAIN log
  BY <1>1, <1>2, NextEventIs
<1>4. HasSpan(p)' => HasSpan(p) \/ (Begins(e) /\ p = e.packet_uid)
  BY DEF Traced, HasSpan, BeginsSpan
<1>5. OnTheWay' = OnTheWay
  BY <1>1 DEF OnTheWay, Over, Route, Packets
<1>6. \A k \in DOMAIN log' : k \in Nat \ {0} /\ k + 1 \in DOMAIN log
  BY <1>2
<1>7. ASSUME NEW k \in Nat \ {0}, Seen(p, k)' PROVE Seen(p, k + 1)
  <2>1. CASE HasSpan(p)'
    <3>1. 1 < k + 1
      OBVIOUS
    <3>2. QED
      BY <1>3, <1>4, <2>1, <3>1 DEF Seen
  <2>2. CASE \E l \in DOMAIN log' : l < k /\ log'[l].packet_uid = p
    <3>1. PICK l \in DOMAIN log' : l < k /\ log'[l].packet_uid = p
      BY <2>2
    <3>2. l + 1 < k + 1 /\ l + 1 \in DOMAIN log
      BY <1>6, <3>1
    <3>3. QED
      BY <1>2, <3>1, <3>2 DEF Seen
  <2>3. QED
    BY <1>7, <2>1, <2>2 DEF Seen
<1>8. ASSUME NEW k \in Nat \ {0}, More(p, k)' PROVE More(p, k + 1)
  <2>1. CASE p \in OnTheWay'
    BY <1>5, <2>1 DEF More
  <2>2. CASE \E l \in DOMAIN log' : k <= l /\ log'[l].packet_uid = p
    <3>1. PICK l \in DOMAIN log' : k <= l /\ log'[l].packet_uid = p
      BY <2>2
    <3>2. k + 1 <= l + 1 /\ l + 1 \in DOMAIN log
      BY <1>6, <3>1
    <3>3. QED
      BY <1>2, <3>1, <3>2 DEF More
  <2>3. QED
    BY <1>8, <2>1, <2>2 DEF More
<1>9. QED
  BY <1>2, <1>3, <1>4, <1>5, <1>6, <1>7, <1>8

(* New packets stay new, and packets that are alone stay alone.            *)
LEMMA NewHandled ==
  ASSUME TypeInv, SimulationInv, NewInv, AloneInv, NEW e, Traced(e)
  PROVE  NewInv' /\ AloneInv'
<1>1. UNCHANGED <<scenario, hop, inside, mixed>> /\ Packets' = Packets
  BY SameScenario DEF Traced, simulation
<1>2. PICK n : n = Len(log) /\ n \in Nat \ {0} /\ Len(log') + 1 = n
  BY SeenTaken
<1>3. \A k \in DOMAIN log' : k \in Nat \ {0} /\ k + 1 \in DOMAIN log /\ log'[k] = log[k + 1]
  BY SeenTaken
<1>4. ASSUME NEW p \in DOMAIN Packets, hop[p] = 1, p \notin inside, Seen(p, Len(log) + 1)'
      PROVE  FALSE
  <2>1. Seen(p, n)'
    BY <1>2, <1>4
  <2>2. Seen(p, n + 1)
    BY <1>2, <2>1, SeenTaken
  <2>3. QED
    BY <1>2, <1>4, <2>2 DEF NewInv
<1>5. ASSUME NEW k \in DOMAIN log', IsEnqueue(log'[k]), log'[k].boundary = "kFromAdapter",
             Seen(log[k].packet_uid, k)'
      PROVE  FALSE
  <2>1. PICK p : p = log'[k].packet_uid
    OBVIOUS
  <2>2. Seen(p, k)'
    BY <1>5, <2>1
  <2>3. Seen(p, k + 1)
    BY <1>3, <2>2, SeenTaken
  <2>4. QED
    BY <1>3, <1>5, <2>1, <2>3 DEF NewInv
<1>6. NewInv'
  BY <1>1, <1>4, <1>5 DEF NewInv
<1>7. OnTheWay' = OnTheWay
  BY SeenTaken
<1>8. ASSUME NEW p \in DOMAIN Packets, NEW k \in DOMAIN log', p \notin mixed, Seen(p, k)',
             More(p, k)'
      PROVE  log'[k].packet_uid = p
  <2>1. k \in Nat \ {0} /\ k + 1 \in DOMAIN log /\ log'[k] = log[k + 1]
    BY <1>3
  <2>2. Seen(p, k + 1) /\ More(p, k + 1)
    BY <1>8, <2>1, SeenTaken
  <2>3. QED
    BY <1>8, <2>1, <2>2 DEF AloneInv
<1>9. AloneInv'
  BY <1>1, <1>7, <1>8 DEF AloneInv
<1>10. QED
  BY <1>6, <1>9

(* The newest span stays the one that is remembered.                       *)
LEMMA NewestHandled ==
  ASSUME TypeInv, SimulationInv, SpansInv, AloneInv, NewestInv, NEW e, Traced(e)
  PROVE  NewestInv'
<1>1. UNCHANGED mixed /\ Packets' = Packets
  BY SameScenario DEF Traced, simulation
<1>2. Unfinished \subseteq DOMAIN spans
  BY DEF SpansInv
<1>3. \A i \in DOMAIN spans : PacketOf(i)' = PacketOf(i)
  BY DEF Traced
<1>4. ASSUME NEW p \in DOMAIN Packets, p \notin mixed, HasSpan(p), More(p, 1)'
      PROVE  p = e.packet_uid /\ More(p, 1)
  <2>1. More(p, 2)
    <3>1. 1 \in Nat \ {0} /\ 1 + 1 = 2
      OBVIOUS
    <3>2. More(p, 1 + 1)
      BY <1>4, <3>1, SeenTaken
    <3>3. QED
      BY <3>1, <3>2
  <2>2. 1 \in DOMAIN log /\ DOMAIN log \subseteq Nat /\ e = log[1]
    <3>1. PICK n : n = Len(log) /\ n \in Nat \ {0} /\ DOMAIN log = 1 .. n /\ e = log[1]
      BY SeenTaken
    <3>2. QED
      BY <3>1
  <2>3. More(p, 1)
    <3>1. \A l \in DOMAIN log : 2 <= l => 1 <= l
      BY <2>2
    <3>2. QED
      BY <2>1, <3>1 DEF More
  <2>4. QED
    BY <1>4, <2>2, <2>3 DEF AloneInv, Seen
<1>5. ASSUME DOMAIN spans' = DOMAIN spans
      PROVE  \A m, p : IsNewest(m, p) => IsNewest(m, p)'
  BY <1>3, <1>5 DEF IsNewest
<1>6. ASSUME NEW n \in Nat, NEW par, BeginsSpan(e, n, par)
      PROVE  NewestInv'
  <2>1. /\ NoSpanOf(e.packet_uid) /\ \A i \in DOMAIN spans : i < n
        /\ DOMAIN spans' = DOMAIN spans \cup {n} /\ Unfinished' = Unfinished \cup {n}
        /\ PacketOf(n)' = e.packet_uid
    BY <1>6 DEF BeginsSpan
  <2>2. ASSUME NEW p, p = e.packet_uid PROVE IsNewest(n, p)'
    <3>1. \A j \in DOMAIN spans' : j <= n
      <4>1. \A j \in DOMAIN spans : j \in Nat
        <5>1. PICK s, S : s = spans /\ s \in Seq(S)
          BY DEF TypeInv, Sequence
        <5>2. QED
          BY <5>1
      <4>2. QED
        BY <2>1, <4>1
    <3>2. QED
      BY <2>1, <2>2, <3>1 DEF IsNewest
  <2>3. ASSUME NEW i \in Unfinished', NEW p, p = PacketOf(i)' PROVE IsNewest(i, p)'
    <3>1. CASE i = n
      BY <2>1, <2>2, <2>3, <3>1
    <3>2. CASE i \in Unfinished
      <4>1. IsNewest(i, p) /\ p # e.packet_uid
        BY <1>2, <1>3, <2>1, <2>3, <3>2 DEF NewestInv, NoSpanOf
      <4>2. QED
        BY <1>3, <2>1, <4>1 DEF IsNewest
    <3>3. QED
      BY <2>1, <2>3, <3>1, <3>2
  <2>4. ASSUME NEW p \in DOMAIN Packets, p \notin mixed, HasSpan(p)', More(p, 1)'
        PROVE  \E m \in DOMAIN spans' : IsNewest(m, p)' /\ m \in Unfinished'
    <3>1. p = e.packet_uid
      <4>1. HasSpan(p) \/ p = e.packet_uid
        BY <2>4, SeenTaken
      <4>2. QED
        BY <1>4, <2>4, <4>1
    <3>2. IsNewest(n, p)'
      BY <2>2, <3>1
    <3>3. QED
      BY <2>1, <3>2
  <2>5. QED
    BY <1>1, <2>3, <2>4 DEF NewestInv
<1>7. ASSUME DOMAIN spans' = DOMAIN spans,
             (\E n : EndsSpan(e, n)) \/ (Unfinished' = Unfinished /\ UNCHANGED last)
      PROVE  NewestInv'
  <2>1. Unfinished' \subseteq Unfinished
    BY <1>7 DEF EndsSpan
  <2>2. ASSUME NEW i \in Unfinished', NEW p, p = PacketOf(i)' PROVE IsNewest(i, p)'
    <3>1. IsNewest(i, p)
      BY <1>2, <1>3, <2>1, <2>2 DEF NewestInv
    <3>2. QED
      BY <1>5, <1>7, <3>1
  <2>3. ASSUME NEW p \in DOMAIN Packets, p \notin mixed, HasSpan(p)', More(p, 1)'
        PROVE  \E m \in DOMAIN spans' : IsNewest(m, p)' /\ (m \in Unfinished' \/ last' = <<m>>)
    <3>1. HasSpan(p)
      BY <1>3, <1>7, <2>3 DEF HasSpan
    <3>2. p = e.packet_uid /\ More(p, 1)
      BY <1>4, <2>3, <3>1
    <3>3. CASE \E n : EndsSpan(e, n)
      <4>1. PICK n : n \in Unfinished /\ PacketOf(n) = p /\ last' = <<n>>
        BY <3>2, <3>3 DEF EndsSpan
      <4>2. IsNewest(n, p)
        BY <4>1 DEF NewestInv
      <4>3. IsNewest(n, p)'
        BY <1>5, <1>7, <4>2
      <4>4. QED
        BY <1>2, <1>7, <4>1, <4>3
    <3>4. CASE Unfinished' = Unfinished /\ UNCHANGED last
      <4>1. PICK m \in DOMAIN spans : IsNewest(m, p) /\ (m \in Unfinished \/ last = <<m>>)
        BY <2>3, <3>1, <3>2 DEF NewestInv
      <4>2. IsNewest(m, p)'
        BY <1>5, <1>7, <4>1
      <4>3. QED
        BY <1>7, <3>4, <4>1, <4>2
    <3>5. QED
      BY <1>7, <3>3, <3>4
  <2>4. QED
    BY <1>1, <2>2, <2>3 DEF NewestInv
<1>8. QED
  BY <1>6, <1>7 DEF Traced

(* The context a card gave is that of the packet which is handled.         *)
LEMMA ContextIs ==
  ASSUME TypeInv, SimulationInv, SentInv, NEW e, IsNext(e), NEW c \in Cards, Sends(e, c),
         from_host[c] # <<>>
  PROVE  \E k \in DOMAIN sent[c] :
           sent[c][k] = e.packet_uid /\ Head(from_host[c]).parent = <<c, k>>
<1>1. PICK n : n = Len(log) /\ n \in Nat /\ DOMAIN log = 1 .. n /\ 1 \in DOMAIN log /\ e = log[1]
  <2>1. PICK n : n = Len(log) /\ n \in Nat \ {0} /\ DOMAIN log = 1 .. n /\ e = log[1]
    BY NextEventIs
  <2>2. QED
    BY <2>1
<1>2. PICK r, u, s : r = from_host[c] /\ u = Used(c) /\ s = sent[c]
  OBVIOUS
<1>3. /\ Sequence(r) /\ Sequence(s) /\ u \in Nat
      /\ \A k \in DOMAIN r : r[k].parent = <<c, u + k>>
      /\ Tells(Sendings(c), u, s, log)
  BY <1>2 DEF SentInv, SentBy
<1>4. PICK K, l : K = Sendings(c) /\ l = log
  OBVIOUS
<1>5. K \in SUBSET (1 .. n) /\ 1 \in K
  BY <1>1, <1>4 DEF Sendings
<1>6. PICK place : IsPlacing(place, K, u, s, l)
  BY <1>3, <1>4 DEF Tells
<1>7. IsFirst(place, u, s, l)
  BY <1>1, <1>3, <1>5, <1>6, TellsFirst
<1>8. 1 \in DOMAIN r /\ Head(r) = r[1]
  BY <1>2, <1>3, HeadIs
<1>9. Head(r).parent = <<c, u + 1>>
  BY <1>3, <1>8
<1>10. QED
  BY <1>1, <1>2, <1>4, <1>7, <1>9 DEF IsFirst

(* A new span has the parent that TraceFollowsPacket says.                 *)
LEMMA ParentIs ==
  ASSUME NetworkInv, TraceInv, NEW e, IsNext(e), Begins(e), e.interesting,
         NoSpanOf(e.packet_uid), NEW par, TakesParent(e, par)
  PROVE  IF ~HasSpan(e.packet_uid)
         THEN \E c \in Cards : \E k \in DOMAIN sent[c] :
                sent[c][k] = e.packet_uid /\ par = <<c, k>>
         ELSE \/ e.packet_uid \in mixed
              \/ \E m \in DOMAIN spans : IsNewest(m, e.packet_uid) /\ par = OfNetwork(m)
<1> USE DEF NetworkInv, TraceInv
<1>1. /\ e = log[1] /\ 1 \in DOMAIN log /\ DOMAIN log \subseteq Nat \ {0}
      /\ e.packet_uid \in DOMAIN Packets
  <2>1. PICK n : n = Len(log) /\ n \in Nat \ {0} /\ DOMAIN log = 1 .. n /\ e = log[1]
                 /\ IsLogged(e)
    BY NextEventIs
  <2>2. QED
    BY <2>1 DEF IsLogged
<1>2. PICK p : p = e.packet_uid
  OBVIOUS
<1>3. IsEnqueue(e)
  BY DEF Begins
<1>4. CASE ~HasSpan(p)
  <2>1. ASSUME e.boundary # "kFromAdapter" PROVE FALSE
    <3>1. HasBegun(p, 1)
      BY <1>1, <1>2, <1>3, <2>1 DEF BeginsInv
    <3>2. QED
      BY <1>1, <1>4, <3>1 DEF HasBegun, HasSpan
  <2>2. PICK c \in CardAt(e) : from_host[c] # <<>> /\ par = Head(from_host[c]).parent
    BY <2>1 DEF TakesParent
  <2>3. c \in Cards /\ Sends(e, c)
    BY <1>3, <2>1, <2>2 DEF Sends, CardAt
  <2>4. QED
    BY <1>2, <1>4, <2>2, <2>3, ContextIs
<1>5. CASE HasSpan(p) /\ p \notin mixed
  <2>1. e.boundary # "kFromAdapter"
    BY <1>1, <1>2, <1>3, <1>5 DEF NewInv, Seen
  <2>2. last # <<>> /\ par = OfNetwork(last[1])
    BY <2>1 DEF TakesParent
  <2>3. More(p, 1)
    <3>1. 1 <= 1
      OBVIOUS
    <3>2. QED
      BY <1>1, <1>2, <3>1 DEF More
  <2>4. PICK m \in DOMAIN spans : IsNewest(m, p) /\ (m \in Unfinished \/ last = <<m>>)
    BY <1>1, <1>2, <1>5, <2>3 DEF NewestInv
  <2>5. m \notin Unfinished
    BY <1>2, <2>4 DEF NoSpanOf, IsNewest
  <2>6. last[1] = m
    BY <2>4, <2>5
  <2>7. QED
    BY <1>2, <1>5, <2>2, <2>4, <2>6
<1>6. QED
  BY <1>2, <1>4, <1>5

(* The spans there are keep their parents.                                 *)
LEMMA ParentsKept ==
  ASSUME ParentInv, UNCHANGED scenario, mixed \subseteq mixed', NEW i \in DOMAIN spans,
         DOMAIN sent' = Cards,
         \A c \in Cards : \A k \in DOMAIN sent[c] : k \in DOMAIN sent'[c] /\ sent'[c][k] = sent[c][k],
         PacketOf(i)' = PacketOf(i), spans'[i].parent = spans[i].parent,
         EarlierThan(i)' = EarlierThan(i)
  PROVE  (PacketOf(i) \in DOMAIN Packets /\ IsTraced(i))'
<1>1. Packets' = Packets
  BY SameScenario
<1>2. PICK p : p = PacketOf(i)
  OBVIOUS
<1>3. p \in DOMAIN Packets /\ IsTraced(i)
  BY <1>2 DEF ParentInv
<1>4. HasFirstParent(i) => HasFirstParent(i)'
  BY DEF HasFirstParent
<1>5. HasNextParent(i) => HasNextParent(i)'
  BY DEF HasNextParent
<1>6. QED
  BY <1>1, <1>2, <1>3, <1>4, <1>5 DEF IsTraced

(* Every span has the parent that TraceFollowsPacket says.                 *)
LEMMA ParentHandled ==
  ASSUME NetworkInv, TraceInv, NEW e, Traced(e)
  PROVE  ParentInv'
<1> USE DEF NetworkInv, TraceInv
<1>1. UNCHANGED <<scenario, mixed, sent>> /\ Packets' = Packets /\ IsNext(e)
  BY SameScenario DEF Traced, simulation
<1>2. /\ \A i \in DOMAIN spans : PacketOf(i)' = PacketOf(i) /\ spans'[i].parent = spans[i].parent
      /\ DOMAIN sent = Cards
  BY DEF Traced, SentInv
<1>3. CASE DOMAIN spans' = DOMAIN spans
  <2>1. SUFFICES ASSUME NEW i \in DOMAIN spans
                 PROVE  (PacketOf(i) \in DOMAIN Packets /\ IsTraced(i))'
    BY <1>3 DEF ParentInv
  <2>2. EarlierThan(i)' = EarlierThan(i)
    BY <1>2, <1>3 DEF EarlierThan
  <2>3. QED
    BY <1>1, <1>2, <2>2, ParentsKept
<1>4. ASSUME NEW n \in Nat, NEW par, BeginsSpan(e, n, par)
      PROVE  ParentInv'
  <2>1. /\ \A i \in DOMAIN spans : i < n
        /\ DOMAIN spans' = DOMAIN spans \cup {n} /\ n \notin DOMAIN spans
        /\ PacketOf(n)' = e.packet_uid /\ spans'[n].parent = par
    BY <1>4 DEF BeginsSpan
  <2>2. DOMAIN spans \subseteq Nat
    <3>1. PICK s, S : s = spans /\ s \in Seq(S)
      BY DEF TypeInv, Sequence
    <3>2. QED
      BY <3>1
  <2>3. ASSUME NEW i \in DOMAIN spans PROVE (PacketOf(i) \in DOMAIN Packets /\ IsTraced(i))'
    <3>1. ~(n < i)
      BY <2>1, <2>2
    <3>2. EarlierThan(i)' = EarlierThan(i)
      BY <1>2, <2>1, <3>1 DEF EarlierThan
    <3>3. QED
      BY <1>1, <1>2, <3>2, ParentsKept
  <2>4. PICK p : p = e.packet_uid /\ p \in DOMAIN Packets /\ e.interesting = Packets[p].interesting
    <3>1. IsLogged(e)
      BY <1>1, NextEventIs
    <3>2. QED
      BY <3>1 DEF IsLogged, IsEventIn
  <2>5. EarlierThan(n)' = {j \in DOMAIN spans : PacketOf(j) = p}
    <3>1. ~(n < n)
      OBVIOUS
    <3>2. QED
      BY <1>2, <2>1, <2>4, <3>1 DEF EarlierThan
  <2>6. IsTraced(n)'
    <3>1. SUFFICES ASSUME Packets[p].interesting PROVE IsTraced(n)'
      BY <1>1, <2>1, <2>4 DEF IsTraced
    <3>2. IF ~HasSpan(p)
          THEN \E c \in Cards : \E k \in DOMAIN sent[c] : sent[c][k] = p /\ par = <<c, k>>
          ELSE p \in mixed \/ \E m \in DOMAIN spans : IsNewest(m, p) /\ par = OfNetwork(m)
      BY <1>1, <1>4, <2>4, <3>1, ParentIs DEF BeginsSpan
    <3>3. CASE ~HasSpan(p)
      <4>1. EarlierThan(n)' = {}
        BY <2>5, <3>3 DEF HasSpan
      <4>2. HasFirstParent(n)'
        BY <1>1, <2>1, <2>4, <3>2, <3>3 DEF HasFirstParent
      <4>3. QED
        BY <4>1, <4>2 DEF IsTraced
    <3>4. CASE HasSpan(p) /\ p \notin mixed
      <4>1. PICK m \in DOMAIN spans : IsNewest(m, p) /\ par = OfNetwork(m)
        BY <3>2, <3>4
      <4>2. m \in EarlierThan(n)' /\ \A j \in EarlierThan(n)' : j <= m
        BY <2>5, <4>1 DEF IsNewest
      <4>3. HasNextParent(n)'
        BY <2>1, <4>1, <4>2 DEF HasNextParent
      <4>4. QED
        BY <4>2, <4>3 DEF IsTraced
    <3>5. CASE HasSpan(p) /\ p \in mixed
      <4>1. EarlierThan(n)' # {}
        BY <2>5, <3>5 DEF HasSpan
      <4>2. QED
        BY <1>1, <2>1, <2>4, <3>5, <4>1 DEF IsTraced
    <3>6. QED
      BY <3>3, <3>4, <3>5
  <2>7. QED
    BY <1>1, <2>1, <2>3, <2>4, <2>6 DEF ParentInv
<1>5. QED
  BY <1>3, <1>4 DEF Traced

(* A card transmits the packet if and only if the event tells of it, and   *)
(* the packet is mixed with those it meets.                                *)
Transmits(p, e) ==
  /\ DOMAIN sent' = Cards
  /\ \A c \in Cards : sent'[c] = IF Sends(e, c) THEN Append(sent[c], p) ELSE sent[c]
  /\ UNCHANGED <<from_host, given>>
Mixes(p) ==
  mixed' = IF p \notin OnTheWay /\ OnTheWay # {} THEN mixed \cup OnTheWay \cup {p} ELSE mixed

(* What a card transmitted is in the log, or was.                          *)
LEMMA SentMoved ==
  ASSUME TypeInv, SimulationInv, SentInv, NEW p, NEW e, Moves(p, e), Transmits(p, e)
  PROVE  /\ SentInv'
         /\ \A c \in Cards : \A k \in DOMAIN sent[c] : k \in DOMAIN sent'[c] /\ sent'[c][k] = sent[c][k]
<1>1. PICK n : n = Len(log)
  OBVIOUS
<1>2. /\ n \in Nat /\ DOMAIN log = 1 .. n
      /\ \A k \in DOMAIN log' : k \in DOMAIN log \/ (k = n + 1 /\ log'[k] = e)
      /\ \A k \in DOMAIN log : k \in DOMAIN log' /\ log'[k] = log[k]
  BY <1>1, LogMoved
<1>3. IsLogged(e) /\ scenario \in DOMAIN Scenarios /\ e.packet_uid = p
  BY MovedIs DEF Moves
<1>4. UNCHANGED <<from_host, given>>
  BY DEF Transmits
<1>5. ASSUME NEW c \in Cards
      PROVE  /\ SentBy(c)'
             /\ \A k \in DOMAIN sent[c] : k \in DOMAIN sent'[c] /\ sent'[c][k] = sent[c][k]
  <2>1. PICK s, s2, u : s = sent[c] /\ s2 = sent'[c] /\ u = Used(c)
    OBVIOUS
  <2>2. /\ Sequence(from_host[c]) /\ Sequence(s) /\ given[c] \in Nat /\ u \in Nat
        /\ \A k \in DOMAIN from_host[c] : from_host[c][k].parent = <<c, u + k>>
        /\ Tells(Sendings(c), u, s, log)
    BY <2>1 DEF SentInv, SentBy
  <2>3. PICK K, K2 : K = Sendings(c) /\ K2 = Sendings(c)'
    OBVIOUS
  <2>4. K = {k \in DOMAIN log : Sends(log[k], c)} /\ K2 = {k \in DOMAIN log' : Sends(log'[k], c)}
    BY <2>3 DEF Sendings, Sends, CardAt
  <2>5. u = Used(c)'
    BY <1>4, <2>1 DEF Used
  <2>6. CASE ~Sends(e, c)
    <3>1. s2 = s
      BY <2>1, <2>6 DEF Transmits
    <3>2. K2 = K /\ \A k \in K : log'[k] = log[k]
      BY <1>2, <2>4, <2>6
    <3>3. Tells(K2, u, s2, log')
      BY <2>2, <2>3, <3>1, <3>2, TellsSame
    <3>4. SentBy(c)'
      BY <1>4, <2>1, <2>2, <2>3, <2>5, <3>1, <3>3 DEF SentBy
    <3>5. QED
      BY <2>1, <3>1, <3>4
  <2>7. CASE Sends(e, c)
    <3>1. Extended(s2, s, p)
      BY <2>1, <2>2, <2>7, Appending DEF Transmits
    <3>2. OfInterest(e)
      BY <1>3, <2>7, SendsIs DEF Begins
    <3>3. n + 1 \in DOMAIN log' /\ log'[n + 1] = e
      BY <1>1, <3>2, LogMoved
    <3>4. K2 = K \cup {n + 1} /\ K \in SUBSET (1 .. n)
      BY <1>2, <2>4, <2>7, <3>3
    <3>5. PICK l, l2 : l = log /\ l2 = log'
      OBVIOUS
    <3>6. /\ n \in Nat /\ K \in SUBSET (1 .. n) /\ u \in Nat /\ Sequence(s) /\ Tells(K, u, s, l)
          /\ \A k \in 1 .. n : l2[k] = l[k]
          /\ l2[n + 1].packet_uid = p /\ Extended(s2, s, p)
      BY <1>2, <1>3, <2>2, <2>3, <3>1, <3>3, <3>4, <3>5
    <3>7. Tells(K \cup {n + 1}, u, s2, l2)
      BY <3>6, TellsMore, Zenon
    <3>8. Sequence(s2) /\ \A k \in DOMAIN s : k \in DOMAIN s2 /\ s2[k] = s[k]
      BY <3>1 DEF Extended
    <3>9. SentBy(c)'
      BY <1>4, <2>1, <2>2, <2>3, <2>5, <3>4, <3>5, <3>7, <3>8 DEF SentBy
    <3>10. QED
      BY <2>1, <3>8, <3>9
  <2>8. QED
    BY <2>6, <2>7
<1>6. DOMAIN from_host = Cards /\ DOMAIN given = Cards /\ DOMAIN sent' = Cards
  BY DEF SentInv, Transmits
<1>7. QED
  BY <1>4, <1>5, <1>6 DEF SentInv

(* What was seen of a packet, and is to be seen, as a packet moves.        *)
LEMMA SeenMoved ==
  ASSUME TypeInv, SimulationInv, NEW p, NEW e, Moves(p, e), NEW n, n = Len(log), NEW q
  PROVE  /\ HasSpan(q)' <=> HasSpan(q)
         /\ \A k \in Nat : k <= n + 1 /\ Seen(q, k)' => Seen(q, k)
         /\ q # p /\ Seen(q, Len(log) + 1)' => Seen(q, n + 1)
         /\ q # p => (q \in OnTheWay' <=> q \in OnTheWay)
         /\ q = p /\ q \notin OnTheWay => hop[p] = 1 /\ p \notin inside
         /\ \A k : More(q, k)' => More(q, k) \/ q = p
<1>1. /\ n \in Nat /\ DOMAIN log = 1 .. n
      /\ \A k \in DOMAIN log' : k \in DOMAIN log \/ (k = n + 1 /\ log'[k] = e)
      /\ \A k \in DOMAIN log : log'[k] = log[k]
  BY LogMoved
<1>2. /\ UNCHANGED <<spans, scenario>> /\ e.packet_uid = p /\ p \in DOMAIN Packets /\ ~Over(p)
      /\ \A r \in DOMAIN Packets : r # p => hop'[r] = hop[r] /\ (r \in inside' <=> r \in inside)
  BY DEF Moves
<1>3. HasSpan(q)' <=> HasSpan(q)
  BY <1>2 DEF HasSpan, PacketOf
<1>4. ASSUME NEW k \in Nat, k <= n + 1, Seen(q, k)' PROVE Seen(q, k)
  <2>1. \A l \in DOMAIN log' : l < k => l \in DOMAIN log /\ log'[l] = log[l]
    <3>1. ~(n + 1 < k)
      BY <1>1, <1>4
    <3>2. QED
      BY <1>1, <3>1
  <2>2. QED
    BY <1>3, <1>4, <2>1 DEF Seen
<1>5. ASSUME q # p, Seen(q, Len(log) + 1)' PROVE Seen(q, n + 1)
  <2>1. \A l \in DOMAIN log' : log'[l].packet_uid = q => l \in DOMAIN log /\ log'[l] = log[l] /\ l < n + 1
    BY <1>1, <1>2, <1>5
  <2>2. QED
    BY <1>3, <1>5, <2>1 DEF Seen
<1>6. ASSUME q # p PROVE q \in OnTheWay' <=> q \in OnTheWay
  BY <1>2, <1>6, SameScenario DEF OnTheWay, Over
<1>7. p \notin OnTheWay => hop[p] = 1 /\ p \notin inside
  <2>1. hop[p] \in Nat /\ hop[p] > 0
    BY <1>2 DEF SimulationInv
  <2>2. hop[p] > 1 \/ hop[p] = 1
    BY <2>1
  <2>3. QED
    BY <1>2, <2>2 DEF OnTheWay
<1>8. ASSUME NEW k, More(q, k)', q # p PROVE More(q, k)
  BY <1>1, <1>2, <1>6, <1>8 DEF More
<1>9. QED
  BY <1>3, <1>4, <1>5, <1>6, <1>7, <1>8

(* A packet that moves is not new any more.                                *)
LEMMA NewMoved ==
  ASSUME TypeInv, SimulationInv, NewInv, NEW p, NEW e, MovesOn(p, e)
  PROVE  NewInv'
<1>1. PICK n : n = Len(log)
  OBVIOUS
<1>2. Moves(p, e)
  BY DEF MovesOn, EntersDevice, LeavesDevice
<1>3. /\ n \in Nat /\ DOMAIN log = 1 .. n
      /\ \A k \in DOMAIN log' : k \in DOMAIN log \/ (k = n + 1 /\ log'[k] = e)
      /\ \A k \in DOMAIN log : log'[k] = log[k]
  BY <1>1, <1>2, LogMoved
<1>4. /\ UNCHANGED scenario /\ scenario \in DOMAIN Scenarios /\ p \in DOMAIN Packets
      /\ e.packet_uid = p /\ ~Over(p) /\ hop[p] \in Nat /\ hop[p] > 0 /\ IsEventIn(e, Here(p))
      /\ \A q \in DOMAIN Packets : q # p => hop'[q] = hop[q] /\ (q \in inside' <=> q \in inside)
  BY <1>2 DEF Moves, SimulationInv
<1>5. p \in inside' \/ hop'[p] > 1
  BY DEF MovesOn, EntersDevice, LeavesDevice
<1>6. ASSUME NEW q \in DOMAIN Packets, hop'[q] = 1, q \notin inside', Seen(q, Len(log) + 1)'
      PROVE  FALSE
  <2>1. q # p
    <3>1. ~(1 > 1)
      OBVIOUS
    <3>2. QED
      BY <1>5, <1>6, <3>1
  <2>2. Seen(q, n + 1)
    BY <1>1, <1>2, <1>6, <2>1, SeenMoved
  <2>3. QED
    BY <1>1, <1>4, <1>6, <2>1, <2>2 DEF NewInv
<1>7. ASSUME NEW k \in DOMAIN log', NEW x, x = log'[k], IsEnqueue(x), x.boundary = "kFromAdapter",
             Seen(x.packet_uid, k)'
      PROVE  FALSE
  <2>1. PICK q : q = x.packet_uid
    OBVIOUS
  <2>2. k \in Nat /\ k <= n + 1
    BY <1>3
  <2>3. Seen(q, k)
    BY <1>1, <1>2, <1>7, <2>1, <2>2, SeenMoved
  <2>4. CASE k \in DOMAIN log
    BY <1>3, <1>7, <2>1, <2>3, <2>4 DEF NewInv
  <2>5. CASE k = n + 1 /\ x = e
    <3>1. EntersDevice(p, e)
      BY <1>7, <2>5 DEF MovesOn, LeavesDevice
    <3>2. p \notin inside
      BY <3>1 DEF EntersDevice
    <3>3. Here(p).enq = "kFromAdapter"
      BY <1>4, <1>7, <2>5 DEF IsEventIn, IsEnqueue
    <3>4. hop[p] = 1
      BY <1>4, <3>3, HereIs
    <3>5. QED
      BY <1>1, <1>4, <2>1, <2>3, <2>5, <3>2, <3>4 DEF NewInv
  <2>6. QED
    BY <1>3, <1>7, <2>4, <2>5
<1>8. ASSUME NEW k \in DOMAIN log', IsEnqueue(log'[k]), log'[k].boundary = "kFromAdapter"
      PROVE  ~Seen(log[k].packet_uid, k)'
  <2>1. PICK x : x = log'[k]
    OBVIOUS
  <2>2. ~Seen(x.packet_uid, k)'
    BY <1>7, <1>8, <2>1
  <2>3. QED
    BY <2>1, <2>2
<1>9. Packets' = Packets
  BY <1>4, SameScenario
<1>10. QED
  BY <1>6, <1>8, <1>9 DEF NewInv

(* A packet that moves alone is alone, or mixed.                           *)
LEMMA AloneMoved ==
  ASSUME TypeInv, SimulationInv, NewInv, AloneInv, NEW p, NEW e, Moves(p, e), Mixes(p)
  PROVE  AloneInv'
<1>1. PICK n : n = Len(log)
  OBVIOUS
<1>2. /\ n \in Nat /\ DOMAIN log = 1 .. n
      /\ \A k \in DOMAIN log' : k \in DOMAIN log \/ (k = n + 1 /\ log'[k] = e)
      /\ \A k \in DOMAIN log : log'[k] = log[k]
  BY <1>1, LogMoved
<1>3. UNCHANGED scenario /\ e.packet_uid = p /\ p \in DOMAIN Packets
  BY DEF Moves
<1>4. Packets' = Packets /\ OnTheWay \subseteq DOMAIN Packets /\ OnTheWay' \subseteq DOMAIN Packets
  BY <1>3, SameScenario DEF OnTheWay
<1>5. \A q : q # p => (q \in OnTheWay' <=> q \in OnTheWay)
  BY <1>1, SeenMoved
<1>6. /\ mixed \subseteq mixed'
      /\ p \notin OnTheWay /\ OnTheWay # {} => OnTheWay \cup {p} \subseteq mixed'
  BY DEF Mixes
<1>7. ASSUME NEW q \in OnTheWay', q \notin mixed' PROVE OnTheWay' \subseteq {q}
  <2>1. CASE p \in OnTheWay
    BY <1>5, <1>6, <1>7, <2>1 DEF AloneInv
  <2>2. CASE p \notin OnTheWay
    BY <1>5, <1>6, <1>7, <2>2
  <2>3. QED
    BY <2>1, <2>2
<1>8. ASSUME NEW q \in DOMAIN Packets, NEW k \in DOMAIN log', q \notin mixed', Seen(q, k)',
             More(q, k)'
      PROVE  log'[k].packet_uid = q
  <2>1. k \in Nat /\ k <= n + 1
    BY <1>2
  <2>2. Seen(q, k)
    BY <1>1, <1>8, <2>1, SeenMoved
  <2>3. q \in OnTheWay \/ q # p => More(q, k)
    <3>1. q \in OnTheWay => More(q, k)
      BY DEF More
    <3>2. q # p => More(q, k)
      BY <1>1, <1>8, SeenMoved
    <3>3. QED
      BY <3>1, <3>2
  <2>4. CASE k \in DOMAIN log
    <3>1. CASE q = p /\ q \notin OnTheWay
      <4>1. hop[p] = 1 /\ p \notin inside
        BY <3>1, SeenMoved
      <4>2. ~Seen(p, n + 1)
        BY <1>1, <1>3, <4>1 DEF NewInv
      <4>3. \A l \in DOMAIN log : l < k => l < n + 1
        BY <1>2
      <4>4. QED
        BY <2>2, <3>1, <4>2, <4>3 DEF Seen
    <3>2. CASE ~(q = p /\ q \notin OnTheWay)
      BY <1>2, <1>6, <1>8, <2>2, <2>3, <2>4, <3>2 DEF AloneInv
    <3>3. QED
      BY <3>1, <3>2
  <2>5. CASE k = n + 1 /\ log'[k] = e /\ q # p
    <3>1. \A l \in DOMAIN log : ~(k <= l)
      BY <1>2, <2>5
    <3>2. q \in OnTheWay
      BY <2>3, <2>5, <3>1 DEF More
    <3>3. OnTheWay \subseteq {q}
      BY <1>6, <1>8, <3>2 DEF AloneInv
    <3>4. QED
      BY <1>6, <1>8, <2>5, <3>2, <3>3
  <2>6. QED
    BY <1>2, <1>3, <2>4, <2>5
<1>9. QED
  BY <1>4, <1>7, <1>8 DEF AloneInv

(* A packet that moves is new to the spanner, or moved before.             *)
LEMMA NewestMoved ==
  ASSUME TypeInv, SimulationInv, NewInv, NewestInv, NEW p, NEW e, Moves(p, e), Mixes(p)
  PROVE  NewestInv'
<1>1. UNCHANGED <<spans, active, last, scenario>> /\ p \in DOMAIN Packets
  BY DEF Moves
<1>2. Packets' = Packets /\ mixed \subseteq mixed'
  BY <1>1, SameScenario DEF Mixes
<1>3. /\ Unfinished' = Unfinished /\ \A i : PacketOf(i)' = PacketOf(i)
      /\ \A m, q : IsNewest(m, q)' <=> IsNewest(m, q)
  BY <1>1 DEF Unfinished, PacketOf, IsNewest
<1>4. ASSUME NEW q \in DOMAIN Packets, q \notin mixed', HasSpan(q)', More(q, 1)'
      PROVE  \E m \in DOMAIN spans : IsNewest(m, q) /\ (m \in Unfinished \/ last = <<m>>)
  <2>1. HasSpan(q)
    BY <1>4, SeenMoved
  <2>2. More(q, 1)
    <3>1. q \in OnTheWay => More(q, 1)
      BY DEF More
    <3>2. q # p => More(q, 1)
      BY <1>4, SeenMoved
    <3>3. CASE q = p /\ q \notin OnTheWay
      <4>1. hop[p] = 1 /\ p \notin inside
        BY <3>3, SeenMoved
      <4>2. QED
        BY <1>1, <2>1, <3>3, <4>1 DEF NewInv, Seen
    <3>4. QED
      BY <3>1, <3>2, <3>3
  <2>3. QED
    BY <1>2, <1>4, <2>1, <2>2 DEF NewestInv
<1>5. ASSUME NEW i \in Unfinished', NEW q, q = PacketOf(i)' PROVE IsNewest(i, q)'
  BY <1>3, <1>5 DEF NewestInv
<1>6. QED
  BY <1>1, <1>2, <1>3, <1>4, <1>5 DEF NewestInv

(* A step of a packet keeps the invariant.                                 *)
LEMMA TraceMoved ==
  ASSUME NetworkInv, TraceInv, NEW p, NEW e, MovesOn(p, e), Transmits(p, e), Mixes(p)
  PROVE  TraceInv'
<1>1. Moves(p, e)
  BY DEF MovesOn, EntersDevice, LeavesDevice
<1>2. TypeInv /\ SimulationInv /\ SentInv /\ NewInv /\ AloneInv /\ NewestInv /\ ParentInv
  BY DEF NetworkInv, TraceInv
<1>3. NewInv' /\ AloneInv' /\ NewestInv'
  BY <1>1, <1>2, NewMoved, AloneMoved, NewestMoved
<1>4. /\ SentInv'
      /\ \A c \in Cards : \A k \in DOMAIN sent[c] : k \in DOMAIN sent'[c] /\ sent'[c][k] = sent[c][k]
  BY <1>1, <1>2, SentMoved
<1>5. /\ UNCHANGED <<spans, scenario>> /\ mixed \subseteq mixed' /\ DOMAIN sent' = Cards
      /\ \A i : PacketOf(i)' = PacketOf(i)
  BY <1>1 DEF Moves, Mixes, Transmits, PacketOf
<1>6. ASSUME NEW i \in DOMAIN spans PROVE (PacketOf(i) \in DOMAIN Packets /\ IsTraced(i))'
  <2>1. EarlierThan(i)' = EarlierThan(i)
    BY <1>5 DEF EarlierThan
  <2>2. QED
    BY <1>2, <1>4, <1>5, <2>1, ParentsKept
<1>7. ParentInv'
  BY <1>5, <1>6 DEF ParentInv
<1>8. QED
  BY <1>3, <1>4, <1>7 DEF TraceInv

(* Whatever the simulation does keeps the invariant.                       *)
LEMMA SimulateTrace == NetworkInv /\ TraceInv /\ Simulate => TraceInv'
<1> SUFFICES ASSUME NetworkInv, TraceInv, NEW p \in DOMAIN Packets,
                    Enqueue(p) \/ Dequeue(p) \/ Drop(p)
             PROVE  TraceInv'
  BY DEF Simulate
<1>1. DOMAIN sent = Cards /\ hop[p] \in Nat /\ hop[p] > 0
  BY DEF TraceInv, SentInv, NetworkInv, SimulationInv
<1>2. CASE Enqueue(p)
  <2>1. PICK e : EntersDevice(p, e)
    BY <1>2, EnqueueIs
  <2>2. e.boundary = Here(p).enq /\ CardAt(e) = CardAt(Here(p)) /\ IsEnqueue(e)
    BY <2>1 DEF EntersDevice, Moves, IsEventIn, IsEnqueue, CardAt
  <2>3. Transmits(p, e)
    <3>1. PICK cards : cards = IF Here(p).enq = "kFromAdapter" THEN CardAt(Here(p)) ELSE {}
      OBVIOUS
    <3>2. sent' = Note(sent, cards, p) /\ UNCHANGED <<from_host, given>>
      BY <1>2, <3>1 DEF Enqueue, Log
    <3>3. \A c : Sends(e, c) <=> c \in cards
      BY <2>2, <3>1 DEF Sends
    <3>4. QED
      BY <3>2, <3>3 DEF Transmits, Note
  <2>4. Mixes(p)
    <3>1. ~Over(p) /\ p \notin inside
      BY <1>2 DEF Enqueue
    <3>2. hop[p] = 1 <=> p \notin OnTheWay
      <4>1. hop[p] > 1 <=> hop[p] # 1
        BY <1>1
      <4>2. QED
        BY <3>1, <4>1 DEF OnTheWay
    <3>3. QED
      BY <1>2, <3>2 DEF Enqueue, Mixes
  <2>5. QED
    BY <2>1, <2>3, <2>4, TraceMoved DEF MovesOn
<1>3. ASSUME NEW e, MovesOn(p, e), ~IsEnqueue(e), UNCHANGED <<sent, mixed, from_host, given>>,
             p \in inside \/ hop[p] > 1
      PROVE  TraceInv'
  <2>1. Transmits(p, e)
    BY <1>1, <1>3 DEF Transmits, Sends
  <2>2. ~Over(p)
    BY <1>3 DEF MovesOn, EntersDevice, LeavesDevice, Moves
  <2>3. Mixes(p)
    BY <1>3, <2>2 DEF Mixes, OnTheWay
  <2>4. QED
    BY <1>3, <2>1, <2>3, TraceMoved
<1>4. CASE Dequeue(p)
  <2>1. PICK e : LeavesDevice(p, e) /\ p \in inside
    BY <1>4, DequeueIs
  <2>2. UNCHANGED <<sent, mixed, from_host, given>>
    BY <1>4 DEF Dequeue, Log
  <2>3. QED
    BY <1>3, <2>1, <2>2 DEF MovesOn, LeavesDevice
<1>5. CASE Drop(p)
  <2>1. PICK e : LeavesDevice(p, e) /\ IsType(e, "kNetworkDropT")
    BY <1>5, DropIs
  <2>2. UNCHANGED <<sent, mixed, from_host, given>> /\ (p \in inside \/ hop[p] > 1)
    BY <1>5 DEF Drop, Log
  <2>3. QED
    BY <1>3, <2>1, <2>2 DEF MovesOn, LeavesDevice, IsType
<1>6. QED
  BY <1>2, <1>4, <1>5

(* What the invariant is about, but for the contexts, is not touched.      *)
LEMMA TraceKept ==
  ASSUME TraceInv, SentInv',
         UNCHANGED <<log, spans, active, last, scenario, hop, inside, mixed, sent>>
  PROVE  TraceInv'
<1>1. /\ Packets' = Packets /\ Unfinished' = Unfinished /\ OnTheWay' = OnTheWay
      /\ \A i : PacketOf(i)' = PacketOf(i) /\ EarlierThan(i)' = EarlierThan(i)
      /\ \A m, p : IsNewest(m, p)' <=> IsNewest(m, p)
  BY SameScenario DEF Unfinished, PacketOf, EarlierThan, IsNewest, OnTheWay, Over
<1>2. \A p, k : (Seen(p, k)' <=> Seen(p, k)) /\ (More(p, k)' <=> More(p, k))
                /\ (HasSpan(p)' <=> HasSpan(p))
  BY <1>1 DEF Seen, More, HasSpan
<1>3. NewInv'
  <2>1. ASSUME NEW k \in DOMAIN log, IsEnqueue(log[k]), log[k].boundary = "kFromAdapter"
        PROVE  ~Seen(log[k].packet_uid, k)'
    <3>1. PICK p : p = log[k].packet_uid /\ p = log'[k].packet_uid
      OBVIOUS
    <3>2. ~Seen(p, k)'
      BY <1>2, <2>1, <3>1 DEF TraceInv, NewInv
    <3>3. QED
      BY <3>1, <3>2
  <2>2. \A p : Seen(p, Len(log) + 1)' <=> Seen(p, Len(log) + 1)
    BY <1>2
  <2>3. QED
    BY <1>1, <2>1, <2>2 DEF TraceInv, NewInv
<1>4. AloneInv'
  BY <1>1, <1>2 DEF TraceInv, AloneInv
<1>5. NewestInv'
  <2>1. ASSUME NEW i \in Unfinished, NEW p, p = PacketOf(i)' PROVE IsNewest(i, p)'
    BY <1>1, <2>1 DEF TraceInv, NewestInv
  <2>2. QED
    BY <1>1, <1>2, <2>1 DEF TraceInv, NewestInv
<1>6. ASSUME NEW i \in DOMAIN spans PROVE (PacketOf(i) \in DOMAIN Packets /\ IsTraced(i))'
  <2>1. DOMAIN sent' = Cards
    BY DEF TraceInv, SentInv
  <2>2. QED
    BY <1>1, <2>1, ParentsKept DEF TraceInv
<1>7. ParentInv'
  BY <1>6 DEF ParentInv
<1>8. QED
  BY <1>3, <1>4, <1>5, <1>7 DEF TraceInv

(* The contexts a card gives are numbered as what it transmitted.          *)
LEMMA CardSendsTrace ==
  ASSUME TraceInv, NEW d \in Cards, CardSends(d)
  PROVE  TraceInv'
<1>1. UNCHANGED <<log, spans, active, last, scenario, hop, inside, mixed, sent>>
  BY DEF CardSends
<1>2. SentInv
  BY DEF TraceInv
<1>3. PICK x : x = Context(<<d, given[d] + 1>>)
  OBVIOUS
<1>4. /\ given' = [given EXCEPT ![d] = @ + 1]
      /\ from_host' = [from_host EXCEPT ![d] = Append(@, x)]
      /\ DOMAIN from_host = Cards /\ DOMAIN given = Cards
  BY <1>2, <1>3 DEF CardSends, SentInv
<1>5. ASSUME NEW c \in Cards PROVE SentBy(c)'
  <2>1. PICK r, r2, u, g : r = from_host[c] /\ r2 = from_host'[c] /\ u = Used(c) /\ g = given[c]
    OBVIOUS
  <2>2. /\ Sequence(r) /\ Sequence(sent[c]) /\ g \in Nat /\ u \in Nat /\ u = g - Len(r)
        /\ \A k \in DOMAIN r : r[k].parent = <<c, u + k>>
        /\ Tells(Sendings(c), u, sent[c], log)
    BY <1>2, <2>1 DEF SentInv, SentBy, Used
  <2>3. Sendings(c)' = Sendings(c)
    BY <1>1 DEF Sendings, Sends, CardAt
  <2>4. CASE c # d
    <3>1. r2 = r /\ given'[c] = g
      BY <1>4, <2>1, <2>4
    <3>2. Used(c)' = u
      BY <2>1, <2>2, <3>1 DEF Used
    <3>3. QED
      BY <1>1, <2>1, <2>2, <2>3, <3>1, <3>2 DEF SentBy
  <2>5. CASE c = d
    <3>1. r2 = Append(r, x) /\ given'[c] = g + 1
      BY <1>4, <2>1, <2>5
    <3>2. Extended(r2, r, x)
      BY <2>2, <3>1, Appending
    <3>3. PICK m : /\ m = Len(r) /\ m \in Nat /\ DOMAIN r = 1 .. m /\ Len(r2) = m + 1
                   /\ DOMAIN r2 = 1 .. m + 1 /\ r2[m + 1] = x /\ \A k \in 1 .. m : r2[k] = r[k]
      BY <3>2 DEF Extended
    <3>4. u \in Nat /\ g \in Nat /\ u = g - m /\ g + 1 = u + (m + 1)
      BY <2>2, <3>3
    <3>5. x.parent = <<c, u + (m + 1)>>
      BY <1>3, <2>1, <2>5, <3>4 DEF Context
    <3>6. ASSUME NEW k \in DOMAIN r2 PROVE r2[k].parent = <<c, u + k>>
      <4>1. k \in 1 .. m \/ k = m + 1
        BY <3>3, <3>6
      <4>2. QED
        BY <2>2, <3>3, <3>5, <4>1
    <3>7. Used(c)' = u
      <4>1. Used(c)' = (g + 1) - (m + 1)
        BY <2>1, <3>1, <3>3 DEF Used
      <4>2. QED
        BY <3>3, <3>4, <4>1
    <3>8. Sequence(r2) /\ g + 1 \in Nat
      BY <3>2, <3>4 DEF Extended
    <3>9. QED
      BY <1>1, <2>1, <2>2, <2>3, <3>1, <3>6, <3>7, <3>8 DEF SentBy
  <2>6. QED
    BY <2>4, <2>5
<1>6. SentInv'
  BY <1>1, <1>2, <1>4, <1>5 DEF SentInv
<1>7. QED
  BY <1>1, <1>6, TraceKept

(* The contexts and what the cards transmitted are not touched.            *)
LEMMA SentKept ==
  ASSUME SentInv, UNCHANGED <<log, from_host, given, sent>>
  PROVE  SentInv'
<1>1. \A c : Sendings(c)' = Sendings(c) /\ Used(c)' = Used(c)
  BY DEF Sendings, Sends, CardAt, Used
<1>2. QED
  BY <1>1 DEF SentInv, SentBy

(* Handling an event keeps the invariant.                                  *)
LEMMA HandleTrace == NetworkInv /\ TraceInv /\ Handle => TraceInv'
<1> SUFFICES ASSUME NetworkInv, TraceInv, Handle PROVE TraceInv'
  OBVIOUS
<1>1. CASE Throws
  <2>1. UNCHANGED <<log, spans, active, last, from_host>> /\ UNCHANGED simulation
    BY <1>1 DEF Throws, Handle
  <2>2. SentInv'
    BY <2>1, SentKept DEF TraceInv, simulation
  <2>3. QED
    BY <2>1, <2>2, TraceKept DEF simulation
<1>2. CASE ~Throws
  <2>1. PICK e : Traced(e)
    BY <1>2, TracedIs
  <2>2. /\ TypeInv /\ SimulationInv /\ SpansInv
        /\ SentInv /\ NewInv /\ AloneInv /\ NewestInv
    BY DEF NetworkInv, TraceInv
  <2>3. SentInv' /\ NewInv' /\ AloneInv'
    BY <2>1, <2>2, SentHandled, NewHandled
  <2>4. NewestInv'
    BY <2>1, <2>2, NewestHandled
  <2>5. ParentInv'
    BY <2>1, ParentHandled
  <2>6. QED
    BY <2>3, <2>4, <2>5 DEF TraceInv
<1>3. QED
  BY <1>1, <1>2

(* At first no packet is on its way.                                       *)
LEMMA InitTrace == Init => TraceInv
<1> SUFFICES ASSUME Init PROVE TraceInv
  OBVIOUS
<1>1. /\ log = <<>> /\ spans = <<>> /\ active = <<>> /\ inside = {}
      /\ from_host = [c \in Cards |-> <<>>] /\ sent = [c \in Cards |-> <<>>]
      /\ given = [c \in Cards |-> 0] /\ hop = [p \in DOMAIN Packets |-> 1]
  BY DEF Init, InitSpanner
<1>2. PICK empty : empty = <<>> /\ DOMAIN empty = {} /\ Len(empty) = 0 /\ Sequence(empty)
  <2>1. <<>> \in Seq({}) /\ DOMAIN <<>> = {} /\ Len(<<>>) = 0
    OBVIOUS
  <2>2. Sequence(<<>>)
    BY <2>1, Zenon DEF Sequence
  <2>3. QED
    BY <2>1, <2>2, Zenon
<1>3. OnTheWay = {}
  <2>1. ~(1 > 1)
    OBVIOUS
  <2>2. QED
    BY <1>1, <2>1 DEF OnTheWay
<1>4. Unfinished = {}
  BY <1>1, <1>2 DEF Unfinished
<1>5. \A p, k : ~Seen(p, k) /\ ~HasSpan(p)
  BY <1>1, <1>2 DEF Seen, HasSpan
<1>6. NewInv /\ AloneInv /\ NewestInv /\ ParentInv
  BY <1>1, <1>2, <1>3, <1>4, <1>5 DEF NewInv, AloneInv, NewestInv, ParentInv
<1>7. SentInv
  <2>1. ASSUME NEW c \in Cards PROVE SentBy(c)
    <3>1. from_host[c] = empty /\ sent[c] = empty /\ given[c] = 0
      BY <1>1, <1>2
    <3>2. Used(c) = 0
      <4>1. Used(c) = 0 - 0
        BY <1>2, <3>1 DEF Used
      <4>2. QED
        BY <4>1
    <3>3. Sendings(c) = {}
      BY <1>1, <1>2 DEF Sendings
    <3>4. Tells(Sendings(c), Used(c), sent[c], log)
      BY <1>2, <3>1, <3>2, <3>3, TellsNothing
    <3>5. QED
      BY <1>2, <3>1, <3>2, <3>4 DEF SentBy
  <2>2. QED
    BY <1>1, <2>1 DEF SentInv
<1>8. QED
  BY <1>6, <1>7 DEF TraceInv

(* What else is known of the packets and their spans.                      *)
THEOREM TraceInvariance == Spec => []TraceInv
<1>1. Init => TraceInv
  BY InitTrace
<1>2. NetworkInv /\ TraceInv /\ [Next]_vars => TraceInv'
  <2>1. SUFFICES ASSUME NetworkInv, TraceInv, [Next]_vars PROVE TraceInv'
    OBVIOUS
  <2>2. CASE Simulate
    BY <2>1, <2>2, SimulateTrace
  <2>3. CASE \E c \in Cards : CardSends(c)
    BY <2>1, <2>3, CardSendsTrace
  <2>4. CASE Handle
    BY <2>1, <2>4, HandleTrace
  <2>5. CASE UNCHANGED vars
    <3>1. UNCHANGED <<log, spans, active, last, from_host, scenario, hop, inside, mixed, sent, given>>
      BY <2>5 DEF vars, spanner, simulation
    <3>2. SentInv'
      BY <2>1, <3>1, SentKept DEF TraceInv
    <3>3. QED
      BY <2>1, <3>1, <3>2, TraceKept
  <2>6. QED
    BY <2>1, <2>2, <2>3, <2>4, <2>5 DEF Next
<1>3. QED
  BY <1>1, <1>2, NetworkInvariance, PTL DEF Spec

(* The first span of a packet of interest has the context its card gave    *)
(* for that transmission as its parent, and each further one the packet's  *)
(* span before it, unless packets were on their way at the same time.      *)
LEMMA FollowsPacket == NetworkInv /\ TraceInv => TraceFollowsPacket
<1> SUFFICES ASSUME NetworkInv, TraceInv, NEW i \in DOMAIN spans, NEW p, p = PacketOf(i),
                    Packets[p].interesting,
                    NEW earlier, earlier = {j \in SpansOf(p) : j < i}
             PROVE  IF earlier = {}
                    THEN \E c \in Cards : \E k \in DOMAIN sent[c] :
                           sent[c][k] = p /\ spans[i].parent = <<c, k>>
                    ELSE p \notin mixed => spans[i].parent = OfNetwork(Max(earlier))
  BY DEF TraceFollowsPacket
<1>1. earlier = EarlierThan(i)
  BY DEF EarlierThan, SpansOf
<1>2. IsTraced(i)
  BY DEF TraceInv, ParentInv
<1>3. CASE earlier = {}
  BY <1>1, <1>2, <1>3 DEF IsTraced, HasFirstParent
<1>4. CASE earlier # {} /\ p \notin mixed
  <2>1. PICK m \in earlier : (\A j \in earlier : j <= m) /\ spans[i].parent = OfNetwork(m)
    BY <1>1, <1>2, <1>4 DEF IsTraced, HasNextParent
  <2>2. earlier \subseteq Nat
    <3>1. PICK s, S : s = spans /\ s \in Seq(S)
      BY DEF NetworkInv, TypeInv, Sequence
    <3>2. DOMAIN s \subseteq Nat
      BY <3>1
    <3>3. QED
      BY <3>1, <3>2 DEF SpansOf
  <2>3. Max(earlier) = m
    BY <2>1, <2>2 DEF Max
  <2>4. QED
    BY <1>4, <2>1, <2>3
<1>5. QED
  BY <1>3, <1>4

(* TraceFollowsPacket: a packet's trace begins with the context its card   *)
(* gave for that transmission and goes on from each of its spans to the    *)
(* next, unless other packets were on their way at the same time.          *)
THEOREM TraceFollowsPacketAlways == Spec => []TraceFollowsPacket
BY NetworkInvariance, TraceInvariance, FollowsPacket, PTL
================================================================================
