------------------------------ MODULE MachineProofs ------------------------------
(***************************************************************************)
(* Theorems about Machine, for every number of machines, every simulation  *)
(* that may be scripted and logs that begin and end anywhere: the pending  *)
(* lists of host and nic spanner stay sound, a span gets a parent of the   *)
(* kind that causes it, and packets are taken in their order.              *)
(***************************************************************************)
EXTENDS Machine, WellFoundedInduction, TLAPS

(* The ids of the spans of p that are of one of the kinds.                 *)
OfKind(p, kinds) == {id \in Ids(p) : SpanOf(id).kind \in kinds}

Sequence(s) == \E S : s \in Seq(S)

SpanFields == {"kind", "events", "pending", "parent"}

SpansInv ==
  /\ DOMAIN spans = Sources
  /\ \A p \in Sources : Sequence(spans[p])
  /\ \A p \in Sources : \A id \in Ids(p) : DOMAIN SpanOf(id) = SpanFields

(* What may be in a channel: contexts of the kind the peer may expect.     *)
Carries(q, con) ==
  LET m == q[2]
      from(p, kind, expectation) ==
        con.expectation = expectation /\ con.parent \in OfKind(p, {kind})
  IN \/ q[1] = "to_nic"   /\ from(Host(m), "HostMmio", "Mmio")
     \/ q[1] = "from_nic" /\ from(Nic(m), "NicDma", "Dma")
     \/ q[1] = "from_nic" /\ from(Nic(m), "NicMsix", "Msix")
     \/ q[1] = "receives" /\ from(Nic(m), "NicEth", "Rx")
     \/ q[1] = "to_net"   /\ from(Nic(m), "NicEth", "Rx")
     \/ q[1] = "from_net" /\ from(Net(m), "NetDevice", "Rx")

QueuesInv ==
  /\ DOMAIN queue = Queues
  /\ \A q \in Queues : Sequence(queue[q])
  /\ \A q \in Queues : \A i \in DOMAIN queue[q] : Carries(q, queue[q][i])

(* The members of the spanners name spans of their own, by kind.           *)
SpannerIds == Spanners \X Nat
HostRecords ==
  [call : SpannerIds \cup {None}, copying : BOOLEAN, pciWrite : BOOLEAN,
   int : SpannerIds \cup {None}, msix : SpannerIds \cup {None},
   pci : SpannerIds \cup {None}, dmas : Seq(SpannerIds), mmios : Seq(SpannerIds)]
NicRecords == [lastCausing : SpannerIds \cup {None}, dmas : Seq(SpannerIds)]

MaybeOf(id, p, kind) == id # None => id \in OfKind(p, {kind})
AllOf(ids, p, kind) == \A i \in DOMAIN ids : ids[i] \in OfKind(p, {kind})
HostNames(m, h) ==
  /\ MaybeOf(h.call, Host(m), "HostCall")
  /\ MaybeOf(h.int, Host(m), "HostInt")
  /\ MaybeOf(h.msix, Host(m), "HostMsix")
  /\ MaybeOf(h.pci, Host(m), "HostPci")
  /\ AllOf(h.dmas, Host(m), "HostDma")
  /\ AllOf(h.mmios, Host(m), "HostMmio")
NicNames(m, n) ==
  /\ n.lastCausing # None => n.lastCausing \in OfKind(Nic(m), {"NicMmio", "NicEth"})
  /\ AllOf(n.dmas, Nic(m), "NicDma")
HostInv ==
  host \in [Machines -> HostRecords] /\ \A m \in Machines : HostNames(m, host[m])
NicInv ==
  nic \in [Machines -> NicRecords] /\ \A m \in Machines : NicNames(m, nic[m])

(* A dma is pending once, and not finished.                                *)
Distinct(ids) == \A i, j \in DOMAIN ids : ids[i] = ids[j] => i = j
Unfinished(ids) == \A i \in DOMAIN ids : ids[i] \notin finished
DmasInv ==
  \A m \in Machines :
    /\ Distinct(host[m].dmas) /\ Unfinished(host[m].dmas)
    /\ Distinct(nic[m].dmas) /\ Unfinished(nic[m].dmas)

(* The kinds of spans that cause those of a kind, and where they are.      *)
HasCause(m, sp) ==
  LET by(p, kinds) == sp.parent \in OfKind(p, kinds)
  IN \/ sp.kind = "NicMmio"  /\ by(Host(m), {"HostMmio"})
     \/ sp.kind = "HostDma"  /\ by(Nic(m), {"NicDma"})
     \/ sp.kind = "HostMsix" /\ by(Nic(m), {"NicMsix"})
     \/ sp.kind \in {"NicDma", "NicMsix", "NicEth"} /\ by(Nic(m), {"NicMmio", "NicEth"})
     \/ sp.kind = "NicEth"   /\ by(Net(m), {"NetDevice"})
     \/ sp.kind \in {"HostMmio", "HostPci", "HostInt"} /\ by(Host(m), {"HostCall"})
     \/ sp.kind = "HostCall" /\ by(Nic(m), {"NicEth"})
ParentsInv ==
  \A m \in Machines : \A id \in Ids(Host(m)) \cup Ids(Nic(m)) :
    SpanOf(id).parent # None => HasCause(m, SpanOf(id))

SimulationInv ==
  /\ scenario \in DOMAIN Scripts
  /\ progress \in [Operations -> Nat]

KindsInv ==
  /\ SpansInv /\ QueuesInv /\ HostInv /\ NicInv /\ DmasInv /\ ParentsInv
  /\ SimulationInv
  /\ finished \subseteq AllIds
  /\ terminated \in BOOLEAN

(* The packets that were not taken yet are in the order of their spans and *)
(* came after those that were taken; the call that takes the next one is   *)
(* the last that did, or came after it.                                    *)
Waiting(m) == queue[Receives(m)]
WaitingInOrder(m) ==
  \A i, j \in DOMAIN Waiting(m) :
    i < j => Waiting(m)[i].parent[2] < Waiting(m)[j].parent[2]
TakenCameBefore(m) ==
  \A c \in Ids(Host(m)) : GotPacket(c) =>
    \A i \in DOMAIN Waiting(m) : SpanOf(c).parent[2] < Waiting(m)[i].parent[2]
CallIsLast(m) ==
  ~host[m].copying => \A c \in Ids(Host(m)) : GotPacket(c) =>
    host[m].call # None /\ c[2] < host[m].call[2]
OrderInv ==
  /\ \A m \in Machines : WaitingInOrder(m) /\ TakenCameBefore(m) /\ CallIsLast(m)
  /\ PacketsTakenInOrder

MInv == KindsInv /\ OrderInv

--------------------------------------------------------------------------------
(* Lemmas about sequences.                                                 *)

(* A set of positions has a first one.                                     *)
LEMMA FirstOf ==
  ASSUME NEW T \in SUBSET Nat, T # {}
  PROVE  First(T) \in T /\ \A j \in T : First(T) <= j
<1>1. PICK x \in T : \A y \in T : ~ (<<y, x>> \in OpToRel(<, Nat))
  BY NatLessThanWellFounded, WFMin
<1>2. \A y \in T : x <= y
  <2>1. \A y \in T : y \in Nat /\ x \in Nat /\ ~(y < x)
    BY <1>1, Zenon DEF OpToRel
  <2>2. QED
    BY <2>1
<1>3. QED
  BY <1>2 DEF First

(* t is the sequence s with e at its end.                                  *)
Extended(t, s, e) ==
  /\ Sequence(t) /\ Len(s) \in Nat /\ DOMAIN s = 1 .. Len(s)
  /\ Len(t) = Len(s) + 1 /\ DOMAIN t = 1 .. Len(s) + 1
  /\ t[Len(s) + 1] = e
  /\ \A i \in DOMAIN s : t[i] = s[i]

(* What Append does.                                                       *)
LEMMA Appending ==
  ASSUME NEW s, Sequence(s), NEW e, NEW t, t = Append(s, e)
  PROVE  Extended(t, s, e)
<1>1. PICK S : s \in Seq(S)
  BY DEF Sequence
<1>2. PICK S2 : S2 = S \cup {e}
  OBVIOUS
<1>3. s \in Seq(S2) /\ e \in S2
  BY <1>1, <1>2
<1>4. t \in Seq(S2)
  BY <1>3
<1>5. QED
  BY <1>3, <1>4 DEF Extended, Sequence

(* t is the sequence s without its first element.                          *)
Taken(t, s) ==
  /\ Sequence(t) /\ Len(s) \in Nat \ {0} /\ DOMAIN s = 1 .. Len(s)
  /\ DOMAIN t = 1 .. Len(s) - 1
  /\ \A i \in DOMAIN t : t[i] = s[i + 1]
  /\ Head(s) = s[1]

(* What Tail does to a queue that is not empty.                            *)
LEMMA Taking1 ==
  ASSUME NEW s, Sequence(s), s # <<>>, NEW t, t = Tail(s)
  PROVE  Taken(t, s)
<1>1. PICK S : s \in Seq(S)
  BY DEF Sequence
<1>2. t \in Seq(S)
  BY <1>1
<1>3. QED
  BY <1>1, <1>2 DEF Sequence, Taken

(* A function on 1 .. n is a sequence.                                     *)
LEMMA FunctionIsSequence ==
  ASSUME NEW n \in Nat, NEW S, NEW g \in [1 .. n -> S]
  PROVE  g \in Seq(S)
OBVIOUS

(* Changing an element of a sequence.                                      *)
LEMMA Replacing ==
  ASSUME NEW s, Sequence(s), NEW i \in DOMAIN s, NEW e, NEW t, t = [s EXCEPT ![i] = e]
  PROVE  /\ Sequence(t) /\ DOMAIN t = DOMAIN s
         /\ t[i] = e /\ \A j \in DOMAIN s : j # i => t[j] = s[j]
<1>1. PICK S : s \in Seq(S)
  BY DEF Sequence
<1>2. PICK S2 : S2 = S \cup {e}
  OBVIOUS
<1>3. PICK n \in Nat : DOMAIN s = 1 .. n
  BY <1>1
<1>4. t \in [1 .. n -> S2]
  BY <1>1, <1>2, <1>3
<1>5. t \in Seq(S2)
  BY <1>3, <1>4, FunctionIsSequence
<1>6. QED
  BY <1>5 DEF Sequence

(* Without keeps the others in their order.                                *)
LEMMA WithoutOne ==
  ASSUME NEW S, NEW s \in Seq(S), NEW i \in DOMAIN s
  PROVE  /\ Without(s, i) \in Seq(S)
         /\ DOMAIN Without(s, i) = 1 .. Len(s) - 1
         /\ \A j \in 1 .. Len(s) - 1 :
              Without(s, i)[j] = IF j < i THEN s[j] ELSE s[j + 1]
<1>1. PICK a, b : a = SubSeq(s, 1, i - 1) /\ b = SubSeq(s, i + 1, Len(s))
  OBVIOUS
<1>2. /\ a \in Seq(S) /\ Len(a) = i - 1 /\ \A j \in 1 .. i - 1 : a[j] = s[j]
  BY <1>1
<1>3. /\ b \in Seq(S) /\ Len(b) = Len(s) - i
      /\ \A j \in 1 .. Len(s) - i : b[j] = s[i + j]
  BY <1>1
<1>4. PICK t : t = a \o b
  OBVIOUS
<1>5. /\ i \in 1 .. Len(s) /\ Len(s) \in Nat
      /\ t \in Seq(S) /\ Len(t) = Len(s) - 1
      /\ \A j \in 1 .. Len(s) - 1 : t[j] = IF j <= i - 1 THEN a[j] ELSE b[j - (i - 1)]
  BY <1>2, <1>3, <1>4
<1>6. ASSUME NEW j \in 1 .. Len(s) - 1
      PROVE  t[j] = IF j < i THEN s[j] ELSE s[j + 1]
  <2>1. CASE j < i
    BY <1>2, <1>5, <2>1
  <2>2. CASE ~(j < i)
    <3>1. j - (i - 1) \in 1 .. Len(s) - i /\ i + (j - (i - 1)) = j + 1
      BY <1>5, <2>2
    <3>2. b[j - (i - 1)] = s[j + 1]
      BY <1>3, <3>1
    <3>3. QED
      BY <1>5, <2>2, <3>2
  <2>3. QED
    BY <2>1, <2>2
<1>7. Without(s, i) = t
  BY <1>1, <1>4 DEF Without
<1>8. QED
  BY <1>5, <1>6, <1>7

--------------------------------------------------------------------------------
(* Lemmas about spans.                                                     *)

(* An event that is added changes neither kind nor parent of a span.       *)
LEMMA AddKeeps ==
  ASSUME NEW sp, DOMAIN sp = SpanFields, NEW e
  PROVE  /\ DOMAIN Add(sp, e) = SpanFields
         /\ Add(sp, e).kind = sp.kind /\ Add(sp, e).parent = sp.parent
BY DEF Add, SpanFields

(* An event that is refused changes neither kind nor parent of a span.     *)
LEMMA RefuseKeeps ==
  ASSUME NEW sp, DOMAIN sp = SpanFields, NEW e
  PROVE  /\ DOMAIN Refuse(sp, e) = SpanFields
         /\ Refuse(sp, e).kind = sp.kind /\ Refuse(sp, e).parent = sp.parent
BY DEF Refuse, SpanFields

(* The kind and the parent of a new span.                                  *)
LEMMA NewSpanIs ==
  ASSUME NEW kind, NEW parent, NEW e
  PROVE  /\ DOMAIN NewSpan(kind, parent, e) = SpanFields
         /\ NewSpan(kind, parent, e).kind = kind
         /\ NewSpan(kind, parent, e).parent = parent
BY DEF NewSpan, Add, SpanFields

(* Spans stay and keep their kinds.                                        *)
KindsKept ==
  \A p \in Sources : /\ Ids(p) \subseteq Ids(p)'
                     /\ \A id \in Ids(p) : SpanOf(id)'.kind = SpanOf(id).kind

(* So whatever names spans of a kind goes on to do so.                     *)
LEMMA NamesKept ==
  ASSUME KindsKept
  PROVE  /\ \A p \in Sources : \A kinds : OfKind(p, kinds) \subseteq OfKind(p, kinds)'
         /\ AllIds \subseteq AllIds'
         /\ \A q \in Queues : \A con : Carries(q, con) => Carries(q, con)'
         /\ \A m \in Machines : \A sp : HasCause(m, sp) => HasCause(m, sp)'
         /\ \A m \in Machines : \A h : HostNames(m, h) => HostNames(m, h)'
         /\ \A m \in Machines : \A n : NicNames(m, n) => NicNames(m, n)'
<1>1. \A p \in Sources : \A kinds : OfKind(p, kinds) \subseteq OfKind(p, kinds)'
  BY DEF KindsKept, OfKind
<1>2. \A m \in Machines : Host(m) \in Sources /\ Nic(m) \in Sources /\ Net(m) \in Sources
  BY DEF Sources, Spanners
<1>3. AllIds \subseteq AllIds'
  BY DEF KindsKept, AllIds, Sources
<1>4. \A q \in Queues : \A con : Carries(q, con) => Carries(q, con)'
  <2> SUFFICES ASSUME NEW q \in Queues, NEW con, Carries(q, con) PROVE Carries(q, con)'
    OBVIOUS
  <2>1. q[2] \in Machines
    BY DEF Queues
  <2>2. QED
    BY <1>1, <1>2, <2>1 DEF Carries
<1>5. \A m \in Machines : \A sp : HasCause(m, sp) => HasCause(m, sp)'
  BY <1>1, <1>2 DEF HasCause
<1>6. \A m \in Machines : \A h : HostNames(m, h) => HostNames(m, h)'
  BY <1>1, <1>2 DEF HostNames, MaybeOf, AllOf
<1>7. \A m \in Machines : \A n : NicNames(m, n) => NicNames(m, n)'
  BY <1>1, <1>2 DEF NicNames, AllOf
<1>8. QED
  BY <1>1, <1>3, <1>4, <1>5, <1>6, <1>7

(* A span and its number.                                                  *)
LEMMA SpansAre ==
  ASSUME SpansInv, NEW p \in Sources
  PROVE  /\ Sequence(spans[p])
         /\ \A i \in DOMAIN spans[p] : /\ DOMAIN spans[p][i] = SpanFields
                                       /\ <<p, i>> \in Ids(p)
                                       /\ SpanOf(<<p, i>>) = spans[p][i]
         /\ \A id \in Ids(p) : /\ id[1] = p /\ id[2] \in DOMAIN spans[p] /\ id[2] \in Nat
                               /\ id = <<p, id[2]>> /\ DOMAIN SpanOf(id) = SpanFields
<1>1. Sequence(spans[p])
  BY DEF SpansInv
<1>2. DOMAIN spans[p] \subseteq Nat
  BY <1>1 DEF Sequence
<1>3. \A i \in DOMAIN spans[p] : <<p, i>> \in Ids(p) /\ SpanOf(<<p, i>>) = spans[p][i]
  BY DEF Ids, SpanOf
<1>4. \A i \in DOMAIN spans[p] : DOMAIN spans[p][i] = SpanFields
  BY <1>3 DEF SpansInv
<1>5. QED
  BY <1>1, <1>2, <1>3, <1>4 DEF SpansInv, Ids

(* id is a new span sp of p, and the others are as they were.              *)
Appended(p, id, sp) ==
  /\ SpansInv' /\ KindsKept
  /\ id[1] = p /\ id \notin Ids(p) /\ id[2] \in Nat /\ \A x \in Ids(p) : x[2] < id[2]
  /\ Ids(p)' = Ids(p) \cup {id} /\ SpanOf(id)' = sp
  /\ \A q \in Sources : /\ q # p => Ids(q)' = Ids(q)
                        /\ \A x \in Ids(q) : SpanOf(x)' = SpanOf(x)

(* StartSpan of tracer.h, as the spanners use it.                          *)
LEMMA SpanAppended ==
  ASSUME SpansInv, NEW p \in Sources, NEW sp, DOMAIN sp = SpanFields,
         spans' = Append1(p, sp), NEW id, id = NextId(p)
  PROVE  Appended(p, id, sp)
<1>1. Sequence(spans[p])
  BY DEF SpansInv
<1>2. PICK t : t = Append(spans[p], sp)
  OBVIOUS
<1>3. Extended(t, spans[p], sp)
  BY <1>1, <1>2, Appending
<1>4. /\ DOMAIN spans' = Sources /\ spans'[p] = t
      /\ \A q \in Sources : q # p => spans'[q] = spans[q]
  BY <1>2 DEF Append1, SpansInv
<1>5. id = <<p, Len(spans[p]) + 1>> /\ id[1] = p /\ id[2] = Len(spans[p]) + 1
  BY DEF NextId
<1>6. Ids(p)' = Ids(p) \cup {id} /\ SpanOf(id)' = sp
  BY <1>3, <1>4, <1>5 DEF Extended, Ids, SpanOf
<1>7. \A q \in Sources : q # p => Ids(q)' = Ids(q)
  BY <1>4 DEF Ids
<1>8. \A q \in Sources : \A x \in Ids(q) : SpanOf(x)' = SpanOf(x)
  BY <1>3, <1>4 DEF Extended, Ids, SpanOf
<1>9. id \notin Ids(p) /\ id[2] \in Nat /\ \A x \in Ids(p) : x[2] < id[2]
  BY <1>3, <1>5 DEF Extended, Ids
<1>10. KindsKept
  BY <1>6, <1>7, <1>8 DEF KindsKept
<1>11. SpansInv'
  BY <1>3, <1>4, <1>6, <1>7, <1>8 DEF SpansInv, Extended
<1>12. QED
  BY <1>5, <1>6, <1>7, <1>8, <1>9, <1>10, <1>11 DEF Appended

(* The span id is sp now, of its kind as it was.                           *)
Updated(id, sp) ==
  /\ SpansInv' /\ KindsKept
  /\ SpanOf(id)' = sp
  /\ \A q \in Sources : /\ Ids(q)' = Ids(q)
                        /\ \A x \in Ids(q) : x # id => SpanOf(x)' = SpanOf(x)

(* A change of a span by its spanner.                                      *)
LEMMA SpanUpdated ==
  ASSUME SpansInv, NEW p \in Sources, NEW id \in Ids(p), NEW sp,
         DOMAIN sp = SpanFields, sp.kind = SpanOf(id).kind, spans' = Update(id, sp)
  PROVE  Updated(id, sp)
<1>1. id[1] = p /\ id[2] \in DOMAIN spans[p] /\ id = <<p, id[2]>>
  BY DEF Ids
<1>2. Sequence(spans[p])
  BY DEF SpansInv
<1>3. PICK t : t = [spans[p] EXCEPT ![id[2]] = sp]
  OBVIOUS
<1>4. /\ Sequence(t) /\ DOMAIN t = DOMAIN spans[p]
      /\ t[id[2]] = sp /\ \A j \in DOMAIN spans[p] : j # id[2] => t[j] = spans[p][j]
  BY <1>1, <1>2, <1>3, Replacing
<1>5. /\ DOMAIN spans' = Sources /\ spans'[p] = t
      /\ \A q \in Sources : q # p => spans'[q] = spans[q]
  BY <1>1, <1>3 DEF Update, SpansInv
<1>6. SpanOf(id)' = sp
  BY <1>1, <1>4, <1>5 DEF SpanOf
<1>7. \A q \in Sources : Ids(q)' = Ids(q)
  BY <1>4, <1>5 DEF Ids
<1>8. ASSUME NEW q \in Sources, NEW x \in Ids(q), x # id PROVE SpanOf(x)' = SpanOf(x)
  <2>1. x[1] = q /\ x[2] \in DOMAIN spans[q] /\ x = <<q, x[2]>>
    BY DEF Ids
  <2>2. q # p \/ x[2] # id[2]
    BY <1>1, <1>8, <2>1
  <2>3. QED
    BY <1>4, <1>5, <2>1, <2>2 DEF SpanOf
<1>9. KindsKept
  BY <1>6, <1>7, <1>8 DEF KindsKept
<1>10. SpansInv'
  BY <1>4, <1>5, <1>6, <1>7, <1>8 DEF SpansInv
<1>11. QED
  BY <1>6, <1>7, <1>8, <1>9, <1>10 DEF Updated

(* The spans of p are t now: the old ones keep kind and parent.            *)
Rewritten(p, t) ==
  /\ SpansInv' /\ KindsKept
  /\ \A q \in Sources : q # p => /\ Ids(q)' = Ids(q)
                               /\ \A x \in Ids(q) : SpanOf(x)' = SpanOf(x)
  /\ Ids(p)' = {<<p, i>> : i \in DOMAIN t}
  /\ \A i \in DOMAIN t : SpanOf(<<p, i>>)' = t[i]
  /\ \A x \in Ids(p) : SpanOf(x)'.parent = SpanOf(x).parent

(* A spanner that changes a span and starts another one in the same step.  *)
LEMMA SpansRewritten ==
  ASSUME SpansInv, NEW p \in Sources, NEW t, Sequence(t),
         DOMAIN spans[p] \subseteq DOMAIN t,
         \A i \in DOMAIN t : DOMAIN t[i] = SpanFields,
         \A i \in DOMAIN spans[p] :
           t[i].kind = spans[p][i].kind /\ t[i].parent = spans[p][i].parent,
         spans' = [spans EXCEPT ![p] = t]
  PROVE  Rewritten(p, t)
<1>1. /\ DOMAIN spans' = Sources /\ spans'[p] = t
      /\ \A q \in Sources : q # p => spans'[q] = spans[q]
  BY DEF SpansInv
<1>2. \A q \in Sources : q # p => Ids(q)' = Ids(q) /\ \A x \in Ids(q) : SpanOf(x)' = SpanOf(x)
  BY <1>1 DEF Ids, SpanOf
<1>3. Ids(p)' = {<<p, i>> : i \in DOMAIN t} /\ \A i \in DOMAIN t : SpanOf(<<p, i>>)' = t[i]
  BY <1>1 DEF Ids, SpanOf
<1>4. \A x \in Ids(p) : /\ SpanOf(x)'.parent = SpanOf(x).parent
                        /\ SpanOf(x)'.kind = SpanOf(x).kind
  BY <1>1 DEF Ids, SpanOf
<1>5. Ids(p) \subseteq Ids(p)'
  BY <1>3 DEF Ids
<1>6. KindsKept
  BY <1>2, <1>4, <1>5 DEF KindsKept
<1>7. \A x \in Ids(p)' : DOMAIN SpanOf(x)' = SpanFields
  BY <1>3
<1>8. SpansInv'
  BY <1>1, <1>2, <1>7 DEF SpansInv
<1>9. QED
  BY <1>2, <1>3, <1>4, <1>6, <1>8 DEF Rewritten

(* The sources of a machine are its own.                                   *)
LEMMA SourcesApart ==
  /\ \A m \in Machines : /\ Host(m) \in Sources /\ Nic(m) \in Sources /\ Net(m) \in Sources
                         /\ Host(m) \in Spanners /\ Nic(m) \in Spanners
  /\ \A m, n : /\ Host(m) # Nic(n) /\ Host(m) # Net(n) /\ Nic(m) # Net(n)
              /\ m # n => Host(m) # Host(n) /\ Nic(m) # Nic(n) /\ Net(m) # Net(n)
<1>1. \A m, n : /\ Host(m) # Nic(n) /\ Host(m) # Net(n) /\ Nic(m) # Net(n)
              /\ m # n => Host(m) # Host(n) /\ Nic(m) # Nic(n) /\ Net(m) # Net(n)
  BY DEF Host, Nic, Net
<1>2. QED
  BY <1>1 DEF Sources, Spanners

(* Spans of one kind or parent, and new ones that have a cause.            *)
LEMMA ParentsKept ==
  ASSUME ParentsInv, KindsKept,
         \A m \in Machines : \A id \in Ids(Host(m))' \cup Ids(Nic(m))' :
           \/ /\ id \in Ids(Host(m)) \cup Ids(Nic(m))
              /\ SpanOf(id)'.parent = SpanOf(id).parent
           \/ SpanOf(id)'.parent = None
           \/ HasCause(m, SpanOf(id))'
  PROVE  ParentsInv'
<1> SUFFICES ASSUME NEW m \in Machines, NEW id \in Ids(Host(m))' \cup Ids(Nic(m))',
                    SpanOf(id)'.parent # None
             PROVE  HasCause(m, SpanOf(id))'
  BY DEF ParentsInv
<1>1. CASE HasCause(m, SpanOf(id))'
  BY <1>1
<1>2. CASE /\ id \in Ids(Host(m)) \cup Ids(Nic(m))
           /\ SpanOf(id)'.parent = SpanOf(id).parent
  <2>1. PICK old, new : old = SpanOf(id) /\ new = SpanOf(id)'
    OBVIOUS
  <2>2. HasCause(m, old)
    BY <1>2, <2>1 DEF ParentsInv
  <2>3. HasCause(m, old)'
    BY <2>2, NamesKept
  <2>4. new.kind = old.kind /\ new.parent = old.parent
    BY <1>2, <2>1, SourcesApart DEF KindsKept
  <2>5. HasCause(m, new)'
    BY <2>3, <2>4 DEF HasCause
  <2>6. QED
    BY <2>1, <2>5
<1>3. QED
  BY <1>1, <1>2

(* The parent of a new span is none, or a cause of it.                     *)
LEMMA AppendKeepsParents ==
  ASSUME ParentsInv, NEW m \in Machines, NEW p \in {Host(m), Nic(m), Net(m)},
         NEW id, NEW sp, Appended(p, id, sp),
         p = Net(m) \/ sp.parent = None \/ HasCause(m, sp)
  PROVE  ParentsInv'
<1>1. KindsKept
  BY DEF Appended
<1>2. ASSUME NEW n \in Machines, NEW x \in Ids(Host(n))' \cup Ids(Nic(n))'
      PROVE  \/ /\ x \in Ids(Host(n)) \cup Ids(Nic(n))
                /\ SpanOf(x)'.parent = SpanOf(x).parent
             \/ SpanOf(x)'.parent = None
             \/ HasCause(n, SpanOf(x))'
  <2>1. CASE x \in Ids(Host(n)) \cup Ids(Nic(n))
    BY <2>1, SourcesApart DEF Appended
  <2>2. CASE x \notin Ids(Host(n)) \cup Ids(Nic(n))
    <3>1. x = id /\ p \in {Host(n), Nic(n)}
      BY <1>2, <2>2, SourcesApart DEF Appended
    <3>2. m = n /\ p # Net(m)
      BY <3>1 DEF Host, Nic, Net
    <3>3. SpanOf(x)' = sp
      BY <3>1 DEF Appended
    <3>4. CASE sp.parent = None
      BY <3>3, <3>4
    <3>5. CASE HasCause(m, sp)
      <4>1. HasCause(m, sp)'
        BY <1>1, <3>5, NamesKept
      <4>2. QED
        BY <3>2, <3>3, <4>1
    <3>6. QED
      BY <3>2, <3>4, <3>5
  <2>3. QED
    BY <2>1, <2>2
<1>3. QED
  BY <1>1, <1>2, ParentsKept

(* The parent of a span that is changed stays, or is a cause of it.        *)
LEMMA UpdateKeepsParents ==
  ASSUME ParentsInv, NEW m \in Machines, NEW p \in {Host(m), Nic(m)},
         NEW id \in Ids(p), NEW sp, Updated(id, sp),
         sp.parent = SpanOf(id).parent \/ HasCause(m, sp)
  PROVE  ParentsInv'
<1>1. KindsKept
  BY DEF Updated
<1>2. ASSUME NEW n \in Machines, NEW x \in Ids(Host(n))' \cup Ids(Nic(n))'
      PROVE  \/ /\ x \in Ids(Host(n)) \cup Ids(Nic(n))
                /\ SpanOf(x)'.parent = SpanOf(x).parent
             \/ SpanOf(x)'.parent = None
             \/ HasCause(n, SpanOf(x))'
  <2>1. x \in Ids(Host(n)) \cup Ids(Nic(n))
    BY SourcesApart DEF Updated
  <2>2. CASE x # id
    BY <2>1, <2>2, SourcesApart DEF Updated
  <2>3. CASE x = id
    <3>1. m = n
      <4>1. id[1] = p /\ (id[1] = Host(n) \/ id[1] = Nic(n))
        BY <2>1, <2>3 DEF Ids
      <4>2. QED
        BY <4>1 DEF Host, Nic
    <3>2. SpanOf(x)' = sp
      BY <2>3 DEF Updated
    <3>3. CASE sp.parent = SpanOf(id).parent
      BY <2>1, <2>3, <3>2, <3>3
    <3>4. CASE HasCause(m, sp)
      <4>1. HasCause(m, sp)'
        BY <1>1, <3>4, NamesKept
      <4>2. QED
        BY <3>1, <3>2, <4>1
    <3>5. QED
      BY <3>3, <3>4
  <2>4. QED
    BY <2>2, <2>3
<1>3. QED
  BY <1>1, <1>2, ParentsKept

(* As AppendKeepsParents, for a spanner that rewrites its spans.           *)
LEMMA RewriteKeepsParents ==
  ASSUME ParentsInv, NEW m \in Machines, NEW p \in {Host(m), Nic(m)},
         NEW t, Rewritten(p, t),
         \A i \in DOMAIN t \ DOMAIN spans[p] : t[i].parent = None \/ HasCause(m, t[i])
  PROVE  ParentsInv'
<1>1. KindsKept
  BY DEF Rewritten
<1>2. ASSUME NEW n \in Machines, NEW x \in Ids(Host(n))' \cup Ids(Nic(n))'
      PROVE  \/ /\ x \in Ids(Host(n)) \cup Ids(Nic(n))
                /\ SpanOf(x)'.parent = SpanOf(x).parent
             \/ SpanOf(x)'.parent = None
             \/ HasCause(n, SpanOf(x))'
  <2>1. CASE x \in Ids(Host(n)) \cup Ids(Nic(n))
    <3>1. PICK q \in {Host(n), Nic(n)} : x \in Ids(q)
      BY <2>1
    <3>2. SpanOf(x)'.parent = SpanOf(x).parent
      BY <3>1, SourcesApart DEF Rewritten
    <3>3. QED
      BY <2>1, <3>2
  <2>2. CASE x \notin Ids(Host(n)) \cup Ids(Nic(n))
    <3>1. p \in {Host(n), Nic(n)} /\ x \in Ids(p)'
      BY <1>2, <2>2, SourcesApart DEF Rewritten
    <3>2. m = n
      BY <3>1 DEF Host, Nic
    <3>3. PICK i \in DOMAIN t : x = <<p, i>>
      BY <3>1 DEF Rewritten
    <3>4. i \notin DOMAIN spans[p]
      BY <2>2, <3>1, <3>3 DEF Ids
    <3>5. PICK sp : sp = t[i]
      OBVIOUS
    <3>6. SpanOf(x)' = sp
      BY <3>3, <3>5 DEF Rewritten
    <3>7. CASE sp.parent = None
      BY <3>6, <3>7
    <3>8. CASE HasCause(m, sp)
      <4>1. HasCause(m, sp)'
        BY <1>1, <3>8, NamesKept
      <4>2. QED
        BY <3>2, <3>6, <4>1
    <3>9. QED
      BY <3>4, <3>5, <3>7, <3>8
  <2>3. QED
    BY <2>1, <2>2
<1>3. QED
  BY <1>1, <1>2, ParentsKept

(* The calls that got a packet had it before.                              *)
GotKept ==
  \A m \in Machines : \A c \in Ids(Host(m))' : GotPacket(c)' =>
    c \in Ids(Host(m)) /\ GotPacket(c) /\ SpanOf(c)'.parent = SpanOf(c).parent

(* A new span gets no packet, but if it is of a call and has a parent.     *)
LEMMA AppendKeepsGot ==
  ASSUME NEW p \in Sources, NEW id, NEW sp, Appended(p, id, sp),
         sp.kind # "HostCall" \/ sp.parent = None
  PROVE  GotKept
<1> SUFFICES ASSUME NEW m \in Machines, NEW c \in Ids(Host(m))', GotPacket(c)'
             PROVE  c \in Ids(Host(m)) /\ GotPacket(c) /\ SpanOf(c)'.parent = SpanOf(c).parent
  BY DEF GotKept
<1>1. SpanOf(c)'.kind = "HostCall" /\ SpanOf(c)'.parent # None
  BY DEF GotPacket
<1>2. CASE c \in Ids(Host(m))
  <2>1. SpanOf(c)' = SpanOf(c)
    BY <1>2, SourcesApart DEF Appended
  <2>2. QED
    BY <1>1, <1>2, <2>1 DEF GotPacket
<1>3. CASE c \notin Ids(Host(m))
  <2>1. c = id
    BY <1>3, SourcesApart DEF Appended
  <2>2. SpanOf(c)' = sp
    BY <2>1 DEF Appended
  <2>3. QED
    BY <1>1, <2>2
<1>4. QED
  BY <1>2, <1>3

(* A span that keeps kind and parent does not get a packet.                *)
LEMMA UpdateKeepsGot ==
  ASSUME NEW p \in Sources, NEW id \in Ids(p), NEW sp, Updated(id, sp),
         sp.parent = SpanOf(id).parent, sp.kind = SpanOf(id).kind
  PROVE  GotKept
<1> SUFFICES ASSUME NEW m \in Machines, NEW c \in Ids(Host(m))', GotPacket(c)'
             PROVE  c \in Ids(Host(m)) /\ GotPacket(c) /\ SpanOf(c)'.parent = SpanOf(c).parent
  BY DEF GotKept
<1>1. c \in Ids(Host(m))
  BY SourcesApart DEF Updated
<1>2. SpanOf(c)'.kind = SpanOf(c).kind /\ SpanOf(c)'.parent = SpanOf(c).parent
  <2>1. CASE c = id
    BY <2>1 DEF Updated
  <2>2. CASE c # id
    BY <1>1, <2>2, SourcesApart DEF Updated
  <2>3. QED
    BY <2>1, <2>2
<1>3. QED
  BY <1>1, <1>2 DEF GotPacket

(* As AppendKeepsGot, for a spanner that rewrites its spans.               *)
LEMMA RewriteKeepsGot ==
  ASSUME NEW p \in Sources, NEW t, Rewritten(p, t),
         \A i \in DOMAIN t \ DOMAIN spans[p] : t[i].kind # "HostCall" \/ t[i].parent = None
  PROVE  GotKept
<1> SUFFICES ASSUME NEW m \in Machines, NEW c \in Ids(Host(m))', GotPacket(c)'
             PROVE  c \in Ids(Host(m)) /\ GotPacket(c) /\ SpanOf(c)'.parent = SpanOf(c).parent
  BY DEF GotKept
<1>1. SpanOf(c)'.kind = "HostCall" /\ SpanOf(c)'.parent # None
  BY DEF GotPacket
<1>2. CASE c \in Ids(Host(m))
  <2>1. SpanOf(c)'.parent = SpanOf(c).parent /\ SpanOf(c)'.kind = SpanOf(c).kind
    BY <1>2, SourcesApart DEF Rewritten, KindsKept
  <2>2. QED
    BY <1>1, <1>2, <2>1 DEF GotPacket
<1>3. CASE c \notin Ids(Host(m))
  <2>1. Host(m) = p
    BY <1>3, SourcesApart DEF Rewritten
  <2>2. PICK i \in DOMAIN t : c = <<p, i>>
    BY <2>1 DEF Rewritten
  <2>3. i \notin DOMAIN spans[p] /\ SpanOf(c)' = t[i]
    BY <1>3, <2>1, <2>2 DEF Rewritten, Ids
  <2>4. QED
    BY <1>1, <2>3
<1>4. QED
  BY <1>2, <1>3

--------------------------------------------------------------------------------
(* Lemmas about the channels.                                              *)

(* Contexts that stay go on to fit.                                        *)
LEMMA QueuesSame ==
  ASSUME QueuesInv, KindsKept, queue' = queue
  PROVE  QueuesInv'
<1>1. \A q \in Queues : Sequence(queue'[q])
  BY DEF QueuesInv
<1>2. ASSUME NEW q \in Queues, NEW i \in DOMAIN queue'[q]
      PROVE  Carries(q, queue[q][i])'
  <2>1. PICK con : con = queue[q][i]
    OBVIOUS
  <2>2. Carries(q, con)
    BY <2>1 DEF QueuesInv
  <2>3. Carries(q, con)'
    BY <2>2, NamesKept
  <2>4. QED
    BY <2>1, <2>3
<1>3. QED
  BY <1>1, <1>2 DEF QueuesInv

(* A context that is taken, PopPropagateContext, is one that fits.         *)
LEMMA QueuePopped ==
  ASSUME QueuesInv, KindsKept, NEW q \in Queues, CanPop(q), Pop(q)
  PROVE  QueuesInv' /\ Carries(q, Front(q))
<1>0. \A x \in Queues : \A j \in DOMAIN queue[x] : Carries(x, queue[x][j])
  BY DEF QueuesInv
<1>1. PICK s, t : s = queue[q] /\ t = Tail(s)
  OBVIOUS
<1>2. Sequence(s) /\ s # <<>>
  BY <1>1 DEF QueuesInv, CanPop
<1>3. Taken(t, s)
  BY <1>1, <1>2, Taking1
<1>4. /\ DOMAIN queue' = Queues /\ queue'[q] = t
      /\ \A r \in Queues : r # q => queue'[r] = queue[r]
  BY <1>1 DEF QueuesInv, Pop
<1>5. ASSUME NEW r \in Queues, NEW i \in DOMAIN queue'[r]
      PROVE  Carries(r, queue[r][i])'
  <2>1. PICK con : con = queue'[r][i]
    OBVIOUS
  <2>2. Carries(r, con)
    <3>1. CASE r = q
      <4>1. con = queue[q][i + 1] /\ i + 1 \in DOMAIN queue[q]
        BY <1>1, <1>3, <1>4, <2>1, <3>1 DEF Taken
      <4>2. QED
        BY <1>0, <3>1, <4>1
    <3>2. CASE r # q
      BY <1>0, <1>4, <1>5, <2>1, <3>2
    <3>3. QED
      BY <3>1, <3>2
  <2>3. Carries(r, con)'
    BY <2>2, NamesKept
  <2>4. QED
    BY <2>1, <2>3
<1>6. Carries(q, Front(q))
  <2>1. Front(q) = queue[q][1] /\ 1 \in DOMAIN queue[q]
    BY <1>1, <1>3 DEF Front, Taken
  <2>2. QED
    BY <2>1 DEF QueuesInv
<1>7. \A r \in Queues : Sequence(queue'[r])
  BY <1>3, <1>4 DEF QueuesInv, Taken
<1>8. QED
  BY <1>4, <1>5, <1>6, <1>7 DEF QueuesInv

(* Sending a context that fits, PushPropagateContext.                      *)
LEMMA QueuePushed ==
  ASSUME QueuesInv, KindsKept, NEW q \in Queues, NEW con, Carries(q, con)', Push(q, con)
  PROVE  QueuesInv'
<1>0. \A x \in Queues : \A j \in DOMAIN queue[x] : Carries(x, queue[x][j])
  BY DEF QueuesInv
<1>1. PICK s, t : s = queue[q] /\ t = Append(s, con)
  OBVIOUS
<1>2. Sequence(s)
  BY <1>1 DEF QueuesInv
<1>3. Extended(t, s, con)
  BY <1>1, <1>2, Appending
<1>4. /\ DOMAIN queue' = Queues /\ queue'[q] = t
      /\ \A r \in Queues : r # q => queue'[r] = queue[r]
  BY <1>1 DEF QueuesInv, Push
<1>5. ASSUME NEW r \in Queues, NEW i \in DOMAIN queue'[r]
      PROVE  Carries(r, queue[r][i])'
  <2>1. PICK c : c = queue'[r][i]
    OBVIOUS
  <2>2. Carries(r, c) \/ (r = q /\ c = con)
    <3>1. CASE r = q /\ i \in DOMAIN s
      BY <1>0, <1>1, <1>3, <1>4, <2>1, <3>1 DEF Extended
    <3>2. CASE r = q /\ i \notin DOMAIN s
      BY <1>1, <1>3, <1>4, <1>5, <2>1, <3>2 DEF Extended
    <3>3. CASE r # q
      BY <1>0, <1>4, <1>5, <2>1, <3>3
    <3>4. QED
      BY <3>1, <3>2, <3>3
  <2>3. Carries(r, c)'
    BY <2>2, NamesKept
  <2>4. QED
    BY <2>1, <2>3
<1>6. \A r \in Queues : Sequence(queue'[r])
  BY <1>3, <1>4 DEF QueuesInv, Extended
<1>7. QED
  BY <1>4, <1>5, <1>6 DEF QueuesInv

(* Taking one from a channel and sending one on another.                   *)
LEMMA QueuePassedOn ==
  ASSUME QueuesInv, KindsKept, NEW q \in Queues, NEW r \in Queues, q # r, CanPop(q),
         NEW con, Carries(r, con)', PopAndPush(q, r, con)
  PROVE  QueuesInv' /\ Carries(q, Front(q))
<1>0. \A x \in Queues : \A j \in DOMAIN queue[x] : Carries(x, queue[x][j])
  BY DEF QueuesInv
<1>1. PICK s, t, u, v : s = queue[q] /\ t = Tail(s) /\ u = queue[r] /\ v = Append(u, con)
  OBVIOUS
<1>2. Sequence(s) /\ s # <<>> /\ Sequence(u)
  BY <1>1 DEF QueuesInv, CanPop
<1>3. Taken(t, s)
  BY <1>1, <1>2, Taking1
<1>4. Extended(v, u, con)
  BY <1>1, <1>2, Appending
<1>5. /\ DOMAIN queue' = Queues /\ queue'[q] = t /\ queue'[r] = v
      /\ \A x \in Queues : x # q /\ x # r => queue'[x] = queue[x]
  BY <1>1 DEF QueuesInv, PopAndPush
<1>6. ASSUME NEW x \in Queues, NEW i \in DOMAIN queue'[x]
      PROVE  Carries(x, queue[x][i])'
  <2>1. PICK c : c = queue'[x][i]
    OBVIOUS
  <2>2. Carries(x, c) \/ (x = r /\ c = con)
    <3>1. CASE x = q
      <4>1. c = t[i] /\ i \in DOMAIN t
        BY <1>5, <2>1, <3>1
      <4>2. c = s[i + 1] /\ i + 1 \in DOMAIN s
        BY <1>3, <4>1 DEF Taken
      <4>3. QED
        BY <1>0, <1>1, <3>1, <4>2
    <3>2. CASE x = r /\ i \in DOMAIN u
      BY <1>0, <1>1, <1>4, <1>5, <2>1, <3>2 DEF Extended
    <3>3. CASE x = r /\ i \notin DOMAIN u
      BY <1>1, <1>4, <1>5, <1>6, <2>1, <3>3 DEF Extended
    <3>4. CASE x # q /\ x # r
      BY <1>0, <1>5, <1>6, <2>1, <3>4
    <3>5. QED
      BY <3>1, <3>2, <3>3, <3>4
  <2>3. Carries(x, c)'
    BY <2>2, NamesKept
  <2>4. QED
    BY <2>1, <2>3
<1>7. Carries(q, Front(q))
  <2>1. Front(q) = queue[q][1] /\ 1 \in DOMAIN queue[q]
    BY <1>1, <1>3 DEF Front, Taken
  <2>2. QED
    BY <2>1 DEF QueuesInv
<1>8. \A x \in Queues : Sequence(queue'[x])
  BY <1>3, <1>4, <1>5 DEF QueuesInv, Extended, Taken
<1>9. QED
  BY <1>5, <1>6, <1>7, <1>8 DEF QueuesInv

--------------------------------------------------------------------------------
(* Lemmas about the members of the spanners.                               *)

(* The span is in a list of pending dmas.                                  *)
Listed(id) ==
  \E m \in Machines : \/ \E i \in DOMAIN host[m].dmas : id = host[m].dmas[i]
                      \/ \E i \in DOMAIN nic[m].dmas : id = nic[m].dmas[i]

(* Only the spans of dmas are in those lists.                              *)
LEMMA ListedIs ==
  ASSUME HostInv, NicInv, NEW id, Listed(id)
  PROVE  \E m \in Machines : id \in OfKind(Host(m), {"HostDma"}) \cup OfKind(Nic(m), {"NicDma"})
BY DEF HostInv, NicInv, Listed, HostNames, NicNames, AllOf

(* What is finished while the lists stay is not in them.                   *)
LEMMA DmasKept ==
  ASSUME DmasInv, \A m \in Machines : /\ host'[m].dmas = host[m].dmas
                                      /\ nic'[m].dmas = nic[m].dmas,
         \A id \in finished' : id \in finished \/ ~Listed(id)
  PROVE  DmasInv'
<1> SUFFICES ASSUME NEW m \in Machines
             PROVE  /\ Distinct(host[m].dmas)' /\ Unfinished(host[m].dmas)'
                    /\ Distinct(nic[m].dmas)' /\ Unfinished(nic[m].dmas)'
  BY DEF DmasInv
<1>1. PICK hs, ns : hs = host[m].dmas /\ ns = nic[m].dmas
  OBVIOUS
<1>2. hs = host'[m].dmas /\ ns = nic'[m].dmas
  BY <1>1
<1>3. Distinct(hs) /\ Unfinished(hs) /\ Distinct(ns) /\ Unfinished(ns)
  BY <1>1 DEF DmasInv
<1>4. \A i \in DOMAIN hs : hs[i] \notin finished'
  BY <1>1, <1>3 DEF Unfinished, Listed
<1>5. \A i \in DOMAIN ns : ns[i] \notin finished'
  BY <1>1, <1>3 DEF Unfinished, Listed
<1>6. QED
  BY <1>2, <1>3, <1>4, <1>5 DEF Unfinished, Distinct

(* New members h of the host m.                                            *)
LEMMA HostSet ==
  ASSUME HostInv, KindsKept, NEW m \in Machines, NEW h \in HostRecords, HostNames(m, h)',
         host' = [host EXCEPT ![m] = h]
  PROVE  HostInv'
<1>1. host' \in [Machines -> HostRecords]
  BY DEF HostInv
<1>2. ASSUME NEW n \in Machines PROVE HostNames(n, host[n])'
  <2>1. PICK g : g = host'[n]
    OBVIOUS
  <2>2. CASE n = m
    <3>1. g = h
      BY <2>1, <2>2 DEF HostInv
    <3>2. QED
      BY <2>1, <2>2, <3>1
  <2>3. CASE n # m
    <3>1. HostNames(n, g)
      BY <2>1, <2>3 DEF HostInv
    <3>2. HostNames(n, g)'
      BY <3>1, NamesKept
    <3>3. QED
      BY <2>1, <3>2
  <2>4. QED
    BY <2>2, <2>3
<1>3. QED
  BY <1>1, <1>2 DEF HostInv

(* New members h of the card m.                                            *)
LEMMA NicSet ==
  ASSUME NicInv, KindsKept, NEW m \in Machines, NEW h \in NicRecords, NicNames(m, h)',
         nic' = [nic EXCEPT ![m] = h]
  PROVE  NicInv'
<1>1. nic' \in [Machines -> NicRecords]
  BY DEF NicInv
<1>2. ASSUME NEW n \in Machines PROVE NicNames(n, nic[n])'
  <2>1. PICK g : g = nic'[n]
    OBVIOUS
  <2>2. CASE n = m
    <3>1. g = h
      BY <2>1, <2>2 DEF NicInv
    <3>2. QED
      BY <2>1, <2>2, <3>1
  <2>3. CASE n # m
    <3>1. NicNames(n, g)
      BY <2>1, <2>3 DEF NicInv
    <3>2. NicNames(n, g)'
      BY <3>1, NamesKept
    <3>3. QED
      BY <2>1, <3>2
  <2>4. QED
    BY <2>2, <2>3
<1>3. QED
  BY <1>1, <1>2 DEF NicInv

(* Members that stay go on to name spans of their kinds.                   *)
LEMMA MembersSame ==
  ASSUME KindsKept
  PROVE  /\ HostInv /\ host' = host => HostInv'
         /\ NicInv /\ nic' = nic => NicInv'
<1>1. ASSUME HostInv, host' = host PROVE HostInv'
  <2>1. ASSUME NEW n \in Machines PROVE HostNames(n, host[n])'
    <3>1. PICK g : g = host[n]
      OBVIOUS
    <3>2. HostNames(n, g)
      BY <1>1, <3>1 DEF HostInv
    <3>3. HostNames(n, g)'
      BY <3>2, NamesKept
    <3>4. QED
      BY <1>1, <3>1, <3>3
  <2>2. QED
    BY <1>1, <2>1 DEF HostInv
<1>2. ASSUME NicInv, nic' = nic PROVE NicInv'
  <2>1. ASSUME NEW n \in Machines PROVE NicNames(n, nic[n])'
    <3>1. PICK g : g = nic[n]
      OBVIOUS
    <3>2. NicNames(n, g)
      BY <1>2, <3>1 DEF NicInv
    <3>3. NicNames(n, g)'
      BY <3>2, NamesKept
    <3>4. QED
      BY <1>2, <3>1, <3>3
  <2>2. QED
    BY <1>2, <2>1 DEF NicInv
<1>3. QED
  BY <1>1, <1>2

(* What is left to show of a step of a spanner.                            *)
LEMMA SpannerStep ==
  ASSUME KindsInv, SpansInv', KindsKept, QueuesInv', HostInv', NicInv', DmasInv', ParentsInv',
         \A id \in finished' : id \in finished \/ id \in AllIds',
         terminated' \in BOOLEAN, UNCHANGED simulation
  PROVE  KindsInv'
<1>1. SimulationInv'
  BY DEF KindsInv, SimulationInv, simulation, Operations, Script
<1>2. finished' \subseteq AllIds'
  BY NamesKept DEF KindsInv
<1>3. QED
  BY <1>1, <1>2 DEF KindsInv

(* A step of host or card that starts and changes no span.                 *)
LEMMA QuietStep ==
  ASSUME KindsInv, UNCHANGED <<spans, finished, host, nic>>, QueuesInv',
         SimulationInv', terminated' \in BOOLEAN
  PROVE  KindsInv'
<1>1. KindsKept /\ SpansInv'
  BY DEF KindsKept, Ids, SpanOf, SpansInv, KindsInv
<1>2. HostInv' /\ NicInv'
  BY <1>1, MembersSame DEF KindsInv
<1>3. DmasInv'
  BY DEF KindsInv, DmasInv, Unfinished, Distinct
<1>4. ParentsInv'
  <2>1. \A m \in Machines : \A id \in Ids(Host(m))' \cup Ids(Nic(m))' :
          id \in Ids(Host(m)) \cup Ids(Nic(m)) /\ SpanOf(id)'.parent = SpanOf(id).parent
    BY DEF Ids, SpanOf
  <2>2. QED
    BY <1>1, <2>1, ParentsKept DEF KindsInv
<1>5. finished' \subseteq AllIds'
  BY DEF KindsInv, AllIds, Ids
<1>6. QED
  BY <1>1, <1>2, <1>3, <1>4, <1>5 DEF KindsInv

(* The pending span that iterate_add_erase finds.                          *)
LEMMA TakingFirst ==
  ASSUME NEW S, NEW ids \in Seq(S), NEW e, Taking(ids, e) # {}
  PROVE  First(Taking(ids, e)) \in DOMAIN ids
<1>1. Taking(ids, e) \subseteq DOMAIN ids /\ DOMAIN ids \subseteq Nat
  BY DEF Taking
<1>2. QED
  BY <1>1, FirstOf

(* A span is put at the end of a list of pending spans.                    *)
LEMMA ListGrows ==
  ASSUME NEW S, NEW ids \in Seq(S), NEW id \in S, NEW t, t = Append(ids, id)
  PROVE  /\ t \in Seq(S)
         /\ \A j \in DOMAIN t : t[j] = id \/ \E i \in DOMAIN ids : t[j] = ids[i]
         /\ (Distinct(ids) /\ \A i \in DOMAIN ids : ids[i] # id) => Distinct(t)
<1>1. t \in Seq(S)
  OBVIOUS
<1>2. Sequence(ids)
  BY DEF Sequence
<1>3. Extended(t, ids, id)
  BY <1>2, Appending
<1>4. \A j \in DOMAIN t : \/ j \in DOMAIN ids /\ t[j] = ids[j]
                          \/ j = Len(ids) + 1 /\ t[j] = id
  BY <1>3 DEF Extended
<1>5. \A j \in DOMAIN t : t[j] = id \/ \E i \in DOMAIN ids : t[j] = ids[i]
  BY <1>4
<1>6. ASSUME Distinct(ids), \A i \in DOMAIN ids : ids[i] # id PROVE Distinct(t)
  BY <1>4, <1>6 DEF Distinct
<1>7. QED
  BY <1>1, <1>5, <1>6

(* A span leaves the list of pending spans.                                *)
LEMMA ListShrinks ==
  ASSUME NEW S, NEW ids \in Seq(S), NEW i \in DOMAIN ids, NEW t, t = Without(ids, i)
  PROVE  /\ t \in Seq(S)
         /\ \A j \in DOMAIN t : \E k \in DOMAIN ids : k # i /\ t[j] = ids[k]
         /\ Distinct(ids) => Distinct(t) /\ \A j \in DOMAIN t : t[j] # ids[i]
<1>1. /\ t \in Seq(S) /\ DOMAIN t = 1 .. Len(ids) - 1
      /\ \A j \in 1 .. Len(ids) - 1 : t[j] = IF j < i THEN ids[j] ELSE ids[j + 1]
  BY WithoutOne
<1>2. i \in 1 .. Len(ids) /\ Len(ids) \in Nat /\ DOMAIN ids = 1 .. Len(ids)
  OBVIOUS
<1>3. \A j \in DOMAIN t : \E k \in DOMAIN ids : k # i /\ t[j] = ids[k]
  <2> SUFFICES ASSUME NEW j \in DOMAIN t
               PROVE  \E k \in DOMAIN ids : k # i /\ t[j] = ids[k]
    OBVIOUS
  <2>1. CASE j < i
    BY <1>1, <1>2, <2>1
  <2>2. CASE ~(j < i)
    BY <1>1, <1>2, <2>2
  <2>3. QED
    BY <2>1, <2>2
<1>4. ASSUME Distinct(ids) PROVE Distinct(t) /\ \A j \in DOMAIN t : t[j] # ids[i]
  <2>1. \A j \in DOMAIN t : t[j] # ids[i]
    BY <1>3, <1>4 DEF Distinct
  <2>2. ASSUME NEW j \in DOMAIN t, NEW k \in DOMAIN t, t[j] = t[k] PROVE j = k
    <3>1. j \in 1 .. Len(ids) - 1 /\ k \in 1 .. Len(ids) - 1
      BY <1>1
    <3>2. PICK a \in DOMAIN ids, b \in DOMAIN ids :
            /\ a = (IF j < i THEN j ELSE j + 1) /\ t[j] = ids[a]
            /\ b = (IF k < i THEN k ELSE k + 1) /\ t[k] = ids[b]
      <4>1. PICK a : a = IF j < i THEN j ELSE j + 1
        OBVIOUS
      <4>2. PICK b : b = IF k < i THEN k ELSE k + 1
        OBVIOUS
      <4>3. a \in DOMAIN ids /\ b \in DOMAIN ids
        BY <1>2, <3>1, <4>1, <4>2
      <4>4. t[j] = ids[a] /\ t[k] = ids[b]
        BY <1>1, <3>1, <4>1, <4>2
      <4>5. QED
        BY <4>1, <4>2, <4>3, <4>4
    <3>3. a = b
      BY <1>4, <2>2, <3>2, Zenon DEF Distinct
    <3>4. QED
      BY <1>2, <3>1, <3>2, <3>3
  <2>3. QED
    BY <2>1, <2>2 DEF Distinct
<1>5. QED
  BY <1>1, <1>3, <1>4

(* The list of host m changes; what is finished is not in the others.      *)
LEMMA HostDmasSet ==
  ASSUME HostInv, NicInv, DmasInv, NEW m \in Machines, NEW h,
         host' = [host EXCEPT ![m] = h], UNCHANGED nic,
         Distinct(h.dmas), \A i \in DOMAIN h.dmas : h.dmas[i] \notin finished',
         \A id \in finished' : id \in finished \/ id \in Ids(Host(m))
  PROVE  DmasInv'
<1>1. ASSUME NEW n \in Machines PROVE Distinct(nic[n].dmas)' /\ Unfinished(nic[n].dmas)'
  <2>1. PICK ns : ns = nic[n].dmas
    OBVIOUS
  <2>2. Distinct(ns) /\ Unfinished(ns) /\ ns = nic'[n].dmas
    BY <2>1 DEF DmasInv
  <2>3. \A i \in DOMAIN ns : ns[i] \in Ids(Nic(n))
    BY <2>1 DEF NicInv, NicNames, AllOf, OfKind
  <2>4. \A id \in Ids(Nic(n)) : id \notin Ids(Host(m))
    BY DEF Ids, Nic, Host
  <2>5. \A i \in DOMAIN ns : ns[i] \notin finished'
    BY <2>2, <2>3, <2>4 DEF Unfinished
  <2>6. QED
    BY <2>2, <2>5 DEF Unfinished, Distinct
<1>2. ASSUME NEW n \in Machines, n # m
      PROVE  Distinct(host[n].dmas)' /\ Unfinished(host[n].dmas)'
  <2>1. PICK hs : hs = host[n].dmas
    OBVIOUS
  <2>2. Distinct(hs) /\ Unfinished(hs) /\ hs = host'[n].dmas
    BY <1>2, <2>1 DEF DmasInv
  <2>3. \A i \in DOMAIN hs : hs[i] \in Ids(Host(n))
    BY <2>1 DEF HostInv, HostNames, AllOf, OfKind
  <2>4. \A id \in Ids(Host(n)) : id \notin Ids(Host(m))
    BY <1>2 DEF Ids, Host
  <2>5. \A i \in DOMAIN hs : hs[i] \notin finished'
    BY <2>2, <2>3, <2>4 DEF Unfinished
  <2>6. QED
    BY <2>2, <2>5 DEF Unfinished, Distinct
<1>3. host'[m] = h
  BY DEF HostInv
<1>4. Distinct(host[m].dmas)' /\ Unfinished(host[m].dmas)'
  BY <1>3 DEF Distinct, Unfinished
<1>5. QED
  BY <1>1, <1>2, <1>4 DEF DmasInv

(* The same for the list of card m.                                        *)
LEMMA NicDmasSet ==
  ASSUME HostInv, NicInv, DmasInv, NEW m \in Machines, NEW h,
         nic' = [nic EXCEPT ![m] = h], UNCHANGED host,
         Distinct(h.dmas), \A i \in DOMAIN h.dmas : h.dmas[i] \notin finished',
         \A id \in finished' : id \in finished \/ id \in Ids(Nic(m))
  PROVE  DmasInv'
<1>1. ASSUME NEW n \in Machines PROVE Distinct(host[n].dmas)' /\ Unfinished(host[n].dmas)'
  <2>1. PICK hs : hs = host[n].dmas
    OBVIOUS
  <2>2. Distinct(hs) /\ Unfinished(hs) /\ hs = host'[n].dmas
    BY <2>1 DEF DmasInv
  <2>3. \A i \in DOMAIN hs : hs[i] \in Ids(Host(n))
    BY <2>1 DEF HostInv, HostNames, AllOf, OfKind
  <2>4. \A id \in Ids(Host(n)) : id \notin Ids(Nic(m))
    BY DEF Ids, Nic, Host
  <2>5. \A i \in DOMAIN hs : hs[i] \notin finished'
    BY <2>2, <2>3, <2>4 DEF Unfinished
  <2>6. QED
    BY <2>2, <2>5 DEF Unfinished, Distinct
<1>2. ASSUME NEW n \in Machines, n # m
      PROVE  Distinct(nic[n].dmas)' /\ Unfinished(nic[n].dmas)'
  <2>1. PICK ns : ns = nic[n].dmas
    OBVIOUS
  <2>2. Distinct(ns) /\ Unfinished(ns) /\ ns = nic'[n].dmas
    BY <1>2, <2>1 DEF DmasInv
  <2>3. \A i \in DOMAIN ns : ns[i] \in Ids(Nic(n))
    BY <2>1 DEF NicInv, NicNames, AllOf, OfKind
  <2>4. \A id \in Ids(Nic(n)) : id \notin Ids(Nic(m))
    BY <1>2 DEF Ids, Nic
  <2>5. \A i \in DOMAIN ns : ns[i] \notin finished'
    BY <2>2, <2>3, <2>4 DEF Unfinished
  <2>6. QED
    BY <2>2, <2>5 DEF Unfinished, Distinct
<1>3. nic'[m] = h
  BY DEF NicInv
<1>4. Distinct(nic[m].dmas)' /\ Unfinished(nic[m].dmas)'
  BY <1>3 DEF Distinct, Unfinished
<1>5. QED
  BY <1>1, <1>2, <1>4 DEF DmasInv

--------------------------------------------------------------------------------
(* Lemmas about what a step of a spanner does to its spans.                *)

(* A span is started.                                                      *)
LEMMA Starts ==
  ASSUME KindsInv, NEW m \in Machines, NEW p \in {Host(m), Nic(m)}, NEW sp,
         DOMAIN sp = SpanFields, sp.parent = None \/ HasCause(m, sp),
         spans' = Append1(p, sp), NEW id, id = NextId(p)
  PROVE  /\ Appended(p, id, sp) /\ KindsKept /\ SpansInv' /\ ParentsInv'
         /\ \A kinds : sp.kind \in kinds => id \in OfKind(p, kinds)'
         /\ id \in SpannerIds /\ id # None /\ id \notin finished /\ id \in AllIds'
         /\ ~Listed(id) /\ \A x \in Ids(p) : x # id
         /\ (sp.kind # "HostCall" \/ sp.parent = None) => GotKept
<1>1. p \in Sources /\ p \in Spanners /\ SpansInv
  BY SourcesApart DEF KindsInv
<1>2. Appended(p, id, sp)
  BY <1>1, SpanAppended
<1>3. ParentsInv'
  BY <1>2, AppendKeepsParents DEF KindsInv
<1>4. \A kinds : sp.kind \in kinds => id \in OfKind(p, kinds)'
  BY <1>2 DEF Appended, OfKind
<1>5. id \in SpannerIds /\ id # None
  <2>1. id = <<p, Len(spans[p]) + 1>> /\ id[2] \in Nat
    BY <1>2 DEF NextId, Appended
  <2>2. QED
    BY <1>1, <2>1, MachineAssumption DEF SpannerIds
<1>6. id \notin AllIds
  BY <1>2 DEF Appended, AllIds, Ids
<1>7. id \notin finished /\ id \in AllIds'
  BY <1>1, <1>2, <1>6 DEF KindsInv, Appended, AllIds
<1>8. ~Listed(id)
  BY <1>6, ListedIs, SourcesApart DEF KindsInv, OfKind, AllIds
<1>9. (sp.kind # "HostCall" \/ sp.parent = None) => GotKept
  BY <1>1, <1>2, AppendKeepsGot
<1>10. QED
  BY <1>2, <1>3, <1>4, <1>5, <1>7, <1>8, <1>9 DEF Appended

(* A span is changed.                                                      *)
LEMMA Changes ==
  ASSUME KindsInv, NEW m \in Machines, NEW p \in {Host(m), Nic(m)}, NEW id \in Ids(p), NEW sp,
         DOMAIN sp = SpanFields, sp.kind = SpanOf(id).kind,
         sp.parent = SpanOf(id).parent \/ HasCause(m, sp),
         spans' = Update(id, sp)
  PROVE  Updated(id, sp) /\ KindsKept /\ SpansInv' /\ ParentsInv' /\ id \in AllIds'
<1>1. p \in Sources /\ p \in Spanners /\ SpansInv
  BY SourcesApart DEF KindsInv
<1>2. Updated(id, sp)
  BY <1>1, SpanUpdated
<1>3. ParentsInv'
  BY <1>2, UpdateKeepsParents DEF KindsInv
<1>4. id \in AllIds'
  BY <1>1, <1>2 DEF Updated, AllIds
<1>5. QED
  BY <1>2, <1>3, <1>4 DEF Updated

(* The event that is added to a span of the spanner.                       *)
LEMMA Adds ==
  ASSUME KindsInv, NEW m \in Machines, NEW p \in {Host(m), Nic(m)}, NEW id \in Ids(p), NEW e,
         NEW sp, sp = Add(SpanOf(id), e), spans' = Update(id, sp)
  PROVE  Updated(id, sp) /\ KindsKept /\ SpansInv' /\ ParentsInv' /\ id \in AllIds' /\ GotKept
<1>1. DOMAIN SpanOf(id) = SpanFields
  BY SourcesApart DEF KindsInv, SpansInv
<1>2. DOMAIN sp = SpanFields /\ sp.kind = SpanOf(id).kind /\ sp.parent = SpanOf(id).parent
  BY <1>1, AddKeeps
<1>3. Updated(id, sp) /\ KindsKept /\ SpansInv' /\ ParentsInv' /\ id \in AllIds'
  BY <1>2, Changes
<1>4. GotKept
  BY <1>2, <1>3, UpdateKeepsGot, SourcesApart
<1>5. QED
  BY <1>3, <1>4

(* What the members of host m name.                                        *)
LEMMA HostMembersAre ==
  ASSUME KindsInv, NEW m \in Machines
  PROVE  /\ host[m] \in HostRecords /\ HostNames(m, host[m])
         /\ host[m].call # None => host[m].call \in OfKind(Host(m), {"HostCall"})
         /\ host[m].int # None => host[m].int \in OfKind(Host(m), {"HostInt"})
         /\ host[m].msix # None => host[m].msix \in OfKind(Host(m), {"HostMsix"})
         /\ host[m].pci # None => host[m].pci \in OfKind(Host(m), {"HostPci"})
BY DEF KindsInv, HostInv, HostNames, MaybeOf

(* A span that is not of a dma is not in the lists of pending dmas.        *)
LEMMA NotListed ==
  ASSUME KindsInv, NEW m \in Machines, NEW p \in {Host(m), Nic(m)}, NEW id \in Ids(p),
         SpanOf(id).kind \notin {"HostDma", "NicDma"}
  PROVE  ~Listed(id)
BY ListedIs DEF KindsInv, OfKind

(* What is left to show of a step of host m that keeps its dmas pending.   *)
LEMMA HostStep ==
  ASSUME KindsInv, NEW m \in Machines, NEW h \in HostRecords, HostNames(m, h)',
         host' = [host EXCEPT ![m] = h], h.dmas = host[m].dmas,
         KindsKept, SpansInv', ParentsInv', QueuesInv',
         \A id \in finished' : id \in finished \/ (id \in AllIds' /\ ~Listed(id)),
         terminated' \in BOOLEAN, UNCHANGED <<nic, simulation>>
  PROVE  KindsInv'
<1>1. HostInv' /\ NicInv'
  BY HostSet, MembersSame DEF KindsInv
<1>2. DmasInv'
  <2>1. \A n \in Machines : host'[n].dmas = host[n].dmas /\ nic'[n].dmas = nic[n].dmas
    BY DEF KindsInv, HostInv
  <2>2. QED
    BY <2>1, DmasKept DEF KindsInv
<1>3. QED
  BY <1>1, <1>2, SpannerStep

(* A step that only takes an event from a log.                             *)
LEMMA UnchangedStep ==
  ASSUME KindsInv, UNCHANGED <<spans, finished, host, nic, queue, simulation>>,
         terminated' \in BOOLEAN
  PROVE  KindsInv'
<1>1. KindsKept
  BY DEF KindsKept, Ids, SpanOf
<1>2. QueuesInv'
  BY <1>1, QueuesSame DEF KindsInv
<1>3. SimulationInv'
  BY DEF KindsInv, SimulationInv, simulation, Operations, Script
<1>4. QED
  BY <1>2, <1>3, QuietStep

(* The context that is taken next fits.                                    *)
LEMMA FrontFits ==
  ASSUME KindsInv, NEW q \in Queues, CanPop(q)
  PROVE  Carries(q, Front(q))
<1>1. PICK s, t : s = queue[q] /\ t = Tail(s)
  OBVIOUS
<1>2. Sequence(s) /\ s # <<>>
  BY <1>1 DEF KindsInv, QueuesInv, CanPop
<1>3. Taken(t, s)
  BY <1>1, <1>2, Taking1
<1>4. Front(q) = queue[q][1] /\ 1 \in DOMAIN queue[q]
  BY <1>1, <1>3 DEF Taken, Front
<1>5. QED
  BY <1>4 DEF KindsInv, QueuesInv

(* A span that is not of a dma takes its last event.                       *)
LEMMA HostEnds ==
  ASSUME KindsInv, NEW m \in Machines, NEW id \in Ids(Host(m)), NEW e,
         SpanOf(id).kind \notin {"HostDma", "NicDma"},
         spans' = Update(id, Add(SpanOf(id), e)),
         \A x \in finished' : x \in finished \/ x = id,
         NEW g, g = host[m], NEW h \in HostRecords, HostNames(m, g)' => HostNames(m, h)',
         h.dmas = host[m].dmas, host' = [host EXCEPT ![m] = h],
         UNCHANGED <<queue, terminated, nic, simulation>>
  PROVE  KindsInv' /\ GotKept
<1>1. PICK p, sp : p = Host(m) /\ sp = Add(SpanOf(id), e)
  OBVIOUS
<1>2. KindsKept /\ SpansInv' /\ ParentsInv' /\ GotKept /\ id \in AllIds'
  BY <1>1, Adds
<1>3. ~Listed(id)
  BY NotListed
<1>4. HostNames(m, g)'
  BY <1>2, HostMembersAre, NamesKept
<1>5. HostNames(m, h)'
  BY <1>4
<1>6. QueuesInv' /\ terminated' \in BOOLEAN
  BY <1>2, QueuesSame DEF KindsInv
<1>7. QED
  BY <1>2, <1>3, <1>5, <1>6, HostStep

(* No packet is got where no span changes.                                 *)
LEMMA SpansUnchanged ==
  ASSUME UNCHANGED spans
  PROVE  GotKept
BY DEF GotKept, GotPacket, Ids, SpanOf

(* The system call that is pending now is newer than all spans before.     *)
CallIsNew(m) ==
  host'[m].call # None /\ \A x \in Ids(Host(m)) : x[2] < host'[m].call[2]

--------------------------------------------------------------------------------
(* The steps of a host.                                                    *)

(* HandelCall starts the first span of a system call.                      *)
LEMMA FirstCallStep ==
  ASSUME KindsInv, NEW m \in Machines, FirstCall(m), UNCHANGED <<nic, simulation>>
  PROVE  KindsInv' /\ GotKept /\ CallIsNew(m)
<1>1. PICK p, e, sp, s, t, g : /\ p = Host(m) /\ e = Event(p) /\ s = spans[p] /\ g = host[m]
                               /\ sp = NewSpan("HostCall", None, e)
                               /\ t = s \o (IF CanAdd(sp, e) THEN <<Add(sp, e)>>
                                                             ELSE <<Refuse(sp, e), sp>>)
  OBVIOUS
<1>2. DOMAIN sp = SpanFields /\ sp.kind = "HostCall" /\ sp.parent = None
  BY <1>1, NewSpanIs
<1>3. /\ DOMAIN Add(sp, e) = SpanFields /\ DOMAIN Refuse(sp, e) = SpanFields
      /\ Add(sp, e).kind = "HostCall" /\ Refuse(sp, e).kind = "HostCall"
      /\ Add(sp, e).parent = None /\ Refuse(sp, e).parent = None
  BY <1>2, AddKeeps, RefuseKeeps
<1>4. /\ Sequence(t) /\ Len(t) \in DOMAIN t /\ Len(s) + 1 \in DOMAIN t /\ DOMAIN s \subseteq DOMAIN t
      /\ Len(t) \notin DOMAIN s /\ Len(s) + 1 \notin DOMAIN s
      /\ Len(t) \in Nat /\ Len(s) \in Nat /\ Len(s) < Len(t)
      /\ \A i \in DOMAIN s : t[i] = s[i]
      /\ \A i \in DOMAIN t \ DOMAIN s : t[i] \in {Add(sp, e), Refuse(sp, e), sp}
  <2>1. PICK x, y : x = Add(sp, e) /\ y = Refuse(sp, e)
    OBVIOUS
  <2>2. PICK S : s \in Seq(S)
    BY <1>1 DEF KindsInv, SpansInv, Sequence, Sources, Spanners
  <2>3. PICK T : T = S \cup {x, y, sp}
    OBVIOUS
  <2>4. s \in Seq(T) /\ {x, y, sp} \subseteq T
    BY <2>2, <2>3
  <2>5. CASE CanAdd(sp, e)
    <3>1. t = s \o <<x>>
      BY <1>1, <2>1, <2>5
    <3>2. QED
      BY <2>1, <2>4, <3>1 DEF Sequence
  <2>6. CASE ~CanAdd(sp, e)
    <3>1. t = s \o <<y, sp>>
      BY <1>1, <2>1, <2>6
    <3>2. QED
      BY <2>1, <2>4, <3>1 DEF Sequence
  <2>7. QED
    BY <2>5, <2>6
<1>5. \A i \in DOMAIN t \ DOMAIN s :
        DOMAIN t[i] = SpanFields /\ t[i].kind = "HostCall" /\ t[i].parent = None
  BY <1>2, <1>3, <1>4
<1>6. Rewritten(p, t)
  <2>0. p \in Sources /\ SpansInv
    BY <1>1, SourcesApart DEF KindsInv
  <2>1. \A i \in DOMAIN s : DOMAIN t[i] = SpanFields
    <3>1. \A i \in DOMAIN spans[p] : DOMAIN spans[p][i] = SpanFields
      BY <2>0, SpansAre
    <3>2. QED
      BY <1>1, <1>4, <3>1
  <2>2. spans' = [spans EXCEPT ![p] = t]
    BY <1>1 DEF FirstCall
  <2>3. /\ DOMAIN spans[p] \subseteq DOMAIN t
        /\ \A i \in DOMAIN spans[p] :
             t[i].kind = spans[p][i].kind /\ t[i].parent = spans[p][i].parent
    <3>1. s = spans[p]
      BY <1>1
    <3>2. DOMAIN s \subseteq DOMAIN t /\ \A i \in DOMAIN s : t[i] = s[i]
      BY <1>4
    <3>3. QED
      BY <3>1, <3>2
  <2>4. \A i \in DOMAIN t : DOMAIN t[i] = SpanFields
    BY <1>5, <2>1
  <2>5. QED
    BY <1>4, <2>0, <2>2, <2>3, <2>4, SpansRewritten
<1>7. ParentsInv'
  BY <1>1, <1>5, <1>6, RewriteKeepsParents DEF KindsInv
<1>8. KindsKept /\ SpansInv'
  BY <1>6 DEF Rewritten
<1>9. PICK c, n : c = <<p, Len(t)>> /\ n = <<p, Len(s) + 1>>
  OBVIOUS
<1>10. c \in OfKind(p, {"HostCall"})' /\ c \in SpannerIds
  <2>1. c \in Ids(p)' /\ SpanOf(c)'.kind = "HostCall"
    BY <1>4, <1>5, <1>6, <1>9 DEF Rewritten
  <2>2. QED
    BY <1>1, <1>4, <1>9, <2>1, SourcesApart DEF OfKind, SpannerIds
<1>11. n \in AllIds' /\ n \notin AllIds
  <2>1. n \in Ids(p)'
    BY <1>4, <1>6, <1>9 DEF Rewritten
  <2>2. n \notin AllIds
    BY <1>1, <1>4, <1>9 DEF AllIds, Ids
  <2>3. QED
    BY <1>1, <2>1, <2>2, SourcesApart DEF AllIds
<1>12. ~Listed(n)
  BY <1>11, ListedIs, SourcesApart DEF KindsInv, OfKind, AllIds
<1>13. PICK h : /\ h = [g EXCEPT !.call = c, !.pciWrite = CanAdd(sp, e) /\ IsPciWrite(e)]
                /\ host' = [host EXCEPT ![m] = h]
  <2>1. spans'[p] = t
    BY <1>1, SourcesApart DEF FirstCall, KindsInv, SpansInv
  <2>2. host' = [host EXCEPT ![m].call = c, ![m].pciWrite = CanAdd(sp, e) /\ IsPciWrite(e)]
    BY <1>1, <1>9, <2>1 DEF FirstCall
  <2>3. QED
    BY <1>1, <2>2
<1>14. g \in HostRecords /\ HostNames(m, g)' /\ (CanAdd(sp, e) /\ IsPciWrite(e)) \in BOOLEAN
  BY <1>1, <1>8, HostMembersAre, NamesKept
<1>15. h \in HostRecords /\ HostNames(m, h)' /\ h.dmas = g.dmas
  BY <1>1, <1>10, <1>13, <1>14 DEF HostRecords, HostNames, MaybeOf, AllOf
<1>16. QueuesInv' /\ terminated' \in BOOLEAN
  BY <1>8, QueuesSame DEF FirstCall, KindsInv
<1>17. \A id \in finished' : id \in finished \/ id = n
  BY <1>1, <1>9 DEF FirstCall, NextId
<1>18. GotKept
  BY <1>1, <1>5, <1>6, RewriteKeepsGot, SourcesApart
<1>19. CallIsNew(m)
  <2>1. host'[m].call = c
    BY <1>13, <1>14 DEF KindsInv, HostInv, HostRecords
  <2>2. \A x \in Ids(p) : x[2] \in 1 .. Len(s)
    <3>1. DOMAIN s = 1 .. Len(s)
      BY <1>1, SourcesApart DEF KindsInv, SpansInv, Sequence
    <3>2. QED
      BY <1>1, <3>1 DEF Ids
  <2>3. c # None /\ c[2] = Len(t)
    BY <1>9, <1>10, MachineAssumption DEF SpannerIds
  <2>4. \A x \in Ids(p) : x[2] < Len(t)
    BY <1>4, <2>2
  <2>5. QED
    BY <1>1, <2>1, <2>3, <2>4 DEF CallIsNew
<1>20. QED
  BY <1>1, <1>7, <1>8, <1>11, <1>12, <1>13, <1>15, <1>16, <1>17, <1>18, <1>19, HostStep

(* HandelCall adds an event to the span of the system call.                *)
LEMMA AddToCallStep ==
  ASSUME KindsInv, NEW m \in Machines, AddToCall(m), UNCHANGED <<nic, simulation>>
  PROVE  KindsInv' /\ GotKept
<1>1. PICK p, e, id, sp, g, h : /\ p = Host(m) /\ e = Event(p) /\ id = host[m].call
                                /\ sp = Add(SpanOf(id), e) /\ g = host[m]
                                /\ h = [g EXCEPT !.pciWrite = IsPciWrite(e)]
  OBVIOUS
<1>2. id \in Ids(p)
  BY <1>1, HostMembersAre DEF AddToCall, OfKind
<1>3. spans' = Update(id, sp)
  BY <1>1 DEF AddToCall, Call
<1>4. KindsKept /\ SpansInv' /\ ParentsInv' /\ GotKept
  BY <1>1, <1>2, <1>3, Adds
<1>5. g \in HostRecords /\ HostNames(m, g)' /\ IsPciWrite(e) \in BOOLEAN
  BY <1>1, <1>4, HostMembersAre, NamesKept DEF IsPciWrite
<1>6. h \in HostRecords /\ HostNames(m, h)' /\ h.dmas = g.dmas
  BY <1>1, <1>5 DEF HostRecords, HostNames, MaybeOf, AllOf
<1>7. host' = [host EXCEPT ![m] = h]
  BY <1>1 DEF AddToCall
<1>8. QueuesInv' /\ terminated' \in BOOLEAN /\ finished' = finished
  BY <1>4, QueuesSame DEF AddToCall, KindsInv
<1>9. QED
  BY <1>1, <1>4, <1>6, <1>7, <1>8, HostStep

(* CreateTraceStartingSpan ends the span of a system call and starts one.  *)
LEMMA StartNextCallStep ==
  ASSUME KindsInv, NEW m \in Machines, AtNextCall(m), StartNextCall(m),
         UNCHANGED <<nic, simulation>>
  PROVE  KindsInv' /\ GotKept /\ CallIsNew(m)
<1>1. PICK p, e, s, g, old, n, sp : /\ p = Host(m) /\ e = Event(p) /\ s = spans[p] /\ g = host[m]
                                    /\ old = g.call /\ n = NextId(p)
                                    /\ sp = NewSpan("HostCall", None, e)
  OBVIOUS
<1>2. p \in Sources /\ p \in {Host(m), Nic(m)} /\ p \in Spanners /\ SpansInv
  BY <1>1, SourcesApart DEF KindsInv
<1>3. DOMAIN sp = SpanFields /\ sp.kind = "HostCall" /\ sp.parent = None
  BY <1>1, NewSpanIs
<1>4. old \in OfKind(p, {"HostCall"}) /\ old \in Ids(p) /\ SpanOf(old).kind = "HostCall"
  BY <1>1, HostMembersAre DEF AtNextCall, OfKind
<1>5. /\ old[1] = p /\ old[2] \in DOMAIN s /\ DOMAIN s[old[2]] = SpanFields
      /\ SpanOf(old) = s[old[2]] /\ Sequence(s)
  BY <1>1, <1>2, <1>4, SpansAre DEF SpanOf
<1>6. PICK x, r, t : x = Refuse(s[old[2]], e) /\ r = [s EXCEPT ![old[2]] = x] /\ t = Append(r, sp)
  OBVIOUS
<1>7. DOMAIN x = SpanFields /\ x.kind = s[old[2]].kind /\ x.parent = s[old[2]].parent
  BY <1>5, <1>6, RefuseKeeps
<1>8. /\ Sequence(r) /\ DOMAIN r = DOMAIN s
      /\ r[old[2]] = x /\ \A j \in DOMAIN s : j # old[2] => r[j] = s[j]
  BY <1>5, <1>6, Replacing
<1>9. Extended(t, r, sp)
  BY <1>6, <1>8, Appending
<1>10. Len(r) = Len(s)
  BY <1>8, <1>5 DEF Sequence
<1>11. /\ n = <<p, Len(s) + 1>> /\ Sequence(t) /\ DOMAIN t = DOMAIN s \cup {Len(s) + 1}
       /\ Len(s) \in Nat /\ DOMAIN s = 1 .. Len(s) /\ Len(s) + 1 \notin DOMAIN s
       /\ t[Len(s) + 1] = sp /\ \A i \in DOMAIN s : t[i] = r[i]
  BY <1>1, <1>8, <1>9, <1>10 DEF Extended, NextId
<1>12. \A i \in DOMAIN s : /\ DOMAIN t[i] = SpanFields
                           /\ t[i].kind = s[i].kind /\ t[i].parent = s[i].parent
  <2>1. \A i \in DOMAIN spans[p] : DOMAIN spans[p][i] = SpanFields
    BY <1>2, SpansAre
  <2>2. QED
    BY <1>1, <1>7, <1>8, <1>11, <2>1
<1>13. Rewritten(p, t)
  <2>1. spans' = [spans EXCEPT ![p] = t]
    <3>1. spans' = [spans EXCEPT ![Host(m)] =
             Append([spans[Host(m)] EXCEPT ![host[m].call[2]] =
                       Refuse(SpanOf(host[m].call), Event(Host(m)))],
                    NewSpan("HostCall", None, Event(Host(m))))]
      BY DEF StartNextCall, Call
    <3>2. QED
      BY <1>1, <1>5, <1>6, <3>1
  <2>2. /\ DOMAIN spans[p] \subseteq DOMAIN t
        /\ \A i \in DOMAIN spans[p] :
             t[i].kind = spans[p][i].kind /\ t[i].parent = spans[p][i].parent
    BY <1>1, <1>11, <1>12
  <2>3. \A i \in DOMAIN t : DOMAIN t[i] = SpanFields
    BY <1>3, <1>11, <1>12
  <2>4. QED
    BY <1>2, <1>11, <2>1, <2>2, <2>3, SpansRewritten
<1>14. ParentsInv'
  BY <1>1, <1>2, <1>3, <1>11, <1>13, RewriteKeepsParents DEF KindsInv
<1>15. KindsKept /\ SpansInv'
  BY <1>13 DEF Rewritten
<1>16. n \in OfKind(p, {"HostCall"})' /\ n \in SpannerIds
  <2>1. n \in Ids(p)' /\ SpanOf(n)'.kind = "HostCall"
    BY <1>3, <1>11, <1>13 DEF Rewritten
  <2>2. QED
    BY <1>2, <1>11, <2>1 DEF OfKind, SpannerIds
<1>17. old \in AllIds' /\ ~Listed(old)
  <2>1. old \in AllIds
    BY <1>2, <1>4 DEF AllIds
  <2>2. QED
    BY <1>2, <1>4, <1>15, <2>1, NotListed, NamesKept
<1>18. PICK h : /\ h = [g EXCEPT !.call = n, !.pciWrite = FALSE, !.copying = FALSE]
                /\ host' = [host EXCEPT ![m] = h]
  BY <1>1 DEF StartNextCall
<1>19. g \in HostRecords /\ HostNames(m, g)'
  BY <1>1, <1>15, HostMembersAre, NamesKept
<1>20. h \in HostRecords /\ HostNames(m, h)' /\ h.dmas = g.dmas
  BY <1>1, <1>16, <1>18, <1>19 DEF HostRecords, HostNames, MaybeOf, AllOf
<1>21. QueuesInv' /\ terminated' \in BOOLEAN
  BY <1>15, QueuesSame DEF StartNextCall, KindsInv
<1>22. \A id \in finished' : id \in finished \/ id = old
  BY <1>1 DEF StartNextCall
<1>23. GotKept
  BY <1>1, <1>2, <1>3, <1>11, <1>13, RewriteKeepsGot
<1>24. CallIsNew(m)
  <2>1. host'[m].call = n
    BY <1>18, <1>19 DEF KindsInv, HostInv, HostRecords
  <2>2. \A id \in Ids(p) : id[2] \in 1 .. Len(s)
    BY <1>1, <1>11 DEF Ids
  <2>3. QED
    BY <1>1, <1>11, <1>16, <2>1, <2>2, MachineAssumption DEF CallIsNew, SpannerIds
<1>25. QED
  BY <1>1, <1>14, <1>15, <1>17, <1>18, <1>20, <1>21, <1>22, <1>23, <1>24, HostStep

(* FinishPendingSpan gives the span of a call that received its parent.    *)
LEMMA ReceiveContextStep ==
  ASSUME KindsInv, NEW m \in Machines, ReceiveContext(m), UNCHANGED <<nic, simulation>>
  PROVE  KindsInv'
<1>1. PICK p, id, con, x, sp, g, h :
        /\ p = Host(m) /\ id = host[m].call /\ con = Front(Receives(m))
        /\ x = Refuse(SpanOf(id), Event(p))
        /\ sp = [x EXCEPT !.parent = con.parent]
        /\ g = host[m] /\ h = [g EXCEPT !.copying = TRUE]
  OBVIOUS
<1>2. id \in Ids(p) /\ SpanOf(id).kind = "HostCall"
  BY <1>1, HostMembersAre DEF ReceiveContext, AtNextCall, OfKind
<1>3. DOMAIN SpanOf(id) = SpanFields
  BY <1>1, <1>2, SourcesApart DEF KindsInv, SpansInv
<1>4. DOMAIN x = SpanFields /\ x.kind = "HostCall"
  BY <1>1, <1>2, <1>3, RefuseKeeps
<1>5. DOMAIN sp = SpanFields /\ sp.kind = "HostCall" /\ sp.parent = con.parent
  BY <1>1, <1>4 DEF SpanFields
<1>6. Receives(m) \in Queues
  BY DEF Receives, Queues
<1>7. Carries(Receives(m), con)
  BY <1>1, <1>6, FrontFits DEF ReceiveContext
<1>8. HasCause(m, sp)
  BY <1>5, <1>7 DEF Carries, Receives, HasCause
<1>9. spans' = Update(id, sp)
  BY <1>1 DEF ReceiveContext, Call
<1>10. KindsKept /\ SpansInv' /\ ParentsInv'
  BY <1>1, <1>2, <1>5, <1>8, <1>9, Changes
<1>11. g \in HostRecords /\ HostNames(m, g)'
  BY <1>1, <1>10, HostMembersAre, NamesKept
<1>12. h \in HostRecords /\ HostNames(m, h)' /\ h.dmas = g.dmas
  BY <1>1, <1>11 DEF HostRecords, HostNames, MaybeOf, AllOf
<1>13. QueuesInv'
  BY <1>6, <1>10, QueuePopped DEF ReceiveContext, KindsInv
<1>14. terminated' \in BOOLEAN /\ finished' = finished /\ host' = [host EXCEPT ![m] = h]
  BY <1>1 DEF ReceiveContext, KindsInv
<1>15. QED
  BY <1>1, <1>10, <1>12, <1>13, <1>14, HostStep

(* FinishPendingSpan copies the span of a call for another packet.         *)
LEMMA CopyContextStep ==
  ASSUME KindsInv, NEW m \in Machines, CopyContext(m), UNCHANGED <<nic, simulation>>
  PROVE  KindsInv'
<1>1. PICK p, id, con, old, sp, n, h :
        /\ p = Host(m) /\ id = host[m].call /\ con = Front(Receives(m)) /\ old = SpanOf(id)
        /\ sp = [old EXCEPT !.parent = con.parent]
        /\ n = NextId(p) /\ h = host[m]
  OBVIOUS
<1>2. id \in Ids(p) /\ old.kind = "HostCall"
  BY <1>1, HostMembersAre DEF CopyContext, AtNextCall, OfKind
<1>3. DOMAIN old = SpanFields
  BY <1>1, <1>2, SourcesApart DEF KindsInv, SpansInv
<1>4. DOMAIN sp = SpanFields /\ sp.kind = "HostCall" /\ sp.parent = con.parent
  BY <1>1, <1>2, <1>3 DEF SpanFields
<1>5. Receives(m) \in Queues /\ CanPop(Receives(m))
  BY DEF Receives, Queues, CopyContext, ArrivedBefore
<1>6. Carries(Receives(m), con)
  BY <1>1, <1>5, FrontFits
<1>7. HasCause(m, sp)
  BY <1>4, <1>6 DEF Carries, Receives, HasCause
<1>8. spans' = Append1(p, sp)
  BY <1>1 DEF CopyContext, Call
<1>9. /\ KindsKept /\ SpansInv' /\ ParentsInv'
      /\ n \in AllIds' /\ ~Listed(n)
  BY <1>1, <1>4, <1>7, <1>8, Starts
<1>10. h \in HostRecords /\ HostNames(m, h)'
  BY <1>1, <1>9, HostMembersAre, NamesKept
<1>11. QueuesInv'
  BY <1>5, <1>9, QueuePopped DEF CopyContext, KindsInv
<1>12. /\ terminated' \in BOOLEAN /\ host' = [host EXCEPT ![m] = h]
       /\ \A x \in finished' : x \in finished \/ x = n
  BY <1>1 DEF CopyContext, KindsInv, HostInv
<1>13. QED
  BY <1>1, <1>9, <1>10, <1>11, <1>12, HostStep

(* HandelMmio adds an event to a pending mmio.                             *)
LEMMA AddToMmioStep ==
  ASSUME KindsInv, NEW m \in Machines, AddToMmio(m), UNCHANGED <<nic, simulation>>
  PROVE  KindsInv' /\ GotKept
<1>1. PICK p, e, g, i, id : /\ p = Host(m) /\ e = Event(p) /\ g = host[m]
                            /\ i = First(Taking(g.mmios, e)) /\ id = g.mmios[i]
  OBVIOUS
<1>2. g \in HostRecords /\ g.mmios \in Seq(SpannerIds) /\ AllOf(g.mmios, p, "HostMmio")
  BY <1>1, HostMembersAre DEF HostRecords, HostNames
<1>3. i \in DOMAIN g.mmios
  BY <1>1, <1>2, TakingFirst DEF AddToMmio
<1>4. id \in Ids(Host(m)) /\ SpanOf(id).kind = "HostMmio"
  BY <1>1, <1>2, <1>3 DEF AllOf, OfKind
<1>5. /\ spans' = Update(id, Add(SpanOf(id), e))
      /\ \A x \in finished' : x \in finished \/ x = id
      /\ UNCHANGED <<queue, terminated>>
  BY <1>1 DEF AddToMmio
<1>6. PICK h : /\ host' = [host EXCEPT ![m] = h]
               /\ h = g \/ h = [g EXCEPT !.mmios = Without(@, i)]
  BY <1>1 DEF AddToMmio, KindsInv, HostInv
<1>7. PICK w : w = Without(g.mmios, i)
  OBVIOUS
<1>8. w \in Seq(SpannerIds) /\ \A j \in DOMAIN w : \E k \in DOMAIN g.mmios : w[j] = g.mmios[k]
  BY <1>2, <1>3, <1>7, ListShrinks
<1>9. h \in HostRecords /\ h.dmas = g.dmas
  BY <1>2, <1>6, <1>7, <1>8 DEF HostRecords
<1>10. HostNames(m, g)' => HostNames(m, h)'
  <2>1. CASE h = g
    BY <2>1
  <2>2. CASE h = [g EXCEPT !.mmios = w]
    BY <1>2, <1>8, <2>2 DEF HostRecords, HostNames, MaybeOf, AllOf
  <2>3. QED
    BY <1>6, <1>7, <2>1, <2>2
<1>11. QED
  BY <1>1, <1>4, <1>5, <1>6, <1>9, <1>10, HostEnds

(* HandelMmio starts an mmio, and tells the card of it.                    *)
LEMMA StartMmioStep ==
  ASSUME KindsInv, NEW m \in Machines, StartMmio(m), UNCHANGED <<nic, simulation>>
  PROVE  KindsInv' /\ GotKept
<1>1. PICK p, e, g, sp, n, ids, h :
        /\ p = Host(m) /\ e = Event(p) /\ g = host[m] /\ n = NextId(p)
        /\ sp = NewSpan("HostMmio", g.call, e)
        /\ ids = Append(g.mmios, n) /\ h = [g EXCEPT !.mmios = ids]
  OBVIOUS
<1>2. DOMAIN sp = SpanFields /\ sp.kind = "HostMmio" /\ sp.parent = g.call
  BY <1>1, NewSpanIs
<1>3. g \in HostRecords /\ g.mmios \in Seq(SpannerIds) /\ AllOf(g.mmios, p, "HostMmio")
  BY <1>1, HostMembersAre DEF HostRecords, HostNames
<1>4. HasCause(m, sp)
  BY <1>1, <1>2, HostMembersAre DEF StartMmio, HasCause
<1>5. spans' = Append1(p, sp)
  BY <1>1 DEF StartMmio
<1>6. /\ KindsKept /\ SpansInv' /\ ParentsInv' /\ GotKept
      /\ n \in OfKind(p, {"HostMmio"})' /\ n \in SpannerIds /\ n \in AllIds' /\ ~Listed(n)
  BY <1>1, <1>2, <1>4, <1>5, Starts
<1>7. /\ ids \in Seq(SpannerIds)
      /\ \A j \in DOMAIN ids : ids[j] = n \/ \E i \in DOMAIN g.mmios : ids[j] = g.mmios[i]
  BY <1>1, <1>3, <1>6, ListGrows
<1>8. HostNames(m, g)'
  BY <1>1, <1>6, HostMembersAre, NamesKept
<1>9. h \in HostRecords /\ h.dmas = g.dmas
  BY <1>1, <1>3, <1>7 DEF HostRecords
<1>10. HostNames(m, h)'
  <2>1. AllOf(g.mmios, p, "HostMmio")'
    BY <1>1, <1>8 DEF HostNames
  <2>2. AllOf(ids, p, "HostMmio")'
    BY <1>6, <1>7, <2>1 DEF AllOf
  <2>3. QED
    BY <1>1, <1>3, <1>8, <2>2 DEF HostRecords, HostNames
<1>11. QueuesInv'
  <2>1. CASE EndsInDevice(m, e)
    <3>1. PICK con : con = Context(n, "Mmio", e.ts)
      OBVIOUS
    <3>2. con.expectation = "Mmio" /\ con.parent = n
      BY <3>1 DEF Context
    <3>3. Carries(ToNic(m), con)'
      BY <1>1, <1>6, <3>2 DEF Carries, ToNic
    <3>4. Push(ToNic(m), con)
      BY <1>1, <2>1, <3>1 DEF StartMmio
    <3>5. ToNic(m) \in Queues
      BY DEF ToNic, Queues
    <3>6. QED
      BY <1>6, <3>3, <3>4, <3>5, QueuePushed DEF KindsInv
  <2>2. CASE ~EndsInDevice(m, e)
    BY <1>1, <1>6, <2>2, QueuesSame DEF StartMmio, KindsInv
  <2>3. QED
    BY <2>1, <2>2
<1>12. host' = [host EXCEPT ![m] = h]
  BY <1>1 DEF StartMmio
<1>13. terminated' \in BOOLEAN /\ \A x \in finished' : x \in finished \/ x = n
  BY <1>1 DEF StartMmio, KindsInv
<1>14. QED
  BY <1>1, <1>6, <1>9, <1>10, <1>11, <1>12, <1>13, HostStep

(* HandelPci ends a pci access.                                            *)
LEMMA EndPciStep ==
  ASSUME KindsInv, NEW m \in Machines, EndPci(m), UNCHANGED <<nic, simulation>>
  PROVE  KindsInv' /\ GotKept
<1>1. PICK g, id, h : g = host[m] /\ id = g.pci /\ h = [g EXCEPT !.pci = None]
  OBVIOUS
<1>2. g \in HostRecords /\ id \in Ids(Host(m)) /\ SpanOf(id).kind = "HostPci"
  BY <1>1, HostMembersAre DEF EndPci, OfKind
<1>3. h \in HostRecords /\ h.dmas = g.dmas /\ (HostNames(m, g)' => HostNames(m, h)')
  BY <1>1, <1>2 DEF HostRecords, HostNames, MaybeOf
<1>4. /\ spans' = Update(id, Add(SpanOf(id), Event(Host(m))))
      /\ host' = [host EXCEPT ![m] = h] /\ UNCHANGED <<queue, terminated>>
      /\ \A x \in finished' : x \in finished \/ x = id
  BY <1>1 DEF EndPci
<1>5. QED
  BY <1>1, <1>2, <1>3, <1>4, HostEnds

(* HandelMsix ends an msix with the completion of its write.               *)
LEMMA EndMsixStep ==
  ASSUME KindsInv, NEW m \in Machines, EndMsix(m), UNCHANGED <<nic, simulation>>
  PROVE  KindsInv' /\ GotKept
<1>1. PICK g, id, h : g = host[m] /\ id = g.msix /\ h = [g EXCEPT !.msix = None]
  OBVIOUS
<1>2. g \in HostRecords /\ id \in Ids(Host(m)) /\ SpanOf(id).kind = "HostMsix"
  BY <1>1, HostMembersAre DEF EndMsix, EndsMsix, OfKind
<1>3. h \in HostRecords /\ h.dmas = g.dmas /\ (HostNames(m, g)' => HostNames(m, h)')
  BY <1>1, <1>2 DEF HostRecords, HostNames, MaybeOf
<1>4. /\ spans' = Update(id, Add(SpanOf(id), Event(Host(m))))
      /\ host' = [host EXCEPT ![m] = h] /\ UNCHANGED <<queue, terminated>>
      /\ \A x \in finished' : x \in finished \/ x = id
  BY <1>1 DEF EndMsix
<1>5. QED
  BY <1>1, <1>2, <1>3, <1>4, HostEnds

(* HandelInt ends an interrupt, or gives up the event.                     *)
LEMMA AddToIntStep ==
  ASSUME KindsInv, NEW m \in Machines, AddToInt(m), UNCHANGED <<nic, simulation>>
  PROVE  KindsInv' /\ GotKept
<1>1. PICK g, id, h : g = host[m] /\ id = g.int /\ h = [g EXCEPT !.int = None]
  OBVIOUS
<1>2. g \in HostRecords /\ id \in Ids(Host(m)) /\ SpanOf(id).kind = "HostInt"
  BY <1>1, HostMembersAre DEF AddToInt, OfKind
<1>3. h \in HostRecords /\ h.dmas = g.dmas /\ (HostNames(m, g)' => HostNames(m, h)')
  BY <1>1, <1>2 DEF HostRecords, HostNames, MaybeOf
<1>4. CASE CanAdd(SpanOf(id), Event(Host(m)))
  <2>1. /\ spans' = Update(id, Add(SpanOf(id), Event(Host(m))))
        /\ host' = [host EXCEPT ![m] = h] /\ UNCHANGED <<queue, terminated>>
        /\ \A x \in finished' : x \in finished \/ x = id
    BY <1>1, <1>4 DEF AddToInt
  <2>2. QED
    BY <1>1, <1>2, <1>3, <2>1, HostEnds
<1>5. CASE ~CanAdd(SpanOf(id), Event(Host(m)))
  <2>1. UNCHANGED <<spans, finished, host, nic, queue, terminated, simulation>>
    BY <1>1, <1>5 DEF AddToInt
  <2>2. QED
    BY <2>1, UnchangedStep, SpansUnchanged DEF KindsInv
<1>6. QED
  BY <1>4, <1>5

(* HandelPci starts a pci access and finishes one whose end was not seen.  *)
LEMMA StartPciStep ==
  ASSUME KindsInv, NEW m \in Machines, StartPci(m), UNCHANGED <<nic, simulation>>
  PROVE  KindsInv' /\ GotKept
<1>1. PICK p, s, g, old, n, sp :
        /\ p = Host(m) /\ s = spans[p] /\ g = host[m] /\ old = g.pci /\ n = NextId(p)
        /\ sp = NewSpan("HostPci", g.call, Event(p))
  OBVIOUS
<1>2. p \in Sources /\ p \in {Host(m), Nic(m)} /\ p \in Spanners /\ SpansInv
  BY <1>1, SourcesApart DEF KindsInv
<1>3. DOMAIN sp = SpanFields /\ sp.kind = "HostPci" /\ sp.parent = g.call
  BY <1>1, NewSpanIs
<1>4. HasCause(m, sp)
  BY <1>1, <1>3, HostMembersAre DEF StartPci, HasCause
<1>5. Sequence(s) /\ \A i \in DOMAIN s : DOMAIN s[i] = SpanFields
  BY <1>1, <1>2, SpansAre
<1>6. old # None => /\ old \in Ids(p) /\ SpanOf(old).kind = "HostPci"
                    /\ old[1] = p /\ old[2] \in DOMAIN s /\ SpanOf(old) = s[old[2]]
  <2>1. old # None => old \in Ids(p) /\ SpanOf(old).kind = "HostPci"
    BY <1>1, HostMembersAre DEF OfKind
  <2>2. \A id \in Ids(p) : id[1] = p /\ id[2] \in DOMAIN spans[p]
    BY <1>2, SpansAre
  <2>3. old[1] = p => SpanOf(old) = s[old[2]]
    BY <1>1 DEF SpanOf
  <2>4. QED
    BY <1>1, <2>1, <2>2, <2>3
<1>7. PICK x : x = [s[old[2]] EXCEPT !.pending = FALSE]
  OBVIOUS
<1>8. PICK r, t : /\ r = (IF old = None THEN s ELSE [s EXCEPT ![old[2]] = x])
                  /\ t = Append(r, sp)
  OBVIOUS
<1>9. /\ Sequence(r) /\ DOMAIN r = DOMAIN s
      /\ \A j \in DOMAIN s : /\ DOMAIN r[j] = SpanFields
                             /\ r[j].kind = s[j].kind /\ r[j].parent = s[j].parent
  <2>1. CASE old = None
    BY <1>5, <1>8, <2>1
  <2>2. CASE old # None
    <3>1. DOMAIN x = SpanFields /\ x.kind = s[old[2]].kind /\ x.parent = s[old[2]].parent
      BY <1>5, <1>6, <1>7, <2>2 DEF SpanFields
    <3>2. r = [s EXCEPT ![old[2]] = x]
      BY <1>8, <2>2
    <3>3. /\ Sequence(r) /\ DOMAIN r = DOMAIN s
          /\ r[old[2]] = x /\ \A j \in DOMAIN s : j # old[2] => r[j] = s[j]
      <4>1. PICK i : i = old[2]
        OBVIOUS
      <4>2. Sequence(s) /\ i \in DOMAIN s /\ r = [s EXCEPT ![i] = x]
        BY <1>5, <1>6, <2>2, <3>2, <4>1
      <4>3. /\ Sequence(r) /\ DOMAIN r = DOMAIN s
            /\ r[i] = x /\ \A j \in DOMAIN s : j # i => r[j] = s[j]
        BY <4>2, Replacing
      <4>4. QED
        BY <4>1, <4>3
    <3>4. QED
      BY <1>5, <3>1, <3>3
  <2>3. QED
    BY <2>1, <2>2
<1>10. Extended(t, r, sp)
  BY <1>8, <1>9, Appending
<1>11. Len(r) = Len(s)
  BY <1>5, <1>9 DEF Sequence
<1>12. /\ n = <<p, Len(s) + 1>> /\ Sequence(t) /\ DOMAIN t = DOMAIN s \cup {Len(s) + 1}
       /\ Len(s) \in Nat /\ DOMAIN s = 1 .. Len(s) /\ Len(s) + 1 \notin DOMAIN s
       /\ t[Len(s) + 1] = sp /\ \A i \in DOMAIN s : t[i] = r[i]
  <2>1. n = <<p, Len(s) + 1>>
    BY <1>1 DEF NextId
  <2>2. PICK N : N = Len(s)
    OBVIOUS
  <2>3. /\ Sequence(t) /\ N \in Nat /\ DOMAIN r = 1 .. N /\ DOMAIN t = 1 .. N + 1
        /\ t[N + 1] = sp /\ \A i \in DOMAIN r : t[i] = r[i]
    BY <1>10, <1>11, <2>2 DEF Extended
  <2>4. DOMAIN r = DOMAIN s
    BY <1>9
  <2>5. DOMAIN t = (1 .. N) \cup {N + 1} /\ N + 1 \notin 1 .. N
    BY <2>3
  <2>6. QED
    BY <2>1, <2>2, <2>3, <2>4, <2>5
<1>13. Rewritten(p, t)
  <2>1. spans' = [spans EXCEPT ![p] = t]
    BY <1>1, <1>7, <1>8 DEF StartPci
  <2>2. /\ DOMAIN spans[p] \subseteq DOMAIN t
        /\ \A i \in DOMAIN spans[p] :
             t[i].kind = spans[p][i].kind /\ t[i].parent = spans[p][i].parent
    BY <1>1, <1>9, <1>12
  <2>3. \A i \in DOMAIN t : DOMAIN t[i] = SpanFields
    BY <1>3, <1>9, <1>12
  <2>4. QED
    BY <1>2, <1>12, <2>1, <2>2, <2>3, SpansRewritten
<1>14. ParentsInv'
  BY <1>1, <1>2, <1>4, <1>12, <1>13, RewriteKeepsParents DEF KindsInv
<1>15. KindsKept /\ SpansInv'
  BY <1>13 DEF Rewritten
<1>16. n \in OfKind(p, {"HostPci"})' /\ n \in SpannerIds
  <2>1. n \in Ids(p)' /\ SpanOf(n)'.kind = "HostPci"
    BY <1>3, <1>12, <1>13 DEF Rewritten
  <2>2. QED
    BY <1>2, <1>12, <2>1 DEF OfKind, SpannerIds
<1>17. old # None => old \in AllIds' /\ ~Listed(old)
  <2>1. old # None => old \in AllIds
    BY <1>2, <1>6 DEF AllIds
  <2>2. QED
    BY <1>2, <1>6, <1>15, <2>1, NotListed, NamesKept
<1>18. PICK h : h = [g EXCEPT !.pci = n] /\ host' = [host EXCEPT ![m] = h]
  BY <1>1 DEF StartPci
<1>19. g \in HostRecords /\ HostNames(m, g)'
  BY <1>1, <1>15, HostMembersAre, NamesKept
<1>20. h \in HostRecords /\ HostNames(m, h)' /\ h.dmas = g.dmas
  BY <1>1, <1>16, <1>18, <1>19 DEF HostRecords, HostNames, MaybeOf, AllOf
<1>21. QueuesInv' /\ terminated' \in BOOLEAN
  BY <1>15, QueuesSame DEF StartPci, KindsInv
<1>22. \A id \in finished' : id \in finished \/ (id = old /\ old # None)
  BY <1>1 DEF StartPci
<1>23. GotKept
  BY <1>1, <1>2, <1>3, <1>12, <1>13, RewriteKeepsGot
<1>24. QED
  BY <1>1, <1>14, <1>15, <1>17, <1>18, <1>20, <1>21, <1>22, <1>23, HostStep

(* HandelDma ends a dma; its span leaves the list.                         *)
LEMMA EndDmaStep ==
  ASSUME KindsInv, NEW m \in Machines, EndDma(m), UNCHANGED <<nic, simulation>>
  PROVE  KindsInv' /\ GotKept
<1>1. PICK p, e, g, i, id, w, h :
        /\ p = Host(m) /\ e = Event(p) /\ g = host[m]
        /\ i = First(Taking(g.dmas, e)) /\ id = g.dmas[i]
        /\ w = Without(g.dmas, i) /\ h = [g EXCEPT !.dmas = w]
  OBVIOUS
<1>2. g \in HostRecords /\ g.dmas \in Seq(SpannerIds) /\ AllOf(g.dmas, p, "HostDma")
  BY <1>1, HostMembersAre DEF HostRecords, HostNames
<1>3. i \in DOMAIN g.dmas
  BY <1>1, <1>2, TakingFirst DEF EndDma
<1>4. id \in Ids(Host(m))
  BY <1>1, <1>2, <1>3 DEF AllOf, OfKind
<1>5. spans' = Update(id, Add(SpanOf(id), e))
  BY <1>1 DEF EndDma
<1>6. KindsKept /\ SpansInv' /\ ParentsInv' /\ GotKept /\ id \in AllIds'
  BY <1>4, <1>5, Adds
<1>7. Distinct(g.dmas) /\ Unfinished(g.dmas)
  BY <1>1 DEF KindsInv, DmasInv
<1>8. /\ w \in Seq(SpannerIds) /\ Distinct(w)
      /\ \A j \in DOMAIN w : \E k \in DOMAIN g.dmas : w[j] = g.dmas[k]
      /\ \A j \in DOMAIN w : w[j] # id
  BY <1>1, <1>2, <1>3, <1>7, ListShrinks
<1>9. HostNames(m, g)'
  BY <1>1, <1>6, HostMembersAre, NamesKept
<1>10. h \in HostRecords /\ HostNames(m, h)' /\ h.dmas = w
  <2>1. h \in HostRecords /\ h.dmas = w
    <3>1. h = [g EXCEPT !.dmas = w] /\ g \in HostRecords /\ w \in Seq(SpannerIds)
      BY <1>1, <1>2, <1>8
    <3>2. QED
      BY <3>1 DEF HostRecords
  <2>2. AllOf(g.dmas, p, "HostDma")'
    BY <1>1, <1>9 DEF HostNames
  <2>3. AllOf(w, p, "HostDma")'
    BY <1>8, <2>2 DEF AllOf
  <2>4. HostNames(m, h)'
    BY <1>1, <1>2, <1>9, <2>3 DEF HostRecords, HostNames
  <2>5. QED
    BY <2>1, <2>4
<1>11. host' = [host EXCEPT ![m] = h] /\ finished' = finished \cup {id}
  BY <1>1 DEF EndDma
<1>12. HostInv' /\ NicInv'
  BY <1>6, <1>10, <1>11, HostSet, MembersSame DEF KindsInv
<1>13. DmasInv'
  <2>1. \A j \in DOMAIN h.dmas : h.dmas[j] \notin finished'
    BY <1>7, <1>8, <1>10, <1>11 DEF Unfinished
  <2>2. QED
    BY <1>4, <1>8, <1>10, <1>11, <2>1, HostDmasSet DEF KindsInv
<1>14. QueuesInv' /\ terminated' \in BOOLEAN
  BY <1>6, QueuesSame DEF EndDma, KindsInv
<1>15. QED
  BY <1>6, <1>11, <1>12, <1>13, <1>14, SpannerStep

(* HandelDma starts a dma that the card told of.                           *)
LEMMA StartDmaStep ==
  ASSUME KindsInv, NEW m \in Machines, StartDma(m), UNCHANGED <<nic, simulation>>
  PROVE  KindsInv' /\ GotKept
<1>1. PICK p, e, g, con, sp, n, ids, h :
        /\ p = Host(m) /\ e = Event(p) /\ g = host[m] /\ n = NextId(p)
        /\ con = Front(FromNic(m)) /\ sp = NewSpan("HostDma", con.parent, e)
        /\ ids = Append(g.dmas, n) /\ h = [g EXCEPT !.dmas = ids]
  OBVIOUS
<1>2. DOMAIN sp = SpanFields /\ sp.kind = "HostDma" /\ sp.parent = con.parent
  BY <1>1, NewSpanIs
<1>3. g \in HostRecords /\ g.dmas \in Seq(SpannerIds) /\ AllOf(g.dmas, p, "HostDma")
  BY <1>1, HostMembersAre DEF HostRecords, HostNames
<1>4. FromNic(m) \in Queues /\ CanPop(FromNic(m)) /\ con.expectation = "Dma"
  BY <1>1 DEF FromNic, Queues, StartDma, AtNewDma
<1>5. Carries(FromNic(m), con)
  BY <1>1, <1>4, FrontFits
<1>6. HasCause(m, sp)
  BY <1>2, <1>4, <1>5 DEF Carries, FromNic, HasCause
<1>7. spans' = Append1(p, sp)
  BY <1>1 DEF StartDma
<1>8. /\ KindsKept /\ SpansInv' /\ ParentsInv' /\ GotKept
      /\ n \in OfKind(p, {"HostDma"})' /\ n \in SpannerIds /\ n \notin finished
      /\ \A x \in Ids(p) : x # n
  BY <1>1, <1>2, <1>6, <1>7, Starts
<1>9. Distinct(g.dmas) /\ Unfinished(g.dmas)
  BY <1>1 DEF KindsInv, DmasInv
<1>10. \A i \in DOMAIN g.dmas : g.dmas[i] # n
  BY <1>3, <1>8 DEF AllOf, OfKind
<1>11. /\ ids \in Seq(SpannerIds) /\ Distinct(ids)
       /\ \A j \in DOMAIN ids : ids[j] = n \/ \E i \in DOMAIN g.dmas : ids[j] = g.dmas[i]
  <2>1. PICK ds : ds = g.dmas
    OBVIOUS
  <2>2. ds \in Seq(SpannerIds) /\ Distinct(ds) /\ ids = Append(ds, n)
    BY <1>1, <1>3, <1>9, <2>1
  <2>3. \A i \in DOMAIN ds : ds[i] # n
    BY <1>10, <2>1
  <2>4. /\ ids \in Seq(SpannerIds)
        /\ \A j \in DOMAIN ids : ids[j] = n \/ \E i \in DOMAIN ds : ids[j] = ds[i]
    BY <1>8, <2>2, ListGrows
  <2>5. Distinct(ids)
    BY <1>8, <2>2, <2>3, ListGrows
  <2>6. QED
    BY <2>1, <2>4, <2>5
<1>12. HostNames(m, g)'
  BY <1>1, <1>8, HostMembersAre, NamesKept
<1>13. h \in HostRecords /\ h.dmas = ids
  BY <1>1, <1>3, <1>11 DEF HostRecords
<1>14. HostNames(m, h)'
  <2>1. AllOf(g.dmas, p, "HostDma")'
    BY <1>1, <1>12 DEF HostNames
  <2>2. AllOf(ids, p, "HostDma")'
    BY <1>8, <1>11, <2>1 DEF AllOf
  <2>3. QED
    BY <1>1, <1>3, <1>12, <2>2 DEF HostRecords, HostNames
<1>15. host' = [host EXCEPT ![m] = h] /\ finished' = finished
  BY <1>1 DEF StartDma
<1>16. HostInv' /\ NicInv'
  BY <1>8, <1>13, <1>14, <1>15, HostSet, MembersSame DEF KindsInv
<1>17. DmasInv'
  <2>1. \A j \in DOMAIN h.dmas : h.dmas[j] \notin finished'
    BY <1>8, <1>9, <1>11, <1>13, <1>15 DEF Unfinished
  <2>2. QED
    BY <1>11, <1>13, <1>15, <2>1, HostDmasSet DEF KindsInv
<1>18. QueuesInv' /\ terminated' \in BOOLEAN
  BY <1>4, <1>8, QueuePopped DEF StartDma, KindsInv
<1>19. QED
  BY <1>8, <1>15, <1>16, <1>17, <1>18, SpannerStep

(* HandelMsix starts an interrupt that the card told of.                   *)
LEMMA StartMsixStep ==
  ASSUME KindsInv, NEW m \in Machines, StartMsix(m), UNCHANGED <<nic, simulation>>
  PROVE  KindsInv' /\ GotKept
<1>1. PICK p, e, g, con, sp, n, h :
        /\ p = Host(m) /\ e = Event(p) /\ g = host[m] /\ n = NextId(p)
        /\ con = Front(FromNic(m)) /\ sp = NewSpan("HostMsix", con.parent, e)
        /\ h = [g EXCEPT !.msix = n]
  OBVIOUS
<1>2. DOMAIN sp = SpanFields /\ sp.kind = "HostMsix" /\ sp.parent = con.parent
  BY <1>1, NewSpanIs
<1>3. FromNic(m) \in Queues /\ CanPop(FromNic(m)) /\ con.expectation = "Msix"
  BY <1>1 DEF FromNic, Queues, StartMsix, AtMsix
<1>4. Carries(FromNic(m), con)
  BY <1>1, <1>3, FrontFits
<1>5. HasCause(m, sp)
  BY <1>2, <1>3, <1>4 DEF Carries, FromNic, HasCause
<1>6. spans' = Append1(p, sp)
  BY <1>1 DEF StartMsix
<1>7. /\ KindsKept /\ SpansInv' /\ ParentsInv' /\ GotKept
      /\ n \in OfKind(p, {"HostMsix"})' /\ n \in SpannerIds
  BY <1>1, <1>2, <1>5, <1>6, Starts
<1>8. g \in HostRecords /\ HostNames(m, g)'
  BY <1>1, <1>7, HostMembersAre, NamesKept
<1>9. h \in HostRecords /\ HostNames(m, h)' /\ h.dmas = g.dmas
  BY <1>1, <1>7, <1>8 DEF HostRecords, HostNames, MaybeOf, AllOf
<1>10. QueuesInv' /\ terminated' \in BOOLEAN
  BY <1>3, <1>7, QueuePopped DEF StartMsix, KindsInv
<1>11. host' = [host EXCEPT ![m] = h] /\ finished' = finished
  BY <1>1 DEF StartMsix
<1>12. QED
  BY <1>1, <1>7, <1>9, <1>10, <1>11, HostStep

(* HandelInt starts an interrupt within the system call.                   *)
LEMMA StartIntStep ==
  ASSUME KindsInv, NEW m \in Machines, StartInt(m), UNCHANGED <<nic, simulation>>
  PROVE  KindsInv' /\ GotKept
<1>1. PICK p, e, g, sp, n, h :
        /\ p = Host(m) /\ e = Event(p) /\ g = host[m] /\ n = NextId(p)
        /\ sp = NewSpan("HostInt", g.call, e) /\ h = [g EXCEPT !.int = n]
  OBVIOUS
<1>2. DOMAIN sp = SpanFields /\ sp.kind = "HostInt" /\ sp.parent = g.call
  BY <1>1, NewSpanIs
<1>3. HasCause(m, sp)
  BY <1>1, <1>2, HostMembersAre DEF StartInt, HasCause
<1>4. spans' = Append1(p, sp)
  BY <1>1 DEF StartInt
<1>5. /\ KindsKept /\ SpansInv' /\ ParentsInv' /\ GotKept
      /\ n \in OfKind(p, {"HostInt"})' /\ n \in SpannerIds
  BY <1>1, <1>2, <1>3, <1>4, Starts
<1>6. g \in HostRecords /\ HostNames(m, g)'
  BY <1>1, <1>5, HostMembersAre, NamesKept
<1>7. h \in HostRecords /\ HostNames(m, h)' /\ h.dmas = g.dmas
  BY <1>1, <1>5, <1>6 DEF HostRecords, HostNames, MaybeOf, AllOf
<1>8. QueuesInv' /\ terminated' \in BOOLEAN
  BY <1>5, QueuesSame DEF StartInt, KindsInv
<1>9. host' = [host EXCEPT ![m] = h] /\ finished' = finished
  BY <1>1 DEF StartInt
<1>10. QED
  BY <1>1, <1>5, <1>7, <1>8, <1>9, HostStep

(* An event of the host that is given up with the context, or throws.      *)
LEMMA UnexpectedContextStep ==
  ASSUME KindsInv, NEW m \in Machines, UnexpectedContext(m), UNCHANGED <<nic, simulation>>
  PROVE  KindsInv'
<1>1. KindsKept
  BY DEF UnexpectedContext, KindsKept, Ids, SpanOf
<1>2. FromNic(m) \in Queues /\ CanPop(FromNic(m))
  BY DEF FromNic, Queues, UnexpectedContext, AtNewDma, AtMsix
<1>3. QueuesInv'
  BY <1>1, <1>2, QueuePopped DEF UnexpectedContext, KindsInv
<1>4. SimulationInv'
  BY DEF KindsInv, SimulationInv, simulation, Operations, Script
<1>5. QED
  BY <1>3, <1>4, QuietStep DEF UnexpectedContext, KindsInv

(* A host keeps its pending spans sound and connects what belongs together. *)
LEMMA TraceHostStep ==
  ASSUME KindsInv, NEW m \in Machines, NextHost(m), UNCHANGED <<nic, simulation>>
  PROVE  KindsInv'
<1>1. CASE NextCall(m) \/ EndOfCopies(m)
  BY <1>1, StartNextCallStep DEF NextCall, EndOfCopies
<1>2. CASE CannotStartMmio(m) \/ CannotHandlePci(m) \/ CannotStartInt(m)
  <2>1. UNCHANGED <<spans, finished, host, nic, queue, simulation>> /\ terminated' \in BOOLEAN
    BY <1>2 DEF CannotStartMmio, CannotHandlePci, CannotStartInt, HostThrows, Throw
  <2>2. QED
    BY <2>1, UnchangedStep
<1>3. CASE SkipHost(m)
  <2>1. UNCHANGED <<spans, finished, host, nic, queue, simulation>> /\ terminated' \in BOOLEAN
    BY <1>3 DEF SkipHost, Skip, KindsInv
  <2>2. QED
    BY <2>1, UnchangedStep
<1>4. QED
  BY <1>1, <1>2, <1>3, FirstCallStep, AddToCallStep, ReceiveContextStep, CopyContextStep,
     AddToMmioStep, StartMmioStep, EndPciStep, StartPciStep, EndMsixStep, EndDmaStep,
     StartDmaStep, StartMsixStep, UnexpectedContextStep, StartIntStep, AddToIntStep
     DEF NextHost

--------------------------------------------------------------------------------
(* The steps of a card.                                                    *)

(* What the members of card m name.                                        *)
LEMMA NicMembersAre ==
  ASSUME KindsInv, NEW m \in Machines, NEW g, g = nic[m]
  PROVE  /\ g \in NicRecords /\ NicNames(m, g) /\ g.dmas \in Seq(SpannerIds)
         /\ g.lastCausing # None => g.lastCausing \in OfKind(Nic(m), {"NicMmio", "NicEth"})
         /\ AllOf(g.dmas, Nic(m), "NicDma")
         /\ Distinct(g.dmas) /\ Unfinished(g.dmas)
BY DEF KindsInv, NicInv, NicRecords, NicNames, DmasInv

(* What is left to show of a step of card m that keeps its dmas pending.   *)
LEMMA NicStep ==
  ASSUME KindsInv, NEW m \in Machines, NEW h \in NicRecords, NicNames(m, h)',
         nic' = [nic EXCEPT ![m] = h], h.dmas = nic[m].dmas,
         KindsKept, SpansInv', ParentsInv', QueuesInv',
         \A id \in finished' : id \in finished \/ (id \in AllIds' /\ ~Listed(id)),
         terminated' \in BOOLEAN, UNCHANGED <<host, simulation>>
  PROVE  KindsInv'
<1>1. HostInv' /\ NicInv'
  BY NicSet, MembersSame DEF KindsInv
<1>2. DmasInv'
  <2>1. \A n \in Machines : host'[n].dmas = host[n].dmas /\ nic'[n].dmas = nic[n].dmas
    BY DEF KindsInv, NicInv
  <2>2. QED
    BY <2>1, DmasKept DEF KindsInv
<1>3. QED
  BY <1>1, <1>2, SpannerStep

(* HandelMmio of the card takes the context of the host's mmio.            *)
LEMMA MmioStep ==
  ASSUME KindsInv, NEW m \in Machines, Mmio(m), UNCHANGED <<host, simulation>>
  PROVE  KindsInv'
<1>1. PICK p, e, g, con, sp, n :
        /\ p = Nic(m) /\ e = Event(p) /\ g = nic[m] /\ n = NextId(p)
        /\ con = Front(ToNic(m)) /\ sp = NewSpan("NicMmio", con.parent, e)
  OBVIOUS
<1>2. ToNic(m) \in Queues /\ CanPop(ToNic(m)) /\ Pop(ToNic(m))
  BY DEF ToNic, Queues, Mmio
<1>3. CASE con.expectation = "Mmio"
  <2>1. DOMAIN sp = SpanFields /\ sp.kind = "NicMmio" /\ sp.parent = con.parent
    BY <1>1, NewSpanIs
  <2>2. Carries(ToNic(m), con)
    BY <1>1, <1>2, FrontFits
  <2>3. HasCause(m, sp)
    BY <2>1, <2>2 DEF Carries, ToNic, HasCause
  <2>4. spans' = Append1(p, sp) /\ finished' = finished \cup {n} /\ terminated' = terminated
    BY <1>1, <1>3 DEF Mmio
  <2>5. /\ KindsKept /\ SpansInv' /\ ParentsInv'
        /\ n \in OfKind(p, {"NicMmio", "NicEth"})' /\ n \in SpannerIds
        /\ n \in AllIds' /\ ~Listed(n)
    BY <1>1, <2>1, <2>3, <2>4, Starts
  <2>6. g \in NicRecords /\ NicNames(m, g)'
    BY <1>1, <2>5, NicMembersAre, NamesKept
  <2>7. PICK h : /\ h = g \/ h = [g EXCEPT !.lastCausing = n]
                 /\ nic' = [nic EXCEPT ![m] = h]
    BY <1>1, <1>3 DEF Mmio, KindsInv, NicInv
  <2>8. h \in NicRecords /\ NicNames(m, h)' /\ h.dmas = g.dmas
    BY <1>1, <2>5, <2>6, <2>7 DEF NicRecords, NicNames, AllOf
  <2>9. QueuesInv'
    BY <1>2, <2>5, QueuePopped DEF KindsInv
  <2>10. QED
    BY <1>1, <2>4, <2>5, <2>7, <2>8, <2>9, NicStep DEF KindsInv
<1>4. CASE con.expectation # "Mmio"
  <2>1. UNCHANGED <<spans, finished, host, nic, terminated, simulation>>
    BY <1>1, <1>4 DEF Mmio
  <2>2. KindsKept
    BY <2>1 DEF KindsKept, Ids, SpanOf
  <2>3. QueuesInv'
    BY <1>2, <2>2, QueuePopped DEF KindsInv
  <2>4. SimulationInv'
    BY DEF KindsInv, SimulationInv, simulation, Operations, Script
  <2>5. QED
    BY <2>1, <2>3, <2>4, QuietStep DEF KindsInv
<1>5. QED
  BY <1>3, <1>4

(* HandelDma of the card starts a dma.                                     *)
LEMMA IssueDmaStep ==
  ASSUME KindsInv, NEW m \in Machines, IssueDma(m), UNCHANGED <<host, simulation>>
  PROVE  KindsInv'
<1>1. PICK p, e, g, ds, sp, n, ids, h :
        /\ p = Nic(m) /\ e = Event(p) /\ g = nic[m] /\ ds = g.dmas /\ n = NextId(p)
        /\ sp = NewSpan("NicDma", g.lastCausing, e)
        /\ ids = Append(ds, n) /\ h = [g EXCEPT !.dmas = ids]
  OBVIOUS
<1>2. DOMAIN sp = SpanFields /\ sp.kind = "NicDma" /\ sp.parent = g.lastCausing
  BY <1>1, NewSpanIs
<1>3. /\ g \in NicRecords /\ ds \in Seq(SpannerIds) /\ AllOf(ds, p, "NicDma")
      /\ Distinct(ds) /\ Unfinished(ds)
  BY <1>1, NicMembersAre
<1>4. HasCause(m, sp)
  BY <1>1, <1>2, NicMembersAre DEF IssueDma, HasCause
<1>5. spans' = Append1(p, sp)
  BY <1>1 DEF IssueDma
<1>6. /\ KindsKept /\ SpansInv' /\ ParentsInv'
      /\ n \in OfKind(p, {"NicDma"})' /\ n \in SpannerIds /\ n \notin finished
      /\ \A x \in Ids(p) : x # n
  BY <1>1, <1>2, <1>4, <1>5, Starts
<1>7. \A i \in DOMAIN ds : ds[i] # n
  BY <1>3, <1>6 DEF AllOf, OfKind
<1>8. /\ ids \in Seq(SpannerIds)
      /\ \A j \in DOMAIN ids : ids[j] = n \/ \E i \in DOMAIN ds : ids[j] = ds[i]
  BY <1>1, <1>3, <1>6, ListGrows
<1>9. Distinct(ids)
  <2>1. ds \in Seq(SpannerIds) /\ Distinct(ds) /\ n \in SpannerIds /\ ids = Append(ds, n)
    BY <1>1, <1>3, <1>6
  <2>2. QED
    BY <1>7, <2>1, ListGrows
<1>10. NicNames(m, g)'
  BY <1>1, <1>6, NicMembersAre, NamesKept
<1>11. h \in NicRecords /\ h.dmas = ids
  BY <1>1, <1>3, <1>8 DEF NicRecords
<1>12. NicNames(m, h)'
  <2>1. AllOf(ds, p, "NicDma")'
    BY <1>1, <1>10 DEF NicNames
  <2>2. AllOf(ids, p, "NicDma")'
    BY <1>6, <1>8, <2>1 DEF AllOf
  <2>3. QED
    BY <1>1, <1>3, <1>10, <2>2 DEF NicRecords, NicNames
<1>13. nic' = [nic EXCEPT ![m] = h] /\ finished' = finished
  BY <1>1 DEF IssueDma
<1>14. HostInv' /\ NicInv'
  BY <1>6, <1>11, <1>12, <1>13, NicSet, MembersSame DEF KindsInv
<1>15. DmasInv'
  <2>1. \A j \in DOMAIN h.dmas : h.dmas[j] \notin finished'
    BY <1>3, <1>6, <1>8, <1>11, <1>13 DEF Unfinished
  <2>2. QED
    BY <1>9, <1>11, <1>13, <2>1, NicDmasSet DEF KindsInv
<1>16. QueuesInv' /\ terminated' \in BOOLEAN
  BY <1>6, QueuesSame DEF IssueDma, KindsInv
<1>17. QED
  BY <1>6, <1>13, <1>14, <1>15, <1>16, SpannerStep

(* HandelDma of the card tells the host of a dma, or ends it.              *)
LEMMA AddToDmaStep ==
  ASSUME KindsInv, NEW m \in Machines, AddToDma(m), UNCHANGED <<host, simulation>>
  PROVE  KindsInv'
<1>1. PICK p, e, g, ds, i, id, sp, w, h :
        /\ p = Nic(m) /\ e = Event(p) /\ g = nic[m] /\ ds = g.dmas
        /\ i = First(Taking(ds, e)) /\ id = ds[i] /\ sp = Add(SpanOf(id), e)
        /\ w = Without(ds, i) /\ h = [g EXCEPT !.dmas = w]
  OBVIOUS
<1>2. /\ g \in NicRecords /\ ds \in Seq(SpannerIds) /\ AllOf(ds, p, "NicDma")
      /\ Distinct(ds) /\ Unfinished(ds)
  BY <1>1, NicMembersAre
<1>3. i \in DOMAIN ds
  BY <1>1, <1>2, TakingFirst DEF AddToDma
<1>4. id \in Ids(Nic(m)) /\ id \in OfKind(p, {"NicDma"})
  BY <1>1, <1>2, <1>3 DEF AllOf, OfKind
<1>5. spans' = Update(id, sp) /\ terminated' = terminated
  BY <1>1 DEF AddToDma
<1>6. KindsKept /\ SpansInv' /\ ParentsInv' /\ id \in AllIds'
  BY <1>1, <1>4, <1>5, Adds
<1>7. NicNames(m, g)' /\ id \in OfKind(p, {"NicDma"})'
  BY <1>1, <1>4, <1>6, NicMembersAre, NamesKept, SourcesApart
<1>8. CASE sp.pending
  <2>1. PICK con : con = Context(id, "Dma", GetStartingTs(sp))
    OBVIOUS
  <2>2. Push(FromNic(m), con) /\ finished' = finished /\ nic' = nic
    BY <1>1, <1>8, <2>1 DEF AddToDma
  <2>3. con.expectation = "Dma" /\ con.parent = id
    BY <2>1 DEF Context
  <2>4. FromNic(m) \in Queues /\ Carries(FromNic(m), con)'
    BY <1>1, <1>7, <2>3 DEF Carries, FromNic, Queues
  <2>5. QueuesInv'
    BY <1>6, <2>2, <2>4, QueuePushed DEF KindsInv
  <2>6. nic' = [nic EXCEPT ![m] = g]
    BY <1>1, <2>2 DEF KindsInv, NicInv
  <2>7. QED
    BY <1>1, <1>2, <1>5, <1>6, <1>7, <2>2, <2>5, <2>6, NicStep DEF KindsInv
<1>9. CASE ~sp.pending
  <2>1. /\ queue' = queue /\ finished' = finished \cup {id}
        /\ nic' = [nic EXCEPT ![m] = h]
    BY <1>1, <1>9 DEF AddToDma
  <2>2. /\ w \in Seq(SpannerIds) /\ Distinct(w)
        /\ \A j \in DOMAIN w : \E k \in DOMAIN ds : w[j] = ds[k]
        /\ \A j \in DOMAIN w : w[j] # id
    BY <1>1, <1>2, <1>3, ListShrinks
  <2>3. h \in NicRecords /\ h.dmas = w
    BY <1>1, <1>2, <2>2 DEF NicRecords
  <2>4. NicNames(m, h)'
    <3>1. AllOf(ds, p, "NicDma")'
      BY <1>1, <1>7 DEF NicNames
    <3>2. AllOf(w, p, "NicDma")'
      BY <2>2, <3>1 DEF AllOf
    <3>3. QED
      BY <1>1, <1>2, <1>7, <3>2 DEF NicRecords, NicNames
  <2>5. HostInv' /\ NicInv'
    BY <1>6, <2>1, <2>3, <2>4, NicSet, MembersSame DEF KindsInv
  <2>6. DmasInv'
    <3>1. \A j \in DOMAIN h.dmas : h.dmas[j] \notin finished'
      BY <1>2, <2>1, <2>2, <2>3 DEF Unfinished
    <3>2. QED
      BY <1>4, <2>1, <2>2, <2>3, <3>1, NicDmasSet DEF KindsInv
  <2>7. QueuesInv'
    BY <1>6, <2>1, QueuesSame DEF KindsInv
  <2>8. QED
    BY <1>5, <1>6, <2>1, <2>5, <2>6, <2>7, SpannerStep DEF KindsInv
<1>10. QED
  BY <1>8, <1>9

(* A span of the card that lasts one event, with what it sends.            *)
LEMMA NicShortSpan ==
  ASSUME KindsInv, NEW m \in Machines, NEW sp, DOMAIN sp = SpanFields, HasCause(m, sp),
         sp.kind # "NicDma",
         NEW n, n = NextId(Nic(m)), spans' = Append1(Nic(m), sp),
         finished' = finished \cup {n}, UNCHANGED <<terminated, host, simulation>>,
         KindsKept /\ n \in OfKind(Nic(m), {sp.kind})' => QueuesInv',
         NEW h, h = nic[m] \/ (sp.kind = "NicEth" /\ h = [nic[m] EXCEPT !.lastCausing = n]),
         nic' = [nic EXCEPT ![m] = h]
  PROVE  KindsInv'
<1>1. PICK p, g : p = Nic(m) /\ g = nic[m]
  OBVIOUS
<1>2. /\ KindsKept /\ SpansInv' /\ ParentsInv'
      /\ n \in OfKind(p, {sp.kind})' /\ n \in SpannerIds
      /\ n \in AllIds' /\ ~Listed(n)
      /\ sp.kind = "NicEth" => n \in OfKind(p, {"NicMmio", "NicEth"})'
  BY <1>1, Starts
<1>3. g \in NicRecords /\ NicNames(m, g)'
  BY <1>1, <1>2, NicMembersAre, NamesKept
<1>4. h \in NicRecords /\ NicNames(m, h)' /\ h.dmas = g.dmas
  BY <1>1, <1>2, <1>3 DEF NicRecords, NicNames, AllOf
<1>5. QueuesInv'
  BY <1>1, <1>2
<1>6. QED
  BY <1>1, <1>2, <1>4, <1>5, NicStep DEF KindsInv

(* HandelTxrx hands a packet to the network.                               *)
LEMMA TransmitStep ==
  ASSUME KindsInv, NEW m \in Machines, Transmit(m), UNCHANGED <<host, simulation>>
  PROVE  KindsInv'
<1>1. PICK p, g, sp, n, con :
        /\ p = Nic(m) /\ g = nic[m] /\ n = NextId(p)
        /\ sp = NewSpan("NicEth", g.lastCausing, Event(p))
        /\ con = Context(n, "Rx", Event(p).ts)
  OBVIOUS
<1>2. DOMAIN sp = SpanFields /\ sp.kind = "NicEth" /\ sp.parent = g.lastCausing
  BY <1>1, NewSpanIs
<1>3. HasCause(m, sp)
  BY <1>1, <1>2, NicMembersAre DEF Transmit, HasCause
<1>4. /\ spans' = Append1(p, sp) /\ finished' = finished \cup {n}
      /\ UNCHANGED <<terminated, host, nic, simulation>> /\ Push(ToNet(m), con)
  BY <1>1 DEF Transmit
<1>5. ASSUME KindsKept, n \in OfKind(p, {"NicEth"})' PROVE QueuesInv'
  <2>1. con.expectation = "Rx" /\ con.parent = n
    BY <1>1 DEF Context
  <2>2. ToNet(m) \in Queues /\ Carries(ToNet(m), con)'
    BY <1>1, <1>5, <2>1 DEF Carries, ToNet, Queues
  <2>3. QED
    BY <1>4, <1>5, <2>2, QueuePushed DEF KindsInv
<1>6. nic' = [nic EXCEPT ![m] = g]
  BY <1>1, <1>4 DEF KindsInv, NicInv
<1>7. QED
  BY <1>1, <1>2, <1>3, <1>4, <1>5, <1>6, NicShortSpan

(* HandelMsix of the card tells the host of an interrupt.                  *)
LEMMA MsixStep ==
  ASSUME KindsInv, NEW m \in Machines, Msix(m), UNCHANGED <<host, simulation>>
  PROVE  KindsInv'
<1>1. PICK p, g, sp, n, con :
        /\ p = Nic(m) /\ g = nic[m] /\ n = NextId(p)
        /\ sp = NewSpan("NicMsix", g.lastCausing, Event(p))
        /\ con = Context(n, "Msix", Event(p).ts)
  OBVIOUS
<1>2. DOMAIN sp = SpanFields /\ sp.kind = "NicMsix" /\ sp.parent = g.lastCausing
  BY <1>1, NewSpanIs
<1>3. HasCause(m, sp)
  BY <1>1, <1>2, NicMembersAre DEF Msix, HasCause
<1>4. /\ spans' = Append1(p, sp) /\ finished' = finished \cup {n}
      /\ UNCHANGED <<terminated, host, nic, simulation>> /\ Push(FromNic(m), con)
  BY <1>1 DEF Msix
<1>5. ASSUME KindsKept, n \in OfKind(p, {"NicMsix"})' PROVE QueuesInv'
  <2>1. con.expectation = "Msix" /\ con.parent = n
    BY <1>1 DEF Context
  <2>2. FromNic(m) \in Queues /\ Carries(FromNic(m), con)'
    BY <1>1, <1>5, <2>1 DEF Carries, FromNic, Queues
  <2>3. QED
    BY <1>4, <1>5, <2>2, QueuePushed DEF KindsInv
<1>6. nic' = [nic EXCEPT ![m] = g]
  BY <1>1, <1>4 DEF KindsInv, NicInv
<1>7. QED
  BY <1>1, <1>2, <1>3, <1>4, <1>5, <1>6, NicShortSpan

(* HandelTxrx takes a packet of the network and tells the host of it.      *)
LEMMA ReceiveStep ==
  ASSUME KindsInv, NEW m \in Machines, Receive(m), UNCHANGED <<host, simulation>>
  PROVE  KindsInv'
<1>1. PICK p, g, got, sp, n, con, h :
        /\ p = Nic(m) /\ g = nic[m] /\ n = NextId(p) /\ got = Front(FromNet(m))
        /\ sp = NewSpan("NicEth", got.parent, Event(p))
        /\ con = Context(n, "Rx", Event(p).ts) /\ h = [g EXCEPT !.lastCausing = n]
  OBVIOUS
<1>2. DOMAIN sp = SpanFields /\ sp.kind = "NicEth" /\ sp.parent = got.parent
  BY <1>1, NewSpanIs
<1>3. /\ FromNet(m) \in Queues /\ Receives(m) \in Queues /\ FromNet(m) # Receives(m)
      /\ CanPop(FromNet(m))
  BY DEF FromNet, Receives, Queues, Receive
<1>4. Carries(FromNet(m), got)
  BY <1>1, <1>3, FrontFits
<1>5. HasCause(m, sp)
  BY <1>2, <1>4 DEF Carries, FromNet, HasCause
<1>6. /\ spans' = Append1(p, sp) /\ finished' = finished \cup {n}
      /\ UNCHANGED <<terminated, host, simulation>>
      /\ PopAndPush(FromNet(m), Receives(m), con)
      /\ nic' = [nic EXCEPT ![m] = h]
  BY <1>1 DEF Receive
<1>7. ASSUME KindsKept, n \in OfKind(p, {"NicEth"})' PROVE QueuesInv'
  <2>1. con.expectation = "Rx" /\ con.parent = n
    BY <1>1 DEF Context
  <2>2. Carries(Receives(m), con)'
    BY <1>1, <1>7, <2>1 DEF Carries, Receives
  <2>3. QED
    BY <1>3, <1>6, <1>7, <2>2, QueuePassedOn DEF KindsInv
<1>8. QED
  BY <1>1, <1>2, <1>5, <1>6, <1>7, NicShortSpan

(* A card keeps its pending spans sound and connects what belongs together. *)
LEMMA TraceNicStep ==
  ASSUME KindsInv, NEW m \in Machines, NextNic(m), UNCHANGED <<host, simulation>>
  PROVE  KindsInv'
<1>1. CASE UnexpectedDma(m) \/ NicThrows(m) \/ SkipNic(m)
  <2>1. UNCHANGED <<spans, finished, host, nic, queue, simulation>> /\ terminated' \in BOOLEAN
    BY <1>1 DEF UnexpectedDma, NicThrows, Throw, SkipNic, Skip, KindsInv
  <2>2. QED
    BY <2>1, UnchangedStep
<1>2. QED
  BY <1>1, MmioStep, IssueDmaStep, AddToDmaStep, TransmitStep, ReceiveStep, MsixStep
     DEF NextNic

--------------------------------------------------------------------------------
(* The steps of the simulation, and the invariant.                         *)

(* Where a step of the simulation logs.                                    *)
LEMMA StepsLog ==
  ASSUME SimulationInv, NEW o \in Operations, NEW k, k = progress[o] + 1, k <= Len(Script[o])
  PROVE  k \in Nat /\ Script[o][k].at[2] \in Machines
<1>1. scenario \in DOMAIN Scripts /\ o \in DOMAIN Scripts[scenario] /\ progress[o] \in Nat
  BY DEF SimulationInv, Operations, Script
<1>2. /\ Len(Scripts[scenario][o]) \in Nat
      /\ \A j \in 1 .. Len(Scripts[scenario][o]) : Scripts[scenario][o][j].at \in Spanners
  BY <1>1, ScriptsAssumption
<1>3. k \in 1 .. Len(Scripts[scenario][o])
  BY <1>1, <1>2 DEF Script
<1>4. Scripts[scenario][o][k].at \in Spanners
  BY <1>2, <1>3
<1>5. \A p \in Spanners : p[2] \in Machines
  BY DEF Spanners, Host, Nic
<1>6. QED
  BY <1>3, <1>4, <1>5 DEF Script

(* The network sends a packet, with the context of its own span.           *)
LEMMA FromNetworkStep ==
  ASSUME KindsInv, NEW m \in Machines, NEW o, NEW step, FromNetwork(m, o, step),
         SimulationInv', UNCHANGED <<finished, terminated, host, nic>>
  PROVE  KindsInv'
<1>1. CASE IsReceive(step)
  <2>1. PICK p, id, sp, con :
          /\ p = Net(m) /\ id = NextId(p)
          /\ sp = [kind |-> "NetDevice", parent |-> None, pending |-> FALSE,
                   events |-> <<[op |-> o, ts |-> clock[m] + 1]>>]
          /\ con = Context(id, "Rx", clock[m] + 1)
    OBVIOUS
  <2>2. DOMAIN sp = SpanFields /\ sp.kind = "NetDevice"
    BY <2>1 DEF SpanFields
  <2>3. spans' = Append1(p, sp) /\ Push(FromNet(m), con)
    BY <1>1, <2>1 DEF FromNetwork
  <2>4. p \in Sources /\ SpansInv
    BY <2>1, SourcesApart DEF KindsInv
  <2>5. Appended(p, id, sp)
    BY <2>1, <2>2, <2>3, <2>4, SpanAppended
  <2>6. KindsKept /\ SpansInv' /\ id \in OfKind(p, {"NetDevice"})'
    BY <2>2, <2>5 DEF Appended, OfKind
  <2>7. ParentsInv'
    BY <2>1, <2>5, AppendKeepsParents DEF KindsInv
  <2>8. con.expectation = "Rx" /\ con.parent = id
    BY <2>1 DEF Context
  <2>9. FromNet(m) \in Queues /\ Carries(FromNet(m), con)'
    BY <2>1, <2>6, <2>8 DEF Carries, FromNet, Queues
  <2>10. QueuesInv'
    BY <2>3, <2>6, <2>9, QueuePushed DEF KindsInv
  <2>11. HostInv' /\ NicInv'
    BY <2>6, MembersSame DEF KindsInv
  <2>12. DmasInv'
    BY DmasKept DEF KindsInv
  <2>13. finished' \subseteq AllIds'
    BY <2>6, NamesKept DEF KindsInv
  <2>14. QED
    BY <2>6, <2>7, <2>10, <2>11, <2>12, <2>13 DEF KindsInv
<1>2. CASE ~IsReceive(step)
  <2>1. UNCHANGED <<spans, queue>>
    BY <1>2 DEF FromNetwork
  <2>2. KindsKept
    BY <2>1 DEF KindsKept, Ids, SpanOf
  <2>3. QueuesInv'
    BY <2>1, <2>2, QueuesSame DEF KindsInv
  <2>4. QED
    BY <2>1, <2>3, QuietStep DEF KindsInv
<1>3. QED
  BY <1>1, <1>2

(* A step of the simulation, of whatever it is scripted to do.             *)
LEMMA SimulateStep ==
  ASSUME KindsInv, NEW o \in Operations, Simulate(o)
  PROVE  KindsInv'
<1>1. PICK k, step, m : k = progress[o] + 1 /\ step = Script[o][k] /\ m = step.at[2]
  OBVIOUS
<1>2. k <= Len(Script[o]) /\ progress' = [progress EXCEPT ![o] = k] /\ FromNetwork(m, o, step)
  BY <1>1 DEF Simulate
<1>3. k \in Nat /\ m \in Machines
  BY <1>1, <1>2, StepsLog DEF KindsInv
<1>4. UNCHANGED <<finished, terminated, host, nic, scenario>>
  BY DEF Simulate
<1>5. SimulationInv'
  BY <1>2, <1>3, <1>4 DEF KindsInv, SimulationInv, Operations, Script
<1>6. QED
  BY <1>2, <1>3, <1>4, <1>5, FromNetworkStep

(* Where the logs begin the channels are empty.                            *)
LEMMA BeginLogsStep ==
  ASSUME KindsInv, BeginLogs
  PROVE  KindsInv'
<1>1. UNCHANGED <<spans, finished, terminated, host, nic>> /\ queue' = [q \in Queues |-> <<>>]
  BY DEF BeginLogs
<1>2. QueuesInv'
  <2>1. Sequence(<<>>) /\ DOMAIN <<>> = {}
    BY DEF Sequence
  <2>2. QED
    BY <1>1, <2>1 DEF QueuesInv
<1>3. SimulationInv'
  BY DEF BeginLogs, KindsInv, SimulationInv, Operations, Script
<1>4. QED
  BY <1>1, <1>2, <1>3, QuietStep DEF KindsInv

(* No span is there in the beginning.                                      *)
LEMMA KindsInit == Init => KindsInv
<1> SUFFICES ASSUME Init PROVE KindsInv
  OBVIOUS
<1>1. Sequence(<<>>) /\ DOMAIN <<>> = {} /\ <<>> \in Seq(SpannerIds)
  BY DEF Sequence
<1>2. DOMAIN spans = Sources /\ \A p \in Sources : spans[p] = <<>>
  BY DEF Init, InitSpanner
<1>3. SpansInv /\ \A p \in Sources : Ids(p) = {}
  BY <1>1, <1>2 DEF SpansInv, Ids
<1>4. QueuesInv
  BY <1>1 DEF Init, QueuesInv
<1>5. HostInv
  BY <1>1 DEF Init, InitHost, HostMembers, HostInv, HostRecords, HostNames, MaybeOf, AllOf
<1>6. NicInv
  BY <1>1 DEF Init, InitNic, NicMembers, NicInv, NicRecords, NicNames, AllOf
<1>7. DmasInv
  BY <1>1 DEF Init, InitHost, HostMembers, InitNic, NicMembers, DmasInv, Distinct, Unfinished
<1>8. ParentsInv
  BY <1>3, SourcesApart DEF ParentsInv
<1>9. SimulationInv
  BY DEF Init, SimulationInv, Operations, Script
<1>10. finished \subseteq AllIds /\ terminated \in BOOLEAN
  BY DEF Init, InitSpanner
<1>11. QED
  BY <1>3, <1>4, <1>5, <1>6, <1>7, <1>8, <1>9, <1>10 DEF KindsInv

(* Every step keeps what is pending sound.                                 *)
LEMMA KindsNext == KindsInv /\ [Next]_vars => KindsInv'
<1> SUFFICES ASSUME KindsInv, [Next]_vars PROVE KindsInv'
  OBVIOUS
<1>1. CASE \E o \in Operations : Simulate(o)
  BY <1>1, SimulateStep
<1>2. CASE BeginLogs
  BY <1>2, BeginLogsStep
<1>3. CASE EndLogs
  <2>1. UNCHANGED <<spans, finished, host, nic, queue, terminated, scenario, progress>>
    BY <1>3 DEF EndLogs
  <2>2. SimulationInv'
    BY <2>1 DEF KindsInv, SimulationInv, Operations, Script
  <2>3. KindsKept
    BY <2>1 DEF KindsKept, Ids, SpanOf
  <2>4. QueuesInv'
    BY <2>1, <2>3, QueuesSame DEF KindsInv
  <2>5. QED
    BY <2>1, <2>2, <2>4, QuietStep DEF KindsInv
<1>4. CASE \E m \in Machines : TraceHost(m)
  BY <1>4, TraceHostStep DEF TraceHost
<1>5. CASE \E m \in Machines : TraceNic(m)
  BY <1>5, TraceNicStep DEF TraceNic
<1>6. CASE UNCHANGED vars
  <2>1. UNCHANGED <<spans, finished, host, nic, queue, simulation, terminated>>
    BY <1>6 DEF vars
  <2>2. QED
    BY <2>1, UnchangedStep DEF KindsInv
<1>7. QED
  BY <1>1, <1>2, <1>3, <1>4, <1>5, <1>6 DEF Next

(* The pending lists, the channels and the parents are sound.              *)
THEOREM KindsInvariance == Spec => []KindsInv
<1>1. QED
  BY KindsInit, KindsNext, PTL DEF Spec

(* Spanners find in their lists only spans of their own, none twice and    *)
(* no dma that is finished: erase and MarkSpanAsDone of tracer.h go        *)
(* together.                                                               *)
THEOREM TypeCorrect == Spec => []TypeOK
<1>1. KindsInv => TypeOK
  <2> SUFFICES ASSUME KindsInv PROVE TypeOK
    OBVIOUS
  <2>1. ASSUME NEW m \in Machines
        PROVE  /\ {host[m].call, host[m].int, host[m].msix, host[m].pci}
                    \subseteq Ids(Host(m)) \cup {None}
               /\ \A i, j \in DOMAIN host[m].dmas : host[m].dmas[i] = host[m].dmas[j] => i = j
               /\ \A i \in DOMAIN host[m].dmas : host[m].dmas[i] \in Ids(Host(m)) \ finished
               /\ \A i, j \in DOMAIN nic[m].dmas : nic[m].dmas[i] = nic[m].dmas[j] => i = j
               /\ \A i \in DOMAIN nic[m].dmas : nic[m].dmas[i] \in Ids(Nic(m)) \ finished
               /\ nic[m].lastCausing \in Ids(Nic(m)) \cup {None}
    <3>1. {host[m].call, host[m].int, host[m].msix, host[m].pci} \subseteq Ids(Host(m)) \cup {None}
      BY HostMembersAre DEF OfKind
    <3>2. nic[m].lastCausing \in Ids(Nic(m)) \cup {None}
      BY NicMembersAre DEF OfKind
    <3>3. AllOf(host[m].dmas, Host(m), "HostDma") /\ AllOf(nic[m].dmas, Nic(m), "NicDma")
      BY DEF KindsInv, HostInv, NicInv, HostNames, NicNames
    <3>4. /\ Distinct(host[m].dmas) /\ Unfinished(host[m].dmas)
          /\ Distinct(nic[m].dmas) /\ Unfinished(nic[m].dmas)
      BY DEF KindsInv, DmasInv
    <3>5. QED
      BY <3>1, <3>2, <3>3, <3>4 DEF AllOf, OfKind, Distinct, Unfinished
  <2>2. ASSUME NEW q \in Queues, NEW i \in DOMAIN queue[q]
        PROVE  queue[q][i].expectation \in {"Mmio", "Dma", "Msix", "Rx"}
    <3>1. PICK con : con = queue[q][i]
      OBVIOUS
    <3>2. Carries(q, con)
      BY <3>1 DEF KindsInv, QueuesInv
    <3>3. QED
      BY <3>1, <3>2 DEF Carries
  <2>3. QED
    BY <2>1, <2>2 DEF TypeOK, KindsInv
<1>2. QED
  BY <1>1, KindsInvariance, PTL

(* A span of host or card gets a parent of a kind that causes it, also     *)
(* where the contexts and the events of two logs are out of step.          *)
THEOREM ParentsFit == Spec => []ParentFits
<1>1. KindsInv => ParentFits
  <2> SUFFICES ASSUME KindsInv, NEW id \in AllIds, SpanOf(id).parent # None
               PROVE  SpanOf(SpanOf(id).parent).kind \in
                        [NicMmio |-> {"HostMmio"}, HostDma |-> {"NicDma"}, HostMsix |-> {"NicMsix"},
                         NicDma |-> {"NicMmio", "NicEth"}, NicMsix |-> {"NicMmio", "NicEth"},
                         NicEth |-> {"NicMmio", "NicEth", "NetDevice"},
                         HostMmio |-> {"HostCall"}, HostPci |-> {"HostCall"},
                         HostInt |-> {"HostCall"}, HostCall |-> {"NicEth"}][SpanOf(id).kind]
    BY DEF ParentFits
  <2>1. PICK m \in Machines : id \in Ids(Host(m)) \cup Ids(Nic(m))
    BY DEF AllIds, Spanners
  <2>2. PICK sp : sp = SpanOf(id)
    OBVIOUS
  <2>3. HasCause(m, sp)
    BY <2>1, <2>2 DEF KindsInv, ParentsInv
  <2>4. QED
    BY <2>2, <2>3 DEF HasCause, OfKind
<1>2. QED
  BY <1>1, KindsInvariance, PTL

--------------------------------------------------------------------------------
(* Packets are taken in their order.                                       *)

(* The calls stay the newest ones.                                         *)
CallsKept ==
  \A m \in Machines : ~host'[m].copying =>
    \/ ~host[m].copying /\ host'[m].call = host[m].call
    \/ CallIsNew(m)

WaitingKept ==
  \A m \in Machines : queue'[Receives(m)] \in {queue[Receives(m)], <<>>}

(* A step in which no packet comes or is taken keeps the order.            *)
LEMMA OrderKept ==
  ASSUME OrderInv, GotKept, CallsKept, WaitingKept
  PROVE  OrderInv'
<1>1. ASSUME NEW m \in Machines
      PROVE  WaitingInOrder(m)' /\ TakenCameBefore(m)' /\ CallIsLast(m)'
  <2>1. PICK w : w = queue'[Receives(m)]
    OBVIOUS
  <2>2. w = Waiting(m) \/ w = <<>>
    BY <2>1 DEF WaitingKept, Waiting
  <2>3. /\ \A i, j \in DOMAIN w : i < j => w[i].parent[2] < w[j].parent[2]
        /\ \A c \in Ids(Host(m)) : GotPacket(c) =>
             \A i \in DOMAIN w : SpanOf(c).parent[2] < w[i].parent[2]
    <3>1. CASE w = <<>>
      BY <3>1
    <3>2. CASE w = Waiting(m)
      BY <3>2 DEF OrderInv, WaitingInOrder, TakenCameBefore
    <3>3. QED
      BY <2>2, <3>1, <3>2
  <2>4. WaitingInOrder(m)'
    BY <2>1, <2>3 DEF WaitingInOrder, Waiting
  <2>5. TakenCameBefore(m)'
    <3> SUFFICES ASSUME NEW c \in Ids(Host(m))', GotPacket(c)', NEW i \in DOMAIN w
                 PROVE  SpanOf(c)'.parent[2] < w[i].parent[2]
      BY <2>1 DEF TakenCameBefore, Waiting
    <3>1. c \in Ids(Host(m)) /\ GotPacket(c) /\ SpanOf(c)'.parent = SpanOf(c).parent
      BY DEF GotKept
    <3>2. QED
      BY <2>3, <3>1
  <2>6. CallIsLast(m)'
    <3> SUFFICES ASSUME ~host'[m].copying, NEW c \in Ids(Host(m))', GotPacket(c)'
                 PROVE  host'[m].call # None /\ c[2] < host'[m].call[2]
      BY DEF CallIsLast
    <3>1. c \in Ids(Host(m)) /\ GotPacket(c)
      BY DEF GotKept
    <3>2. CASE CallIsNew(m)
      BY <3>1, <3>2 DEF CallIsNew
    <3>3. CASE ~host[m].copying /\ host'[m].call = host[m].call
      BY <3>1, <3>3 DEF OrderInv, CallIsLast
    <3>4. QED
      BY <3>2, <3>3 DEF CallsKept
  <2>7. QED
    BY <2>4, <2>5, <2>6
<1>2. PacketsTakenInOrder'
  <2> SUFFICES ASSUME NEW m \in Machines, NEW c \in Ids(Host(m))', NEW d \in Ids(Host(m))',
                      GotPacket(c)', GotPacket(d)', c[2] < d[2]
               PROVE  SpanOf(c)'.parent[2] < SpanOf(d)'.parent[2]
    BY DEF PacketsTakenInOrder
  <2>1. /\ c \in Ids(Host(m)) /\ GotPacket(c) /\ SpanOf(c)'.parent = SpanOf(c).parent
        /\ d \in Ids(Host(m)) /\ GotPacket(d) /\ SpanOf(d)'.parent = SpanOf(d).parent
    BY DEF GotKept
  <2>2. QED
    BY <2>1 DEF OrderInv, PacketsTakenInOrder
<1>3. QED
  BY <1>1, <1>2 DEF OrderInv

(* Packets are named by spans of the card, and spans by numbers.           *)
LEMMA PacketsAre ==
  ASSUME KindsInv, NEW m \in Machines
  PROVE  /\ Sequence(Waiting(m)) /\ Receives(m) \in Queues
         /\ \A i \in DOMAIN Waiting(m) : /\ Waiting(m)[i].parent \in Ids(Nic(m))
                                         /\ Waiting(m)[i].parent[2] \in Nat
         /\ \A c \in Ids(Host(m)) : /\ c[2] \in Nat
                                    /\ GotPacket(c) => /\ SpanOf(c).parent \in Ids(Nic(m))
                                                       /\ SpanOf(c).parent[2] \in Nat
<1>1. Receives(m) \in Queues
  BY DEF Receives, Queues
<1>2. \A id \in Ids(Nic(m)) \cup Ids(Host(m)) : id[2] \in Nat
  BY SpansAre, SourcesApart DEF KindsInv
<1>3. ASSUME NEW i \in DOMAIN Waiting(m) PROVE Waiting(m)[i].parent \in Ids(Nic(m))
  <2>1. PICK con : con = Waiting(m)[i]
    OBVIOUS
  <2>2. Carries(Receives(m), con)
    BY <1>1, <2>1 DEF KindsInv, QueuesInv, Waiting
  <2>3. QED
    BY <2>1, <2>2 DEF Carries, Receives, OfKind
<1>4. ASSUME NEW c \in Ids(Host(m)), GotPacket(c) PROVE SpanOf(c).parent \in Ids(Nic(m))
  <2>1. PICK sp : sp = SpanOf(c)
    OBVIOUS
  <2>2. HasCause(m, sp) /\ sp.kind = "HostCall"
    BY <1>4, <2>1 DEF GotPacket, KindsInv, ParentsInv
  <2>3. QED
    BY <2>1, <2>2 DEF HasCause, OfKind
<1>5. QED
  BY <1>1, <1>2, <1>3, <1>4 DEF KindsInv, QueuesInv, Waiting

(* A host takes the next packet for x, which is newer than the calls that  *)
(* got one.                                                                *)
LEMMA PacketTaken ==
  ASSUME KindsInv, OrderInv, NEW m \in Machines, NEW x, x[2] \in Nat,
         CanPop(Receives(m)), Pop(Receives(m)),
         SpanOf(x)'.parent = Front(Receives(m)).parent,
         \A c \in Ids(Host(m)) : GotPacket(c) => c[2] < x[2],
         \A n \in Machines : \A c \in Ids(Host(n))' : GotPacket(c)' =>
           \/ n = m /\ c = x
           \/ c \in Ids(Host(n)) /\ GotPacket(c) /\ SpanOf(c)'.parent = SpanOf(c).parent,
         host'[m].copying,
         \A n \in Machines : n # m => host'[n] = host[n]
  PROVE  OrderInv'
<1>1. PICK w, t, first : /\ w = queue[Receives(m)] /\ t = Tail(w)
                         /\ first = Front(Receives(m)).parent[2]
  OBVIOUS
<1>2. Sequence(w) /\ w # <<>>
  BY <1>1, PacketsAre DEF Waiting, CanPop
<1>3. Taken(t, w)
  BY <1>1, <1>2, Taking1
<1>4. /\ queue'[Receives(m)] = t
      /\ \A n \in Machines : n # m => queue'[Receives(n)] = queue[Receives(n)]
  BY <1>1 DEF KindsInv, QueuesInv, Pop, Receives, Queues
<1>5. 1 \in DOMAIN w /\ first = w[1].parent[2] /\ first \in Nat
  BY <1>1, <1>3, PacketsAre DEF Taken, Front, Waiting
<1>6. \A i \in DOMAIN t : i \in Nat \ {0} /\ i + 1 \in DOMAIN w /\ t[i] = w[i + 1]
  BY <1>3 DEF Taken
<1>7. /\ \A i, j \in DOMAIN w : i < j => w[i].parent[2] < w[j].parent[2]
      /\ \A c \in Ids(Host(m)) : GotPacket(c) =>
           \A i \in DOMAIN w : SpanOf(c).parent[2] < w[i].parent[2]
  BY <1>1 DEF OrderInv, WaitingInOrder, TakenCameBefore, Waiting
<1>8. \A i \in DOMAIN t : first < t[i].parent[2]
  BY <1>5, <1>6, <1>7
<1>9. \A i, j \in DOMAIN t : i < j => t[i].parent[2] < t[j].parent[2]
  BY <1>6, <1>7
<1>10. SpanOf(x)'.parent[2] = first
  BY <1>1
<1>11. ASSUME NEW n \in Machines
       PROVE  WaitingInOrder(n)' /\ TakenCameBefore(n)' /\ CallIsLast(n)'
  <2>1. CASE n = m
    <3>1. WaitingInOrder(m)'
      BY <1>4, <1>9 DEF WaitingInOrder, Waiting
    <3>2. TakenCameBefore(m)'
      <4> SUFFICES ASSUME NEW c \in Ids(Host(m))', GotPacket(c)', NEW i \in DOMAIN t
                   PROVE  SpanOf(c)'.parent[2] < t[i].parent[2]
        BY <1>4 DEF TakenCameBefore, Waiting
      <4>1. CASE c = x
        BY <1>8, <1>10, <4>1
      <4>2. CASE c # x
        BY <1>6, <1>7, <4>2
      <4>3. QED
        BY <4>1, <4>2
    <3>3. CallIsLast(m)'
      BY DEF CallIsLast
    <3>4. QED
      BY <2>1, <3>1, <3>2, <3>3
  <2>2. CASE n # m
    <3>1. PICK v : v = queue[Receives(n)] /\ v = queue'[Receives(n)]
      BY <1>4, <2>2
    <3>2. WaitingInOrder(n)'
      BY <3>1 DEF OrderInv, WaitingInOrder, Waiting
    <3>3. TakenCameBefore(n)'
      <4> SUFFICES ASSUME NEW c \in Ids(Host(n))', GotPacket(c)', NEW i \in DOMAIN v
                   PROVE  SpanOf(c)'.parent[2] < v[i].parent[2]
        BY <3>1 DEF TakenCameBefore, Waiting
      <4>1. c \in Ids(Host(n)) /\ GotPacket(c) /\ SpanOf(c)'.parent = SpanOf(c).parent
        BY <2>2
      <4>2. QED
        BY <3>1, <4>1 DEF OrderInv, TakenCameBefore, Waiting
    <3>4. CallIsLast(n)'
      BY <2>2 DEF OrderInv, CallIsLast
    <3>5. QED
      BY <3>2, <3>3, <3>4
  <2>3. QED
    BY <2>1, <2>2
<1>12. PacketsTakenInOrder'
  <2> SUFFICES ASSUME NEW n \in Machines, NEW c \in Ids(Host(n))', NEW d \in Ids(Host(n))',
                      GotPacket(c)', GotPacket(d)', c[2] < d[2]
               PROVE  SpanOf(c)'.parent[2] < SpanOf(d)'.parent[2]
    BY DEF PacketsTakenInOrder
  <2>1. CASE n = m /\ d = x
    <3>1. c # x
      BY <2>1
    <3>2. c \in Ids(Host(m)) /\ GotPacket(c) /\ SpanOf(c)'.parent = SpanOf(c).parent
      BY <2>1, <3>1
    <3>3. QED
      BY <1>5, <1>7, <1>10, <2>1, <3>2
  <2>2. CASE n = m /\ c = x /\ d # x
    <3>1. d \in Ids(Host(m)) /\ GotPacket(d)
      BY <2>2
    <3>2. d[2] < x[2] /\ d[2] \in Nat
      BY <3>1, PacketsAre
    <3>3. QED
      BY <2>2, <3>2
  <2>3. CASE ~(n = m /\ d = x) /\ ~(n = m /\ c = x)
    <3>1. /\ c \in Ids(Host(n)) /\ GotPacket(c) /\ SpanOf(c)'.parent = SpanOf(c).parent
          /\ d \in Ids(Host(n)) /\ GotPacket(d) /\ SpanOf(d)'.parent = SpanOf(d).parent
      BY <2>3
    <3>2. QED
      BY <3>1 DEF OrderInv, PacketsTakenInOrder
  <2>4. QED
    BY <2>1, <2>2, <2>3
<1>13. QED
  BY <1>11, <1>12 DEF OrderInv

(* FinishPendingSpan takes the packet that is next.                        *)
LEMMA ReceiveContextOrder ==
  ASSUME KindsInv, OrderInv, NEW m \in Machines, ReceiveContext(m)
  PROVE  OrderInv'
<1>1. PICK p, id, con, x, sp :
        /\ p = Host(m) /\ id = host[m].call /\ con = Front(Receives(m))
        /\ x = Refuse(SpanOf(id), Event(p)) /\ sp = [x EXCEPT !.parent = con.parent]
  OBVIOUS
<1>2. id \in Ids(p) /\ SpanOf(id).kind = "HostCall" /\ p \in Sources /\ SpansInv
  BY <1>1, HostMembersAre, SourcesApart DEF ReceiveContext, AtNextCall, OfKind, KindsInv
<1>3. DOMAIN SpanOf(id) = SpanFields
  BY <1>2 DEF SpansInv
<1>4. DOMAIN x = SpanFields /\ x.kind = "HostCall"
  BY <1>1, <1>2, <1>3, RefuseKeeps
<1>5. DOMAIN sp = SpanFields /\ sp.kind = SpanOf(id).kind /\ sp.parent = con.parent
  BY <1>1, <1>2, <1>4 DEF SpanFields
<1>6. spans' = Update(id, sp)
  BY <1>1 DEF ReceiveContext, Call
<1>7. Updated(id, sp)
  BY <1>2, <1>5, <1>6, SpanUpdated
<1>8. \A c \in Ids(Host(m)) : GotPacket(c) => c[2] < id[2]
  BY <1>1 DEF OrderInv, CallIsLast, ReceiveContext
<1>9. ASSUME NEW n \in Machines, NEW c \in Ids(Host(n))', GotPacket(c)'
      PROVE  \/ n = m /\ c = id
             \/ c \in Ids(Host(n)) /\ GotPacket(c) /\ SpanOf(c)'.parent = SpanOf(c).parent
  <2>1. c \in Ids(Host(n))
    BY <1>7, SourcesApart DEF Updated
  <2>2. CASE c = id
    <3>1. n = m
      <4>1. id[1] = Host(m) /\ id[1] = Host(n)
        BY <1>1, <1>2, <2>1, <2>2 DEF Ids
      <4>2. QED
        BY <4>1 DEF Host
    <3>2. QED
      BY <2>2, <3>1
  <2>3. CASE c # id
    <3>1. SpanOf(c)' = SpanOf(c)
      BY <1>7, <2>1, <2>3, SourcesApart DEF Updated
    <3>2. QED
      BY <1>9, <2>1, <3>1 DEF GotPacket
  <2>4. QED
    BY <2>2, <2>3
<1>10. SpanOf(id)'.parent = Front(Receives(m)).parent
  BY <1>1, <1>5, <1>7 DEF Updated
<1>11. id[2] \in Nat
  BY <1>2, SpansAre
<1>12. /\ host'[m].copying /\ \A n \in Machines : n # m => host'[n] = host[n]
       /\ CanPop(Receives(m)) /\ Pop(Receives(m))
  BY DEF ReceiveContext, KindsInv, HostInv, HostRecords
<1>13. QED
  BY <1>8, <1>9, <1>10, <1>11, <1>12, PacketTaken

(* The copies of the span get the packets that come next, in their order.  *)
LEMMA CopyContextOrder ==
  ASSUME KindsInv, OrderInv, NEW m \in Machines, CopyContext(m)
  PROVE  OrderInv'
<1>1. PICK p, old, con, n, sp :
        /\ p = Host(m) /\ old = SpanOf(host[m].call) /\ con = Front(Receives(m))
        /\ n = NextId(p) /\ sp = [old EXCEPT !.parent = con.parent]
  OBVIOUS
<1>2. host[m].call \in Ids(p) /\ p \in Sources /\ SpansInv
  BY <1>1, HostMembersAre, SourcesApart DEF CopyContext, AtNextCall, OfKind, KindsInv
<1>3. DOMAIN old = SpanFields
  BY <1>1, <1>2 DEF SpansInv
<1>4. DOMAIN sp = SpanFields /\ sp.parent = con.parent
  BY <1>1, <1>3 DEF SpanFields
<1>5. spans' = Append1(p, sp)
  BY <1>1 DEF CopyContext, Call
<1>6. Appended(p, n, sp)
  BY <1>1, <1>2, <1>4, <1>5, SpanAppended
<1>7. \A c \in Ids(Host(m)) : GotPacket(c) => c[2] < n[2]
  BY <1>1, <1>6 DEF Appended
<1>8. ASSUME NEW k \in Machines, NEW c \in Ids(Host(k))', GotPacket(c)'
      PROVE  \/ k = m /\ c = n
             \/ c \in Ids(Host(k)) /\ GotPacket(c) /\ SpanOf(c)'.parent = SpanOf(c).parent
  <2>1. CASE c \in Ids(Host(k))
    <3>1. SpanOf(c)' = SpanOf(c)
      BY <1>6, <2>1, SourcesApart DEF Appended
    <3>2. QED
      BY <1>8, <2>1, <3>1 DEF GotPacket
  <2>2. CASE c \notin Ids(Host(k))
    <3>1. Host(k) = p /\ c = n
      BY <1>6, <2>2, SourcesApart DEF Appended
    <3>2. QED
      BY <1>1, <3>1 DEF Host
  <2>3. QED
    BY <2>1, <2>2
<1>9. SpanOf(n)'.parent = Front(Receives(m)).parent /\ n[2] \in Nat
  BY <1>1, <1>4, <1>6 DEF Appended
<1>10. /\ host'[m].copying /\ \A k \in Machines : k # m => host'[k] = host[k]
       /\ CanPop(Receives(m)) /\ Pop(Receives(m))
  BY DEF CopyContext, ArrivedBefore
<1>11. QED
  BY <1>7, <1>8, <1>9, <1>10, PacketTaken

(* What the other handlers of a host do to its calls and its packets.      *)
LEMMA HostKeepsOrder ==
  ASSUME KindsInv, OrderInv, NEW m \in Machines, NextHost(m), UNCHANGED <<nic, simulation>>,
         ~ReceiveContext(m), ~CopyContext(m)
  PROVE  OrderInv'
<1>1. CASE FirstCall(m) \/ NextCall(m) \/ EndOfCopies(m)
  <2>1. GotKept /\ CallIsNew(m)
    BY <1>1, FirstCallStep, StartNextCallStep DEF NextCall, EndOfCopies
  <2>2. queue' = queue /\ \A n \in Machines : n # m => host'[n] = host[n]
    BY <1>1 DEF FirstCall, NextCall, EndOfCopies, StartNextCall, KindsInv, HostInv
  <2>3. CallsKept
    BY <2>1, <2>2 DEF CallsKept
  <2>4. WaitingKept
    BY <2>2 DEF WaitingKept
  <2>5. QED
    BY <2>1, <2>3, <2>4, OrderKept
<1>2. CASE ~FirstCall(m) /\ ~NextCall(m) /\ ~EndOfCopies(m)
  <2>1. GotKept
    <3>1. CASE \/ CannotStartMmio(m) \/ CannotHandlePci(m) \/ CannotStartInt(m)
               \/ SkipHost(m) \/ UnexpectedContext(m)
      <4>1. UNCHANGED spans
        BY <3>1 DEF CannotStartMmio, CannotHandlePci, CannotStartInt, HostThrows, Throw,
                    SkipHost, Skip, UnexpectedContext
      <4>2. QED
        BY <4>1, SpansUnchanged
    <3>2. QED
      BY <1>2, <3>1, AddToCallStep, AddToMmioStep, StartMmioStep, EndPciStep, StartPciStep,
         EndMsixStep, EndDmaStep, StartDmaStep, StartMsixStep, StartIntStep, AddToIntStep
         DEF NextHost
  <2>2. CallsKept
    <3>1. \A n \in Machines : host'[n].copying = host[n].copying /\ host'[n].call = host[n].call
      <4>1. host \in [Machines -> HostRecords]
        BY DEF KindsInv, HostInv
      <4>2. CASE host' = host
        BY <4>2
      <4>3. CASE AddToCall(m)
        BY <4>1, <4>3 DEF AddToCall, HostRecords
      <4>4. CASE \E x : \/ host' = [host EXCEPT ![m].mmios = x]
                        \/ host' = [host EXCEPT ![m].dmas = x]
                        \/ host' = [host EXCEPT ![m].pci = x]
                        \/ host' = [host EXCEPT ![m].msix = x]
                        \/ host' = [host EXCEPT ![m].int = x]
        <5>1. PICK g : g = host[m] /\ g \in HostRecords
          BY <4>1
        <5>2. PICK x, h : /\ \/ h = [g EXCEPT !.mmios = x] \/ h = [g EXCEPT !.dmas = x]
                             \/ h = [g EXCEPT !.pci = x] \/ h = [g EXCEPT !.msix = x]
                             \/ h = [g EXCEPT !.int = x]
                          /\ host' = [host EXCEPT ![m] = h]
          <6>1. PICK x : \/ host' = [host EXCEPT ![m].mmios = x]
                         \/ host' = [host EXCEPT ![m].dmas = x]
                         \/ host' = [host EXCEPT ![m].pci = x]
                         \/ host' = [host EXCEPT ![m].msix = x]
                         \/ host' = [host EXCEPT ![m].int = x]
            BY <4>4
          <6>2. QED
            BY <5>1, <6>1
        <5>3. h.copying = g.copying /\ h.call = g.call
          BY <5>1, <5>2 DEF HostRecords
        <5>4. QED
          BY <4>1, <5>1, <5>2, <5>3
      <4>5. CASE AddToMmio(m) \/ StartMmio(m)
        BY <4>2, <4>4, <4>5 DEF AddToMmio, StartMmio
      <4>6. CASE EndPci(m) \/ StartPci(m) \/ EndMsix(m) \/ StartMsix(m)
        BY <4>4, <4>6 DEF EndPci, StartPci, EndMsix, StartMsix
      <4>7. CASE EndDma(m) \/ StartDma(m)
        BY <4>4, <4>7 DEF EndDma, StartDma
      <4>8. CASE StartInt(m) \/ AddToInt(m)
        BY <4>2, <4>4, <4>8 DEF StartInt, AddToInt
      <4>9. CASE \/ CannotStartMmio(m) \/ CannotHandlePci(m) \/ CannotStartInt(m)
                 \/ SkipHost(m) \/ UnexpectedContext(m)
        BY <4>9 DEF CannotStartMmio, CannotHandlePci, CannotStartInt, HostThrows,
                    SkipHost, UnexpectedContext
      <4>10. QED
        BY <1>2, <4>3, <4>5, <4>6, <4>7, <4>8, <4>9 DEF NextHost
    <3>2. QED
      BY <3>1 DEF CallsKept
  <2>3. WaitingKept
    <3>1. \/ queue' = queue
          \/ Pop(FromNic(m))
          \/ \E con : Push(ToNic(m), con)
      BY <1>2 DEF NextHost, AddToCall, AddToMmio, StartMmio, EndPci, StartPci, EndMsix,
          EndDma, StartDma, StartMsix, StartInt, AddToInt, UnexpectedContext, CannotStartMmio,
          CannotHandlePci, CannotStartInt, HostThrows, Throw, SkipHost, Skip
    <3>2. DOMAIN queue = Queues
      BY DEF KindsInv, QueuesInv
    <3>3. QED
      BY <3>1, <3>2 DEF WaitingKept, Pop, Push, Receives, FromNic, ToNic, Queues
  <2>4. QED
    BY <2>1, <2>2, <2>3, OrderKept
<1>3. QED
  BY <1>1, <1>2

(* HandelTxrx queues a packet behind those that came before.               *)
LEMMA ReceiveOrder ==
  ASSUME KindsInv, OrderInv, GotKept, NEW m \in Machines, Receive(m), UNCHANGED host
  PROVE  OrderInv'
<1>1. PICK w, con, t, id :
        /\ w = queue[Receives(m)] /\ id = NextId(Nic(m))
        /\ con = Context(id, "Rx", Event(Nic(m)).ts) /\ t = Append(w, con)
  OBVIOUS
<1>2. Sequence(w)
  BY <1>1, PacketsAre DEF Waiting
<1>3. Extended(t, w, con)
  BY <1>1, <1>2, Appending
<1>4. /\ queue'[Receives(m)] = t
      /\ \A n \in Machines : n # m => queue'[Receives(n)] = queue[Receives(n)]
  BY <1>1 DEF Receive, PopAndPush, KindsInv, QueuesInv, Receives, FromNet, Queues
<1>5. con.parent = id
  BY <1>1 DEF Context
<1>6. \A x \in Ids(Nic(m)) : x[2] < id[2]
  <2>1. Sequence(spans[Nic(m)])
    BY SpansAre, SourcesApart DEF KindsInv
  <2>2. DOMAIN spans[Nic(m)] = 1 .. Len(spans[Nic(m)]) /\ Len(spans[Nic(m)]) \in Nat
    BY <2>1 DEF Sequence
  <2>3. QED
    BY <1>1, <2>2 DEF Ids, NextId
<1>7. /\ \A i \in DOMAIN w : w[i].parent[2] < id[2]
      /\ \A c \in Ids(Host(m)) : GotPacket(c) => SpanOf(c).parent[2] < id[2]
  BY <1>1, <1>6, PacketsAre DEF Waiting
<1>8. /\ \A i, j \in DOMAIN w : i < j => w[i].parent[2] < w[j].parent[2]
      /\ \A c \in Ids(Host(m)) : GotPacket(c) =>
           \A i \in DOMAIN w : SpanOf(c).parent[2] < w[i].parent[2]
  BY <1>1 DEF OrderInv, WaitingInOrder, TakenCameBefore, Waiting
<1>9. \A i \in DOMAIN t : \/ i \in DOMAIN w /\ t[i] = w[i]
                          \/ i = Len(w) + 1 /\ t[i].parent = id
  BY <1>3, <1>5 DEF Extended
<1>10. Len(w) \in Nat /\ DOMAIN w = 1 .. Len(w)
  BY <1>3 DEF Extended
<1>11. ASSUME NEW n \in Machines
       PROVE  WaitingInOrder(n)' /\ TakenCameBefore(n)' /\ CallIsLast(n)'
  <2>1. CallIsLast(n)'
    BY DEF OrderInv, CallIsLast, GotKept
  <2>2. CASE n = m
    <3>1. \A i, j \in DOMAIN t : i < j => t[i].parent[2] < t[j].parent[2]
      BY <1>7, <1>8, <1>9, <1>10
    <3>2. WaitingInOrder(m)'
      BY <1>4, <3>1 DEF WaitingInOrder, Waiting
    <3>3. TakenCameBefore(m)'
      <4> SUFFICES ASSUME NEW c \in Ids(Host(m))', GotPacket(c)', NEW i \in DOMAIN t
                   PROVE  SpanOf(c)'.parent[2] < t[i].parent[2]
        BY <1>4 DEF TakenCameBefore, Waiting
      <4>1. c \in Ids(Host(m)) /\ GotPacket(c) /\ SpanOf(c)'.parent = SpanOf(c).parent
        BY DEF GotKept
      <4>2. QED
        BY <1>7, <1>8, <1>9, <4>1
    <3>4. QED
      BY <2>1, <2>2, <3>2, <3>3
  <2>3. CASE n # m
    <3>1. PICK v : v = queue[Receives(n)] /\ v = queue'[Receives(n)]
      BY <1>4, <2>3
    <3>2. WaitingInOrder(n)'
      BY <3>1 DEF OrderInv, WaitingInOrder, Waiting
    <3>3. TakenCameBefore(n)'
      <4> SUFFICES ASSUME NEW c \in Ids(Host(n))', GotPacket(c)', NEW i \in DOMAIN v
                   PROVE  SpanOf(c)'.parent[2] < v[i].parent[2]
        BY <3>1 DEF TakenCameBefore, Waiting
      <4>1. c \in Ids(Host(n)) /\ GotPacket(c) /\ SpanOf(c)'.parent = SpanOf(c).parent
        BY DEF GotKept
      <4>2. QED
        BY <3>1, <4>1 DEF OrderInv, TakenCameBefore, Waiting
    <3>4. QED
      BY <2>1, <3>2, <3>3
  <2>4. QED
    BY <2>2, <2>3
<1>12. PacketsTakenInOrder'
  BY DEF OrderInv, PacketsTakenInOrder, GotKept
<1>13. QED
  BY <1>11, <1>12 DEF OrderInv

(* A card changes no span of a host.                                       *)
LEMMA NicKeepsGot ==
  ASSUME KindsInv, NEW m \in Machines, NextNic(m)
  PROVE  GotKept
<1>1. \A n \in Machines : spans'[Host(n)] = spans[Host(n)]
  <2>0. DOMAIN spans = Sources /\ \A n \in Machines : Host(n) \in Sources /\ Host(n) # Nic(m)
    BY SourcesApart DEF KindsInv, SpansInv, Host, Nic
  <2>1. CASE UNCHANGED spans
    BY <2>1
  <2>2. CASE \E sp : spans' = Append1(Nic(m), sp)
    BY <2>0, <2>2 DEF Append1
  <2>3. CASE AddToDma(m)
    <3>1. PICK ds, i, id : /\ ds = nic[m].dmas /\ i = First(Taking(ds, Event(Nic(m))))
                           /\ id = ds[i]
      OBVIOUS
    <3>2. ds \in Seq(SpannerIds) /\ AllOf(ds, Nic(m), "NicDma")
      BY <3>1, NicMembersAre
    <3>3. i \in DOMAIN ds
      BY <2>3, <3>1, <3>2, TakingFirst DEF AddToDma
    <3>4. id[1] = Nic(m)
      BY <3>1, <3>2, <3>3 DEF AllOf, OfKind, Ids
    <3>5. spans' = Update(id, Add(SpanOf(id), Event(Nic(m))))
      BY <2>3, <3>1 DEF AddToDma
    <3>6. QED
      BY <2>0, <3>4, <3>5 DEF Update
  <2>4. QED
    BY <2>1, <2>2, <2>3 DEF NextNic, Mmio, IssueDma, UnexpectedDma, Transmit, Receive, Msix,
                            NicThrows, Throw, SkipNic, Skip
<1>2. QED
  BY <1>1 DEF GotKept, GotPacket, Ids, SpanOf, Host

(* A card keeps the order of the packets.                                  *)
LEMMA NicKeepsOrder ==
  ASSUME KindsInv, OrderInv, NEW m \in Machines, NextNic(m), UNCHANGED host
  PROVE  OrderInv'
<1>1. GotKept
  BY NicKeepsGot
<1>2. CASE Receive(m)
  BY <1>1, <1>2, ReceiveOrder
<1>3. CASE ~Receive(m)
  <2>1. \/ queue' = queue
        \/ Pop(ToNic(m))
        \/ \E con : Push(FromNic(m), con) \/ Push(ToNet(m), con)
    BY <1>3 DEF NextNic, Mmio, IssueDma, AddToDma, UnexpectedDma, Transmit, Msix,
                NicThrows, Throw, SkipNic, Skip
  <2>2. DOMAIN queue = Queues
    BY DEF KindsInv, QueuesInv
  <2>3. WaitingKept
    BY <2>1, <2>2 DEF WaitingKept, Pop, Push, Receives, FromNic, ToNic, ToNet, Queues
  <2>4. CallsKept
    BY DEF CallsKept
  <2>5. QED
    BY <1>1, <2>3, <2>4, OrderKept
<1>4. QED
  BY <1>2, <1>3

(* The simulation sends packets to the cards only.                         *)
LEMMA SimulationKeepsOrder ==
  ASSUME KindsInv, OrderInv, (\E o \in Operations : Simulate(o)) \/ BeginLogs \/ EndLogs
  PROVE  OrderInv'
<1>1. UNCHANGED host
  BY DEF Simulate, BeginLogs, EndLogs
<1>2. CallsKept
  BY <1>1 DEF CallsKept
<1>3. DOMAIN queue = Queues /\ DOMAIN spans = Sources
  BY DEF KindsInv, QueuesInv, SpansInv
<1>4. \A n \in Machines : /\ spans'[Host(n)] = spans[Host(n)]
                          /\ queue'[Receives(n)] \in {queue[Receives(n)], <<>>}
  <2>1. CASE BeginLogs \/ EndLogs
    BY <2>1 DEF BeginLogs, EndLogs, Receives, Queues
  <2>2. ASSUME NEW o \in Operations, Simulate(o)
        PROVE  \A n \in Machines : /\ spans'[Host(n)] = spans[Host(n)]
                                   /\ queue'[Receives(n)] \in {queue[Receives(n)], <<>>}
    <3>1. PICK m, step : FromNetwork(m, o, step)
      BY <2>2 DEF Simulate
    <3>2. CASE IsReceive(step)
      <4>1. \E sp, con : spans' = Append1(Net(m), sp) /\ Push(FromNet(m), con)
        BY <3>1, <3>2 DEF FromNetwork
      <4>2. QED
        <5>1. \A n \in Machines : Host(n) # Net(m) /\ Receives(n) # FromNet(m)
          BY DEF Host, Net, Receives, FromNet
        <5>2. \A n \in Machines : Host(n) \in Sources /\ Receives(n) \in Queues
          BY SourcesApart DEF Receives, Queues
        <5>3. QED
          BY <1>3, <4>1, <5>1, <5>2 DEF Append1, Push
    <3>3. CASE ~IsReceive(step)
      BY <3>1, <3>3 DEF FromNetwork
    <3>4. QED
      BY <3>2, <3>3
  <2>3. QED
    BY <2>1, <2>2
<1>5. GotKept
  BY <1>4 DEF GotKept, GotPacket, Ids, SpanOf, Host
<1>6. WaitingKept
  BY <1>4 DEF WaitingKept
<1>7. QED
  BY <1>2, <1>5, <1>6, OrderKept

(* No packet came in the beginning.                                        *)
LEMMA OrderInit == Init => OrderInv
<1> SUFFICES ASSUME Init PROVE OrderInv
  OBVIOUS
<1>1. \A m \in Machines : Ids(Host(m)) = {}
  BY SourcesApart DEF Init, InitSpanner, Ids
<1>2. \A m \in Machines : Waiting(m) = <<>>
  BY DEF Init, Waiting, Receives, Queues
<1>3. QED
  BY <1>1, <1>2 DEF OrderInv, WaitingInOrder, TakenCameBefore, CallIsLast, PacketsTakenInOrder

(* Every step keeps the order.                                             *)
LEMMA OrderNext == MInv /\ [Next]_vars => OrderInv'
<1> SUFFICES ASSUME KindsInv, OrderInv, [Next]_vars PROVE OrderInv'
  BY DEF MInv
<1>1. CASE (\E o \in Operations : Simulate(o)) \/ BeginLogs \/ EndLogs
  BY <1>1, SimulationKeepsOrder
<1>2. CASE \E m \in Machines : TraceHost(m)
  BY <1>2, ReceiveContextOrder, CopyContextOrder, HostKeepsOrder DEF TraceHost
<1>3. CASE \E m \in Machines : TraceNic(m)
  BY <1>3, NicKeepsOrder DEF TraceNic
<1>4. CASE UNCHANGED vars
  <2>1. GotKept
    BY <1>4, SpansUnchanged DEF vars
  <2>2. CallsKept /\ WaitingKept
    BY <1>4 DEF vars, CallsKept, WaitingKept
  <2>3. QED
    BY <2>1, <2>2, OrderKept
<1>5. QED
  BY <1>1, <1>2, <1>3, <1>4 DEF Next

(* The inductive invariant of the spanners of host and card.               *)
THEOREM MachineInvariance == Spec => []MInv
<1>1. Init => MInv
  BY KindsInit, OrderInit DEF MInv
<1>2. MInv /\ [Next]_vars => MInv'
  BY KindsNext, OrderNext DEF MInv
<1>3. QED
  BY <1>1, <1>2, PTL DEF Spec

(* System calls get the packets in the order in which HandelTxrx of the    *)
(* card received them, each packet once, although FinishPendingSpan copies *)
(* the span of a call for every packet that arrived before it.             *)
THEOREM TakenInOrder == Spec => []PacketsTakenInOrder
<1>1. MInv => PacketsTakenInOrder
  BY DEF MInv, OrderInv
<1>2. QED
  BY <1>1, MachineInvariance, PTL

--------------------------------------------------------------------------------
(* What MachineParentProofs needs of sequences, logs and members.         *)


(* What one side has sent, s, and what the other one is due to take, r, are *)
(* in the same order: r is the first part of s.  Both are numbered with gaps. *)
InStep(s, r) ==
  /\ \A t, u \in DOMAIN s : s[t] = s[u] => t = u
  /\ \A i, j \in DOMAIN r : r[i] = r[j] => i = j
  /\ \A i \in DOMAIN r : \E t \in DOMAIN s : s[t] = r[i]
  /\ \A t, u \in DOMAIN s : \A j \in DOMAIN r :
       t < u /\ s[u] = r[j] => \E i \in DOMAIN r : i < j /\ s[t] = r[i]

(* The first that is taken is the first that was sent.                     *)
LEMMA FirstsMeet ==
  ASSUME NEW s, NEW r, DOMAIN s \subseteq Nat, DOMAIN r \subseteq Nat, InStep(s, r),
         NEW t \in DOMAIN s, \A u \in DOMAIN s : t <= u,
         NEW i \in DOMAIN r, \A j \in DOMAIN r : i <= j
  PROVE  s[t] = r[i]
<1>1. PICK u \in DOMAIN s : s[u] = r[i]
  BY DEF InStep
<1>2. t = u \/ t < u
  BY <1>1
<1>3. ~(t < u)
  <2> SUFFICES ASSUME t < u PROVE FALSE
    OBVIOUS
  <2>1. PICK j \in DOMAIN r : j < i /\ s[t] = r[j]
    BY <1>1 DEF InStep
  <2>2. QED
    BY <2>1
<1>4. QED
  BY <1>1, <1>2, <1>3

(* f is g with other numbers, n of the old ones, but for those in D.       *)
Renumbers(n, f, g, D) ==
  /\ \A t \in DOMAIN f : n[t] \in DOMAIN g \ D /\ f[t] = g[n[t]]
  /\ \A t, u \in DOMAIN f : t < u <=> n[t] < n[u]
  /\ \A t \in DOMAIN g \ D : \E u \in DOMAIN f : n[u] = t

(* Numbers do not matter, and what is sent and taken can be forgotten.     *)
LEMMA InStepKept ==
  ASSUME NEW s, NEW r, NEW s2, NEW r2, NEW n, NEW k, NEW D, NEW E,
         DOMAIN s \subseteq Nat, DOMAIN r \subseteq Nat,
         DOMAIN s2 \subseteq Nat, DOMAIN r2 \subseteq Nat,
         InStep(s, r), Renumbers(n, s2, s, D), Renumbers(k, r2, r, E),
         \A t \in DOMAIN s : \A i \in DOMAIN r : s[t] = r[i] => (t \in D <=> i \in E)
  PROVE  InStep(s2, r2)
<1>1. ASSUME NEW t \in DOMAIN s2, NEW u \in DOMAIN s2, s2[t] = s2[u] PROVE t = u
  <2>1. n[t] = n[u] /\ n[t] \in Nat
    BY <1>1 DEF InStep, Renumbers
  <2>2. ~(t < u) /\ ~(u < t)
    BY <2>1 DEF Renumbers
  <2>3. QED
    BY <2>2
<1>2. ASSUME NEW i \in DOMAIN r2, NEW j \in DOMAIN r2, r2[i] = r2[j] PROVE i = j
  <2>1. k[i] = k[j] /\ k[i] \in Nat
    BY <1>2 DEF InStep, Renumbers
  <2>2. ~(i < j) /\ ~(j < i)
    BY <2>1 DEF Renumbers
  <2>3. QED
    BY <2>2
<1>3. ASSUME NEW i \in DOMAIN r2 PROVE \E t \in DOMAIN s2 : s2[t] = r2[i]
  <2>1. k[i] \in DOMAIN r \ E /\ r2[i] = r[k[i]]
    BY DEF Renumbers
  <2>2. PICK u \in DOMAIN s : s[u] = r[k[i]]
    BY <2>1 DEF InStep
  <2>3. u \notin D
    BY <2>1, <2>2
  <2>4. PICK t \in DOMAIN s2 : n[t] = u
    BY <2>3 DEF Renumbers
  <2>5. s2[t] = s[u]
    BY <2>4 DEF Renumbers
  <2>6. QED
    BY <2>1, <2>2, <2>5
<1>4. ASSUME NEW t \in DOMAIN s2, NEW u \in DOMAIN s2, NEW j \in DOMAIN r2,
             t < u, s2[u] = r2[j]
      PROVE  \E i \in DOMAIN r2 : i < j /\ s2[t] = r2[i]
  <2>1. /\ n[t] \in DOMAIN s \ D /\ s2[t] = s[n[t]]
        /\ n[u] \in DOMAIN s \ D /\ s2[u] = s[n[u]]
        /\ n[t] < n[u]
        /\ k[j] \in DOMAIN r \ E /\ r2[j] = r[k[j]]
    BY <1>4 DEF Renumbers
  <2>2. PICK i \in DOMAIN r : i < k[j] /\ s[n[t]] = r[i]
    <3>1. PICK a \in DOMAIN s, b \in DOMAIN s, c \in DOMAIN r :
            a = n[t] /\ b = n[u] /\ c = k[j]
      BY <2>1
    <3>2. a < b /\ s[b] = r[c]
      BY <1>4, <2>1, <3>1
    <3>3. \E i \in DOMAIN r : i < c /\ s[a] = r[i]
      BY <3>2 DEF InStep
    <3>4. QED
      BY <3>1, <3>3
  <2>3. i \notin E
    BY <2>1, <2>2
  <2>4. PICK l \in DOMAIN r2 : k[l] = i
    BY <2>3 DEF Renumbers
  <2>5. l < j /\ r2[l] = r[i]
    BY <2>2, <2>4 DEF Renumbers
  <2>6. QED
    BY <2>1, <2>2, <2>5
<1>5. QED
  BY <1>1, <1>2, <1>3, <1>4 DEF InStep

(* The numbers stay.                                                       *)
LEMMA NumbersStay ==
  ASSUME NEW f
  PROVE  Renumbers([t \in DOMAIN f |-> t], f, f, {})
BY DEF Renumbers

(* Ids that are used one after the other: F has the uses that are open, by *)
(* span, and L is the log of what will open, types A, and close, types C.  *)
UseOf(e) == <<e.op, e.id>>
InTurn(F, L, A, C) ==
  /\ \A i \in DOMAIN L : L[i].type \in C =>
       \/ \E x \in DOMAIN F : F[x] = UseOf(L[i])
       \/ \E j \in DOMAIN L : j < i /\ L[j].type \in A /\ UseOf(L[j]) = UseOf(L[i])
  /\ \A i, j \in DOMAIN L :
       L[i].type \in C /\ L[j].type \in C /\ UseOf(L[i]) = UseOf(L[j]) => i = j
  /\ \A x, y \in DOMAIN F : F[x][2] = F[y][2] => x = y
  /\ \A x \in DOMAIN F : \A j \in DOMAIN L : L[j].type \in A /\ L[j].id = F[x][2] =>
       \E k \in DOMAIN L : k < j /\ L[k].type \in C /\ UseOf(L[k]) = F[x]
  /\ \A i, j \in DOMAIN L : i < j /\ L[i].type \in A /\ L[j].type \in A /\ L[i].id = L[j].id =>
       \E k \in DOMAIN L : i < k /\ k < j /\ L[k].type \in C /\ UseOf(L[k]) = UseOf(L[i])

(* Positions in a log after its first event was taken.                     *)
LEMMA TakenPositions ==
  ASSUME NEW L, NEW L2, Taken(L2, L)
  PROVE  /\ 1 \in DOMAIN L /\ DOMAIN L \subseteq Nat /\ \A i \in DOMAIN L : i > 0
         /\ \A i \in DOMAIN L2 : i + 1 \in DOMAIN L /\ L2[i] = L[i + 1]
         /\ \A i \in DOMAIN L : i # 1 => i - 1 \in DOMAIN L2 /\ L2[i - 1] = L[i]
         /\ \A i, j \in Nat : (i < j <=> i - 1 < j - 1) /\ (i < j <=> i + 1 < j + 1)
         /\ \A i \in Nat : (i + 1) - 1 = i /\ (i - 1) + 1 = i
<1>1. /\ Len(L) \in Nat \ {0} /\ DOMAIN L = 1 .. Len(L) /\ DOMAIN L2 = 1 .. Len(L) - 1
      /\ \A i \in DOMAIN L2 : L2[i] = L[i + 1]
  BY DEF Taken
<1>2. \A i \in DOMAIN L : i # 1 => i - 1 \in DOMAIN L2 /\ L2[i - 1] = L[i]
  <2> SUFFICES ASSUME NEW i \in DOMAIN L, i # 1 PROVE i - 1 \in DOMAIN L2 /\ L2[i - 1] = L[i]
    OBVIOUS
  <2>1. i - 1 \in DOMAIN L2 /\ (i - 1) + 1 = i
    BY <1>1
  <2>2. QED
    BY <1>1, <2>1
<1>3. 1 \in DOMAIN L /\ DOMAIN L \subseteq Nat /\ \A i \in DOMAIN L : i > 0
  BY <1>1
<1>4. \A i \in DOMAIN L2 : i + 1 \in DOMAIN L /\ L2[i] = L[i + 1]
  BY <1>1
<1>5. QED
  BY <1>2, <1>3, <1>4

(* What is still true of the events behind the first one.                  *)
LEMMA TurnsBehind ==
  ASSUME NEW F, NEW L, NEW A, NEW C, InTurn(F, L, A, C), NEW L2, Taken(L2, L)
  PROVE  /\ \A i, j \in DOMAIN L2 :
              L2[i].type \in C /\ L2[j].type \in C /\ UseOf(L2[i]) = UseOf(L2[j]) => i = j
         /\ \A i, j \in DOMAIN L2 :
              i < j /\ L2[i].type \in A /\ L2[j].type \in A /\ L2[i].id = L2[j].id =>
              \E k \in DOMAIN L2 :
                i < k /\ k < j /\ L2[k].type \in C /\ UseOf(L2[k]) = UseOf(L2[i])
         /\ \A i \in DOMAIN L2 : L2[i].type \in C =>
              \/ \E x \in DOMAIN F : F[x] = UseOf(L2[i])
              \/ L[1].type \in A /\ UseOf(L[1]) = UseOf(L2[i])
              \/ \E j \in DOMAIN L2 : j < i /\ L2[j].type \in A /\ UseOf(L2[j]) = UseOf(L2[i])
         /\ \A x \in DOMAIN F : \A j \in DOMAIN L2 : L2[j].type \in A /\ L2[j].id = F[x][2] =>
              \/ L[1].type \in C /\ UseOf(L[1]) = F[x]
              \/ \E k \in DOMAIN L2 : k < j /\ L2[k].type \in C /\ UseOf(L2[k]) = F[x]
<1>1. /\ 1 \in DOMAIN L /\ DOMAIN L \subseteq Nat /\ \A i \in DOMAIN L : i > 0
      /\ \A i \in DOMAIN L2 : i + 1 \in DOMAIN L /\ L2[i] = L[i + 1]
      /\ \A i \in DOMAIN L : i # 1 => i - 1 \in DOMAIN L2 /\ L2[i - 1] = L[i]
  BY TakenPositions
<1>2. DOMAIN L2 \subseteq Nat
  BY DEF Taken
<1>3. ASSUME NEW i \in DOMAIN L2, NEW j \in DOMAIN L2,
             L2[i].type \in C, L2[j].type \in C, UseOf(L2[i]) = UseOf(L2[j])
      PROVE  i = j
  <2>1. PICK a \in DOMAIN L, b \in DOMAIN L :
          a = i + 1 /\ b = j + 1 /\ L2[i] = L[a] /\ L2[j] = L[b]
    BY <1>1
  <2>2. a = b
    BY <1>3, <2>1 DEF InTurn
  <2>3. QED
    BY <1>2, <2>1, <2>2
<1>4. ASSUME NEW i \in DOMAIN L2, NEW j \in DOMAIN L2, i < j,
             L2[i].type \in A, L2[j].type \in A, L2[i].id = L2[j].id
      PROVE  \E k \in DOMAIN L2 :
               i < k /\ k < j /\ L2[k].type \in C /\ UseOf(L2[k]) = UseOf(L2[i])
  <2>1. PICK a \in DOMAIN L, b \in DOMAIN L :
          a = i + 1 /\ b = j + 1 /\ L2[i] = L[a] /\ L2[j] = L[b]
    BY <1>1
  <2>2. a < b
    BY <1>2, <1>4, <2>1
  <2>3. PICK c \in DOMAIN L : a < c /\ c < b /\ L[c].type \in C /\ UseOf(L[c]) = UseOf(L[a])
    BY <1>4, <2>1, <2>2 DEF InTurn
  <2>4. c # 1 /\ c \in Nat /\ i \in Nat /\ j \in Nat
    BY <1>1, <1>2, <2>1, <2>3
  <2>5. c - 1 \in DOMAIN L2 /\ L2[c - 1] = L[c] /\ i < c - 1 /\ c - 1 < j
    BY <1>1, <2>1, <2>3, <2>4
  <2>6. QED
    BY <2>1, <2>3, <2>5
<1>5. ASSUME NEW i \in DOMAIN L2, L2[i].type \in C
      PROVE  \/ \E x \in DOMAIN F : F[x] = UseOf(L2[i])
             \/ L[1].type \in A /\ UseOf(L[1]) = UseOf(L2[i])
             \/ \E j \in DOMAIN L2 : j < i /\ L2[j].type \in A /\ UseOf(L2[j]) = UseOf(L2[i])
  <2>1. PICK a \in DOMAIN L : a = i + 1 /\ L2[i] = L[a]
    BY <1>1
  <2>2. CASE \E x \in DOMAIN F : F[x] = UseOf(L[a])
    BY <2>1, <2>2
  <2>3. CASE \E j \in DOMAIN L : j < a /\ L[j].type \in A /\ UseOf(L[j]) = UseOf(L[a])
    <3>1. PICK j \in DOMAIN L : j < a /\ L[j].type \in A /\ UseOf(L[j]) = UseOf(L[a])
      BY <2>3
    <3>2. CASE j = 1
      BY <2>1, <3>1, <3>2
    <3>3. CASE j # 1
      <4>1. j \in Nat /\ i \in Nat
        BY <1>1, <1>2
      <4>2. j - 1 \in DOMAIN L2 /\ L2[j - 1] = L[j] /\ j - 1 < i
        BY <1>1, <2>1, <3>1, <3>3, <4>1
      <4>3. QED
        BY <2>1, <3>1, <4>2
    <3>4. QED
      BY <3>2, <3>3
  <2>4. QED
    BY <1>5, <2>1, <2>2, <2>3 DEF InTurn
<1>6. ASSUME NEW x \in DOMAIN F, NEW j \in DOMAIN L2, L2[j].type \in A, L2[j].id = F[x][2]
      PROVE  \/ L[1].type \in C /\ UseOf(L[1]) = F[x]
             \/ \E k \in DOMAIN L2 : k < j /\ L2[k].type \in C /\ UseOf(L2[k]) = F[x]
  <2>1. PICK b \in DOMAIN L : b = j + 1 /\ L2[j] = L[b]
    BY <1>1
  <2>2. PICK k \in DOMAIN L : k < b /\ L[k].type \in C /\ UseOf(L[k]) = F[x]
    BY <1>6, <2>1 DEF InTurn
  <2>3. CASE k = 1
    BY <2>2, <2>3
  <2>4. CASE k # 1
    <3>1. k \in Nat /\ j \in Nat
      BY <1>1, <1>2
    <3>2. k - 1 \in DOMAIN L2 /\ L2[k - 1] = L[k] /\ k - 1 < j
      BY <1>1, <2>1, <2>2, <2>4, <3>1
    <3>3. QED
      BY <2>2, <3>2
  <2>5. QED
    BY <2>3, <2>4
<1>7. QED
  BY <1>3, <1>4, <1>5, <1>6

(* The first event is none of the two.                                     *)
LEMMA TurnSkips ==
  ASSUME NEW F, NEW L, NEW A, NEW C, InTurn(F, L, A, C), NEW L2, Taken(L2, L),
         L[1].type \notin A \cup C
  PROVE  InTurn(F, L2, A, C)
<1>1. \A x, y \in DOMAIN F : F[x][2] = F[y][2] => x = y
  BY DEF InTurn
<1>2. \A i, j \in DOMAIN L2 :
        L2[i].type \in C /\ L2[j].type \in C /\ UseOf(L2[i]) = UseOf(L2[j]) => i = j
  BY TurnsBehind
<1>3. \A i, j \in DOMAIN L2 :
        i < j /\ L2[i].type \in A /\ L2[j].type \in A /\ L2[i].id = L2[j].id =>
        \E k \in DOMAIN L2 :
          i < k /\ k < j /\ L2[k].type \in C /\ UseOf(L2[k]) = UseOf(L2[i])
  BY TurnsBehind
<1>4. \A i \in DOMAIN L2 : L2[i].type \in C =>
        \/ \E x \in DOMAIN F : F[x] = UseOf(L2[i])
        \/ \E j \in DOMAIN L2 : j < i /\ L2[j].type \in A /\ UseOf(L2[j]) = UseOf(L2[i])
  BY TurnsBehind
<1>5. \A x \in DOMAIN F : \A j \in DOMAIN L2 : L2[j].type \in A /\ L2[j].id = F[x][2] =>
        \E k \in DOMAIN L2 : k < j /\ L2[k].type \in C /\ UseOf(L2[k]) = F[x]
  BY TurnsBehind
<1>6. QED
  BY <1>1, <1>2, <1>3, <1>4, <1>5 DEF InTurn

(* F2 has the uses of F, and that of x, u, too.                            *)
With(F2, F, x, u) ==
  /\ DOMAIN F2 = DOMAIN F \cup {x} /\ x \notin DOMAIN F /\ F2[x] = u
  /\ \A y \in DOMAIN F : F2[y] = F[y]

(* The first event opens a use: its id is not in use.                      *)
LEMMA TurnOpens ==
  ASSUME NEW F, NEW L, NEW A, NEW C, InTurn(F, L, A, C), NEW L2, Taken(L2, L),
         L[1].type \in A, L[1].type \notin C
  PROVE  /\ \A y \in DOMAIN F : F[y][2] # L[1].id
         /\ \A F2, x : With(F2, F, x, UseOf(L[1])) => InTurn(F2, L2, A, C)
<1>1. /\ 1 \in DOMAIN L /\ DOMAIN L \subseteq Nat /\ \A i \in DOMAIN L : i > 0
      /\ \A i \in DOMAIN L2 : i + 1 \in DOMAIN L /\ L2[i] = L[i + 1]
      /\ \A i \in DOMAIN L : i # 1 => i - 1 \in DOMAIN L2 /\ L2[i - 1] = L[i]
  BY TakenPositions
<1>2. ASSUME NEW y \in DOMAIN F PROVE F[y][2] # L[1].id
  <2> SUFFICES ASSUME F[y][2] = L[1].id PROVE FALSE
    OBVIOUS
  <2>1. PICK k \in DOMAIN L : k < 1
    BY <1>1 DEF InTurn
  <2>2. QED
    BY <1>1, <2>1
<1>3. ASSUME NEW F2, NEW x, With(F2, F, x, UseOf(L[1])) PROVE InTurn(F2, L2, A, C)
  <2>1. /\ DOMAIN F2 = DOMAIN F \cup {x} /\ x \notin DOMAIN F /\ F2[x] = UseOf(L[1])
        /\ \A y \in DOMAIN F : F2[y] = F[y]
        /\ F2[x][2] = L[1].id
    BY <1>3 DEF With, UseOf
  <2>2. \A y, z \in DOMAIN F2 : F2[y][2] = F2[z][2] => y = z
    <3>1. \A y, z \in DOMAIN F : F[y][2] = F[z][2] => y = z
      BY DEF InTurn
    <3>2. QED
      BY <1>2, <2>1, <3>1
  <2>3. \A i, j \in DOMAIN L2 :
          L2[i].type \in C /\ L2[j].type \in C /\ UseOf(L2[i]) = UseOf(L2[j]) => i = j
    BY TurnsBehind
  <2>4. \A i, j \in DOMAIN L2 :
          i < j /\ L2[i].type \in A /\ L2[j].type \in A /\ L2[i].id = L2[j].id =>
          \E k \in DOMAIN L2 :
            i < k /\ k < j /\ L2[k].type \in C /\ UseOf(L2[k]) = UseOf(L2[i])
    BY TurnsBehind
  <2>5. \A i \in DOMAIN L2 : L2[i].type \in C =>
          \/ \E y \in DOMAIN F2 : F2[y] = UseOf(L2[i])
          \/ \E j \in DOMAIN L2 : j < i /\ L2[j].type \in A /\ UseOf(L2[j]) = UseOf(L2[i])
    <3>1. \A i \in DOMAIN L2 : L2[i].type \in C =>
            \/ \E y \in DOMAIN F : F[y] = UseOf(L2[i])
            \/ L[1].type \in A /\ UseOf(L[1]) = UseOf(L2[i])
            \/ \E j \in DOMAIN L2 : j < i /\ L2[j].type \in A /\ UseOf(L2[j]) = UseOf(L2[i])
      BY TurnsBehind
    <3>2. QED
      BY <2>1, <3>1
  <2>6. ASSUME NEW y \in DOMAIN F2, NEW j \in DOMAIN L2, L2[j].type \in A, L2[j].id = F2[y][2]
        PROVE  \E k \in DOMAIN L2 : k < j /\ L2[k].type \in C /\ UseOf(L2[k]) = F2[y]
    <3>1. CASE y = x
      <4>1. PICK b \in DOMAIN L : b = j + 1 /\ L2[j] = L[b] /\ 1 < b
        BY <1>1 DEF Taken
      <4>2. L[1].id = L[b].id
        BY <2>1, <2>6, <3>1, <4>1
      <4>3. PICK k \in DOMAIN L : 1 < k /\ k < b /\ L[k].type \in C /\ UseOf(L[k]) = UseOf(L[1])
        BY <1>1, <2>6, <4>1, <4>2 DEF InTurn
      <4>4. k # 1 /\ k \in Nat /\ j \in Nat
        BY <1>1, <4>3 DEF Taken
      <4>5. k - 1 \in DOMAIN L2 /\ L2[k - 1] = L[k] /\ k - 1 < j
        BY <1>1, <4>1, <4>3, <4>4
      <4>6. QED
        BY <2>1, <3>1, <4>3, <4>5
    <3>2. CASE y # x
      <4>1. y \in DOMAIN F /\ F2[y] = F[y]
        BY <2>1, <3>2
      <4>2. \A z \in DOMAIN F : \A l \in DOMAIN L2 : L2[l].type \in A /\ L2[l].id = F[z][2] =>
              \/ L[1].type \in C /\ UseOf(L[1]) = F[z]
              \/ \E k \in DOMAIN L2 : k < l /\ L2[k].type \in C /\ UseOf(L2[k]) = F[z]
        BY TurnsBehind
      <4>3. QED
        BY <2>6, <4>1, <4>2
    <3>3. QED
      BY <3>1, <3>2
  <2>7. QED
    BY <2>2, <2>3, <2>4, <2>5, <2>6 DEF InTurn
<1>4. QED
  BY <1>2, <1>3

(* The first event closes a use: it is open, and no other one of that id.  *)
LEMMA TurnCloses ==
  ASSUME NEW F, NEW L, NEW A, NEW C, InTurn(F, L, A, C), NEW L2, Taken(L2, L),
         L[1].type \in C, L[1].type \notin A
  PROVE  \E x \in DOMAIN F :
           /\ F[x] = UseOf(L[1]) /\ \A y \in DOMAIN F : F[y][2] = L[1].id => y = x
           /\ \A F2 : With(F, F2, x, UseOf(L[1])) => InTurn(F2, L2, A, C)
<1>1. /\ 1 \in DOMAIN L /\ DOMAIN L \subseteq Nat /\ \A i \in DOMAIN L : i > 0
      /\ \A i \in DOMAIN L2 : i + 1 \in DOMAIN L /\ L2[i] = L[i + 1]
  BY TakenPositions
<1>2. PICK x \in DOMAIN F : F[x] = UseOf(L[1])
  <2>1. \/ \E x \in DOMAIN F : F[x] = UseOf(L[1])
        \/ \E j \in DOMAIN L : j < 1 /\ L[j].type \in A /\ UseOf(L[j]) = UseOf(L[1])
    BY <1>1 DEF InTurn
  <2>2. \A j \in DOMAIN L : ~(j < 1)
    BY <1>1
  <2>3. QED
    BY <2>1, <2>2
<1>3. \A y \in DOMAIN F : F[y][2] = L[1].id => y = x
  <2>1. F[x][2] = L[1].id
    BY <1>2 DEF UseOf
  <2>2. QED
    BY <2>1 DEF InTurn
<1>4. ASSUME NEW F2, With(F, F2, x, UseOf(L[1])) PROVE InTurn(F2, L2, A, C)
  <2>1. /\ DOMAIN F = DOMAIN F2 \cup {x} /\ x \notin DOMAIN F2
        /\ \A y \in DOMAIN F2 : F[y] = F2[y]
    BY <1>4 DEF With
  <2>2. \A y, z \in DOMAIN F2 : F2[y][2] = F2[z][2] => y = z
    <3>1. \A y, z \in DOMAIN F : F[y][2] = F[z][2] => y = z
      BY DEF InTurn
    <3>2. QED
      BY <2>1, <3>1
  <2>3. \A i, j \in DOMAIN L2 :
          L2[i].type \in C /\ L2[j].type \in C /\ UseOf(L2[i]) = UseOf(L2[j]) => i = j
    BY TurnsBehind
  <2>4. \A i, j \in DOMAIN L2 :
          i < j /\ L2[i].type \in A /\ L2[j].type \in A /\ L2[i].id = L2[j].id =>
          \E k \in DOMAIN L2 :
            i < k /\ k < j /\ L2[k].type \in C /\ UseOf(L2[k]) = UseOf(L2[i])
    BY TurnsBehind
  <2>5. ASSUME NEW i \in DOMAIN L2, L2[i].type \in C
        PROVE  \/ \E y \in DOMAIN F2 : F2[y] = UseOf(L2[i])
               \/ \E j \in DOMAIN L2 : j < i /\ L2[j].type \in A /\ UseOf(L2[j]) = UseOf(L2[i])
    <3>1. \/ \E y \in DOMAIN F : F[y] = UseOf(L2[i])
          \/ \E j \in DOMAIN L2 : j < i /\ L2[j].type \in A /\ UseOf(L2[j]) = UseOf(L2[i])
      BY <2>5, TurnsBehind
    <3>2. F[x] # UseOf(L2[i])
      <4> SUFFICES ASSUME F[x] = UseOf(L2[i]) PROVE FALSE
        OBVIOUS
      <4>1. PICK a \in DOMAIN L : a = i + 1 /\ L2[i] = L[a]
        BY <1>1
      <4>2. a = 1
        <5>1. \A u, v \in DOMAIN L :
                L[u].type \in C /\ L[v].type \in C /\ UseOf(L[u]) = UseOf(L[v]) => u = v
          BY DEF InTurn
        <5>2. 1 \in DOMAIN L /\ L[a].type \in C /\ UseOf(L[a]) = UseOf(L[1])
          BY <1>1, <1>2, <2>5, <4>1
        <5>3. QED
          BY <5>1, <5>2, Zenon
      <4>3. i \in Nat /\ i > 0
        BY DEF Taken
      <4>4. QED
        BY <4>1, <4>2, <4>3
    <3>3. QED
      BY <2>1, <3>1, <3>2
  <2>6. ASSUME NEW y \in DOMAIN F2, NEW j \in DOMAIN L2, L2[j].type \in A, L2[j].id = F2[y][2]
        PROVE  \E k \in DOMAIN L2 : k < j /\ L2[k].type \in C /\ UseOf(L2[k]) = F2[y]
    <3>1. y \in DOMAIN F /\ F2[y] = F[y] /\ y # x
      BY <2>1
    <3>2. UseOf(L[1]) # F[y]
      BY <1>3, <3>1 DEF UseOf
    <3>3. \A z \in DOMAIN F : \A l \in DOMAIN L2 : L2[l].type \in A /\ L2[l].id = F[z][2] =>
            \/ L[1].type \in C /\ UseOf(L[1]) = F[z]
            \/ \E k \in DOMAIN L2 : k < l /\ L2[k].type \in C /\ UseOf(L2[k]) = F[z]
      BY TurnsBehind
    <3>4. QED
      BY <2>6, <3>1, <3>2, <3>3
  <2>7. QED
    BY <2>2, <2>3, <2>4, <2>5, <2>6 DEF InTurn
<1>5. QED
  BY <1>2, <1>3, <1>4

(* What is in a list.                                                      *)
Listing(ids) == {ids[i] : i \in DOMAIN ids}

(* What is in a list that one span left.                                   *)
LEMMA ListLoses ==
  ASSUME NEW S, NEW ids \in Seq(S), NEW i \in DOMAIN ids, Distinct(ids), NEW t, t = Without(ids, i)
  PROVE  Listing(t) = Listing(ids) \ {ids[i]}
<1>1. /\ \A j \in DOMAIN t : \E k \in DOMAIN ids : k # i /\ t[j] = ids[k]
      /\ \A j \in DOMAIN t : t[j] # ids[i]
  BY ListShrinks
<1>2. /\ DOMAIN t = 1 .. Len(ids) - 1
      /\ \A j \in 1 .. Len(ids) - 1 : t[j] = IF j < i THEN ids[j] ELSE ids[j + 1]
  BY WithoutOne
<1>3. i \in 1 .. Len(ids) /\ Len(ids) \in Nat /\ DOMAIN ids = 1 .. Len(ids)
  OBVIOUS
<1>4. ASSUME NEW k \in DOMAIN ids, k # i PROVE \E j \in DOMAIN t : t[j] = ids[k]
  <2>1. CASE k < i
    BY <1>2, <1>3, <2>1
  <2>2. CASE ~(k < i)
    <3>1. k - 1 \in 1 .. Len(ids) - 1 /\ ~(k - 1 < i) /\ (k - 1) + 1 = k
      BY <1>3, <1>4, <2>2
    <3>2. t[k - 1] = ids[k]
      BY <1>2, <3>1
    <3>3. QED
      BY <1>2, <3>1, <3>2
  <2>3. QED
    BY <2>1, <2>2
<1>5. QED
  BY <1>1, <1>4 DEF Listing

(* What is in a list that one span joined.                                 *)
LEMMA ListGains ==
  ASSUME NEW S, NEW ids \in Seq(S), NEW id, NEW t, t = Append(ids, id)
  PROVE  Listing(t) = Listing(ids) \cup {id}
<1>1. Extended(t, ids, id)
  BY Appending DEF Sequence
<1>2. /\ Len(ids) \in Nat /\ DOMAIN ids = 1 .. Len(ids) /\ DOMAIN t = 1 .. Len(ids) + 1
      /\ t[Len(ids) + 1] = id /\ \A i \in DOMAIN ids : t[i] = ids[i]
  BY <1>1 DEF Extended
<1>3. Len(ids) + 1 \in DOMAIN t /\ DOMAIN ids \subseteq DOMAIN t
  BY <1>2
<1>4. \A j \in DOMAIN t : j \in DOMAIN ids \/ j = Len(ids) + 1
  BY <1>2
<1>5. QED
  BY <1>2, <1>3, <1>4 DEF Listing

(* What Add does.                                                          *)
LEMMA AddIs ==
  ASSUME NEW sp, DOMAIN sp = SpanFields, Sequence(sp.events), 1 \in DOMAIN sp.events, NEW e,
         NEW t, t = Add(sp, e)
  PROVE  /\ DOMAIN t = SpanFields /\ t.kind = sp.kind /\ t.parent = sp.parent
         /\ t.pending = ~Completes(sp.kind, e)
         /\ Extended(t.events, sp.events, e)
         /\ Sequence(t.events) /\ 1 \in DOMAIN t.events /\ t.events[1] = sp.events[1]
<1>1. PICK es, es2 : es = sp.events /\ es2 = Append(es, e)
  OBVIOUS
<1>2. t = [sp EXCEPT !.events = es2, !.pending = ~Completes(sp.kind, e)]
  BY <1>1 DEF Add
<1>3. t.events = es2 /\ t.pending = ~Completes(sp.kind, e)
  BY <1>2 DEF SpanFields
<1>4. DOMAIN t = SpanFields /\ t.kind = sp.kind /\ t.parent = sp.parent
  BY AddKeeps
<1>5. Extended(es2, es, e)
  BY <1>1, Appending
<1>6. Sequence(es2) /\ 1 \in DOMAIN es2 /\ es2[1] = es[1]
  <2>1. /\ Sequence(es2) /\ Len(es) \in Nat /\ DOMAIN es = 1 .. Len(es)
        /\ DOMAIN es2 = 1 .. Len(es) + 1 /\ \A i \in DOMAIN es : es2[i] = es[i]
    BY <1>5 DEF Extended
  <2>2. QED
    BY <1>1, <2>1
<1>7. QED
  BY <1>1, <1>3, <1>4, <1>5, <1>6

(* A new span has one event.                                               *)
LEMMA NewSpanHas ==
  ASSUME NEW kind, NEW parent, NEW e, NEW sp, sp = NewSpan(kind, parent, e)
  PROVE  /\ sp.events = <<e>> /\ sp.pending = ~Completes(kind, e)
         /\ Sequence(sp.events) /\ 1 \in DOMAIN sp.events /\ sp.events[1] = e
<1>1. PICK c : c = Completes(kind, e)
  OBVIOUS
<1>2. sp = [kind |-> kind, events |-> Append(<<>>, e), pending |-> ~c, parent |-> parent]
  BY <1>1 DEF NewSpan, Add
<1>3. sp.events = <<e>> /\ sp.pending = ~c
  <2>1. sp.events = Append(<<>>, e) /\ sp.pending = ~c
    BY <1>2
  <2>2. Append(<<>>, e) = <<e>>
    OBVIOUS
  <2>3. QED
    BY <2>1, <2>2
<1>4. <<e>> \in Seq({e}) /\ 1 \in DOMAIN <<e>> /\ <<e>>[1] = e
  OBVIOUS
<1>5. QED
  BY <1>1, <1>3, <1>4 DEF Sequence

(* What Refuse does to a system call.                                      *)
LEMMA RefusedCall ==
  ASSUME NEW sp, DOMAIN sp = SpanFields, sp.kind = "HostCall", NEW e, e.type = "HostCall",
         NEW t, t = Refuse(sp, e)
  PROVE  /\ t.events = sp.events /\ ~t.pending /\ t.kind = "HostCall" /\ t.parent = sp.parent
         /\ DOMAIN t = SpanFields
<1>1. t = [sp EXCEPT !.pending = FALSE]
  BY DEF Refuse
<1>2. QED
  BY <1>1 DEF SpanFields

(* The members of host m are h now.                                        *)
HostBecomes(m, h) ==
  /\ host'[m] = h /\ nic' = nic
  /\ \A n \in Machines : n # m => host'[n] = host[n]

(* That they are.                                                          *)
LEMMA HostChanges ==
  ASSUME KindsInv, NEW m \in Machines, NEW h, host' = [host EXCEPT ![m] = h], UNCHANGED nic
  PROVE  HostBecomes(m, h)
BY DEF HostBecomes, KindsInv, HostInv

(* The members of card m are g now.                                        *)
NicBecomes(m, g) ==
  /\ nic'[m] = g /\ host' = host
  /\ \A n \in Machines : n # m => nic'[n] = nic[n]

(* That they are.                                                          *)
LEMMA NicChanges ==
  ASSUME KindsInv, NEW m \in Machines, NEW g, nic' = [nic EXCEPT ![m] = g], UNCHANGED host
  PROVE  NicBecomes(m, g)
BY DEF NicBecomes, KindsInv, NicInv
================================================================================
