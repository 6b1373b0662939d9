--------------------------- MODULE MachineParentProofs ---------------------------
(***************************************************************************)
(* Host and card are in step: for every number of machines and all scripts *)
(* that satisfy InStepAssumption, read from the beginning of the           *)
(* simulation, the spans of one operation on both sides are connected.     *)
(* And each span is made of the events of one operation, if the scripts    *)
(* also satisfy EndsAssumption.                                            *)
(***************************************************************************)
EXTENDS ScriptsInStep, MachineProofs

--------------------------------------------------------------------------------
(* A channel: the tokens Q of its contexts, the log L of the sender, which *)
(* sends at the positions G, and the log K of the receiver, which takes at *)
(* the positions T.                                                        *)
Token(e) == <<e.op, Expects(e)>>
Sent(Q, L, G) ==
  [t \in (1 .. Len(Q)) \cup {Len(Q) + i : i \in G} |->
     IF t <= Len(Q) THEN Q[t] ELSE Token(L[t - Len(Q)])]
Due(K, T) == [i \in T |-> Token(K[i])]
Stream(Q, L, G, K, T) == InStep(Sent(Q, L, G), Due(K, T))

(* The positions G of a log, in what is left of it, log t.                 *)
Moved(G, t) == {i \in DOMAIN t : i + 1 \in G}

(* The values s of Sent, n of them in the channel.                         *)
SentAre(s, n, Q, L, G) ==
  /\ n \in Nat /\ DOMAIN s \subseteq Nat
  /\ \A t \in 1 .. n : t \in DOMAIN s /\ s[t] = Q[t]
  /\ \A i \in G : n + i \in DOMAIN s /\ s[n + i] = Token(L[i])
  /\ \A t \in DOMAIN s : t \in 1 .. n \/ (t \in Nat /\ t > n /\ t - n \in G)

(* That they are.                                                          *)
LEMMA SentIs ==
  ASSUME NEW Q, Sequence(Q), NEW L, NEW G \in SUBSET (Nat \ {0})
  PROVE  SentAre(Sent(Q, L, G), Len(Q), Q, L, G)
<1>1. Len(Q) \in Nat
  BY DEF Sequence
<1>2. PICK n : n = Len(Q)
  OBVIOUS
<1>3. Sent(Q, L, G) = [t \in (1 .. n) \cup {n + i : i \in G} |->
                         IF t <= n THEN Q[t] ELSE Token(L[t - n])]
  BY <1>2 DEF Sent
<1>4. n \in Nat /\ \A i \in G : i \in Nat /\ i > 0
  BY <1>1, <1>2
<1>5. \A t \in (1 .. n) \cup {n + i : i \in G} :
        t \in 1 .. n \/ (t \in Nat /\ t > n /\ t - n \in G)
  BY <1>4
<1>6. \A i \in G : ~(n + i <= n) /\ (n + i) - n = i
  BY <1>4
<1>7. \A i \in G : n + i \in DOMAIN Sent(Q, L, G) /\ Sent(Q, L, G)[n + i] = Token(L[i])
  <2> SUFFICES ASSUME NEW i \in G
               PROVE  n + i \in DOMAIN Sent(Q, L, G) /\ Sent(Q, L, G)[n + i] = Token(L[i])
    OBVIOUS
  <2>1. n + i \in (1 .. n) \cup {n + j : j \in G}
    OBVIOUS
  <2>2. QED
    BY <1>3, <1>6, <2>1
<1>8. \A t \in 1 .. n : t \in DOMAIN Sent(Q, L, G) /\ Sent(Q, L, G)[t] = Q[t]
  BY <1>3, <1>4
<1>9. DOMAIN Sent(Q, L, G) = (1 .. n) \cup {n + i : i \in G}
  BY <1>3
<1>10. QED
  BY <1>2, <1>4, <1>5, <1>7, <1>8, <1>9 DEF SentAre

(* The sender goes on without sending.                                     *)
LEMMA SenderSkips ==
  ASSUME NEW Q, Sequence(Q), NEW L, NEW L2, Taken(L2, L), NEW G \in SUBSET DOMAIN L, 1 \notin G,
         NEW K, NEW T \in SUBSET Nat, Stream(Q, L, G, K, T)
  PROVE  Stream(Q, L2, Moved(G, L2), K, T)
<1>1. /\ Len(L) \in Nat \ {0} /\ DOMAIN L = 1 .. Len(L) /\ DOMAIN L2 = 1 .. Len(L) - 1
      /\ \A i \in DOMAIN L2 : L2[i] = L[i + 1]
  BY DEF Taken
<1>2. PICK n, G2, s, s2 : /\ n = Len(Q) /\ G2 = Moved(G, L2)
                          /\ s = Sent(Q, L, G) /\ s2 = Sent(Q, L2, G2)
  OBVIOUS
<1>3. G2 = {i \in DOMAIN L2 : i + 1 \in G}
  BY <1>2 DEF Moved
<1>4. G \in SUBSET (Nat \ {0}) /\ G2 \in SUBSET (Nat \ {0})
  BY <1>1, <1>3
<1>5. /\ n \in Nat /\ DOMAIN s \subseteq Nat /\ DOMAIN s2 \subseteq Nat
      /\ \A t \in 1 .. n : t \in DOMAIN s /\ s[t] = Q[t] /\ t \in DOMAIN s2 /\ s2[t] = Q[t]
      /\ \A i \in G : n + i \in DOMAIN s /\ s[n + i] = Token(L[i])
      /\ \A i \in G2 : n + i \in DOMAIN s2 /\ s2[n + i] = Token(L2[i])
      /\ \A t \in DOMAIN s : t \in 1 .. n \/ (t \in Nat /\ t > n /\ t - n \in G)
      /\ \A t \in DOMAIN s2 : t \in 1 .. n \/ (t \in Nat /\ t > n /\ t - n \in G2)
  <2>1. /\ n \in Nat /\ DOMAIN s \subseteq Nat
        /\ \A t \in 1 .. n : t \in DOMAIN s /\ s[t] = Q[t]
        /\ \A i \in G : n + i \in DOMAIN s /\ s[n + i] = Token(L[i])
        /\ \A t \in DOMAIN s : t \in 1 .. n \/ (t \in Nat /\ t > n /\ t - n \in G)
    <3>1. SentAre(Sent(Q, L, G), Len(Q), Q, L, G)
      BY <1>4, SentIs
    <3>2. SentAre(s, n, Q, L, G)
      BY ONLY <1>2, <3>1
    <3>3. QED
      BY ONLY <3>2 DEF SentAre
  <2>2. /\ DOMAIN s2 \subseteq Nat
        /\ \A t \in 1 .. n : t \in DOMAIN s2 /\ s2[t] = Q[t]
        /\ \A i \in G2 : n + i \in DOMAIN s2 /\ s2[n + i] = Token(L2[i])
        /\ \A t \in DOMAIN s2 : t \in 1 .. n \/ (t \in Nat /\ t > n /\ t - n \in G2)
    <3>1. Sequence(Q) /\ G2 \in SUBSET (Nat \ {0})
      BY <1>4
    <3>2. SentAre(Sent(Q, L2, G2), Len(Q), Q, L2, G2)
      BY ONLY <3>1, SentIs
    <3>3. SentAre(s2, n, Q, L2, G2)
      BY ONLY <1>2, <3>2
    <3>4. QED
      BY ONLY <3>3 DEF SentAre
  <2>3. QED
    BY <2>1, <2>2
<1>6. PICK f : f = [t \in DOMAIN s2 |-> IF t <= n THEN t ELSE t + 1]
  OBVIOUS
<1>7. ASSUME NEW t \in DOMAIN s2 PROVE f[t] \in DOMAIN s /\ s2[t] = s[f[t]]
  <2>1. CASE t \in 1 .. n
    BY <1>5, <1>6, <2>1
  <2>2. CASE t \notin 1 .. n
    <3>1. PICK i \in G2 : t = n + i
      <4>1. t - n \in G2 /\ n + (t - n) = t
        BY <1>5, <2>2
      <4>2. QED
        BY <4>1
    <3>2. i + 1 \in G /\ i \in DOMAIN L2 /\ i \in Nat /\ i > 0
      BY <1>3, <1>4
    <3>3. f[t] = n + (i + 1)
      BY <1>5, <1>6, <3>1, <3>2
    <3>4. Token(L2[i]) = Token(L[i + 1])
      BY <1>1, <3>2
    <3>5. QED
      BY <1>5, <3>1, <3>2, <3>3, <3>4
  <2>3. QED
    BY <2>1, <2>2
<1>8. \A t, u \in DOMAIN s2 : t < u <=> f[t] < f[u]
  BY <1>5, <1>6
<1>9. ASSUME NEW t \in DOMAIN s PROVE \E u \in DOMAIN s2 : f[u] = t
  <2>1. CASE t \in 1 .. n
    BY <1>5, <1>6, <2>1
  <2>2. CASE t \notin 1 .. n
    <3>1. t - n \in G /\ t > n /\ t \in Nat
      BY <1>5, <2>2
    <3>2. PICK i : i = t - n
      OBVIOUS
    <3>3. i \in G /\ i \in Nat /\ i # 0 /\ i # 1 /\ t = n + i
      BY <1>4, <1>5, <3>1, <3>2
    <3>4. i - 1 \in DOMAIN L2 /\ (i - 1) + 1 = i
      BY <1>1, <3>3
    <3>5. i - 1 \in G2
      BY <1>3, <3>3, <3>4
    <3>6. n + (i - 1) \in DOMAIN s2
      BY <1>5, <3>5
    <3>7. f[n + (i - 1)] = t
      BY <1>5, <1>6, <3>3, <3>6
    <3>8. QED
      BY <3>6, <3>7
  <2>3. QED
    BY <2>1, <2>2
<1>10. Renumbers(f, s2, s, {})
  BY <1>7, <1>8, <1>9 DEF Renumbers
<1>11. PICK r : r = Due(K, T)
  OBVIOUS
<1>12. DOMAIN r \subseteq Nat /\ Renumbers([t \in DOMAIN r |-> t], r, r, {}) /\ InStep(s, r)
  BY <1>2, <1>11, NumbersStay DEF Due, Stream
<1>13. InStep(s2, r)
  <2>1. PICK k : k = [t \in DOMAIN r |-> t]
    OBVIOUS
  <2>2. QED
    BY <1>5, <1>10, <1>12, <2>1, InStepKept
<1>14. QED
  BY <1>2, <1>11, <1>13 DEF Stream

(* The sender sends what it is at.                                         *)
LEMMA SenderSends ==
  ASSUME NEW Q, Sequence(Q), NEW L, NEW L2, Taken(L2, L), NEW G \in SUBSET DOMAIN L, 1 \in G,
         NEW Q2, Extended(Q2, Q, Token(L[1])),
         NEW K, NEW T \in SUBSET Nat, Stream(Q, L, G, K, T)
  PROVE  Stream(Q2, L2, Moved(G, L2), K, T)
<1>1. /\ Len(L) \in Nat \ {0} /\ DOMAIN L = 1 .. Len(L) /\ DOMAIN L2 = 1 .. Len(L) - 1
      /\ \A i \in DOMAIN L2 : L2[i] = L[i + 1]
  BY DEF Taken
<1>2. PICK n, G2, s, s2 : /\ n = Len(Q) /\ G2 = Moved(G, L2)
                          /\ s = Sent(Q, L, G) /\ s2 = Sent(Q2, L2, G2)
  OBVIOUS
<1>3. G2 = {i \in DOMAIN L2 : i + 1 \in G}
  BY <1>2 DEF Moved
<1>4. G \in SUBSET (Nat \ {0}) /\ G2 \in SUBSET (Nat \ {0})
  BY <1>1, <1>3
<1>5. /\ Sequence(Q2) /\ Len(Q2) = n + 1 /\ Q2[n + 1] = Token(L[1])
      /\ \A t \in 1 .. n : Q2[t] = Q[t]
  BY <1>2 DEF Extended
<1>6. /\ n \in Nat /\ DOMAIN s \subseteq Nat
      /\ \A t \in 1 .. n : t \in DOMAIN s /\ s[t] = Q[t]
      /\ \A i \in G : n + i \in DOMAIN s /\ s[n + i] = Token(L[i])
      /\ \A t \in DOMAIN s : t \in 1 .. n \/ (t \in Nat /\ t > n /\ t - n \in G)
  <2>1. SentAre(Sent(Q, L, G), Len(Q), Q, L, G)
    BY <1>4, SentIs
  <2>2. SentAre(s, n, Q, L, G)
    BY ONLY <1>2, <2>1
  <2>3. QED
    BY ONLY <2>2 DEF SentAre
<1>7. /\ DOMAIN s2 \subseteq Nat
      /\ \A t \in 1 .. n + 1 : t \in DOMAIN s2 /\ s2[t] = Q2[t]
      /\ \A i \in G2 : n + 1 + i \in DOMAIN s2 /\ s2[n + 1 + i] = Token(L2[i])
      /\ \A t \in DOMAIN s2 : t \in 1 .. n + 1 \/ (t \in Nat /\ t > n + 1 /\ t - (n + 1) \in G2)
  <2>1. PICK n2 : n2 = Len(Q2)
    OBVIOUS
  <2>2. /\ DOMAIN s2 \subseteq Nat
        /\ \A t \in 1 .. n2 : t \in DOMAIN s2 /\ s2[t] = Q2[t]
        /\ \A i \in G2 : n2 + i \in DOMAIN s2 /\ s2[n2 + i] = Token(L2[i])
        /\ \A t \in DOMAIN s2 : t \in 1 .. n2 \/ (t \in Nat /\ t > n2 /\ t - n2 \in G2)
    <3>1. SentAre(s2, n2, Q2, L2, G2)
      <4>1. Sequence(Q2)
        BY <1>5
      <4>2. QED
        BY <1>2, <1>4, <2>1, <4>1, SentIs
    <3>2. QED
      BY <3>1 DEF SentAre
  <2>3. n2 = n + 1
    BY <1>5, <2>1
  <2>4. QED
    BY <2>2, <2>3
<1>8. ASSUME NEW t \in DOMAIN s2 PROVE t \in DOMAIN s /\ s2[t] = s[t]
  <2>1. CASE t \in 1 .. n
    BY <1>5, <1>6, <1>7, <2>1
  <2>2. CASE t = n + 1
    BY <1>5, <1>6, <1>7, <2>2
  <2>3. CASE t \notin 1 .. n + 1
    <3>1. t \in Nat /\ t > n + 1 /\ t - (n + 1) \in G2
      BY <1>7, <2>3
    <3>2. PICK i : i = t - (n + 1)
      OBVIOUS
    <3>3. i \in G2 /\ i \in Nat /\ t = n + 1 + i /\ t = n + (i + 1)
      BY <1>6, <3>1, <3>2
    <3>4. i + 1 \in G /\ L2[i] = L[i + 1]
      BY <1>1, <1>3, <3>3
    <3>5. QED
      BY <1>6, <1>7, <3>3, <3>4
  <2>4. QED
    BY <1>6, <1>7, <2>1, <2>2, <2>3
<1>9. ASSUME NEW t \in DOMAIN s PROVE t \in DOMAIN s2
  <2>1. CASE t \in 1 .. n
    BY <1>6, <1>7, <2>1
  <2>2. CASE t \notin 1 .. n
    <3>1. t - n \in G /\ t > n /\ t \in Nat
      BY <1>6, <2>2
    <3>2. PICK i : i = t - n
      OBVIOUS
    <3>3. i \in G /\ i \in Nat /\ i # 0 /\ t = n + i
      BY <1>4, <1>6, <3>1, <3>2
    <3>4. CASE i = 1
      BY <1>6, <1>7, <3>3, <3>4
    <3>5. CASE i # 1
      <4>1. i - 1 \in DOMAIN L2 /\ (i - 1) + 1 = i
        BY <1>1, <3>3, <3>5
      <4>2. i - 1 \in G2 /\ n + 1 + (i - 1) = t
        BY <1>3, <1>6, <3>3, <4>1
      <4>3. QED
        BY <1>7, <4>2
    <3>6. QED
      BY <3>4, <3>5
  <2>3. QED
    BY <2>1, <2>2
<1>10. s2 = s
  <2>1. DOMAIN s2 = DOMAIN s
    BY <1>8, <1>9
  <2>2. s = [t \in DOMAIN s |-> s[t]] /\ s2 = [t \in DOMAIN s2 |-> s2[t]]
    BY <1>2 DEF Sent
  <2>3. QED
    BY <1>8, <2>1, <2>2
<1>11. QED
  BY <1>2, <1>10 DEF Stream

(* The receiver goes on without taking.                                    *)
LEMMA ReceiverSkips ==
  ASSUME NEW Q, Sequence(Q), NEW L, NEW G \in SUBSET (Nat \ {0}),
         NEW K, NEW K2, Taken(K2, K), NEW T \in SUBSET DOMAIN K, 1 \notin T,
         Stream(Q, L, G, K, T)
  PROVE  Stream(Q, L, G, K2, Moved(T, K2))
<1>1. /\ Len(K) \in Nat \ {0} /\ DOMAIN K = 1 .. Len(K) /\ DOMAIN K2 = 1 .. Len(K) - 1
      /\ \A i \in DOMAIN K2 : K2[i] = K[i + 1]
  BY DEF Taken
<1>2. PICK s, r, r2, T2 : /\ s = Sent(Q, L, G) /\ T2 = Moved(T, K2)
                          /\ r = Due(K, T) /\ r2 = Due(K2, T2)
  OBVIOUS
<1>3. T2 = {i \in DOMAIN K2 : i + 1 \in T}
  BY <1>2 DEF Moved
<1>4. /\ DOMAIN r = T /\ \A i \in T : r[i] = Token(K[i])
      /\ DOMAIN r2 = T2 /\ \A i \in T2 : r2[i] = Token(K2[i])
  BY <1>2 DEF Due
<1>5. T \subseteq Nat /\ T2 \subseteq Nat /\ \A i \in T : i - 1 \in T2 /\ (i - 1) + 1 = i
  BY <1>1, <1>3
<1>6. PICK k : k = [i \in T2 |-> i + 1]
  OBVIOUS
<1>7. Renumbers(k, r2, r, {})
  <2>1. ASSUME NEW i \in T2 PROVE k[i] \in T /\ r2[i] = r[k[i]]
    <3>1. K2[i] = K[i + 1] /\ i + 1 \in T /\ k[i] = i + 1
      BY <1>1, <1>3, <1>6
    <3>2. QED
      BY <1>4, <3>1
  <2>2. \A i, j \in T2 : i < j <=> k[i] < k[j]
    BY <1>5, <1>6
  <2>3. \A i \in T : \E j \in T2 : k[j] = i
    BY <1>5, <1>6
  <2>4. QED
    BY <1>4, <2>1, <2>2, <2>3 DEF Renumbers
<1>8. DOMAIN s \subseteq Nat
  <2>1. SentAre(s, Len(Q), Q, L, G)
    BY <1>2, SentIs
  <2>2. QED
    BY ONLY <2>1 DEF SentAre
<1>9. PICK n : n = [t \in DOMAIN s |-> t]
  OBVIOUS
<1>10. Renumbers(n, s, s, {}) /\ InStep(s, r)
  BY <1>2, <1>9, NumbersStay DEF Stream
<1>11. InStep(s, r2)
  <2>1. DOMAIN r \subseteq Nat /\ DOMAIN r2 \subseteq Nat
    BY <1>4, <1>5
  <2>2. PICK D : D = {}
    OBVIOUS
  <2>3. Renumbers(n, s, s, D) /\ Renumbers(k, r2, r, D)
    BY <1>7, <1>10, <2>2
  <2>4. \A t \in DOMAIN s : \A i \in DOMAIN r : s[t] = r[i] => (t \in D <=> i \in D)
    BY <2>2
  <2>5. QED
    BY <1>8, <1>10, <2>1, <2>3, <2>4, InStepKept
<1>12. QED
  BY <1>2, <1>11 DEF Stream

(* The receiver takes a context for the event it is at: it is the one that *)
(* was sent for it.                                                        *)
LEMMA ReceiverTakes ==
  ASSUME NEW Q, Sequence(Q), Q # <<>>, NEW Q2, Taken(Q2, Q),
         NEW L, NEW G \in SUBSET (Nat \ {0}),
         NEW K, NEW K2, Taken(K2, K), NEW T \in SUBSET DOMAIN K, 1 \in T,
         Stream(Q, L, G, K, T)
  PROVE  Q[1] = Token(K[1]) /\ Stream(Q2, L, G, K2, Moved(T, K2))
<1>1. /\ Len(K) \in Nat \ {0} /\ DOMAIN K = 1 .. Len(K) /\ DOMAIN K2 = 1 .. Len(K) - 1
      /\ \A i \in DOMAIN K2 : K2[i] = K[i + 1]
  BY DEF Taken
<1>2. PICK n, s, s2, r, r2, T2 :
        /\ n = Len(Q) /\ s = Sent(Q, L, G) /\ s2 = Sent(Q2, L, G)
        /\ T2 = Moved(T, K2) /\ r = Due(K, T) /\ r2 = Due(K2, T2)
  OBVIOUS
<1>3. T2 = {i \in DOMAIN K2 : i + 1 \in T}
  BY <1>2 DEF Moved
<1>4. /\ DOMAIN r = T /\ \A i \in T : r[i] = Token(K[i])
      /\ DOMAIN r2 = T2 /\ \A i \in T2 : r2[i] = Token(K2[i])
  BY <1>2 DEF Due
<1>5. /\ T \subseteq Nat /\ T2 \subseteq Nat /\ \A i \in T : 1 <= i
      /\ \A i \in T : i # 1 => i - 1 \in T2 /\ (i - 1) + 1 = i
      /\ \A i \in T2 : i + 1 # 1
  BY <1>1, <1>3
<1>6. /\ n \in Nat \ {0} /\ Sequence(Q2) /\ Len(Q2) = n - 1
      /\ \A t \in 1 .. n - 1 : Q2[t] = Q[t + 1]
  <2>1. Sequence(Q2) /\ DOMAIN Q2 = 1 .. n - 1 /\ n \in Nat \ {0}
        /\ \A t \in DOMAIN Q2 : Q2[t] = Q[t + 1]
    BY <1>2 DEF Taken
  <2>2. Len(Q2) \in Nat /\ DOMAIN Q2 = 1 .. Len(Q2)
    BY <2>1 DEF Sequence
  <2>3. PICK l : l = Len(Q2)
    OBVIOUS
  <2>4. l \in Nat /\ 1 .. l = 1 .. n - 1
    BY <2>1, <2>2, <2>3
  <2>5. l = n - 1
    BY <2>1, <2>4
  <2>6. QED
    BY <2>1, <2>3, <2>5
<1>7. SentAre(s, n, Q, L, G)
  BY <1>2, SentIs
<1>8. SentAre(s2, n - 1, Q2, L, G)
  <2>1. SentAre(s2, Len(Q2), Q2, L, G)
    BY <1>2, <1>6, SentIs
  <2>2. QED
    BY <1>6, <2>1
<1>9. InStep(s, r)
  BY <1>2 DEF Stream
<1>10. 1 \in DOMAIN s /\ s[1] = Q[1] /\ \A t \in DOMAIN s : t \in Nat /\ 1 <= t
  BY <1>6, <1>7 DEF SentAre
<1>11. s[1] = r[1] /\ 1 \in DOMAIN r
  <2>1. DOMAIN s \subseteq Nat /\ DOMAIN r \subseteq Nat /\ 1 \in DOMAIN r
    BY <1>4, <1>5, <1>10
  <2>2. QED
    BY <1>4, <1>5, <1>9, <1>10, <2>1, FirstsMeet
<1>12. PICK f, k : f = [t \in DOMAIN s2 |-> t + 1] /\ k = [i \in T2 |-> i + 1]
  OBVIOUS
<1>13. Renumbers(f, s2, s, {1})
  <2>1. ASSUME NEW t \in DOMAIN s2 PROVE f[t] \in DOMAIN s \ {1} /\ s2[t] = s[f[t]]
    <3>1. CASE t \in 1 .. n - 1
      BY <1>6, <1>7, <1>8, <1>12, <3>1 DEF SentAre
    <3>2. CASE t \notin 1 .. n - 1
      <4>1. t \in Nat /\ t > n - 1 /\ t - (n - 1) \in G
        BY <1>8, <3>2 DEF SentAre
      <4>2. PICK i : i = t - (n - 1)
        OBVIOUS
      <4>3. i \in G /\ i \in Nat /\ i # 0 /\ t = n - 1 + i /\ t + 1 = n + i
        <5>1. i \in G /\ i \in Nat /\ i # 0
          BY <4>1, <4>2
        <5>2. n \in Nat /\ t \in Nat
          BY <1>6, <4>1
        <5>3. QED
          BY <4>2, <5>1, <5>2
      <4>4. s2[t] = Token(L[i])
        BY <1>8, <4>3 DEF SentAre
      <4>5. n + i \in DOMAIN s /\ s[n + i] = Token(L[i]) /\ n + i # 1
        BY <1>6, <1>7, <4>3 DEF SentAre
      <4>6. QED
        BY <1>12, <4>3, <4>4, <4>5
    <3>3. QED
      BY <3>1, <3>2
  <2>2. \A t, u \in DOMAIN s2 : t < u <=> f[t] < f[u]
    BY <1>8, <1>12 DEF SentAre
  <2>3. ASSUME NEW t \in DOMAIN s \ {1} PROVE \E u \in DOMAIN s2 : f[u] = t
    <3>1. CASE t \in 1 .. n
      <4>1. t - 1 \in 1 .. n - 1 /\ (t - 1) + 1 = t
        BY <1>6, <3>1
      <4>2. QED
        BY <1>8, <1>12, <4>1 DEF SentAre
    <3>2. CASE t \notin 1 .. n
      <4>1. t \in Nat /\ t > n /\ t - n \in G
        BY <1>7, <3>2 DEF SentAre
      <4>2. PICK i : i = t - n
        OBVIOUS
      <4>3. i \in G /\ i \in Nat /\ t = (n - 1 + i) + 1
        BY <1>6, <4>1, <4>2
      <4>4. n - 1 + i \in DOMAIN s2
        BY <1>8, <4>3 DEF SentAre
      <4>5. QED
        BY <1>12, <4>3, <4>4
    <3>3. QED
      BY <3>1, <3>2
  <2>4. QED
    BY <2>1, <2>2, <2>3 DEF Renumbers
<1>14. Renumbers(k, r2, r, {1})
  <2>1. ASSUME NEW i \in T2 PROVE k[i] \in T \ {1} /\ r2[i] = r[k[i]]
    <3>1. K2[i] = K[i + 1] /\ i + 1 \in T /\ k[i] = i + 1 /\ i + 1 # 1
      BY <1>1, <1>3, <1>5, <1>12
    <3>2. QED
      BY <1>4, <3>1
  <2>2. \A i, j \in T2 : i < j <=> k[i] < k[j]
    BY <1>5, <1>12
  <2>3. \A i \in T \ {1} : \E j \in T2 : k[j] = i
    BY <1>5, <1>12
  <2>4. QED
    BY <1>4, <2>1, <2>2, <2>3 DEF Renumbers
<1>15. \A t \in DOMAIN s : \A i \in DOMAIN r : s[t] = r[i] => (t \in {1} <=> i \in {1})
  BY <1>9, <1>10, <1>11 DEF InStep
<1>16. DOMAIN s \subseteq Nat /\ DOMAIN s2 \subseteq Nat /\ DOMAIN r \subseteq Nat /\ DOMAIN r2 \subseteq Nat
  BY <1>4, <1>5, <1>7, <1>8 DEF SentAre
<1>17. InStep(s2, r2)
  BY <1>9, <1>13, <1>14, <1>15, <1>16, InStepKept
<1>18. Q[1] = Token(K[1])
  BY <1>4, <1>10, <1>11
<1>19. QED
  BY <1>2, <1>17, <1>18 DEF Stream

--------------------------------------------------------------------------------
(* The channels and the ids of one machine.                                *)
Where(L, types) == {i \in DOMAIN L : L[i].type \in types}
(* The accesses of the device in a log, if b says whether the last system  *)
(* call before it was a write of the configuration.                        *)
Accesses(L, b) ==
  {i \in DOMAIN L : /\ L[i].type \in HostMmioIssue /\ IsToDeviceBarNumber(L[i].bar)
                    /\ ~PciWriteBefore(L, b, i)}
PciWriteAfter(b, e) == IF e.type = "HostCall" THEN IsPciWrite(e) ELSE b

Told == {"NicDmaEx", "NicMsix"}
Opens == HostDmaExecution \cup {"HostMsiX"}
MmioStream(Q, L, b, K) == Stream(Q, L, Accesses(L, b), K, Where(K, NicMmioTypes))
DmaStream(Q, L, K) == Stream(Q, L, Where(L, Told), K, Where(K, Opens))
RxStream(Q, K) == Stream(Q, <<>>, {}, K, Where(K, {"NicRx"}))

(* Where the events of some types are once the first one was taken.        *)
LEMMA WhereMoves ==
  ASSUME NEW L, NEW L2, Taken(L2, L), NEW types
  PROVE  /\ Where(L2, types) = Moved(Where(L, types), L2)
         /\ 1 \in Where(L, types) <=> L[1].type \in types
         /\ Where(L, types) \in SUBSET DOMAIN L /\ Where(L, types) \in SUBSET (Nat \ {0})
<1>1. /\ 1 \in DOMAIN L /\ DOMAIN L \subseteq Nat /\ \A i \in DOMAIN L : i > 0
      /\ \A i \in DOMAIN L2 : i + 1 \in DOMAIN L /\ L2[i] = L[i + 1]
  BY TakenPositions
<1>2. Where(L2, types) = Moved(Where(L, types), L2)
  BY <1>1 DEF Where, Moved
<1>3. QED
  BY <1>1, <1>2 DEF Where

(* The same for the accesses of the device.                                *)
LEMMA AccessesMove ==
  ASSUME NEW L, NEW L2, Taken(L2, L), NEW b \in BOOLEAN
  PROVE  /\ Accesses(L2, PciWriteAfter(b, L[1])) = Moved(Accesses(L, b), L2)
         /\ 1 \in Accesses(L, b) <=> /\ L[1].type \in HostMmioIssue
                                     /\ IsToDeviceBarNumber(L[1].bar) /\ ~b
         /\ Accesses(L, b) \in SUBSET DOMAIN L /\ Accesses(L, b) \in SUBSET (Nat \ {0})
<1>1. /\ 1 \in DOMAIN L /\ DOMAIN L \subseteq Nat /\ \A i \in DOMAIN L : i > 0
      /\ \A i \in DOMAIN L2 : i + 1 \in DOMAIN L /\ L2[i] = L[i + 1]
      /\ \A i \in DOMAIN L : i # 1 => i - 1 \in DOMAIN L2 /\ L2[i - 1] = L[i]
  BY TakenPositions
<1>2. DOMAIN L2 \subseteq Nat
  BY DEF Taken
<1>3. PICK c : c = PciWriteAfter(b, L[1])
  OBVIOUS
<1>4. ASSUME NEW i \in DOMAIN L2, PciWriteBefore(L2, c, i)
      PROVE  PciWriteBefore(L, b, i + 1)
  <2>1. CASE c /\ \A j \in DOMAIN L2 : j < i => L2[j].type # "HostCall"
    <3>1. \A j \in DOMAIN L : 1 < j /\ j < i + 1 => L[j].type # "HostCall"
      <4> SUFFICES ASSUME NEW j \in DOMAIN L, 1 < j, j < i + 1 PROVE L[j].type # "HostCall"
        OBVIOUS
      <4>1. j \in Nat /\ i \in Nat
        BY <1>1, <1>2
      <4>2. j - 1 \in DOMAIN L2 /\ L2[j - 1] = L[j] /\ j - 1 < i
        BY <1>1, <4>1
      <4>3. QED
        BY <2>1, <4>2
    <3>2. CASE L[1].type = "HostCall"
      <4>1. IsPciWrite(L[1])
        BY <1>3, <2>1, <3>2 DEF PciWriteAfter
      <4>2. 1 < i + 1
        BY <1>2 DEF Taken
      <4>3. QED
        BY <1>1, <3>1, <3>2, <4>1, <4>2 DEF PciWriteBefore
    <3>3. CASE L[1].type # "HostCall"
      <4>1. b
        BY <1>3, <2>1, <3>3 DEF PciWriteAfter
      <4>2. \A j \in DOMAIN L : j < i + 1 => L[j].type # "HostCall"
        <5>1. \A j \in DOMAIN L : j = 1 \/ 1 < j
          BY <1>1
        <5>2. QED
          BY <3>1, <3>3, <5>1
      <4>3. QED
        BY <4>1, <4>2 DEF PciWriteBefore
    <3>4. QED
      BY <3>2, <3>3
  <2>2. CASE \E j \in DOMAIN L2 :
               /\ j < i /\ L2[j].type = "HostCall" /\ IsPciWrite(L2[j])
               /\ \A k \in DOMAIN L2 : j < k /\ k < i => L2[k].type # "HostCall"
    <3>1. PICK j \in DOMAIN L2 :
            /\ j < i /\ L2[j].type = "HostCall" /\ IsPciWrite(L2[j])
            /\ \A k \in DOMAIN L2 : j < k /\ k < i => L2[k].type # "HostCall"
      BY <2>2
    <3>2. PICK a \in DOMAIN L : a = j + 1 /\ L2[j] = L[a]
      BY <1>1
    <3>3. a < i + 1
      BY <1>2, <3>1, <3>2
    <3>4. ASSUME NEW k \in DOMAIN L, a < k, k < i + 1 PROVE L[k].type # "HostCall"
      <4>1. k \in Nat /\ i \in Nat /\ j \in Nat /\ j > 0
        BY <1>1, <1>2 DEF Taken
      <4>2. k # 1
        BY <3>2, <3>4, <4>1
      <4>3. k - 1 \in DOMAIN L2 /\ L2[k - 1] = L[k] /\ j < k - 1 /\ k - 1 < i
        BY <1>1, <3>2, <3>4, <4>1, <4>2
      <4>4. QED
        BY <3>1, <4>3
    <3>5. QED
      BY <3>1, <3>2, <3>3, <3>4 DEF PciWriteBefore
  <2>3. QED
    BY <1>4, <2>1, <2>2 DEF PciWriteBefore
<1>5. ASSUME NEW i \in DOMAIN L2, PciWriteBefore(L, b, i + 1)
      PROVE  PciWriteBefore(L2, c, i)
  <2>1. CASE b /\ \A j \in DOMAIN L : j < i + 1 => L[j].type # "HostCall"
    <3>1. 1 < i + 1
      BY <1>2 DEF Taken
    <3>2. c
      BY <1>1, <1>3, <2>1, <3>1 DEF PciWriteAfter
    <3>3. \A j \in DOMAIN L2 : j < i => L2[j].type # "HostCall"
      BY <1>1, <1>2, <2>1
    <3>4. QED
      BY <3>2, <3>3 DEF PciWriteBefore
  <2>2. CASE \E j \in DOMAIN L :
               /\ j < i + 1 /\ L[j].type = "HostCall" /\ IsPciWrite(L[j])
               /\ \A k \in DOMAIN L : j < k /\ k < i + 1 => L[k].type # "HostCall"
    <3>1. PICK j \in DOMAIN L :
            /\ j < i + 1 /\ L[j].type = "HostCall" /\ IsPciWrite(L[j])
            /\ \A k \in DOMAIN L : j < k /\ k < i + 1 => L[k].type # "HostCall"
      BY <2>2
    <3>2. ASSUME NEW k \in DOMAIN L2, j < k + 1, k < i PROVE L2[k].type # "HostCall"
      <4>1. PICK l \in DOMAIN L : l = k + 1 /\ L2[k] = L[l]
        BY <1>1
      <4>2. l < i + 1
        BY <1>2, <3>2, <4>1
      <4>3. QED
        BY <3>1, <3>2, <4>1, <4>2
    <3>3. CASE j = 1
      <4>1. c
        BY <1>3, <3>1, <3>3 DEF PciWriteAfter
      <4>2. \A k \in DOMAIN L2 : k < i => L2[k].type # "HostCall"
        <5>1. \A k \in DOMAIN L2 : 1 < k + 1
          BY <1>2 DEF Taken
        <5>2. QED
          BY <3>2, <3>3, <5>1
      <4>3. QED
        BY <4>1, <4>2 DEF PciWriteBefore
    <3>4. CASE j # 1
      <4>1. j \in Nat /\ i \in Nat
        BY <1>1, <1>2
      <4>2. PICK a \in DOMAIN L2 : a = j - 1 /\ L2[a] = L[j] /\ a < i
        BY <1>1, <3>1, <3>4, <4>1
      <4>3. \A k \in DOMAIN L2 : a < k /\ k < i => L2[k].type # "HostCall"
        <5>1. \A k \in DOMAIN L2 : a < k => j < k + 1
          BY <1>2, <4>1, <4>2
        <5>2. QED
          BY <3>2, <5>1
      <4>4. QED
        BY <3>1, <4>2, <4>3 DEF PciWriteBefore
    <3>5. QED
      BY <3>3, <3>4
  <2>3. QED
    BY <1>5, <2>1, <2>2 DEF PciWriteBefore
<1>6. Accesses(L2, c) = Moved(Accesses(L, b), L2)
  <2>1. \A i \in DOMAIN L2 : i \in Accesses(L2, c) <=> i + 1 \in Accesses(L, b)
    BY <1>1, <1>4, <1>5 DEF Accesses
  <2>2. Accesses(L2, c) \subseteq DOMAIN L2
    BY DEF Accesses
  <2>3. QED
    BY <2>1, <2>2 DEF Moved
<1>7. PciWriteBefore(L, b, 1) <=> b
  <2>1. \A j \in DOMAIN L : ~(j < 1)
    BY <1>1
  <2>2. QED
    BY <2>1 DEF PciWriteBefore
<1>8. 1 \in Accesses(L, b) <=> L[1].type \in HostMmioIssue /\ IsToDeviceBarNumber(L[1].bar) /\ ~b
  BY <1>1, <1>7 DEF Accesses
<1>9. Accesses(L, b) \in SUBSET DOMAIN L /\ Accesses(L, b) \in SUBSET (Nat \ {0})
  BY <1>1 DEF Accesses
<1>10. QED
  BY <1>3, <1>6, <1>8, <1>9

(* The host goes on: it tells the card of an access of the device.         *)
LEMMA HostSends ==
  ASSUME NEW Q, Sequence(Q), NEW L, NEW L2, Taken(L2, L), NEW b \in BOOLEAN, NEW K, DOMAIN K \subseteq Nat,
         MmioStream(Q, L, b, K)
  PROVE  LET c == PciWriteAfter(b, L[1])
         IN  IF L[1].type \in HostMmioIssue /\ IsToDeviceBarNumber(L[1].bar) /\ ~b
             THEN \A Q2 : Extended(Q2, Q, Token(L[1])) => MmioStream(Q2, L2, c, K)
             ELSE MmioStream(Q, L2, c, K)
<1>1. PICK G, T, c : G = Accesses(L, b) /\ T = Where(K, NicMmioTypes) /\ c = PciWriteAfter(b, L[1])
  OBVIOUS
<1>2. T \in SUBSET Nat /\ G \in SUBSET DOMAIN L /\ Accesses(L2, c) = Moved(G, L2)
  BY <1>1, AccessesMove DEF Where
<1>3. 1 \in G <=> L[1].type \in HostMmioIssue /\ IsToDeviceBarNumber(L[1].bar) /\ ~b
  BY <1>1, AccessesMove
<1>4. Stream(Q, L, G, K, T)
  BY <1>1 DEF MmioStream
<1>5. ASSUME 1 \notin G PROVE MmioStream(Q, L2, c, K)
  <2>1. Stream(Q, L2, Moved(G, L2), K, T)
    BY <1>2, <1>4, <1>5, SenderSkips
  <2>2. QED
    BY <1>1, <1>2, <2>1 DEF MmioStream
<1>6. ASSUME 1 \in G, NEW Q2, Extended(Q2, Q, Token(L[1])) PROVE MmioStream(Q2, L2, c, K)
  <2>1. Stream(Q2, L2, Moved(G, L2), K, T)
    BY <1>2, <1>4, <1>6, SenderSends
  <2>2. QED
    BY <1>1, <1>2, <2>1 DEF MmioStream
<1>7. QED
  BY <1>1, <1>3, <1>5, <1>6

(* The card goes on: it takes the context of the access it is at.          *)
LEMMA NicTakes ==
  ASSUME NEW Q, Sequence(Q), NEW L, DOMAIN L \subseteq Nat \ {0}, NEW b \in BOOLEAN,
         NEW K, NEW K2, Taken(K2, K), MmioStream(Q, L, b, K)
  PROVE  IF K[1].type \in NicMmioTypes
         THEN Q # <<>> => /\ Q[1] = Token(K[1])
                          /\ \A Q2 : Taken(Q2, Q) => MmioStream(Q2, L, b, K2)
         ELSE MmioStream(Q, L, b, K2)
<1>1. PICK G, T : G = Accesses(L, b) /\ T = Where(K, NicMmioTypes)
  OBVIOUS
<1>2. G \in SUBSET (Nat \ {0})
  BY <1>1 DEF Accesses
<1>3. T \in SUBSET DOMAIN K /\ Where(K2, NicMmioTypes) = Moved(T, K2)
  BY <1>1, WhereMoves
<1>4. 1 \in T <=> K[1].type \in NicMmioTypes
  BY <1>1, WhereMoves
<1>5. Stream(Q, L, G, K, T)
  BY <1>1 DEF MmioStream
<1>6. ASSUME 1 \notin T PROVE MmioStream(Q, L, b, K2)
  <2>1. Stream(Q, L, G, K2, Moved(T, K2))
    BY <1>2, <1>3, <1>5, <1>6, ReceiverSkips
  <2>2. QED
    BY <1>1, <1>3, <2>1 DEF MmioStream
<1>7. ASSUME 1 \in T, Q # <<>>
      PROVE  Q[1] = Token(K[1]) /\ \A Q2 : Taken(Q2, Q) => MmioStream(Q2, L, b, K2)
  <2>1. \E Q2 : Taken(Q2, Q)
    BY <1>7, Taking1
  <2>2. ASSUME NEW Q2, Taken(Q2, Q) PROVE Q[1] = Token(K[1]) /\ MmioStream(Q2, L, b, K2)
    <3>1. Q[1] = Token(K[1]) /\ Stream(Q2, L, G, K2, Moved(T, K2))
      BY <1>2, <1>3, <1>5, <1>7, <2>2, ReceiverTakes
    <3>2. QED
      BY <1>1, <1>3, <3>1 DEF MmioStream
  <2>3. QED
    BY <2>1, <2>2
<1>8. QED
  BY <1>4, <1>6, <1>7

(* The card goes on: it tells the host of a dma and of an interrupt.       *)
LEMMA NicSends ==
  ASSUME NEW Q, Sequence(Q), NEW L, NEW L2, Taken(L2, L), NEW K, DOMAIN K \subseteq Nat,
         DmaStream(Q, L, K)
  PROVE  IF L[1].type \in Told
         THEN \A Q2 : Extended(Q2, Q, Token(L[1])) => DmaStream(Q2, L2, K)
         ELSE DmaStream(Q, L2, K)
<1>1. PICK G, T : G = Where(L, Told) /\ T = Where(K, Opens)
  OBVIOUS
<1>2. T \in SUBSET Nat /\ G \in SUBSET DOMAIN L /\ Where(L2, Told) = Moved(G, L2)
  BY <1>1, WhereMoves DEF Where
<1>3. 1 \in G <=> L[1].type \in Told
  BY <1>1, WhereMoves
<1>4. Stream(Q, L, G, K, T)
  BY <1>1 DEF DmaStream
<1>5. ASSUME 1 \notin G PROVE DmaStream(Q, L2, K)
  <2>1. Stream(Q, L2, Moved(G, L2), K, T)
    BY <1>2, <1>4, <1>5, SenderSkips
  <2>2. QED
    BY <1>1, <1>2, <2>1 DEF DmaStream
<1>6. ASSUME 1 \in G, NEW Q2, Extended(Q2, Q, Token(L[1])) PROVE DmaStream(Q2, L2, K)
  <2>1. Stream(Q2, L2, Moved(G, L2), K, T)
    BY <1>2, <1>4, <1>6, SenderSends
  <2>2. QED
    BY <1>1, <1>2, <2>1 DEF DmaStream
<1>7. QED
  BY <1>3, <1>5, <1>6

(* The host goes on: it takes the context of the dma or interrupt.         *)
LEMMA HostTakes ==
  ASSUME NEW Q, Sequence(Q), NEW L, DOMAIN L \subseteq Nat \ {0},
         NEW K, NEW K2, Taken(K2, K), DmaStream(Q, L, K)
  PROVE  IF K[1].type \in Opens
         THEN Q # <<>> => /\ Q[1] = Token(K[1])
                          /\ \A Q2 : Taken(Q2, Q) => DmaStream(Q2, L, K2)
         ELSE DmaStream(Q, L, K2)
<1>1. PICK G, T : G = Where(L, Told) /\ T = Where(K, Opens)
  OBVIOUS
<1>2. G \in SUBSET (Nat \ {0})
  BY <1>1 DEF Where
<1>3. T \in SUBSET DOMAIN K /\ Where(K2, Opens) = Moved(T, K2)
  BY <1>1, WhereMoves
<1>4. 1 \in T <=> K[1].type \in Opens
  BY <1>1, WhereMoves
<1>5. Stream(Q, L, G, K, T)
  BY <1>1 DEF DmaStream
<1>6. ASSUME 1 \notin T PROVE DmaStream(Q, L, K2)
  <2>1. Stream(Q, L, G, K2, Moved(T, K2))
    BY <1>2, <1>3, <1>5, <1>6, ReceiverSkips
  <2>2. QED
    BY <1>1, <1>3, <2>1 DEF DmaStream
<1>7. ASSUME 1 \in T, Q # <<>>
      PROVE  Q[1] = Token(K[1]) /\ \A Q2 : Taken(Q2, Q) => DmaStream(Q2, L, K2)
  <2>1. \E Q2 : Taken(Q2, Q)
    BY <1>7, Taking1
  <2>2. ASSUME NEW Q2, Taken(Q2, Q) PROVE Q[1] = Token(K[1]) /\ DmaStream(Q2, L, K2)
    <3>1. Q[1] = Token(K[1]) /\ Stream(Q2, L, G, K2, Moved(T, K2))
      BY <1>2, <1>3, <1>5, <1>7, <2>2, ReceiverTakes
    <3>2. QED
      BY <1>1, <1>3, <3>1 DEF DmaStream
  <2>3. QED
    BY <2>1, <2>2
<1>8. QED
  BY <1>4, <1>6, <1>7

(* The card goes on: it takes the context of the packet it received.       *)
LEMMA NicReceives ==
  ASSUME NEW Q, Sequence(Q), NEW K, NEW K2, Taken(K2, K), RxStream(Q, K)
  PROVE  IF K[1].type = "NicRx"
         THEN Q # <<>> => /\ Q[1] = Token(K[1])
                          /\ \A Q2 : Taken(Q2, Q) => RxStream(Q2, K2)
         ELSE RxStream(Q, K2)
<1>1. PICK L, G, types, T :
        L = <<>> /\ G = {} /\ types = {"NicRx"} /\ T = Where(K, types)
  OBVIOUS
<1>2. G \in SUBSET (Nat \ {0})
  BY <1>1
<1>3. T \in SUBSET DOMAIN K /\ Where(K2, types) = Moved(T, K2)
  BY <1>1, WhereMoves
<1>4. 1 \in T <=> K[1].type = "NicRx"
  <2>1. 1 \in T <=> K[1].type \in types
    BY <1>1, WhereMoves
  <2>2. QED
    BY <1>1, <2>1
<1>5. Stream(Q, L, G, K, T)
  BY <1>1 DEF RxStream
<1>6. ASSUME 1 \notin T PROVE RxStream(Q, K2)
  <2>1. Stream(Q, L, G, K2, Moved(T, K2))
    BY <1>2, <1>3, <1>5, <1>6, ReceiverSkips
  <2>2. QED
    BY <1>1, <1>3, <2>1 DEF RxStream
<1>7. ASSUME 1 \in T, Q # <<>>
      PROVE  Q[1] = Token(K[1]) /\ \A Q2 : Taken(Q2, Q) => RxStream(Q2, K2)
  <2>1. \E Q2 : Taken(Q2, Q)
    BY <1>7, Taking1
  <2>2. ASSUME NEW Q2, Taken(Q2, Q) PROVE Q[1] = Token(K[1]) /\ RxStream(Q2, K2)
    <3>1. Q[1] = Token(K[1]) /\ Stream(Q2, L, G, K2, Moved(T, K2))
      BY <1>2, <1>3, <1>5, <1>7, <2>2, ReceiverTakes
    <3>2. QED
      BY <1>1, <1>3, <3>1 DEF RxStream
  <2>3. QED
    BY <2>1, <2>2
<1>8. QED
  BY <1>4, <1>6, <1>7

--------------------------------------------------------------------------------
(* The invariant.  It speaks of the contexts in the channels and the spans *)
(* that are pending as of the logs that are left.                          *)
FirstEvent(id) == SpanOf(id).events[1]

QueueTokens(q) ==
  [j \in DOMAIN queue[q] |->
     <<FirstEvent(queue[q][j].parent).op, queue[q][j].expectation>>]
ChannelsInv(m) ==
  /\ MmioStream(QueueTokens(ToNic(m)), log[Host(m)], host[m].pciWrite, log[Nic(m)])
  /\ DmaStream(QueueTokens(FromNic(m)), log[Nic(m)], log[Host(m)])
  /\ RxStream(QueueTokens(FromNet(m)), log[Nic(m)])

(* The spans of dmas and interrupts that are pending.                      *)
HostOpen(m) == {host[m].dmas[i] : i \in DOMAIN host[m].dmas} \cup ({host[m].msix} \ {None})
NicOpen(m) == {nic[m].dmas[i] : i \in DOMAIN nic[m].dmas}
Executed(id) == 2 \in DOMAIN SpanOf(id).events
NicIssued(m) == {id \in NicOpen(m) : ~Executed(id)}
NicExecuted(m) == {id \in NicOpen(m) : Executed(id)}
UsesOf(X) == [id \in X |-> UseOf(FirstEvent(id))]

OpenedBy(id, types) ==
  LET sp == SpanOf(id)
  IN sp.pending /\ sp.events = <<sp.events[1]>> /\ sp.events[1].type \in types
(* The system call takes the events until the next one begins.             *)
CallInv(m) ==
  /\ host[m].call # None /\ ~host[m].copying => SpanOf(host[m].call).pending
  /\ host[m].copying => /\ host[m].call # None /\ ~SpanOf(host[m].call).pending
                        /\ log[Host(m)] # <<>>
                        /\ Event(Host(m)).type = "HostCall" /\ IsSysEntry(Event(Host(m)))
HostHalf(m) ==
  /\ InTurn(UsesOf(HostOpen(m)), log[Host(m)], Opens, {"HostDmaC"})
  /\ host[m].msix # None =>
       OpenedBy(host[m].msix, {"HostMsiX"}) /\ FirstEvent(host[m].msix).id = 0
  /\ \A i \in DOMAIN host[m].dmas :
       OpenedBy(host[m].dmas[i], HostDmaExecution) /\ FirstEvent(host[m].dmas[i]).id # 0
  /\ CallInv(m)

PendingDma(id) ==
  LET es == SpanOf(id).events
  IN /\ SpanOf(id).pending /\ es[1].type = "NicDmaI"
     /\ es = <<es[1]>> \/ (es = <<es[1], es[2]>> /\ es[2].type = "NicDmaEx")
NicHalf(m) ==
  /\ InTurn(UsesOf(NicIssued(m)), log[Nic(m)], {"NicDmaI"}, {"NicDmaEx"})
  /\ InTurn(UsesOf(NicExecuted(m)), log[Nic(m)], {"NicDmaEx"}, {"NicDmaCW", "NicDmaCR"})
  /\ \A id \in NicOpen(m) : PendingDma(id)

PeersInv(m) == ChannelsInv(m) /\ HostHalf(m) /\ NicHalf(m)

LogsInv ==
  /\ DOMAIN log = Spanners
  /\ \A p \in Spanners : Sequence(log[p])
  /\ \A m \in Machines : \A i \in DOMAIN log[Host(m)] :
       /\ log[Host(m)][i].type = "HostMsiX" => log[Host(m)][i].id = 0
       /\ log[Host(m)][i].type \in HostDmaExecution => log[Host(m)][i].id # 0

(* A span has an event, that of an mmio is its issue.                      *)
EventsInv ==
  \A p \in Sources : \A id \in Ids(p) :
    /\ Sequence(SpanOf(id).events) /\ 1 \in DOMAIN SpanOf(id).events
    /\ SpanOf(id).kind = "HostMmio" => FirstEvent(id).type \in HostMmioIssue

(* What RightParent says of a span.                                        *)
Crosses(sp) ==
  \/ sp.kind \in {"NicMmio", "HostDma", "HostMsix"}
  \/ sp.kind = "NicEth" /\ sp.events[1].type = "NicRx"
Right(id) ==
  Crosses(SpanOf(id)) =>
    \E p \in Sources : /\ p # id[1] /\ SpanOf(id).parent \in Ids(p)
                       /\ FirstEvent(id).op = FirstEvent(SpanOf(id).parent).op
RightInv == \A p \in Spanners : \A id \in Ids(p) : Right(id)

InStepInv ==
  /\ LogsInv /\ EventsInv /\ RightInv
  /\ \A m \in Machines : PeersInv(m)

--------------------------------------------------------------------------------
(* What a step does to the spans.  All but those of X stay as they are.    *)
Keeps(X) ==
  /\ KindsKept /\ EventsInv'
  /\ \A p \in Sources : \A id \in Ids(p) :
       /\ id \notin X => SpanOf(id)' = SpanOf(id)
       /\ FirstEvent(id)' = FirstEvent(id)
       /\ SpanOf(id).kind # "HostCall" => SpanOf(id)'.parent = SpanOf(id).parent

(* A span that is new is right if its parent is; so the others stay.       *)
LEMMA RightKept ==
  ASSUME RightInv, NEW X, Keeps(X),
         \A p \in Spanners : \A id \in Ids(p)' : id \in Ids(p) \/ Right(id)'
  PROVE  RightInv'
<1> SUFFICES ASSUME NEW p \in Spanners, NEW id \in Ids(p)', id \in Ids(p), Crosses(SpanOf(id)')
             PROVE  Right(id)'
  BY DEF RightInv, Right
<1>1. Spanners \subseteq Sources
  BY DEF Sources
<1>2. /\ FirstEvent(id)' = FirstEvent(id) /\ SpanOf(id)'.kind = SpanOf(id).kind
      /\ SpanOf(id).kind # "HostCall" => SpanOf(id)'.parent = SpanOf(id).parent
  BY <1>1 DEF Keeps, KindsKept
<1>3. Crosses(SpanOf(id)) /\ SpanOf(id).kind # "HostCall"
  BY <1>2 DEF Crosses, FirstEvent
<1>4. PICK q \in Sources : /\ q # id[1] /\ SpanOf(id).parent \in Ids(q)
                           /\ FirstEvent(id).op = FirstEvent(SpanOf(id).parent).op
  BY <1>3 DEF RightInv, Right
<1>5. PICK par : par = SpanOf(id).parent
  OBVIOUS
<1>6. par \in Ids(q)' /\ FirstEvent(par)' = FirstEvent(par) /\ SpanOf(id)'.parent = par
  BY <1>2, <1>3, <1>4, <1>5 DEF Keeps, KindsKept
<1>7. FirstEvent(SpanOf(id).parent)' = FirstEvent(par)'
  BY <1>6
<1>8. QED
  BY <1>2, <1>4, <1>5, <1>6, <1>7 DEF Right

(* A new span.                                                             *)
LEMMA AppendedKeeps ==
  ASSUME KindsInv, EventsInv, NEW p \in Sources, NEW id, NEW sp, Appended(p, id, sp),
         Sequence(sp.events), 1 \in DOMAIN sp.events,
         sp.kind = "HostMmio" => sp.events[1].type \in HostMmioIssue
  PROVE  Keeps({}) /\ FirstEvent(id)' = sp.events[1]
<1>1. FirstEvent(id)' = sp.events[1]
  BY DEF Appended, FirstEvent
<1>2. \A q \in Sources : \A x \in Ids(q) : SpanOf(x)' = SpanOf(x) /\ FirstEvent(x)' = FirstEvent(x)
  BY DEF Appended, FirstEvent
<1>3. ASSUME NEW q \in Sources, NEW x \in Ids(q)'
      PROVE  /\ Sequence(SpanOf(x)'.events) /\ 1 \in DOMAIN SpanOf(x)'.events
             /\ SpanOf(x)'.kind = "HostMmio" => FirstEvent(x)'.type \in HostMmioIssue
  <2>1. CASE x \in Ids(q)
    BY <1>2, <2>1 DEF EventsInv
  <2>2. CASE x \notin Ids(q)
    <3>1. x = id
      BY <1>3, <2>2 DEF Appended
    <3>2. QED
      BY <1>1, <3>1 DEF Appended
  <2>3. QED
    BY <2>1, <2>2
<1>4. EventsInv'
  BY <1>3 DEF EventsInv
<1>5. QED
  BY <1>1, <1>2, <1>4 DEF Keeps, Appended

(* A span that was changed.                                                *)
LEMMA UpdatedKeeps ==
  ASSUME KindsInv, EventsInv, NEW p \in Sources, NEW id \in Ids(p), NEW sp, Updated(id, sp),
         Sequence(sp.events), 1 \in DOMAIN sp.events, sp.events[1] = SpanOf(id).events[1],
         sp.kind = SpanOf(id).kind, sp.kind = "HostCall" \/ sp.parent = SpanOf(id).parent
  PROVE  Keeps({id})
<1>1. \A q \in Sources : \A x \in Ids(q) : x # id => SpanOf(x)' = SpanOf(x)
  BY DEF Updated
<1>2. SpanOf(id)' = sp
  BY DEF Updated
<1>3. \A q \in Sources : \A x \in Ids(q) : FirstEvent(x)' = FirstEvent(x)
  BY <1>1, <1>2 DEF FirstEvent
<1>4. ASSUME NEW q \in Sources, NEW x \in Ids(q)'
      PROVE  /\ Sequence(SpanOf(x)'.events) /\ 1 \in DOMAIN SpanOf(x)'.events
             /\ SpanOf(x)'.kind = "HostMmio" => FirstEvent(x)'.type \in HostMmioIssue
  <2>1. x \in Ids(q)
    BY DEF Updated
  <2>2. CASE x = id
    BY <1>2, <1>3, <2>1, <2>2 DEF EventsInv
  <2>3. CASE x # id
    BY <1>1, <1>3, <2>1, <2>3 DEF EventsInv
  <2>4. QED
    BY <2>2, <2>3
<1>5. EventsInv'
  BY <1>4 DEF EventsInv
<1>6. ASSUME NEW q \in Sources, NEW x \in Ids(q), SpanOf(x).kind # "HostCall"
      PROVE  SpanOf(x)'.parent = SpanOf(x).parent
  BY <1>1, <1>2, <1>6
<1>7. QED
  BY <1>1, <1>3, <1>5, <1>6 DEF Keeps, Updated

(* Spans that stay.                                                        *)
LEMMA SameKeeps ==
  ASSUME EventsInv, spans' = spans
  PROVE  Keeps({})
BY DEF Keeps, KindsKept, EventsInv, FirstEvent, SpanOf, Ids
--------------------------------------------------------------------------------
(* What a step leaves of the channels, the pending spans and the logs.     *)

(* The contexts in a channel name spans that are there.                    *)
LEMMA ParentsThere ==
  ASSUME KindsInv, NEW q \in Queues
  PROVE  /\ Sequence(queue[q])
         /\ \A j \in DOMAIN queue[q] : \E p \in Sources : queue[q][j].parent \in Ids(p)
<1>1. q[2] \in Machines
  BY DEF Queues
<1>2. Host(q[2]) \in Sources /\ Nic(q[2]) \in Sources /\ Net(q[2]) \in Sources
  BY <1>1, SourcesApart
<1>3. QED
  BY <1>2 DEF KindsInv, QueuesInv, Carries, OfKind

(* The tokens are a sequence, too.                                         *)
LEMMA TokensAre ==
  ASSUME KindsInv, NEW q \in Queues
  PROVE  /\ Sequence(QueueTokens(q)) /\ Len(QueueTokens(q)) = Len(queue[q])
         /\ DOMAIN QueueTokens(q) = DOMAIN queue[q]
<1>1. PICK n : n = Len(queue[q])
  OBVIOUS
<1>2. n \in Nat /\ DOMAIN queue[q] = 1 .. n
  BY <1>1, ParentsThere DEF Sequence
<1>3. PICK f : f = QueueTokens(q)
  OBVIOUS
<1>4. f \in [1 .. n -> {f[j] : j \in 1 .. n}]
  BY <1>2, <1>3 DEF QueueTokens
<1>5. f \in Seq({f[j] : j \in 1 .. n})
  BY <1>2, <1>4, FunctionIsSequence
<1>6. DOMAIN f = 1 .. n
  BY <1>4
<1>7. Len(f) = n
  BY <1>2, <1>5, <1>6
<1>8. QED
  BY <1>1, <1>2, <1>3, <1>5, <1>6, <1>7 DEF Sequence

(* A channel that stays.                                                   *)
LEMMA TokensSame ==
  ASSUME KindsInv, NEW X, Keeps(X), NEW q \in Queues, queue'[q] = queue[q]
  PROVE  QueueTokens(q)' = QueueTokens(q)
<1>1. \A j \in DOMAIN queue[q] : FirstEvent(queue[q][j].parent)' = FirstEvent(queue[q][j].parent)
  <2> SUFFICES ASSUME NEW j \in DOMAIN queue[q]
               PROVE  FirstEvent(queue[q][j].parent)' = FirstEvent(queue[q][j].parent)
    OBVIOUS
  <2>0. PICK p \in Sources : queue[q][j].parent \in Ids(p)
    BY ParentsThere
  <2>1. PICK par : par = queue[q][j].parent /\ par \in Ids(p)
    BY <2>0
  <2>2. FirstEvent(par)' = FirstEvent(par)
    BY <2>1 DEF Keeps
  <2>3. par' = par /\ queue'[q][j].parent = par
    BY <2>1
  <2>4. QED
    BY <2>1, <2>2, <2>3 DEF FirstEvent, SpanOf
<1>2. QED
  BY <1>1 DEF QueueTokens, FirstEvent, SpanOf

(* A context is taken: the first token.                                    *)
LEMMA TokensPopped ==
  ASSUME KindsInv, NEW X, Keeps(X), NEW q \in Queues, CanPop(q), queue'[q] = Tail(queue[q])
  PROVE  /\ Taken(QueueTokens(q)', QueueTokens(q)) /\ QueueTokens(q) # <<>>
         /\ QueueTokens(q)[1] = <<FirstEvent(Front(q).parent).op, Front(q).expectation>>
<1>1. PICK a, b, f, g : a = queue[q] /\ b = queue'[q] /\ f = QueueTokens(q) /\ g = QueueTokens(q)'
  OBVIOUS
<1>2. Sequence(a) /\ a # <<>> /\ b = Tail(a)
  BY <1>1, ParentsThere DEF CanPop
<1>3. Taken(b, a)
  BY <1>2, Taking1
<1>4. Sequence(f) /\ Len(f) = Len(a) /\ DOMAIN f = DOMAIN a
  BY <1>1, TokensAre
<1>5. /\ Len(a) \in Nat \ {0} /\ DOMAIN a = 1 .. Len(a) /\ DOMAIN b = 1 .. Len(a) - 1
      /\ \A i \in DOMAIN b : b[i] = a[i + 1]
      /\ Head(a) = a[1]
  BY <1>3 DEF Taken
<1>6. /\ f = [j \in DOMAIN a |-> <<FirstEvent(a[j].parent).op, a[j].expectation>>]
      /\ g = [j \in DOMAIN b |-> <<FirstEvent(b[j].parent)'.op, b[j].expectation>>]
  BY <1>1 DEF QueueTokens, FirstEvent, SpanOf
<1>7. ASSUME NEW i \in DOMAIN b PROVE g[i] = f[i + 1]
  <2>1. i + 1 \in DOMAIN a /\ b[i] = a[i + 1]
    BY <1>5
  <2>2. PICK j \in DOMAIN a : j = i + 1
    BY <2>1
  <2>3. PICK p \in Sources : a[j].parent \in Ids(p)
    BY <1>1, ParentsThere
  <2>4. PICK par : par = a[j].parent
    OBVIOUS
  <2>5. FirstEvent(par)' = FirstEvent(par)
    BY <2>3, <2>4 DEF Keeps
  <2>6. b[i] = a[j] /\ f[j] = <<FirstEvent(par).op, a[j].expectation>>
    BY <1>6, <2>1, <2>2, <2>4
  <2>7. g[i] = <<FirstEvent(par)'.op, a[j].expectation>>
    BY <1>6, <2>4, <2>6
  <2>8. QED
    BY <2>2, <2>5, <2>6, <2>7
<1>8. Sequence(g)
  <2>1. PICK n : n = Len(a) - 1
    OBVIOUS
  <2>2. n \in Nat /\ g \in [1 .. n -> {g[j] : j \in 1 .. n}]
    BY <1>5, <1>6, <2>1
  <2>3. g \in Seq({g[j] : j \in 1 .. n})
    BY <2>2, FunctionIsSequence
  <2>4. QED
    BY <2>3 DEF Sequence
<1>9. Taken(g, f)
  <2>1. Head(f) = f[1]
    BY <1>4, <1>5 DEF Sequence
  <2>2. DOMAIN g = 1 .. Len(f) - 1
    BY <1>4, <1>5, <1>6
  <2>3. QED
    BY <1>4, <1>5, <1>6, <1>7, <1>8, <2>1, <2>2 DEF Taken
<1>10. f # <<>>
  BY <1>4, <1>5
<1>11. f[1] = <<FirstEvent(Front(q).parent).op, Front(q).expectation>>
  <2>1. a[1] = Front(q) /\ 1 \in DOMAIN a
    BY <1>1, <1>5 DEF Front
  <2>2. QED
    BY <1>6, <2>1
<1>12. QED
  BY <1>1, <1>9, <1>10, <1>11

(* A context is sent: its token comes last.                                *)
LEMMA TokensPushed ==
  ASSUME KindsInv, NEW X, Keeps(X), NEW q \in Queues, NEW con, NEW u,
         queue'[q] = Append(queue[q], con), FirstEvent(con.parent)' = u
  PROVE  Extended(QueueTokens(q)', QueueTokens(q), <<u.op, con.expectation>>)
<1>1. PICK a, b, f, g : a = queue[q] /\ b = queue'[q] /\ f = QueueTokens(q) /\ g = QueueTokens(q)'
  OBVIOUS
<1>2. Sequence(a) /\ b = Append(a, con)
  BY <1>1, ParentsThere
<1>3. Extended(b, a, con)
  BY <1>2, Appending
<1>4. Sequence(f) /\ Len(f) = Len(a) /\ DOMAIN f = DOMAIN a
  BY <1>1, TokensAre
<1>5. /\ Len(a) \in Nat /\ DOMAIN a = 1 .. Len(a) /\ DOMAIN b = 1 .. Len(a) + 1
      /\ \A i \in DOMAIN a : b[i] = a[i]
      /\ b[Len(a) + 1] = con
  BY <1>3 DEF Extended
<1>6. /\ f = [j \in DOMAIN a |-> <<FirstEvent(a[j].parent).op, a[j].expectation>>]
      /\ g = [j \in DOMAIN b |-> <<FirstEvent(b[j].parent)'.op, b[j].expectation>>]
  BY <1>1 DEF QueueTokens, FirstEvent, SpanOf
<1>7. ASSUME NEW i \in DOMAIN a PROVE g[i] = f[i]
  <2>1. i \in DOMAIN b /\ b[i] = a[i]
    BY <1>5
  <2>3. PICK p \in Sources : a[i].parent \in Ids(p)
    BY <1>1, ParentsThere
  <2>4. PICK par : par = a[i].parent
    OBVIOUS
  <2>5. FirstEvent(par)' = FirstEvent(par)
    BY <2>3, <2>4 DEF Keeps
  <2>6. f[i] = <<FirstEvent(par).op, a[i].expectation>>
    BY <1>6, <2>4
  <2>7. g[i] = <<FirstEvent(par)'.op, a[i].expectation>>
    BY <1>6, <2>1, <2>4
  <2>8. QED
    BY <2>5, <2>6, <2>7
<1>8. PICK n : n = Len(a) + 1
  OBVIOUS
<1>9. n \in Nat /\ DOMAIN g = 1 .. n /\ g \in [1 .. n -> {g[j] : j \in 1 .. n}]
  BY <1>5, <1>6, <1>8
<1>10. g \in Seq({g[j] : j \in 1 .. n})
  BY <1>9, FunctionIsSequence
<1>11. Len(g) = n
  BY <1>9, <1>10
<1>12. g[n] = <<u.op, con.expectation>>
  <2>1. n \in DOMAIN b /\ b[n] = con
    BY <1>5, <1>8
  <2>2. g[n] = <<FirstEvent(con.parent)'.op, con.expectation>>
    BY <1>6, <2>1
  <2>3. QED
    BY <2>2
<1>13. Extended(g, f, <<u.op, con.expectation>>)
  BY <1>4, <1>5, <1>7, <1>8, <1>9, <1>10, <1>11, <1>12 DEF Extended, Sequence
<1>14. QED
  BY <1>1, <1>13

(* The first event of p is consumed.                                       *)
Consumed(p) ==
  /\ Taken(log'[p], log[p]) /\ Event(p) = log[p][1]
  /\ \A q \in Spanners : q # p => log'[q] = log[q]

(* consume keeps the logs what they are.                                   *)
LEMMA Consuming ==
  ASSUME LogsInv, NEW p \in Spanners, log[p] # <<>>, Consume(p)
  PROVE  Consumed(p) /\ LogsInv'
<1>1. Sequence(log[p]) /\ DOMAIN log = Spanners
  BY DEF LogsInv
<1>2. log'[p] = Tail(log[p]) /\ \A q \in Spanners : q # p => log'[q] = log[q]
  BY <1>1 DEF Consume
<1>3. DOMAIN log' = Spanners
  BY <1>1 DEF Consume
<1>4. Taken(log'[p], log[p])
  BY <1>1, <1>2, Taking1
<1>5. Event(p) = log[p][1]
  BY <1>4 DEF Taken, Event
<1>6. \A q \in Spanners : Sequence(log'[q])
  BY <1>2, <1>4 DEF LogsInv, Taken
<1>7. ASSUME NEW m \in Machines, NEW i \in DOMAIN log'[Host(m)]
      PROVE  \E j \in DOMAIN log[Host(m)] : log'[Host(m)][i] = log[Host(m)][j]
  <2>1. Host(m) \in Spanners
    BY SourcesApart
  <2>2. CASE Host(m) # p
    BY <1>2, <2>1, <2>2
  <2>3. CASE Host(m) = p
    <3>1. i + 1 \in DOMAIN log[p] /\ log'[p][i] = log[p][i + 1]
      BY <1>4, <2>3, TakenPositions
    <3>2. QED
      BY <2>3, <3>1
  <2>4. QED
    BY <2>2, <2>3
<1>8. LogsInv'
  BY <1>3, <1>6, <1>7 DEF LogsInv
<1>9. QED
  BY <1>2, <1>4, <1>5, <1>8 DEF Consumed

(* Spans that stay have the uses they had.                                 *)
LEMMA UsesKept ==
  ASSUME NEW X, Keeps(X), NEW p \in Sources, NEW D, D \subseteq Ids(p)
  PROVE  \A id \in D : UseOf(FirstEvent(id))' = UseOf(FirstEvent(id))
<1> SUFFICES ASSUME NEW id \in D PROVE UseOf(FirstEvent(id))' = UseOf(FirstEvent(id))
  OBVIOUS
<1>1. FirstEvent(id)' = FirstEvent(id)
  BY DEF Keeps
<1>2. QED
  BY <1>1 DEF UseOf

(* What is pending at host and card.                                       *)
LEMMA OpenAre ==
  ASSUME KindsInv, NEW m \in Machines
  PROVE  /\ HostOpen(m) \subseteq Ids(Host(m)) /\ NicOpen(m) \subseteq Ids(Nic(m))
         /\ host[m].msix # None => host[m].msix \in HostOpen(m)
         /\ \A i \in DOMAIN host[m].dmas : host[m].dmas[i] \in HostOpen(m)
         /\ \A i \in DOMAIN nic[m].dmas : nic[m].dmas[i] \in NicOpen(m)
         /\ \A id \in HostOpen(m) : \/ id = host[m].msix /\ id # None
                                    \/ \E i \in DOMAIN host[m].dmas : id = host[m].dmas[i]
         /\ NicIssued(m) \subseteq NicOpen(m) /\ NicExecuted(m) \subseteq NicOpen(m)
         /\ host[m].call # None => host[m].call \in Ids(Host(m)) \ HostOpen(m)
<1>1. AllOf(host[m].dmas, Host(m), "HostDma")
  BY HostMembersAre DEF HostNames
<1>2. AllOf(nic[m].dmas, Nic(m), "NicDma")
  BY NicMembersAre
<1>3. host[m].msix # None => host[m].msix \in OfKind(Host(m), {"HostMsix"})
  BY HostMembersAre
<1>4. host[m].call # None => host[m].call \in OfKind(Host(m), {"HostCall"})
  BY HostMembersAre
<1>5. \A id \in HostOpen(m) : \/ id = host[m].msix /\ id # None
                              \/ \E i \in DOMAIN host[m].dmas : id = host[m].dmas[i]
  BY DEF HostOpen
<1>6. \A id \in HostOpen(m) : id \in OfKind(Host(m), {"HostMsix", "HostDma"})
  BY <1>1, <1>3, <1>5 DEF AllOf, OfKind
<1>7. NicOpen(m) \subseteq Ids(Nic(m))
  BY <1>2 DEF AllOf, OfKind, NicOpen
<1>8. host[m].call # None => host[m].call \in Ids(Host(m)) \ HostOpen(m)
  BY <1>4, <1>6 DEF OfKind
<1>9. QED
  BY <1>5, <1>6, <1>7, <1>8 DEF OfKind, HostOpen, NicOpen, NicIssued, NicExecuted

(* The host m does nothing to its pending spans.                           *)
LEMMA HostHalfSame ==
  ASSUME KindsInv, NEW m \in Machines, HostHalf(m), NEW X, Keeps(X), X \cap Ids(Host(m)) = {},
         host'[m] = host[m], log'[Host(m)] = log[Host(m)]
  PROVE  HostHalf(m)'
<1>1. PICK h, D : h = host[m] /\ D = HostOpen(m)
  OBVIOUS
<1>2. HostOpen(m)' = D
  BY <1>1 DEF HostOpen
<1>3. Host(m) \in Sources /\ D \subseteq Ids(Host(m))
  BY <1>1, OpenAre, SourcesApart
<1>4. \A id \in D : UseOf(FirstEvent(id))' = UseOf(FirstEvent(id))
  BY <1>3, UsesKept
<1>5. UsesOf(HostOpen(m))' = UsesOf(HostOpen(m))
  BY <1>1, <1>2, <1>4 DEF UsesOf
<1>6. InTurn(UsesOf(HostOpen(m)), log[Host(m)], Opens, {"HostDmaC"})'
  BY <1>5 DEF HostHalf, InTurn
<1>7. \A id \in Ids(Host(m)) : SpanOf(id)' = SpanOf(id)
  BY <1>3 DEF Keeps
<1>8. \A id \in Ids(Host(m)) : FirstEvent(id)' = FirstEvent(id) /\ \A types : OpenedBy(id, types)' = OpenedBy(id, types)
  BY <1>7 DEF FirstEvent, OpenedBy
<1>9. h.msix # None => OpenedBy(h.msix, {"HostMsiX"})' /\ FirstEvent(h.msix)'.id = 0
  BY <1>1, <1>3, <1>8, OpenAre DEF HostHalf
<1>10. \A i \in DOMAIN h.dmas :
         OpenedBy(h.dmas[i], HostDmaExecution)' /\ FirstEvent(h.dmas[i])'.id # 0
  BY <1>1, <1>3, <1>8, OpenAre DEF HostHalf
<1>11. CallInv(m)'
  <2>1. h.call # None => SpanOf(h.call)' = SpanOf(h.call)
    BY <1>1, <1>7, OpenAre
  <2>2. CallInv(m)
    BY DEF HostHalf
  <2>3. PICK c : c = h.call
    OBVIOUS
  <2>4. /\ c # None /\ ~h.copying => SpanOf(c).pending
        /\ h.copying => /\ c # None /\ ~SpanOf(c).pending
                        /\ log[Host(m)] # <<>>
                        /\ Event(Host(m)).type = "HostCall" /\ IsSysEntry(Event(Host(m)))
    BY <1>1, <2>2, <2>3 DEF CallInv
  <2>5. Event(Host(m))' = Event(Host(m))
    BY DEF Event
  <2>6. c # None => SpanOf(c)' = SpanOf(c)
    BY <2>1, <2>3
  <2>7. host'[m] = h /\ h.call = c /\ log'[Host(m)] = log[Host(m)]
    BY <1>1, <2>3
  <2>8. SpanOf(host[m].call)' = SpanOf(c)'
    BY <2>7 DEF SpanOf
  <2>9. QED
    BY <2>4, <2>5, <2>6, <2>7, <2>8 DEF CallInv, IsSysEntry
<1>12. /\ host[m].msix' = h.msix /\ host[m].dmas' = h.dmas
  BY <1>1
<1>13. host[m].msix' # None => OpenedBy(host[m].msix, {"HostMsiX"})' /\ FirstEvent(host[m].msix)'.id = 0
  BY <1>9, <1>12 DEF OpenedBy, FirstEvent, SpanOf
<1>14. \A i \in DOMAIN host[m].dmas' :
         OpenedBy(host[m].dmas[i], HostDmaExecution)' /\ FirstEvent(host[m].dmas[i])'.id # 0
  BY <1>10, <1>12 DEF OpenedBy, FirstEvent, SpanOf
<1>15. QED
  BY <1>6, <1>11, <1>13, <1>14 DEF HostHalf

(* The same for the card.                                                  *)
LEMMA NicHalfSame ==
  ASSUME KindsInv, NEW m \in Machines, NicHalf(m), NEW X, Keeps(X), X \cap Ids(Nic(m)) = {},
         nic'[m] = nic[m], log'[Nic(m)] = log[Nic(m)]
  PROVE  NicHalf(m)'
<1>1. PICK D, D1, D2 : D = NicOpen(m) /\ D1 = NicIssued(m) /\ D2 = NicExecuted(m)
  OBVIOUS
<1>2. NicOpen(m)' = D
  BY <1>1 DEF NicOpen
<1>3. Nic(m) \in Sources /\ D \subseteq Ids(Nic(m)) /\ D1 \subseteq D /\ D2 \subseteq D
  BY <1>1, OpenAre, SourcesApart
<1>4. \A id \in D : UseOf(FirstEvent(id))' = UseOf(FirstEvent(id))
  BY <1>3, UsesKept
<1>5. \A id \in D : SpanOf(id)' = SpanOf(id)
  BY <1>3 DEF Keeps
<1>6. \A id \in D : (Executed(id)' <=> Executed(id)) /\ (PendingDma(id)' <=> PendingDma(id))
  BY <1>5 DEF Executed, PendingDma
<1>7. NicIssued(m)' = D1 /\ NicExecuted(m)' = D2
  BY <1>1, <1>2, <1>6 DEF NicIssued, NicExecuted
<1>8. UsesOf(NicIssued(m))' = UsesOf(NicIssued(m)) /\ UsesOf(NicExecuted(m))' = UsesOf(NicExecuted(m))
  BY <1>1, <1>3, <1>4, <1>7 DEF UsesOf
<1>9. /\ InTurn(UsesOf(NicIssued(m)), log[Nic(m)], {"NicDmaI"}, {"NicDmaEx"})'
      /\ InTurn(UsesOf(NicExecuted(m)), log[Nic(m)], {"NicDmaEx"}, {"NicDmaCW", "NicDmaCR"})'
  BY <1>8 DEF NicHalf, InTurn
<1>10. \A id \in NicOpen(m)' : PendingDma(id)'
  BY <1>1, <1>2, <1>6 DEF NicHalf
<1>11. QED
  BY <1>9, <1>10 DEF NicHalf

(* The channels between them stay.                                         *)
LEMMA ChannelsSame ==
  ASSUME KindsInv, NEW m \in Machines, ChannelsInv(m), NEW X, Keeps(X),
         host'[m].pciWrite = host[m].pciWrite,
         log'[Host(m)] = log[Host(m)], log'[Nic(m)] = log[Nic(m)],
         \A q \in {ToNic(m), FromNic(m), FromNet(m)} : queue'[q] = queue[q]
  PROVE  ChannelsInv(m)'
<1>1. ToNic(m) \in Queues /\ FromNic(m) \in Queues /\ FromNet(m) \in Queues
  BY DEF ToNic, FromNic, FromNet, Queues
<1>2. /\ QueueTokens(ToNic(m))' = QueueTokens(ToNic(m))
      /\ QueueTokens(FromNic(m))' = QueueTokens(FromNic(m))
      /\ QueueTokens(FromNet(m))' = QueueTokens(FromNet(m))
  BY <1>1, TokensSame
<1>3. QED
  BY <1>2 DEF ChannelsInv

(* What the events of each type expect.                                    *)
LEMMA Expectations ==
  ASSUME NEW e
  PROVE  /\ e.type \in HostMmioIssue \cup NicMmioTypes => Expects(e) = "Mmio"
         /\ e.type \in HostDmaExecution \cup {"NicDmaEx"} => Expects(e) = "Dma"
         /\ e.type \in {"HostMsiX", "NicMsix"} => Expects(e) = "Msix"
         /\ e.type = "NicRx" => Expects(e) = "Rx"
BY DEF Expects, HostMmioIssue, NicMmioTypes, HostDmaExecution

(* What is left to show of a step of host or card m.                       *)
LEMMA Reached ==
  ASSUME KindsInv, InStepInv, NEW m \in Machines, NEW X, Keeps(X),
         X \subseteq Ids(Host(m)) \cup Ids(Nic(m)),
         \A n \in Machines : n # m =>
           /\ host'[n] = host[n] /\ nic'[n] = nic[n]
           /\ log'[Host(n)] = log[Host(n)] /\ log'[Nic(n)] = log[Nic(n)]
           /\ \A q \in {ToNic(n), FromNic(n), FromNet(n)} : queue'[q] = queue[q],
         \A p \in Spanners : \A id \in Ids(p)' : id \in Ids(p) \/ Right(id)',
         LogsInv', ChannelsInv(m)', HostHalf(m)', NicHalf(m)'
  PROVE  InStepInv'
<1>1. EventsInv' /\ RightInv'
  BY RightKept DEF Keeps, InStepInv
<1>2. ASSUME NEW n \in Machines PROVE PeersInv(n)'
  <2>1. CASE n = m
    BY <2>1 DEF PeersInv
  <2>2. CASE n # m
    <3>1. ChannelsInv(n) /\ HostHalf(n) /\ NicHalf(n)
      BY DEF InStepInv, PeersInv
    <3>2. X \cap Ids(Host(n)) = {} /\ X \cap Ids(Nic(n)) = {}
      <4>1. /\ Host(m) # Host(n) /\ Host(m) # Nic(n) /\ Nic(m) # Host(n) /\ Nic(m) # Nic(n)
        BY <2>2 DEF Host, Nic
      <4>2. \A p, q : p # q => Ids(p) \cap Ids(q) = {}
        BY DEF Ids
      <4>3. QED
        BY <4>1, <4>2
    <3>3. HostHalf(n)'
      BY <2>2, <3>1, <3>2, HostHalfSame
    <3>4. NicHalf(n)'
      BY <2>2, <3>1, <3>2, NicHalfSame
    <3>5. ChannelsInv(n)'
      <4>1. host'[n].pciWrite = host[n].pciWrite
        BY <2>2
      <4>2. QED
        BY <2>2, <3>1, <4>1, ChannelsSame
    <3>6. QED
      BY <3>3, <3>4, <3>5 DEF PeersInv
  <2>3. QED
    BY <2>1, <2>2
<1>3. QED
  BY <1>1, <1>2 DEF InStepInv

(* The channels of m are apart.                                            *)
LEMMA QueuesApart ==
  ASSUME NEW m \in Machines
  PROVE  /\ {ToNic(m), FromNic(m), FromNet(m), Receives(m), ToNet(m)} \subseteq Queues
         /\ \A q \in {ToNic(m), FromNic(m), FromNet(m), Receives(m), ToNet(m)} :
              \A n : n # m => q \notin {ToNic(n), FromNic(n), FromNet(n)}
         /\ ToNic(m) # FromNic(m) /\ ToNic(m) # FromNet(m) /\ FromNic(m) # FromNet(m)
         /\ Receives(m) \notin {ToNic(m), FromNic(m), FromNet(m)}
         /\ ToNet(m) \notin {ToNic(m), FromNic(m), FromNet(m)}
BY DEF ToNic, FromNic, FromNet, Receives, ToNet, Queues

(* What host m does to its channels when it consumes e.                    *)
HostPasses(m, e) ==
  /\ host'[m].pciWrite = PciWriteAfter(host[m].pciWrite, e)
  /\ IF e.type \in HostMmioIssue /\ IsToDeviceBarNumber(e.bar) /\ ~host[m].pciWrite
     THEN \E id : /\ queue'[ToNic(m)] = Append(queue[ToNic(m)], Context(id, "Mmio", e.ts))
                  /\ FirstEvent(id)' = e
     ELSE queue'[ToNic(m)] = queue[ToNic(m)]
  /\ IF e.type \in Opens
     THEN CanPop(FromNic(m)) /\ queue'[FromNic(m)] = Tail(queue[FromNic(m)])
     ELSE queue'[FromNic(m)] = queue[FromNic(m)]
  /\ queue'[FromNet(m)] = queue[FromNet(m)]

(* Then they stay in step.                                                 *)
LEMMA HostChannels ==
  ASSUME KindsInv, NEW m \in Machines, ChannelsInv(m), LogsInv, NEW X, Keeps(X),
         NEW e, e = Event(Host(m)), Consumed(Host(m)), HostPasses(m, e)
  PROVE  ChannelsInv(m)'
<1>1. PICK L, L2, K, b, c :
        /\ L = log[Host(m)] /\ L2 = log'[Host(m)] /\ K = log[Nic(m)]
        /\ b = host[m].pciWrite /\ c = PciWriteAfter(b, e)
  OBVIOUS
<1>2. Taken(L2, L) /\ e = L[1] /\ K = log'[Nic(m)] /\ c = host'[m].pciWrite
  <2>1. Nic(m) \in Spanners /\ Nic(m) # Host(m)
    BY DEF Nic, Host, Spanners
  <2>2. K = log'[Nic(m)]
    BY <1>1, <2>1 DEF Consumed
  <2>3. Taken(L2, L) /\ e = L[1]
    BY <1>1 DEF Consumed
  <2>4. c = host'[m].pciWrite
    BY <1>1 DEF HostPasses
  <2>5. QED
    BY <2>2, <2>3, <2>4
<1>3. Sequence(L) /\ Sequence(K) /\ DOMAIN K \subseteq Nat \ {0} /\ DOMAIN L2 \subseteq Nat \ {0}
  <2>1. Sequence(L) /\ Sequence(K)
    BY <1>1, SourcesApart DEF LogsInv
  <2>2. DOMAIN K = 1 .. Len(K) /\ Len(K) \in Nat
    BY <2>1 DEF Sequence
  <2>3. DOMAIN L2 = 1 .. Len(L) - 1 /\ Len(L) \in Nat
    BY <1>2 DEF Taken
  <2>4. QED
    BY <2>1, <2>2, <2>3
<1>4. b \in BOOLEAN
  BY <1>1, HostMembersAre DEF HostRecords
<1>5. ToNic(m) \in Queues /\ FromNic(m) \in Queues /\ FromNet(m) \in Queues
  BY QueuesApart
<1>6. PICK Q, R, S, Q2, R2 :
        /\ Q = QueueTokens(ToNic(m)) /\ R = QueueTokens(FromNic(m)) /\ S = QueueTokens(FromNet(m))
        /\ Q2 = QueueTokens(ToNic(m))' /\ R2 = QueueTokens(FromNic(m))'
  OBVIOUS
<1>7. QueueTokens(FromNet(m))' = S
  BY <1>5, <1>6, TokensSame DEF HostPasses
<1>8. MmioStream(Q, L, b, K) /\ DmaStream(R, K, L) /\ RxStream(S, K)
  BY <1>1, <1>6 DEF ChannelsInv
<1>9. Sequence(Q) /\ Sequence(R)
  BY <1>5, <1>6, TokensAre
<1>10. MmioStream(Q2, L2, c, K)
  <2>1. IF L[1].type \in HostMmioIssue /\ IsToDeviceBarNumber(L[1].bar) /\ ~b
        THEN \A T : Extended(T, Q, Token(L[1])) => MmioStream(T, L2, c, K)
        ELSE MmioStream(Q, L2, c, K)
    BY <1>1, <1>2, <1>3, <1>4, <1>8, <1>9, HostSends
  <2>2. CASE e.type \in HostMmioIssue /\ IsToDeviceBarNumber(e.bar) /\ ~b
    <3>1. PICK id, con : /\ con = Context(id, "Mmio", e.ts)
                         /\ queue'[ToNic(m)] = Append(queue[ToNic(m)], con)
                         /\ FirstEvent(id)' = e
      BY <1>1, <2>2 DEF HostPasses
    <3>2. con.parent = id /\ con.expectation = "Mmio"
      BY <3>1 DEF Context
    <3>3. Extended(Q2, Q, <<e.op, "Mmio">>)
      <4>1. FirstEvent(con.parent)' = e
        BY <3>1, <3>2
      <4>2. Extended(Q2, Q, <<e.op, con.expectation>>)
        BY <1>5, <1>6, <3>1, <4>1, TokensPushed
      <4>3. QED
        BY <3>2, <4>2
    <3>4. Token(e) = <<e.op, "Mmio">>
      BY <2>2, Expectations DEF Token
    <3>5. QED
      BY <1>2, <2>1, <2>2, <3>3, <3>4
  <2>3. CASE ~(e.type \in HostMmioIssue /\ IsToDeviceBarNumber(e.bar) /\ ~b)
    <3>1. queue'[ToNic(m)] = queue[ToNic(m)]
      BY <1>1, <2>3 DEF HostPasses
    <3>2. Q2 = Q
      BY <1>5, <1>6, <3>1, TokensSame
    <3>3. QED
      BY <1>2, <2>1, <2>3, <3>2
  <2>4. QED
    BY <2>2, <2>3
<1>11. DmaStream(R2, K, L2)
  <2>1. IF L[1].type \in Opens
        THEN R # <<>> => /\ R[1] = Token(L[1])
                         /\ \A T : Taken(T, R) => DmaStream(T, K, L2)
        ELSE DmaStream(R, K, L2)
    BY <1>2, <1>3, <1>8, <1>9, HostTakes
  <2>2. CASE e.type \in Opens
    <3>1. Taken(R2, R) /\ R # <<>>
      BY <1>5, <1>6, <2>2, TokensPopped DEF HostPasses
    <3>2. QED
      BY <1>2, <2>1, <2>2, <3>1
  <2>3. CASE e.type \notin Opens
    <3>1. R2 = R
      BY <1>5, <1>6, <2>3, TokensSame DEF HostPasses
    <3>2. QED
      BY <1>2, <2>1, <2>3, <3>1
  <2>4. QED
    BY <2>2, <2>3
<1>12. QED
  BY <1>1, <1>2, <1>6, <1>7, <1>8, <1>10, <1>11 DEF ChannelsInv

(* The context that the host takes is the one of the event it is at.       *)
LEMMA HostMeets ==
  ASSUME KindsInv, NEW m \in Machines, ChannelsInv(m), LogsInv,
         log[Host(m)] # <<>>, NEW e, e = Event(Host(m)), e.type \in Opens, CanPop(FromNic(m))
  PROVE  /\ Front(FromNic(m)).parent \in Ids(Nic(m))
         /\ FirstEvent(Front(FromNic(m)).parent).op = e.op
         /\ Front(FromNic(m)).expectation = Expects(e)
<1>1. PICK L, K, R, L2 : /\ L = log[Host(m)] /\ K = log[Nic(m)] /\ R = QueueTokens(FromNic(m))
                         /\ L2 = Tail(L)
  OBVIOUS
<1>2. Sequence(L) /\ Sequence(K) /\ DOMAIN K \subseteq Nat \ {0}
  BY <1>1, SourcesApart DEF LogsInv, Sequence
<1>3. Taken(L2, L) /\ e = L[1]
  <2>1. Taken(L2, L)
    BY <1>1, <1>2, Taking1
  <2>2. QED
    BY <1>1, <2>1 DEF Taken, Event
<1>4. FromNic(m) \in Queues
  BY QueuesApart
<1>5. Sequence(R)
  BY <1>1, <1>4, TokensAre
<1>6. DmaStream(R, K, L)
  BY <1>1 DEF ChannelsInv
<1>7. R # <<>> => R[1] = Token(L[1])
  BY <1>2, <1>3, <1>5, <1>6, HostTakes
<1>8. PICK con : con = Front(FromNic(m))
  OBVIOUS
<1>9. R # <<>> /\ R[1] = <<FirstEvent(con.parent).op, con.expectation>>
  <2>1. PICK q : q = queue[FromNic(m)]
    OBVIOUS
  <2>2. Sequence(q) /\ q # <<>>
    BY <1>4, <2>1, ParentsThere DEF CanPop
  <2>3. Taken(Tail(q), q)
    BY <2>2, Taking1
  <2>4. 1 \in DOMAIN q /\ q[1] = con
    BY <1>8, <2>1, <2>3 DEF Taken, Front
  <2>5. DOMAIN R = DOMAIN q
    BY <1>1, <1>4, <2>1, TokensAre
  <2>6. QED
    BY <1>1, <2>1, <2>4, <2>5 DEF QueueTokens
<1>10. con.parent \in Ids(Nic(m))
  BY <1>4, <1>8, FrontFits DEF Carries, FromNic, OfKind
<1>11. QED
  BY <1>3, <1>7, <1>8, <1>9, <1>10 DEF Token

(* What card m does to its channels when it consumes e.                    *)
NicPasses(m, e) ==
  /\ IF e.type \in NicMmioTypes
     THEN CanPop(ToNic(m)) /\ queue'[ToNic(m)] = Tail(queue[ToNic(m)])
     ELSE queue'[ToNic(m)] = queue[ToNic(m)]
  /\ IF e.type \in Told
     THEN \E con, u : /\ queue'[FromNic(m)] = Append(queue[FromNic(m)], con)
                      /\ con.expectation = Expects(e)
                      /\ FirstEvent(con.parent)' = u /\ u.op = e.op
     ELSE queue'[FromNic(m)] = queue[FromNic(m)]
  /\ IF e.type = "NicRx"
     THEN CanPop(FromNet(m)) /\ queue'[FromNet(m)] = Tail(queue[FromNet(m)])
     ELSE queue'[FromNet(m)] = queue[FromNet(m)]

(* Then they stay in step.                                                 *)
LEMMA NicChannels ==
  ASSUME KindsInv, NEW m \in Machines, ChannelsInv(m), LogsInv, NEW X, Keeps(X),
         NEW e, e = Event(Nic(m)), Consumed(Nic(m)), NicPasses(m, e),
         host'[m].pciWrite = host[m].pciWrite
  PROVE  ChannelsInv(m)'
<1>1. PICK L, K, K2, b :
        /\ L = log[Host(m)] /\ K = log[Nic(m)] /\ K2 = log'[Nic(m)] /\ b = host[m].pciWrite
  OBVIOUS
<1>2. Taken(K2, K) /\ e = K[1] /\ L = log'[Host(m)] /\ b = host'[m].pciWrite
  <2>1. Host(m) \in Spanners /\ Nic(m) # Host(m)
    BY DEF Nic, Host, Spanners
  <2>2. L = log'[Host(m)]
    BY <1>1, <2>1 DEF Consumed
  <2>3. Taken(K2, K) /\ e = K[1]
    BY <1>1 DEF Consumed
  <2>4. QED
    BY <1>1, <2>2, <2>3
<1>3. Sequence(L) /\ Sequence(K) /\ DOMAIN L \subseteq Nat \ {0} /\ DOMAIN K2 \subseteq Nat \ {0}
  <2>1. Sequence(L) /\ Sequence(K)
    BY <1>1, SourcesApart DEF LogsInv
  <2>2. DOMAIN L = 1 .. Len(L) /\ Len(L) \in Nat
    BY <2>1 DEF Sequence
  <2>3. DOMAIN K2 = 1 .. Len(K) - 1 /\ Len(K) \in Nat
    BY <1>2 DEF Taken
  <2>4. QED
    BY <2>1, <2>2, <2>3
<1>4. b \in BOOLEAN
  BY <1>1, HostMembersAre DEF HostRecords
<1>5. ToNic(m) \in Queues /\ FromNic(m) \in Queues /\ FromNet(m) \in Queues
  BY QueuesApart
<1>6. PICK Q, R, S, Q2, R2, S2 :
        /\ Q = QueueTokens(ToNic(m)) /\ R = QueueTokens(FromNic(m)) /\ S = QueueTokens(FromNet(m))
        /\ Q2 = QueueTokens(ToNic(m))' /\ R2 = QueueTokens(FromNic(m))'
        /\ S2 = QueueTokens(FromNet(m))'
  OBVIOUS
<1>7. MmioStream(Q, L, b, K) /\ DmaStream(R, K, L) /\ RxStream(S, K)
  BY <1>1, <1>6 DEF ChannelsInv
<1>8. Sequence(Q) /\ Sequence(R) /\ Sequence(S)
  BY <1>5, <1>6, TokensAre
<1>9. MmioStream(Q2, L, b, K2)
  <2>1. IF K[1].type \in NicMmioTypes
        THEN Q # <<>> => /\ Q[1] = Token(K[1])
                         /\ \A T : Taken(T, Q) => MmioStream(T, L, b, K2)
        ELSE MmioStream(Q, L, b, K2)
    BY <1>2, <1>3, <1>4, <1>7, <1>8, NicTakes
  <2>2. CASE e.type \in NicMmioTypes
    <3>1. Taken(Q2, Q) /\ Q # <<>>
      BY <1>5, <1>6, <2>2, TokensPopped DEF NicPasses
    <3>2. QED
      BY <1>2, <2>1, <2>2, <3>1
  <2>3. CASE e.type \notin NicMmioTypes
    <3>1. Q2 = Q
      BY <1>5, <1>6, <2>3, TokensSame DEF NicPasses
    <3>2. QED
      BY <1>2, <2>1, <2>3, <3>1
  <2>4. QED
    BY <2>2, <2>3
<1>10. DmaStream(R2, K2, L)
  <2>0. DOMAIN L \subseteq Nat
    BY <1>3
  <2>1. IF K[1].type \in Told
        THEN \A T : Extended(T, R, Token(K[1])) => DmaStream(T, K2, L)
        ELSE DmaStream(R, K2, L)
    BY <1>2, <1>7, <1>8, <2>0, NicSends
  <2>2. CASE e.type \in Told
    <3>1. PICK con, u : /\ queue'[FromNic(m)] = Append(queue[FromNic(m)], con)
                        /\ con.expectation = Expects(e)
                        /\ FirstEvent(con.parent)' = u /\ u.op = e.op
      BY <2>2 DEF NicPasses
    <3>2. Extended(R2, R, <<u.op, con.expectation>>)
      BY <1>5, <1>6, <3>1, TokensPushed
    <3>3. Token(e) = <<u.op, con.expectation>>
      BY <3>1 DEF Token
    <3>4. QED
      BY <1>2, <2>1, <2>2, <3>2, <3>3
  <2>3. CASE e.type \notin Told
    <3>1. R2 = R
      BY <1>5, <1>6, <2>3, TokensSame DEF NicPasses
    <3>2. QED
      BY <1>2, <2>1, <2>3, <3>1
  <2>4. QED
    BY <2>2, <2>3
<1>11. RxStream(S2, K2)
  <2>1. IF K[1].type = "NicRx"
        THEN S # <<>> => S[1] = Token(K[1]) /\ \A T : Taken(T, S) => RxStream(T, K2)
        ELSE RxStream(S, K2)
    BY <1>2, <1>7, <1>8, NicReceives
  <2>2. CASE e.type = "NicRx"
    <3>1. Taken(S2, S) /\ S # <<>>
      BY <1>5, <1>6, <2>2, TokensPopped DEF NicPasses
    <3>2. QED
      BY <1>2, <2>1, <2>2, <3>1
  <2>3. CASE e.type # "NicRx"
    <3>1. S2 = S
      BY <1>5, <1>6, <2>3, TokensSame DEF NicPasses
    <3>2. QED
      BY <1>2, <2>1, <2>3, <3>1
  <2>4. QED
    BY <2>2, <2>3
<1>12. QED
  BY <1>1, <1>2, <1>6, <1>9, <1>10, <1>11 DEF ChannelsInv

(* What is next in a channel, as a token.                                  *)
LEMMA FrontToken ==
  ASSUME KindsInv, NEW q \in Queues, CanPop(q)
  PROVE  /\ QueueTokens(q) # <<>>
         /\ QueueTokens(q)[1] = <<FirstEvent(Front(q).parent).op, Front(q).expectation>>
<1>1. PICK s, con : s = queue[q] /\ con = Front(q)
  OBVIOUS
<1>2. Sequence(s) /\ s # <<>>
  BY <1>1, ParentsThere DEF CanPop
<1>3. Taken(Tail(s), s)
  BY <1>2, Taking1
<1>4. 1 \in DOMAIN s /\ s[1] = con
  BY <1>1, <1>3 DEF Taken, Front
<1>5. DOMAIN QueueTokens(q) = DOMAIN s
  BY <1>1, TokensAre
<1>6. QED
  BY <1>1, <1>4, <1>5 DEF QueueTokens

(* The context that the card takes is the one of the event it is at.       *)
LEMMA NicMeets ==
  ASSUME KindsInv, NEW m \in Machines, ChannelsInv(m), LogsInv,
         log[Nic(m)] # <<>>, NEW e, e = Event(Nic(m)),
         NEW q, \/ e.type \in NicMmioTypes /\ q = ToNic(m)
                \/ e.type = "NicRx" /\ q = FromNet(m),
         CanPop(q)
  PROVE  /\ FirstEvent(Front(q).parent).op = e.op
         /\ Front(q).expectation = Expects(e)
         /\ \E p \in Sources : p # Nic(m) /\ Front(q).parent \in Ids(p)
<1>1. PICK L, K, K2, b, Q, con :
        /\ L = log[Host(m)] /\ K = log[Nic(m)] /\ K2 = Tail(K) /\ b = host[m].pciWrite
        /\ Q = QueueTokens(q) /\ con = Front(q)
  OBVIOUS
<1>2. Sequence(L) /\ Sequence(K) /\ DOMAIN L \subseteq Nat \ {0}
  BY <1>1, SourcesApart DEF LogsInv, Sequence
<1>3. Taken(K2, K) /\ e = K[1]
  <2>1. Taken(K2, K)
    BY <1>1, <1>2, Taking1
  <2>2. QED
    BY <1>1, <2>1 DEF Taken, Event
<1>4. b \in BOOLEAN
  BY <1>1, HostMembersAre DEF HostRecords
<1>5. q \in Queues
  BY QueuesApart
<1>6. Sequence(Q) /\ Q # <<>> /\ Q[1] = <<FirstEvent(con.parent).op, con.expectation>>
  BY <1>1, <1>5, TokensAre, FrontToken
<1>7. Q[1] = Token(e)
  <2>1. CASE e.type \in NicMmioTypes /\ q = ToNic(m)
    <3>1. MmioStream(Q, L, b, K)
      BY <1>1, <2>1 DEF ChannelsInv
    <3>2. IF K[1].type \in NicMmioTypes
          THEN Q # <<>> => /\ Q[1] = Token(K[1])
                           /\ \A T : Taken(T, Q) => MmioStream(T, L, b, K2)
          ELSE MmioStream(Q, L, b, K2)
      BY <1>2, <1>3, <1>4, <1>6, <3>1, NicTakes
    <3>3. QED
      BY <1>3, <1>6, <2>1, <3>2
  <2>2. CASE e.type = "NicRx" /\ q = FromNet(m)
    <3>1. RxStream(Q, K)
      BY <1>1, <2>2 DEF ChannelsInv
    <3>2. QED
      BY <1>2, <1>3, <1>6, <2>2, <3>1, NicReceives
  <2>3. QED
    BY <2>1, <2>2
<1>8. Carries(q, con)
  BY <1>1, <1>5, FrontFits
<1>9. con.parent \in Ids(Host(m)) \/ con.parent \in Ids(Net(m))
  BY <1>8 DEF Carries, ToNic, FromNet, OfKind
<1>10. Host(m) \in Sources /\ Net(m) \in Sources /\ Host(m) # Nic(m) /\ Net(m) # Nic(m)
  BY SourcesApart DEF Host, Nic, Net
<1>11. QED
  BY <1>1, <1>6, <1>7, <1>9, <1>10 DEF Token

--------------------------------------------------------------------------------
(* The steps of a host.                                                    *)

(* The dmas and interrupts that are pending, once host m has the lists of  *)
(* h: those it had before and those of N.                                  *)
PendingAre(m, h, N) ==
  /\ h.msix # None => \/ h.msix = host[m].msix
                      \/ h.msix \in N /\ OpenedBy(h.msix, {"HostMsiX"})' /\ FirstEvent(h.msix)'.id = 0
  /\ \A i \in DOMAIN h.dmas :
       \/ \E j \in DOMAIN host[m].dmas : h.dmas[i] = host[m].dmas[j]
       \/ h.dmas[i] \in N /\ OpenedBy(h.dmas[i], HostDmaExecution)' /\ FirstEvent(h.dmas[i])'.id # 0

(* What they are when none of them was changed.                            *)
LEMMA HostLists ==
  ASSUME KindsInv, NEW m \in Machines, HostHalf(m), NEW X, Keeps(X), NEW h, host'[m] = h,
         X \cap ({h.dmas[i] : i \in DOMAIN h.dmas} \cup ({h.msix} \ {None})) \cap Ids(Host(m)) = {},
         NEW N, PendingAre(m, h, N)
  PROVE  /\ host'[m].msix # None =>
              OpenedBy(host[m].msix, {"HostMsiX"})' /\ FirstEvent(host[m].msix)'.id = 0
         /\ \A i \in DOMAIN host'[m].dmas :
              OpenedBy(host[m].dmas[i], HostDmaExecution)' /\ FirstEvent(host[m].dmas[i])'.id # 0
         /\ HostOpen(m)' = {h.dmas[i] : i \in DOMAIN h.dmas} \cup ({h.msix} \ {None})
         /\ \A id \in HostOpen(m) : UseOf(FirstEvent(id))' = UseOf(FirstEvent(id))
<1>1. Host(m) \in Sources /\ HostOpen(m) \subseteq Ids(Host(m))
  BY OpenAre, SourcesApart
<1>2. \A id \in Ids(Host(m)) : id \notin X =>
        SpanOf(id)' = SpanOf(id) /\ FirstEvent(id)' = FirstEvent(id)
  BY <1>1 DEF Keeps
<1>3. \A id \in Ids(Host(m)) : id \notin X => \A types : OpenedBy(id, types)' = OpenedBy(id, types)
  BY <1>2 DEF OpenedBy
<1>4. \A id \in HostOpen(m) : UseOf(FirstEvent(id))' = UseOf(FirstEvent(id))
  BY <1>1, UsesKept
<1>5. HostOpen(m)' = {h.dmas[i] : i \in DOMAIN h.dmas} \cup ({h.msix} \ {None})
  BY DEF HostOpen
<1>6. h.msix # None => OpenedBy(h.msix, {"HostMsiX"})' /\ FirstEvent(h.msix)'.id = 0
  <2> SUFFICES ASSUME h.msix # None, h.msix = host[m].msix
               PROVE  OpenedBy(h.msix, {"HostMsiX"})' /\ FirstEvent(h.msix)'.id = 0
    BY DEF PendingAre
  <2>1. h.msix \in Ids(Host(m)) /\ h.msix \notin X
    BY <1>1, OpenAre
  <2>2. PICK x : x = h.msix
    OBVIOUS
  <2>3. OpenedBy(x, {"HostMsiX"}) /\ FirstEvent(x).id = 0
    BY <2>2 DEF HostHalf
  <2>4. QED
    BY <1>2, <1>3, <2>1, <2>2, <2>3
<1>7. ASSUME NEW i \in DOMAIN h.dmas
      PROVE  OpenedBy(h.dmas[i], HostDmaExecution)' /\ FirstEvent(h.dmas[i])'.id # 0
  <2> SUFFICES ASSUME NEW j \in DOMAIN host[m].dmas, h.dmas[i] = host[m].dmas[j]
               PROVE  OpenedBy(h.dmas[i], HostDmaExecution)' /\ FirstEvent(h.dmas[i])'.id # 0
    BY DEF PendingAre
  <2>1. h.dmas[i] \in Ids(Host(m)) /\ h.dmas[i] \notin X
    BY <1>1, OpenAre
  <2>2. PICK x : x = h.dmas[i]
    OBVIOUS
  <2>3. OpenedBy(x, HostDmaExecution) /\ FirstEvent(x).id # 0
    BY <2>2 DEF HostHalf
  <2>4. QED
    BY <1>2, <1>3, <2>1, <2>2, <2>3
<1>8. PICK x, ds : x = h.msix /\ ds = h.dmas /\ host'[m].msix = x /\ host'[m].dmas = ds
  OBVIOUS
<1>9. host'[m].msix # None =>
        OpenedBy(host[m].msix, {"HostMsiX"})' /\ FirstEvent(host[m].msix)'.id = 0
  BY <1>6, <1>8 DEF OpenedBy, FirstEvent, SpanOf
<1>10. \A i \in DOMAIN host'[m].dmas :
         OpenedBy(host[m].dmas[i], HostDmaExecution)' /\ FirstEvent(host[m].dmas[i])'.id # 0
  BY <1>7, <1>8 DEF OpenedBy, FirstEvent, SpanOf
<1>11. QED
  BY <1>4, <1>5, <1>9, <1>10

(* Lists that stay.                                                        *)
LEMMA HostListsSame ==
  ASSUME KindsInv, NEW m \in Machines, HostHalf(m), NEW X, Keeps(X), NEW h, host'[m] = h,
         X \cap HostOpen(m) = {}, h.msix = host[m].msix, h.dmas = host[m].dmas
  PROVE  /\ host'[m].msix # None =>
              OpenedBy(host[m].msix, {"HostMsiX"})' /\ FirstEvent(host[m].msix)'.id = 0
         /\ \A i \in DOMAIN host'[m].dmas :
              OpenedBy(host[m].dmas[i], HostDmaExecution)' /\ FirstEvent(host[m].dmas[i])'.id # 0
         /\ UsesOf(HostOpen(m))' = UsesOf(HostOpen(m))
<1>1. PICK D, N : D = HostOpen(m) /\ N = {}
  OBVIOUS
<1>2. D = {h.dmas[i] : i \in DOMAIN h.dmas} \cup ({h.msix} \ {None})
  BY <1>1 DEF HostOpen
<1>3. PendingAre(m, h, N)
  BY DEF PendingAre
<1>4. X \cap ({h.dmas[i] : i \in DOMAIN h.dmas} \cup ({h.msix} \ {None})) \cap Ids(Host(m)) = {}
  BY <1>1, <1>2
<1>5. /\ host'[m].msix # None =>
           OpenedBy(host[m].msix, {"HostMsiX"})' /\ FirstEvent(host[m].msix)'.id = 0
      /\ \A i \in DOMAIN host'[m].dmas :
           OpenedBy(host[m].dmas[i], HostDmaExecution)' /\ FirstEvent(host[m].dmas[i])'.id # 0
      /\ HostOpen(m)' = {h.dmas[i] : i \in DOMAIN h.dmas} \cup ({h.msix} \ {None})
      /\ \A id \in HostOpen(m) : UseOf(FirstEvent(id))' = UseOf(FirstEvent(id))
  BY <1>3, <1>4, HostLists
<1>6. HostOpen(m)' = D /\ \A id \in D : UseOf(FirstEvent(id))' = UseOf(FirstEvent(id))
  BY <1>1, <1>2, <1>5
<1>7. UsesOf(HostOpen(m))' = UsesOf(HostOpen(m))
  BY <1>1, <1>6 DEF UsesOf
<1>8. QED
  BY <1>5, <1>7

(* A host that consumes an event e: what is left to show.                  *)
LEMMA HostConsumes ==
  ASSUME KindsInv, InStepInv, NEW m \in Machines, log[Host(m)] # <<>>, Consume(Host(m)),
         NEW e, e = Event(Host(m)), NEW X, Keeps(X), X \subseteq Ids(Host(m)),
         NEW h, HostBecomes(m, h), HostPasses(m, e),
         \A n \in Machines : n # m =>
           \A q \in {ToNic(n), FromNic(n), FromNet(n)} : queue'[q] = queue[q],
         \A p \in Spanners : \A id \in Ids(p)' : id \in Ids(p) \/ Right(id)',
         HostHalf(m)'
  PROVE  InStepInv'
<1>1. LogsInv /\ ChannelsInv(m) /\ NicHalf(m)
  BY DEF InStepInv, PeersInv
<1>2. Host(m) \in Spanners
  BY SourcesApart
<1>3. Consumed(Host(m)) /\ LogsInv'
  BY <1>1, <1>2, Consuming
<1>4. ChannelsInv(m)'
  BY <1>1, <1>3, HostChannels
<1>5. nic' = nic /\ \A n \in Machines : n # m => host'[n] = host[n]
  BY DEF HostBecomes
<1>6. \A n \in Machines : /\ n # m => log'[Host(n)] = log[Host(n)]
                          /\ log'[Nic(n)] = log[Nic(n)]
  BY <1>3 DEF Consumed, Host, Nic, Spanners
<1>7. X \cap Ids(Nic(m)) = {}
  BY DEF Ids, Host, Nic
<1>8. NicHalf(m)'
  BY <1>1, <1>5, <1>6, <1>7, NicHalfSame
<1>9. X \subseteq Ids(Host(m)) \cup Ids(Nic(m))
  OBVIOUS
<1>10. \A n \in Machines : n # m =>
         /\ host'[n] = host[n] /\ nic'[n] = nic[n]
         /\ log'[Host(n)] = log[Host(n)] /\ log'[Nic(n)] = log[Nic(n)]
         /\ \A q \in {ToNic(n), FromNic(n), FromNet(n)} : queue'[q] = queue[q]
  BY <1>5, <1>6
<1>11. QED
  BY <1>3, <1>4, <1>8, <1>9, <1>10, Reached

(* An event that concerns neither dmas and interrupts nor system calls.    *)
LEMMA HostQuiet ==
  ASSUME KindsInv, InStepInv, NEW m \in Machines, log[Host(m)] # <<>>, Consume(Host(m)),
         NEW e, e = Event(Host(m)), e.type \notin Opens \cup {"HostDmaC", "HostCall"},
         NEW X, Keeps(X), X \subseteq Ids(Host(m)), X \cap HostOpen(m) = {}, host[m].call \notin X,
         NEW h, HostBecomes(m, h), h.call = host[m].call, h.copying = host[m].copying,
         h.pciWrite = host[m].pciWrite, h.msix = host[m].msix, h.dmas = host[m].dmas,
         HostPasses(m, e),
         \A n \in Machines : n # m =>
           \A q \in {ToNic(n), FromNic(n), FromNet(n)} : queue'[q] = queue[q],
         \A p \in Spanners : \A id \in Ids(p)' : id \in Ids(p) \/ Right(id)'
  PROVE  InStepInv'
<1>1. LogsInv /\ HostHalf(m) /\ CallInv(m)
  BY DEF InStepInv, PeersInv, HostHalf
<1>2. Host(m) \in Spanners /\ Host(m) \in Sources
  BY SourcesApart
<1>3. PICK p, L, L2, F : p = Host(m) /\ L = log[p] /\ L2 = log'[p] /\ F = UsesOf(HostOpen(m))
  OBVIOUS
<1>4. Taken(L2, L) /\ e = L[1]
  BY <1>1, <1>2, <1>3, Consuming DEF Consumed
<1>5. host'[m] = h
  BY DEF HostBecomes
<1>6. /\ host'[m].msix # None =>
           OpenedBy(host[m].msix, {"HostMsiX"})' /\ FirstEvent(host[m].msix)'.id = 0
      /\ \A i \in DOMAIN host'[m].dmas :
           OpenedBy(host[m].dmas[i], HostDmaExecution)' /\ FirstEvent(host[m].dmas[i])'.id # 0
      /\ UsesOf(HostOpen(m))' = F
  BY <1>1, <1>3, <1>5, HostListsSame
<1>7. InTurn(F, L2, Opens, {"HostDmaC"})
  <2>1. InTurn(F, L, Opens, {"HostDmaC"})
    BY <1>1, <1>3 DEF HostHalf
  <2>2. QED
    BY <1>4, <2>1, TurnSkips
<1>8. CallInv(m)'
  <2>1. ~h.copying
    BY <1>1 DEF CallInv
  <2>2. PICK c : c = h.call /\ host'[m].call = c /\ host[m].call = c
    BY <1>5
  <2>3. c # None => SpanOf(c).pending
    BY <1>1, <2>1, <2>2 DEF CallInv
  <2>4. c # None => SpanOf(c)' = SpanOf(c)
    BY <1>2, <2>2, OpenAre DEF Keeps
  <2>5. SpanOf(host[m].call)' = SpanOf(c)'
    BY <2>2 DEF SpanOf
  <2>6. QED
    BY <1>5, <2>1, <2>2, <2>3, <2>4, <2>5 DEF CallInv
<1>9. HostHalf(m)'
  <2>1. InTurn(UsesOf(HostOpen(m)), log[Host(m)], Opens, {"HostDmaC"})'
    BY <1>3, <1>6, <1>7 DEF InTurn
  <2>2. QED
    BY <1>6, <1>8, <2>1 DEF HostHalf
<1>10. QED
  BY <1>9, HostConsumes

(* The channels stay as the host sends and takes nothing.                  *)
LEMMA HostPassesNothing ==
  ASSUME NEW m \in Machines, NEW e, queue' = queue, e.type \notin Opens \cup {"HostCall"},
         e.type \notin HostMmioIssue, NEW h, HostBecomes(m, h), h.pciWrite = host[m].pciWrite
  PROVE  HostPasses(m, e)
BY DEF HostPasses, HostBecomes, PciWriteAfter

(* Nothing new is right.                                                   *)
LEMMA NoNewSpans ==
  ASSUME \A p \in Sources : Ids(p)' = Ids(p)
  PROVE  \A p \in Spanners : \A id \in Ids(p)' : id \in Ids(p) \/ Right(id)'
BY DEF Sources

(* Events that are given up or skipped.                                    *)
LEMMA SkipHostInStep ==
  ASSUME KindsInv, InStepInv, NEW m \in Machines, SkipHost(m), UNCHANGED nic
  PROVE  InStepInv'
<1>1. PICK e, h, X : e = Event(Host(m)) /\ h = host[m] /\ X = {}
  OBVIOUS
<1>2. /\ log[Host(m)] # <<>> /\ Consume(Host(m)) /\ queue' = queue /\ spans' = spans
      /\ host' = host /\ e.type \notin HostTypes
  BY <1>1 DEF SkipHost, Skip
<1>3. Keeps(X)
  BY <1>1, <1>2, SameKeeps DEF InStepInv
<1>4. HostBecomes(m, h)
  BY <1>1, <1>2 DEF HostBecomes
<1>5. e.type \notin Opens \cup {"HostDmaC", "HostCall"} /\ e.type \notin HostMmioIssue
  BY <1>2 DEF HostTypes, HostMmioTypes, HostMmioIssue, Opens, HostDmaExecution
<1>6. HostPasses(m, e)
  BY <1>1, <1>2, <1>4, <1>5, HostPassesNothing
<1>7. \A p \in Spanners : \A id \in Ids(p)' : id \in Ids(p) \/ Right(id)'
  BY <1>2 DEF Ids
<1>8. X \subseteq Ids(Host(m)) /\ X \cap HostOpen(m) = {} /\ host[m].call \notin X
  BY <1>1
<1>9. QED
  BY <1>1, <1>2, <1>3, <1>4, <1>5, <1>6, <1>7, <1>8, HostQuiet

(* An event is added to the span id.                                       *)
LEMMA AddingKeeps ==
  ASSUME KindsInv, EventsInv, NEW m \in Machines, NEW p \in {Host(m), Nic(m)},
         NEW id \in Ids(p), NEW e, spans' = Update(id, Add(SpanOf(id), e))
  PROVE  /\ Keeps({id}) /\ \A q \in Sources : Ids(q)' = Ids(q)
         /\ SpanOf(id)' = Add(SpanOf(id), e)
<1>1. p \in Sources
  BY SourcesApart
<1>2. PICK sp, t : sp = SpanOf(id) /\ t = Add(sp, e)
  OBVIOUS
<1>3. DOMAIN sp = SpanFields /\ Sequence(sp.events) /\ 1 \in DOMAIN sp.events
  BY <1>1, <1>2 DEF KindsInv, SpansInv, EventsInv
<1>4. /\ t.kind = sp.kind /\ t.parent = sp.parent
      /\ Sequence(t.events) /\ 1 \in DOMAIN t.events /\ t.events[1] = sp.events[1]
  BY <1>2, <1>3, AddIs
<1>5. Updated(id, t)
  BY <1>2, Adds
<1>6. Keeps({id})
  BY <1>1, <1>2, <1>4, <1>5, UpdatedKeeps
<1>7. QED
  BY <1>2, <1>5, <1>6 DEF Updated

(* Whether a new span is right.                                            *)
RightParentOf(p, sp) ==
  Crosses(sp) => \E q \in Sources : /\ q # p /\ sp.parent \in Ids(q)
                                    /\ sp.events[1].op = FirstEvent(sp.parent).op

(* A span id is started.                                                   *)
LEMMA StartingKeeps ==
  ASSUME KindsInv, EventsInv, NEW m \in Machines, NEW p \in {Host(m), Nic(m)},
         NEW kind, NEW parent, NEW e, NEW sp, sp = NewSpan(kind, parent, e),
         parent = None \/ HasCause(m, sp), kind = "HostMmio" => e.type \in HostMmioIssue,
         spans' = Append1(p, sp), NEW id, id = NextId(p), RightParentOf(p, sp)
  PROVE  /\ Keeps({}) /\ FirstEvent(id)' = e /\ SpanOf(id)' = sp /\ id \notin Ids(p)
         /\ Ids(p)' = Ids(p) \cup {id}
         /\ \A q \in Spanners : \A x \in Ids(q)' : x \in Ids(q) \/ Right(x)'
<1>1. p \in Sources
  BY SourcesApart
<1>2. DOMAIN sp = SpanFields /\ sp.kind = kind /\ sp.parent = parent
  BY NewSpanIs
<1>3. Sequence(sp.events) /\ 1 \in DOMAIN sp.events /\ sp.events[1] = e
  BY NewSpanHas
<1>4. Appended(p, id, sp)
  BY <1>2, Starts
<1>5. PICK D : D = {}
  OBVIOUS
<1>6. Keeps(D) /\ FirstEvent(id)' = e
  BY <1>1, <1>2, <1>3, <1>4, <1>5, AppendedKeeps
<1>7. SpanOf(id)' = sp /\ id \notin Ids(p) /\ Ids(p)' = Ids(p) \cup {id} /\ id[1] = p
      /\ \A q \in Sources : q # p => Ids(q)' = Ids(q)
  BY <1>4 DEF Appended
<1>8. ASSUME NEW q \in Spanners, NEW x \in Ids(q)', x \notin Ids(q) PROVE Right(x)'
  <2>1. q \in Sources
    BY DEF Sources
  <2>2. x = id
    BY <1>7, <1>8, <2>1
  <2>3. SUFFICES ASSUME Crosses(sp) PROVE Right(id)'
    BY <1>7, <2>2 DEF Right
  <2>4. PICK r \in Sources : r # p /\ parent \in Ids(r) /\ e.op = FirstEvent(parent).op
    BY <1>2, <1>3, <2>3 DEF RightParentOf
  <2>5. parent \in Ids(r)' /\ FirstEvent(parent)' = FirstEvent(parent)
    BY <1>6, <2>4 DEF Keeps, KindsKept
  <2>6. PICK par : par = parent
    OBVIOUS
  <2>7. FirstEvent(SpanOf(id).parent)' = FirstEvent(par)'
    BY <1>2, <1>7, <2>6
  <2>8. SpanOf(id)'.parent \in Ids(r)'
    BY <1>2, <1>7, <2>5
  <2>9. FirstEvent(id)'.op = FirstEvent(SpanOf(id).parent)'.op
    BY <1>6, <2>4, <2>5, <2>6, <2>7
  <2>10. r # id[1]
    BY <1>7, <2>4
  <2>11. QED
    BY <2>8, <2>9, <2>10 DEF Right
<1>9. QED
  BY <1>5, <1>6, <1>7, <1>8

(* The pending mmios, pci accesses and interrupts of a device are neither  *)
(* pending dmas nor the system call.                                       *)
LEMMA OthersAre ==
  ASSUME KindsInv, NEW m \in Machines, NEW id,
         id \in OfKind(Host(m), {"HostMmio", "HostPci", "HostInt"})
  PROVE  id \in Ids(Host(m)) /\ id \notin HostOpen(m) /\ id # host[m].call
<1>1. \A x \in HostOpen(m) : x \in OfKind(Host(m), {"HostMsix", "HostDma"})
  BY HostMembersAre DEF HostNames, MaybeOf, AllOf, OfKind, HostOpen
<1>2. host[m].call # None => host[m].call \in OfKind(Host(m), {"HostCall"})
  BY HostMembersAre
<1>3. id # None
  <2>1. id \in Ids(Host(m))
    BY DEF OfKind
  <2>2. id = <<Host(m), id[2]>> /\ id[2] \in Nat /\ Host(m) \in Spanners
    BY <2>1, SpansAre, SourcesApart DEF KindsInv
  <2>3. id \in Spanners \X Nat
    BY <2>2
  <2>4. QED
    BY <2>3, MachineAssumption
<1>4. QED
  BY <1>1, <1>2, <1>3 DEF OfKind

(* An event that ends what is neither a dma, an interrupt nor a call.      *)
LEMMA HostAdds ==
  ASSUME KindsInv, InStepInv, NEW m \in Machines, log[Host(m)] # <<>>, Consume(Host(m)),
         NEW e, e = Event(Host(m)), e.type \notin Opens \cup {"HostDmaC", "HostCall"},
         e.type \notin HostMmioIssue, UNCHANGED queue,
         NEW id, id \in OfKind(Host(m), {"HostMmio", "HostPci", "HostInt"}),
         spans' = Update(id, Add(SpanOf(id), e)),
         NEW h, HostBecomes(m, h), h.call = host[m].call, h.copying = host[m].copying,
         h.pciWrite = host[m].pciWrite, h.msix = host[m].msix, h.dmas = host[m].dmas
  PROVE  InStepInv'
<1>1. id \in Ids(Host(m)) /\ id \notin HostOpen(m) /\ id # host[m].call
  BY OthersAre
<1>2. PICK X, p : X = {id} /\ p = Host(m)
  OBVIOUS
<1>3. Keeps(X) /\ \A q \in Sources : Ids(q)' = Ids(q)
  BY <1>1, <1>2, AddingKeeps DEF InStepInv
<1>4. X \subseteq Ids(Host(m)) /\ X \cap HostOpen(m) = {} /\ host[m].call \notin X
  BY <1>1, <1>2
<1>5. HostPasses(m, e)
  BY HostPassesNothing
<1>6. \A q \in Spanners : \A x \in Ids(q)' : x \in Ids(q) \/ Right(x)'
  BY <1>3, NoNewSpans
<1>7. \A n \in Machines : n # m =>
        \A q \in {ToNic(n), FromNic(n), FromNet(n)} : queue'[q] = queue[q]
  OBVIOUS
<1>8. QED
  BY <1>3, <1>4, <1>5, <1>6, <1>7, HostQuiet

(* An mmio goes on: the event is not an issue.                             *)
LEMMA AddToMmioInStep ==
  ASSUME KindsInv, InStepInv, NEW m \in Machines, AddToMmio(m), UNCHANGED nic
  PROVE  InStepInv'
<1>1. PICK p, e, g, i, id, sp :
        /\ p = Host(m) /\ e = Event(p) /\ g = host[m]
        /\ i = First(Taking(g.mmios, e)) /\ id = g.mmios[i] /\ sp = SpanOf(id)
  OBVIOUS
<1>2. g \in HostRecords /\ g.mmios \in Seq(SpannerIds) /\ AllOf(g.mmios, p, "HostMmio")
  BY <1>1, HostMembersAre DEF HostRecords, HostNames
<1>3. /\ log[Host(m)] # <<>> /\ Consume(Host(m)) /\ queue' = queue
      /\ e.type \in HostMmioTypes /\ Taking(g.mmios, e) # {}
      /\ spans' = Update(id, Add(sp, e))
  BY <1>1 DEF AddToMmio, At
<1>4. i \in DOMAIN g.mmios /\ i \in Taking(g.mmios, e)
  <2>1. i \in DOMAIN g.mmios
    BY <1>1, <1>2, <1>3, TakingFirst
  <2>2. Taking(g.mmios, e) \in SUBSET Nat
    BY <1>2 DEF Taking
  <2>3. QED
    BY <1>1, <1>3, <2>1, <2>2, FirstOf
<1>5. CanAdd(sp, e)
  BY <1>1, <1>4 DEF Taking
<1>6. id \in OfKind(p, {"HostMmio"}) /\ id \in Ids(p) /\ sp.kind = "HostMmio"
  BY <1>1, <1>2, <1>4 DEF AllOf, OfKind
<1>7. e.type \notin HostMmioIssue
  <2>1. 1 \in DOMAIN sp.events /\ sp.events[1].type \in HostMmioIssue
    BY <1>1, <1>6, SourcesApart DEF InStepInv, EventsInv, FirstEvent
  <2>2. sp.events[1].type \in Types(sp.events) \cap HostMmioIssue
    BY <2>1 DEF Types
  <2>3. HostMmioTakes(sp.events, e)
    BY <1>5, <1>6 DEF CanAdd, Takes
  <2>4. QED
    BY <2>2, <2>3 DEF HostMmioTakes
<1>8. e.type \notin Opens \cup {"HostDmaC", "HostCall"}
  BY <1>3 DEF HostMmioTypes, Opens, HostDmaExecution
<1>9. PICK h : /\ HostBecomes(m, h) /\ h.call = g.call /\ h.copying = g.copying
               /\ h.pciWrite = g.pciWrite /\ h.msix = g.msix /\ h.dmas = g.dmas
  <2>1. CASE Add(sp, e).pending
    <3>1. host' = host
      BY <1>1, <2>1 DEF AddToMmio
    <3>2. HostBecomes(m, g)
      BY <1>1, <3>1 DEF HostBecomes
    <3>3. QED
      BY <3>2
  <2>2. CASE ~Add(sp, e).pending
    <3>1. PICK w, h : w = Without(g.mmios, i) /\ h = [g EXCEPT !.mmios = w]
      OBVIOUS
    <3>2. host' = [host EXCEPT ![m] = h]
      BY <1>1, <2>2, <3>1 DEF AddToMmio
    <3>3. HostBecomes(m, h)
      BY <3>2, HostChanges
    <3>4. /\ h.call = g.call /\ h.copying = g.copying
          /\ h.pciWrite = g.pciWrite /\ h.msix = g.msix /\ h.dmas = g.dmas
      BY <1>2, <3>1 DEF HostRecords
    <3>5. QED
      BY <3>3, <3>4
  <2>3. QED
    BY <2>1, <2>2
<1>10. id \in OfKind(Host(m), {"HostMmio", "HostPci", "HostInt"})
  BY <1>1, <1>6 DEF OfKind
<1>11. QED
  BY <1>1, <1>3, <1>7, <1>8, <1>9, <1>10, HostAdds

(* HostPci and HostInt end, or the event is given up.                      *)
LEMMA EndPciInStep ==
  ASSUME KindsInv, InStepInv, NEW m \in Machines, EndPci(m), UNCHANGED nic
  PROVE  InStepInv'
<1>1. PICK e, g, id, h : /\ e = Event(Host(m)) /\ g = host[m] /\ id = g.pci
                         /\ h = [g EXCEPT !.pci = None]
  OBVIOUS
<1>2. /\ log[Host(m)] # <<>> /\ Consume(Host(m)) /\ queue' = queue /\ e.type = "HostConf"
      /\ id # None /\ spans' = Update(id, Add(SpanOf(id), e)) /\ host' = [host EXCEPT ![m] = h]
  BY <1>1 DEF EndPci, At
<1>3. g \in HostRecords /\ id \in OfKind(Host(m), {"HostPci"})
  BY <1>1, <1>2, HostMembersAre
<1>4. /\ h.call = g.call /\ h.copying = g.copying
      /\ h.pciWrite = g.pciWrite /\ h.msix = g.msix /\ h.dmas = g.dmas
  BY <1>1, <1>3 DEF HostRecords
<1>5. HostBecomes(m, h)
  BY <1>2, HostChanges
<1>6. e.type \notin Opens \cup {"HostDmaC", "HostCall"} /\ e.type \notin HostMmioIssue
  BY <1>2 DEF HostMmioIssue, Opens, HostDmaExecution
<1>7. id \in OfKind(Host(m), {"HostMmio", "HostPci", "HostInt"})
  BY <1>3 DEF OfKind
<1>8. QED
  BY <1>1, <1>2, <1>4, <1>5, <1>6, <1>7, HostAdds

(* The same of an interrupt that is posted and cleared.                    *)
LEMMA AddToIntInStep ==
  ASSUME KindsInv, InStepInv, NEW m \in Machines, AddToInt(m), UNCHANGED nic
  PROVE  InStepInv'
<1>1. PICK e, g, id : e = Event(Host(m)) /\ g = host[m] /\ id = g.int
  OBVIOUS
<1>2. /\ log[Host(m)] # <<>> /\ Consume(Host(m)) /\ queue' = queue /\ e.type \in HostIntTypes
      /\ id # None
  BY <1>1 DEF AddToInt, At
<1>3. g \in HostRecords /\ id \in OfKind(Host(m), {"HostInt"})
  BY <1>1, <1>2, HostMembersAre
<1>4. e.type \notin Opens \cup {"HostDmaC", "HostCall"} /\ e.type \notin HostMmioIssue
  BY <1>2 DEF HostMmioIssue, Opens, HostDmaExecution, HostIntTypes
<1>5. id \in OfKind(Host(m), {"HostMmio", "HostPci", "HostInt"})
  BY <1>3 DEF OfKind
<1>6. CASE CanAdd(SpanOf(id), e)
  <2>1. PICK h : h = [g EXCEPT !.int = None]
    OBVIOUS
  <2>2. spans' = Update(id, Add(SpanOf(id), e)) /\ host' = [host EXCEPT ![m] = h]
    BY <1>1, <1>6, <2>1 DEF AddToInt
  <2>3. /\ h.call = g.call /\ h.copying = g.copying
        /\ h.pciWrite = g.pciWrite /\ h.msix = g.msix /\ h.dmas = g.dmas
    BY <1>3, <2>1 DEF HostRecords
  <2>4. HostBecomes(m, h)
    BY <2>2, HostChanges
  <2>5. QED
    BY <1>1, <1>2, <1>4, <1>5, <2>2, <2>3, <2>4, HostAdds
<1>7. CASE ~CanAdd(SpanOf(id), e)
  <2>1. spans' = spans /\ host' = host
    BY <1>1, <1>7 DEF AddToInt
  <2>2. PICK X : X = {}
    OBVIOUS
  <2>3. Keeps(X)
    BY <2>1, <2>2, SameKeeps DEF InStepInv
  <2>4. HostBecomes(m, g)
    BY <1>1, <2>1 DEF HostBecomes
  <2>5. HostPasses(m, e)
    BY <1>1, <1>2, <1>4, <2>4, HostPassesNothing
  <2>6. \A p \in Spanners : \A x \in Ids(p)' : x \in Ids(p) \/ Right(x)'
    BY <2>1 DEF Ids
  <2>7. X \subseteq Ids(Host(m)) /\ X \cap HostOpen(m) = {} /\ host[m].call \notin X
    BY <2>2
  <2>8. QED
    BY <1>1, <1>2, <1>4, <2>3, <2>4, <2>5, <2>6, <2>7, HostQuiet
<1>8. QED
  BY <1>6, <1>7

(* A span that the system call causes is right, whatever its parent.       *)
LEMMA CalledKeeps ==
  ASSUME KindsInv, InStepInv, NEW m \in Machines, host[m].call # None,
         NEW kind \in {"HostMmio", "HostInt"},
         NEW e, kind = "HostMmio" => e.type \in HostMmioIssue,
         spans' = Append1(Host(m), NewSpan(kind, host[m].call, e)),
         NEW id, id = NextId(Host(m))
  PROVE  /\ Keeps({}) /\ FirstEvent(id)' = e
         /\ \A q \in Spanners : \A x \in Ids(q)' : x \in Ids(q) \/ Right(x)'
<1>1. PICK p, sp, c : p = Host(m) /\ c = host[m].call /\ sp = NewSpan(kind, c, e)
  OBVIOUS
<1>2. sp.kind = kind /\ sp.parent = c
  BY <1>1, NewSpanIs
<1>3. HasCause(m, sp)
  BY <1>1, <1>2, HostMembersAre DEF HasCause
<1>4. RightParentOf(p, sp)
  BY <1>2 DEF RightParentOf, Crosses
<1>5. p \in {Host(m), Nic(m)} /\ spans' = Append1(p, sp)
  BY <1>1
<1>6. EventsInv
  BY DEF InStepInv
<1>7. /\ Keeps({}) /\ FirstEvent(id)' = e
      /\ \A q \in Spanners : \A x \in Ids(q)' : x \in Ids(q) \/ Right(x)'
  BY <1>1, <1>3, <1>4, <1>5, <1>6, StartingKeeps
<1>8. QED
  BY <1>7

(* HandelMmio starts an mmio, and tells the card of an access of it.       *)
LEMMA StartMmioInStep ==
  ASSUME KindsInv, InStepInv, NEW m \in Machines, StartMmio(m), UNCHANGED nic
  PROVE  InStepInv'
<1>1. PICK p, e, g, n, ids, h, X :
        /\ p = Host(m) /\ e = Event(p) /\ g = host[m] /\ n = NextId(p)
        /\ ids = Append(g.mmios, n) /\ h = [g EXCEPT !.mmios = ids] /\ X = {}
  OBVIOUS
<1>2. /\ log[p] # <<>> /\ e.type \in HostMmioIssue /\ g.call # None /\ Consume(p)
      /\ spans' = Append1(p, NewSpan("HostMmio", g.call, e))
      /\ host' = [host EXCEPT ![m] = h]
      /\ IF EndsInDevice(m, e) THEN Push(ToNic(m), Context(n, "Mmio", e.ts)) ELSE UNCHANGED queue
  BY <1>1 DEF StartMmio, At
<1>3. /\ Keeps(X) /\ FirstEvent(n)' = e
      /\ \A q \in Spanners : \A x \in Ids(q)' : x \in Ids(q) \/ Right(x)'
  BY <1>1, <1>2, CalledKeeps
<1>4. g \in HostRecords
  BY <1>1, HostMembersAre
<1>5. /\ h.call = g.call /\ h.copying = g.copying
      /\ h.pciWrite = g.pciWrite /\ h.msix = g.msix /\ h.dmas = g.dmas
  BY <1>1, <1>4 DEF HostRecords
<1>6. HostBecomes(m, h)
  BY <1>2, HostChanges
<1>7. e.type \notin Opens \cup {"HostDmaC", "HostCall"}
  BY <1>2 DEF HostMmioIssue, Opens, HostDmaExecution
<1>8. DOMAIN queue = Queues /\ ToNic(m) \in Queues
  BY QueuesApart DEF KindsInv, QueuesInv
<1>9. host'[m].pciWrite = PciWriteAfter(host[m].pciWrite, e)
  BY <1>1, <1>5, <1>6, <1>7 DEF PciWriteAfter, HostBecomes
<1>10. HostPasses(m, e)
  <2>1. CASE EndsInDevice(m, e)
    <3>1. queue' = [queue EXCEPT ![ToNic(m)] = Append(@, Context(n, "Mmio", e.ts))]
      BY <1>2, <2>1 DEF Push
    <3>2. /\ queue'[ToNic(m)] = Append(queue[ToNic(m)], Context(n, "Mmio", e.ts))
          /\ queue'[FromNic(m)] = queue[FromNic(m)] /\ queue'[FromNet(m)] = queue[FromNet(m)]
      BY <1>8, <3>1, QueuesApart
    <3>3. e.type \in HostMmioIssue /\ IsToDeviceBarNumber(e.bar) /\ ~host[m].pciWrite
      BY <1>2, <2>1 DEF EndsInDevice
    <3>4. e.type \notin Opens
      BY <1>7
    <3>5. QED
      BY <1>3, <1>9, <3>2, <3>3, <3>4 DEF HostPasses
  <2>2. CASE ~EndsInDevice(m, e)
    <3>1. queue' = queue
      BY <1>2, <2>2
    <3>2. QED
      BY <1>7, <1>9, <2>2, <3>1 DEF HostPasses, EndsInDevice
  <2>3. QED
    BY <2>1, <2>2
<1>11. \A k \in Machines : k # m =>
         \A q \in {ToNic(k), FromNic(k), FromNet(k)} : queue'[q] = queue[q]
  <2>1. CASE EndsInDevice(m, e)
    <3>1. \A q \in Queues : q # ToNic(m) => queue'[q] = queue[q]
      BY <1>2, <1>8, <2>1 DEF Push
    <3>2. \A k \in Machines : {ToNic(k), FromNic(k), FromNet(k)} \subseteq Queues
      BY QueuesApart
    <3>3. QED
      BY <3>1, <3>2, QueuesApart
  <2>2. CASE ~EndsInDevice(m, e)
    BY <1>2, <2>2
  <2>3. QED
    BY <2>1, <2>2
<1>12. X \subseteq Ids(Host(m)) /\ X \cap HostOpen(m) = {} /\ host[m].call \notin X
  BY <1>1
<1>13. QED
  BY <1>1, <1>2, <1>3, <1>5, <1>6, <1>7, <1>10, <1>11, <1>12, HostQuiet

(* HandelInt starts an interrupt within the system call.                   *)
LEMMA StartIntInStep ==
  ASSUME KindsInv, InStepInv, NEW m \in Machines, StartInt(m), UNCHANGED nic
  PROVE  InStepInv'
<1>1. PICK p, e, g, n, h, X :
        /\ p = Host(m) /\ e = Event(p) /\ g = host[m] /\ n = NextId(p)
        /\ h = [g EXCEPT !.int = n] /\ X = {}
  OBVIOUS
<1>2. /\ log[p] # <<>> /\ e.type = "HostPostInt" /\ g.call # None /\ Consume(p)
      /\ spans' = Append1(p, NewSpan("HostInt", g.call, e))
      /\ host' = [host EXCEPT ![m] = h] /\ queue' = queue
  BY <1>1 DEF StartInt, At
<1>3. /\ Keeps(X)
      /\ \A q \in Spanners : \A x \in Ids(q)' : x \in Ids(q) \/ Right(x)'
  BY <1>1, <1>2, CalledKeeps
<1>4. g \in HostRecords
  BY <1>1, HostMembersAre
<1>5. /\ h.call = g.call /\ h.copying = g.copying
      /\ h.pciWrite = g.pciWrite /\ h.msix = g.msix /\ h.dmas = g.dmas
  BY <1>1, <1>4 DEF HostRecords
<1>6. HostBecomes(m, h)
  BY <1>2, HostChanges
<1>7. e.type \notin Opens \cup {"HostDmaC", "HostCall"} /\ e.type \notin HostMmioIssue
  BY <1>2 DEF HostMmioIssue, Opens, HostDmaExecution
<1>8. HostPasses(m, e)
  BY <1>1, <1>2, <1>5, <1>6, <1>7, HostPassesNothing
<1>9. X \subseteq Ids(Host(m)) /\ X \cap HostOpen(m) = {} /\ host[m].call \notin X
  BY <1>1
<1>10. QED
  BY <1>1, <1>2, <1>3, <1>5, <1>6, <1>7, <1>8, <1>9, HostQuiet

(* The spans of a host are t now: of the old ones only those of X changed, *)
(* and not their events.                                                   *)
LEMMA RewrittenKeeps ==
  ASSUME KindsInv, EventsInv, NEW p \in Sources, NEW t, Rewritten(p, t), NEW X,
         \A i \in DOMAIN spans[p] : /\ t[i].events = spans[p][i].events
                                    /\ <<p, i>> \in X \/ t[i] = spans[p][i],
         DOMAIN spans[p] \subseteq DOMAIN t,
         \A i \in DOMAIN t \ DOMAIN spans[p] :
           /\ Sequence(t[i].events) /\ 1 \in DOMAIN t[i].events
           /\ t[i].kind \in {"HostCall", "HostPci"}
  PROVE  /\ Keeps(X)
         /\ \A q \in Spanners : \A x \in Ids(q)' : x \in Ids(q) \/ Right(x)'
<1>1. /\ KindsKept
      /\ \A q \in Sources : q # p => /\ Ids(q)' = Ids(q)
                                     /\ \A x \in Ids(q) : SpanOf(x)' = SpanOf(x)
      /\ Ids(p)' = {<<p, i>> : i \in DOMAIN t}
      /\ \A i \in DOMAIN t : SpanOf(<<p, i>>)' = t[i]
      /\ \A x \in Ids(p) : SpanOf(x)'.parent = SpanOf(x).parent
  BY DEF Rewritten
<1>2. \A x \in Ids(p) : \E i \in DOMAIN spans[p] : x = <<p, i>> /\ SpanOf(x) = spans[p][i]
  BY DEF Ids, SpanOf
<1>3. \A x \in Ids(p) : SpanOf(x)'.events = SpanOf(x).events /\ (x \in X \/ SpanOf(x)' = SpanOf(x))
  <2> SUFFICES ASSUME NEW x \in Ids(p)
               PROVE  SpanOf(x)'.events = SpanOf(x).events /\ (x \in X \/ SpanOf(x)' = SpanOf(x))
    OBVIOUS
  <2>1. PICK i \in DOMAIN spans[p] : x = <<p, i>> /\ SpanOf(x) = spans[p][i]
    BY <1>2
  <2>2. SpanOf(x)' = t[i]
    BY <1>1, <2>1
  <2>3. QED
    BY <2>1, <2>2
<1>4. \A q \in Sources : \A x \in Ids(q) :
        SpanOf(x)'.events = SpanOf(x).events /\ (x \in X \/ SpanOf(x)' = SpanOf(x))
  BY <1>1, <1>3
<1>5. \A q \in Sources : \A x \in Ids(q) : FirstEvent(x)' = FirstEvent(x)
  BY <1>4 DEF FirstEvent
<1>6. \A q \in Sources : \A x \in Ids(q)' : x \in Ids(q) \/ 
        /\ Sequence(SpanOf(x)'.events) /\ 1 \in DOMAIN SpanOf(x)'.events
        /\ SpanOf(x)'.kind \in {"HostCall", "HostPci"}
  <2> SUFFICES ASSUME NEW x \in Ids(p)', x \notin Ids(p)
               PROVE  /\ Sequence(SpanOf(x)'.events) /\ 1 \in DOMAIN SpanOf(x)'.events
                      /\ SpanOf(x)'.kind \in {"HostCall", "HostPci"}
    BY <1>1
  <2>1. PICK i \in DOMAIN t : x = <<p, i>> /\ SpanOf(x)' = t[i]
    BY <1>1
  <2>2. i \notin DOMAIN spans[p]
    BY <2>1 DEF Ids
  <2>3. QED
    BY <2>1, <2>2
<1>7. EventsInv'
  <2> SUFFICES ASSUME NEW q \in Sources, NEW x \in Ids(q)'
               PROVE  /\ Sequence(SpanOf(x)'.events) /\ 1 \in DOMAIN SpanOf(x)'.events
                      /\ SpanOf(x)'.kind = "HostMmio" => FirstEvent(x)'.type \in HostMmioIssue
    BY DEF EventsInv
  <2>1. CASE x \in Ids(q)
    <3>1. SpanOf(x)'.kind = SpanOf(x).kind
      BY <1>1, <2>1 DEF KindsKept
    <3>2. QED
      BY <1>4, <1>5, <2>1, <3>1 DEF EventsInv
  <2>2. CASE x \notin Ids(q)
    BY <1>6, <2>2
  <2>3. QED
    BY <2>1, <2>2
<1>8. \A q \in Sources : \A x \in Ids(q) : SpanOf(x)'.parent = SpanOf(x).parent
  BY <1>1
<1>9. Keeps(X)
  BY <1>1, <1>4, <1>5, <1>7, <1>8 DEF Keeps
<1>10. \A q \in Spanners : \A x \in Ids(q)' : x \in Ids(q) \/ Right(x)'
  <2> SUFFICES ASSUME NEW q \in Spanners, NEW x \in Ids(q)', x \notin Ids(q) PROVE Right(x)'
    OBVIOUS
  <2>1. SpanOf(x)'.kind \in {"HostCall", "HostPci"}
    BY <1>6 DEF Sources
  <2>2. ~Crosses(SpanOf(x)')
    BY <2>1 DEF Crosses
  <2>3. QED
    BY <2>2 DEF Right, Crosses
<1>11. QED
  BY <1>9, <1>10

(* A pci access is started, and the events of the one before it stay.      *)
PciStarts(m) ==
  \E X, n :
    /\ X = {host[m].pci} \ {None} /\ n = NextId(Host(m))
    /\ Keeps(X) /\ \A x \in X : SpanOf(x)'.events = SpanOf(x).events
    /\ \A p \in Spanners : \A id \in Ids(p)' : id \in Ids(p) \/ id = n
    /\ SpanOf(n)' = NewSpan("HostPci", host[m].call, Event(Host(m)))
    /\ host'[m].pci = n /\ host'[m].int = host[m].int /\ host'[m].mmios = host[m].mmios
    /\ \A k \in Machines : k # m => host'[k] = host[k]

(* HandelPci starts a pci access and finishes one whose end was not seen.  *)
LEMMA StartPciInStep ==
  ASSUME KindsInv, InStepInv, NEW m \in Machines, StartPci(m), UNCHANGED nic
  PROVE  InStepInv' /\ PciStarts(m)
<1>1. PICK p, s, g, old, n, e, sp :
        /\ p = Host(m) /\ s = spans[p] /\ g = host[m] /\ old = g.pci /\ n = NextId(p)
        /\ e = Event(p) /\ sp = NewSpan("HostPci", g.call, e)
  OBVIOUS
<1>2. p \in Sources /\ p \in {Host(m), Nic(m)} /\ p \in Spanners /\ SpansInv
  BY <1>1, SourcesApart DEF KindsInv
<1>3. DOMAIN sp = SpanFields /\ sp.kind = "HostPci" /\ sp.parent = g.call
      /\ Sequence(sp.events) /\ 1 \in DOMAIN sp.events
  BY <1>1, NewSpanIs, NewSpanHas
<1>4. Sequence(s) /\ \A i \in DOMAIN s : DOMAIN s[i] = SpanFields
  BY <1>1, <1>2, SpansAre
<1>5. old # None => old \in OfKind(p, {"HostPci"})
  BY <1>1, HostMembersAre
<1>6. old # None => /\ old \in Ids(p) /\ SpanOf(old).kind = "HostPci"
                    /\ old[1] = p /\ old[2] \in DOMAIN s /\ old = <<p, old[2]>>
  BY <1>1, <1>2, <1>5, SpansAre DEF OfKind, SpanOf
<1>7. PICK x : x = [s[old[2]] EXCEPT !.pending = FALSE]
  OBVIOUS
<1>8. PICK r, t : /\ r = (IF old = None THEN s ELSE [s EXCEPT ![old[2]] = x])
                  /\ t = Append(r, sp)
  OBVIOUS
<1>9. /\ Sequence(r) /\ DOMAIN r = DOMAIN s
      /\ \A j \in DOMAIN s : /\ DOMAIN r[j] = SpanFields /\ r[j].events = s[j].events
                             /\ r[j].kind = s[j].kind /\ r[j].parent = s[j].parent
      /\ \A j \in DOMAIN s : r[j] = s[j] \/ (old # None /\ <<p, j>> = old)
  <2>1. CASE old = None
    BY <1>4, <1>8, <2>1
  <2>2. CASE old # None
    <3>1. /\ DOMAIN x = SpanFields /\ x.kind = s[old[2]].kind /\ x.parent = s[old[2]].parent
          /\ x.events = s[old[2]].events
      BY <1>4, <1>6, <1>7, <2>2 DEF SpanFields
    <3>2. r = [s EXCEPT ![old[2]] = x]
      BY <1>8, <2>2
    <3>3. /\ Sequence(r) /\ DOMAIN r = DOMAIN s
          /\ r[old[2]] = x /\ \A j \in DOMAIN s : j # old[2] => r[j] = s[j]
      BY <1>4, <1>6, <2>2, <3>2, Replacing
    <3>4. QED
      BY <1>4, <1>6, <2>2, <3>1, <3>3
  <2>3. QED
    BY <2>1, <2>2
<1>10. Extended(t, r, sp)
  BY <1>8, <1>9, Appending
<1>11. Len(r) = Len(s)
  BY <1>4, <1>9 DEF Sequence
<1>12. /\ Sequence(t) /\ DOMAIN t = DOMAIN s \cup {Len(s) + 1}
       /\ Len(s) \in Nat /\ DOMAIN s = 1 .. Len(s) /\ Len(s) + 1 \notin DOMAIN s
       /\ t[Len(s) + 1] = sp /\ \A i \in DOMAIN s : t[i] = r[i]
  BY <1>9, <1>10, <1>11 DEF Extended
<1>13. Rewritten(p, t)
  <2>1. spans' = [spans EXCEPT ![p] = t]
    BY <1>1, <1>7, <1>8 DEF StartPci
  <2>2. /\ DOMAIN spans[p] \subseteq DOMAIN t
        /\ \A i \in DOMAIN spans[p] :
             t[i].kind = spans[p][i].kind /\ t[i].parent = spans[p][i].parent
    BY <1>1, <1>9, <1>12
  <2>3. \A i \in DOMAIN t : DOMAIN t[i] = SpanFields
    BY <1>3, <1>9, <1>12
  <2>4. QED
    BY <1>2, <1>12, <2>1, <2>2, <2>3, SpansRewritten
<1>14. PICK X : X = {old} \ {None}
  OBVIOUS
<1>15. /\ Keeps(X)
       /\ \A q \in Spanners : \A y \in Ids(q)' : y \in Ids(q) \/ Right(y)'
  <2>1. \A i \in DOMAIN spans[p] : /\ t[i].events = spans[p][i].events
                                   /\ <<p, i>> \in X \/ t[i] = spans[p][i]
    BY <1>1, <1>9, <1>12, <1>14
  <2>2. DOMAIN spans[p] \subseteq DOMAIN t
    BY <1>1, <1>12
  <2>3. \A i \in DOMAIN t \ DOMAIN spans[p] :
          /\ Sequence(t[i].events) /\ 1 \in DOMAIN t[i].events
          /\ t[i].kind \in {"HostCall", "HostPci"}
    BY <1>1, <1>3, <1>12
  <2>4. EventsInv
    BY DEF InStepInv
  <2>5. QED
    BY <1>2, <1>13, <2>1, <2>2, <2>3, <2>4, RewrittenKeeps
<1>16. X \subseteq Ids(Host(m)) /\ X \cap HostOpen(m) = {} /\ host[m].call \notin X
  <2>1. old # None => old \in OfKind(Host(m), {"HostMmio", "HostPci", "HostInt"})
    BY <1>1, <1>5 DEF OfKind
  <2>2. old # None => old \in Ids(Host(m)) /\ old \notin HostOpen(m) /\ old # host[m].call
    BY <2>1, OthersAre
  <2>3. QED
    BY <1>14, <2>2
<1>17. PICK h : h = [g EXCEPT !.pci = n] /\ host' = [host EXCEPT ![m] = h]
  BY <1>1 DEF StartPci
<1>18. g \in HostRecords
  BY <1>1, HostMembersAre
<1>19. /\ h.call = g.call /\ h.copying = g.copying
       /\ h.pciWrite = g.pciWrite /\ h.msix = g.msix /\ h.dmas = g.dmas
       /\ h.pci = n /\ h.int = g.int /\ h.mmios = g.mmios
  BY <1>17, <1>18 DEF HostRecords
<1>20. HostBecomes(m, h)
  BY <1>17, HostChanges
<1>21. log[p] # <<>> /\ e.type = "HostPciRW" /\ Consume(p) /\ queue' = queue
  BY <1>1 DEF StartPci, At
<1>22. e.type \notin Opens \cup {"HostDmaC", "HostCall"} /\ e.type \notin HostMmioIssue
  BY <1>21 DEF HostMmioIssue, Opens, HostDmaExecution
<1>23. HostPasses(m, e)
  BY <1>1, <1>19, <1>20, <1>21, <1>22, HostPassesNothing
<1>24. PciStarts(m)
  <2>1. host'[m] = h /\ \A k \in Machines : k # m => host'[k] = host[k]
    BY <1>20 DEF HostBecomes
  <2>2. /\ n = <<p, Len(s) + 1>> /\ SpanOf(n)' = sp
        /\ Ids(p)' = {<<p, i>> : i \in DOMAIN t} /\ \A q \in Sources : q # p => Ids(q)' = Ids(q)
    BY <1>1, <1>12, <1>13 DEF NextId, Rewritten
  <2>3. \A q \in Spanners : \A y \in Ids(q)' : y \in Ids(q) \/ y = n
    BY <1>1, <1>12, <2>2 DEF Ids, Sources
  <2>4. \A y \in X : SpanOf(y)'.events = SpanOf(y).events
    <3> SUFFICES ASSUME NEW y \in X PROVE SpanOf(y)'.events = SpanOf(y).events
      OBVIOUS
    <3>1. PICK i : i = old[2] /\ i \in DOMAIN s /\ y = <<p, i>>
      BY <1>6, <1>14
    <3>2. SpanOf(y)' = t[i] /\ SpanOf(y) = s[i]
      BY <1>1, <1>12, <1>13, <3>1 DEF Rewritten, SpanOf
    <3>3. QED
      BY <1>9, <1>12, <3>1, <3>2
  <2>5. X = {host[m].pci} \ {None} /\ n = NextId(Host(m))
    BY <1>1, <1>14
  <2>6. SpanOf(n)' = NewSpan("HostPci", host[m].call, Event(Host(m)))
    BY <1>1, <2>2
  <2>7. host'[m].pci = n /\ host'[m].int = host[m].int /\ host'[m].mmios = host[m].mmios
    BY <1>1, <1>19, <2>1
  <2>8. QED
    BY <1>15, <2>1, <2>3, <2>4, <2>5, <2>6, <2>7 DEF PciStarts
<1>25. QED
  BY <1>1, <1>15, <1>16, <1>19, <1>20, <1>21, <1>22, <1>23, <1>24, HostQuiet

(* What is pending at the host besides the call that h names now.          *)
LEMMA CallBecomes ==
  ASSUME NEW m \in Machines, NEW h, HostBecomes(m, h), NEW c, c = h.call,
         ~h.copying, c # None => SpanOf(c)'.pending
  PROVE  CallInv(m)'
<1>1. host'[m] = h /\ host[m].call' = c
  BY DEF HostBecomes
<1>2. SpanOf(host[m].call)' = SpanOf(c)'
  BY <1>1 DEF SpanOf
<1>3. QED
  BY <1>1, <1>2 DEF CallInv

(* An event of the system call is consumed.                                *)
LEMMA HostCalls ==
  ASSUME KindsInv, InStepInv, NEW m \in Machines, log[Host(m)] # <<>>, Consume(Host(m)),
         NEW e, e = Event(Host(m)), e.type = "HostCall", queue' = queue,
         NEW X, Keeps(X), X \subseteq Ids(Host(m)), X \cap HostOpen(m) = {},
         NEW h, HostBecomes(m, h), h.pciWrite = IsPciWrite(e),
         h.msix = host[m].msix, h.dmas = host[m].dmas, CallInv(m)',
         \A p \in Spanners : \A id \in Ids(p)' : id \in Ids(p) \/ Right(id)'
  PROVE  InStepInv'
<1>1. LogsInv /\ HostHalf(m)
  BY DEF InStepInv, PeersInv
<1>2. Host(m) \in Spanners /\ Host(m) \in Sources
  BY SourcesApart
<1>3. PICK p, L, L2, F : p = Host(m) /\ L = log[p] /\ L2 = log'[p] /\ F = UsesOf(HostOpen(m))
  OBVIOUS
<1>4. Taken(L2, L) /\ e = L[1]
  BY <1>1, <1>2, <1>3, Consuming DEF Consumed
<1>5. host'[m] = h
  BY DEF HostBecomes
<1>6. /\ host'[m].msix # None =>
           OpenedBy(host[m].msix, {"HostMsiX"})' /\ FirstEvent(host[m].msix)'.id = 0
      /\ \A i \in DOMAIN host'[m].dmas :
           OpenedBy(host[m].dmas[i], HostDmaExecution)' /\ FirstEvent(host[m].dmas[i])'.id # 0
      /\ UsesOf(HostOpen(m))' = F
  BY <1>1, <1>3, <1>5, HostListsSame
<1>7. e.type \notin Opens \cup {"HostDmaC"} /\ e.type \notin HostMmioIssue
  BY DEF HostMmioIssue, Opens, HostDmaExecution
<1>8. InTurn(F, L2, Opens, {"HostDmaC"})
  <2>1. InTurn(F, L, Opens, {"HostDmaC"})
    BY <1>1, <1>3 DEF HostHalf
  <2>2. QED
    BY <1>4, <1>7, <2>1, TurnSkips
<1>9. HostHalf(m)'
  <2>1. InTurn(UsesOf(HostOpen(m)), log[Host(m)], Opens, {"HostDmaC"})'
    BY <1>3, <1>6, <1>8 DEF InTurn
  <2>2. QED
    BY <1>6, <2>1 DEF HostHalf
<1>10. HostPasses(m, e)
  BY <1>5, <1>7 DEF HostPasses, PciWriteAfter
<1>11. QED
  BY <1>9, <1>10, HostConsumes

(* The pending system call is none of the other pending spans.             *)
LEMMA CallIs ==
  ASSUME KindsInv, NEW m \in Machines, host[m].call # None, NEW id, id = host[m].call
  PROVE  /\ id \in Ids(Host(m)) /\ id \notin HostOpen(m) /\ SpanOf(id).kind = "HostCall"
         /\ DOMAIN SpanOf(id) = SpanFields /\ id = <<Host(m), id[2]>>
         /\ id[2] \in DOMAIN spans[Host(m)] /\ SpanOf(id) = spans[Host(m)][id[2]]
<1>1. id \in OfKind(Host(m), {"HostCall"})
  BY HostMembersAre
<1>2. Host(m) \in Sources /\ SpansInv
  BY SourcesApart DEF KindsInv
<1>3. id \in Ids(Host(m)) /\ SpanOf(id).kind = "HostCall"
  BY <1>1 DEF OfKind
<1>4. QED
  BY <1>2, <1>3, OpenAre, SpansAre DEF SpanOf

(* A call that cannot take an event goes on to the next call: it begins    *)
(* with the event.                                                         *)
LEMMA NextCallIs ==
  ASSUME KindsInv, InStepInv, NEW m \in Machines, AtNextCall(m), NEW e, e = Event(Host(m))
  PROVE  e.type = "HostCall" /\ IsSysEntry(e) /\ ~IsPciWrite(e) /\ log[Host(m)] # <<>>
<1>1. e.type = "HostCall" /\ log[Host(m)] # <<>> /\ host[m].call # None
  BY DEF AtNextCall, At
<1>2. IsSysEntry(e)
  <2>1. CallInv(m)
    BY DEF InStepInv, PeersInv, HostHalf
  <2>2. CASE host[m].copying
    BY <2>1, <2>2 DEF CallInv
  <2>3. CASE ~host[m].copying
    <3>1. PICK sp : sp = Call(m)
      OBVIOUS
    <3>2. sp.pending /\ sp.kind = "HostCall" /\ ~CanAdd(sp, e)
      BY <1>1, <2>1, <2>3, <3>1, CallIs DEF CallInv, Call, AtNextCall
    <3>3. ~HostCallTakes(sp.events, e)
      BY <3>2 DEF CanAdd, IsPotentialAdd, Takes
    <3>4. QED
      BY <1>1, <3>3 DEF HostCallTakes
  <2>4. QED
    BY <2>2, <2>3
<1>3. QED
  BY <1>1, <1>2 DEF IsSysEntry, IsPciWrite

(* The spans of host m that change or are new are system calls, and it goes *)
(* on to name the other ones it named.                                     *)
Calls(m) == OfKind(Host(m), {"HostCall"})
CallsOnly(m) ==
  /\ Keeps(Calls(m))
  /\ \A p \in Spanners : \A id \in Ids(p)' : id \in Ids(p) \/ SpanOf(id)'.kind = "HostCall"
  /\ host'[m].pci = host[m].pci /\ host'[m].int = host[m].int /\ host'[m].mmios = host[m].mmios
  /\ \A n \in Machines : n # m => host'[n] = host[n]

(* That it is so.                                                          *)
LEMMA OnlyCalls ==
  ASSUME NEW m \in Machines, NEW X, Keeps(X), X \subseteq Calls(m),
         \A p \in Spanners : \A id \in Ids(p)' : id \in Ids(p) \/ SpanOf(id)'.kind = "HostCall",
         NEW h, HostBecomes(m, h),
         h.pci = host[m].pci, h.int = host[m].int, h.mmios = host[m].mmios
  PROVE  CallsOnly(m)
<1>1. Keeps(Calls(m))
  BY DEF Keeps
<1>2. QED
  BY <1>1 DEF CallsOnly, HostBecomes

(* HandelCall adds an event to the span of the system call.                *)
LEMMA AddToCallInStep ==
  ASSUME KindsInv, InStepInv, NEW m \in Machines, AddToCall(m), UNCHANGED nic
  PROVE  InStepInv' /\ CallsOnly(m)
<1>1. PICK e, g, id, h, sp, X :
        /\ e = Event(Host(m)) /\ g = host[m] /\ id = g.call /\ X = {id}
        /\ h = [g EXCEPT !.pciWrite = IsPciWrite(e)] /\ sp = SpanOf(id)
  OBVIOUS
<1>2. /\ log[Host(m)] # <<>> /\ e.type = "HostCall" /\ id # None /\ CanAdd(sp, e)
      /\ Consume(Host(m)) /\ spans' = Update(id, Add(sp, e)) /\ host' = [host EXCEPT ![m] = h]
      /\ queue' = queue
  BY <1>1 DEF AddToCall, At, Call
<1>3. id \in Ids(Host(m)) /\ id \notin HostOpen(m) /\ sp.kind = "HostCall"
      /\ DOMAIN sp = SpanFields
  BY <1>1, <1>2, CallIs
<1>4. /\ Keeps(X) /\ \A q \in Sources : Ids(q)' = Ids(q)
      /\ SpanOf(id)' = Add(sp, e)
  BY <1>1, <1>2, <1>3, AddingKeeps DEF InStepInv
<1>5. g \in HostRecords
  BY <1>1, HostMembersAre
<1>6. /\ h.call = id /\ h.copying = g.copying /\ h.pciWrite = IsPciWrite(e)
      /\ h.msix = g.msix /\ h.dmas = g.dmas
      /\ h.pci = g.pci /\ h.int = g.int /\ h.mmios = g.mmios
  BY <1>1, <1>5 DEF HostRecords
<1>7. HostBecomes(m, h)
  BY <1>2, HostChanges
<1>8. ~h.copying
  <2>1. sp.pending
    BY <1>2 DEF CanAdd, IsPotentialAdd
  <2>2. CallInv(m)
    BY DEF InStepInv, PeersInv, HostHalf
  <2>3. QED
    BY <1>1, <1>6, <2>1, <2>2 DEF CallInv
<1>9. SpanOf(id)'.pending
  <2>1. ~Completes(sp.kind, e)
    BY <1>2, <1>3 DEF Completes
  <2>2. Add(sp, e).pending = ~Completes(sp.kind, e)
    BY <1>3 DEF Add, SpanFields
  <2>3. QED
    BY <1>4, <2>1, <2>2
<1>10. CallInv(m)'
  BY <1>6, <1>7, <1>8, <1>9, CallBecomes
<1>11. \A p \in Spanners : \A x \in Ids(p)' : x \in Ids(p) \/ Right(x)'
  BY <1>4, NoNewSpans
<1>12. X \subseteq Ids(Host(m)) /\ X \cap HostOpen(m) = {}
  BY <1>1, <1>3
<1>13. CallsOnly(m)
  <2>1. X \subseteq Calls(m)
    BY <1>1, <1>3 DEF Calls, OfKind
  <2>2. \A p \in Spanners : \A x \in Ids(p)' : x \in Ids(p) \/ SpanOf(x)'.kind = "HostCall"
    BY <1>4 DEF Sources
  <2>3. QED
    BY <1>1, <1>4, <1>6, <1>7, <2>1, <2>2, OnlyCalls
<1>14. QED
  BY <1>1, <1>2, <1>4, <1>6, <1>7, <1>10, <1>11, <1>12, <1>13, HostCalls

(* HandelCall starts the first span of a system call.                      *)
LEMMA FirstCallInStep ==
  ASSUME KindsInv, InStepInv, NEW m \in Machines, FirstCall(m), UNCHANGED nic
  PROVE  InStepInv' /\ CallsOnly(m)
<1>1. PICK p, e, sp, s, t, g, X, b :
        /\ p = Host(m) /\ e = Event(p) /\ s = spans[p] /\ g = host[m] /\ X = {}
        /\ sp = NewSpan("HostCall", None, e) /\ b = CanAdd(sp, e)
        /\ t = s \o (IF CanAdd(sp, e) THEN <<Add(sp, e)>> ELSE <<Refuse(sp, e), sp>>)
  OBVIOUS
<1>2. DOMAIN sp = SpanFields /\ sp.kind = "HostCall" /\ sp.parent = None
      /\ sp.events = <<e>> /\ sp.pending = ~Completes("HostCall", e)
      /\ Sequence(sp.events) /\ 1 \in DOMAIN sp.events
  BY <1>1, NewSpanIs, NewSpanHas
<1>3. log[p] # <<>> /\ e.type = "HostCall" /\ Consume(p) /\ queue' = queue
  BY <1>1 DEF FirstCall, At
<1>4. ~Completes("HostCall", e) /\ sp.pending
  BY <1>2, <1>3 DEF Completes
<1>5. b <=> ~IsSysEntry(e)
  <2>1. \A i \in DOMAIN sp.events : sp.events[i] = e
    BY <1>2
  <2>2. HostCallTakes(sp.events, e) <=> ~IsSysEntry(e)
    BY <1>2, <1>3, <2>1 DEF HostCallTakes
  <2>3. QED
    BY <1>1, <1>2, <1>4, <2>2 DEF CanAdd, IsPotentialAdd, Takes
<1>6. PICK a, r : a = Add(sp, e) /\ r = Refuse(sp, e)
  OBVIOUS
<1>7. /\ DOMAIN a = SpanFields /\ a.kind = "HostCall" /\ a.parent = None /\ a.pending
      /\ Sequence(a.events) /\ 1 \in DOMAIN a.events
  BY <1>2, <1>4, <1>6, AddIs
<1>8. /\ DOMAIN r = SpanFields /\ r.kind = "HostCall" /\ r.parent = None
      /\ Sequence(r.events) /\ 1 \in DOMAIN r.events
  BY <1>2, <1>3, <1>6, RefusedCall
<1>9. p \in Sources /\ SpansInv
  BY <1>1, SourcesApart DEF KindsInv
<1>10. s = spans[p]
  BY <1>1
<1>11. /\ Sequence(t) /\ Len(t) \in DOMAIN t /\ DOMAIN s \subseteq DOMAIN t
       /\ Len(t) \notin DOMAIN s /\ t[Len(t)] \in {a, sp}
       /\ \A i \in DOMAIN s : t[i] = s[i]
       /\ \A i \in DOMAIN t \ DOMAIN s : t[i] \in {a, r, sp}
  <2>2. PICK S : s \in Seq(S)
    BY <1>1, <1>9 DEF SpansInv, Sequence
  <2>3. PICK T : T = S \cup {a, r, sp}
    OBVIOUS
  <2>4. s \in Seq(T) /\ {a, r, sp} \subseteq T
    BY <2>2, <2>3
  <2>5. CASE b
    <3>1. t = s \o <<a>>
      BY <1>1, <1>6, <2>5
    <3>2. QED
      BY <2>4, <3>1 DEF Sequence
  <2>6. CASE ~b
    <3>1. t = s \o <<r, sp>>
      BY <1>1, <1>6, <2>6
    <3>2. QED
      BY <2>4, <3>1 DEF Sequence
  <2>7. QED
    BY <2>5, <2>6
<1>12. spans' = [spans EXCEPT ![p] = t]
  BY <1>1 DEF FirstCall
<1>13. \A i \in DOMAIN t \ DOMAIN s :
         /\ DOMAIN t[i] = SpanFields /\ t[i].kind = "HostCall"
         /\ Sequence(t[i].events) /\ 1 \in DOMAIN t[i].events
  <2> SUFFICES ASSUME NEW i \in DOMAIN t \ DOMAIN s
               PROVE  /\ DOMAIN t[i] = SpanFields /\ t[i].kind = "HostCall"
                      /\ Sequence(t[i].events) /\ 1 \in DOMAIN t[i].events
    OBVIOUS
  <2>1. t[i] = a \/ t[i] = r \/ t[i] = sp
    BY <1>11
  <2>2. CASE t[i] = a
    BY <1>7, <2>2
  <2>3. CASE t[i] = r
    BY <1>8, <2>3
  <2>4. CASE t[i] = sp
    BY <1>2, <2>4
  <2>5. QED
    BY <2>1, <2>2, <2>3, <2>4
<1>14. Rewritten(p, t)
  <2>1. \A i \in DOMAIN spans[p] : DOMAIN spans[p][i] = SpanFields
    BY <1>9, SpansAre
  <2>2. \A i \in DOMAIN t : DOMAIN t[i] = SpanFields
    BY <1>11, <1>13, <1>10, <2>1
  <2>3. /\ DOMAIN spans[p] \subseteq DOMAIN t
        /\ \A i \in DOMAIN spans[p] :
             t[i].kind = spans[p][i].kind /\ t[i].parent = spans[p][i].parent
    BY <1>11, <1>10
  <2>4. QED
    BY <1>9, <1>11, <1>12, <2>2, <2>3, SpansRewritten
<1>15. /\ Keeps(X)
       /\ \A q \in Spanners : \A y \in Ids(q)' : y \in Ids(q) \/ Right(y)'
  <2>1. \A i \in DOMAIN spans[p] : /\ t[i].events = spans[p][i].events
                                   /\ <<p, i>> \in X \/ t[i] = spans[p][i]
    BY <1>11, <1>10
  <2>2. DOMAIN spans[p] \subseteq DOMAIN t
    BY <1>11, <1>10
  <2>3. \A i \in DOMAIN t \ DOMAIN spans[p] :
          /\ Sequence(t[i].events) /\ 1 \in DOMAIN t[i].events
          /\ t[i].kind \in {"HostCall", "HostPci"}
    BY <1>13, <1>10
  <2>4. EventsInv
    BY DEF InStepInv
  <2>5. QED
    BY <1>9, <1>14, <2>1, <2>2, <2>3, <2>4, RewrittenKeeps
<1>16. PICK c, pw : c = <<p, Len(t)>> /\ pw = (b /\ IsPciWrite(e))
  OBVIOUS
<1>17. pw = IsPciWrite(e)
  BY <1>5, <1>16 DEF IsSysEntry, IsPciWrite
<1>18. PICK h : h = [g EXCEPT !.call = c, !.pciWrite = pw] /\ host' = [host EXCEPT ![m] = h]
  <2>1. spans'[p] = t
    BY <1>9, <1>12 DEF SpansInv
  <2>2. host' = [host EXCEPT ![m].call = <<p, Len(spans'[p])>>,
                             ![m].pciWrite = CanAdd(sp, e) /\ IsPciWrite(e)]
    BY <1>1 DEF FirstCall
  <2>3. host' = [host EXCEPT ![m].call = c, ![m].pciWrite = pw]
    BY <1>1, <1>16, <2>1, <2>2
  <2>4. QED
    BY <1>1, <2>3
<1>19. g \in HostRecords
  BY <1>1, HostMembersAre
<1>20. /\ h.call = c /\ h.copying = g.copying /\ h.pciWrite = IsPciWrite(e)
       /\ h.msix = g.msix /\ h.dmas = g.dmas
       /\ h.pci = g.pci /\ h.int = g.int /\ h.mmios = g.mmios
  BY <1>17, <1>18, <1>19 DEF HostRecords
<1>21. HostBecomes(m, h)
  BY <1>18, HostChanges
<1>22. ~h.copying
  <2>1. CallInv(m)
    BY DEF InStepInv, PeersInv, HostHalf
  <2>2. QED
    BY <1>1, <1>20, <2>1 DEF CallInv, FirstCall
<1>23. SpanOf(c)'.pending
  <2>1. SpanOf(c)' = t[Len(t)]
    BY <1>11, <1>14, <1>16 DEF Rewritten
  <2>2. QED
    BY <1>4, <1>7, <1>11, <2>1
<1>24. CallInv(m)'
  BY <1>20, <1>21, <1>22, <1>23, CallBecomes
<1>25. X \subseteq Ids(Host(m)) /\ X \cap HostOpen(m) = {}
  BY <1>1
<1>26. CallsOnly(m)
  <2>1. X \subseteq Calls(m)
    BY <1>1
  <2>2. \A q \in Spanners : \A x \in Ids(q)' : x \in Ids(q) \/ SpanOf(x)'.kind = "HostCall"
    <3> SUFFICES ASSUME NEW q \in Spanners, NEW x \in Ids(q)', x \notin Ids(q)
                 PROVE  SpanOf(x)'.kind = "HostCall"
      OBVIOUS
    <3>1. q = p
      BY <1>14 DEF Rewritten, Sources
    <3>2. PICK i \in DOMAIN t : x = <<p, i>> /\ SpanOf(x)' = t[i]
      BY <1>14, <3>1 DEF Rewritten
    <3>3. i \notin DOMAIN s
      BY <1>10, <3>1, <3>2 DEF Ids
    <3>4. QED
      BY <1>13, <3>2, <3>3
  <2>3. QED
    BY <1>1, <1>15, <1>20, <1>21, <2>1, <2>2, OnlyCalls
<1>27. QED
  BY <1>1, <1>3, <1>15, <1>20, <1>21, <1>24, <1>25, <1>26, HostCalls

(* CreateTraceStartingSpan ends the span of a system call and starts one.  *)
LEMMA StartNextCallInStep ==
  ASSUME KindsInv, InStepInv, NEW m \in Machines, AtNextCall(m), StartNextCall(m), UNCHANGED nic
  PROVE  InStepInv' /\ CallsOnly(m)
<1>1. PICK p, e, s, g, old, n, sp, X :
        /\ p = Host(m) /\ e = Event(p) /\ s = spans[p] /\ g = host[m]
        /\ old = g.call /\ n = NextId(p) /\ sp = NewSpan("HostCall", None, e) /\ X = {old}
  OBVIOUS
<1>2. p \in Sources /\ p \in Spanners /\ SpansInv
  BY <1>1, SourcesApart DEF KindsInv
<1>3. e.type = "HostCall" /\ IsSysEntry(e) /\ ~IsPciWrite(e) /\ log[p] # <<>>
  BY <1>1, NextCallIs
<1>4. DOMAIN sp = SpanFields /\ sp.kind = "HostCall" /\ sp.parent = None
      /\ sp.pending = ~Completes("HostCall", e)
      /\ Sequence(sp.events) /\ 1 \in DOMAIN sp.events
  BY <1>1, NewSpanIs, NewSpanHas
<1>5. sp.pending
  BY <1>3, <1>4 DEF Completes
<1>6. /\ old \in Ids(p) /\ old \notin HostOpen(m) /\ old = <<p, old[2]>>
      /\ old[2] \in DOMAIN s /\ SpanOf(old) = s[old[2]]
      /\ DOMAIN s[old[2]] = SpanFields /\ s[old[2]].kind = "HostCall"
  BY <1>1, CallIs DEF AtNextCall
<1>7. PICK x, r, t : x = Refuse(s[old[2]], e) /\ r = [s EXCEPT ![old[2]] = x] /\ t = Append(r, sp)
  OBVIOUS
<1>8. /\ DOMAIN x = SpanFields /\ x.kind = s[old[2]].kind /\ x.parent = s[old[2]].parent
      /\ x.events = s[old[2]].events
  BY <1>3, <1>6, <1>7, RefusedCall
<1>9. Sequence(s) /\ \A i \in DOMAIN s : DOMAIN s[i] = SpanFields
  BY <1>1, <1>2, SpansAre
<1>10. /\ Sequence(r) /\ DOMAIN r = DOMAIN s
       /\ r[old[2]] = x /\ \A j \in DOMAIN s : j # old[2] => r[j] = s[j]
  <2>1. PICK k : k = old[2]
    OBVIOUS
  <2>2. k \in DOMAIN s /\ r = [s EXCEPT ![k] = x]
    BY <1>6, <1>7, <2>1
  <2>3. QED
    BY <1>9, <2>1, <2>2, Replacing
<1>11. Extended(t, r, sp)
  BY <1>7, <1>10, Appending
<1>12. Len(r) = Len(s)
  BY <1>9, <1>10 DEF Sequence
<1>13. /\ n = <<p, Len(s) + 1>> /\ Sequence(t) /\ DOMAIN t = DOMAIN s \cup {Len(s) + 1}
       /\ Len(s) \in Nat /\ DOMAIN s = 1 .. Len(s) /\ Len(s) + 1 \notin DOMAIN s
       /\ t[Len(s) + 1] = sp /\ \A i \in DOMAIN s : t[i] = r[i]
  BY <1>1, <1>10, <1>11, <1>12 DEF Extended, NextId
<1>14. \A i \in DOMAIN s : /\ DOMAIN t[i] = SpanFields /\ t[i].events = s[i].events
                           /\ t[i].kind = s[i].kind /\ t[i].parent = s[i].parent
                           /\ <<p, i>> \in X \/ t[i] = s[i]
  BY <1>1, <1>6, <1>8, <1>9, <1>10, <1>13
<1>15. Rewritten(p, t)
  <2>1. spans' = [spans EXCEPT ![p] = t]
    <3>1. spans' = [spans EXCEPT ![Host(m)] =
             Append([spans[Host(m)] EXCEPT ![host[m].call[2]] =
                       Refuse(SpanOf(host[m].call), Event(Host(m)))],
                    NewSpan("HostCall", None, Event(Host(m))))]
      BY DEF StartNextCall, Call
    <3>2. QED
      BY <1>1, <1>6, <1>7, <3>1
  <2>2. /\ DOMAIN spans[p] \subseteq DOMAIN t
        /\ \A i \in DOMAIN spans[p] :
             t[i].kind = spans[p][i].kind /\ t[i].parent = spans[p][i].parent
    BY <1>1, <1>13, <1>14
  <2>3. \A i \in DOMAIN t : DOMAIN t[i] = SpanFields
    BY <1>4, <1>13, <1>14
  <2>4. QED
    BY <1>2, <1>13, <2>1, <2>2, <2>3, SpansRewritten
<1>16. /\ Keeps(X)
       /\ \A q \in Spanners : \A y \in Ids(q)' : y \in Ids(q) \/ Right(y)'
  <2>1. \A i \in DOMAIN spans[p] : /\ t[i].events = spans[p][i].events
                                   /\ <<p, i>> \in X \/ t[i] = spans[p][i]
    BY <1>1, <1>14
  <2>2. DOMAIN spans[p] \subseteq DOMAIN t
    BY <1>1, <1>13
  <2>3. \A i \in DOMAIN t \ DOMAIN spans[p] :
          /\ Sequence(t[i].events) /\ 1 \in DOMAIN t[i].events
          /\ t[i].kind \in {"HostCall", "HostPci"}
    BY <1>1, <1>4, <1>13
  <2>4. EventsInv
    BY DEF InStepInv
  <2>5. QED
    BY <1>2, <1>15, <2>1, <2>2, <2>3, <2>4, RewrittenKeeps
<1>17. PICK h : /\ h = [g EXCEPT !.call = n, !.pciWrite = FALSE, !.copying = FALSE]
                /\ host' = [host EXCEPT ![m] = h]
  BY <1>1 DEF StartNextCall
<1>18. g \in HostRecords
  BY <1>1, HostMembersAre
<1>19. /\ h.call = n /\ ~h.copying /\ h.pciWrite = FALSE
       /\ h.msix = g.msix /\ h.dmas = g.dmas
       /\ h.pci = g.pci /\ h.int = g.int /\ h.mmios = g.mmios
  BY <1>17, <1>18 DEF HostRecords
<1>20. HostBecomes(m, h)
  BY <1>17, HostChanges
<1>21. SpanOf(n)'.pending
  <2>1. SpanOf(n)' = sp
    BY <1>13, <1>15 DEF Rewritten
  <2>2. QED
    BY <1>5, <2>1
<1>22. CallInv(m)'
  BY <1>19, <1>20, <1>21, CallBecomes
<1>23. X \subseteq Ids(Host(m)) /\ X \cap HostOpen(m) = {}
  BY <1>1, <1>6
<1>24. h.pciWrite = IsPciWrite(e)
  BY <1>3, <1>19 DEF IsPciWrite
<1>25. Consume(Host(m)) /\ queue' = queue
  BY DEF StartNextCall
<1>26. CallsOnly(m)
  <2>1. X \subseteq Calls(m)
    BY <1>1, <1>6 DEF Calls, OfKind
  <2>2. \A q \in Spanners : \A y \in Ids(q)' : y \in Ids(q) \/ SpanOf(y)'.kind = "HostCall"
    <3> SUFFICES ASSUME NEW q \in Spanners, NEW y \in Ids(q)', y \notin Ids(q)
                 PROVE  SpanOf(y)'.kind = "HostCall"
      OBVIOUS
    <3>1. q = p
      BY <1>15 DEF Rewritten, Sources
    <3>2. PICK i \in DOMAIN t : y = <<p, i>> /\ SpanOf(y)' = t[i]
      BY <1>15, <3>1 DEF Rewritten
    <3>3. i \notin DOMAIN s
      BY <1>1, <3>1, <3>2 DEF Ids
    <3>4. QED
      BY <1>4, <1>13, <3>2, <3>3
  <2>3. QED
    BY <1>1, <1>16, <1>19, <1>20, <2>1, <2>2, OnlyCalls
<1>27. QED
  BY <1>1, <1>3, <1>16, <1>19, <1>20, <1>22, <1>23, <1>24, <1>25, <1>26, HostCalls

(* A step of the host that consumes no event.                              *)
LEMMA HostStays ==
  ASSUME KindsInv, InStepInv, NEW m \in Machines, log' = log,
         NEW X, Keeps(X), X \subseteq Ids(Host(m)), X \cap HostOpen(m) = {},
         NEW h, HostBecomes(m, h), h.pciWrite = host[m].pciWrite,
         h.msix = host[m].msix, h.dmas = host[m].dmas, CallInv(m)',
         \A n \in Machines :
           \A q \in {ToNic(n), FromNic(n), FromNet(n)} : queue'[q] = queue[q],
         \A p \in Spanners : \A id \in Ids(p)' : id \in Ids(p) \/ Right(id)'
  PROVE  InStepInv'
<1>1. LogsInv /\ ChannelsInv(m) /\ HostHalf(m) /\ NicHalf(m)
  BY DEF InStepInv, PeersInv
<1>2. LogsInv'
  BY <1>1 DEF LogsInv
<1>3. host'[m] = h /\ nic' = nic /\ \A n \in Machines : n # m => host'[n] = host[n]
  BY DEF HostBecomes
<1>4. ChannelsInv(m)'
  <2>1. host'[m].pciWrite = host[m].pciWrite
    BY <1>3
  <2>2. QED
    BY <1>1, <2>1, ChannelsSame
<1>5. NicHalf(m)'
  <2>1. X \cap Ids(Nic(m)) = {}
    BY DEF Ids, Host, Nic
  <2>2. QED
    BY <1>1, <1>3, <2>1, NicHalfSame
<1>6. PICK F : F = UsesOf(HostOpen(m))
  OBVIOUS
<1>7. /\ host'[m].msix # None =>
           OpenedBy(host[m].msix, {"HostMsiX"})' /\ FirstEvent(host[m].msix)'.id = 0
      /\ \A i \in DOMAIN host'[m].dmas :
           OpenedBy(host[m].dmas[i], HostDmaExecution)' /\ FirstEvent(host[m].dmas[i])'.id # 0
      /\ UsesOf(HostOpen(m))' = F
  BY <1>1, <1>3, <1>6, HostListsSame
<1>8. HostHalf(m)'
  <2>1. InTurn(F, log[Host(m)], Opens, {"HostDmaC"})
    BY <1>1, <1>6 DEF HostHalf
  <2>2. InTurn(UsesOf(HostOpen(m)), log[Host(m)], Opens, {"HostDmaC"})'
    BY <1>7, <2>1 DEF InTurn
  <2>3. QED
    BY <1>7, <2>2 DEF HostHalf
<1>9. X \subseteq Ids(Host(m)) \cup Ids(Nic(m))
  OBVIOUS
<1>10. \A n \in Machines : n # m =>
         /\ host'[n] = host[n] /\ nic'[n] = nic[n]
         /\ log'[Host(n)] = log[Host(n)] /\ log'[Nic(n)] = log[Nic(n)]
         /\ \A q \in {ToNic(n), FromNic(n), FromNet(n)} : queue'[q] = queue[q]
  BY <1>3
<1>11. QED
  BY <1>2, <1>4, <1>5, <1>8, <1>9, <1>10, Reached

(* A context is taken from the packets for the host.                       *)
LEMMA ReceivesPopped ==
  ASSUME KindsInv, NEW m \in Machines, Pop(Receives(m))
  PROVE  \A n \in Machines :
           \A q \in {ToNic(n), FromNic(n), FromNet(n)} : queue'[q] = queue[q]
<1>1. \A n \in Machines : \A q \in {ToNic(n), FromNic(n), FromNet(n)} :
        q \in Queues /\ q # Receives(m)
  BY DEF Receives, ToNic, FromNic, FromNet, Queues
<1>2. DOMAIN queue = Queues
  BY DEF KindsInv, QueuesInv
<1>3. QED
  BY <1>1, <1>2 DEF Pop

(* FinishPendingSpan gives the span of a call that received its parent.    *)
LEMMA ReceiveContextInStep ==
  ASSUME KindsInv, InStepInv, NEW m \in Machines, ReceiveContext(m), UNCHANGED nic
  PROVE  InStepInv' /\ CallsOnly(m)
<1>1. PICK p, id, e, con, x, sp, g, h, X :
        /\ p = Host(m) /\ id = host[m].call /\ con = Front(Receives(m)) /\ e = Event(p)
        /\ x = Refuse(SpanOf(id), Event(p)) /\ X = {id}
        /\ sp = [x EXCEPT !.parent = con.parent]
        /\ g = host[m] /\ h = [g EXCEPT !.copying = TRUE]
  OBVIOUS
<1>2. e.type = "HostCall" /\ IsSysEntry(e) /\ log[p] # <<>> /\ id # None
  BY <1>1, NextCallIs DEF ReceiveContext, AtNextCall
<1>3. id \in Ids(p) /\ id \notin HostOpen(m) /\ SpanOf(id).kind = "HostCall"
      /\ DOMAIN SpanOf(id) = SpanFields /\ p \in Sources
  BY <1>1, <1>2, CallIs, SourcesApart
<1>4. /\ DOMAIN x = SpanFields /\ x.kind = "HostCall" /\ x.events = SpanOf(id).events
      /\ ~x.pending
  BY <1>1, <1>2, <1>3, RefusedCall
<1>5. DOMAIN sp = SpanFields /\ sp.kind = "HostCall" /\ sp.events = SpanOf(id).events
      /\ ~sp.pending
  BY <1>1, <1>4 DEF SpanFields
<1>6. EventsInv
  BY DEF InStepInv
<1>7. Sequence(sp.events) /\ 1 \in DOMAIN sp.events
  BY <1>3, <1>5, <1>6 DEF EventsInv
<1>8. spans' = Update(id, sp)
  BY <1>1 DEF ReceiveContext, Call
<1>9. Updated(id, sp)
  BY <1>3, <1>5, <1>8, SpanUpdated DEF KindsInv
<1>10. Keeps(X)
  BY <1>1, <1>3, <1>5, <1>6, <1>7, <1>9, UpdatedKeeps
<1>11. \A q \in Spanners : \A y \in Ids(q)' : y \in Ids(q) \/ Right(y)'
  <2>1. \A q \in Sources : Ids(q)' = Ids(q)
    BY <1>9 DEF Updated
  <2>2. QED
    BY <2>1, NoNewSpans
<1>12. host' = [host EXCEPT ![m] = h] /\ log' = log /\ Pop(Receives(m))
  BY <1>1 DEF ReceiveContext
<1>13. HostBecomes(m, h)
  BY <1>12, HostChanges
<1>14. g \in HostRecords
  BY <1>1, HostMembersAre
<1>15. /\ h.call = id /\ h.copying /\ h.pciWrite = g.pciWrite
       /\ h.msix = g.msix /\ h.dmas = g.dmas
       /\ h.pci = g.pci /\ h.int = g.int /\ h.mmios = g.mmios
  BY <1>1, <1>14 DEF HostRecords
<1>16. CallInv(m)'
  <2>1. host'[m] = h /\ host[m].call' = id
    BY <1>13, <1>15 DEF HostBecomes
  <2>2. SpanOf(host[m].call)' = SpanOf(id)'
    BY <2>1 DEF SpanOf
  <2>3. SpanOf(id)' = sp
    BY <1>9 DEF Updated
  <2>4. log'[Host(m)] # <<>> /\ Event(Host(m))' = e
    BY <1>1, <1>2, <1>12 DEF Event
  <2>5. IsSysEntry(Event(Host(m)))'
    BY <1>2, <2>4 DEF IsSysEntry
  <2>6. QED
    BY <1>2, <1>5, <1>15, <2>1, <2>2, <2>3, <2>4, <2>5 DEF CallInv
<1>17. X \subseteq Ids(Host(m)) /\ X \cap HostOpen(m) = {}
  BY <1>1, <1>3
<1>18. \A n \in Machines :
         \A q \in {ToNic(n), FromNic(n), FromNet(n)} : queue'[q] = queue[q]
  BY <1>12, ReceivesPopped
<1>19. CallsOnly(m)
  <2>1. X \subseteq Calls(m)
    BY <1>1, <1>3 DEF Calls, OfKind
  <2>2. \A q \in Spanners : \A y \in Ids(q)' : y \in Ids(q) \/ SpanOf(y)'.kind = "HostCall"
    BY <1>9 DEF Updated, Sources
  <2>3. QED
    BY <1>1, <1>10, <1>13, <1>15, <2>1, <2>2, OnlyCalls
<1>20. QED
  BY <1>1, <1>10, <1>11, <1>12, <1>13, <1>15, <1>16, <1>17, <1>18, <1>19, HostStays

(* FinishPendingSpan copies the span of a call for another packet.         *)
LEMMA CopyContextInStep ==
  ASSUME KindsInv, InStepInv, NEW m \in Machines, CopyContext(m), UNCHANGED nic
  PROVE  InStepInv' /\ CallsOnly(m)
<1>1. PICK p, id, con, old, sp, n, h, X, e :
        /\ p = Host(m) /\ id = host[m].call /\ con = Front(Receives(m)) /\ old = SpanOf(id)
        /\ sp = [old EXCEPT !.parent = con.parent] /\ e = Event(p)
        /\ n = NextId(p) /\ h = host[m] /\ X = {}
  OBVIOUS
<1>2. e.type = "HostCall" /\ IsSysEntry(e) /\ log[p] # <<>> /\ id # None
  BY <1>1, NextCallIs DEF CopyContext, AtNextCall
<1>3. id \in Ids(p) /\ id \notin HostOpen(m) /\ old.kind = "HostCall"
      /\ DOMAIN old = SpanFields /\ p \in Sources /\ p \in {Host(m), Nic(m)}
  BY <1>1, <1>2, CallIs, SourcesApart
<1>4. DOMAIN sp = SpanFields /\ sp.kind = "HostCall" /\ sp.parent = con.parent
      /\ sp.events = old.events
  BY <1>1, <1>3 DEF SpanFields
<1>5. EventsInv
  BY DEF InStepInv
<1>6. Sequence(sp.events) /\ 1 \in DOMAIN sp.events
  BY <1>1, <1>3, <1>4, <1>5 DEF EventsInv
<1>7. spans' = Append1(p, sp)
  BY <1>1 DEF CopyContext, Call
<1>8. Appended(p, n, sp)
  BY <1>1, <1>3, <1>4, <1>7, SpanAppended DEF KindsInv
<1>9. Keeps(X)
  BY <1>1, <1>3, <1>4, <1>5, <1>6, <1>8, AppendedKeeps
<1>10. \A q \in Spanners : \A y \in Ids(q)' : y \in Ids(q) \/ Right(y)'
  <2> SUFFICES ASSUME NEW q \in Spanners, NEW y \in Ids(q)', y \notin Ids(q) PROVE Right(y)'
    OBVIOUS
  <2>1. y = n
    BY <1>8 DEF Appended, Sources
  <2>2. SpanOf(y)'.kind = "HostCall"
    BY <1>4, <1>8, <2>1 DEF Appended
  <2>3. QED
    BY <2>2 DEF Right, Crosses
<1>11. host' = host /\ log' = log /\ Pop(Receives(m))
  BY DEF CopyContext
<1>12. HostBecomes(m, h)
  BY <1>1, <1>11 DEF HostBecomes
<1>13. CallInv(m)'
  <2>1. CallInv(m)
    BY DEF InStepInv, PeersInv, HostHalf
  <2>2. SpanOf(id)' = SpanOf(id)
    BY <1>1, <1>3, <1>9 DEF Keeps
  <2>3. host[m]' = h /\ host[m].call' = id /\ SpanOf(host[m].call)' = SpanOf(id)'
    BY <1>1, <1>11 DEF SpanOf
  <2>4. log'[Host(m)] = log[Host(m)] /\ Event(Host(m))' = Event(Host(m))
    BY <1>11 DEF Event
  <2>5. IsSysEntry(Event(Host(m)))' = IsSysEntry(Event(Host(m)))
    BY <2>4 DEF IsSysEntry
  <2>6. QED
    BY <1>1, <2>1, <2>2, <2>3, <2>4, <2>5 DEF CallInv
<1>14. X \subseteq Ids(Host(m)) /\ X \cap HostOpen(m) = {}
  BY <1>1
<1>15. \A k \in Machines :
         \A q \in {ToNic(k), FromNic(k), FromNet(k)} : queue'[q] = queue[q]
  BY <1>11, ReceivesPopped
<1>16. CallsOnly(m)
  <2>1. X \subseteq Calls(m)
    BY <1>1
  <2>2. \A q \in Spanners : \A x \in Ids(q)' : x \in Ids(q) \/ SpanOf(x)'.kind = "HostCall"
    BY <1>4, <1>8 DEF Appended, Sources
  <2>3. QED
    BY <1>1, <1>9, <1>12, <2>1, <2>2, OnlyCalls
<1>17. QED
  BY <1>1, <1>9, <1>10, <1>11, <1>12, <1>13, <1>14, <1>15, <1>16, HostStays

(* The completion that a pending dma or interrupt takes.                   *)
LEMMA HostOpenTakes ==
  ASSUME KindsInv, NEW m \in Machines, HostHalf(m), NEW e, e.type \in HostDmaTypes
  PROVE  /\ host[m].msix # None =>
              (CanAdd(SpanOf(host[m].msix), e) <=> e.type = "HostDmaC" /\ e.id = 0)
         /\ \A i \in DOMAIN host[m].dmas :
              CanAdd(SpanOf(host[m].dmas[i]), e) <=>
                e.type = "HostDmaC" /\ e.id = FirstEvent(host[m].dmas[i]).id
<1>1. ASSUME host[m].msix # None
      PROVE  CanAdd(SpanOf(host[m].msix), e) <=> e.type = "HostDmaC" /\ e.id = 0
  <2>1. PICK sp, es : sp = SpanOf(host[m].msix) /\ es = sp.events
    OBVIOUS
  <2>2. sp.pending /\ es = <<es[1]>> /\ es[1].type = "HostMsiX"
    BY <1>1, <2>1 DEF HostHalf, OpenedBy
  <2>3. sp.kind = "HostMsix"
    BY <1>1, <2>1, HostMembersAre DEF OfKind
  <2>4. DOMAIN es = {1}
    BY <2>2
  <2>5. Types(es) = {"HostMsiX"}
    BY <2>2, <2>4 DEF Types
  <2>6. HostMsixTakes(es, e) <=> e.type = "HostDmaC" /\ e.id = 0
    BY <2>5 DEF HostMsixTakes, HostDmaTypes, HostDmaExecution
  <2>7. QED
    BY <2>1, <2>2, <2>3, <2>6 DEF CanAdd, IsPotentialAdd, Takes
<1>2. ASSUME NEW i \in DOMAIN host[m].dmas
      PROVE  CanAdd(SpanOf(host[m].dmas[i]), e) <=>
               e.type = "HostDmaC" /\ e.id = FirstEvent(host[m].dmas[i]).id
  <2>1. PICK id, sp, es : id = host[m].dmas[i] /\ sp = SpanOf(id) /\ es = sp.events
    OBVIOUS
  <2>2. sp.pending /\ es = <<es[1]>> /\ es[1].type \in HostDmaExecution
    BY <2>1 DEF HostHalf, OpenedBy
  <2>3. sp.kind = "HostDma"
    <3>1. AllOf(host[m].dmas, Host(m), "HostDma")
      BY HostMembersAre DEF HostNames
    <3>2. QED
      BY <2>1, <3>1 DEF AllOf, OfKind
  <2>4. DOMAIN es = {1}
    BY <2>2
  <2>5. Types(es) = {es[1].type}
    BY <2>4 DEF Types
  <2>6. "HostDmaC" \notin HostDmaExecution
    BY DEF HostDmaExecution
  <2>7. TheOne(es, HostDmaExecution) = es[1]
    <3>1. \A k : k \in DOMAIN es /\ es[k].type \in HostDmaExecution <=> k = 1
      BY <2>2, <2>4
    <3>2. (CHOOSE k \in DOMAIN es : es[k].type \in HostDmaExecution) = 1
      BY <3>1
    <3>3. QED
      BY <3>2 DEF TheOne
  <2>8. HostDmaTakes(es, e) <=> e.type = "HostDmaC" /\ e.id = es[1].id
    BY <2>2, <2>5, <2>6, <2>7 DEF HostDmaTakes, HostDmaTypes
  <2>9. QED
    BY <2>1, <2>2, <2>3, <2>8 DEF CanAdd, IsPotentialAdd, Takes, FirstEvent
<1>3. QED
  BY <1>1, <1>2

(* The same, under a name.                                                 *)
PendingSound(m) ==
  /\ host[m].msix # None =>
       OpenedBy(host[m].msix, {"HostMsiX"}) /\ FirstEvent(host[m].msix).id = 0
  /\ \A i \in DOMAIN host[m].dmas :
       OpenedBy(host[m].dmas[i], HostDmaExecution) /\ FirstEvent(host[m].dmas[i]).id # 0

(* The pending dmas and interrupts that h names.                           *)
OpenOf(h) == {h.dmas[i] : i \in DOMAIN h.dmas} \cup ({h.msix} \ {None})

(* What the pending spans of a host are when its members become h.         *)
LEMMA HostListsAre ==
  ASSUME KindsInv, NEW m \in Machines, HostHalf(m), NEW X, Keeps(X), NEW h, host'[m] = h,
         X \cap OpenOf(h) \cap Ids(Host(m)) = {}, NEW N, PendingAre(m, h, N)
  PROVE  /\ PendingSound(m)' /\ HostOpen(m)' = OpenOf(h)
         /\ \A id \in HostOpen(m) : UseOf(FirstEvent(id))' = UseOf(FirstEvent(id))
<1>1. X \cap ({h.dmas[i] : i \in DOMAIN h.dmas} \cup ({h.msix} \ {None})) \cap Ids(Host(m)) = {}
  BY DEF OpenOf
<1>2. /\ host'[m].msix # None =>
           OpenedBy(host[m].msix, {"HostMsiX"})' /\ FirstEvent(host[m].msix)'.id = 0
      /\ \A i \in DOMAIN host'[m].dmas :
           OpenedBy(host[m].dmas[i], HostDmaExecution)' /\ FirstEvent(host[m].dmas[i])'.id # 0
      /\ HostOpen(m)' = {h.dmas[i] : i \in DOMAIN h.dmas} \cup ({h.msix} \ {None})
      /\ \A id \in HostOpen(m) : UseOf(FirstEvent(id))' = UseOf(FirstEvent(id))
  BY <1>1, HostLists
<1>3. PendingSound(m)'
  BY <1>2 DEF PendingSound
<1>4. QED
  BY <1>2, <1>3 DEF OpenOf

(* The completion of a dma or an interrupt is consumed: id leaves.         *)
LEMMA HostCloses ==
  ASSUME KindsInv, InStepInv, NEW m \in Machines, log[Host(m)] # <<>>, Consume(Host(m)),
         NEW e, e = Event(Host(m)), e.type = "HostDmaC", queue' = queue,
         NEW id \in HostOpen(m), FirstEvent(id).id = e.id,
         spans' = Update(id, Add(SpanOf(id), e)),
         NEW h, HostBecomes(m, h), h.call = host[m].call, h.copying = host[m].copying,
         h.pciWrite = host[m].pciWrite,
         OpenOf(h) = HostOpen(m) \ {id},
         NEW N, PendingAre(m, h, N)
  PROVE  InStepInv'
<1>1. LogsInv /\ HostHalf(m) /\ CallInv(m) /\ EventsInv
  BY DEF InStepInv, PeersInv, HostHalf
<1>2. Host(m) \in Spanners /\ Host(m) \in Sources /\ HostOpen(m) \subseteq Ids(Host(m))
  BY SourcesApart, OpenAre
<1>3. PICK p, L, L2, F, D, X :
        /\ p = Host(m) /\ L = log[p] /\ L2 = log'[p] /\ D = HostOpen(m) /\ X = {id}
        /\ F = UsesOf(D)
  OBVIOUS
<1>4. Taken(L2, L) /\ e = L[1]
  BY <1>1, <1>2, <1>3, Consuming DEF Consumed
<1>5. host'[m] = h
  BY DEF HostBecomes
<1>6. /\ Keeps(X) /\ \A q \in Sources : Ids(q)' = Ids(q)
  BY <1>1, <1>2, <1>3, AddingKeeps
<1>7. /\ PendingSound(m)' /\ HostOpen(m)' = D \ {id}
      /\ \A x \in D : UseOf(FirstEvent(x))' = UseOf(FirstEvent(x))
  <2>1. X \cap OpenOf(h) \cap Ids(Host(m)) = {}
    BY <1>3
  <2>2. /\ PendingSound(m)' /\ HostOpen(m)' = OpenOf(h)
        /\ \A x \in HostOpen(m) : UseOf(FirstEvent(x))' = UseOf(FirstEvent(x))
    BY <1>1, <1>5, <1>6, <2>1, HostListsAre
  <2>3. QED
    BY <1>3, <2>2
<1>8. PICK F2 : F2 = UsesOf(HostOpen(m))'
  OBVIOUS
<1>9. InTurn(F2, L2, Opens, {"HostDmaC"})
  <2>1. InTurn(F, L, Opens, {"HostDmaC"})
    BY <1>1, <1>3 DEF HostHalf
  <2>2. L[1].type \in {"HostDmaC"} /\ L[1].type \notin Opens
    BY <1>4 DEF Opens, HostDmaExecution
  <2>3. PICK x \in DOMAIN F :
          /\ F[x] = UseOf(e) /\ \A y \in DOMAIN F : F[y][2] = e.id => y = x
          /\ \A G : With(F, G, x, UseOf(e)) => InTurn(G, L2, Opens, {"HostDmaC"})
    BY <1>4, <2>1, <2>2, TurnCloses
  <2>4. DOMAIN F = D /\ \A y \in D : F[y] = UseOf(FirstEvent(y))
    BY <1>3 DEF UsesOf
  <2>5. x = id
    BY <1>3, <2>3, <2>4 DEF UseOf
  <2>6. DOMAIN F2 = D \ {id} /\ \A y \in D \ {id} : F2[y] = UseOf(FirstEvent(y))'
    BY <1>7, <1>8 DEF UsesOf
  <2>7. \A y \in D \ {id} : F2[y] = F[y]
    BY <1>7, <2>4, <2>6
  <2>8. With(F, F2, id, UseOf(e))
    BY <1>3, <2>3, <2>4, <2>5, <2>6, <2>7 DEF With
  <2>9. QED
    BY <2>3, <2>5, <2>8
<1>10. CallInv(m)'
  <2>1. ~h.copying
    BY <1>1 DEF CallInv
  <2>2. PICK c : c = h.call
    OBVIOUS
  <2>3. c # None => SpanOf(c)'.pending
    <3>1. c # None => c \in Ids(Host(m)) /\ c \notin HostOpen(m)
      BY <2>2, OpenAre
    <3>2. c # None => SpanOf(c)' = SpanOf(c)
      BY <1>2, <1>3, <1>6, <3>1 DEF Keeps
    <3>3. c # None => SpanOf(c).pending
      BY <1>1, <2>1, <2>2 DEF CallInv
    <3>4. QED
      BY <3>2, <3>3
  <2>4. QED
    BY <2>1, <2>2, <2>3, CallBecomes
<1>11. HostHalf(m)'
  <2>1. InTurn(UsesOf(HostOpen(m)), log[Host(m)], Opens, {"HostDmaC"})'
    BY <1>3, <1>8, <1>9 DEF InTurn
  <2>2. QED
    BY <1>7, <1>10, <2>1 DEF HostHalf, PendingSound
<1>12. HostPasses(m, e)
  BY <1>5 DEF HostPasses, PciWriteAfter, HostMmioIssue, Opens, HostDmaExecution
<1>13. \A q \in Spanners : \A x \in Ids(q)' : x \in Ids(q) \/ Right(x)'
  BY <1>6, NoNewSpans
<1>14. X \subseteq Ids(Host(m))
  BY <1>2, <1>3
<1>15. \A n \in Machines : n # m =>
         \A q \in {ToNic(n), FromNic(n), FromNet(n)} : queue'[q] = queue[q]
  OBVIOUS
<1>16. QED
  BY <1>6, <1>11, <1>12, <1>13, <1>14, <1>15, HostConsumes

(* The completion of an interrupt.                                         *)
LEMMA EndMsixInStep ==
  ASSUME KindsInv, InStepInv, NEW m \in Machines, EndMsix(m), UNCHANGED nic
  PROVE  InStepInv'
<1>1. PICK e, g, id, h, N : /\ e = Event(Host(m)) /\ g = host[m] /\ id = g.msix
                            /\ h = [g EXCEPT !.msix = None] /\ N = {}
  OBVIOUS
<1>2. /\ log[Host(m)] # <<>> /\ Consume(Host(m)) /\ queue' = queue /\ e.type \in HostDmaTypes
      /\ id # None /\ CanAdd(SpanOf(id), e)
      /\ spans' = Update(id, Add(SpanOf(id), e)) /\ host' = [host EXCEPT ![m] = h]
  BY <1>1 DEF EndMsix, EndsMsix, At
<1>3. g \in HostRecords /\ HostNames(m, g) /\ HostHalf(m)
  BY <1>1, HostMembersAre DEF InStepInv, PeersInv
<1>4. /\ h.call = g.call /\ h.copying = g.copying /\ h.pciWrite = g.pciWrite
      /\ h.dmas = g.dmas /\ h.msix = None
  BY <1>1, <1>3 DEF HostRecords
<1>5. HostBecomes(m, h)
  BY <1>2, HostChanges
<1>6. e.type = "HostDmaC" /\ e.id = 0
  BY <1>1, <1>2, <1>3, HostOpenTakes
<1>7. id \in HostOpen(m) /\ FirstEvent(id).id = 0
  BY <1>1, <1>2, <1>3, OpenAre DEF HostHalf
<1>8. \A i \in DOMAIN g.dmas : g.dmas[i] # id
  <2>1. AllOf(g.dmas, Host(m), "HostDma") /\ id \in OfKind(Host(m), {"HostMsix"})
    BY <1>1, <1>2, <1>3, HostMembersAre DEF HostNames
  <2>2. QED
    BY <2>1 DEF AllOf, OfKind
<1>9. OpenOf(h) = HostOpen(m) \ {id}
  BY <1>1, <1>4, <1>8 DEF OpenOf, HostOpen
<1>10. PendingAre(m, h, N)
  BY <1>1, <1>4 DEF PendingAre
<1>11. FirstEvent(id).id = e.id
  BY <1>6, <1>7
<1>12. h.call = host[m].call /\ h.copying = host[m].copying /\ h.pciWrite = host[m].pciWrite
  BY <1>1, <1>4
<1>13. QED
  BY <1>1, <1>2, <1>5, <1>6, <1>7, <1>9, <1>10, <1>11, <1>12, HostCloses

(* The completion of a dma.                                                *)
LEMMA EndDmaInStep ==
  ASSUME KindsInv, InStepInv, NEW m \in Machines, EndDma(m), UNCHANGED nic
  PROVE  InStepInv'
<1>1. PICK e, g, i, id, w, h, N :
        /\ e = Event(Host(m)) /\ g = host[m] /\ i = First(Taking(g.dmas, e)) /\ id = g.dmas[i]
        /\ w = Without(g.dmas, i) /\ h = [g EXCEPT !.dmas = w] /\ N = {}
  OBVIOUS
<1>2. /\ log[Host(m)] # <<>> /\ Consume(Host(m)) /\ queue' = queue /\ e.type \in HostDmaTypes
      /\ Taking(g.dmas, e) # {}
      /\ spans' = Update(id, Add(SpanOf(id), e)) /\ host' = [host EXCEPT ![m] = h]
  BY <1>1 DEF EndDma, At
<1>3. /\ g \in HostRecords /\ g.dmas \in Seq(SpannerIds) /\ HostNames(m, g) /\ HostHalf(m)
      /\ Distinct(g.dmas)
  BY <1>1, HostMembersAre DEF InStepInv, PeersInv, HostRecords, KindsInv, DmasInv
<1>4. /\ h.call = g.call /\ h.copying = g.copying /\ h.pciWrite = g.pciWrite
      /\ h.dmas = w /\ h.msix = g.msix
  BY <1>1, <1>3 DEF HostRecords
<1>5. HostBecomes(m, h)
  BY <1>2, HostChanges
<1>6. i \in DOMAIN g.dmas /\ CanAdd(SpanOf(id), e)
  <2>1. i \in DOMAIN g.dmas
    BY <1>1, <1>2, <1>3, TakingFirst
  <2>2. Taking(g.dmas, e) \in SUBSET Nat
    BY <1>3 DEF Taking
  <2>3. i \in Taking(g.dmas, e)
    BY <1>1, <1>2, <2>2, FirstOf
  <2>4. QED
    BY <1>1, <2>1, <2>3 DEF Taking
<1>7. e.type = "HostDmaC" /\ e.id = FirstEvent(id).id
  BY <1>1, <1>2, <1>3, <1>6, HostOpenTakes
<1>8. id \in HostOpen(m) /\ id # g.msix
  <2>1. id \in HostOpen(m)
    BY <1>1, <1>6, OpenAre
  <2>2. AllOf(g.dmas, Host(m), "HostDma") /\ (g.msix # None => g.msix \in OfKind(Host(m), {"HostMsix"}))
    BY <1>1, <1>3, HostMembersAre DEF HostNames
  <2>3. id \in OfKind(Host(m), {"HostDma"})
    BY <1>1, <1>6, <2>2 DEF AllOf
  <2>4. id # None
    <3>1. id \in SpannerIds
      BY <1>1, <1>3, <1>6
    <3>2. QED
      BY <3>1, MachineAssumption DEF SpannerIds
  <2>5. QED
    BY <2>1, <2>2, <2>3, <2>4 DEF OfKind
<1>9. Listing(w) = Listing(g.dmas) \ {id}
  BY <1>1, <1>3, <1>6, ListLoses
<1>10. OpenOf(h) = HostOpen(m) \ {id}
  BY <1>1, <1>4, <1>8, <1>9 DEF OpenOf, HostOpen, Listing
<1>11. PendingAre(m, h, N)
  <2>1. \A j \in DOMAIN w : \E k \in DOMAIN g.dmas : w[j] = g.dmas[k]
    BY <1>9 DEF Listing
  <2>2. QED
    BY <1>1, <1>4, <2>1 DEF PendingAre
<1>12. h.call = host[m].call /\ h.copying = host[m].copying /\ h.pciWrite = host[m].pciWrite
  BY <1>1, <1>4
<1>13. QED
  BY <1>1, <1>2, <1>5, <1>7, <1>8, <1>10, <1>11, <1>12, HostCloses

(* The host takes a context: the channels of others stay.                  *)
LEMMA HostPops ==
  ASSUME KindsInv, NEW m \in Machines, NEW e, e.type \in Opens, CanPop(FromNic(m)), Pop(FromNic(m)),
         NEW h, HostBecomes(m, h), h.pciWrite = host[m].pciWrite
  PROVE  /\ HostPasses(m, e)
         /\ \A n \in Machines : n # m =>
              \A q \in {ToNic(n), FromNic(n), FromNet(n)} : queue'[q] = queue[q]
<1>1. DOMAIN queue = Queues /\ FromNic(m) \in Queues
  BY QueuesApart DEF KindsInv, QueuesInv
<1>2. /\ queue'[FromNic(m)] = Tail(queue[FromNic(m)])
      /\ \A q \in Queues : q # FromNic(m) => queue'[q] = queue[q]
  BY <1>1 DEF Pop
<1>3. /\ queue'[ToNic(m)] = queue[ToNic(m)] /\ queue'[FromNet(m)] = queue[FromNet(m)]
  BY <1>2, QueuesApart
<1>4. e.type \notin HostMmioIssue /\ e.type # "HostCall"
  BY DEF Opens, HostMmioIssue, HostDmaExecution
<1>5. HostPasses(m, e)
  BY <1>2, <1>3, <1>4 DEF HostPasses, HostBecomes, PciWriteAfter
<1>6. \A n \in Machines : {ToNic(n), FromNic(n), FromNet(n)} \subseteq Queues
  BY QueuesApart
<1>7. \A n \in Machines : n # m =>
        \A q \in {ToNic(n), FromNic(n), FromNet(n)} : queue'[q] = queue[q]
  BY <1>2, <1>6, QueuesApart
<1>8. QED
  BY <1>5, <1>7

(* No span is pending with the id that an event opens.                     *)
LEMMA NoneOpen ==
  ASSUME KindsInv, InStepInv, NEW m \in Machines, log[Host(m)] # <<>>, Consume(Host(m)),
         NEW e, e = Event(Host(m)), e.type \in Opens
  PROVE  /\ \A y \in HostOpen(m) : FirstEvent(y).id # e.id
         /\ e.type = "HostMsiX" => e.id = 0
         /\ e.type \in HostDmaExecution => e.id # 0
         /\ \A G, x : With(G, UsesOf(HostOpen(m)), x, UseOf(e)) =>
              InTurn(G, log'[Host(m)], Opens, {"HostDmaC"})
<1>1. LogsInv /\ HostHalf(m) /\ Host(m) \in Spanners
  BY SourcesApart DEF InStepInv, PeersInv
<1>2. PICK p, L, L2, F : p = Host(m) /\ L = log[p] /\ L2 = log'[p] /\ F = UsesOf(HostOpen(m))
  OBVIOUS
<1>3. Taken(L2, L) /\ e = L[1]
  BY <1>1, <1>2, Consuming DEF Consumed
<1>4. 1 \in DOMAIN L
  BY <1>3 DEF Taken
<1>5. InTurn(F, L, Opens, {"HostDmaC"})
  BY <1>1, <1>2 DEF HostHalf
<1>6. L[1].type \in Opens /\ L[1].type \notin {"HostDmaC"}
  BY <1>3 DEF Opens, HostDmaExecution
<1>7. /\ \A y \in DOMAIN F : F[y][2] # e.id
      /\ \A G, x : With(G, F, x, UseOf(e)) => InTurn(G, L2, Opens, {"HostDmaC"})
  BY <1>3, <1>5, <1>6, TurnOpens
<1>8. \A y \in HostOpen(m) : FirstEvent(y).id # e.id
  BY <1>2, <1>7 DEF UsesOf, UseOf
<1>9. /\ e.type = "HostMsiX" => e.id = 0
      /\ e.type \in HostDmaExecution => e.id # 0
  BY <1>1, <1>2, <1>3, <1>4 DEF LogsInv
<1>10. QED
  BY <1>2, <1>7, <1>8, <1>9

(* A span is started with the context that was sent for it.                *)
LEMMA HostOpens ==
  ASSUME KindsInv, InStepInv, NEW m \in Machines, log[Host(m)] # <<>>, Consume(Host(m)),
         NEW e, e = Event(Host(m)), e.type \in Opens,
         CanPop(FromNic(m)), Pop(FromNic(m)), NEW con, con = Front(FromNic(m)),
         NEW kind, NEW sp, sp = NewSpan(kind, con.parent, e), HasCause(m, sp),
         kind \in {"HostDma", "HostMsix"},
         spans' = Append1(Host(m), sp), NEW id, id = NextId(Host(m)),
         NEW h, HostBecomes(m, h), h.call = host[m].call, h.copying = host[m].copying,
         h.pciWrite = host[m].pciWrite, OpenOf(h) = HostOpen(m) \cup {id},
         \/ kind = "HostMsix" /\ e.type = "HostMsiX" /\ h.msix = id /\ h.dmas = host[m].dmas
         \/ /\ kind = "HostDma" /\ e.type \in HostDmaExecution /\ h.msix = host[m].msix
            /\ \A i \in DOMAIN h.dmas : \/ h.dmas[i] = id
                                        \/ \E j \in DOMAIN host[m].dmas : h.dmas[i] = host[m].dmas[j]
  PROVE  InStepInv'
<1>1. LogsInv /\ HostHalf(m) /\ CallInv(m) /\ EventsInv /\ ChannelsInv(m)
  BY DEF InStepInv, PeersInv, HostHalf
<1>2. Host(m) \in Spanners /\ Host(m) \in Sources /\ HostOpen(m) \subseteq Ids(Host(m))
  BY SourcesApart, OpenAre
<1>3. PICK D, X, N : D = HostOpen(m) /\ X = {} /\ N = {id}
  OBVIOUS
<1>4. con.parent \in Ids(Nic(m)) /\ FirstEvent(con.parent).op = e.op
  BY <1>1, HostMeets
<1>5. RightParentOf(Host(m), sp)
  <2>1. sp.events[1] = e /\ sp.parent = con.parent
    BY NewSpanHas, NewSpanIs
  <2>2. Nic(m) \in Sources /\ Nic(m) # Host(m)
    BY DEF Host, Nic, Sources, Spanners
  <2>3. QED
    BY <1>4, <2>1, <2>2 DEF RightParentOf
<1>6. /\ Keeps(X) /\ FirstEvent(id)' = e /\ SpanOf(id)' = sp /\ id \notin Ids(Host(m))
      /\ \A q \in Spanners : \A x \in Ids(q)' : x \in Ids(q) \/ Right(x)'
  <2>1. PICK par : par = con.parent
    OBVIOUS
  <2>2. sp = NewSpan(kind, par, e)
    BY <2>1
  <2>3. Host(m) \in {Host(m), Nic(m)} /\ (kind = "HostMmio" => e.type \in HostMmioIssue)
    OBVIOUS
  <2>4. QED
    BY <1>1, <1>3, <1>5, <2>2, <2>3, StartingKeeps
<1>7. sp.pending /\ sp.events = <<e>>
  <2>1. ~Completes(kind, e)
    BY DEF Completes, Opens, HostDmaExecution
  <2>2. PICK par : par = con.parent /\ sp = NewSpan(kind, par, e)
    OBVIOUS
  <2>3. sp.events = <<e>> /\ sp.pending = ~Completes(kind, e)
    BY <2>2, NewSpanHas
  <2>4. QED
    BY <2>1, <2>3
<1>8. \A types : e.type \in types => OpenedBy(id, types)'
  BY <1>6, <1>7 DEF OpenedBy
<1>9. PendingAre(m, h, N)
  <2>1. /\ e.type = "HostMsiX" => e.id = 0
        /\ e.type \in HostDmaExecution => e.id # 0
    BY NoneOpen
  <2>2. e.type = "HostMsiX" => OpenedBy(id, {"HostMsiX"})' /\ FirstEvent(id)'.id = 0
    BY <1>6, <1>8, <2>1
  <2>3. e.type \in HostDmaExecution => OpenedBy(id, HostDmaExecution)' /\ FirstEvent(id)'.id # 0
    BY <1>6, <1>8, <2>1
  <2>4. CASE kind = "HostMsix" /\ e.type = "HostMsiX" /\ h.msix = id /\ h.dmas = host[m].dmas
    <3>1. OpenedBy(h.msix, {"HostMsiX"})' /\ FirstEvent(h.msix)'.id = 0
      BY <2>2, <2>4
    <3>2. QED
      BY <1>3, <2>4, <3>1 DEF PendingAre
  <2>5. CASE /\ kind = "HostDma" /\ e.type \in HostDmaExecution /\ h.msix = host[m].msix
             /\ \A i \in DOMAIN h.dmas :
                  \/ h.dmas[i] = id
                  \/ \E j \in DOMAIN host[m].dmas : h.dmas[i] = host[m].dmas[j]
    <3>1. ASSUME NEW i \in DOMAIN h.dmas, h.dmas[i] = id
          PROVE  OpenedBy(h.dmas[i], HostDmaExecution)' /\ FirstEvent(h.dmas[i])'.id # 0
      BY <2>3, <2>5, <3>1
    <3>2. QED
      BY <1>3, <2>5, <3>1 DEF PendingAre
  <2>6. QED
    BY <2>4, <2>5
<1>10. host'[m] = h
  BY DEF HostBecomes
<1>11. /\ PendingSound(m)' /\ HostOpen(m)' = D \cup {id}
       /\ \A x \in D : UseOf(FirstEvent(x))' = UseOf(FirstEvent(x))
  <2>1. X \cap OpenOf(h) \cap Ids(Host(m)) = {}
    BY <1>3
  <2>2. /\ PendingSound(m)' /\ HostOpen(m)' = OpenOf(h)
        /\ \A x \in HostOpen(m) : UseOf(FirstEvent(x))' = UseOf(FirstEvent(x))
    BY <1>1, <1>6, <1>9, <1>10, <2>1, HostListsAre
  <2>3. QED
    BY <1>3, <2>2
<1>12. PICK G : G = UsesOf(HostOpen(m))'
  OBVIOUS
<1>13. With(G, UsesOf(HostOpen(m)), id, UseOf(e))
  <2>1. PICK F : F = UsesOf(HostOpen(m))
    OBVIOUS
  <2>2. DOMAIN F = D /\ \A x \in D : F[x] = UseOf(FirstEvent(x))
    BY <1>3, <2>1 DEF UsesOf
  <2>3. DOMAIN G = D \cup {id} /\ \A x \in D \cup {id} : G[x] = UseOf(FirstEvent(x))'
    BY <1>11, <1>12 DEF UsesOf
  <2>4. id \notin D
    BY <1>2, <1>3, <1>6
  <2>5. UseOf(FirstEvent(id))' = UseOf(e)
    BY <1>6 DEF UseOf
  <2>6. \A x \in D : G[x] = F[x]
    BY <1>11, <2>2, <2>3
  <2>7. QED
    BY <2>1, <2>2, <2>3, <2>4, <2>5, <2>6 DEF With
<1>14. InTurn(G, log'[Host(m)], Opens, {"HostDmaC"})
  BY <1>13, NoneOpen
<1>15. CallInv(m)'
  <2>1. ~h.copying
    <3>1. e.type # "HostCall"
      BY DEF Opens, HostDmaExecution
    <3>2. QED
      BY <1>1, <3>1 DEF CallInv
  <2>2. PICK c : c = h.call
    OBVIOUS
  <2>3. c # None => SpanOf(c)'.pending
    <3>1. c # None => c \in Ids(Host(m))
      BY <2>2, OpenAre
    <3>2. c # None => SpanOf(c)' = SpanOf(c)
      BY <1>2, <1>3, <1>6, <3>1 DEF Keeps
    <3>3. c # None => SpanOf(c).pending
      BY <1>1, <2>1, <2>2 DEF CallInv
    <3>4. QED
      BY <3>2, <3>3
  <2>4. QED
    BY <2>1, <2>2, <2>3, CallBecomes
<1>16. HostHalf(m)'
  <2>1. InTurn(UsesOf(HostOpen(m)), log[Host(m)], Opens, {"HostDmaC"})'
    BY <1>12, <1>14 DEF InTurn
  <2>2. QED
    BY <1>11, <1>15, <2>1 DEF HostHalf, PendingSound
<1>17. X \subseteq Ids(Host(m))
  BY <1>3
<1>18. /\ HostPasses(m, e)
       /\ \A n \in Machines : n # m =>
            \A q \in {ToNic(n), FromNic(n), FromNet(n)} : queue'[q] = queue[q]
  BY HostPops
<1>19. QED
  BY <1>6, <1>16, <1>17, <1>18, HostConsumes

(* HandelDma starts a dma that the card told of.                           *)
LEMMA StartDmaInStep ==
  ASSUME KindsInv, InStepInv, NEW m \in Machines, StartDma(m), UNCHANGED nic
  PROVE  InStepInv'
<1>1. PICK p, e, g, con, sp, n, ids, h :
        /\ p = Host(m) /\ e = Event(p) /\ g = host[m] /\ n = NextId(p)
        /\ con = Front(FromNic(m)) /\ sp = NewSpan("HostDma", con.parent, e)
        /\ ids = Append(g.dmas, n) /\ h = [g EXCEPT !.dmas = ids]
  OBVIOUS
<1>2. /\ log[p] # <<>> /\ Consume(p) /\ e.type \in HostDmaExecution
      /\ CanPop(FromNic(m)) /\ Pop(FromNic(m)) /\ con.expectation = "Dma"
      /\ spans' = Append1(p, sp) /\ host' = [host EXCEPT ![m] = h]
  BY <1>1 DEF StartDma, AtNewDma, At, HostDmaTypes
<1>3. g \in HostRecords /\ g.dmas \in Seq(SpannerIds)
  BY <1>1, HostMembersAre DEF HostRecords
<1>4. sp.kind = "HostDma" /\ sp.parent = con.parent
  BY <1>1, NewSpanIs
<1>5. HasCause(m, sp)
  <2>1. Carries(FromNic(m), con)
    BY <1>1, <1>2, FrontFits, QueuesApart
  <2>2. QED
    BY <1>2, <1>4, <2>1 DEF Carries, FromNic, HasCause
<1>6. /\ h.call = g.call /\ h.copying = g.copying /\ h.pciWrite = g.pciWrite
      /\ h.msix = g.msix /\ h.dmas = ids
  BY <1>1, <1>3 DEF HostRecords
<1>7. HostBecomes(m, h)
  BY <1>2, HostChanges
<1>8. Listing(ids) = Listing(g.dmas) \cup {n}
  <2>1. g.dmas \in Seq(SpannerIds) /\ ids = Append(g.dmas, n)
    BY <1>1, <1>3
  <2>2. QED
    BY <2>1, ListGains
<1>9. OpenOf(h) = HostOpen(m) \cup {n}
  BY <1>1, <1>6, <1>8 DEF OpenOf, HostOpen, Listing
<1>10. \A i \in DOMAIN h.dmas : h.dmas[i] = n \/ \E j \in DOMAIN host[m].dmas : h.dmas[i] = host[m].dmas[j]
  BY <1>1, <1>6, <1>8 DEF Listing
<1>11. /\ h.call = host[m].call /\ h.copying = host[m].copying /\ h.pciWrite = host[m].pciWrite
       /\ h.msix = host[m].msix
  BY <1>1, <1>6
<1>12. e.type \in Opens
  BY <1>2 DEF Opens
<1>13. PICK kind : kind = "HostDma"
  OBVIOUS
<1>14. /\ log[Host(m)] # <<>> /\ Consume(Host(m)) /\ e = Event(Host(m)) /\ e.type \in Opens
       /\ CanPop(FromNic(m)) /\ Pop(FromNic(m)) /\ con = Front(FromNic(m))
       /\ sp = NewSpan(kind, con.parent, e) /\ spans' = Append1(Host(m), sp) /\ n = NextId(Host(m))
       /\ kind \in {"HostDma", "HostMsix"}
  BY <1>1, <1>2, <1>12, <1>13
<1>15. /\ kind = "HostDma" /\ e.type \in HostDmaExecution /\ h.msix = host[m].msix
       /\ \A i \in DOMAIN h.dmas : h.dmas[i] = n \/ \E j \in DOMAIN host[m].dmas : h.dmas[i] = host[m].dmas[j]
  BY <1>2, <1>10, <1>11, <1>13
<1>16. QED
  BY <1>5, <1>7, <1>9, <1>11, <1>14, <1>15, HostOpens

(* HandelMsix starts an interrupt that the card told of: the one before it *)
(* has ended.                                                              *)
LEMMA StartMsixInStep ==
  ASSUME KindsInv, InStepInv, NEW m \in Machines, StartMsix(m), UNCHANGED nic
  PROVE  InStepInv'
<1>1. PICK p, e, g, con, sp, n, h :
        /\ p = Host(m) /\ e = Event(p) /\ g = host[m] /\ n = NextId(p)
        /\ con = Front(FromNic(m)) /\ sp = NewSpan("HostMsix", con.parent, e)
        /\ h = [g EXCEPT !.msix = n]
  OBVIOUS
<1>2. /\ log[p] # <<>> /\ Consume(p) /\ e.type = "HostMsiX"
      /\ CanPop(FromNic(m)) /\ Pop(FromNic(m)) /\ con.expectation = "Msix"
      /\ spans' = Append1(p, sp) /\ host' = [host EXCEPT ![m] = h]
  BY <1>1 DEF StartMsix, AtMsix, At
<1>3. g \in HostRecords /\ HostHalf(m)
  BY <1>1, HostMembersAre DEF HostRecords, InStepInv, PeersInv
<1>4. sp.kind = "HostMsix" /\ sp.parent = con.parent
  BY <1>1, NewSpanIs
<1>5. HasCause(m, sp)
  <2>1. Carries(FromNic(m), con)
    BY <1>1, <1>2, FrontFits, QueuesApart
  <2>2. QED
    BY <1>2, <1>4, <2>1 DEF Carries, FromNic, HasCause
<1>6. /\ h.call = g.call /\ h.copying = g.copying /\ h.pciWrite = g.pciWrite
      /\ h.msix = n /\ h.dmas = g.dmas
  BY <1>1, <1>3 DEF HostRecords
<1>7. HostBecomes(m, h)
  BY <1>2, HostChanges
<1>8. e.type \in Opens
  BY <1>2 DEF Opens
<1>9. g.msix = None
  <2>1. \A y \in HostOpen(m) : FirstEvent(y).id # e.id
    BY <1>1, <1>2, <1>8, NoneOpen
  <2>2. e.id = 0
    BY <1>1, <1>2, <1>8, NoneOpen
  <2>3. g.msix # None => g.msix \in HostOpen(m) /\ FirstEvent(g.msix).id = 0
    BY <1>1, <1>3, OpenAre DEF HostHalf
  <2>4. QED
    BY <2>1, <2>2, <2>3
<1>10. n # None
  <2>1. p \in {Host(m), Nic(m)}
    BY <1>1
  <2>2. DOMAIN sp = SpanFields
    BY <1>1, NewSpanIs
  <2>3. QED
    BY <1>1, <1>2, <1>5, <2>1, <2>2, Starts
<1>11. OpenOf(h) = HostOpen(m) \cup {n}
  BY <1>1, <1>6, <1>9, <1>10 DEF OpenOf, HostOpen
<1>12. /\ h.call = host[m].call /\ h.copying = host[m].copying /\ h.pciWrite = host[m].pciWrite
       /\ h.dmas = host[m].dmas
  BY <1>1, <1>6
<1>13. PICK kind : kind = "HostMsix"
  OBVIOUS
<1>14. /\ log[Host(m)] # <<>> /\ Consume(Host(m)) /\ e = Event(Host(m)) /\ e.type \in Opens
       /\ CanPop(FromNic(m)) /\ Pop(FromNic(m)) /\ con = Front(FromNic(m))
       /\ sp = NewSpan(kind, con.parent, e) /\ spans' = Append1(Host(m), sp) /\ n = NextId(Host(m))
       /\ kind \in {"HostDma", "HostMsix"}
  BY <1>1, <1>2, <1>8, <1>13
<1>15. kind = "HostMsix" /\ e.type = "HostMsiX" /\ h.msix = n /\ h.dmas = host[m].dmas
  BY <1>2, <1>6, <1>12, <1>13
<1>16. QED
  BY <1>5, <1>7, <1>11, <1>12, <1>14, <1>15, HostOpens

(* A completion finds the span that it completes.                          *)
LEMMA CompletionMeets ==
  ASSUME KindsInv, InStepInv, NEW m \in Machines, log[Host(m)] # <<>>, Consume(Host(m)),
         NEW e, e = Event(Host(m)), e.type = "HostDmaC"
  PROVE  EndsMsix(m) \/ Taking(host[m].dmas, e) # {}
<1>1. LogsInv /\ HostHalf(m) /\ Host(m) \in Spanners
  BY SourcesApart DEF InStepInv, PeersInv
<1>2. PICK p, L, L2, F : p = Host(m) /\ L = log[p] /\ L2 = log'[p] /\ F = UsesOf(HostOpen(m))
  OBVIOUS
<1>3. Taken(L2, L) /\ e = L[1]
  BY <1>1, <1>2, Consuming DEF Consumed
<1>4. InTurn(F, L, Opens, {"HostDmaC"})
  BY <1>1, <1>2 DEF HostHalf
<1>5. L[1].type \in {"HostDmaC"} /\ L[1].type \notin Opens
  BY <1>3 DEF Opens, HostDmaExecution
<1>6. PICK x \in DOMAIN F : F[x] = UseOf(e)
  BY <1>3, <1>4, <1>5, TurnCloses
<1>7. x \in HostOpen(m) /\ FirstEvent(x).id = e.id
  BY <1>2, <1>6 DEF UsesOf, UseOf
<1>8. e.type \in HostDmaTypes
  BY DEF HostDmaTypes
<1>9. CASE x = host[m].msix /\ x # None
  <2>1. e.id = 0
    BY <1>1, <1>7, <1>9 DEF HostHalf
  <2>2. CanAdd(SpanOf(host[m].msix), e)
    BY <1>1, <1>8, <1>9, <2>1, HostOpenTakes
  <2>3. QED
    BY <1>9, <2>2 DEF EndsMsix
<1>10. CASE \E i \in DOMAIN host[m].dmas : x = host[m].dmas[i]
  <2>1. PICK i \in DOMAIN host[m].dmas : x = host[m].dmas[i]
    BY <1>10
  <2>2. CanAdd(SpanOf(host[m].dmas[i]), e)
    BY <1>1, <1>7, <1>8, <2>1, HostOpenTakes
  <2>3. QED
    BY <2>2 DEF Taking
<1>11. QED
  BY <1>7, <1>9, <1>10, OpenAre

(* No context is unexpected.                                               *)
LEMMA NoUnexpectedContext ==
  ASSUME KindsInv, InStepInv, NEW m \in Machines, UnexpectedContext(m)
  PROVE  FALSE
<1>1. PICK e, con : e = Event(Host(m)) /\ con = Front(FromNic(m))
  OBVIOUS
<1>2. ChannelsInv(m) /\ LogsInv
  BY DEF InStepInv, PeersInv
<1>3. log[Host(m)] # <<>> /\ Consume(Host(m)) /\ CanPop(FromNic(m))
  BY DEF UnexpectedContext, AtNewDma, AtMsix, At
<1>4. e.type \in Opens => con.expectation = Expects(e)
  BY <1>1, <1>2, <1>3, HostMeets
<1>5. CASE AtNewDma(m) /\ (con.expectation # "Dma" \/ e.type = "HostDmaC")
  <2>1. e.type \in HostDmaTypes /\ ~EndsMsix(m) /\ Taking(host[m].dmas, e) = {}
    BY <1>1, <1>5 DEF AtNewDma, At
  <2>2. e.type # "HostDmaC"
    BY <1>1, <1>3, <2>1, CompletionMeets
  <2>3. e.type \in HostDmaExecution /\ con.expectation # "Dma"
    BY <1>5, <2>1, <2>2 DEF HostDmaTypes
  <2>4. QED
    BY <1>4, <2>3, Expectations DEF Opens
<1>6. CASE AtMsix(m) /\ con.expectation # "Msix"
  <2>1. e.type = "HostMsiX"
    BY <1>1, <1>6 DEF AtMsix, At
  <2>2. QED
    BY <1>4, <1>6, <2>1, Expectations DEF Opens
<1>7. QED
  BY <1>1, <1>5, <1>6 DEF UnexpectedContext

(* A step that changes nothing of what the invariant speaks of.            *)
LEMMA InStepStays ==
  ASSUME KindsInv, InStepInv, NEW m \in Machines, UNCHANGED <<log, spans, queue, host, nic>>
  PROVE  InStepInv'
<1>1. LogsInv /\ EventsInv /\ ChannelsInv(m) /\ HostHalf(m) /\ NicHalf(m)
  BY DEF InStepInv, PeersInv
<1>2. LogsInv'
  BY <1>1 DEF LogsInv
<1>3. PICK X : X = {}
  OBVIOUS
<1>4. Keeps(X)
  BY <1>1, <1>3, SameKeeps
<1>5. X \cap Ids(Host(m)) = {} /\ X \cap Ids(Nic(m)) = {}
      /\ X \subseteq Ids(Host(m)) \cup Ids(Nic(m))
  BY <1>3
<1>6. ChannelsInv(m)'
  BY <1>1, <1>4, ChannelsSame
<1>7. HostHalf(m)'
  BY <1>1, <1>4, <1>5, HostHalfSame
<1>8. NicHalf(m)'
  BY <1>1, <1>4, <1>5, NicHalfSame
<1>9. \A p \in Spanners : \A id \in Ids(p)' : id \in Ids(p) \/ Right(id)'
  BY DEF Ids
<1>10. \A n \in Machines : n # m =>
         /\ host'[n] = host[n] /\ nic'[n] = nic[n]
         /\ log'[Host(n)] = log[Host(n)] /\ log'[Nic(n)] = log[Nic(n)]
         /\ \A q \in {ToNic(n), FromNic(n), FromNet(n)} : queue'[q] = queue[q]
  OBVIOUS
<1>11. QED
  BY <1>2, <1>4, <1>5, <1>6, <1>7, <1>8, <1>9, <1>10, Reached

(* A host stays in step.                                                   *)
LEMMA TraceHostInStep ==
  ASSUME KindsInv, InStepInv, NEW m \in Machines, TraceHost(m)
  PROVE  InStepInv'
<1>1. NextHost(m) /\ UNCHANGED nic
  BY DEF TraceHost
<1>2. CASE NextCall(m) \/ EndOfCopies(m)
  <2>1. AtNextCall(m) /\ StartNextCall(m)
    BY <1>2 DEF NextCall, EndOfCopies
  <2>2. QED
    BY <1>1, <2>1, StartNextCallInStep
<1>3. CASE CannotStartMmio(m) \/ CannotHandlePci(m) \/ CannotStartInt(m)
  <2>1. HostThrows
    BY <1>3 DEF CannotStartMmio, CannotHandlePci, CannotStartInt
  <2>2. UNCHANGED <<log, spans, queue, host, nic>>
    BY <1>1, <2>1 DEF HostThrows, Throw
  <2>3. QED
    BY <2>2, InStepStays
<1>4. CASE UnexpectedContext(m)
  BY <1>4, NoUnexpectedContext
<1>5. QED
  BY <1>1, <1>2, <1>3, <1>4, FirstCallInStep, AddToCallInStep, ReceiveContextInStep,
     CopyContextInStep, AddToMmioInStep, StartMmioInStep, EndPciInStep, StartPciInStep,
     EndMsixInStep, EndDmaInStep, StartDmaInStep, StartMsixInStep, StartIntInStep,
     AddToIntInStep, SkipHostInStep DEF NextHost

--------------------------------------------------------------------------------
(* The steps of a card.                                                    *)

(* A card that consumes an event e: what is left to show.                  *)
LEMMA NicConsumes ==
  ASSUME KindsInv, InStepInv, NEW m \in Machines, log[Nic(m)] # <<>>, Consume(Nic(m)),
         NEW e, e = Event(Nic(m)), NEW X, Keeps(X), X \subseteq Ids(Nic(m)),
         NEW g, NicBecomes(m, g), NicPasses(m, e),
         \A n \in Machines : n # m =>
           \A q \in {ToNic(n), FromNic(n), FromNet(n)} : queue'[q] = queue[q],
         \A p \in Spanners : \A id \in Ids(p)' : id \in Ids(p) \/ Right(id)',
         NicHalf(m)'
  PROVE  InStepInv'
<1>1. LogsInv /\ ChannelsInv(m) /\ HostHalf(m)
  BY DEF InStepInv, PeersInv
<1>2. Nic(m) \in Spanners
  BY SourcesApart
<1>3. Consumed(Nic(m)) /\ LogsInv'
  BY <1>1, <1>2, Consuming
<1>4. host' = host /\ \A n \in Machines : n # m => nic'[n] = nic[n]
  BY DEF NicBecomes
<1>5. ChannelsInv(m)'
  BY <1>1, <1>3, <1>4, NicChannels
<1>6. \A n \in Machines : /\ n # m => log'[Nic(n)] = log[Nic(n)]
                          /\ log'[Host(n)] = log[Host(n)]
  BY <1>3 DEF Consumed, Host, Nic, Spanners
<1>7. X \cap Ids(Host(m)) = {}
  BY DEF Ids, Host, Nic
<1>8. HostHalf(m)'
  BY <1>1, <1>4, <1>6, <1>7, HostHalfSame
<1>9. X \subseteq Ids(Host(m)) \cup Ids(Nic(m))
  OBVIOUS
<1>10. \A n \in Machines : n # m =>
         /\ host'[n] = host[n] /\ nic'[n] = nic[n]
         /\ log'[Host(n)] = log[Host(n)] /\ log'[Nic(n)] = log[Nic(n)]
         /\ \A q \in {ToNic(n), FromNic(n), FromNet(n)} : queue'[q] = queue[q]
  BY <1>4, <1>6
<1>11. QED
  BY <1>3, <1>5, <1>8, <1>9, <1>10, Reached

(* What the pending dmas of a card are, when those of X are not among them. *)
LEMMA NicListsAre ==
  ASSUME KindsInv, NEW m \in Machines, NicHalf(m), NEW X, Keeps(X)
  PROVE  \A id \in NicOpen(m) :
           /\ id \in Ids(Nic(m)) /\ FirstEvent(id)' = FirstEvent(id)
           /\ UseOf(FirstEvent(id))' = UseOf(FirstEvent(id))
           /\ id \notin X => /\ Executed(id)' <=> Executed(id)
                             /\ PendingDma(id)'
<1>1. Nic(m) \in Sources /\ NicOpen(m) \subseteq Ids(Nic(m))
  BY OpenAre, SourcesApart
<1>2. \A id \in NicOpen(m) : UseOf(FirstEvent(id))' = UseOf(FirstEvent(id))
  BY <1>1, UsesKept
<1>3. ASSUME NEW id \in NicOpen(m)
      PROVE  /\ FirstEvent(id)' = FirstEvent(id)
             /\ id \notin X => (Executed(id)' <=> Executed(id)) /\ PendingDma(id)'
  <2>1. /\ FirstEvent(id)' = FirstEvent(id)
        /\ id \notin X => SpanOf(id)' = SpanOf(id)
    BY <1>1 DEF Keeps
  <2>2. PendingDma(id)
    BY DEF NicHalf
  <2>3. id \notin X => (Executed(id)' <=> Executed(id)) /\ PendingDma(id)'
    BY <2>1, <2>2 DEF Executed, PendingDma
  <2>4. QED
    BY <2>1, <2>3
<1>4. QED
  BY <1>1, <1>2, <1>3

(* An event that does not concern dmas.                                    *)
LEMMA NicQuiet ==
  ASSUME KindsInv, InStepInv, NEW m \in Machines, log[Nic(m)] # <<>>, Consume(Nic(m)),
         NEW e, e = Event(Nic(m)), e.type \notin NicDmaTypes,
         NEW X, Keeps(X), X = {},
         NEW g, NicBecomes(m, g), g.dmas = nic[m].dmas, NicPasses(m, e),
         \A n \in Machines : n # m =>
           \A q \in {ToNic(n), FromNic(n), FromNet(n)} : queue'[q] = queue[q],
         \A p \in Spanners : \A id \in Ids(p)' : id \in Ids(p) \/ Right(id)'
  PROVE  InStepInv'
<1>1. LogsInv /\ NicHalf(m)
  BY DEF InStepInv, PeersInv
<1>2. Nic(m) \in Spanners
  BY SourcesApart
<1>3. PICK L, L2, D, D1, D2, F1, F2 :
        /\ L = log[Nic(m)] /\ L2 = log'[Nic(m)]
        /\ D = NicOpen(m) /\ D1 = NicIssued(m) /\ D2 = NicExecuted(m)
        /\ F1 = UsesOf(D1) /\ F2 = UsesOf(D2)
  OBVIOUS
<1>4. Taken(L2, L) /\ e = L[1]
  BY <1>1, <1>2, <1>3, Consuming DEF Consumed
<1>5. D1 \subseteq D /\ D2 \subseteq D
  BY <1>3 DEF NicIssued, NicExecuted
<1>6. \A id \in D : /\ UseOf(FirstEvent(id))' = UseOf(FirstEvent(id))
                    /\ Executed(id)' <=> Executed(id)
                    /\ PendingDma(id)'
  BY <1>1, <1>3, NicListsAre
<1>7. NicOpen(m)' = D
  BY <1>3 DEF NicOpen, NicBecomes
<1>8. NicIssued(m)' = D1 /\ NicExecuted(m)' = D2
  BY <1>3, <1>6, <1>7 DEF NicIssued, NicExecuted
<1>9. UsesOf(NicIssued(m))' = F1 /\ UsesOf(NicExecuted(m))' = F2
  BY <1>3, <1>5, <1>6, <1>8 DEF UsesOf
<1>10. /\ InTurn(F1, L2, {"NicDmaI"}, {"NicDmaEx"})
       /\ InTurn(F2, L2, {"NicDmaEx"}, {"NicDmaCW", "NicDmaCR"})
  <2>1. /\ InTurn(F1, L, {"NicDmaI"}, {"NicDmaEx"})
        /\ InTurn(F2, L, {"NicDmaEx"}, {"NicDmaCW", "NicDmaCR"})
    BY <1>1, <1>3 DEF NicHalf
  <2>2. /\ L[1].type \notin {"NicDmaI"} \cup {"NicDmaEx"}
        /\ L[1].type \notin {"NicDmaEx"} \cup {"NicDmaCW", "NicDmaCR"}
    BY <1>4 DEF NicDmaTypes
  <2>3. InTurn(F1, L2, {"NicDmaI"}, {"NicDmaEx"})
    BY <1>4, <2>1, <2>2, TurnSkips
  <2>4. InTurn(F2, L2, {"NicDmaEx"}, {"NicDmaCW", "NicDmaCR"})
    BY <1>4, <2>1, <2>2, TurnSkips
  <2>5. QED
    BY <2>3, <2>4
<1>11. NicHalf(m)'
  <2>1. /\ InTurn(UsesOf(NicIssued(m)), log[Nic(m)], {"NicDmaI"}, {"NicDmaEx"})'
        /\ InTurn(UsesOf(NicExecuted(m)), log[Nic(m)], {"NicDmaEx"}, {"NicDmaCW", "NicDmaCR"})'
    BY <1>3, <1>9, <1>10 DEF InTurn
  <2>2. \A id \in NicOpen(m)' : PendingDma(id)'
    BY <1>6, <1>7
  <2>3. QED
    BY <2>1, <2>2 DEF NicHalf
<1>12. X \subseteq Ids(Nic(m))
  OBVIOUS
<1>13. QED
  BY <1>11, <1>12, NicConsumes

(* An event without a handler.                                             *)
LEMMA SkipNicInStep ==
  ASSUME KindsInv, InStepInv, NEW m \in Machines, SkipNic(m), UNCHANGED host
  PROVE  InStepInv'
<1>1. PICK e, g, X : e = Event(Nic(m)) /\ g = nic[m] /\ X = {}
  OBVIOUS
<1>2. /\ log[Nic(m)] # <<>> /\ Consume(Nic(m)) /\ e.type \notin NicTypes
      /\ spans' = spans /\ queue' = queue /\ nic' = nic
  BY <1>1 DEF SkipNic, Skip
<1>3. Keeps(X)
  BY <1>1, <1>2, SameKeeps DEF InStepInv
<1>4. NicBecomes(m, g) /\ g.dmas = nic[m].dmas
  BY <1>1, <1>2 DEF NicBecomes
<1>5. e.type \notin NicDmaTypes \cup NicMmioTypes \cup Told /\ e.type # "NicRx"
  BY <1>2 DEF NicTypes, NicDmaTypes, Told
<1>6. NicPasses(m, e)
  BY <1>2, <1>5 DEF NicPasses
<1>7. \A p \in Spanners : \A x \in Ids(p)' : x \in Ids(p) \/ Right(x)'
  BY <1>2 DEF Ids
<1>8. \A n \in Machines : n # m =>
        \A q \in {ToNic(n), FromNic(n), FromNet(n)} : queue'[q] = queue[q]
  BY <1>2
<1>9. QED
  BY <1>1, <1>2, <1>3, <1>4, <1>5, <1>6, <1>7, <1>8, NicQuiet

(* A span of a card that lasts one event.                                  *)
LEMMA NicStarts ==
  ASSUME KindsInv, InStepInv, NEW m \in Machines, log[Nic(m)] # <<>>, Consume(Nic(m)),
         NEW e, e = Event(Nic(m)), e.type \notin NicDmaTypes,
         NEW kind \in {"NicMmio", "NicEth", "NicMsix"}, NEW parent,
         NEW sp, sp = NewSpan(kind, parent, e), HasCause(m, sp), RightParentOf(Nic(m), sp),
         spans' = Append1(Nic(m), sp), NEW n, n = NextId(Nic(m)),
         NEW g, NicBecomes(m, g), g.dmas = nic[m].dmas,
         FirstEvent(n)' = e => NicPasses(m, e),
         \A k \in Machines : k # m =>
           \A q \in {ToNic(k), FromNic(k), FromNet(k)} : queue'[q] = queue[q]
  PROVE  InStepInv'
<1>1. PICK X : X = {}
  OBVIOUS
<1>2. EventsInv /\ (kind = "HostMmio" => e.type \in HostMmioIssue)
  BY DEF InStepInv
<1>3. PICK p : p = Nic(m) /\ p \in {Host(m), Nic(m)}
  OBVIOUS
<1>4. /\ Keeps(X) /\ FirstEvent(n)' = e
      /\ \A q \in Spanners : \A x \in Ids(q)' : x \in Ids(q) \/ Right(x)'
  <2>1. spans' = Append1(p, sp) /\ n = NextId(p) /\ RightParentOf(p, sp)
    BY <1>3
  <2>2. QED
    BY <1>1, <1>2, <1>3, <2>1, StartingKeeps
<1>5. NicPasses(m, e)
  BY <1>4
<1>6. QED
  BY <1>1, <1>4, <1>5, NicQuiet

(* The channels that a card neither takes from nor sends on.               *)
LEMMA NicQueues ==
  ASSUME KindsInv, NEW m \in Machines,
         NEW Q \in SUBSET {ToNic(m), FromNic(m), FromNet(m), Receives(m), ToNet(m)},
         \A q \in Queues : q \notin Q => queue'[q] = queue[q]
  PROVE  /\ \A q \in {ToNic(m), FromNic(m), FromNet(m)} : q \notin Q => queue'[q] = queue[q]
         /\ \A k \in Machines : k # m =>
              \A q \in {ToNic(k), FromNic(k), FromNet(k)} : queue'[q] = queue[q]
<1>1. {ToNic(m), FromNic(m), FromNet(m)} \subseteq Queues
  BY QueuesApart
<1>2. \A q \in {ToNic(m), FromNic(m), FromNet(m)} : q \notin Q => queue'[q] = queue[q]
  BY <1>1
<1>3. ASSUME NEW k \in Machines, k # m, NEW q \in {ToNic(k), FromNic(k), FromNet(k)}
      PROVE  queue'[q] = queue[q]
  <2>1. q \in Queues
    BY <1>3, QueuesApart
  <2>2. \A r \in {ToNic(m), FromNic(m), FromNet(m), Receives(m), ToNet(m)} :
          r \notin {ToNic(k), FromNic(k), FromNet(k)}
    BY <1>3, QueuesApart
  <2>3. q \notin Q
    BY <1>3, <2>2
  <2>4. QED
    BY <2>1, <2>3
<1>4. QED
  BY <1>2, <1>3

(* HandelMmio takes the context of the access.                             *)
LEMMA MmioInStep ==
  ASSUME KindsInv, InStepInv, NEW m \in Machines, Mmio(m), UNCHANGED host
  PROVE  InStepInv'
<1>1. PICK p, e, con, sp, n, Q, par :
        /\ p = Nic(m) /\ e = Event(p) /\ n = NextId(p) /\ con = Front(ToNic(m))
        /\ par = con.parent /\ sp = NewSpan("NicMmio", par, e) /\ Q = {ToNic(m)}
  OBVIOUS
<1>2. /\ log[p] # <<>> /\ Consume(p) /\ e.type \in NicMmioTypes
      /\ CanPop(ToNic(m)) /\ Pop(ToNic(m))
  BY <1>1 DEF Mmio, At
<1>3. ChannelsInv(m) /\ LogsInv /\ DOMAIN queue = Queues /\ ToNic(m) \in Queues
  BY QueuesApart DEF InStepInv, PeersInv, KindsInv, QueuesInv
<1>4. /\ FirstEvent(par).op = e.op /\ con.expectation = "Mmio"
      /\ \E q \in Sources : q # Nic(m) /\ par \in Ids(q)
  <2>1. PICK q : q = ToNic(m)
    OBVIOUS
  <2>2. /\ FirstEvent(con.parent).op = e.op /\ con.expectation = Expects(e)
        /\ \E r \in Sources : r # Nic(m) /\ con.parent \in Ids(r)
    BY <1>1, <1>2, <1>3, <2>1, NicMeets
  <2>3. QED
    BY <1>1, <1>2, <2>2, Expectations
<1>5. sp.kind = "NicMmio" /\ sp.parent = par /\ sp.events[1] = e
  BY <1>1, NewSpanIs, NewSpanHas
<1>6. HasCause(m, sp)
  <2>1. Carries(ToNic(m), con)
    BY <1>1, <1>2, <1>3, FrontFits
  <2>2. QED
    BY <1>1, <1>4, <1>5, <2>1 DEF Carries, ToNic, HasCause
<1>7. RightParentOf(p, sp)
  BY <1>1, <1>4, <1>5 DEF RightParentOf
<1>8. spans' = Append1(p, sp)
  BY <1>1, <1>4 DEF Mmio
<1>9. PICK g : NicBecomes(m, g) /\ g.dmas = nic[m].dmas
  <2>1. nic[m] \in NicRecords
    BY NicMembersAre
  <2>2. CASE e.type = "NicMmioW"
    <3>1. PICK g : g = [nic[m] EXCEPT !.lastCausing = n]
      OBVIOUS
    <3>2. nic' = [nic EXCEPT ![m] = g]
      BY <1>1, <1>4, <2>2, <3>1 DEF Mmio
    <3>3. NicBecomes(m, g) /\ g.dmas = nic[m].dmas
      BY <2>1, <3>1, <3>2, NicChanges DEF NicRecords
    <3>4. QED
      BY <3>3
  <2>3. CASE e.type # "NicMmioW"
    <3>1. nic' = nic
      BY <1>1, <1>4, <2>3 DEF Mmio
    <3>2. QED
      BY <3>1 DEF NicBecomes
  <2>4. QED
    BY <2>2, <2>3
<1>10. /\ queue'[ToNic(m)] = Tail(queue[ToNic(m)])
       /\ \A q \in Queues : q \notin Q => queue'[q] = queue[q]
  BY <1>1, <1>2, <1>3 DEF Pop
<1>11. /\ \A q \in {ToNic(m), FromNic(m), FromNet(m)} : q \notin Q => queue'[q] = queue[q]
       /\ \A k \in Machines : k # m =>
            \A q \in {ToNic(k), FromNic(k), FromNet(k)} : queue'[q] = queue[q]
  BY <1>1, <1>10, NicQueues
<1>12. e.type \notin Told /\ e.type # "NicRx" /\ e.type \notin NicDmaTypes
  BY <1>2 DEF NicMmioTypes, Told, NicDmaTypes
<1>13. NicPasses(m, e)
  <2>1. queue'[FromNic(m)] = queue[FromNic(m)] /\ queue'[FromNet(m)] = queue[FromNet(m)]
    BY <1>1, <1>11, QueuesApart
  <2>2. QED
    BY <1>2, <1>10, <1>12, <2>1 DEF NicPasses
<1>14. PICK kind : kind = "NicMmio" /\ kind \in {"NicMmio", "NicEth", "NicMsix"}
  OBVIOUS
<1>15. sp = NewSpan(kind, par, e)
  BY <1>1, <1>14
<1>16. /\ log[Nic(m)] # <<>> /\ Consume(Nic(m)) /\ e = Event(Nic(m)) /\ n = NextId(Nic(m))
       /\ RightParentOf(Nic(m), sp) /\ spans' = Append1(Nic(m), sp)
  BY <1>1, <1>2, <1>7, <1>8
<1>17. QED
  BY <1>6, <1>9, <1>11, <1>12, <1>13, <1>14, <1>15, <1>16, NicStarts

(* HandelTxrx takes the context of the packet.                             *)
LEMMA ReceiveInStep ==
  ASSUME KindsInv, InStepInv, NEW m \in Machines, Receive(m), UNCHANGED host
  PROVE  InStepInv'
<1>1. PICK p, e, con, sp, n, Q, par, g, out :
        /\ p = Nic(m) /\ e = Event(p) /\ n = NextId(p) /\ con = Front(FromNet(m))
        /\ par = con.parent /\ sp = NewSpan("NicEth", par, e) /\ Q = {FromNet(m), Receives(m)}
        /\ g = [nic[m] EXCEPT !.lastCausing = n] /\ out = Context(n, "Rx", e.ts)
  OBVIOUS
<1>2. /\ log[p] # <<>> /\ Consume(p) /\ e.type = "NicRx" /\ CanPop(FromNet(m))
      /\ queue' = [queue EXCEPT ![FromNet(m)] = Tail(@), ![Receives(m)] = Append(@, out)]
      /\ nic' = [nic EXCEPT ![m] = g] /\ spans' = Append1(p, sp)
  BY <1>1 DEF Receive, At, PopAndPush
<1>3. ChannelsInv(m) /\ LogsInv /\ DOMAIN queue = Queues /\ FromNet(m) \in Queues
  BY QueuesApart DEF InStepInv, PeersInv, KindsInv, QueuesInv
<1>4. /\ FirstEvent(par).op = e.op /\ con.expectation = "Rx"
      /\ \E q \in Sources : q # Nic(m) /\ par \in Ids(q)
  <2>1. PICK q : q = FromNet(m)
    OBVIOUS
  <2>2. /\ FirstEvent(con.parent).op = e.op /\ con.expectation = Expects(e)
        /\ \E r \in Sources : r # Nic(m) /\ con.parent \in Ids(r)
    BY <1>1, <1>2, <1>3, <2>1, NicMeets
  <2>3. QED
    BY <1>1, <1>2, <2>2, Expectations
<1>5. sp.kind = "NicEth" /\ sp.parent = par /\ sp.events[1] = e
  BY <1>1, NewSpanIs, NewSpanHas
<1>6. HasCause(m, sp)
  <2>1. Carries(FromNet(m), con)
    BY <1>1, <1>2, <1>3, FrontFits
  <2>2. QED
    BY <1>1, <1>4, <1>5, <2>1 DEF Carries, FromNet, HasCause
<1>7. RightParentOf(p, sp)
  BY <1>1, <1>4, <1>5 DEF RightParentOf
<1>8. NicBecomes(m, g) /\ g.dmas = nic[m].dmas
  <2>1. nic[m] \in NicRecords
    BY NicMembersAre
  <2>2. QED
    BY <1>1, <1>2, <2>1, NicChanges DEF NicRecords
<1>9. /\ queue'[FromNet(m)] = Tail(queue[FromNet(m)])
      /\ \A q \in Queues : q \notin Q => queue'[q] = queue[q]
  BY <1>1, <1>2, <1>3, QueuesApart
<1>10. /\ \A q \in {ToNic(m), FromNic(m), FromNet(m)} : q \notin Q => queue'[q] = queue[q]
       /\ \A k \in Machines : k # m =>
            \A q \in {ToNic(k), FromNic(k), FromNet(k)} : queue'[q] = queue[q]
  BY <1>1, <1>9, NicQueues
<1>11. e.type \notin Told /\ e.type \notin NicMmioTypes /\ e.type \notin NicDmaTypes
  BY <1>2 DEF NicMmioTypes, Told, NicDmaTypes
<1>12. NicPasses(m, e)
  <2>1. queue'[FromNic(m)] = queue[FromNic(m)] /\ queue'[ToNic(m)] = queue[ToNic(m)]
    BY <1>1, <1>10, QueuesApart
  <2>2. QED
    BY <1>2, <1>9, <1>11, <2>1 DEF NicPasses
<1>13. PICK kind : kind = "NicEth" /\ kind \in {"NicMmio", "NicEth", "NicMsix"}
  OBVIOUS
<1>14. sp = NewSpan(kind, par, e)
  BY <1>1, <1>13
<1>15. /\ log[Nic(m)] # <<>> /\ Consume(Nic(m)) /\ e = Event(Nic(m)) /\ n = NextId(Nic(m))
       /\ RightParentOf(Nic(m), sp) /\ spans' = Append1(Nic(m), sp)
  BY <1>1, <1>2, <1>7
<1>16. QED
  BY <1>6, <1>8, <1>10, <1>11, <1>12, <1>13, <1>14, <1>15, NicStarts

(* HandelTxrx hands a packet to the network: a channel of its own.         *)
LEMMA TransmitInStep ==
  ASSUME KindsInv, InStepInv, NEW m \in Machines, Transmit(m), UNCHANGED host
  PROVE  InStepInv'
<1>1. PICK p, e, sp, n, Q, par, g, out :
        /\ p = Nic(m) /\ e = Event(p) /\ n = NextId(p) /\ g = nic[m]
        /\ par = g.lastCausing /\ sp = NewSpan("NicEth", par, e) /\ Q = {ToNet(m)}
        /\ out = Context(n, "Rx", e.ts)
  OBVIOUS
<1>2. /\ log[p] # <<>> /\ Consume(p) /\ e.type = "NicTx" /\ par # None
      /\ queue' = [queue EXCEPT ![ToNet(m)] = Append(@, out)]
      /\ nic' = nic /\ spans' = Append1(p, sp)
  BY <1>1 DEF Transmit, At, Push
<1>3. sp.kind = "NicEth" /\ sp.parent = par /\ sp.events[1] = e
  BY <1>1, NewSpanIs, NewSpanHas
<1>4. HasCause(m, sp)
  BY <1>1, <1>2, <1>3, NicMembersAre DEF HasCause
<1>5. RightParentOf(p, sp)
  BY <1>2, <1>3 DEF RightParentOf, Crosses
<1>6. NicBecomes(m, g) /\ g.dmas = nic[m].dmas
  BY <1>1, <1>2 DEF NicBecomes
<1>7. DOMAIN queue = Queues /\ ToNet(m) \in Queues
  BY QueuesApart DEF KindsInv, QueuesInv
<1>8. \A q \in Queues : q \notin Q => queue'[q] = queue[q]
  BY <1>1, <1>2, <1>7
<1>9. /\ \A q \in {ToNic(m), FromNic(m), FromNet(m)} : q \notin Q => queue'[q] = queue[q]
      /\ \A k \in Machines : k # m =>
           \A q \in {ToNic(k), FromNic(k), FromNet(k)} : queue'[q] = queue[q]
  BY <1>1, <1>8, NicQueues
<1>10. /\ e.type \notin Told /\ e.type \notin NicMmioTypes /\ e.type \notin NicDmaTypes
       /\ e.type # "NicRx"
  BY <1>2 DEF NicMmioTypes, Told, NicDmaTypes
<1>11. NicPasses(m, e)
  <2>1. /\ queue'[FromNic(m)] = queue[FromNic(m)] /\ queue'[ToNic(m)] = queue[ToNic(m)]
        /\ queue'[FromNet(m)] = queue[FromNet(m)]
    BY <1>1, <1>9, QueuesApart
  <2>2. QED
    BY <1>10, <2>1 DEF NicPasses
<1>12. PICK kind : kind = "NicEth" /\ kind \in {"NicMmio", "NicEth", "NicMsix"}
  OBVIOUS
<1>13. sp = NewSpan(kind, par, e)
  BY <1>1, <1>12
<1>14. /\ log[Nic(m)] # <<>> /\ Consume(Nic(m)) /\ e = Event(Nic(m)) /\ n = NextId(Nic(m))
       /\ RightParentOf(Nic(m), sp) /\ spans' = Append1(Nic(m), sp)
  BY <1>1, <1>2, <1>5
<1>15. QED
  BY <1>4, <1>6, <1>9, <1>10, <1>11, <1>12, <1>13, <1>14, NicStarts

(* HandelMsix tells the host of the interrupt.                             *)
LEMMA MsixInStep ==
  ASSUME KindsInv, InStepInv, NEW m \in Machines, Msix(m), UNCHANGED host
  PROVE  InStepInv'
<1>1. PICK p, e, sp, n, Q, par, g, out :
        /\ p = Nic(m) /\ e = Event(p) /\ n = NextId(p) /\ g = nic[m]
        /\ par = g.lastCausing /\ sp = NewSpan("NicMsix", par, e) /\ Q = {FromNic(m)}
        /\ out = Context(n, "Msix", e.ts)
  OBVIOUS
<1>2. /\ log[p] # <<>> /\ Consume(p) /\ e.type = "NicMsix" /\ par # None
      /\ queue' = [queue EXCEPT ![FromNic(m)] = Append(@, out)]
      /\ nic' = nic /\ spans' = Append1(p, sp)
  BY <1>1 DEF Msix, At, Push
<1>3. sp.kind = "NicMsix" /\ sp.parent = par /\ sp.events[1] = e
  BY <1>1, NewSpanIs, NewSpanHas
<1>4. HasCause(m, sp)
  BY <1>1, <1>2, <1>3, NicMembersAre DEF HasCause
<1>5. RightParentOf(p, sp)
  BY <1>2, <1>3 DEF RightParentOf, Crosses
<1>6. NicBecomes(m, g) /\ g.dmas = nic[m].dmas
  BY <1>1, <1>2 DEF NicBecomes
<1>7. DOMAIN queue = Queues /\ FromNic(m) \in Queues
  BY QueuesApart DEF KindsInv, QueuesInv
<1>8. /\ queue'[FromNic(m)] = Append(queue[FromNic(m)], out)
      /\ \A q \in Queues : q \notin Q => queue'[q] = queue[q]
  BY <1>1, <1>2, <1>7
<1>9. /\ \A q \in {ToNic(m), FromNic(m), FromNet(m)} : q \notin Q => queue'[q] = queue[q]
      /\ \A k \in Machines : k # m =>
           \A q \in {ToNic(k), FromNic(k), FromNet(k)} : queue'[q] = queue[q]
  BY <1>1, <1>8, NicQueues
<1>10. /\ e.type \in Told /\ e.type \notin NicMmioTypes /\ e.type \notin NicDmaTypes
       /\ e.type # "NicRx" /\ Expects(e) = "Msix"
  BY <1>2, Expectations DEF NicMmioTypes, Told, NicDmaTypes
<1>11. ASSUME FirstEvent(n)' = e PROVE NicPasses(m, e)
  <2>1. /\ queue'[ToNic(m)] = queue[ToNic(m)] /\ queue'[FromNet(m)] = queue[FromNet(m)]
    BY <1>1, <1>9, QueuesApart
  <2>2. out.expectation = Expects(e) /\ out.parent = n
    BY <1>1, <1>10 DEF Context
  <2>3. FirstEvent(out.parent)' = e /\ e.op = e.op
    BY <1>11, <2>2
  <2>4. \E con, u : /\ queue'[FromNic(m)] = Append(queue[FromNic(m)], con)
                    /\ con.expectation = Expects(e)
                    /\ FirstEvent(con.parent)' = u /\ u.op = e.op
    BY <1>8, <2>2, <2>3
  <2>5. QED
    BY <1>10, <2>1, <2>4 DEF NicPasses
<1>12. PICK kind : kind = "NicMsix" /\ kind \in {"NicMmio", "NicEth", "NicMsix"}
  OBVIOUS
<1>13. sp = NewSpan(kind, par, e)
  BY <1>1, <1>12
<1>14. /\ log[Nic(m)] # <<>> /\ Consume(Nic(m)) /\ e = Event(Nic(m)) /\ n = NextId(Nic(m))
       /\ RightParentOf(Nic(m), sp) /\ spans' = Append1(Nic(m), sp)
  BY <1>1, <1>2, <1>5
<1>15. QED
  BY <1>4, <1>6, <1>9, <1>10, <1>11, <1>12, <1>13, <1>14, NicStarts

(* The events that a pending dma of a card takes.                          *)
LEMMA NicOpenTakes ==
  ASSUME KindsInv, NEW m \in Machines, NicHalf(m), NEW id \in NicOpen(m),
         NEW e, e.type \in NicDmaTypes
  PROVE  CanAdd(SpanOf(id), e) <=>
           /\ e.id = FirstEvent(id).id
           /\ \/ e.type = "NicDmaEx" /\ ~Executed(id)
              \/ e.type \in {"NicDmaCW", "NicDmaCR"} /\ Executed(id)
<1>1. PICK sp, es : sp = SpanOf(id) /\ es = sp.events
  OBVIOUS
<1>2. /\ sp.pending /\ es[1].type = "NicDmaI"
      /\ es = <<es[1]>> \/ (es = <<es[1], es[2]>> /\ es[2].type = "NicDmaEx")
  BY <1>1 DEF NicHalf, PendingDma
<1>3. sp.kind = "NicDma"
  <2>1. AllOf(nic[m].dmas, Nic(m), "NicDma")
    BY NicMembersAre
  <2>2. QED
    BY <1>1, <2>1 DEF AllOf, OfKind, NicOpen
<1>4. FirstEvent(id) = es[1] /\ (Executed(id) <=> 2 \in DOMAIN es)
  BY <1>1 DEF FirstEvent, Executed
<1>5. 1 \in DOMAIN es /\ \A k \in DOMAIN es : es[k].type = "NicDmaI" <=> k = 1
  <2>1. CASE es = <<es[1]>>
    <3>1. DOMAIN es = {1}
      BY <2>1
    <3>2. QED
      BY <1>2, <3>1
  <2>2. CASE es = <<es[1], es[2]>> /\ es[2].type = "NicDmaEx"
    <3>1. DOMAIN es = {1, 2}
      BY <2>2
    <3>2. QED
      BY <1>2, <2>2, <3>1
  <2>3. QED
    BY <1>2, <2>1, <2>2
<1>6. TheOne(es, {"NicDmaI"}) = es[1]
  <2>1. (CHOOSE k \in DOMAIN es : es[k].type \in {"NicDmaI"}) = 1
    BY <1>5
  <2>2. QED
    BY <2>1 DEF TheOne
<1>7. "NicDmaI" \in Types(es)
  BY <1>2, <1>5 DEF Types
<1>8. CanAdd(sp, e) <=> NicDmaTakes(es, e)
  BY <1>1, <1>2, <1>3 DEF CanAdd, IsPotentialAdd, Takes
<1>9. CASE 2 \notin DOMAIN es
  <2>1. es = <<es[1]>>
    <3>1. es # <<es[1], es[2]>>
      BY <1>9
    <3>2. QED
      BY <1>2, <3>1
  <2>2. DOMAIN es = {1}
    BY <2>1
  <2>3. Types(es) = {"NicDmaI"}
    BY <1>2, <2>2 DEF Types
  <2>4. NicDmaTakes(es, e) <=> e.type = "NicDmaEx" /\ e.id = es[1].id
    BY <1>6, <2>3 DEF NicDmaTakes, NicDmaTypes
  <2>5. QED
    BY <1>1, <1>4, <1>8, <1>9, <2>4
<1>10. CASE 2 \in DOMAIN es
  <2>1. es = <<es[1], es[2]>> /\ es[2].type = "NicDmaEx"
    <3>1. es # <<es[1]>>
      BY <1>10
    <3>2. QED
      BY <1>2, <3>1
  <2>2. DOMAIN es = {1, 2}
    BY <2>1
  <2>3. Types(es) = {"NicDmaI", "NicDmaEx"}
    BY <1>2, <2>1, <2>2 DEF Types
  <2>4. NicDmaTakes(es, e) <=> e.type \in {"NicDmaCW", "NicDmaCR"} /\ e.id = es[1].id
    BY <1>6, <2>3 DEF NicDmaTakes, NicDmaTypes
  <2>5. QED
    BY <1>1, <1>4, <1>8, <1>10, <2>4
<1>11. QED
  BY <1>9, <1>10

(* The uses of the dmas of a card that are issued and executed.            *)
NicTurns(m, F1, F2, L2) ==
  /\ InTurn(F1, L2, {"NicDmaI"}, {"NicDmaEx"})
  /\ InTurn(F2, L2, {"NicDmaEx"}, {"NicDmaCW", "NicDmaCR"})

(* An event issues the dma of a span, executes it or ends it; the span is  *)
(* that of the dma if the use of its id is the same.                       *)
DmaMoves(e, D1, D2, F1, F2, G1, G2, id) ==
  \/ e.type = "NicDmaI" /\ With(G1, F1, id, UseOf(e)) /\ G2 = F2
  \/ /\ e.type = "NicDmaEx" /\ id \in D1 /\ FirstEvent(id).id = e.id
     /\ UseOf(FirstEvent(id)) = UseOf(e) => With(F1, G1, id, UseOf(e)) /\ With(G2, F2, id, UseOf(e))
  \/ /\ e.type \in {"NicDmaCW", "NicDmaCR"} /\ id \in D2 /\ FirstEvent(id).id = e.id
     /\ UseOf(FirstEvent(id)) = UseOf(e) => G1 = F1 /\ With(F2, G2, id, UseOf(e))

(* What they become with the next event.                                   *)
LEMMA NicTurnsOn ==
  ASSUME KindsInv, InStepInv, NEW m \in Machines, log[Nic(m)] # <<>>, Consume(Nic(m)),
         NEW e, e = Event(Nic(m)), NEW D1, NEW D2, D1 = NicIssued(m), D2 = NicExecuted(m),
         NEW G1, NEW G2, NEW F1, NEW F2, F1 = UsesOf(D1), F2 = UsesOf(D2), NEW id,
         DmaMoves(e, D1, D2, F1, F2, G1, G2, id)
  PROVE  /\ NicTurns(m, G1, G2, log'[Nic(m)])
         /\ e.type # "NicDmaI" => UseOf(FirstEvent(id)) = UseOf(e)
<1>1. LogsInv /\ NicHalf(m) /\ Nic(m) \in Spanners
  BY SourcesApart DEF InStepInv, PeersInv
<1>2. PICK L, L2 : L = log[Nic(m)] /\ L2 = log'[Nic(m)]
  OBVIOUS
<1>3. Taken(L2, L) /\ e = L[1]
  BY <1>1, <1>2, Consuming DEF Consumed
<1>4. PICK I, E, C : I = {"NicDmaI"} /\ E = {"NicDmaEx"} /\ C = {"NicDmaCW", "NicDmaCR"}
  OBVIOUS
<1>5. InTurn(F1, L, I, E) /\ InTurn(F2, L, E, C)
  BY <1>1, <1>2, <1>4 DEF NicHalf
<1>6. /\ DOMAIN F1 = D1 /\ \A y \in D1 : F1[y] = UseOf(FirstEvent(y))
      /\ DOMAIN F2 = D2 /\ \A y \in D2 : F2[y] = UseOf(FirstEvent(y))
  BY DEF UsesOf
<1>7. CASE e.type = "NicDmaI" /\ With(G1, F1, id, UseOf(e)) /\ G2 = F2
  <2>1. L[1].type \in I /\ L[1].type \notin E /\ L[1].type \notin E \cup C
    BY <1>3, <1>4, <1>7
  <2>2. InTurn(G1, L2, I, E)
    BY <1>3, <1>5, <1>7, <2>1, TurnOpens
  <2>3. InTurn(G2, L2, E, C)
    BY <1>3, <1>5, <1>7, <2>1, TurnSkips
  <2>4. QED
    BY <1>2, <1>4, <1>7, <2>2, <2>3 DEF NicTurns
<1>8. CASE /\ e.type = "NicDmaEx" /\ id \in D1 /\ FirstEvent(id).id = e.id
           /\ UseOf(FirstEvent(id)) = UseOf(e) => With(F1, G1, id, UseOf(e)) /\ With(G2, F2, id, UseOf(e))
  <2>1. L[1].type \in E /\ L[1].type \notin I /\ L[1].type \notin C
    BY <1>3, <1>4, <1>8
  <2>2. PICK x \in DOMAIN F1 :
          /\ F1[x] = UseOf(e) /\ \A y \in DOMAIN F1 : F1[y][2] = e.id => y = x
          /\ \A G : With(F1, G, x, UseOf(e)) => InTurn(G, L2, I, E)
    BY <1>3, <1>5, <2>1, TurnCloses
  <2>3. x = id /\ UseOf(FirstEvent(id)) = UseOf(e)
    BY <1>6, <1>8, <2>2 DEF UseOf
  <2>4. InTurn(G1, L2, I, E)
    BY <1>8, <2>2, <2>3
  <2>5. \A F, x2 : With(F, F2, x2, UseOf(e)) => InTurn(F, L2, E, C)
    BY <1>3, <1>5, <2>1, TurnOpens
  <2>6. InTurn(G2, L2, E, C)
    BY <1>8, <2>3, <2>5
  <2>7. QED
    BY <1>2, <1>4, <2>3, <2>4, <2>6 DEF NicTurns
<1>9. CASE /\ e.type \in {"NicDmaCW", "NicDmaCR"} /\ id \in D2 /\ FirstEvent(id).id = e.id
           /\ UseOf(FirstEvent(id)) = UseOf(e) => G1 = F1 /\ With(F2, G2, id, UseOf(e))
  <2>1. L[1].type \in C /\ L[1].type \notin E /\ L[1].type \notin I \cup E
    BY <1>3, <1>4, <1>9
  <2>2. PICK x \in DOMAIN F2 :
          /\ F2[x] = UseOf(e) /\ \A y \in DOMAIN F2 : F2[y][2] = e.id => y = x
          /\ \A G : With(F2, G, x, UseOf(e)) => InTurn(G, L2, E, C)
    BY <1>3, <1>5, <2>1, TurnCloses
  <2>3. x = id /\ UseOf(FirstEvent(id)) = UseOf(e)
    BY <1>6, <1>9, <2>2 DEF UseOf
  <2>4. InTurn(G2, L2, E, C)
    BY <1>9, <2>2, <2>3
  <2>5. InTurn(F1, L2, I, E)
    BY <1>3, <1>5, <2>1, TurnSkips
  <2>6. QED
    BY <1>2, <1>4, <1>9, <2>3, <2>4, <2>5 DEF NicTurns
<1>10. QED
  BY <1>7, <1>8, <1>9 DEF DmaMoves

(* What is left to show of a step of a card that concerns dmas.            *)
LEMMA NicHalfReached ==
  ASSUME KindsInv, InStepInv, NEW m \in Machines, log[Nic(m)] # <<>>, Consume(Nic(m)),
         NEW e, e = Event(Nic(m)), NEW X, Keeps(X), X \subseteq Ids(Nic(m)),
         NEW g, NicBecomes(m, g), NicPasses(m, e),
         \A n \in Machines : n # m =>
           \A q \in {ToNic(n), FromNic(n), FromNet(n)} : queue'[q] = queue[q],
         \A p \in Spanners : \A id \in Ids(p)' : id \in Ids(p) \/ Right(id)',
         NEW G1, NEW G2, G1 = UsesOf(NicIssued(m))', G2 = UsesOf(NicExecuted(m))',
         NicTurns(m, G1, G2, log'[Nic(m)]),
         \A id \in NicOpen(m)' : PendingDma(id)'
  PROVE  InStepInv'
<1>1. /\ InTurn(UsesOf(NicIssued(m)), log[Nic(m)], {"NicDmaI"}, {"NicDmaEx"})'
      /\ InTurn(UsesOf(NicExecuted(m)), log[Nic(m)], {"NicDmaEx"}, {"NicDmaCW", "NicDmaCR"})'
  BY DEF NicTurns, InTurn
<1>2. NicHalf(m)'
  BY <1>1 DEF NicHalf
<1>3. QED
  BY <1>2, NicConsumes

(* HandelDma starts a dma.                                                 *)
LEMMA IssueDmaInStep ==
  ASSUME KindsInv, InStepInv, NEW m \in Machines, IssueDma(m), UNCHANGED host
  PROVE  InStepInv'
<1>1. PICK p, e, g, ds, sp, n, ids, h, par, X, Q :
        /\ p = Nic(m) /\ e = Event(p) /\ g = nic[m] /\ ds = g.dmas /\ n = NextId(p)
        /\ par = g.lastCausing /\ sp = NewSpan("NicDma", par, e)
        /\ ids = Append(ds, n) /\ h = [g EXCEPT !.dmas = ids] /\ X = {} /\ Q = {}
  OBVIOUS
<1>2. /\ log[p] # <<>> /\ Consume(p) /\ e.type = "NicDmaI" /\ par # None /\ queue' = queue
      /\ nic' = [nic EXCEPT ![m] = h] /\ spans' = Append1(p, sp)
  BY <1>1 DEF IssueDma, At
<1>3. sp.kind = "NicDma" /\ sp.parent = par
  BY <1>1, NewSpanIs
<1>4. sp.events[1] = e /\ sp.events = <<e>> /\ sp.pending = ~Completes("NicDma", e)
  BY <1>1, NewSpanHas
<1>5. sp.pending
  BY <1>2, <1>4 DEF Completes
<1>6. HasCause(m, sp)
  BY <1>1, <1>2, <1>3, NicMembersAre DEF HasCause
<1>7. RightParentOf(p, sp)
  BY <1>2, <1>3 DEF RightParentOf, Crosses
<1>8. /\ Keeps(X) /\ FirstEvent(n)' = e /\ SpanOf(n)' = sp /\ n \notin Ids(p)
      /\ \A q \in Spanners : \A x \in Ids(q)' : x \in Ids(q) \/ Right(x)'
  <2>1. p \in {Host(m), Nic(m)} /\ EventsInv
    BY <1>1 DEF InStepInv
  <2>2. PICK kind : kind = "NicDma" /\ sp = NewSpan(kind, par, e)
    BY <1>1
  <2>3. kind = "HostMmio" => e.type \in HostMmioIssue
    BY <2>2
  <2>4. QED
    BY <1>1, <1>2, <1>6, <1>7, <2>1, <2>2, <2>3, StartingKeeps
<1>9. NicBecomes(m, h) /\ g \in NicRecords /\ ds \in Seq(SpannerIds) /\ h.dmas = ids
  <2>1. NicBecomes(m, h)
    BY <1>2, NicChanges
  <2>2. g \in NicRecords /\ ds \in Seq(SpannerIds)
    BY <1>1, NicMembersAre DEF NicRecords
  <2>3. h.dmas = ids
    BY <1>1, <2>2 DEF NicRecords
  <2>4. QED
    BY <2>1, <2>2, <2>3
<1>10. PICK D, D1, D2, F1, F2 :
         /\ D = NicOpen(m) /\ D1 = NicIssued(m) /\ D2 = NicExecuted(m)
         /\ F1 = UsesOf(D1) /\ F2 = UsesOf(D2)
  OBVIOUS
<1>11. NicHalf(m)
  BY DEF InStepInv, PeersInv
<1>12. \A x \in D : /\ x \in Ids(p) /\ UseOf(FirstEvent(x))' = UseOf(FirstEvent(x))
                    /\ Executed(x)' <=> Executed(x)
                    /\ PendingDma(x)'
  BY <1>1, <1>8, <1>10, <1>11, NicListsAre
<1>13. ~Executed(n)' /\ PendingDma(n)' /\ UseOf(FirstEvent(n))' = UseOf(e)
  <2>1. DOMAIN <<e>> = {1} /\ <<e>>[1] = e
    OBVIOUS
  <2>2. SpanOf(n)'.events = <<e>> /\ SpanOf(n)'.pending
    BY <1>4, <1>5, <1>8
  <2>3. ~Executed(n)'
    BY <2>1, <2>2 DEF Executed
  <2>4. PendingDma(n)'
    <3>1. SpanOf(n)'.events[1] = e
      BY <2>1, <2>2
    <3>2. SpanOf(n)'.events = <<SpanOf(n)'.events[1]>>
      BY <2>2, <3>1
    <3>3. QED
      BY <1>2, <2>2, <3>1, <3>2 DEF PendingDma
  <2>5. UseOf(FirstEvent(n))' = UseOf(e)
    BY <1>8 DEF UseOf
  <2>6. QED
    BY <2>3, <2>4, <2>5
<1>14. NicOpen(m)' = D \cup {n}
  <2>1. Listing(ids) = Listing(ds) \cup {n}
    <3>1. ds \in Seq(SpannerIds) /\ ids = Append(ds, n)
      BY <1>1, <1>9
    <3>2. QED
      BY <3>1, ListGains
  <2>2. nic'[m].dmas = ids
    BY <1>9 DEF NicBecomes
  <2>3. NicOpen(m)' = Listing(ids)
    BY <2>2 DEF NicOpen, Listing
  <2>4. D = Listing(ds)
    BY <1>1, <1>10 DEF NicOpen, Listing
  <2>5. QED
    BY <2>1, <2>3, <2>4
<1>15. NicIssued(m)' = D1 \cup {n} /\ NicExecuted(m)' = D2
  BY <1>10, <1>12, <1>13, <1>14 DEF NicIssued, NicExecuted
<1>16. PICK G1, G2 : G1 = UsesOf(NicIssued(m))' /\ G2 = UsesOf(NicExecuted(m))'
  OBVIOUS
<1>17. D1 \subseteq D /\ D2 \subseteq D /\ n \notin D
  BY <1>8, <1>10, <1>12 DEF NicIssued, NicExecuted
<1>18. With(G1, F1, n, UseOf(e)) /\ G2 = F2
  <2>1. DOMAIN G1 = D1 \cup {n} /\ \A x \in D1 \cup {n} : G1[x] = UseOf(FirstEvent(x))'
    BY <1>15, <1>16 DEF UsesOf
  <2>2. DOMAIN F1 = D1 /\ \A x \in D1 : F1[x] = UseOf(FirstEvent(x))
    BY <1>10 DEF UsesOf
  <2>3. \A x \in D1 : G1[x] = F1[x]
    BY <1>12, <1>17, <2>1, <2>2
  <2>4. With(G1, F1, n, UseOf(e))
    BY <1>13, <1>17, <2>1, <2>2, <2>3 DEF With
  <2>5. G2 = F2
    BY <1>10, <1>12, <1>15, <1>16, <1>17 DEF UsesOf
  <2>6. QED
    BY <2>4, <2>5
<1>19. NicTurns(m, G1, G2, log'[Nic(m)])
  <2>1. DmaMoves(e, D1, D2, F1, F2, G1, G2, n)
    BY <1>2, <1>18 DEF DmaMoves
  <2>2. QED
    BY <1>1, <1>2, <1>10, <2>1, NicTurnsOn
<1>20. \A x \in NicOpen(m)' : PendingDma(x)'
  BY <1>12, <1>13, <1>14
<1>21. NicPasses(m, e)
  <2>1. e.type \notin Told /\ e.type \notin NicMmioTypes /\ e.type # "NicRx"
    BY <1>2 DEF Told, NicMmioTypes
  <2>2. QED
    BY <1>2, <2>1 DEF NicPasses
<1>22. X \subseteq Ids(Nic(m))
  BY <1>1
<1>23. \A k \in Machines : k # m =>
         \A q \in {ToNic(k), FromNic(k), FromNet(k)} : queue'[q] = queue[q]
  BY <1>2
<1>24. QED
  BY <1>1, <1>2, <1>8, <1>9, <1>16, <1>19, <1>20, <1>21, <1>22, <1>23, NicHalfReached

(* A pending dma of card m takes the event e.                              *)
DmaGoes(m, e, id) ==
  /\ log[Nic(m)] # <<>> /\ Consume(Nic(m))
  /\ id \in NicOpen(m) /\ id \in Ids(Nic(m)) /\ e.id = FirstEvent(id).id
  /\ \/ e.type = "NicDmaEx" /\ ~Executed(id) /\ SpanOf(id)'.pending
     \/ e.type \in {"NicDmaCW", "NicDmaCR"} /\ Executed(id) /\ ~SpanOf(id)'.pending
  /\ Keeps({id}) /\ \A q \in Spanners : \A x \in Ids(q)' : x \in Ids(q) \/ Right(x)'
  /\ SpanOf(id)' = Add(SpanOf(id), e) /\ Extended(SpanOf(id)'.events, SpanOf(id).events, e)

(* HandelDma goes on with a dma: what it finds.                            *)
LEMMA DmaGoesOn ==
  ASSUME KindsInv, InStepInv, NEW m \in Machines, AddToDma(m), UNCHANGED host,
         NEW e, e = Event(Nic(m)), NEW i, i = First(Taking(nic[m].dmas, e)),
         NEW id, id = nic[m].dmas[i]
  PROVE  DmaGoes(m, e, id) /\ i \in DOMAIN nic[m].dmas
<1>1. PICK p, ds, sp : p = Nic(m) /\ ds = nic[m].dmas /\ sp = SpanOf(id)
  OBVIOUS
<1>2. /\ log[p] # <<>> /\ Consume(p) /\ e.type \in NicDmaTypes /\ Taking(ds, e) # {}
      /\ spans' = Update(id, Add(sp, e))
  BY <1>1 DEF AddToDma, At
<1>3. ds \in Seq(SpannerIds) /\ NicHalf(m) /\ EventsInv
  BY <1>1, NicMembersAre DEF InStepInv, PeersInv
<1>4. i \in DOMAIN ds /\ CanAdd(sp, e)
  <2>1. i \in DOMAIN ds
    BY <1>1, <1>2, <1>3, TakingFirst
  <2>2. Taking(ds, e) \in SUBSET Nat
    BY <1>3 DEF Taking
  <2>3. i \in Taking(ds, e)
    BY <1>1, <1>2, <2>2, FirstOf
  <2>4. QED
    BY <1>1, <2>1, <2>3 DEF Taking
<1>5. id \in NicOpen(m) /\ id \in Ids(p)
  BY <1>1, <1>4, OpenAre
<1>6. /\ e.id = FirstEvent(id).id
      /\ \/ e.type = "NicDmaEx" /\ ~Executed(id)
         \/ e.type \in {"NicDmaCW", "NicDmaCR"} /\ Executed(id)
  BY <1>1, <1>2, <1>3, <1>4, <1>5, NicOpenTakes
<1>7. Keeps({id}) /\ (\A q \in Sources : Ids(q)' = Ids(q)) /\ SpanOf(id)' = Add(sp, e)
  BY <1>1, <1>2, <1>3, <1>5, AddingKeeps
<1>8. p \in Sources
  BY <1>1, SourcesApart
<1>9. DOMAIN sp = SpanFields /\ Sequence(sp.events) /\ 1 \in DOMAIN sp.events
  BY <1>1, <1>3, <1>5, <1>8 DEF KindsInv, SpansInv, EventsInv
<1>10. sp.kind = "NicDma"
  <2>1. AllOf(ds, Nic(m), "NicDma")
    BY <1>1, NicMembersAre
  <2>2. QED
    BY <1>1, <1>4, <2>1 DEF AllOf, OfKind
<1>11. PICK t : t = Add(sp, e)
  OBVIOUS
<1>12. t.pending = ~Completes(sp.kind, e) /\ Extended(t.events, sp.events, e)
  BY <1>9, <1>11, AddIs
<1>13. Completes("NicDma", e) <=> e.type # "NicDmaEx"
  BY <1>6 DEF Completes
<1>14. \/ e.type = "NicDmaEx" /\ ~Executed(id) /\ t.pending
       \/ e.type \in {"NicDmaCW", "NicDmaCR"} /\ Executed(id) /\ ~t.pending
  BY <1>6, <1>10, <1>12, <1>13
<1>15. \A q \in Spanners : \A x \in Ids(q)' : x \in Ids(q) \/ Right(x)'
  BY <1>7, NoNewSpans
<1>16. QED
  BY <1>1, <1>2, <1>4, <1>5, <1>6, <1>7, <1>11, <1>12, <1>14, <1>15 DEF DmaGoes

(* Its execution: the host is told.                                        *)
LEMMA ExecutionInStep ==
  ASSUME KindsInv, InStepInv, NEW m \in Machines, AddToDma(m), UNCHANGED host,
         NEW e, e = Event(Nic(m)), e.type = "NicDmaEx"
  PROVE  InStepInv'
<1>1. PICK ds, i, id, sp, t, X, con, Q :
        /\ ds = nic[m].dmas /\ i = First(Taking(ds, e)) /\ id = ds[i] /\ sp = SpanOf(id)
        /\ t = Add(sp, e) /\ X = {id} /\ con = Context(id, "Dma", GetStartingTs(t))
        /\ Q = {FromNic(m)}
  OBVIOUS
<1>2. /\ log[Nic(m)] # <<>> /\ Consume(Nic(m)) /\ id \in NicOpen(m) /\ id \in Ids(Nic(m))
      /\ e.id = FirstEvent(id).id /\ ~Executed(id)
      /\ Keeps(X) /\ (\A q \in Spanners : \A x \in Ids(q)' : x \in Ids(q) \/ Right(x)')
      /\ SpanOf(id)' = t /\ Extended(t.events, sp.events, e) /\ t.pending
  <2>1. i = First(Taking(nic[m].dmas, e)) /\ id = nic[m].dmas[i]
    BY <1>1
  <2>2. /\ log[Nic(m)] # <<>> /\ Consume(Nic(m)) /\ id \in NicOpen(m) /\ id \in Ids(Nic(m))
        /\ e.id = FirstEvent(id).id
        /\ \/ e.type = "NicDmaEx" /\ ~Executed(id) /\ SpanOf(id)'.pending
           \/ e.type \in {"NicDmaCW", "NicDmaCR"} /\ Executed(id) /\ ~SpanOf(id)'.pending
        /\ Keeps({id}) /\ (\A q \in Spanners : \A x \in Ids(q)' : x \in Ids(q) \/ Right(x)')
        /\ SpanOf(id)' = Add(SpanOf(id), e) /\ Extended(SpanOf(id)'.events, SpanOf(id).events, e)
    <3>1. DmaGoes(m, e, id)
      BY <2>1, DmaGoesOn
    <3>2. QED
      BY <3>1 DEF DmaGoes
  <2>3. SpanOf(id)' = t
    BY <1>1, <2>2
  <2>4. ~Executed(id) /\ t.pending /\ Extended(t.events, sp.events, e)
    BY <1>1, <2>2, <2>3
  <2>5. QED
    BY <1>1, <2>2, <2>3, <2>4
<1>3. queue' = [queue EXCEPT ![FromNic(m)] = Append(@, con)] /\ nic' = nic
  <2>1. Add(SpanOf(nic[m].dmas[First(Taking(nic[m].dmas, Event(Nic(m))))]), Event(Nic(m))) = t
    BY <1>1
  <2>2. QED
    BY <1>1, <1>2, <2>1 DEF AddToDma, Push
<1>4. PICK g : g = nic[m] /\ NicBecomes(m, g)
  BY <1>3 DEF NicBecomes
<1>5. NicHalf(m) /\ DOMAIN queue = Queues /\ FromNic(m) \in Queues
  BY QueuesApart DEF InStepInv, PeersInv, KindsInv, QueuesInv
<1>6. PICK D, D1, D2, F1, F2 :
        /\ D = NicOpen(m) /\ D1 = NicIssued(m) /\ D2 = NicExecuted(m)
        /\ F1 = UsesOf(D1) /\ F2 = UsesOf(D2)
  OBVIOUS
<1>7. \A x \in D : /\ FirstEvent(x)' = FirstEvent(x)
                   /\ UseOf(FirstEvent(x))' = UseOf(FirstEvent(x))
                   /\ x # id => (Executed(x)' <=> Executed(x)) /\ PendingDma(x)'
  BY <1>1, <1>2, <1>5, <1>6, NicListsAre
<1>8. Executed(id)' /\ PendingDma(id)'
  <2>1. sp.events = <<sp.events[1]>> /\ sp.events[1].type = "NicDmaI"
    <3>1. PendingDma(id) /\ ~Executed(id) /\ SpanOf(id) = sp
      BY <1>1, <1>2, <1>5 DEF NicHalf
    <3>2. PICK es : es = sp.events
      OBVIOUS
    <3>3. 2 \notin DOMAIN es /\ es[1].type = "NicDmaI"
      BY <3>1, <3>2 DEF PendingDma, Executed
    <3>4. es = <<es[1]>> \/ es = <<es[1], es[2]>>
      BY <3>1, <3>2 DEF PendingDma
    <3>5. es = <<es[1]>>
      BY <3>3, <3>4
    <3>6. QED
      BY <3>2, <3>3, <3>5
  <2>2. PICK a, es : a = sp.events[1] /\ es = t.events
    OBVIOUS
  <2>3. /\ Sequence(es) /\ Len(es) = 2 /\ DOMAIN es = {1, 2} /\ es[1] = a /\ es[2] = e
    <3>1. sp.events = <<a>> /\ Len(<<a>>) = 1 /\ DOMAIN <<a>> = {1} /\ <<a>>[1] = a
      BY <2>1, <2>2
    <3>2. Extended(es, <<a>>, e)
      BY <1>1, <1>2, <2>2, <3>1
    <3>3. QED
      BY <3>1, <3>2 DEF Extended
  <2>4. es = <<a, e>>
    <3>1. PICK S : es \in Seq(S)
      BY <2>3 DEF Sequence
    <3>2. QED
      BY <2>3, <3>1
  <2>5. SpanOf(id)'.events = <<a, e>> /\ SpanOf(id)'.pending
    BY <1>2, <2>2, <2>4
  <2>6. DOMAIN <<a, e>> = {1, 2} /\ <<a, e>>[1] = a /\ <<a, e>>[2] = e
    OBVIOUS
  <2>7. Executed(id)'
    BY <2>5, <2>6 DEF Executed
  <2>8. PendingDma(id)'
    BY <2>1, <2>2, <2>5, <2>6 DEF PendingDma
  <2>9. QED
    BY <2>7, <2>8
<1>9. NicOpen(m)' = D
  BY <1>3, <1>6 DEF NicOpen
<1>10. NicIssued(m)' = D1 \ {id} /\ NicExecuted(m)' = D2 \cup {id} /\ id \in D1 /\ id \notin D2
       /\ D1 \subseteq D /\ D2 \subseteq D
  BY <1>2, <1>6, <1>7, <1>8, <1>9 DEF NicIssued, NicExecuted
<1>11. PICK G1, G2 : G1 = UsesOf(NicIssued(m))' /\ G2 = UsesOf(NicExecuted(m))'
  OBVIOUS
<1>12. /\ DOMAIN G1 = D1 \ {id} /\ \A x \in D1 \ {id} : G1[x] = UseOf(FirstEvent(x))
       /\ DOMAIN G2 = D2 \cup {id} /\ \A x \in D2 \cup {id} : G2[x] = UseOf(FirstEvent(x))
  <2>1. /\ DOMAIN G1 = D1 \ {id} /\ \A x \in D1 \ {id} : G1[x] = UseOf(FirstEvent(x))'
        /\ DOMAIN G2 = D2 \cup {id} /\ \A x \in D2 \cup {id} : G2[x] = UseOf(FirstEvent(x))'
    BY <1>10, <1>11 DEF UsesOf
  <2>2. \A x \in D : UseOf(FirstEvent(x))' = UseOf(FirstEvent(x))
    BY <1>7
  <2>3. QED
    BY <1>10, <2>1, <2>2
<1>13. /\ DOMAIN F1 = D1 /\ \A x \in D1 : F1[x] = UseOf(FirstEvent(x))
       /\ DOMAIN F2 = D2 /\ \A x \in D2 : F2[x] = UseOf(FirstEvent(x))
  BY <1>6 DEF UsesOf
<1>14. UseOf(FirstEvent(id)) = UseOf(e) => With(F1, G1, id, UseOf(e)) /\ With(G2, F2, id, UseOf(e))
  BY <1>10, <1>12, <1>13 DEF With
<1>15. NicTurns(m, G1, G2, log'[Nic(m)]) /\ UseOf(FirstEvent(id)) = UseOf(e)
  <2>1. /\ e.type = "NicDmaEx" /\ id \in D1 /\ FirstEvent(id).id = e.id
        /\ UseOf(FirstEvent(id)) = UseOf(e) => With(F1, G1, id, UseOf(e)) /\ With(G2, F2, id, UseOf(e))
    BY <1>2, <1>10, <1>14
  <2>2. e.type # "NicDmaI"
    OBVIOUS
  <2>3. QED
    <3>1. DmaMoves(e, D1, D2, F1, F2, G1, G2, id)
      BY <2>1 DEF DmaMoves
    <3>2. /\ NicTurns(m, G1, G2, log'[Nic(m)])
          /\ e.type # "NicDmaI" => UseOf(FirstEvent(id)) = UseOf(e)
      BY <1>2, <1>6, <3>1, NicTurnsOn
    <3>3. QED
      BY <2>2, <3>2
<1>16. \A x \in NicOpen(m)' : PendingDma(x)'
  BY <1>7, <1>8, <1>9
<1>17. /\ queue'[FromNic(m)] = Append(queue[FromNic(m)], con)
       /\ \A q \in Queues : q \notin Q => queue'[q] = queue[q]
  BY <1>1, <1>3, <1>5
<1>18. /\ \A q \in {ToNic(m), FromNic(m), FromNet(m)} : q \notin Q => queue'[q] = queue[q]
       /\ \A k \in Machines : k # m =>
            \A q \in {ToNic(k), FromNic(k), FromNet(k)} : queue'[q] = queue[q]
  BY <1>1, <1>17, NicQueues
<1>19. NicPasses(m, e)
  <2>1. /\ e.type \in Told /\ e.type \notin NicMmioTypes /\ e.type # "NicRx" /\ Expects(e) = "Dma"
    BY Expectations DEF Told, NicMmioTypes
  <2>2. queue'[ToNic(m)] = queue[ToNic(m)] /\ queue'[FromNet(m)] = queue[FromNet(m)]
    BY <1>1, <1>18, QueuesApart
  <2>3. con.expectation = Expects(e) /\ con.parent = id
    BY <1>1, <2>1 DEF Context
  <2>4. PICK u : u = FirstEvent(id)
    OBVIOUS
  <2>5. u.op = e.op /\ FirstEvent(con.parent)' = u
    BY <1>2, <1>6, <1>7, <1>15, <2>3, <2>4 DEF UseOf
  <2>6. QED
    BY <1>17, <2>1, <2>2, <2>3, <2>5 DEF NicPasses
<1>20. X \subseteq Ids(Nic(m))
  BY <1>1, <1>2
<1>21. QED
  BY <1>2, <1>4, <1>11, <1>15, <1>16, <1>18, <1>19, <1>20, NicHalfReached

(* Its completion: the dma is pending no more.                             *)
LEMMA CompletionInStep ==
  ASSUME KindsInv, InStepInv, NEW m \in Machines, AddToDma(m), UNCHANGED host,
         NEW e, e = Event(Nic(m)), e.type \in {"NicDmaCW", "NicDmaCR"}
  PROVE  InStepInv'
<1>1. PICK g, ds, i, id, t, X, ids, h :
        /\ g = nic[m] /\ ds = g.dmas /\ i = First(Taking(nic[m].dmas, e)) /\ id = nic[m].dmas[i]
        /\ t = Add(SpanOf(id), e) /\ X = {id} /\ ids = Without(ds, i)
        /\ h = [g EXCEPT !.dmas = ids]
  OBVIOUS
<1>2. /\ log[Nic(m)] # <<>> /\ Consume(Nic(m)) /\ id \in NicOpen(m) /\ id \in Ids(Nic(m))
      /\ e.id = FirstEvent(id).id /\ Executed(id) /\ i \in DOMAIN ds
      /\ Keeps(X) /\ (\A q \in Spanners : \A x \in Ids(q)' : x \in Ids(q) \/ Right(x)')
      /\ ~t.pending
  <2>1. DmaGoes(m, e, id) /\ i \in DOMAIN nic[m].dmas
    BY <1>1, DmaGoesOn
  <2>2. QED
    BY <1>1, <2>1 DEF DmaGoes
<1>3. queue' = queue /\ nic' = [nic EXCEPT ![m] = h]
  <2>1. Add(SpanOf(nic[m].dmas[First(Taking(nic[m].dmas, Event(Nic(m))))]), Event(Nic(m))) = t
    BY <1>1
  <2>2. queue' = queue /\ nic' = [nic EXCEPT ![m].dmas = Without(@, First(Taking(nic[m].dmas, Event(Nic(m)))))]
    BY <1>2, <2>1 DEF AddToDma
  <2>3. QED
    BY <1>1, <2>2
<1>4. NicBecomes(m, h) /\ ds \in Seq(SpannerIds) /\ h.dmas = ids /\ Distinct(ds)
  <2>1. NicBecomes(m, h)
    BY <1>3, NicChanges
  <2>2. g \in NicRecords /\ ds \in Seq(SpannerIds) /\ Distinct(ds)
    BY <1>1, NicMembersAre DEF NicRecords, KindsInv, DmasInv
  <2>3. h.dmas = ids
    BY <1>1, <2>2 DEF NicRecords
  <2>4. QED
    BY <2>1, <2>2, <2>3
<1>5. NicHalf(m)
  BY DEF InStepInv, PeersInv
<1>6. PICK D, D1, D2, F1, F2 :
        /\ D = NicOpen(m) /\ D1 = NicIssued(m) /\ D2 = NicExecuted(m)
        /\ F1 = UsesOf(D1) /\ F2 = UsesOf(D2)
  OBVIOUS
<1>7. \A x \in D : /\ UseOf(FirstEvent(x))' = UseOf(FirstEvent(x))
                   /\ x # id => (Executed(x)' <=> Executed(x)) /\ PendingDma(x)'
  BY <1>1, <1>2, <1>5, <1>6, NicListsAre
<1>8. NicOpen(m)' = D \ {id}
  <2>1. Listing(ids) = Listing(ds) \ {id}
    BY <1>1, <1>2, <1>4, ListLoses
  <2>2. nic'[m].dmas = ids
    BY <1>4 DEF NicBecomes
  <2>3. NicOpen(m)' = Listing(ids)
    BY <2>2 DEF NicOpen, Listing
  <2>4. D = Listing(ds)
    BY <1>1, <1>6 DEF NicOpen, Listing
  <2>5. QED
    BY <2>1, <2>3, <2>4
<1>9. /\ NicIssued(m)' = D1 /\ NicExecuted(m)' = D2 \ {id} /\ id \in D2 /\ id \notin D1
      /\ D1 \subseteq D /\ D2 \subseteq D
  BY <1>2, <1>6, <1>7, <1>8 DEF NicIssued, NicExecuted
<1>10. PICK G1, G2 : G1 = UsesOf(NicIssued(m))' /\ G2 = UsesOf(NicExecuted(m))'
  OBVIOUS
<1>11. /\ DOMAIN G1 = D1 /\ \A x \in D1 : G1[x] = UseOf(FirstEvent(x))
       /\ DOMAIN G2 = D2 \ {id} /\ \A x \in D2 \ {id} : G2[x] = UseOf(FirstEvent(x))
  <2>1. /\ DOMAIN G1 = D1 /\ \A x \in D1 : G1[x] = UseOf(FirstEvent(x))'
        /\ DOMAIN G2 = D2 \ {id} /\ \A x \in D2 \ {id} : G2[x] = UseOf(FirstEvent(x))'
    BY <1>9, <1>10 DEF UsesOf
  <2>2. \A x \in D : UseOf(FirstEvent(x))' = UseOf(FirstEvent(x))
    BY <1>7
  <2>3. QED
    BY <1>9, <2>1, <2>2
<1>12. G1 = F1
  <2>1. \A x \in D1 : UseOf(FirstEvent(x))' = UseOf(FirstEvent(x))
    BY <1>7, <1>9
  <2>2. QED
    BY <1>6, <1>9, <1>10, <2>1 DEF UsesOf
<1>13. UseOf(FirstEvent(id)) = UseOf(e) => With(F2, G2, id, UseOf(e))
  <2>1. DOMAIN F2 = D2 /\ \A x \in D2 : F2[x] = UseOf(FirstEvent(x))
    BY <1>6 DEF UsesOf
  <2>2. QED
    BY <1>9, <1>11, <2>1 DEF With
<1>14. NicTurns(m, G1, G2, log'[Nic(m)])
  <2>1. /\ e.type \in {"NicDmaCW", "NicDmaCR"} /\ id \in D2 /\ FirstEvent(id).id = e.id
        /\ UseOf(FirstEvent(id)) = UseOf(e) => G1 = F1 /\ With(F2, G2, id, UseOf(e))
    BY <1>2, <1>9, <1>12, <1>13
  <2>2. /\ log[Nic(m)] # <<>> /\ Consume(Nic(m)) /\ D1 = NicIssued(m) /\ D2 = NicExecuted(m)
        /\ F1 = UsesOf(D1) /\ F2 = UsesOf(D2)
    BY <1>2, <1>6
  <2>3. /\ NicTurns(m, G1, G2, log'[Nic(m)])
        /\ e.type # "NicDmaI" => UseOf(FirstEvent(id)) = UseOf(e)
    <3>1. DmaMoves(e, D1, D2, F1, F2, G1, G2, id)
      BY <2>1 DEF DmaMoves
    <3>2. QED
      BY <2>2, <3>1, NicTurnsOn
  <2>4. QED
    BY <2>3
<1>15. \A x \in NicOpen(m)' : PendingDma(x)'
  BY <1>7, <1>8
<1>16. NicPasses(m, e)
  <2>1. e.type \notin Told /\ e.type \notin NicMmioTypes /\ e.type # "NicRx"
    BY DEF Told, NicMmioTypes
  <2>2. QED
    BY <1>3, <2>1 DEF NicPasses
<1>17. X \subseteq Ids(Nic(m))
  BY <1>1, <1>2
<1>18. \A k \in Machines : k # m =>
         \A q \in {ToNic(k), FromNic(k), FromNet(k)} : queue'[q] = queue[q]
  BY <1>3
<1>19. QED
  BY <1>2, <1>4, <1>10, <1>14, <1>15, <1>16, <1>17, <1>18, NicHalfReached

(* HandelDma goes on with a dma.                                           *)
LEMMA AddToDmaInStep ==
  ASSUME KindsInv, InStepInv, NEW m \in Machines, AddToDma(m), UNCHANGED host
  PROVE  InStepInv'
<1>1. PICK e, i, id :
        e = Event(Nic(m)) /\ i = First(Taking(nic[m].dmas, e)) /\ id = nic[m].dmas[i]
  OBVIOUS
<1>2. DmaGoes(m, e, id)
  BY <1>1, DmaGoesOn
<1>3. e.type = "NicDmaEx" \/ e.type \in {"NicDmaCW", "NicDmaCR"}
  BY <1>2 DEF DmaGoes
<1>4. CASE e.type = "NicDmaEx"
  BY <1>1, <1>4, ExecutionInStep
<1>5. CASE e.type \in {"NicDmaCW", "NicDmaCR"}
  BY <1>1, <1>5, CompletionInStep
<1>6. QED
  BY <1>3, <1>4, <1>5

(* Each execution and completion finds its dma.                            *)
LEMMA NoUnexpectedDma ==
  ASSUME KindsInv, InStepInv, NEW m \in Machines, UnexpectedDma(m)
  PROVE  FALSE
<1>1. PICK e, L, L2 : e = Event(Nic(m)) /\ L = log[Nic(m)] /\ L2 = log'[Nic(m)]
  OBVIOUS
<1>2. /\ log[Nic(m)] # <<>> /\ Consume(Nic(m)) /\ e.type \in NicDmaTypes \ {"NicDmaI"}
      /\ Taking(nic[m].dmas, e) = {}
  BY <1>1 DEF UnexpectedDma, At
<1>3. LogsInv /\ NicHalf(m) /\ Nic(m) \in Spanners
  BY SourcesApart DEF InStepInv, PeersInv
<1>4. Taken(L2, L) /\ e = L[1]
  BY <1>1, <1>2, <1>3, Consuming DEF Consumed
<1>5. PICK I, E, C : I = {"NicDmaI"} /\ E = {"NicDmaEx"} /\ C = {"NicDmaCW", "NicDmaCR"}
  OBVIOUS
<1>6. PICK D1, D2, F1, F2 : /\ D1 = NicIssued(m) /\ D2 = NicExecuted(m)
                            /\ F1 = UsesOf(D1) /\ F2 = UsesOf(D2)
  OBVIOUS
<1>7. InTurn(F1, L, I, E) /\ InTurn(F2, L, E, C)
  BY <1>1, <1>3, <1>5, <1>6 DEF NicHalf
<1>8. /\ DOMAIN F1 = D1 /\ \A y \in D1 : F1[y] = UseOf(FirstEvent(y))
      /\ DOMAIN F2 = D2 /\ \A y \in D2 : F2[y] = UseOf(FirstEvent(y))
  BY <1>6 DEF UsesOf
<1>9. \E x \in NicOpen(m) :
        /\ e.id = FirstEvent(x).id
        /\ \/ e.type = "NicDmaEx" /\ ~Executed(x)
           \/ e.type \in {"NicDmaCW", "NicDmaCR"} /\ Executed(x)
  <2>1. CASE e.type = "NicDmaEx"
    <3>1. L[1].type \in E /\ L[1].type \notin I
      BY <1>4, <1>5, <2>1
    <3>2. PICK x \in DOMAIN F1 : F1[x] = UseOf(e)
      BY <1>4, <1>7, <3>1, TurnCloses
    <3>3. e.id = FirstEvent(x).id /\ x \in D1
      BY <1>8, <3>2 DEF UseOf
    <3>4. QED
      BY <1>6, <2>1, <3>3 DEF NicIssued
  <2>2. CASE e.type \in {"NicDmaCW", "NicDmaCR"}
    <3>1. L[1].type \in C /\ L[1].type \notin E
      BY <1>4, <1>5, <2>2
    <3>2. PICK x \in DOMAIN F2 : F2[x] = UseOf(e)
      BY <1>4, <1>7, <3>1, TurnCloses
    <3>3. e.id = FirstEvent(x).id /\ x \in D2
      BY <1>8, <3>2 DEF UseOf
    <3>4. QED
      BY <1>6, <2>2, <3>3 DEF NicExecuted
  <2>3. QED
    BY <1>2, <2>1, <2>2 DEF NicDmaTypes
<1>10. PICK x \in NicOpen(m) :
         /\ e.id = FirstEvent(x).id
         /\ \/ e.type = "NicDmaEx" /\ ~Executed(x)
            \/ e.type \in {"NicDmaCW", "NicDmaCR"} /\ Executed(x)
  BY <1>9
<1>11. e.type \in NicDmaTypes
  BY <1>2
<1>12. CanAdd(SpanOf(x), e)
  BY <1>3, <1>10, <1>11, NicOpenTakes
<1>13. QED
  BY <1>2, <1>12 DEF Taking, NicOpen

(* A card stays in step.                                                   *)
LEMMA TraceNicInStep ==
  ASSUME KindsInv, InStepInv, NEW m \in Machines, TraceNic(m)
  PROVE  InStepInv'
<1>1. NextNic(m) /\ UNCHANGED host
  BY DEF TraceNic
<1>2. CASE UnexpectedDma(m)
  BY <1>2, NoUnexpectedDma
<1>3. CASE NicThrows(m)
  <2>1. UNCHANGED <<log, spans, queue, host, nic>>
    BY <1>1, <1>3 DEF NicThrows, Throw
  <2>2. QED
    BY <2>1, InStepStays
<1>4. QED
  BY <1>1, <1>2, <1>3, MmioInStep, IssueDmaInStep, AddToDmaInStep, TransmitInStep, ReceiveInStep,
     MsixInStep, SkipNicInStep DEF NextNic

--------------------------------------------------------------------------------
(* The simulation.  How the events of a log stand for the occurrences.      *)

(* An occurrence is an event of a step.                                    *)
LEMMA OccurrenceIs ==
  ASSUME NEW s, NEW p, NEW x
  PROVE  x \in Occurrences(s, p) <=>
           \E o \in DOMAIN Scripts[s] : \E k \in 1 .. Len(Scripts[s][o]) :
             \E i \in DOMAIN Scripts[s][o][k].log :
               Scripts[s][o][k].at = p /\ x = <<o, k, i>>
BY DEF Occurrences

(* What the event e that x logs tells.                                     *)
Records(e, s, x) ==
  LET was == EventOf(s, x)
  IN /\ e.op = x[1] /\ e.type = was.type /\ e.id = was.id /\ e.bar = was.bar
     /\ e.fn = was.fn /\ e.posted = was.posted

(* It tells what is scripted.                                              *)
LEMMA EventRecords ==
  ASSUME NEW s \in DOMAIN Scripts, NEW p \in Spanners, NEW x \in Occurrences(s, p), NEW t,
         NEW e, e = Logged(EventOf(s, x), x[1], t)
  PROVE  Records(e, s, x)
<1>1. PICK was : was = EventOf(s, x)
  OBVIOUS
<1>2. {"type", "id", "bar", "fn", "posted"} \subseteq DOMAIN was
  BY <1>1, EventsAssumption
<1>3. e.op = x[1] /\ \A f \in DOMAIN was : f \notin {"op", "ts"} => e[f] = was[f]
  BY <1>1 DEF Logged
<1>4. /\ e.type = was.type /\ e.id = was.id /\ e.bar = was.bar /\ e.fn = was.fn
      /\ e.posted = was.posted
  BY <1>2, <1>3
<1>5. QED
  BY <1>1, <1>3, <1>4 DEF Records

(* What an occurrence is made of.                                          *)
LEMMA Occurs ==
  ASSUME NEW s \in DOMAIN Scripts, NEW p \in Spanners, NEW x \in Occurrences(s, p)
  PROVE  /\ x[1] \in DOMAIN Scripts[s] /\ Len(Scripts[s][x[1]]) \in Nat
         /\ x[2] \in 1 .. Len(Scripts[s][x[1]]) /\ x[2] \in Nat
         /\ x[3] \in DOMAIN StepOf(s, x).log /\ StepOf(s, x).at = p
         /\ Len(StepOf(s, x).log) \in Nat
         /\ DOMAIN StepOf(s, x).log = 1 .. Len(StepOf(s, x).log) /\ x[3] \in Nat
         /\ x = <<x[1], x[2], x[3]>>
<1>1. PICK o \in DOMAIN Scripts[s] : \E k \in 1 .. Len(Scripts[s][o]) :
             \E i \in DOMAIN Scripts[s][o][k].log :
               Scripts[s][o][k].at = p /\ x = <<o, k, i>>
  BY OccurrenceIs
<1>2. PICK k \in 1 .. Len(Scripts[s][o]) :
             \E i \in DOMAIN Scripts[s][o][k].log :
               Scripts[s][o][k].at = p /\ x = <<o, k, i>>
  BY <1>1
<1>3. PICK i \in DOMAIN Scripts[s][o][k].log : Scripts[s][o][k].at = p /\ x = <<o, k, i>>
  BY <1>2
<1>4. Len(Scripts[s][o]) \in Nat
  BY ScriptsAssumption
<1>5. /\ Len(Scripts[s][o][k].log) \in Nat
      /\ DOMAIN Scripts[s][o][k].log = 1 .. Len(Scripts[s][o][k].log)
  BY EventsAssumption
<1>6. x[1] = o /\ x[2] = k /\ x[3] = i
  BY <1>3
<1>7. StepOf(s, x) = Scripts[s][o][k]
  BY <1>6 DEF StepOf
<1>8. i \in Nat /\ k \in Nat
  BY <1>4, <1>5
<1>9. QED
  BY <1>3, <1>4, <1>5, <1>6, <1>7, <1>8

(* Every event of a step occurs.                                           *)
LEMMA OccursToo ==
  ASSUME NEW s \in DOMAIN Scripts, NEW p \in Spanners, NEW x \in Occurrences(s, p),
         NEW n \in DOMAIN StepOf(s, x).log, NEW y, y = <<x[1], x[2], n>>
  PROVE  /\ y \in Occurrences(s, p) /\ y[1] = x[1] /\ y[2] = x[2] /\ y[3] = n
         /\ StepOf(s, y) = StepOf(s, x) /\ EventOf(s, y) = StepOf(s, x).log[n]
<1>1. x[1] \in DOMAIN Scripts[s] /\ x[2] \in 1 .. Len(Scripts[s][x[1]]) /\ StepOf(s, x).at = p
  BY Occurs
<1>2. y[1] = x[1] /\ y[2] = x[2] /\ y[3] = n
  OBVIOUS
<1>3. StepOf(s, y) = StepOf(s, x) /\ EventOf(s, y) = StepOf(s, x).log[n]
  BY <1>2 DEF StepOf, EventOf
<1>4. PICK o, k : o = x[1] /\ k = x[2]
  OBVIOUS
<1>5. /\ o \in DOMAIN Scripts[s] /\ k \in 1 .. Len(Scripts[s][o])
      /\ n \in DOMAIN Scripts[s][o][k].log /\ Scripts[s][o][k].at = p /\ y = <<o, k, n>>
  BY <1>1, <1>4 DEF StepOf
<1>6. y \in Occurrences(s, p)
  BY <1>5, OccurrenceIs
<1>7. QED
  BY <1>2, <1>3, <1>6

(* The log L of p once each operation has taken the steps P says: event i  *)
(* is that of the occurrence h[i].                                         *)
History(s, p, P, L, h) ==
  /\ Sequence(L) /\ DOMAIN h = DOMAIN L
  /\ \A i \in DOMAIN L : h[i] \in Occurrences(s, p) /\ Records(L[i], s, h[i])
  /\ \A i, j \in DOMAIN L : h[i] = h[j] => i = j
  /\ \A i \in DOMAIN L : h[i][2] <= P[h[i][1]]
  /\ \A x \in Occurrences(s, p) : x[2] <= P[x[1]] => \E i \in DOMAIN L : h[i] = x
  /\ \A j \in DOMAIN L : \A x \in Occurrences(s, p) :
       Earlier(s, x, h[j]) => \E i \in DOMAIN L : i < j /\ h[i] = x
  /\ \A j \in DOMAIN L : \A n \in DOMAIN StepOf(s, h[j]).log :
       \E i \in DOMAIN L : i - j = n - h[j][3] /\ h[i] = <<h[j][1], h[j][2], n>>

(* The wire W carries the messages of X to Y; hS and hR are the histories  *)
(* of the sender and the receiver.                                         *)
Received(Y, P, o) == \E y \in Y : y[1] = o /\ y[2] <= P[o]
Transit(X, Y, P, W, hS, hR) ==
  /\ \A x \in X : \A j \in DOMAIN W : W[j] = x[1] => x[2] <= P[x[1]]
  /\ \A x \in X : x[2] <= P[x[1]] => Received(Y, P, x[1]) \/ \E j \in DOMAIN W : W[j] = x[1]
  /\ \A a, b \in DOMAIN hS : a < b /\ hS[a] \in X /\ hS[b] \in X =>
       /\ \A j \in DOMAIN W : W[j] = hS[b][1] =>
            Received(Y, P, hS[a][1]) \/ \E i \in DOMAIN W : i < j /\ W[i] = hS[a][1]
       /\ \A j \in DOMAIN hR : hR[j] \in Y /\ hR[j][1] = hS[b][1] =>
            \E i \in DOMAIN hR : i < j /\ hR[i] \in Y /\ hR[i][1] = hS[a][1]

(* The token of an event that was logged.                                  *)
LEMMA TokenIs ==
  ASSUME NEW e, NEW s, NEW x, Records(e, s, x)
  PROVE  Token(e) = <<x[1], Expects(EventOf(s, x))>>
BY DEF Records, Token, Expects

(* Then the logs are in step.                                              *)
LEMMA LogsInStep ==
  ASSUME NEW s \in DOMAIN Scripts, NEW p \in Spanners, NEW r \in Spanners, NEW P,
         NEW X \in SUBSET Occurrences(s, p), NEW Y \in SUBSET Occurrences(s, r), NEW w,
         Carried(s, X, Y, w), NEW L, NEW K, NEW f, NEW g, NEW W,
         History(s, p, P, L, f), History(s, r, P, K, g), Transit(X, Y, P, W, f, g),
         \A o \in DOMAIN Scripts[s] : P[o] \in Nat,
         NEW G, G = {i \in DOMAIN L : f[i] \in X}, NEW T, T = {i \in DOMAIN K : g[i] \in Y},
         NEW Q, Sequence(Q), Len(Q) = 0
  PROVE  Stream(Q, L, G, K, T)
<1>1. PICK S, R : S = Sent(Q, L, G) /\ R = Due(K, T)
  OBVIOUS
<1>2. DOMAIN L \subseteq Nat \ {0} /\ DOMAIN K \subseteq Nat \ {0}
  BY DEF History, Sequence
<1>3. DOMAIN S = G /\ \A i \in G : S[i] = <<f[i][1], Expects(EventOf(s, f[i]))>>
  <2>1. \A i \in G : Token(L[i]) = <<f[i][1], Expects(EventOf(s, f[i]))>>
    BY TokenIs DEF History
  <2>2. G \in SUBSET (Nat \ {0})
    BY <1>2
  <2>3. (1 .. 0) \cup {0 + i : i \in G} = G
    <3>1. 1 .. 0 = {}
      OBVIOUS
    <3>2. \A x : x \in {0 + i : i \in G} <=> x \in G
      <4>1. \A i \in G : 0 + i = i
        BY <2>2
      <4>2. QED
        BY <4>1
    <3>3. QED
      BY <3>1, <3>2
  <2>4. S = [t \in G |-> IF t <= 0 THEN Q[t] ELSE Token(L[t - 0])]
    <3>1. PICK n : n = Len(Q) /\ n = 0
      OBVIOUS
    <3>2. S = [t \in (1 .. n) \cup {n + i : i \in G} |-> IF t <= n THEN Q[t] ELSE Token(L[t - n])]
      BY <1>1, <3>1 DEF Sent
    <3>3. S = [t \in (1 .. 0) \cup {0 + i : i \in G} |-> IF t <= 0 THEN Q[t] ELSE Token(L[t - 0])]
      BY <3>1, <3>2
    <3>4. QED
      BY <2>3, <3>3
  <2>5. DOMAIN S = G /\ \A t \in G : S[t] = Token(L[t])
    BY <2>2, <2>4
  <2>6. QED
    BY <2>1, <2>5
<1>4. DOMAIN R = T /\ \A i \in T : R[i] = <<g[i][1], Expects(EventOf(s, g[i]))>>
  <2>1. \A i \in T : Token(K[i]) = <<g[i][1], Expects(EventOf(s, g[i]))>>
    BY TokenIs DEF History
  <2>2. QED
    BY <1>1, <2>1 DEF Due
<1>5. OncePerOperation(X) /\ OncePerOperation(Y)
  BY DEF Carried
<1>6. \A t \in G : f[t] \in X /\ t \in DOMAIN L
  OBVIOUS
<1>7. \A i \in T : g[i] \in Y /\ i \in DOMAIN K
  OBVIOUS
<1>8. ASSUME NEW t \in G, NEW u \in G, S[t] = S[u] PROVE t = u
  <2>1. f[t][1] = f[u][1]
    BY <1>3, <1>8
  <2>2. f[t] = f[u]
    BY <1>5, <1>6, <2>1 DEF OncePerOperation
  <2>3. QED
    BY <1>6, <2>2 DEF History
<1>9. ASSUME NEW i \in T, NEW j \in T, R[i] = R[j] PROVE i = j
  <2>1. g[i][1] = g[j][1]
    BY <1>4, <1>9
  <2>2. g[i] = g[j]
    BY <1>5, <1>7, <2>1 DEF OncePerOperation
  <2>3. QED
    BY <1>7, <2>2 DEF History
<1>10. ASSUME NEW i \in T PROVE \E t \in G : S[t] = R[i]
  <2>1. PICK y : y = g[i] /\ y \in Y /\ y[2] <= P[y[1]]
    BY <1>7 DEF History
  <2>2. PICK x \in X : /\ x[1] = y[1] /\ x[2] < y[2]
                        /\ Expects(EventOf(s, x)) = Expects(EventOf(s, y))
    BY <2>1 DEF Carried
  <2>3. x[2] <= P[x[1]]
    <3>1. x[2] \in Nat /\ y[2] \in Nat /\ P[x[1]] \in Nat
      BY <2>1, Occurs
    <3>2. QED
      BY <2>1, <2>2, <3>1
  <2>4. PICK t \in DOMAIN L : f[t] = x
    BY <2>3 DEF History
  <2>5. t \in G /\ S[t] = R[i]
    BY <1>3, <1>4, <2>1, <2>2, <2>4
  <2>6. QED
    BY <2>5
<1>11. ASSUME NEW t \in G, NEW u \in G, NEW j \in T, t < u, S[u] = R[j]
       PROVE  \E i \in T : i < j /\ S[t] = R[i]
  <2>1. f[t] \in X /\ f[u] \in X /\ g[j] \in Y /\ g[j][1] = f[u][1]
        /\ t \in DOMAIN f /\ u \in DOMAIN f /\ j \in DOMAIN g
    BY <1>3, <1>4, <1>6, <1>7, <1>11 DEF History
  <2>2. PICK i \in DOMAIN g : i < j /\ g[i] \in Y /\ g[i][1] = f[t][1]
    BY <1>11, <2>1 DEF Transit
  <2>3. i \in T
    BY <2>2 DEF History
  <2>4. PICK x \in X : x[1] = g[i][1] /\ Expects(EventOf(s, x)) = Expects(EventOf(s, g[i]))
    BY <2>2 DEF Carried
  <2>5. x = f[t]
    BY <1>5, <2>1, <2>2, <2>4 DEF OncePerOperation
  <2>6. S[t] = R[i]
    BY <1>3, <1>4, <2>2, <2>3, <2>4, <2>5
  <2>7. QED
    BY <2>2, <2>3, <2>6
<1>12. InStep(S, R)
  BY <1>3, <1>4, <1>8, <1>9, <1>10, <1>11 DEF InStep
<1>13. QED
  BY <1>1, <1>12 DEF Stream

(* Where the events of some types are in a log.                            *)
LEMMA WhereIs ==
  ASSUME NEW s, NEW p, NEW P, NEW L, NEW h, History(s, p, P, L, h), NEW types
  PROVE  Where(L, types) = {i \in DOMAIN L : h[i] \in OfType(s, p, types)}
<1>1. \A i \in DOMAIN L : h[i] \in Occurrences(s, p) /\ L[i].type = EventOf(s, h[i]).type
  BY DEF History, Records
<1>2. QED
  BY <1>1 DEF Where, OfType

(* Ids that scripts use in turn are used in turn in the log.               *)
LEMMA LogInTurn ==
  ASSUME NEW s \in DOMAIN Scripts, NEW p \in Spanners, NEW P, NEW L, NEW h,
         History(s, p, P, L, h), NEW A, NEW C,
         UsedInTurn(s, OfType(s, p, A), OfType(s, p, C)), NEW F, DOMAIN F = {},
         \A o \in DOMAIN Scripts[s] : P[o] \in Nat
  PROVE  InTurn(F, L, A, C)
<1>1. PICK X, Y : X = OfType(s, p, A) /\ Y = OfType(s, p, C)
  OBVIOUS
<1>2. X \subseteq Occurrences(s, p) /\ Y \subseteq Occurrences(s, p)
  BY <1>1 DEF OfType
<1>3. /\ OncePerOperation(X) /\ OncePerOperation(Y)
      /\ \A y \in Y : \E x \in X :
           /\ x[1] = y[1] /\ (x[2] < y[2] \/ (x[2] = y[2] /\ x[3] < y[3]))
           /\ EventOf(s, x).id = EventOf(s, y).id
      /\ \A x1, x2 \in X :
           EventOf(s, x1).id = EventOf(s, x2).id /\ x1 # x2 =>
             \E y \in Y : \/ y[1] = x1[1] /\ Before(s, y, x2)
                          \/ y[1] = x2[1] /\ Before(s, y, x1)
  BY <1>1 DEF UsedInTurn
<1>4. \A i \in DOMAIN L :
        /\ h[i] \in Occurrences(s, p)
        /\ UseOf(L[i]) = <<h[i][1], EventOf(s, h[i]).id>> /\ L[i].id = EventOf(s, h[i]).id
        /\ L[i].type \in A <=> h[i] \in X
        /\ L[i].type \in C <=> h[i] \in Y
  BY <1>1 DEF History, Records, UseOf, OfType
<1>5. DOMAIN L \subseteq Nat
  BY DEF History, Sequence
<1>6. \A i \in DOMAIN L : L[i].type \in C =>
        \E j \in DOMAIN L : j < i /\ h[j] \in X /\ h[j][1] = h[i][1] /\ UseOf(L[j]) = UseOf(L[i])
  <2> SUFFICES ASSUME NEW i \in DOMAIN L, L[i].type \in C
               PROVE  \E j \in DOMAIN L : j < i /\ h[j] \in X /\ h[j][1] = h[i][1]
                                          /\ UseOf(L[j]) = UseOf(L[i])
    OBVIOUS
  <2>1. PICK y : y = h[i] /\ y \in Y
    BY <1>4
  <2>2. PICK x \in X : /\ x[1] = y[1] /\ (x[2] < y[2] \/ (x[2] = y[2] /\ x[3] < y[3]))
                       /\ EventOf(s, x).id = EventOf(s, y).id
    BY <1>3, <2>1
  <2>3. Earlier(s, x, y)
    BY <2>2 DEF Earlier, Before
  <2>4. PICK j \in DOMAIN L : j < i /\ h[j] = x
    BY <1>2, <2>1, <2>3 DEF History
  <2>5. QED
    BY <1>4, <2>1, <2>2, <2>4
<1>7. ASSUME NEW i \in DOMAIN L, NEW j \in DOMAIN L, L[i].type \in C, L[j].type \in C,
             UseOf(L[i]) = UseOf(L[j])
      PROVE  i = j
  <2>1. h[i] \in Y /\ h[j] \in Y /\ h[i][1] = h[j][1]
    BY <1>4, <1>7
  <2>2. h[i] = h[j]
    BY <1>3, <2>1 DEF OncePerOperation
  <2>3. QED
    BY <2>2 DEF History
<1>8. ASSUME NEW i \in DOMAIN L, NEW j \in DOMAIN L, i < j, L[i].type \in A, L[j].type \in A,
             L[i].id = L[j].id
      PROVE  \E k \in DOMAIN L : i < k /\ k < j /\ L[k].type \in C /\ UseOf(L[k]) = UseOf(L[i])
  <2>1. PICK x1, x2 : x1 = h[i] /\ x2 = h[j] /\ x1 \in X /\ x2 \in X
    BY <1>4, <1>8
  <2>2. EventOf(s, x1).id = EventOf(s, x2).id
    BY <1>4, <1>8, <2>1
  <2>3. x1 # x2
    <3>1. i # j
      BY <1>5, <1>8
    <3>2. QED
      BY <2>1, <3>1 DEF History
  <2>4. PICK y \in Y : \/ y[1] = x1[1] /\ Before(s, y, x2)
                       \/ y[1] = x2[1] /\ Before(s, y, x1)
    BY <1>3, <2>1, <2>2, <2>3
  <2>5. CASE y[1] = x1[1] /\ Before(s, y, x2)
    <3>1. PICK k \in DOMAIN L : k < j /\ h[k] = y
      BY <1>2, <2>1, <2>5 DEF History, Earlier
    <3>2. L[k].type \in C
      BY <1>4, <3>1
    <3>3. PICK a \in DOMAIN L : a < k /\ h[a] \in X /\ h[a][1] = h[k][1]
                                /\ UseOf(L[a]) = UseOf(L[k])
      BY <1>6, <3>2
    <3>4. h[a] = x1
      BY <1>3, <2>1, <2>5, <3>1, <3>3 DEF OncePerOperation
    <3>5. a = i
      BY <2>1, <3>4 DEF History
    <3>6. QED
      BY <3>1, <3>2, <3>3, <3>5
  <2>6. CASE y[1] = x2[1] /\ Before(s, y, x1)
    <3>1. PICK k \in DOMAIN L : k < i /\ h[k] = y
      BY <1>2, <2>1, <2>6 DEF History, Earlier
    <3>2. L[k].type \in C
      BY <1>4, <3>1
    <3>3. PICK a \in DOMAIN L : a < k /\ h[a] \in X /\ h[a][1] = h[k][1]
      BY <1>6, <3>2
    <3>4. h[a] = x2
      BY <1>3, <2>1, <2>6, <3>1, <3>3 DEF OncePerOperation
    <3>5. a = j
      BY <2>1, <3>4 DEF History
    <3>6. FALSE
      BY <1>5, <1>8, <3>1, <3>3, <3>5
    <3>7. QED
      BY <3>6
  <2>7. QED
    BY <2>4, <2>5, <2>6
<1>9. \A i \in DOMAIN L : L[i].type \in C =>
        \/ \E x \in DOMAIN F : F[x] = UseOf(L[i])
        \/ \E j \in DOMAIN L : j < i /\ L[j].type \in A /\ UseOf(L[j]) = UseOf(L[i])
  BY <1>4, <1>6
<1>10. \A i, j \in DOMAIN L :
         L[i].type \in C /\ L[j].type \in C /\ UseOf(L[i]) = UseOf(L[j]) => i = j
  BY <1>7
<1>11. \A i, j \in DOMAIN L : i < j /\ L[i].type \in A /\ L[j].type \in A /\ L[i].id = L[j].id =>
         \E k \in DOMAIN L : i < k /\ k < j /\ L[k].type \in C /\ UseOf(L[k]) = UseOf(L[i])
  BY <1>8
<1>12. /\ \A x, y \in DOMAIN F : F[x][2] = F[y][2] => x = y
       /\ \A x \in DOMAIN F : \A j \in DOMAIN L : L[j].type \in A /\ L[j].id = F[x][2] =>
            \E k \in DOMAIN L : k < j /\ L[k].type \in C /\ UseOf(L[k]) = F[x]
  OBVIOUS
<1>13. QED
  BY <1>9, <1>10, <1>11, <1>12 DEF InTurn

(* Where the accesses of the device are in the log of a host.              *)
DeviceAt(s, m, L, h) == {i \in DOMAIN L : h[i] \in ToDevice(s, m)}

(* An access is one of the device in the log if it is one in its step.     *)
LEMMA AccessesAre ==
  ASSUME NEW s \in DOMAIN Scripts, NEW m \in Machines, NEW P, NEW L, NEW h,
         History(s, Host(m), P, L, h), AccessesApart(s, m)
  PROVE  Accesses(L, FALSE) = DeviceAt(s, m, L, h)
<1>1. PICK p : p = Host(m) /\ p \in Spanners /\ History(s, p, P, L, h)
  BY SourcesApart
<1>2. DOMAIN L \subseteq Nat
  BY DEF History, Sequence
<1>3. \A i \in DOMAIN L :
        /\ h[i] \in Occurrences(s, p)
        /\ L[i].type = EventOf(s, h[i]).type /\ L[i].bar = EventOf(s, h[i]).bar
        /\ L[i].fn = EventOf(s, h[i]).fn
  BY <1>1 DEF History, Records
<1>3a. \A j \in DOMAIN L : \A n \in DOMAIN StepOf(s, h[j]).log :
         \E i \in DOMAIN L : i - j = n - h[j][3] /\ h[i] = <<h[j][1], h[j][2], n>>
  BY <1>1 DEF History
<1>3b. ASSUME NEW j \in DOMAIN L, NEW c, c = h[j], NEW cs, cs = StepOf(s, c).log, NEW a \in DOMAIN cs
       PROVE  \E l \in DOMAIN L : l - j = a - c[3] /\ h[l] = <<c[1], c[2], a>>
  BY <1>3a, <1>3b
<1>4. SUFFICES ASSUME NEW i \in DOMAIN L, h[i] \in OfType(s, Host(m), HostMmioIssue),
                      L[i].type \in HostMmioIssue, IsToDeviceBarNumber(L[i].bar),
                      IsToDeviceBarNumber(EventOf(s, h[i]).bar)
               PROVE  PciWriteBefore(L, FALSE, i) <=>
                        PciWriteBefore(StepOf(s, h[i]).log, FALSE, h[i][3])
  <2>1. \A i \in DOMAIN L : L[i].type \in HostMmioIssue <=> h[i] \in OfType(s, Host(m), HostMmioIssue)
    BY <1>1, <1>3 DEF OfType
  <2>2. \A i \in DOMAIN L : L[i].bar = EventOf(s, h[i]).bar
    BY <1>3
  <2>3. QED
    BY <2>1, <2>2 DEF Accesses, ToDevice, DeviceAt
<1>5. PICK x, es, n, o, k : /\ x = h[i] /\ es = StepOf(s, x).log /\ n = x[3]
                            /\ o = x[1] /\ k = x[2]
  OBVIOUS
<1>6. x \in Occurrences(s, p)
  BY <1>3, <1>5
<1>7. /\ n \in DOMAIN es /\ DOMAIN es = 1 .. Len(es) /\ Len(es) \in Nat /\ n \in Nat
      /\ x = <<o, k, n>>
  BY <1>1, <1>5, <1>6, Occurs
<1>8. \A a \in DOMAIN es : \E j \in DOMAIN L :
        j - i = a - n /\ h[j] = <<o, k, a>> /\ L[j].type = es[a].type /\ L[j].fn = es[a].fn
  <2> SUFFICES ASSUME NEW a \in DOMAIN es
               PROVE  \E j \in DOMAIN L : j - i = a - n /\ h[j] = <<o, k, a>>
                                          /\ L[j].type = es[a].type /\ L[j].fn = es[a].fn
    OBVIOUS
  <2>1. PICK j \in DOMAIN L : j - i = a - n /\ h[j] = <<o, k, a>>
    <3>1. a \in DOMAIN StepOf(s, h[i]).log
      BY <1>5
    <3>2. PICK j \in DOMAIN L : j - i = a - h[i][3] /\ h[j] = <<h[i][1], h[i][2], a>>
      BY <1>3a, <3>1
    <3>3. QED
      BY <1>5, <3>2
  <2>2. PICK y : y = <<x[1], x[2], a>>
    OBVIOUS
  <2>3. EventOf(s, y) = es[a]
    BY <1>1, <1>5, <1>6, <2>2, OccursToo
  <2>4. h[j] = y
    BY <1>5, <2>1, <2>2
  <2>5. QED
    BY <1>3, <2>1, <2>3, <2>4
<1>9. ASSUME PciWriteBefore(es, FALSE, n) PROVE PciWriteBefore(L, FALSE, i)
  <2>1. PICK a \in DOMAIN es :
          /\ a < n /\ es[a].type = "HostCall" /\ IsPciWrite(es[a])
          /\ \A b \in DOMAIN es : a < b /\ b < n => es[b].type # "HostCall"
    BY <1>9 DEF PciWriteBefore
  <2>2. PICK j \in DOMAIN L : j - i = a - n /\ L[j].type = es[a].type /\ L[j].fn = es[a].fn
    BY <1>8
  <2>3. j < i /\ L[j].type = "HostCall" /\ IsPciWrite(L[j])
    <3>1. a \in Nat /\ j \in Nat /\ i \in Nat
      BY <1>2, <1>7
    <3>2. j < i
      BY <1>7, <2>1, <2>2, <3>1
    <3>3. QED
      BY <2>1, <2>2, <3>2 DEF IsPciWrite
  <2>4. ASSUME NEW l \in DOMAIN L, j < l, l < i PROVE L[l].type # "HostCall"
    <3>1. PICK b : b = n + (l - i)
      OBVIOUS
    <3>2. b \in DOMAIN es /\ a < b /\ b < n
      BY <1>2, <1>7, <2>2, <2>4, <3>1
    <3>3. PICK c \in DOMAIN L : c - i = b - n /\ L[c].type = es[b].type
      BY <1>8, <3>2
    <3>4. c = l
      <4>1. c \in Nat /\ l \in Nat /\ i \in Nat
        BY <1>2
      <4>2. QED
        BY <1>7, <3>1, <3>3, <4>1
    <3>5. QED
      BY <2>1, <3>2, <3>3, <3>4
  <2>5. QED
    BY <2>3, <2>4 DEF PciWriteBefore
<1>10. ASSUME PciWriteBefore(L, FALSE, i), ~PciWriteBefore(es, FALSE, n) PROVE FALSE
  <2>1. PICK j \in DOMAIN L :
          /\ j < i /\ L[j].type = "HostCall" /\ IsPciWrite(L[j])
          /\ \A l \in DOMAIN L : j < l /\ l < i => L[l].type # "HostCall"
    BY <1>10 DEF PciWriteBefore
  <2>2. PICK c, cs : c = h[j] /\ cs = StepOf(s, c).log
    OBVIOUS
  <2>2a. \A a \in DOMAIN cs : \E l \in DOMAIN L : l - j = a - c[3] /\ h[l] = <<c[1], c[2], a>>
    BY <1>3b, <2>2
  <2>3. c \in Occurrences(s, p) /\ EventOf(s, c).type = "HostCall" /\ IsPciWrite(EventOf(s, c))
    BY <1>3, <2>1, <2>2 DEF IsPciWrite
  <2>4. /\ c[3] \in DOMAIN cs /\ DOMAIN cs = 1 .. Len(cs) /\ Len(cs) \in Nat /\ c[3] \in Nat
        /\ c = <<c[1], c[2], c[3]>>
    BY <1>1, <2>2, <2>3, Occurs
  <2>5. cs[c[3]] = EventOf(s, c)
    BY <2>2 DEF EventOf
  <2>6. i \in Nat /\ j \in Nat
    BY <1>2
  <2>7. ASSUME c[1] = o, c[2] = k PROVE FALSE
    <3>1. cs = es
      BY <1>5, <2>2, <2>7 DEF StepOf
    <3>2. PICK a \in DOMAIN L : a - i = c[3] - n /\ h[a] = <<o, k, c[3]>>
      BY <1>8, <2>4, <3>1
    <3>3. a = j
      <4>1. h[a] = h[j]
        BY <2>2, <2>4, <2>7, <3>2
      <4>2. QED
        BY <4>1 DEF History
    <3>4. c[3] < n
      BY <1>7, <2>1, <2>4, <2>6, <3>2, <3>3
    <3>5. ASSUME NEW b \in DOMAIN es, c[3] < b, b < n PROVE es[b].type # "HostCall"
      <4>1. PICK l \in DOMAIN L : l - i = b - n /\ L[l].type = es[b].type
        BY <1>8
      <4>2. j < l /\ l < i
        <5>1. l \in Nat /\ b \in Nat
          BY <1>2, <1>7
        <5>2. QED
          BY <1>7, <2>4, <2>6, <3>2, <3>3, <3>5, <4>1, <5>1
      <4>3. QED
        BY <2>1, <4>1, <4>2
    <3>6. PciWriteBefore(es, FALSE, n)
      BY <2>3, <2>4, <2>5, <3>1, <3>4, <3>5 DEF PciWriteBefore
    <3>7. QED
      BY <1>10, <3>6
  <2>8. <<c[1], c[2]>> # <<x[1], x[2]>>
    BY <1>5, <2>7
  <2>9. \A a \in 1 .. x[3] : es[a].type # "HostCall"
    <3> SUFFICES ASSUME NEW a \in 1 .. n, es[a].type = "HostCall" PROVE FALSE
      BY <1>5
    <3>1. a \in DOMAIN es /\ a \in Nat
      BY <1>7
    <3>2. PICK l \in DOMAIN L : l - i = a - n /\ h[l] = <<o, k, a>> /\ L[l].type = es[a].type
      BY <1>8, <3>1
    <3>3. l \in Nat /\ l <= i
      BY <1>2, <1>7, <2>6, <3>1, <3>2
    <3>4. l # i
      BY <1>4, <3>2 DEF HostMmioIssue
    <3>5. l <= j
      BY <2>1, <2>6, <3>2, <3>3, <3>4
    <3>6. PICK b : b = n + (j - i)
      OBVIOUS
    <3>7. b \in DOMAIN es
      BY <1>7, <2>1, <2>6, <3>1, <3>2, <3>3, <3>5, <3>6
    <3>8. PICK d \in DOMAIN L : d - i = b - n /\ h[d] = <<o, k, b>>
      BY <1>8, <3>7
    <3>9. d = j
      <4>1. d \in Nat
        BY <1>2
      <4>2. QED
        BY <1>7, <2>6, <3>6, <3>8, <4>1
    <3>10. c[1] = o /\ c[2] = k
      BY <2>2, <3>8, <3>9
    <3>11. QED
      BY <2>7, <3>10
  <2>10. PciWriteBefore(cs, FALSE, Len(cs) + 1)
    <3>1. c[3] < Len(cs) + 1
      BY <2>4
    <3>2. ASSUME NEW a \in DOMAIN cs, c[3] < a, cs[a].type = "HostCall" PROVE FALSE
      <4>1. PICK l \in DOMAIN L : l - j = a - c[3] /\ h[l] = <<c[1], c[2], a>>
        BY <2>2a
      <4>2. L[l].type = "HostCall"
        <5>1. PICK y : y = <<c[1], c[2], a>>
          OBVIOUS
        <5>2. EventOf(s, y) = cs[a]
          BY <1>1, <2>2, <2>3, <5>1, OccursToo
        <5>3. QED
          BY <1>3, <3>2, <4>1, <5>1, <5>2
      <4>3. l \in Nat /\ j < l /\ a \in Nat
        BY <1>2, <2>4, <2>6, <3>2, <4>1
      <4>4. i <= l
        BY <2>1, <2>6, <4>2, <4>3
      <4>5. PICK b : b = c[3] + (i - j)
        OBVIOUS
      <4>6. b \in DOMAIN cs
        BY <2>1, <2>4, <2>6, <3>2, <4>1, <4>3, <4>4, <4>5
      <4>7. PICK d \in DOMAIN L : d - j = b - c[3] /\ h[d] = <<c[1], c[2], b>>
        BY <2>2a, <4>6
      <4>8. d = i
        <5>1. d \in Nat
          BY <1>2
        <5>2. QED
          BY <2>4, <2>6, <4>5, <4>7, <5>1
      <4>9. c[1] = o /\ c[2] = k
        BY <1>5, <4>7, <4>8
      <4>10. QED
        BY <2>7, <4>9
    <3>3. QED
      BY <2>3, <2>4, <2>5, <3>1, <3>2 DEF PciWriteBefore
  <2>11. x \in ToDevice(s, m)
    BY <1>4, <1>5, <1>10 DEF ToDevice
  <2>12. PICK calls : calls = OfType(s, Host(m), {"HostCall"}) /\ c \in calls
    BY <1>1, <2>3 DEF OfType
  <2>13. \/ Before(s, x, c)
         \/ \E d \in calls : Before(s, c, d) /\ Before(s, d, x)
    BY <1>5, <2>2, <2>8, <2>9, <2>10, <2>11, <2>12 DEF AccessesApart
  <2>14. CASE Before(s, x, c)
    <3>1. PICK a \in DOMAIN L : a < j /\ h[a] = x
      BY <1>1, <1>6, <2>2, <2>14 DEF History, Earlier
    <3>2. a = i
      BY <1>5, <3>1 DEF History
    <3>3. QED
      BY <2>1, <2>6, <3>1, <3>2
  <2>15. CASE \E d \in calls : Before(s, c, d) /\ Before(s, d, x)
    <3>1. PICK d \in calls : Before(s, c, d) /\ Before(s, d, x)
      BY <2>15
    <3>2. d \in Occurrences(s, p) /\ EventOf(s, d).type = "HostCall"
      BY <1>1, <2>12 DEF OfType
    <3>3. PICK b \in DOMAIN L : b < i /\ h[b] = d
      BY <1>1, <1>5, <3>1, <3>2 DEF History, Earlier
    <3>4. PICK a \in DOMAIN L : a < b /\ h[a] = c
      BY <1>1, <2>3, <3>1, <3>3 DEF History, Earlier
    <3>5. a = j /\ L[b].type = "HostCall"
      BY <1>3, <2>2, <3>2, <3>3, <3>4 DEF History
    <3>6. QED
      BY <2>1, <3>3, <3>4, <3>5
  <2>16. QED
    BY <2>13, <2>14, <2>15
<1>11. QED
  BY <1>5, <1>9, <1>10

(* Operation o takes step k, when those before it have taken the steps P.  *)
Takes1(s, P, P2, o, k) ==
  /\ o \in DOMAIN Scripts[s] /\ k \in 1 .. Len(Scripts[s][o])
  /\ \A a \in DOMAIN Scripts[s] : P[a] \in Nat
  /\ P[o] = k - 1 /\ P2[o] = k
  /\ \A a \in DOMAIN Scripts[s] : a # o => P2[a] = P[a]
  /\ \A j \in 1 .. k : \A d \in Scripts[s][o][j].after : d[2] <= P[d[1]]

(* A history h goes on with some of that step.                             *)
Grows(h, h2, o, k) ==
  /\ DOMAIN h \subseteq DOMAIN h2
  /\ \A i \in DOMAIN h : h2[i] = h[i]
  /\ \A i \in DOMAIN h2 : i \notin DOMAIN h =>
       h2[i][1] = o /\ h2[i][2] = k /\ \A j \in DOMAIN h : j < i

(* The log L2 is L and then what the step k of o logs.                     *)
Logs(s, L, L2, o, k) ==
  LET es == Scripts[s][o][k].log
  IN /\ Sequence(L2) /\ Len(L) \in Nat /\ DOMAIN L = 1 .. Len(L)
     /\ DOMAIN L2 = 1 .. Len(L) + Len(es)
     /\ \A i \in DOMAIN L : L2[i] = L[i]
     /\ \A n \in DOMAIN es : Records(L2[Len(L) + n], s, <<o, k, n>>)

(* What has been taken.                                                    *)
LEMMA TakenBy ==
  ASSUME NEW s \in DOMAIN Scripts, NEW P, NEW P2, NEW o, NEW k, Takes1(s, P, P2, o, k),
         NEW p \in Spanners, NEW x \in Occurrences(s, p)
  PROVE  /\ x[2] <= P[x[1]] => x[2] <= P2[x[1]]
         /\ x[2] <= P2[x[1]] => x[2] <= P[x[1]] \/ (x[1] = o /\ x[2] = k)
         /\ x[1] = o => (x[2] <= P[o] <=> x[2] < k)
<1>1. x[1] \in DOMAIN Scripts[s] /\ x[2] \in Nat
  BY Occurs
<1>2. k \in Nat /\ P[o] \in Nat /\ P[o] = k - 1 /\ P2[o] = k
  BY ScriptsAssumption DEF Takes1
<1>3. CASE x[1] = o
  BY <1>1, <1>2, <1>3
<1>4. CASE x[1] # o
  BY <1>1, <1>4 DEF Takes1
<1>5. QED
  BY <1>3, <1>4

(* Elsewhere a step changes nothing.                                       *)
LEMMA HistoryStays ==
  ASSUME NEW s \in DOMAIN Scripts, NEW P, NEW P2, NEW o, NEW k, Takes1(s, P, P2, o, k),
         NEW p \in Spanners, NEW L, NEW h, History(s, p, P, L, h), Scripts[s][o][k].at # p
  PROVE  History(s, p, P2, L, h) /\ Grows(h, h, o, k)
<1>1. \A i \in DOMAIN L : h[i][2] <= P2[h[i][1]]
  <2> SUFFICES ASSUME NEW i \in DOMAIN L PROVE h[i][2] <= P2[h[i][1]]
    OBVIOUS
  <2>1. h[i] \in Occurrences(s, p) /\ h[i][2] <= P[h[i][1]]
    BY DEF History
  <2>2. QED
    BY <2>1, TakenBy
<1>2. ASSUME NEW x \in Occurrences(s, p), x[2] <= P2[x[1]] PROVE \E i \in DOMAIN L : h[i] = x
  <2>1. ~(x[1] = o /\ x[2] = k)
    BY Occurs DEF StepOf
  <2>2. x[2] <= P[x[1]]
    BY <1>2, <2>1, TakenBy
  <2>3. QED
    BY <2>2 DEF History
<1>3. History(s, p, P2, L, h)
  BY <1>1, <1>2 DEF History
<1>4. QED
  BY <1>3 DEF Grows

(* Where it logs, the history goes on.                                     *)
LEMMA HistoryGoesOn ==
  ASSUME NEW s \in DOMAIN Scripts, NEW P, NEW P2, NEW o, NEW k, Takes1(s, P, P2, o, k),
         NEW p \in Spanners, NEW L, NEW h, History(s, p, P, L, h), Scripts[s][o][k].at = p,
         NEW L2, Logs(s, L, L2, o, k)
  PROVE  \E h2 : History(s, p, P2, L2, h2) /\ Grows(h, h2, o, k)
<1>1. PICK n, es, N : n = Len(L) /\ es = Scripts[s][o][k].log /\ N = Len(es)
  OBVIOUS
<1>2. /\ n \in Nat /\ N \in Nat /\ DOMAIN es = 1 .. N /\ DOMAIN L = 1 .. n
      /\ DOMAIN L2 = 1 .. n + N /\ Sequence(L2)
      /\ \A i \in DOMAIN L : L2[i] = L[i]
      /\ \A a \in 1 .. N : Records(L2[n + a], s, <<o, k, a>>)
  <2>1. o \in DOMAIN Scripts[s] /\ k \in 1 .. Len(Scripts[s][o])
    BY DEF Takes1
  <2>2. N \in Nat /\ DOMAIN es = 1 .. N
    BY <1>1, <2>1, EventsAssumption
  <2>3. /\ n \in Nat /\ DOMAIN L = 1 .. n /\ DOMAIN L2 = 1 .. n + N /\ Sequence(L2)
        /\ \A i \in DOMAIN L : L2[i] = L[i]
        /\ \A a \in DOMAIN es : Records(L2[n + a], s, <<o, k, a>>)
    BY <1>1 DEF Logs
  <2>4. QED
    BY <2>2, <2>3
<1>3. PICK h2 : h2 = [i \in 1 .. n + N |-> IF i <= n THEN h[i] ELSE <<o, k, i - n>>]
  OBVIOUS
<1>4. /\ DOMAIN h2 = DOMAIN L2 /\ DOMAIN h = DOMAIN L
      /\ \A i \in DOMAIN L2 : i \in DOMAIN L \/ (i - n \in 1 .. N /\ i = n + (i - n) /\ i \notin DOMAIN L)
      /\ \A i \in DOMAIN L : i \in DOMAIN L2 /\ h2[i] = h[i]
      /\ \A a \in 1 .. N : n + a \in DOMAIN L2 /\ n + a \notin DOMAIN L /\ h2[n + a] = <<o, k, a>>
                           /\ \A i \in DOMAIN L : i < n + a
  <2>1. DOMAIN h = DOMAIN L
    BY DEF History
  <2>2. DOMAIN h2 = 1 .. n + N
    BY <1>3
  <2>3. \A i \in 1 .. n + N : i \in 1 .. n \/ (i - n \in 1 .. N /\ i = n + (i - n) /\ i \notin 1 .. n)
    BY <1>2
  <2>4. \A i \in 1 .. n : i \in 1 .. n + N /\ i <= n
    BY <1>2
  <2>5. \A a \in 1 .. N : /\ n + a \in 1 .. n + N /\ n + a \notin 1 .. n /\ ~(n + a <= n)
                         /\ (n + a) - n = a /\ \A i \in 1 .. n : i < n + a
    BY <1>2
  <2>6. \A a \in 1 .. N : h2[n + a] = <<o, k, a>>
    BY <1>3, <2>5
  <2>7. \A i \in 1 .. n : h2[i] = h[i]
    BY <1>3, <2>4
  <2>8. QED
    BY <1>2, <2>1, <2>2, <2>3, <2>4, <2>5, <2>6, <2>7
<1>5. \A a \in 1 .. N : <<o, k, a>> \in Occurrences(s, p) /\ StepOf(s, <<o, k, a>>).log = es
  <2> SUFFICES ASSUME NEW a \in 1 .. N
               PROVE  <<o, k, a>> \in Occurrences(s, p) /\ StepOf(s, <<o, k, a>>).log = es
    OBVIOUS
  <2>1. /\ o \in DOMAIN Scripts[s] /\ k \in 1 .. Len(Scripts[s][o])
        /\ a \in DOMAIN Scripts[s][o][k].log
    BY <1>1, <1>2 DEF Takes1
  <2>2. <<o, k, a>> \in Occurrences(s, p)
    BY <2>1, OccurrenceIs
  <2>3. QED
    BY <1>1, <2>2 DEF StepOf
<1>6. Grows(h, h2, o, k)
  <2>1. ASSUME NEW i \in DOMAIN h2, i \notin DOMAIN h
        PROVE  h2[i][1] = o /\ h2[i][2] = k /\ \A j \in DOMAIN h : j < i
    <3>1. PICK a \in 1 .. N : i = n + a
      BY <1>4, <2>1
    <3>2. h2[i] = <<o, k, a>> /\ \A j \in DOMAIN h : j < i
      BY <1>4, <3>1
    <3>3. QED
      BY <3>2
  <2>2. QED
    BY <1>4, <2>1 DEF Grows
<1>7. \A i \in DOMAIN L2 : i \in DOMAIN L \/ \E a \in 1 .. N : i = n + a
  BY <1>4
<1>8. \A i \in DOMAIN L : h[i][2] <= P[h[i][1]] /\ h[i] \in Occurrences(s, p)
                          /\ ~(h[i][1] = o /\ h[i][2] = k)
  <2> SUFFICES ASSUME NEW i \in DOMAIN L
               PROVE  h[i][2] <= P[h[i][1]] /\ h[i] \in Occurrences(s, p)
                      /\ ~(h[i][1] = o /\ h[i][2] = k)
    OBVIOUS
  <2>1. h[i][2] <= P[h[i][1]] /\ h[i] \in Occurrences(s, p)
    BY DEF History
  <2>2. k \in Nat /\ P[o] = k - 1
    BY ScriptsAssumption DEF Takes1
  <2>3. QED
    BY <2>1, <2>2
<1>9. \A i \in DOMAIN L2 : h2[i] \in Occurrences(s, p) /\ Records(L2[i], s, h2[i])
                           /\ h2[i][2] <= P2[h2[i][1]]
  <2> SUFFICES ASSUME NEW i \in DOMAIN L2
               PROVE  h2[i] \in Occurrences(s, p) /\ Records(L2[i], s, h2[i])
                      /\ h2[i][2] <= P2[h2[i][1]]
    OBVIOUS
  <2>1. CASE i \in DOMAIN L
    <3>1. h[i] \in Occurrences(s, p) /\ Records(L[i], s, h[i]) /\ h[i][2] <= P[h[i][1]]
      BY <2>1 DEF History
    <3>2. h[i][2] <= P2[h[i][1]]
      BY <3>1, TakenBy
    <3>3. QED
      BY <1>2, <1>4, <2>1, <3>1, <3>2
  <2>2. CASE \E a \in 1 .. N : i = n + a
    <3>1. PICK a \in 1 .. N : i = n + a
      BY <2>2
    <3>2. h2[i] = <<o, k, a>> /\ <<o, k, a>> \in Occurrences(s, p) /\ Records(L2[i], s, <<o, k, a>>)
      BY <1>2, <1>4, <1>5, <3>1
    <3>3. k <= P2[o]
      BY ScriptsAssumption DEF Takes1
    <3>4. QED
      BY <3>2, <3>3
  <2>3. QED
    BY <1>7, <2>1, <2>2
<1>10. ASSUME NEW i \in DOMAIN L2, NEW j \in DOMAIN L2, h2[i] = h2[j] PROVE i = j
  <2>1. CASE i \in DOMAIN L /\ j \in DOMAIN L
    BY <1>4, <1>10, <2>1 DEF History
  <2>2. CASE i \in DOMAIN L /\ \E a \in 1 .. N : j = n + a
    BY <1>4, <1>8, <1>10, <2>2
  <2>3. CASE j \in DOMAIN L /\ \E a \in 1 .. N : i = n + a
    BY <1>4, <1>8, <1>10, <2>3
  <2>4. CASE (\E a \in 1 .. N : i = n + a) /\ (\E a \in 1 .. N : j = n + a)
    <3>1. PICK a \in 1 .. N : i = n + a
      BY <2>4
    <3>2. PICK b \in 1 .. N : j = n + b
      BY <2>4
    <3>3. <<o, k, a>> = <<o, k, b>>
      BY <1>4, <1>10, <3>1, <3>2
    <3>4. QED
      BY <3>1, <3>2, <3>3
  <2>5. QED
    BY <1>7, <2>1, <2>2, <2>3, <2>4
<1>11. ASSUME NEW x \in Occurrences(s, p), x[2] <= P[x[1]] PROVE \E i \in DOMAIN L : h[i] = x
  BY <1>11 DEF History
<1>12. ASSUME NEW x \in Occurrences(s, p), x[2] <= P2[x[1]] PROVE \E i \in DOMAIN L2 : h2[i] = x
  <2>1. CASE x[2] <= P[x[1]]
    BY <1>4, <1>11, <2>1
  <2>2. CASE x[1] = o /\ x[2] = k
    <3>1. x = <<o, k, x[3]>> /\ x[3] \in DOMAIN es
      BY <1>1, <2>2, Occurs DEF StepOf
    <3>2. x[3] \in 1 .. N
      BY <1>2, <3>1
    <3>3. QED
      BY <1>4, <3>1, <3>2
  <2>3. QED
    BY <1>12, <2>1, <2>2, TakenBy
<1>13. ASSUME NEW j \in DOMAIN L2, NEW x \in Occurrences(s, p), Earlier(s, x, h2[j])
       PROVE  \E i \in DOMAIN L2 : i < j /\ h2[i] = x
  <2>1. CASE j \in DOMAIN L
    <3>1. h2[j] = h[j]
      BY <1>4, <2>1
    <3>2. PICK i \in DOMAIN L : i < j /\ h[i] = x
      BY <1>13, <2>1, <3>1 DEF History
    <3>3. QED
      BY <1>4, <3>2
  <2>2. CASE \E a \in 1 .. N : j = n + a
    <3>1. PICK a \in 1 .. N : j = n + a
      BY <2>2
    <3>2. PICK y : y = <<o, k, a>> /\ h2[j] = y
      BY <1>4, <3>1
    <3>3. y[1] = o /\ y[2] = k /\ y[3] = a
      BY <3>2
    <3>4. Before(s, x, y) \/ (x[1] = o /\ x[2] = k /\ x[3] < a)
      BY <1>13, <3>2, <3>3 DEF Earlier
    <3>5. CASE Before(s, x, y)
      <4>1. x[2] <= P[x[1]]
        <5>1. CASE x[1] = o /\ x[2] < k
          BY <5>1, TakenBy
        <5>2. CASE \E b \in 1 .. k : \E d \in Scripts[s][o][b].after : d[1] = x[1] /\ x[2] <= d[2]
          <6>1. PICK b \in 1 .. k : \E d \in Scripts[s][o][b].after : d[1] = x[1] /\ x[2] <= d[2]
            BY <5>2
          <6>2. PICK d \in Scripts[s][o][b].after : d[1] = x[1] /\ x[2] <= d[2]
            BY <6>1
          <6>3. d[2] <= P[d[1]]
            BY <6>1, <6>2 DEF Takes1
          <6>4. b \in 1 .. Len(Scripts[s][o]) /\ o \in DOMAIN Scripts[s]
            BY ScriptsAssumption DEF Takes1
          <6>5. d \in (DOMAIN Scripts[s]) \X Nat
            BY <6>2, <6>4, EventsAssumption
          <6>6. d[2] \in Nat /\ P[d[1]] \in Nat /\ x[2] \in Nat
            BY <6>5, Occurs DEF Takes1
          <6>7. QED
            BY <6>2, <6>3, <6>6
        <5>3. QED
          BY <3>3, <3>5, <5>1, <5>2 DEF Before
      <4>2. PICK i \in DOMAIN L : h[i] = x
        BY <1>11, <4>1
      <4>3. QED
        BY <1>4, <3>1, <4>2
    <3>6. CASE x[1] = o /\ x[2] = k /\ x[3] < a
      <4>1. x = <<o, k, x[3]>> /\ x[3] \in DOMAIN es
        BY <1>1, <3>6, Occurs DEF StepOf
      <4>2. x[3] \in 1 .. N
        BY <1>2, <4>1
      <4>3. n + x[3] < j
        BY <1>2, <3>1, <3>6, <4>2
      <4>4. QED
        BY <1>4, <4>1, <4>2, <4>3
    <3>7. QED
      BY <3>4, <3>5, <3>6
  <2>3. QED
    BY <1>7, <2>1, <2>2
<1>14. ASSUME NEW j \in DOMAIN L2, NEW b \in DOMAIN StepOf(s, h2[j]).log
       PROVE  \E i \in DOMAIN L2 : i - j = b - h2[j][3] /\ h2[i] = <<h2[j][1], h2[j][2], b>>
  <2>1. CASE j \in DOMAIN L
    <3>1. h2[j] = h[j]
      BY <1>4, <2>1
    <3>2. PICK i \in DOMAIN L : i - j = b - h[j][3] /\ h[i] = <<h[j][1], h[j][2], b>>
      BY <1>14, <2>1, <3>1 DEF History
    <3>3. QED
      BY <1>4, <3>1, <3>2
  <2>2. CASE \E a \in 1 .. N : j = n + a
    <3>1. PICK a \in 1 .. N : j = n + a
      BY <2>2
    <3>2. h2[j] = <<o, k, a>> /\ b \in 1 .. N
      BY <1>2, <1>4, <1>5, <1>14, <3>1
    <3>3. n + b \in DOMAIN L2 /\ h2[n + b] = <<o, k, b>>
      BY <1>4, <3>2
    <3>4. (n + b) - j = b - a
      BY <1>2, <3>1, <3>2
    <3>5. h2[j][1] = o /\ h2[j][2] = k /\ h2[j][3] = a
      BY <3>2
    <3>6. QED
      BY <3>3, <3>4, <3>5
  <2>3. QED
    BY <1>7, <2>1, <2>2
<1>15. History(s, p, P2, L2, h2)
  BY <1>2, <1>4, <1>9, <1>10, <1>12, <1>13, <1>14 DEF History
<1>16. QED
  BY <1>6, <1>15

(* A wire W becomes W2 when operation o takes the first t messages, none   *)
(* or its own, and sends one, or does not.                                 *)
WireMoves(W, W2, t, o, sends) ==
  /\ DOMAIN W \subseteq Nat \ {0} /\ DOMAIN W2 \subseteq Nat \ {0} /\ t \in {0, 1}
  /\ \A j \in DOMAIN W2 : \/ j + t \in DOMAIN W /\ W2[j] = W[j + t]
                          \/ sends /\ W2[j] = o /\ \A i \in DOMAIN W2 : i <= j
  /\ \A i \in DOMAIN W : i > t => i - t \in DOMAIN W2 /\ W2[i - t] = W[i]
  /\ t = 1 => 1 \in DOMAIN W /\ W[1] = o
  /\ sends => \E j \in DOMAIN W2 : W2[j] = o

(* What step does to a wire w.                                             *)
WireStep(W, W2, t, o, step, w) ==
  (t = 1 <=> step.take = w) /\ WireMoves(W, W2, t, o, step.send = w)

(* The order of messages and logs that a wire keeps.                       *)
LEMMA TransitGoesOn ==
  ASSUME NEW s \in DOMAIN Scripts, NEW P, NEW P2, NEW o, NEW k, Takes1(s, P, P2, o, k),
         NEW p \in Spanners, NEW r \in Spanners,
         NEW X \in SUBSET Occurrences(s, p), NEW Y \in SUBSET Occurrences(s, r), NEW w,
         Carried(s, X, Y, w), NEW L, NEW K, NEW f, NEW g, NEW L2, NEW K2, NEW f2, NEW g2,
         History(s, p, P, L, f), History(s, r, P, K, g),
         History(s, p, P2, L2, f2), History(s, r, P2, K2, g2),
         Grows(f, f2, o, k), Grows(g, g2, o, k),
         NEW W, NEW W2, NEW t, WireStep(W, W2, t, o, Scripts[s][o][k], w),
         Transit(X, Y, P, W, f, g)
  PROVE  Transit(X, Y, P2, W2, f2, g2)
<1> /\ t = 1 <=> Scripts[s][o][k].take = w
    /\ WireMoves(W, W2, t, o, Scripts[s][o][k].send = w)
  BY DEF WireStep
<1>1. PICK step : step = Scripts[s][o][k]
  OBVIOUS
<1>2. /\ OncePerOperation(X) /\ OncePerOperation(Y)
      /\ \A x \in X : StepOf(s, x).send = w
      /\ \A y \in Y : StepOf(s, y).take = w
      /\ \A y \in Y : \E x \in X : x[1] = y[1] /\ x[2] < y[2]
  BY DEF Carried
<1>3. \A x \in X : x[1] = o => /\ step.send = w => k = x[2]
                               /\ step.take = w => \E y \in Y : y[1] = o /\ y[2] = k
  BY <1>1 DEF Carried, Takes1
<1>4. /\ DOMAIN f = DOMAIN L /\ DOMAIN g = DOMAIN K /\ DOMAIN f2 = DOMAIN L2 /\ DOMAIN g2 = DOMAIN K2
      /\ DOMAIN f2 \subseteq Nat /\ DOMAIN g2 \subseteq Nat
  BY DEF History, Sequence
<1>5. k \in Nat /\ P2[o] = k /\ P[o] = k - 1
  BY ScriptsAssumption DEF Takes1
<1>6. /\ \A x \in X : x[2] <= P[x[1]] => x[2] <= P2[x[1]]
      /\ \A x \in X : x[2] <= P2[x[1]] => x[2] <= P[x[1]] \/ (x[1] = o /\ x[2] = k)
      /\ \A x \in X : x[1] = o => (x[2] <= P[o] <=> x[2] < k)
      /\ \A y \in Y : y[2] <= P[y[1]] => y[2] <= P2[y[1]]
      /\ \A x \in X : x[2] \in Nat
      /\ \A y \in Y : y[2] \in Nat
  BY TakenBy, Occurs
<1>7. \A a : Received(Y, P, a) => Received(Y, P2, a)
  BY <1>6 DEF Received
<1>8. ASSUME NEW x \in X, NEW j \in DOMAIN W, W[j] = x[1], ~(j > t)
      PROVE  Received(Y, P2, x[1])
  <2>1. t = 1 /\ j = 1 /\ x[1] = o
    BY <1>8 DEF WireMoves
  <2>2. PICK y \in Y : y[1] = o /\ y[2] = k
    BY <1>1, <1>3, <2>1
  <2>3. QED
    BY <1>5, <2>1, <2>2 DEF Received
<1>9. ASSUME NEW x \in X, NEW j \in DOMAIN W2, W2[j] = x[1] PROVE x[2] <= P2[x[1]]
  <2>1. CASE j + t \in DOMAIN W /\ W2[j] = W[j + t]
    <3>1. x[2] <= P[x[1]]
      BY <1>9, <2>1 DEF Transit
    <3>2. QED
      BY <1>6, <3>1
  <2>2. CASE step.send = w /\ W2[j] = o
    <3>1. x[1] = o
      BY <1>9, <2>2
    <3>2. k = x[2]
      BY <1>3, <2>2, <3>1
    <3>3. QED
      BY <1>5, <3>1, <3>2
  <2>3. QED
    BY <1>1, <2>1, <2>2 DEF WireMoves
<1>10. ASSUME NEW x \in X, x[2] <= P2[x[1]]
       PROVE  Received(Y, P2, x[1]) \/ \E j \in DOMAIN W2 : W2[j] = x[1]
  <2>1. CASE x[2] <= P[x[1]]
    <3>1. Received(Y, P, x[1]) \/ \E j \in DOMAIN W : W[j] = x[1]
      BY <2>1 DEF Transit
    <3>2. ASSUME NEW j \in DOMAIN W, W[j] = x[1], j > t PROVE \E i \in DOMAIN W2 : W2[i] = x[1]
      BY <3>2 DEF WireMoves
    <3>3. QED
      BY <1>7, <1>8, <3>1, <3>2
  <2>2. CASE x[1] = o /\ x[2] = k
    <3>1. StepOf(s, x) = step
      BY <1>1, <2>2 DEF StepOf
    <3>2. step.send = w
      BY <1>2, <3>1
    <3>3. QED
      BY <1>1, <2>2, <3>2 DEF WireMoves
  <2>3. QED
    BY <1>6, <1>10, <2>1, <2>2
<1>11. \A a, b \in DOMAIN f2 : a < b /\ b \in DOMAIN f => a \in DOMAIN f /\ f2[a] = f[a] /\ f2[b] = f[b]
  BY <1>4 DEF Grows
<1>12. ASSUME NEW a \in DOMAIN f2, NEW b \in DOMAIN f2, a < b, f2[a] \in X, f2[b] \in X,
              NEW j \in DOMAIN W2, W2[j] = f2[b][1]
       PROVE  Received(Y, P2, f2[a][1]) \/ \E i \in DOMAIN W2 : i < j /\ W2[i] = f2[a][1]
  <2>1. PICK x, z : x = f2[a] /\ z = f2[b]
    OBVIOUS
  <2>2. CASE j + t \in DOMAIN W /\ W2[j] = W[j + t]
    <3>1. z[2] <= P[z[1]]
      BY <1>12, <2>1, <2>2 DEF Transit
    <3>2. b \in DOMAIN f
      <4> SUFFICES ASSUME b \notin DOMAIN f PROVE FALSE
        OBVIOUS
      <4>1. z[1] = o /\ z[2] = k
        BY <2>1 DEF Grows
      <4>2. QED
        BY <1>5, <3>1, <4>1
    <3>3. a \in DOMAIN f /\ f[a] = x /\ f[b] = z
      BY <1>11, <1>12, <2>1, <3>2
    <3>4. PICK l \in DOMAIN W : l = j + t /\ W[l] = z[1]
      BY <1>12, <2>1, <2>2
    <3>5. Received(Y, P, x[1]) \/ \E i \in DOMAIN W : i < l /\ W[i] = x[1]
      BY <1>12, <2>1, <3>2, <3>3, <3>4 DEF Transit
    <3>6. ASSUME NEW i \in DOMAIN W, i < l, W[i] = x[1], i > t
          PROVE  \E c \in DOMAIN W2 : c < j /\ W2[c] = x[1]
      <4>1. i - t \in DOMAIN W2 /\ W2[i - t] = W[i]
        BY <3>6 DEF WireMoves
      <4>2. i - t < j
        BY <3>4, <3>6 DEF WireMoves
      <4>3. QED
        BY <3>6, <4>1, <4>2
    <3>7. QED
      BY <1>7, <1>8, <1>12, <2>1, <3>5, <3>6
  <2>3. CASE step.send = w /\ W2[j] = o /\ \A i \in DOMAIN W2 : i <= j
    <3>1. z[1] = o /\ z[2] = k
      BY <1>3, <1>12, <2>1, <2>3
    <3>2. x[2] <= P2[x[1]]
      BY <1>4, <2>1 DEF History
    <3>3. Received(Y, P2, x[1]) \/ \E i \in DOMAIN W2 : W2[i] = x[1]
      BY <1>10, <1>12, <2>1, <3>2
    <3>4. ASSUME NEW i \in DOMAIN W2, W2[i] = x[1] PROVE i < j
      <4>1. i # j
        <5> SUFFICES ASSUME i = j PROVE FALSE
          OBVIOUS
        <5>1. x[1] = z[1]
          BY <2>3, <3>1, <3>4
        <5>2. x = z
          BY <1>2, <1>12, <2>1, <5>1 DEF OncePerOperation
        <5>3. a = b
          BY <1>4, <2>1, <5>2 DEF History
        <5>4. QED
          BY <1>4, <1>12, <5>3
      <4>2. i \in Nat /\ j \in Nat /\ i <= j
        BY <2>3 DEF WireMoves
      <4>3. QED
        BY <4>1, <4>2
    <3>5. QED
      BY <2>1, <3>3, <3>4
  <2>4. QED
    BY <1>1, <2>2, <2>3 DEF WireMoves
<1>13. ASSUME NEW a \in DOMAIN f2, NEW b \in DOMAIN f2, a < b, f2[a] \in X, f2[b] \in X,
              NEW j \in DOMAIN g2, g2[j] \in Y, g2[j][1] = f2[b][1]
       PROVE  \E i \in DOMAIN g2 : i < j /\ g2[i] \in Y /\ g2[i][1] = f2[a][1]
  <2>1. PICK x, z, y : x = f2[a] /\ z = f2[b] /\ y = g2[j]
    OBVIOUS
  <2>2. z[2] < y[2] /\ y[2] <= P2[y[1]]
    <3>1. PICK u \in X : u[1] = y[1] /\ u[2] < y[2]
      BY <1>2, <1>13, <2>1
    <3>2. u = z
      BY <1>2, <1>13, <2>1, <3>1 DEF OncePerOperation
    <3>3. y[2] <= P2[y[1]]
      BY <1>4, <2>1 DEF History
    <3>4. QED
      BY <3>1, <3>2, <3>3
  <2>3. b \in DOMAIN f
    <3> SUFFICES ASSUME b \notin DOMAIN f PROVE FALSE
      OBVIOUS
    <3>1. z[1] = o /\ z[2] = k
      BY <2>1 DEF Grows
    <3>2. y[1] = o /\ y[2] \in Nat
      BY <1>6, <1>13, <2>1, <3>1
    <3>3. QED
      BY <1>5, <2>2, <3>1, <3>2
  <2>4. a \in DOMAIN f /\ f[a] = x /\ f[b] = z
    BY <1>11, <1>13, <2>1, <2>3
  <2>5. CASE j \in DOMAIN g
    <3>1. g[j] = y
      BY <2>1, <2>5 DEF Grows
    <3>2. PICK i \in DOMAIN g : i < j /\ g[i] \in Y /\ g[i][1] = f[a][1]
      BY <1>13, <2>1, <2>3, <2>4, <2>5, <3>1 DEF Transit
    <3>3. QED
      BY <2>1, <2>4, <3>2 DEF Grows
  <2>6. CASE j \notin DOMAIN g
    <3>1. y[1] = o /\ y[2] = k /\ \A i \in DOMAIN g : i < j
      BY <2>1, <2>6 DEF Grows
    <3>2. StepOf(s, y) = step
      BY <1>1, <3>1 DEF StepOf
    <3>3. step.take = w
      BY <1>2, <1>13, <2>1, <3>2
    <3>4. 1 \in DOMAIN W /\ W[1] = o
      BY <1>1, <3>3 DEF WireMoves
    <3>5. \A i \in DOMAIN W : ~(i < 1)
      BY DEF WireMoves
    <3>6. PICK l : l = 1 /\ l \in DOMAIN W /\ W[l] = z[1]
      BY <1>13, <2>1, <3>1, <3>4
    <3>7. Received(Y, P, x[1])
      BY <1>13, <2>1, <2>3, <2>4, <3>5, <3>6 DEF Transit
    <3>8. PICK u \in Y : u[1] = x[1] /\ u[2] <= P[x[1]]
      BY <3>7 DEF Received
    <3>9. PICK i \in DOMAIN K : g[i] = u
      BY <3>8 DEF History
    <3>10. QED
      BY <1>4, <2>1, <3>1, <3>8, <3>9 DEF Grows
  <2>7. QED
    BY <2>5, <2>6
<1>14. QED
  BY <1>9, <1>10, <1>12, <1>13 DEF Transit
(* A sequence with another one at its end.                                 *)
LEMMA AtItsEnd ==
  ASSUME NEW S, NEW V \in Seq(S), NEW a \in Seq(S), NEW c, c = V \o a,
         NEW n, n = Len(V), NEW N, N = Len(a)
  PROVE  /\ c \in Seq(S) /\ n \in Nat /\ N \in Nat /\ DOMAIN c = 1 .. n + N
         /\ \A j \in 1 .. n : c[j] = V[j]
         /\ \A j \in 1 .. N : c[n + j] = a[j]
<1>1. c \in Seq(S) /\ n \in Nat /\ N \in Nat
  OBVIOUS
<1>2. Len(V \o a) = Len(V) + Len(a)
  OBVIOUS
<1>3. Len(c) = n + N
  BY <1>2
<1>4. DOMAIN c = 1 .. n + N
  BY <1>1, <1>3
<1>5. \A j \in 1 .. n : c[j] = V[j]
  OBVIOUS
<1>6. \A j \in 1 .. Len(a) : (V \o a)[Len(V) + j] = a[j]
  OBVIOUS
<1>7. QED
  BY <1>1, <1>4, <1>5, <1>6


(* A wire behind a step that takes its first message or not, and sends one *)
(* of operation o or not.                                                  *)
WireAfter(W, o, takes, sends) ==
  (IF takes THEN Tail(W) ELSE W) \o (IF sends THEN <<o>> ELSE <<>>)

(* What a step does to a wire.                                             *)
LEMMA WireIs ==
  ASSUME NEW W, Sequence(W), NEW o, NEW c \in BOOLEAN, NEW b \in BOOLEAN,
         c => W # <<>> /\ Head(W) = o, NEW W2, W2 = WireAfter(W, o, c, b)
  PROVE  Sequence(W2) /\ \E t : (t = 1 <=> c) /\ WireMoves(W, W2, t, o, b)
<1>1. PICK t : t = IF c THEN 1 ELSE 0
  OBVIOUS
<1>2. PICK V, U : V = (IF c THEN Tail(W) ELSE W) /\ U = (IF b THEN <<o>> ELSE <<>>)
  OBVIOUS
<1>3. PICK S0 : W \in Seq(S0)
  BY DEF Sequence
<1>4. PICK S : S = S0 \cup {o}
  OBVIOUS
<1>5. W \in Seq(S) /\ o \in S
  BY <1>3, <1>4
<1>6. PICK n \in Nat : n = Len(W) /\ DOMAIN W = 1 .. n
  BY <1>5
<1>7. /\ V \in Seq(S) /\ t \in {0, 1} /\ (t = 1 <=> c)
      /\ t = 1 => n >= 1 /\ W[1] = o
      /\ Len(V) = n - t /\ Len(V) \in Nat /\ \A j \in 1 .. Len(V) : V[j] = W[j + t]
  <2>1. CASE c
    <3>1. t = 1 /\ V = Tail(W) /\ W # <<>> /\ Head(W) = o
      BY <1>1, <1>2, <2>1
    <3>2. Taken(V, W)
      BY <3>1, Taking1
    <3>3. V \in Seq(S) /\ Len(V) = n - 1 /\ n >= 1 /\ W[1] = o
      BY <1>5, <1>6, <3>1
    <3>4. \A j \in 1 .. Len(V) : V[j] = W[j + 1]
      BY <1>6, <3>2, <3>3 DEF Taken
    <3>5. QED
      BY <1>6, <2>1, <3>1, <3>3, <3>4
  <2>2. CASE ~c
    <3>1. t = 0 /\ V = W
      BY <1>1, <1>2, <2>2
    <3>2. QED
      BY <1>5, <1>6, <2>2, <3>1
  <2>3. QED
    BY <2>1, <2>2
<1>8. W2 = V \o U
  BY <1>2 DEF WireAfter
<1>9. PICK v \in Nat : v = Len(V) /\ v = n - t
  BY <1>7
<1>9a. \A j \in 1 .. v : V[j] = W[j + t]
  BY <1>7, <1>9
<1>9b. \A j \in 1 .. v : j \in Nat \ {0} /\ j + t \in 1 .. n
  BY <1>7, <1>9
<1>9c. \A i \in 1 .. n : i > t => i - t \in 1 .. v /\ (i - t) + t = i
  BY <1>7, <1>9
<1>10. CASE b
  <2>1. U = <<o>>
    BY <1>2, <1>10
  <2>2. W2 \in Seq(S) /\ DOMAIN W2 = 1 .. v + 1 /\ W2[v + 1] = o /\ \A j \in 1 .. v : W2[j] = V[j]
    <3>1. V \in Seq(S) /\ v = Len(V)
      BY <1>7, <1>9
    <3>2. U \in Seq(S) /\ 1 = Len(U) /\ U[1] = o
      BY <1>5, <2>1
    <3>3. PICK N : N = Len(U)
      OBVIOUS
    <3>4. U \in Seq(S) /\ W2 = V \o U
      BY <1>8, <3>2
    <3>5. /\ W2 \in Seq(S) /\ DOMAIN W2 = 1 .. v + N /\ \A j \in 1 .. v : W2[j] = V[j]
          /\ \A j \in 1 .. N : W2[v + j] = U[j]
      BY ONLY <3>1, <3>3, <3>4, AtItsEnd
    <3>6. N = 1
      BY <3>2, <3>3
    <3>7. W2[v + 1] = U[1]
      <4>1. 1 \in 1 .. N
        BY <3>6
      <4>2. W2[v + 1] = U[1]
        BY <3>5, <4>1
      <4>3. QED
        BY <4>2
    <3>8. QED
      BY <3>2, <3>5, <3>6, <3>7
  <2>3. \A j \in 1 .. v + 1 : j \in 1 .. v \/ j = v + 1
    BY <1>9
  <2>4. \A j \in 1 .. v : j + t \in 1 .. n /\ W2[j] = W[j + t]
    BY <1>9a, <1>9b, <2>2
  <2>5. \A i \in 1 .. n : i > t => i - t \in 1 .. v /\ W2[i - t] = W[i]
    <3> SUFFICES ASSUME NEW i \in 1 .. n, i > t PROVE i - t \in 1 .. v /\ W2[i - t] = W[i]
      OBVIOUS
    <3>1. PICK j : j = i - t
      OBVIOUS
    <3>2. j \in 1 .. v /\ j + t = i
      BY <1>9c, <3>1
    <3>3. QED
      BY <2>4, <3>1, <3>2
  <2>6a. v + 1 \in 1 .. v + 1 /\ \A i \in 1 .. v + 1 : i <= v + 1 /\ i \in Nat \ {0}
    BY <1>9
  <2>6. v + 1 \in DOMAIN W2 /\ \A i \in DOMAIN W2 : i <= v + 1
    BY <2>2, <2>6a
  <2>7. DOMAIN W \subseteq Nat \ {0} /\ DOMAIN W2 \subseteq Nat \ {0}
    <3>1. \A i \in 1 .. n : i \in Nat \ {0}
      BY <1>6
    <3>2. QED
      BY <1>6, <2>2, <2>6a, <3>1
  <2>8. \A j \in DOMAIN W2 : \/ j + t \in DOMAIN W /\ W2[j] = W[j + t]
                             \/ b /\ W2[j] = o /\ \A i \in DOMAIN W2 : i <= j
    BY <1>6, <1>10, <2>2, <2>3, <2>4, <2>6
  <2>9a. \A j \in 1 .. v : j \in 1 .. v + 1
    BY <1>9
  <2>9. \A i \in DOMAIN W : i > t => i - t \in DOMAIN W2 /\ W2[i - t] = W[i]
    BY <1>6, <2>2, <2>5, <2>9a
  <2>10. t = 1 => 1 \in DOMAIN W /\ W[1] = o
    BY <1>6, <1>7
  <2>11. WireMoves(W, W2, t, o, b)
    BY <1>7, <1>10, <2>2, <2>6, <2>7, <2>8, <2>9, <2>10 DEF WireMoves
  <2>12. QED
    BY <1>7, <2>2, <2>11 DEF Sequence
<1>11. CASE ~b
  <2>1. U = <<>>
    BY <1>2, <1>11
  <2>3. W2 \in Seq(S) /\ DOMAIN W2 = 1 .. v /\ \A j \in 1 .. v : W2[j] = V[j]
    <3>1. V \in Seq(S) /\ v = Len(V)
      BY <1>7, <1>9
    <3>2. U \in Seq(S) /\ 0 = Len(U)
      BY <2>1
    <3>3. PICK N : N = Len(U)
      OBVIOUS
    <3>4. U \in Seq(S) /\ W2 = V \o U
      BY <1>8, <3>2
    <3>5. W2 \in Seq(S) /\ DOMAIN W2 = 1 .. v + N /\ \A j \in 1 .. v : W2[j] = V[j]
      BY ONLY <3>1, <3>3, <3>4, AtItsEnd
    <3>6. v + N = v
      BY <1>9, <3>2, <3>3
    <3>7. QED
      BY <3>5, <3>6
  <2>4. \A j \in 1 .. v : j + t \in 1 .. n /\ W2[j] = W[j + t]
    BY <1>9a, <1>9b, <2>3
  <2>5. \A i \in 1 .. n : i > t => i - t \in 1 .. v /\ W2[i - t] = W[i]
    <3> SUFFICES ASSUME NEW i \in 1 .. n, i > t PROVE i - t \in 1 .. v /\ W2[i - t] = W[i]
      OBVIOUS
    <3>1. PICK j : j = i - t
      OBVIOUS
    <3>2. j \in 1 .. v /\ j + t = i
      BY <1>9c, <3>1
    <3>3. QED
      BY <2>4, <3>1, <3>2
  <2>6. t = 1 => 1 \in DOMAIN W /\ W[1] = o
    BY <1>6, <1>7
  <2>7. WireMoves(W, W2, t, o, b)
    BY <1>6, <1>7, <1>9, <1>11, <2>3, <2>4, <2>5, <2>6 DEF WireMoves
  <2>8. QED
    BY <1>7, <2>3, <2>7 DEF Sequence
<1>12. QED
  BY <1>10, <1>11

(* The packets that the network sent, in Q, and those that are logged.     *)
PacketsMeet(Q, K) ==
  /\ Sequence(Q) /\ RxStream(Q, K)
  /\ \A j \in DOMAIN Q : \E i \in Where(K, {"NicRx"}) : Q[j] = Token(K[i])

(* The network sends one and it is logged at b.                            *)
LEMMA PacketMeets ==
  ASSUME NEW Q, NEW K, PacketsMeet(Q, K), NEW Q2, NEW K2, NEW b, NEW tok, Extended(Q2, Q, tok),
         NEW T, T = Where(K, {"NicRx"}), DOMAIN K \subseteq Nat, b \in Nat,
         Where(K2, {"NicRx"}) = T \cup {b}, tok = Token(K2[b]),
         \A i \in T : i < b /\ K2[i] = K[i] /\ Token(K[i]) # tok
  PROVE  PacketsMeet(Q2, K2)
<1>1. PICK n : n = Len(Q) /\ n \in Nat
  BY DEF Extended
<1>2. /\ DOMAIN Q = 1 .. n /\ DOMAIN Q2 = 1 .. n + 1 /\ Q2[n + 1] = tok
      /\ \A i \in 1 .. n : Q2[i] = Q[i] /\ Len(Q2) = n + 1 /\ Sequence(Q2)
  BY <1>1 DEF Extended
<1>3. PICK s, r, s2, r2 :
        /\ s = Sent(Q, <<>>, {}) /\ r = Due(K, T) /\ s2 = Sent(Q2, <<>>, {}) /\ r2 = Due(K2, T \cup {b})
  OBVIOUS
<1>4. /\ DOMAIN s = 1 .. n /\ \A t \in 1 .. n : s[t] = Q[t]
      /\ DOMAIN s2 = 1 .. n + 1 /\ \A t \in 1 .. n + 1 : s2[t] = Q2[t]
  <2>1. {n + i : i \in {}} = {} /\ {(n + 1) + i : i \in {}} = {}
    OBVIOUS
  <2>2. /\ s = [t \in (1 .. n) \cup {n + i : i \in {}} |->
                  IF t <= n THEN Q[t] ELSE Token((<<>>)[t - n])]
        /\ s2 = [t \in (1 .. (n + 1)) \cup {(n + 1) + i : i \in {}} |->
                  IF t <= n + 1 THEN Q2[t] ELSE Token((<<>>)[t - (n + 1)])]
    <3>1. Len(Q2) = n + 1
      BY <1>1 DEF Extended
    <3>2. QED
      BY <1>1, <1>3, <3>1 DEF Sent
  <2>3. (1 .. n) \cup {n + i : i \in {}} = 1 .. n /\ (1 .. (n + 1)) \cup {(n + 1) + i : i \in {}} = 1 .. n + 1
    BY <2>1
  <2>4. (\A t \in 1 .. n : t <= n) /\ (\A t \in 1 .. n + 1 : t <= n + 1)
    BY <1>1
  <2>5. DOMAIN s = 1 .. n /\ \A t \in 1 .. n : s[t] = Q[t]
    BY <2>2, <2>3, <2>4
  <2>6. DOMAIN s2 = 1 .. n + 1 /\ \A t \in 1 .. n + 1 : s2[t] = Q2[t]
    BY <2>2, <2>3, <2>4
  <2>7. QED
    BY <2>5, <2>6
<1>5. /\ DOMAIN r = T /\ \A i \in T : r[i] = Token(K[i])
      /\ DOMAIN r2 = T \cup {b} /\ \A i \in T \cup {b} : r2[i] = Token(K2[i])
  BY <1>3 DEF Due
<1>6. InStep(s, r)
  BY <1>3 DEF PacketsMeet, RxStream, Stream
<1>7. \A i \in T : i \in Nat /\ i < b /\ i # b /\ r2[i] = r[i] /\ r[i] # tok
  BY <1>5 DEF Where
<1>8. r2[b] = tok
  BY <1>5
<1>9. \A j \in 1 .. n : j \in 1 .. n + 1 /\ j < n + 1 /\ s2[j] = s[j] /\ \E i \in T : s[j] = r[i]
  <2>1. \A j \in 1 .. n : \E i \in T : Q[j] = Token(K[i])
    BY <1>2 DEF PacketsMeet
  <2>2. \A j \in 1 .. n : j \in 1 .. n + 1 /\ j < n + 1
    BY <1>1
  <2>3. QED
    BY <1>2, <1>4, <1>5, <2>1, <2>2
<1>10. n + 1 \in 1 .. n + 1 /\ s2[n + 1] = tok
  BY <1>1, <1>2, <1>4
<1>11. \A j \in 1 .. n + 1 : j \in 1 .. n \/ j = n + 1
  BY <1>1
<1>12. \A j \in 1 .. n : s2[j] # tok
  BY <1>7, <1>9
<1>13. InStep(s2, r2)
  <2>1. ASSUME NEW t \in 1 .. n + 1, NEW u \in 1 .. n + 1, s2[t] = s2[u] PROVE t = u
    BY <1>4, <1>6, <1>9, <1>10, <1>11, <1>12, <2>1 DEF InStep
  <2>2. ASSUME NEW i \in T \cup {b}, NEW j \in T \cup {b}, r2[i] = r2[j] PROVE i = j
    BY <1>5, <1>6, <1>7, <1>8, <2>2 DEF InStep
  <2>3. ASSUME NEW i \in T \cup {b} PROVE \E t \in 1 .. n + 1 : s2[t] = r2[i]
    <3>1. CASE i \in T
      <4>1. PICK t \in 1 .. n : s[t] = r[i]
        BY <1>4, <1>5, <1>6, <3>1 DEF InStep
      <4>2. QED
        BY <1>7, <1>9, <3>1, <4>1
    <3>2. CASE i = b
      BY <1>8, <1>10, <3>2
    <3>3. QED
      BY <3>1, <3>2
  <2>4. ASSUME NEW t \in 1 .. n + 1, NEW u \in 1 .. n + 1, NEW j \in T \cup {b}, t < u, s2[u] = r2[j]
        PROVE  \E i \in T \cup {b} : i < j /\ s2[t] = r2[i]
    <3>1. t \in 1 .. n
      BY <1>1, <1>11, <2>4
    <3>2. CASE u \in 1 .. n /\ j \in T
      <4>1. s[u] = r[j]
        BY <1>7, <1>9, <2>4, <3>2
      <4>2. PICK i \in T : i < j /\ s[t] = r[i]
        BY <1>4, <1>5, <1>6, <2>4, <3>1, <3>2, <4>1 DEF InStep
      <4>3. QED
        BY <1>7, <1>9, <3>1, <4>2
    <3>3. CASE j = b
      <4>1. PICK i \in T : s[t] = r[i]
        BY <1>9, <3>1
      <4>2. QED
        BY <1>7, <1>9, <3>1, <3>3, <4>1
    <3>4. CASE u = n + 1 /\ j \in T
      BY <1>7, <1>10, <2>4, <3>4
    <3>5. QED
      BY <1>11, <3>2, <3>3, <3>4
  <2>5. QED
    BY <1>4, <1>5, <2>1, <2>2, <2>3, <2>4 DEF InStep
<1>14. \A j \in DOMAIN Q2 : \E i \in T \cup {b} : Q2[j] = Token(K2[i])
  <2> SUFFICES ASSUME NEW j \in 1 .. n + 1 PROVE \E i \in T \cup {b} : Q2[j] = Token(K2[i])
    BY <1>2
  <2>1. CASE j \in 1 .. n
    <3>1. PICK i \in T : Q[j] = Token(K[i])
      BY <1>2, <2>1 DEF PacketsMeet
    <3>2. QED
      BY <1>2, <2>1, <3>1
  <2>2. CASE j = n + 1
    BY <1>2, <2>2
  <2>3. QED
    BY <1>11, <2>1, <2>2
<1>15. PICK T2 : T2 = Where(K2, {"NicRx"}) /\ T2 = T \cup {b}
  OBVIOUS
<1>16. Stream(Q2, <<>>, {}, K2, T2)
  BY <1>3, <1>13, <1>15 DEF Stream
<1>17. RxStream(Q2, K2)
  BY <1>15, <1>16 DEF RxStream
<1>18. \A j \in DOMAIN Q2 : \E i \in Where(K2, {"NicRx"}) : Q2[j] = Token(K2[i])
  BY <1>14, <1>15
<1>18a. Sequence(Q2)
  BY DEF Extended
<1>19. QED
  BY <1>17, <1>18a, <1>18 DEF PacketsMeet

(* None is sent and none is logged.                                        *)
LEMMA PacketsWait ==
  ASSUME NEW Q, NEW K, PacketsMeet(Q, K), NEW K2,
         Where(K2, {"NicRx"}) = Where(K, {"NicRx"}), \A i \in Where(K, {"NicRx"}) : K2[i] = K[i]
  PROVE  PacketsMeet(Q, K2)
<1>1. PICK T : T = Where(K, {"NicRx"}) /\ T = Where(K2, {"NicRx"})
  OBVIOUS
<1>2. Due(K2, T) = Due(K, T)
  BY <1>1 DEF Due
<1>3. QED
  BY <1>1, <1>2 DEF PacketsMeet, RxStream, Stream

--------------------------------------------------------------------------------
(* The invariant of the simulation.                                        *)

(* The steps P that were taken came after those that they come after.      *)
InOrder(s, P) ==
  \A a \in DOMAIN Scripts[s] :
    /\ P[a] \in Nat /\ P[a] <= Len(Scripts[s][a])
    /\ \A j \in 1 .. P[a] : \A d \in Scripts[s][a][j].after : d[2] <= P[d[1]]

(* What the histories H say of the logs, and the wires of their order.     *)
OnWires(s, X, Y, P, hS, hR) ==
  \A w \in Wires : Carried(s, X, Y, w) => Transit(X, Y, P, wire[w], hS, hR)
HistoryOf(H, s, P) ==
  /\ \A p \in Spanners : History(s, p, P, log[p], H[p])
  /\ \A m \in Machines :
       /\ OnWires(s, ToDevice(s, m), OfType(s, Nic(m), NicMmioTypes), P, H[Host(m)], H[Nic(m)])
       /\ OnWires(s, OfType(s, Nic(m), {"NicDmaEx", "NicMsix"}), OfType(s, Host(m), Opens), P,
                  H[Nic(m)], H[Host(m)])
Unheard(m) ==
  /\ host[m] = HostMembers /\ nic[m] = NicMembers
  /\ queue[ToNic(m)] = <<>> /\ queue[FromNic(m)] = <<>>
  /\ PacketsMeet(QueueTokens(FromNet(m)), log[Nic(m)])
SimulationIn ==
  /\ InOrder(scenario, progress)
  /\ DOMAIN log = Spanners /\ DOMAIN wire = Wires /\ \A w \in Wires : Sequence(wire[w])
  /\ \E H : HistoryOf(H, scenario, progress)
  /\ \A p \in Spanners : spans[p] = <<>>
  /\ EventsInv /\ \A m \in Machines : Unheard(m)

(* A step comes after others, of operations that are there.                *)
LEMMA StepIs ==
  ASSUME NEW s \in DOMAIN Scripts, NEW o \in DOMAIN Scripts[s], NEW k \in 1 .. Len(Scripts[s][o])
  PROVE  /\ Scripts[s][o][k].at \in Spanners /\ k \in Nat
         /\ Len(Scripts[s][o][k].log) \in Nat
         /\ DOMAIN Scripts[s][o][k].log = 1 .. Len(Scripts[s][o][k].log)
         /\ \A d \in Scripts[s][o][k].after : d[1] \in DOMAIN Scripts[s] /\ d[2] \in Nat
<1>1. Len(Scripts[s][o]) \in Nat /\ Scripts[s][o][k].at \in Spanners
  BY ScriptsAssumption
<1>2. k \in Nat
  BY <1>1
<1>3. /\ Len(Scripts[s][o][k].log) \in Nat
      /\ DOMAIN Scripts[s][o][k].log = 1 .. Len(Scripts[s][o][k].log)
      /\ Scripts[s][o][k].after \subseteq (DOMAIN Scripts[s]) \X Nat
  BY <1>1, EventsAssumption
<1>4. QED
  BY <1>1, <1>2, <1>3

(* The steps stay in order.                                                *)
LEMMA StepsStayInOrder ==
  ASSUME NEW s \in DOMAIN Scripts, NEW P, InOrder(s, P), NEW P2, NEW o, NEW k, Takes1(s, P, P2, o, k)
  PROVE  InOrder(s, P2)
<1>0. /\ o \in DOMAIN Scripts[s] /\ k \in 1 .. Len(Scripts[s][o])
      /\ P[o] = k - 1 /\ P2[o] = k /\ \A a \in DOMAIN Scripts[s] : a # o => P2[a] = P[a]
      /\ \A j \in 1 .. k : \A d \in Scripts[s][o][j].after : d[2] <= P[d[1]]
  BY DEF Takes1
<1>1. /\ o \in DOMAIN Scripts[s] /\ k \in 1 .. Len(Scripts[s][o]) /\ k \in Nat
      /\ P[o] = k - 1 /\ P2[o] = k /\ \A a \in DOMAIN Scripts[s] : a # o => P2[a] = P[a]
      /\ \A j \in 1 .. k : \A d \in Scripts[s][o][j].after : d[2] <= P[d[1]]
  <2>1. Len(Scripts[s][o]) \in Nat
    BY <1>0, ScriptsAssumption
  <2>2. k \in Nat
    BY <1>0, <2>1
  <2>3. QED
    BY <1>0, <2>2
<1>2. \A a \in DOMAIN Scripts[s] : P[a] \in Nat /\ P2[a] \in Nat /\ P[a] <= P2[a]
  BY <1>1 DEF InOrder
<1>3. \A a \in DOMAIN Scripts[s] : Len(Scripts[s][a]) \in Nat
  BY ScriptsAssumption
<1>4. ASSUME NEW a \in DOMAIN Scripts[s], NEW j \in 1 .. P2[a], NEW d \in Scripts[s][a][j].after
      PROVE  d[2] <= P2[d[1]]
  <2>1. j \in 1 .. Len(Scripts[s][a])
    <3>1. CASE a = o
      BY <1>1, <1>3, <3>1
    <3>2. CASE a # o
      BY <1>1, <1>2, <1>3, <3>2 DEF InOrder
    <3>3. QED
      BY <3>1, <3>2
  <2>2. d[1] \in DOMAIN Scripts[s] /\ d[2] \in Nat
    BY <2>1, StepIs
  <2>3. d[2] <= P[d[1]]
    <3>1. CASE a = o
      BY <1>1, <3>1
    <3>2. CASE a # o
      BY <1>1, <3>2 DEF InOrder
    <3>3. QED
      BY <3>1, <3>2
  <2>4. QED
    BY <1>2, <2>2, <2>3
<1>5. \A a \in DOMAIN Scripts[s] : P2[a] <= Len(Scripts[s][a])
  <2> SUFFICES ASSUME NEW a \in DOMAIN Scripts[s] PROVE P2[a] <= Len(Scripts[s][a])
    OBVIOUS
  <2>1. CASE a = o
    BY <1>1, <1>3, <2>1
  <2>2. CASE a # o
    BY <1>1, <2>2 DEF InOrder
  <2>3. QED
    BY <2>1, <2>2
<1>6. QED
  BY <1>2, <1>4, <1>5 DEF InOrder

(* What a step of the simulation takes.                                    *)
LEMMA SimulateTakes ==
  ASSUME KindsInv, NEW s, s = scenario, NEW P, P = progress, InOrder(s, P),
         NEW o \in Operations, Simulate(o), NEW P2, P2 = progress'
  PROVE  /\ s \in DOMAIN Scripts /\ Takes1(s, P, P2, o, P[o] + 1)
         /\ scenario' = s /\ InOrder(scenario', progress')
<1>1. s \in DOMAIN Scripts /\ P \in [DOMAIN Scripts[s] -> Nat] /\ o \in DOMAIN Scripts[s]
  BY DEF KindsInv, SimulationInv, Operations, Script
<1>2. PICK k : k = P[o] + 1
  OBVIOUS
<1>3. /\ k <= Len(Scripts[s][o]) /\ \A d \in Scripts[s][o][k].after : P[d[1]] >= d[2]
      /\ P2 = [P EXCEPT ![o] = k] /\ scenario' = s
  BY <1>2 DEF Simulate, Script
<1>4. k \in Nat /\ Len(Scripts[s][o]) \in Nat /\ k \in 1 .. Len(Scripts[s][o]) /\ P[o] = k - 1
  BY <1>1, <1>2, <1>3, ScriptsAssumption
<1>5. \A a \in DOMAIN Scripts[s] : P[a] \in Nat
  BY <1>1
<1>6. P2[o] = k /\ \A a \in DOMAIN Scripts[s] : a # o => P2[a] = P[a]
  BY <1>1, <1>3
<1>7. ASSUME NEW j \in 1 .. k, NEW d \in Scripts[s][o][j].after PROVE d[2] <= P[d[1]]
  <2>1. CASE j = k
    <3>1. d[1] \in DOMAIN Scripts[s] /\ d[2] \in Nat
      BY <1>1, <1>4, <2>1, StepIs
    <3>2. P[d[1]] >= d[2] /\ P[d[1]] \in Nat
      BY <1>3, <1>5, <2>1, <3>1
    <3>3. QED
      BY <3>1, <3>2
  <2>2. CASE j # k
    <3>1. j \in 1 .. P[o]
      BY <1>4, <1>5, <2>2
    <3>2. QED
      BY <1>1, <3>1 DEF InOrder
  <2>3. QED
    BY <2>1, <2>2
<1>8. Takes1(s, P, P2, o, k)
  BY <1>1, <1>4, <1>5, <1>6, <1>7 DEF Takes1
<1>9. InOrder(s, P2)
  <2>1. s \in DOMAIN Scripts /\ InOrder(s, P)
    BY <1>1
  <2>2. QED
    BY <1>8, <2>1, StepsStayInOrder
<1>10. QED
  BY <1>1, <1>2, <1>3, <1>8, <1>9

(* A step logs its events at the end.                                      *)
LEMMA StepLogs ==
  ASSUME NEW s \in DOMAIN Scripts, NEW o \in DOMAIN Scripts[s], NEW k \in 1 .. Len(Scripts[s][o]),
         NEW L, Sequence(L), NEW t, NEW es, es = Scripts[s][o][k].log,
         NEW L2, L2 = L \o [i \in DOMAIN es |-> Logged(es[i], o, t)]
  PROVE  Logs(s, L, L2, o, k)
<1>1. PICK N : N = Len(es) /\ N \in Nat /\ DOMAIN es = 1 .. N
  <2>1. Len(Scripts[s][o][k].log) \in Nat
    BY StepIs
  <2>2. DOMAIN Scripts[s][o][k].log = 1 .. Len(Scripts[s][o][k].log)
    BY StepIs
  <2>3. QED
    BY <2>1, <2>2
<1>2. PICK a : a = [i \in 1 .. N |-> Logged(es[i], o, t)]
  OBVIOUS
<1>3. PICK S0 : L \in Seq(S0)
  BY DEF Sequence
<1>4. PICK S : S = S0 \cup {a[i] : i \in 1 .. N}
  OBVIOUS
<1>5. L \in Seq(S)
  BY <1>3, <1>4
<1>6. a \in [1 .. N -> S]
  BY <1>2, <1>4
<1>7. a \in Seq(S)
  BY <1>1, <1>6, FunctionIsSequence
<1>8. N = Len(a)
  BY <1>1, <1>6, <1>7
<1>9. PICK n : n = Len(L) /\ n \in Nat /\ DOMAIN L = 1 .. n
  BY <1>5
<1>10. L2 = L \o a
  BY <1>1, <1>2
<1>11. /\ L2 \in Seq(S) /\ DOMAIN L2 = 1 .. n + N
       /\ \A j \in 1 .. n : L2[j] = L[j]
       /\ \A j \in 1 .. N : L2[n + j] = a[j]
  <2>1. n = Len(L)
    BY <1>9
  <2>2. QED
    BY ONLY <1>5, <1>7, <1>8, <1>10, <2>1, AtItsEnd
<1>12. ASSUME NEW j \in 1 .. N PROVE Records(L2[n + j], s, <<o, k, j>>)
  <2>1. PICK x : x = <<o, k, j>>
    OBVIOUS
  <2>2. x[1] = o /\ x[2] = k /\ x[3] = j
    BY <2>1
  <2>3. PICK p \in Spanners : Scripts[s][o][k].at = p
    BY StepIs
  <2>4. x \in Occurrences(s, p)
    BY <1>1, <2>1, <2>3, OccurrenceIs
  <2>5. EventOf(s, x) = es[j]
    BY <2>2 DEF EventOf, StepOf
  <2>6. L2[n + j] = Logged(es[j], o, t)
    BY <1>2, <1>11
  <2>7. PICK e : e = L2[n + j]
    OBVIOUS
  <2>8. e = Logged(EventOf(s, x), x[1], t)
    BY <2>2, <2>5, <2>6, <2>7
  <2>9. Records(e, s, x)
    BY <2>4, <2>8, EventRecords
  <2>10. QED
    BY <2>1, <2>7, <2>9
<1>13. QED
  BY <1>1, <1>9, <1>11, <1>12 DEF Logs, Sequence

(* What the simulation logs.                                               *)
LEMMA SimulateLogs ==
  ASSUME KindsInv, DOMAIN log = Spanners, NEW s, s = scenario, NEW o \in Operations, Simulate(o),
         \A p \in Spanners : Sequence(log[p]), NEW k, k = progress[o] + 1,
         s \in DOMAIN Scripts, o \in DOMAIN Scripts[s], k \in 1 .. Len(Scripts[s][o]),
         NEW at, at = Scripts[s][o][k].at
  PROVE  /\ at \in Spanners /\ DOMAIN log' = Spanners
         /\ \A p \in Spanners : p # at => log'[p] = log[p]
         /\ Logs(s, log[at], log'[at], o, k)
<1>1. at \in Spanners
  BY StepIs
<1>2. PICK es, t, a : /\ es = Scripts[s][o][k].log /\ t = clock'[at[2]]
                      /\ a = [i \in DOMAIN es |-> Logged(es[i], o, t)]
  OBVIOUS
<1>3. log' = [log EXCEPT ![at] = @ \o a]
  BY <1>2 DEF Simulate, Script
<1>4. PICK L, L2 : L = log[at] /\ L2 = log'[at]
  OBVIOUS
<1>5. DOMAIN log' = Spanners /\ \A p \in Spanners : p # at => log'[p] = log[p]
  BY <1>3
<1>6. L2 = L \o a
  BY <1>1, <1>3, <1>4
<1>7. Sequence(L)
  BY <1>1, <1>4
<1>8. Logs(s, L, L2, o, k)
  BY <1>2, <1>6, <1>7, StepLogs
<1>9. QED
  BY <1>1, <1>4, <1>5, <1>8

(* History h of the log L goes on as h2 of L2, by step k of operation o.   *)
Goes(s, P, P2, o, k, p, L, h, L2, h2) ==
  /\ History(s, p, P, L, h) /\ History(s, p, P2, L2, h2) /\ Grows(h, h2, o, k)

(* The logs of all spanners have a history after the step, too.            *)
LEMMA SimulateHistories ==
  ASSUME DOMAIN log = Spanners, NEW s \in DOMAIN Scripts, NEW o, NEW k, NEW P, NEW P2,
         Takes1(s, P, P2, o, k), NEW H, \A p \in Spanners : History(s, p, P, log[p], H[p]),
         NEW at, at = Scripts[s][o][k].at, \A p \in Spanners : p # at => log'[p] = log[p],
         Logs(s, log[at], log'[at], o, k)
  PROVE  \E H2 : \A p \in Spanners : Goes(s, P, P2, o, k, p, log[p], H[p], log'[p], H2[p])
<1>1. at \in Spanners
  BY StepIs DEF Takes1
<1>2. PICK L, L2, h : L = log[at] /\ L2 = log'[at] /\ h = H[at]
  OBVIOUS
<1>3. History(s, at, P, L, h) /\ Logs(s, L, L2, o, k)
  BY <1>1, <1>2
<1>4. PICK h2 : History(s, at, P2, L2, h2) /\ Grows(h, h2, o, k)
  BY <1>1, <1>3, HistoryGoesOn
<1>5. PICK H2 : H2 = [p \in Spanners |-> IF p = at THEN h2 ELSE H[p]]
  OBVIOUS
<1>6. ASSUME NEW p \in Spanners
      PROVE  Goes(s, P, P2, o, k, p, log[p], H[p], log'[p], H2[p])
  <2>1. CASE p = at
    BY <1>2, <1>3, <1>4, <1>5, <2>1 DEF Goes
  <2>2. CASE p # at
    <3>1. PICK l, g : l = log[p] /\ g = H[p] /\ History(s, p, P, l, g)
      OBVIOUS
    <3>2. log'[p] = l /\ H2[p] = g
      BY <1>5, <2>2, <3>1
    <3>3. Scripts[s][o][k].at # p
      BY <2>2
    <3>4. History(s, p, P2, l, g) /\ Grows(g, g, o, k)
      BY <3>1, <3>3, HistoryStays
    <3>5. Goes(s, P, P2, o, k, p, l, g, l, g)
      BY <3>1, <3>4 DEF Goes
    <3>6. QED
      BY <3>1, <3>2, <3>5
  <2>3. QED
    BY <2>1, <2>2
<1>7. QED
  BY <1>6

(* What a step of the simulation does to the wires.                        *)
LEMMA SimulateWires ==
  ASSUME KindsInv, \A w \in Wires : Sequence(wire[w]),
         NEW s, s = scenario, NEW o \in Operations, Simulate(o), NEW k, k = progress[o] + 1,
         NEW step, step = Scripts[s][o][k]
  PROVE  /\ DOMAIN wire' = Wires
         /\ \A w \in Wires :
              /\ Sequence(wire'[w])
              /\ \E t : WireStep(wire[w], wire'[w], t, o, step, w)
<1>1. /\ step.take # NoWire => wire[step.take] # <<>> /\ Head(wire[step.take]) = o
      /\ wire' = [w \in Wires |-> (IF w = step.take THEN Tail(wire[w]) ELSE wire[w])
                                    \o (IF w = step.send THEN <<o>> ELSE <<>>)]
  BY DEF Simulate, Script
<1>2. ASSUME NEW w \in Wires
      PROVE  /\ Sequence(wire'[w])
             /\ \E t : WireStep(wire[w], wire'[w], t, o, step, w)
  <2>1. PICK c \in BOOLEAN, b \in BOOLEAN : c = (w = step.take) /\ b = (w = step.send)
    BY Zenon
  <2>2. PICK W, W2 : W = wire[w] /\ W2 = wire'[w]
    OBVIOUS
  <2>3. Sequence(W)
    BY <2>2
  <2>4. ASSUME c PROVE W # <<>> /\ Head(W) = o
    <3>1. step.take = w
      BY <2>1, <2>4
    <3>2. step.take # NoWire
      BY <3>1, MachineAssumption
    <3>3. wire[step.take] # <<>> /\ Head(wire[step.take]) = o
      BY <1>1, <3>2
    <3>4. QED
      BY <2>2, <3>1, <3>3
  <2>5. W2 = WireAfter(W, o, c, b)
    <3>1. wire'[w] = (IF w = step.take THEN Tail(wire[w]) ELSE wire[w])
                       \o (IF w = step.send THEN <<o>> ELSE <<>>)
      BY <1>1
    <3>2. wire'[w] = WireAfter(wire[w], o, w = step.take, w = step.send)
      BY <3>1 DEF WireAfter
    <3>3. QED
      BY <2>1, <2>2, <3>2
  <2>6. Sequence(W2) /\ \E t : (t = 1 <=> c) /\ WireMoves(W, W2, t, o, b)
    BY <2>3, <2>4, <2>5, WireIs
  <2>7. PICK t : (t = 1 <=> c) /\ WireMoves(W, W2, t, o, b)
    BY <2>6
  <2>8. (t = 1 <=> step.take = w) /\ (b <=> step.send = w)
    BY <2>1, <2>7
  <2>9. WireStep(W, W2, t, o, step, w)
    BY <2>7, <2>8 DEF WireStep, WireMoves
  <2>10. QED
    BY <2>2, <2>6, <2>9
<1>3. QED
  BY <1>1, <1>2

(* So the order on the wires stays.                                        *)
LEMMA SimulateTransits ==
  ASSUME NEW s \in DOMAIN Scripts, NEW o, NEW k, NEW P, NEW P2, Takes1(s, P, P2, o, k),
         NEW p \in Spanners, NEW r \in Spanners,
         NEW X \in SUBSET Occurrences(s, p), NEW Y \in SUBSET Occurrences(s, r),
         NEW L, NEW L2, NEW f, NEW f2, Goes(s, P, P2, o, k, p, L, f, L2, f2),
         NEW K, NEW K2, NEW g, NEW g2, Goes(s, P, P2, o, k, r, K, g, K2, g2),
         NEW step, step = Scripts[s][o][k],
         \A w \in Wires : \E t : WireStep(wire[w], wire'[w], t, o, step, w),
         OnWires(s, X, Y, P, f, g)
  PROVE  OnWires(s, X, Y, P2, f2, g2)'
<1> SUFFICES ASSUME NEW w \in Wires, Carried(s, X, Y, w)
             PROVE  Transit(X, Y, P2, wire'[w], f2, g2)
  BY DEF OnWires
<1>1. PICK W, W2 : W = wire[w] /\ W2 = wire'[w]
  OBVIOUS
<1>2. PICK t : WireStep(W, W2, t, o, step, w)
  BY <1>1
<1>3. Transit(X, Y, P, W, f, g)
  BY <1>1 DEF OnWires
<1>4. WireStep(W, W2, t, o, Scripts[s][o][k], w)
  BY <1>2
<1>5. /\ History(s, p, P, L, f) /\ History(s, r, P, K, g)
      /\ History(s, p, P2, L2, f2) /\ History(s, r, P2, K2, g2)
      /\ Grows(f, f2, o, k) /\ Grows(g, g2, o, k)
  BY DEF Goes
<1>5a. /\ s \in DOMAIN Scripts /\ Takes1(s, P, P2, o, k) /\ Carried(s, X, Y, w)
       /\ p \in Spanners /\ r \in Spanners
       /\ X \in SUBSET Occurrences(s, p) /\ Y \in SUBSET Occurrences(s, r)
  OBVIOUS
<1>6. Transit(X, Y, P2, W2, f2, g2)
  BY ONLY <1>3, <1>4, <1>5, <1>5a, TransitGoesOn
<1>7. QED
  BY <1>1, <1>6

(* What step does to the packets Q that the network sent.                  *)
PacketSent(Q, Q2, o, step) ==
  IF IsReceive(step) THEN Extended(Q2, Q, <<o, "Rx">>) ELSE Q2 = Q

(* The packets of the log once a step is taken there.                      *)
LEMMA PacketsGoOn ==
  ASSUME NEW s \in DOMAIN Scripts, NEW P, NEW P2, NEW o, NEW k, Takes1(s, P, P2, o, k),
         NEW p \in Spanners, Scripts[s][o][k].at = p, NEW L, NEW h, History(s, p, P, L, h),
         NEW L2, Logs(s, L, L2, o, k), OncePerOperation(OfType(s, p, {"NicRx"})),
         NEW Q, PacketsMeet(Q, L), NEW Q2,
         PacketSent(Q, Q2, o, Scripts[s][o][k])
  PROVE  PacketsMeet(Q2, L2)
<1> /\ IsReceive(Scripts[s][o][k]) => Extended(Q2, Q, <<o, "Rx">>)
    /\ ~IsReceive(Scripts[s][o][k]) => Q2 = Q
  BY DEF PacketSent
<1>1. PICK es, n, N : es = Scripts[s][o][k].log /\ n = Len(L) /\ N = Len(es)
  OBVIOUS
<1>2. /\ o \in DOMAIN Scripts[s] /\ k \in 1 .. Len(Scripts[s][o]) /\ P[o] = k - 1
  BY DEF Takes1
<1>3. k \in Nat /\ N \in Nat /\ DOMAIN es = 1 .. N
  BY <1>1, <1>2, StepIs
<1>4. /\ n \in Nat /\ DOMAIN L = 1 .. n /\ DOMAIN L2 = 1 .. n + N
      /\ \A i \in DOMAIN L : L2[i] = L[i]
      /\ \A a \in 1 .. N : Records(L2[n + a], s, <<o, k, a>>)
  BY <1>1, <1>3 DEF Logs
<1>5. \A a \in 1 .. N : <<o, k, a>> \in Occurrences(s, p) /\ EventOf(s, <<o, k, a>>) = es[a]
  <2> SUFFICES ASSUME NEW a \in 1 .. N
               PROVE  <<o, k, a>> \in Occurrences(s, p) /\ EventOf(s, <<o, k, a>>) = es[a]
    OBVIOUS
  <2>1. PICK x : x = <<o, k, a>>
    OBVIOUS
  <2>2. x \in Occurrences(s, p)
    BY <1>1, <1>2, <1>3, <2>1, OccurrenceIs
  <2>3. EventOf(s, x) = es[a]
    BY <1>1, <2>1 DEF EventOf, StepOf
  <2>4. QED
    BY <2>1, <2>2, <2>3
<1>6. \A a \in 1 .. N : L2[n + a].type = es[a].type /\ L2[n + a].op = o
  BY <1>4, <1>5 DEF Records
<1>7. PICK T : T = Where(L, {"NicRx"})
  OBVIOUS
<1>8. T \subseteq 1 .. n /\ \A i \in 1 .. n : i \in T <=> L2[i].type = "NicRx"
  BY <1>4, <1>7 DEF Where
<1>9. \A i \in 1 .. n + N : i \in 1 .. n \/ (i - n \in 1 .. N /\ i = n + (i - n))
  BY <1>3, <1>4
<1>9a. \A i \in 1 .. n : i \in 1 .. n + N
  BY <1>3, <1>4
<1>10. CASE IsReceive(Scripts[s][o][k])
  <2>1. PICK c \in 1 .. N : es[c].type = "NicRx"
    BY <1>1, <1>3, <1>10 DEF IsReceive
  <2>2. PICK b : b = n + c
    OBVIOUS
  <2>3. b \in Nat /\ b \in 1 .. n + N /\ \A i \in 1 .. n : i < b
    BY <1>3, <1>4, <2>2
  <2>4. PICK x : x = <<o, k, c>>
    OBVIOUS
  <2>5. x \in OfType(s, p, {"NicRx"}) /\ x[1] = o /\ x[2] = k
    BY <1>5, <2>1, <2>4 DEF OfType
  <2>6. \A a \in 1 .. N : es[a].type = "NicRx" => a = c
    <3> SUFFICES ASSUME NEW a \in 1 .. N, es[a].type = "NicRx" PROVE a = c
      OBVIOUS
    <3>1. PICK y : y = <<o, k, a>>
      OBVIOUS
    <3>2. y \in OfType(s, p, {"NicRx"}) /\ y[1] = o
      BY <1>5, <3>1 DEF OfType
    <3>3. x = y
      BY <2>5, <3>2 DEF OncePerOperation
    <3>4. QED
      BY <2>4, <3>1, <3>3
  <2>7. Where(L2, {"NicRx"}) = T \cup {b}
    <3>1. \A i \in 1 .. n + N : i \in T \cup {b} <=> L2[i].type = "NicRx"
      <4> SUFFICES ASSUME NEW i \in 1 .. n + N PROVE i \in T \cup {b} <=> L2[i].type = "NicRx"
        OBVIOUS
      <4>1. CASE i \in 1 .. n
        <5>1. i # b
          BY <1>4, <2>3, <4>1
        <5>2. QED
          BY <1>8, <4>1, <5>1
      <4>2. CASE i \notin 1 .. n
        <5>1. PICK a \in 1 .. N : i = n + a
          BY <1>9, <4>2
        <5>2. i \notin T
          BY <1>8, <4>2
        <5>3. L2[i].type = es[a].type
          BY <1>6, <5>1
        <5>4. i = b <=> a = c
          BY <1>3, <1>4, <2>2, <5>1
        <5>5. QED
          BY <2>1, <2>6, <5>2, <5>3, <5>4
      <4>3. QED
        BY <4>1, <4>2
    <3>2. T \cup {b} \subseteq 1 .. n + N
      BY <1>8, <1>9a, <2>3
    <3>3. QED
      BY <1>4, <3>1, <3>2 DEF Where
  <2>8. PICK tok : tok = <<o, "Rx">>
    OBVIOUS
  <2>9. tok = Token(L2[b])
    <3>1. L2[b].op = o /\ L2[b].type = "NicRx"
      BY <1>6, <2>1, <2>2
    <3>2. Expects(L2[b]) = "Rx"
      BY <3>1, Expectations
    <3>3. QED
      BY <2>8, <3>1, <3>2 DEF Token
  <2>10. ASSUME NEW i \in T PROVE i < b /\ L2[i] = L[i] /\ Token(L[i]) # tok
    <3>1. i \in 1 .. n /\ i < b /\ L2[i] = L[i] /\ L[i].type = "NicRx"
      BY <1>4, <1>8, <2>3
    <3>2. h[i] \in Occurrences(s, p) /\ Records(L[i], s, h[i]) /\ h[i][2] <= P[h[i][1]]
      BY <1>4, <3>1 DEF History
    <3>3. h[i] \in OfType(s, p, {"NicRx"}) /\ L[i].op = h[i][1]
      BY <3>1, <3>2 DEF OfType, Records
    <3>4. h[i][1] # o
      <4> SUFFICES ASSUME h[i][1] = o PROVE FALSE
        OBVIOUS
      <4>1. h[i] = x
        BY <2>5, <3>3 DEF OncePerOperation
      <4>2. k <= k - 1
        BY <1>2, <2>5, <3>2, <4>1
      <4>3. QED
        BY <1>3, <4>2
    <3>5. Token(L[i]) # tok
      BY <2>8, <3>3, <3>4 DEF Token
    <3>6. QED
      BY <3>1, <3>5
  <2>11. Extended(Q2, Q, tok)
    BY <1>10, <2>8
  <2>12. DOMAIN L \subseteq Nat
    BY <1>4
  <2>13. /\ PacketsMeet(Q, L) /\ Extended(Q2, Q, tok) /\ T = Where(L, {"NicRx"})
         /\ DOMAIN L \subseteq Nat /\ b \in Nat /\ Where(L2, {"NicRx"}) = T \cup {b}
         /\ tok = Token(L2[b]) /\ \A i \in T : i < b /\ L2[i] = L[i] /\ Token(L[i]) # tok
    BY <1>7, <2>3, <2>7, <2>9, <2>10, <2>11, <2>12
  <2>14. QED
    BY ONLY <2>13, PacketMeets
<1>11. CASE ~IsReceive(Scripts[s][o][k])
  <2>1. \A a \in 1 .. N : es[a].type # "NicRx"
    BY <1>1, <1>3, <1>11 DEF IsReceive
  <2>2. \A i \in 1 .. n + N : i \in T <=> L2[i].type = "NicRx"
    <3> SUFFICES ASSUME NEW i \in 1 .. n + N PROVE i \in T <=> L2[i].type = "NicRx"
      OBVIOUS
    <3>1. CASE i \in 1 .. n
      BY <1>8, <3>1
    <3>2. CASE i \notin 1 .. n
      <4>1. PICK a \in 1 .. N : i = n + a
        BY <1>9, <3>2
      <4>2. QED
        BY <1>6, <1>8, <2>1, <3>2, <4>1
    <3>3. QED
      BY <3>1, <3>2
  <2>3. Where(L2, {"NicRx"}) = T
    BY <1>4, <1>8, <1>9a, <2>2 DEF Where
  <2>4. \A i \in T : L2[i] = L[i]
    BY <1>4, <1>8
  <2>5. PacketsMeet(Q, L2)
    BY <1>7, <2>3, <2>4, PacketsWait
  <2>6. QED
    BY <1>11, <2>5
<1>12. QED
  BY <1>10, <1>11

(* What the network does in a step.                                        *)
NetworkDoes(m, o, step) ==
  /\ Keeps({}) /\ \A p \in Spanners : spans'[p] = spans[p]
  /\ \A q \in Queues : q # FromNet(m) \/ ~IsReceive(step) => queue'[q] = queue[q]
  /\ IsReceive(step) =>
       Extended(QueueTokens(FromNet(m))', QueueTokens(FromNet(m)), <<o, "Rx">>)

(* And it does no more than that.                                          *)
LEMMA NetworkStep ==
  ASSUME KindsInv, EventsInv, NEW m \in Machines, NEW o, NEW step, FromNetwork(m, o, step)
  PROVE  NetworkDoes(m, o, step)
<1>1. CASE IsReceive(step)
  <2>1. PICK p, id, e, sp, con, q :
          /\ p = Net(m) /\ id = NextId(p) /\ q = FromNet(m)
          /\ e = [op |-> o, ts |-> clock[m] + 1]
          /\ sp = [kind |-> "NetDevice", parent |-> None, pending |-> FALSE, events |-> <<e>>]
          /\ con = Context(id, "Rx", clock[m] + 1)
    OBVIOUS
  <2>2. DOMAIN sp = SpanFields /\ sp.kind = "NetDevice" /\ sp.events = <<e>>
    BY <2>1 DEF SpanFields
  <2>3. Sequence(sp.events) /\ 1 \in DOMAIN sp.events /\ sp.events[1] = e
    <3>1. PICK es : es = <<e>>
      OBVIOUS
    <3>2. es \in Seq({e}) /\ 1 \in DOMAIN es /\ es[1] = e
      BY <3>1
    <3>3. QED
      BY <2>2, <3>1, <3>2 DEF Sequence
  <2>4. spans' = Append1(p, sp) /\ Push(q, con)
    BY <1>1, <2>1 DEF FromNetwork
  <2>5. p \in Sources /\ SpansInv /\ QueuesInv /\ q \in Queues
    BY <2>1, SourcesApart, QueuesApart DEF KindsInv
  <2>6. Appended(p, id, sp)
    BY <2>1, <2>2, <2>4, <2>5, SpanAppended
  <2>7. Keeps({}) /\ FirstEvent(id)' = e
    <3>1. sp.kind # "HostMmio"
      BY <2>2
    <3>2. Keeps({}) /\ FirstEvent(id)' = sp.events[1]
      BY <2>3, <2>5, <2>6, <3>1, AppendedKeeps
    <3>3. QED
      BY <2>3, <3>2
  <2>8. \A r \in Spanners : r # p /\ r \in Sources
    BY <2>1 DEF Spanners, Sources, Host, Nic, Net
  <2>9. \A r \in Spanners : spans'[r] = spans[r]
    BY <2>4, <2>5, <2>8 DEF Append1, SpansInv
  <2>10. queue'[q] = Append(queue[q], con) /\ \A r \in Queues : r # q => queue'[r] = queue[r]
    BY <2>4, <2>5 DEF QueuesInv, Push
  <2>11. con.parent = id /\ con.expectation = "Rx"
    BY <2>1 DEF Context
  <2>12. FirstEvent(con.parent)' = e
    BY <2>1, <2>7, <2>11 DEF FirstEvent, SpanOf
  <2>13. Extended(QueueTokens(q)', QueueTokens(q), <<e.op, con.expectation>>)
    BY <2>5, <2>7, <2>10, <2>12, TokensPushed
  <2>14. <<e.op, con.expectation>> = <<o, "Rx">>
    BY <2>1, <2>11
  <2>15. Extended(QueueTokens(FromNet(m))', QueueTokens(FromNet(m)), <<o, "Rx">>)
    BY <2>1, <2>13, <2>14 DEF QueueTokens
  <2>16. QED
    BY <1>1, <2>1, <2>7, <2>9, <2>10, <2>15 DEF NetworkDoes
<1>2. CASE ~IsReceive(step)
  <2>1. UNCHANGED <<spans, queue>>
    BY <1>2 DEF FromNetwork
  <2>2. Keeps({})
    BY <2>1, SameKeeps
  <2>3. QED
    BY <1>2, <2>1, <2>2 DEF NetworkDoes
<1>3. QED
  BY <1>1, <1>2

(* No packet is logged at a host.                                          *)
LEMMA PacketsAtNic ==
  ASSUME NEW s \in DOMAIN Scripts, NEW o \in DOMAIN Scripts[s], NEW k \in 1 .. Len(Scripts[s][o]),
         IsReceive(Scripts[s][o][k]), NEW m \in Machines
  PROVE  Scripts[s][o][k].at # Host(m)
<1> SUFFICES ASSUME Scripts[s][o][k].at = Host(m) PROVE FALSE
  OBVIOUS
<1>1. PICK i \in DOMAIN Scripts[s][o][k].log : Scripts[s][o][k].log[i].type = "NicRx"
  BY DEF IsReceive
<1>2. PICK x : x = <<o, k, i>>
  OBVIOUS
<1>3. x \in Occurrences(s, Host(m))
  BY <1>1, <1>2, OccurrenceIs
<1>4. EventOf(s, x).type = "NicRx"
  BY <1>1, <1>2 DEF EventOf, StepOf
<1>5. OfType(s, Host(m), {"NicRx"}) = {}
  BY InStepAssumption
<1>6. QED
  BY <1>3, <1>4, <1>5 DEF OfType

(* The packets of every card stay in step with its log.                    *)
LEMMA SimulatePackets ==
  ASSUME KindsInv, NEW s \in DOMAIN Scripts, NEW P, NEW P2, NEW o, NEW k, Takes1(s, P, P2, o, k),
         NEW H, \A p \in Spanners : History(s, p, P, log[p], H[p]), 
         NEW at, at = Scripts[s][o][k].at, \A p \in Spanners : p # at => log'[p] = log[p],
         Logs(s, log[at], log'[at], o, k), NetworkDoes(at[2], o, Scripts[s][o][k]),
         NEW n \in Machines, PacketsMeet(QueueTokens(FromNet(n)), log[Nic(n)])
  PROVE  PacketsMeet(QueueTokens(FromNet(n))', log'[Nic(n)])
<1>1. o \in DOMAIN Scripts[s] /\ k \in 1 .. Len(Scripts[s][o])
  BY DEF Takes1
<1>2. at \in Spanners
  BY <1>1, StepIs
<1>3. PICK m \in Machines : at[2] = m /\ (at = Host(m) \/ at = Nic(m))
  BY <1>2 DEF Spanners, Host, Nic
<1>4. PICK step : step = Scripts[s][o][k]
  OBVIOUS
<1>5. NetworkDoes(m, o, step)
  BY <1>3, <1>4
<1>6. FromNet(n) \in Queues /\ Nic(n) \in Spanners
  BY QueuesApart, SourcesApart
<1>7. Keeps({})
  BY <1>5 DEF NetworkDoes
<1>8. CASE at = Nic(n)
  <2>1. m = n
    BY <1>3, <1>8 DEF Host, Nic
  <2>2. PICK Q, Q2, L, L2, h : /\ Q = QueueTokens(FromNet(n)) /\ Q2 = QueueTokens(FromNet(n))'
                               /\ L = log[at] /\ L2 = log'[at] /\ h = H[at]
    OBVIOUS
  <2>3. IF IsReceive(step) THEN Extended(Q2, Q, <<o, "Rx">>) ELSE Q2 = Q
    <3>1. CASE IsReceive(step)
      BY <1>5, <2>1, <2>2, <3>1 DEF NetworkDoes
    <3>2. CASE ~IsReceive(step)
      <4>1. queue'[FromNet(n)] = queue[FromNet(n)]
        BY <1>5, <1>6, <3>2 DEF NetworkDoes
      <4>2. QueueTokens(FromNet(n))' = QueueTokens(FromNet(n))
        BY <1>6, <1>7, <4>1, TokensSame
      <4>3. QED
        BY <2>2, <3>2, <4>2
    <3>3. QED
      BY <3>1, <3>2
  <2>4. OncePerOperation(OfType(s, at, {"NicRx"}))
    BY <1>8, InStepAssumption
  <2>5. /\ History(s, at, P, L, h) /\ Logs(s, L, L2, o, k) /\ PacketsMeet(Q, L)
        /\ Takes1(s, P, P2, o, k) /\ at \in Spanners /\ Scripts[s][o][k].at = at
        /\ IF IsReceive(Scripts[s][o][k]) THEN Extended(Q2, Q, <<o, "Rx">>) ELSE Q2 = Q
    BY <1>2, <1>4, <1>8, <2>2, <2>3
  <2>6. PacketsMeet(Q2, L2)
    <3>1. s \in DOMAIN Scripts
      OBVIOUS
    <3>2. PICK r : r = at
      OBVIOUS
    <3>3. /\ History(s, r, P, L, h) /\ Logs(s, L, L2, o, k) /\ PacketsMeet(Q, L)
          /\ Takes1(s, P, P2, o, k) /\ r \in Spanners /\ Scripts[s][o][k].at = r
          /\ PacketSent(Q, Q2, o, Scripts[s][o][k])
          /\ OncePerOperation(OfType(s, r, {"NicRx"}))
      BY <2>4, <2>5, <3>2 DEF PacketSent
    <3>4. QED
      BY ONLY <3>1, <3>3, PacketsGoOn
  <2>7. QED
    BY <1>8, <2>2, <2>6
<1>9. CASE at # Nic(n)
  <2>1. log'[Nic(n)] = log[Nic(n)]
    BY <1>6, <1>9
  <2>2. FromNet(n) # FromNet(m) \/ ~IsReceive(step)
    <3>1. CASE m # n
      BY <3>1 DEF FromNet
    <3>2. CASE m = n
      BY <1>1, <1>3, <1>4, <1>9, <3>2, PacketsAtNic
    <3>3. QED
      BY <3>1, <3>2
  <2>3. queue'[FromNet(n)] = queue[FromNet(n)]
    BY <1>5, <1>6, <2>2 DEF NetworkDoes
  <2>4. QueueTokens(FromNet(n))' = QueueTokens(FromNet(n))
    BY <1>6, <1>7, <2>3, TokensSame
  <2>5. QED
    BY <2>1, <2>4
<1>10. QED
  BY <1>8, <1>9

(* A step of the simulation keeps its invariant.                           *)
LEMMA SimulationGoesOn ==
  ASSUME KindsInv, SimulationIn, NEW o \in Operations, Simulate(o)
  PROVE  SimulationIn'
<1>1. PICK s, P, P2, k : s = scenario /\ P = progress /\ P2 = progress' /\ k = P[o] + 1
  OBVIOUS
<1>2. InOrder(s, P)
  BY <1>1 DEF SimulationIn
<1>3. /\ s \in DOMAIN Scripts /\ Takes1(s, P, P2, o, k)
      /\ scenario' = s /\ InOrder(scenario', progress')
  BY <1>1, <1>2, SimulateTakes
<1>4. o \in DOMAIN Scripts[s] /\ k \in 1 .. Len(Scripts[s][o])
  BY <1>3 DEF Takes1
<1>5. PICK step, at : step = Scripts[s][o][k] /\ at = step.at
  OBVIOUS
<1>6. PICK H : HistoryOf(H, s, P)
  BY <1>1 DEF SimulationIn
<1>7. \A p \in Spanners : History(s, p, P, log[p], H[p])
  BY <1>6 DEF HistoryOf
<1>8. DOMAIN log = Spanners /\ \A p \in Spanners : Sequence(log[p])
  BY <1>7 DEF SimulationIn, History
<1>9. /\ at \in Spanners /\ DOMAIN log' = Spanners
      /\ \A p \in Spanners : p # at => log'[p] = log[p]
      /\ Logs(s, log[at], log'[at], o, k)
  <2>1. k = progress[o] + 1 /\ at = Scripts[s][o][k].at
    BY <1>1, <1>5
  <2>2. QED
    BY <1>1, <1>3, <1>4, <1>8, <2>1, SimulateLogs
<1>10. PICK H2 : \A p \in Spanners : Goes(s, P, P2, o, k, p, log[p], H[p], log'[p], H2[p])
  BY <1>3, <1>5, <1>7, <1>8, <1>9, SimulateHistories
<1>11. /\ DOMAIN wire' = Wires
       /\ \A w \in Wires : Sequence(wire'[w]) /\ \E t : WireStep(wire[w], wire'[w], t, o, step, w)
  <2>1. \A w \in Wires : Sequence(wire[w])
    BY DEF SimulationIn
  <2>2. k = progress[o] + 1
    BY <1>1
  <2>3. QED
    BY <1>1, <1>5, <2>1, <2>2, SimulateWires
<1>12. ASSUME NEW p \in Spanners, NEW r \in Spanners,
              NEW X \in SUBSET Occurrences(s, p), NEW Y \in SUBSET Occurrences(s, r),
              OnWires(s, X, Y, P, H[p], H[r])
       PROVE  OnWires(s, X, Y, P2, H2[p], H2[r])'
  <2>1. PICK L, L2, f, f2 : L = log[p] /\ L2 = log'[p] /\ f = H[p] /\ f2 = H2[p]
    OBVIOUS
  <2>2. PICK K, K2, g, g2 : K = log[r] /\ K2 = log'[r] /\ g = H[r] /\ g2 = H2[r]
    OBVIOUS
  <2>3. Goes(s, P, P2, o, k, p, L, f, L2, f2) /\ Goes(s, P, P2, o, k, r, K, g, K2, g2)
    BY <1>10, <2>1, <2>2
  <2>4. OnWires(s, X, Y, P, f, g)
    BY <1>12, <2>1, <2>2
  <2>5. \A w \in Wires : \E t : WireStep(wire[w], wire'[w], t, o, step, w)
    BY <1>11
  <2>6. OnWires(s, X, Y, P2, f2, g2)'
    BY <1>3, <1>5, <2>3, <2>4, <2>5, SimulateTransits
  <2>7. QED
    BY <2>1, <2>2, <2>6
<1>13. HistoryOf(H2, s, P2)'
  <2>1. \A p \in Spanners : History(s, p, P2, log'[p], H2[p])
    BY <1>10 DEF Goes
  <2>2. ASSUME NEW m \in Machines
        PROVE  /\ OnWires(s, ToDevice(s, m), OfType(s, Nic(m), NicMmioTypes), P2, H2[Host(m)], H2[Nic(m)])'
               /\ OnWires(s, OfType(s, Nic(m), {"NicDmaEx", "NicMsix"}), OfType(s, Host(m), Opens), P2,
                          H2[Nic(m)], H2[Host(m)])'
    <3>1. Host(m) \in Spanners /\ Nic(m) \in Spanners
      BY SourcesApart
    <3>2. \A p, types : OfType(s, p, types) \in SUBSET Occurrences(s, p)
      BY DEF OfType
    <3>3. ToDevice(s, m) \in SUBSET Occurrences(s, Host(m))
      BY <3>2 DEF ToDevice
    <3>4. /\ OnWires(s, ToDevice(s, m), OfType(s, Nic(m), NicMmioTypes), P, H[Host(m)], H[Nic(m)])
          /\ OnWires(s, OfType(s, Nic(m), {"NicDmaEx", "NicMsix"}), OfType(s, Host(m), Opens), P,
                     H[Nic(m)], H[Host(m)])
      BY <1>6 DEF HistoryOf
    <3>5. PICK X, Y : X = ToDevice(s, m) /\ Y = OfType(s, Nic(m), NicMmioTypes)
      OBVIOUS
    <3>6. PICK U, V : U = OfType(s, Nic(m), {"NicDmaEx", "NicMsix"}) /\ V = OfType(s, Host(m), Opens)
      OBVIOUS
    <3>7. OnWires(s, X, Y, P2, H2[Host(m)], H2[Nic(m)])'
      <4>1. /\ X \in SUBSET Occurrences(s, Host(m)) /\ Y \in SUBSET Occurrences(s, Nic(m))
            /\ OnWires(s, X, Y, P, H[Host(m)], H[Nic(m)])
        BY <3>2, <3>3, <3>4, <3>5
      <4>2. QED
        BY <1>12, <3>1, <4>1
    <3>8. OnWires(s, U, V, P2, H2[Nic(m)], H2[Host(m)])'
      <4>1. /\ U \in SUBSET Occurrences(s, Nic(m)) /\ V \in SUBSET Occurrences(s, Host(m))
            /\ OnWires(s, U, V, P, H[Nic(m)], H[Host(m)])
        BY <3>2, <3>4, <3>6
      <4>2. QED
        BY <1>12, <3>1, <4>1
    <3>9. QED
      BY <3>5, <3>6, <3>7, <3>8
  <2>3. QED
    BY <2>1, <2>2 DEF HistoryOf
<1>14. NetworkDoes(at[2], o, step)
  <2>1. FromNetwork(at[2], o, step)
    BY <1>1, <1>5 DEF Simulate, Script
  <2>2. at[2] \in Machines
    BY <1>9 DEF Spanners, Host, Nic
  <2>3. EventsInv
    BY DEF SimulationIn
  <2>4. QED
    BY <2>1, <2>2, <2>3, NetworkStep
<1>15. EventsInv' /\ \A p \in Spanners : spans'[p] = <<>>
  BY <1>14 DEF NetworkDoes, Keeps, SimulationIn
<1>16. ASSUME NEW n \in Machines PROVE Unheard(n)'
  <2>1. Unheard(n)
    BY DEF SimulationIn
  <2>2. UNCHANGED <<host, nic>>
    BY DEF Simulate
  <2>3. queue'[ToNic(n)] = queue[ToNic(n)] /\ queue'[FromNic(n)] = queue[FromNic(n)]
    <3>1. ToNic(n) \in Queues /\ FromNic(n) \in Queues
      BY QueuesApart
    <3>2. ToNic(n) # FromNet(at[2]) /\ FromNic(n) # FromNet(at[2])
      BY DEF ToNic, FromNic, FromNet
    <3>3. QED
      BY <1>14, <3>1, <3>2 DEF NetworkDoes
  <2>4. PacketsMeet(QueueTokens(FromNet(n)), log[Nic(n)])
    BY <2>1 DEF Unheard
  <2>5. NetworkDoes(at[2], o, Scripts[s][o][k]) /\ at = Scripts[s][o][k].at
    BY <1>5, <1>14
  <2>6. PacketsMeet(QueueTokens(FromNet(n))', log'[Nic(n)])
    BY <1>3, <1>7, <1>9, <2>4, <2>5, SimulatePackets
  <2>7. QED
    BY <2>1, <2>2, <2>3, <2>6 DEF Unheard
<1>17. \E h : HistoryOf(h, scenario, progress)'
  <2>1. PICK s2, P3 : s2 = scenario' /\ P3 = progress'
    OBVIOUS
  <2>2. HistoryOf(H2, s2, P3)'
    BY <1>1, <1>3, <1>13, <2>1
  <2>3. HistoryOf(H2, scenario, progress)'
    BY <2>1, <2>2 DEF HistoryOf, OnWires
  <2>4. QED
    BY <2>3
<1>18. QED
  BY <1>3, <1>9, <1>11, <1>15, <1>16, <1>17 DEF SimulationIn

(* The logs that the simulation leaves are in step.                        *)
LEMMA SimulationLeaves ==
  ASSUME KindsInv, SimulationIn
  PROVE  InStepInv
<1>1. PICK s, P : s = scenario /\ P = progress
  OBVIOUS
<1>2. s \in DOMAIN Scripts /\ InOrder(s, P) /\ \A a \in DOMAIN Scripts[s] : P[a] \in Nat
  BY <1>1 DEF KindsInv, SimulationInv, SimulationIn, InOrder
<1>3. PICK H : HistoryOf(H, s, P)
  BY <1>1 DEF SimulationIn
<1>4. \A p \in Spanners : History(s, p, P, log[p], H[p])
  BY <1>3 DEF HistoryOf
<1>5. \A p \in Spanners : Ids(p) = {}
  BY DEF SimulationIn, Ids
<1>6. RightInv /\ EventsInv
  BY <1>5 DEF RightInv, SimulationIn
<1>7. LogsInv
  <2>1. DOMAIN log = Spanners /\ \A p \in Spanners : Sequence(log[p])
    BY <1>4 DEF SimulationIn, History
  <2>2. ASSUME NEW m \in Machines, NEW i \in DOMAIN log[Host(m)]
        PROVE  /\ log[Host(m)][i].type = "HostMsiX" => log[Host(m)][i].id = 0
               /\ log[Host(m)][i].type \in HostDmaExecution => log[Host(m)][i].id # 0
    <3>1. PICK x, e : x = H[Host(m)][i] /\ e = log[Host(m)][i]
      OBVIOUS
    <3>2. x \in Occurrences(s, Host(m)) /\ Records(e, s, x)
      BY <1>4, <2>2, <3>1, SourcesApart DEF History
    <3>3. e.type = EventOf(s, x).type /\ e.id = EventOf(s, x).id
      BY <3>2 DEF Records
    <3>4. /\ \A y \in OfType(s, Host(m), {"HostMsiX"}) : EventOf(s, y).id = 0
          /\ \A y \in OfType(s, Host(m), HostDmaExecution) : EventOf(s, y).id # 0
      BY <1>2, InStepAssumption
    <3>5. e.type = "HostMsiX" => x \in OfType(s, Host(m), {"HostMsiX"})
      BY <3>2, <3>3 DEF OfType
    <3>6. e.type \in HostDmaExecution => x \in OfType(s, Host(m), HostDmaExecution)
      BY <3>2, <3>3 DEF OfType
    <3>7. QED
      BY <3>1, <3>3, <3>4, <3>5, <3>6
  <2>3. QED
    BY <2>1, <2>2 DEF LogsInv
<1>8. ASSUME NEW m \in Machines PROVE PeersInv(m)
  <2>1. PICK p, r, L, K, f, g : /\ p = Host(m) /\ r = Nic(m) /\ L = log[p] /\ K = log[r]
                                /\ f = H[p] /\ g = H[r]
    OBVIOUS
  <2>2. p \in Spanners /\ r \in Spanners /\ History(s, p, P, L, f) /\ History(s, r, P, K, g)
    BY <1>4, <2>1, SourcesApart
  <2>3. Unheard(m)
    BY DEF SimulationIn
  <2>4. /\ host[m].call = None /\ host[m].copying = FALSE /\ host[m].pciWrite = FALSE
        /\ host[m].msix = None /\ host[m].dmas = <<>> /\ nic[m].dmas = <<>>
    BY <2>3 DEF Unheard, HostMembers, NicMembers
  <2>5. /\ \E w \in Wires : Carried(s, ToDevice(s, m), OfType(s, r, NicMmioTypes), w)
        /\ \E w \in Wires : Carried(s, OfType(s, r, Told), OfType(s, p, Opens), w)
        /\ UsedInTurn(s, OfType(s, r, {"NicDmaI"}), OfType(s, r, {"NicDmaEx"}))
        /\ UsedInTurn(s, OfType(s, r, {"NicDmaEx"}), OfType(s, r, {"NicDmaCW", "NicDmaCR"}))
        /\ UsedInTurn(s, OfType(s, p, Opens), OfType(s, p, {"HostDmaC"}))
        /\ AccessesApart(s, m)
    BY <1>2, <2>1, InStepAssumption DEF Told, Opens
  <2>6. /\ OnWires(s, ToDevice(s, m), OfType(s, r, NicMmioTypes), P, f, g)
        /\ OnWires(s, OfType(s, r, Told), OfType(s, p, Opens), P, g, f)
    BY <1>3, <2>1 DEF HistoryOf, Told
  <2>7. \A q, types : OfType(s, q, types) \in SUBSET Occurrences(s, q)
    BY DEF OfType
  <2>8. \A q \in {ToNic(m), FromNic(m)} : Sequence(QueueTokens(q)) /\ Len(QueueTokens(q)) = 0
    <3>1. queue[ToNic(m)] = <<>> /\ queue[FromNic(m)] = <<>>
      BY <2>3 DEF Unheard
    <3>2. ToNic(m) \in Queues /\ FromNic(m) \in Queues
      BY QueuesApart
    <3>3. Len(<<>>) = 0
      OBVIOUS
    <3>4. QED
      BY <3>1, <3>2, <3>3, TokensAre
  <2>9. MmioStream(QueueTokens(ToNic(m)), L, FALSE, K)
    <3>1. PICK X, Y, Q : /\ X = ToDevice(s, m) /\ Y = OfType(s, r, NicMmioTypes)
                         /\ Q = QueueTokens(ToNic(m))
      OBVIOUS
    <3>2. PICK w \in Wires : Carried(s, X, Y, w)
      BY <2>5, <3>1
    <3>3. PICK W : W = wire[w] /\ Transit(X, Y, P, W, f, g)
      BY <2>6, <3>1, <3>2 DEF OnWires
    <3>4. X \in SUBSET Occurrences(s, p) /\ Y \in SUBSET Occurrences(s, r)
      BY <2>1, <2>7, <3>1 DEF ToDevice
    <3>5. PICK G, T : G = {i \in DOMAIN L : f[i] \in X} /\ T = {i \in DOMAIN K : g[i] \in Y}
      OBVIOUS
    <3>6. Sequence(Q) /\ Len(Q) = 0
      BY <2>8, <3>1
    <3>7. Stream(Q, L, G, K, T)
      BY ONLY <1>2, <2>2, <3>2, <3>3, <3>4, <3>5, <3>6, LogsInStep
    <3>8. G = Accesses(L, FALSE)
      <4>1. History(s, Host(m), P, L, f)
        BY <2>1, <2>2
      <4>2. s \in DOMAIN Scripts /\ AccessesApart(s, m)
        BY <1>2, <2>5
      <4>3. Accesses(L, FALSE) = DeviceAt(s, m, L, f)
        BY <4>1, <4>2, AccessesAre
      <4>4. QED
        BY <3>1, <3>5, <4>3 DEF DeviceAt
    <3>9. T = Where(K, NicMmioTypes)
      BY <2>2, <3>1, <3>5, WhereIs
    <3>10. QED
      BY <3>1, <3>7, <3>8, <3>9 DEF MmioStream
  <2>10. DmaStream(QueueTokens(FromNic(m)), K, L)
    <3>1. PICK X, Y, Q : /\ X = OfType(s, r, Told) /\ Y = OfType(s, p, Opens)
                         /\ Q = QueueTokens(FromNic(m))
      OBVIOUS
    <3>2. PICK w \in Wires : Carried(s, X, Y, w)
      BY <2>5, <3>1
    <3>3. PICK W : W = wire[w] /\ Transit(X, Y, P, W, g, f)
      BY <2>6, <3>1, <3>2 DEF OnWires
    <3>4. X \in SUBSET Occurrences(s, r) /\ Y \in SUBSET Occurrences(s, p)
      BY <2>7, <3>1
    <3>5. PICK G, T : G = {i \in DOMAIN K : g[i] \in X} /\ T = {i \in DOMAIN L : f[i] \in Y}
      OBVIOUS
    <3>6. Sequence(Q) /\ Len(Q) = 0
      BY <2>8, <3>1
    <3>7. Stream(Q, K, G, L, T)
      BY ONLY <1>2, <2>2, <3>2, <3>3, <3>4, <3>5, <3>6, LogsInStep
    <3>8. G = Where(K, Told)
      BY <2>2, <3>1, <3>5, WhereIs
    <3>9. T = Where(L, Opens)
      BY <2>2, <3>1, <3>5, WhereIs
    <3>10. QED
      BY <3>1, <3>7, <3>8, <3>9 DEF DmaStream
  <2>11. RxStream(QueueTokens(FromNet(m)), K)
    BY <2>1, <2>3 DEF Unheard, PacketsMeet
  <2>12. ChannelsInv(m)
    BY <2>1, <2>4, <2>9, <2>10, <2>11 DEF ChannelsInv
  <2>13. HostOpen(m) = {} /\ NicOpen(m) = {} /\ NicIssued(m) = {} /\ NicExecuted(m) = {}
    BY <2>4 DEF HostOpen, NicOpen, NicIssued, NicExecuted
  <2>14. PICK F1, F2, F3 : /\ F1 = UsesOf(HostOpen(m)) /\ F2 = UsesOf(NicIssued(m))
                           /\ F3 = UsesOf(NicExecuted(m))
    OBVIOUS
  <2>15. DOMAIN F1 = {} /\ DOMAIN F2 = {} /\ DOMAIN F3 = {}
    BY <2>13, <2>14 DEF UsesOf
  <2>16. InTurn(F1, L, Opens, {"HostDmaC"})
    BY <1>2, <2>2, <2>5, <2>15, LogInTurn
  <2>17. InTurn(F2, K, {"NicDmaI"}, {"NicDmaEx"})
    BY <1>2, <2>2, <2>5, <2>15, LogInTurn
  <2>18. InTurn(F3, K, {"NicDmaEx"}, {"NicDmaCW", "NicDmaCR"})
    BY <1>2, <2>2, <2>5, <2>15, LogInTurn
  <2>19. HostHalf(m)
    <3>1. CallInv(m)
      BY <2>4 DEF CallInv
    <3>2. \A i \in DOMAIN host[m].dmas :
            OpenedBy(host[m].dmas[i], HostDmaExecution) /\ FirstEvent(host[m].dmas[i]).id # 0
      BY <2>4
    <3>3. InTurn(UsesOf(HostOpen(m)), log[Host(m)], Opens, {"HostDmaC"})
      BY <2>1, <2>14, <2>16
    <3>4. QED
      BY <2>4, <3>1, <3>2, <3>3 DEF HostHalf
  <2>20. NicHalf(m)
    BY <2>1, <2>13, <2>14, <2>17, <2>18 DEF NicHalf
  <2>21. QED
    BY <2>12, <2>19, <2>20 DEF PeersInv
<1>9. QED
  BY <1>6, <1>7, <1>8 DEF InStepInv

(* The simulation begins with nothing logged.                              *)
LEMMA SimulationBegins == Init => SimulationIn
<1> SUFFICES ASSUME Init PROVE SimulationIn
  OBVIOUS
<1>1. KindsInv
  BY KindsInit
<1>2. PICK s, P : s = scenario /\ P = progress
  OBVIOUS
<1>3. /\ s \in DOMAIN Scripts /\ P = [a \in DOMAIN Scripts[s] |-> 0]
      /\ DOMAIN log = Spanners /\ \A p \in Spanners : log[p] = <<>>
      /\ DOMAIN wire = Wires /\ \A w \in Wires : wire[w] = <<>>
      /\ \A p \in Sources : spans[p] = <<>>
      /\ \A q \in Queues : queue[q] = <<>>
      /\ \A m \in Machines : host[m] = HostMembers /\ nic[m] = NicMembers
  BY <1>2 DEF Init, InitSpanner, InitHost, InitNic, Operations, Script
<1>4. PICK z : z = <<>> /\ Sequence(z) /\ DOMAIN z = {}
  <2>1. <<>> \in Seq({}) /\ DOMAIN <<>> = {}
    OBVIOUS
  <2>2. Sequence(<<>>)
    BY <2>1 DEF Sequence
  <2>3. QED
    BY <2>1, <2>2
<1>5. InOrder(s, P)
  <2> SUFFICES ASSUME NEW a \in DOMAIN Scripts[s]
               PROVE  /\ P[a] \in Nat /\ P[a] <= Len(Scripts[s][a])
                      /\ \A j \in 1 .. P[a] : \A d \in Scripts[s][a][j].after : d[2] <= P[d[1]]
    BY DEF InOrder
  <2>1. P[a] = 0 /\ Len(Scripts[s][a]) \in Nat
    BY <1>3, ScriptsAssumption
  <2>2. 1 .. P[a] = {}
    BY <2>1
  <2>3. QED
    BY <2>1, <2>2
<1>6. \A p \in Spanners : \A x \in Occurrences(s, p) : ~(x[2] <= P[x[1]])
  <2> SUFFICES ASSUME NEW p \in Spanners, NEW x \in Occurrences(s, p), x[2] <= P[x[1]] PROVE FALSE
    OBVIOUS
  <2>1. x[1] \in DOMAIN Scripts[s] /\ Len(Scripts[s][x[1]]) \in Nat /\ x[2] \in 1 .. Len(Scripts[s][x[1]])
    BY <1>3, Occurs
  <2>2. P[x[1]] = 0
    BY <1>3, <2>1
  <2>3. QED
    BY <2>1, <2>2
<1>7. PICK H : H = [p \in Spanners |-> z]
  OBVIOUS
<1>8. \A p \in Spanners : History(s, p, P, log[p], H[p])
  BY <1>3, <1>4, <1>6, <1>7 DEF History
<1>9. ASSUME NEW p \in Spanners, NEW r \in Spanners,
             NEW X \in SUBSET Occurrences(s, p), NEW Y \in SUBSET Occurrences(s, r)
      PROVE  OnWires(s, X, Y, P, H[p], H[r])
  <2>1. H[p] = z /\ H[r] = z /\ \A w \in Wires : wire[w] = z
    BY <1>3, <1>4, <1>7
  <2>2. \A x \in X : ~(x[2] <= P[x[1]])
    BY <1>6
  <2>3. Transit(X, Y, P, z, z, z)
    BY <1>4, <2>2 DEF Transit
  <2>4. QED
    BY <2>1, <2>3 DEF OnWires
<1>10. HistoryOf(H, s, P)
  <2>1. ASSUME NEW m \in Machines
        PROVE  /\ OnWires(s, ToDevice(s, m), OfType(s, Nic(m), NicMmioTypes), P, H[Host(m)], H[Nic(m)])
               /\ OnWires(s, OfType(s, Nic(m), {"NicDmaEx", "NicMsix"}), OfType(s, Host(m), Opens), P,
                          H[Nic(m)], H[Host(m)])
    <3>1. Host(m) \in Spanners /\ Nic(m) \in Spanners
      BY SourcesApart
    <3>2. \A p, types : OfType(s, p, types) \in SUBSET Occurrences(s, p)
      BY DEF OfType
    <3>3. ToDevice(s, m) \in SUBSET Occurrences(s, Host(m))
      BY <3>2 DEF ToDevice
    <3>4. OnWires(s, ToDevice(s, m), OfType(s, Nic(m), NicMmioTypes), P, H[Host(m)], H[Nic(m)])
      BY <1>9, <3>1, <3>2, <3>3
    <3>5. OnWires(s, OfType(s, Nic(m), {"NicDmaEx", "NicMsix"}), OfType(s, Host(m), Opens), P,
                  H[Nic(m)], H[Host(m)])
      BY <1>9, <3>1, <3>2
    <3>6. QED
      BY <3>4, <3>5
  <2>2. QED
    BY <1>8, <2>1 DEF HistoryOf
<1>11. EventsInv
  BY <1>3 DEF EventsInv, Ids
<1>12. ASSUME NEW m \in Machines PROVE Unheard(m)
  <2>1. {ToNic(m), FromNic(m), FromNet(m)} \subseteq Queues
    BY QueuesApart
  <2>2. PICK Q : Q = QueueTokens(FromNet(m))
    OBVIOUS
  <2>3. queue[FromNet(m)] = z
    BY <1>3, <1>4, <2>1
  <2>4. Sequence(Q) /\ Len(Q) = Len(z) /\ DOMAIN Q = {}
    BY <1>1, <1>4, <2>1, <2>2, <2>3, TokensAre
  <2>5. Len(Q) = 0
    BY <1>4, <2>4
  <2>6. RxStream(Q, z)
    <3>1. PICK S, R, T, D : /\ D = {} /\ T = Where(z, {"NicRx"})
                            /\ S = Sent(Q, z, D) /\ R = Due(z, T)
      OBVIOUS
    <3>2. T = {} /\ DOMAIN R = {}
      BY <1>4, <3>1 DEF Where, Due
    <3>3. (1 .. 0) \cup {0 + i : i \in D} = {}
      BY <3>1
    <3>4. S = [t \in (1 .. 0) \cup {0 + i : i \in D} |-> IF t <= 0 THEN Q[t] ELSE Token(z[t - 0])]
      BY <2>5, <3>1 DEF Sent
    <3>5. DOMAIN S = {}
      BY <3>3, <3>4
    <3>6. InStep(S, R)
      BY <3>2, <3>5 DEF InStep
    <3>7. QED
      BY <1>4, <3>1, <3>6 DEF RxStream, Stream
  <2>7. PacketsMeet(Q, z)
    BY <2>4, <2>6 DEF PacketsMeet
  <2>8. log[Nic(m)] = z
    BY <1>3, <1>4, SourcesApart
  <2>9. QED
    BY <1>3, <2>1, <2>2, <2>7, <2>8 DEF Unheard
<1>13. \A p \in Spanners : spans[p] = <<>>
  BY <1>3 DEF Sources
<1>14. \A w \in Wires : Sequence(wire[w])
  BY <1>3, <1>4
<1>15. QED
  BY <1>2, <1>3, <1>5, <1>10, <1>11, <1>12, <1>13, <1>14 DEF SimulationIn

--------------------------------------------------------------------------------
(* So host and card are in step as long as they are traced.                *)
ParentInv ==
  /\ KindsInv /\ cut = TRUE
  /\ ~tracing => SimulationIn
  /\ tracing => InStepInv

(* Nothing that the invariant speaks of happens.                           *)
LEMMA InStepUnchanged ==
  ASSUME KindsInv, InStepInv, UNCHANGED <<log, spans, queue, host, nic>>
  PROVE  InStepInv'
<1>1. ASSUME NEW m \in Machines PROVE InStepInv'
  BY InStepStays
<1>2. CASE Machines = {}
  <2>1. Spanners = {} /\ Sources = {}
    BY <1>2 DEF Spanners, Sources
  <2>2. LogsInv'
    BY <1>2, <2>1 DEF InStepInv, LogsInv
  <2>3. EventsInv' /\ RightInv'
    BY <2>1 DEF EventsInv, RightInv
  <2>4. QED
    BY <1>2, <2>2, <2>3 DEF InStepInv
<1>3. QED
  BY <1>1, <1>2

(* Nor that of the simulation.                                             *)
LEMMA SimulationStays ==
  ASSUME SimulationIn, UNCHANGED vars
  PROVE  SimulationIn'
<1>1. UNCHANGED <<log, spans, queue, host, nic, scenario, progress, wire>>
  BY DEF vars, simulation
<1>2. \A m \in Machines : Unheard(m)' <=> Unheard(m)
  BY <1>1 DEF Unheard, QueueTokens, FirstEvent, SpanOf
<1>3. EventsInv'
  BY <1>1, SameKeeps DEF Keeps, SimulationIn
<1>4. ASSUME NEW H, HistoryOf(H, scenario, progress) PROVE HistoryOf(H, scenario, progress)'
  BY <1>1, <1>4 DEF HistoryOf, OnWires
<1>5. QED
  BY <1>1, <1>2, <1>3, <1>4 DEF SimulationIn

(* Every step keeps the invariant.                                         *)
LEMMA ParentNext ==
  ASSUME ParentInv, [Next]_vars
  PROVE  ParentInv'
<1>1. KindsInv'
  BY KindsNext DEF ParentInv
<1>2. KindsInv /\ cut = TRUE /\ (~tracing => SimulationIn) /\ (tracing => InStepInv)
  BY DEF ParentInv
<1>3. ASSUME NEW o \in Operations, Simulate(o)
      PROVE  cut' = TRUE /\ ~tracing' /\ SimulationIn'
  <2>1. ~tracing /\ cut' = cut /\ tracing' = tracing
    BY <1>3 DEF Simulate
  <2>2. SimulationIn'
    BY <1>2, <1>3, <2>1, SimulationGoesOn
  <2>3. QED
    BY <1>2, <2>1, <2>2
<1>4. ~BeginLogs
  BY <1>2 DEF BeginLogs
<1>5. ASSUME EndLogs PROVE cut' = TRUE /\ tracing' = TRUE /\ InStepInv'
  <2>1. ~tracing /\ UNCHANGED <<log, spans, queue, host, nic>> /\ cut' = cut /\ tracing' = TRUE
    BY <1>5 DEF EndLogs
  <2>2. InStepInv'
    BY <1>2, <2>1, SimulationLeaves, InStepUnchanged
  <2>3. QED
    BY <1>2, <2>1, <2>2
<1>6. ASSUME NEW m \in Machines, TraceHost(m) \/ TraceNic(m)
      PROVE  cut' = cut /\ tracing /\ tracing' = tracing /\ InStepInv'
  <2>1. tracing /\ cut' = cut /\ tracing' = tracing
    BY <1>6 DEF TraceHost, TraceNic, simulation
  <2>2. CASE TraceHost(m)
    BY <1>2, <2>1, <2>2, TraceHostInStep
  <2>3. CASE TraceNic(m)
    BY <1>2, <2>1, <2>3, TraceNicInStep
  <2>4. QED
    BY <1>6, <2>1, <2>2, <2>3
<1>7. ASSUME UNCHANGED vars
      PROVE  cut' = cut /\ tracing' = tracing /\ (~tracing => SimulationIn') /\ (tracing => InStepInv')
  <2>1. cut' = cut /\ tracing' = tracing /\ UNCHANGED <<log, spans, queue, host, nic>>
    BY <1>7 DEF vars, simulation
  <2>2. ASSUME ~tracing PROVE SimulationIn'
    BY <1>2, <1>7, <2>2, SimulationStays
  <2>3. ASSUME tracing PROVE InStepInv'
    BY <1>2, <2>1, <2>3, InStepUnchanged
  <2>4. QED
    BY <2>1, <2>2, <2>3
<1>8. CASE \E o \in Operations : Simulate(o)
  BY <1>1, <1>3, <1>8 DEF ParentInv
<1>9. CASE EndLogs
  BY <1>1, <1>5, <1>9 DEF ParentInv
<1>10. CASE \E m \in Machines : TraceHost(m) \/ TraceNic(m)
  <2>1. PICK m \in Machines : TraceHost(m) \/ TraceNic(m)
    BY <1>10
  <2>2. cut' = cut /\ tracing /\ tracing' = tracing /\ InStepInv'
    BY <1>6, <2>1
  <2>3. QED
    BY <1>1, <1>2, <2>2 DEF ParentInv
<1>11. CASE UNCHANGED vars
  BY <1>1, <1>2, <1>7, <1>11 DEF ParentInv
<1>12. QED
  BY <1>4, <1>8, <1>9, <1>10, <1>11 DEF Next

(* And what it says of parents.                                            *)
LEMMA ParentsAreRight == ParentInv => RightParent
<1> SUFFICES ASSUME ParentInv, NEW id \in AllIds, Crosses(SpanOf(id))
             PROVE  /\ SpanOf(id).parent[1] # id[1]
                    /\ SpanOf(id).events[1].op = SpanOf(SpanOf(id).parent).events[1].op
  BY DEF RightParent, Crosses
<1>1. PICK p \in Spanners : id \in Ids(p)
  BY DEF AllIds
<1>2. tracing
  <2> SUFFICES ASSUME ~tracing PROVE FALSE
    OBVIOUS
  <2>1. spans[p] = <<>>
    BY DEF ParentInv, SimulationIn
  <2>2. QED
    BY <1>1, <2>1 DEF Ids
<1>3. Right(id)
  BY <1>1, <1>2 DEF ParentInv, InStepInv, RightInv
<1>4. PICK q \in Sources : /\ q # id[1] /\ SpanOf(id).parent \in Ids(q)
                           /\ FirstEvent(id).op = FirstEvent(SpanOf(id).parent).op
  BY <1>3 DEF Right
<1>5. SpanOf(id).parent[1] = q
  BY <1>4 DEF Ids
<1>6. QED
  BY <1>4, <1>5 DEF FirstEvent

(* RightParent: of the spans that host and card have of one operation, the *)
(* one that began later has the other one as its parent, wherever the logs *)
(* of the simulation end and however the two spanners interleave.  They    *)
(* are read from their beginning.                                          *)
THEOREM RightParentAlways == ASSUME ~Window PROVE Spec => []RightParent
<1>1. Init => ParentInv
  <2> SUFFICES ASSUME Init PROVE ParentInv
    OBVIOUS
  <2>1. KindsInv
    BY KindsInit
  <2>2. cut = TRUE /\ ~tracing
    BY DEF Init
  <2>3. SimulationIn
    BY SimulationBegins
  <2>4. QED
    BY <2>1, <2>2, <2>3 DEF ParentInv
<1>2. ParentInv /\ [Next]_vars => ParentInv'
  BY ParentNext
<1>3. QED
  BY <1>1, <1>2, ParentsAreRight, PTL DEF Spec

--------------------------------------------------------------------------------
(* What is begun and still to be ended: in the log L behind the event x,   *)
(* what ends x first is of its operation, and no other one like x is begun *)
(* before that.  A posted write is answered at once.                       *)
Behind(x, L) ==
  \A j \in DOMAIN L :
    \/ ~EndsWith(x, L[j]) /\ ~Alike(x, L[j])
    \/ EndsWith(x, L[j]) /\ x.op = L[j].op
    \/ \E k \in DOMAIN L : k < j /\ EndsWith(x, L[k])
Answered(x, L) ==
  IsPosted(x) => 1 \in DOMAIN L /\ L[1].type = "HostMmioImRespPoW" /\ L[1].op = x.op

EndsInLog(L) ==
  /\ \A i, j \in DOMAIN L : i < j =>
       \/ ~EndsWith(L[i], L[j]) /\ ~Alike(L[i], L[j])
       \/ EndsWith(L[i], L[j]) /\ L[i].op = L[j].op
       \/ \E k \in DOMAIN L : i < k /\ k < j /\ EndsWith(L[i], L[k])
  /\ \A i \in DOMAIN L : IsPosted(L[i]) =>
       i + 1 \in DOMAIN L /\ L[i + 1].type = "HostMmioImRespPoW" /\ L[i + 1].op = L[i].op

(* So it is when the first event of a log is taken.                        *)
LEMMA EndsBehind ==
  ASSUME NEW L, NEW L2, EndsInLog(L), Taken(L2, L)
  PROVE  EndsInLog(L2) /\ Behind(L[1], L2) /\ Answered(L[1], L2)
<1>1. /\ 1 \in DOMAIN L /\ DOMAIN L \subseteq Nat /\ \A i \in DOMAIN L : i > 0
      /\ \A i \in DOMAIN L2 : i + 1 \in DOMAIN L /\ L2[i] = L[i + 1]
      /\ \A i \in DOMAIN L : i # 1 => i - 1 \in DOMAIN L2 /\ L2[i - 1] = L[i]
  BY TakenPositions
<1>2. DOMAIN L2 \subseteq Nat /\ \A i \in DOMAIN L2 : i > 0
  BY DEF Taken
<1>3. ASSUME NEW i \in DOMAIN L, NEW j \in DOMAIN L2, i < j + 1
      PROVE  \/ ~EndsWith(L[i], L2[j]) /\ ~Alike(L[i], L2[j])
             \/ EndsWith(L[i], L2[j]) /\ L[i].op = L2[j].op
             \/ \E k \in DOMAIN L2 : i < k + 1 /\ k < j /\ EndsWith(L[i], L2[k])
  <2>1. PICK n : n = j + 1 /\ n \in DOMAIN L /\ L2[j] = L[n] /\ i < n
    BY <1>1, <1>3
  <2>2. CASE \E k \in DOMAIN L : i < k /\ k < n /\ EndsWith(L[i], L[k])
    <3>1. PICK k \in DOMAIN L : i < k /\ k < n /\ EndsWith(L[i], L[k])
      BY <2>2
    <3>2. k # 1 /\ k \in Nat /\ i \in Nat /\ j \in Nat /\ i > 0
      BY <1>1, <1>2, <3>1
    <3>3. k - 1 \in DOMAIN L2 /\ L2[k - 1] = L[k] /\ i < (k - 1) + 1 /\ k - 1 < j
      BY <1>1, <2>1, <3>1, <3>2
    <3>4. QED
      BY <3>1, <3>3
  <2>3. CASE ~\E k \in DOMAIN L : i < k /\ k < n /\ EndsWith(L[i], L[k])
    BY <2>1, <2>3 DEF EndsInLog
  <2>4. QED
    BY <2>2, <2>3
<1>4. \A i \in DOMAIN L : IsPosted(L[i]) =>
        i \in DOMAIN L2 /\ L2[i].type = "HostMmioImRespPoW" /\ L2[i].op = L[i].op
  <2> SUFFICES ASSUME NEW i \in DOMAIN L, IsPosted(L[i])
               PROVE  i \in DOMAIN L2 /\ L2[i].type = "HostMmioImRespPoW" /\ L2[i].op = L[i].op
    OBVIOUS
  <2>1. i + 1 \in DOMAIN L /\ L[i + 1].type = "HostMmioImRespPoW" /\ L[i + 1].op = L[i].op
    BY DEF EndsInLog
  <2>2. i \in Nat /\ i + 1 # 1 /\ (i + 1) - 1 = i
    BY <1>1
  <2>3. i \in DOMAIN L2 /\ L2[i] = L[i + 1]
    BY <1>1, <2>1, <2>2
  <2>4. QED
    BY <2>1, <2>3
<1>5. EndsInLog(L2)
  <2>1. ASSUME NEW i \in DOMAIN L2, NEW j \in DOMAIN L2, i < j
        PROVE  \/ ~EndsWith(L2[i], L2[j]) /\ ~Alike(L2[i], L2[j])
               \/ EndsWith(L2[i], L2[j]) /\ L2[i].op = L2[j].op
               \/ \E k \in DOMAIN L2 : i < k /\ k < j /\ EndsWith(L2[i], L2[k])
    <3>1. PICK n : n = i + 1 /\ n \in DOMAIN L /\ L2[i] = L[n] /\ n < j + 1
      BY <1>1, <1>2, <2>1
    <3>2. \A k \in DOMAIN L2 : n < k + 1 => i < k
      BY <1>2, <3>1
    <3>3. QED
      BY <1>3, <3>1, <3>2
  <2>2. \A i \in DOMAIN L2 : IsPosted(L2[i]) =>
          i + 1 \in DOMAIN L2 /\ L2[i + 1].type = "HostMmioImRespPoW" /\ L2[i + 1].op = L2[i].op
    <3> SUFFICES ASSUME NEW i \in DOMAIN L2, IsPosted(L2[i])
                 PROVE  i + 1 \in DOMAIN L2 /\ L2[i + 1].type = "HostMmioImRespPoW"
                        /\ L2[i + 1].op = L2[i].op
      OBVIOUS
    <3>1. i + 1 \in DOMAIN L /\ L2[i] = L[i + 1]
      BY <1>1
    <3>2. QED
      BY <1>4, <3>1
  <2>3. QED
    BY <2>1, <2>2 DEF EndsInLog
<1>6. Behind(L[1], L2)
  <2>1. \A j \in DOMAIN L2 : 1 < j + 1
    BY <1>2
  <2>2. QED
    BY <1>1, <1>3, <2>1 DEF Behind
<1>7. Answered(L[1], L2)
  BY <1>1, <1>4 DEF Answered
<1>8. QED
  BY <1>5, <1>6, <1>7

(* An event that does not end x.                                           *)
LEMMA BehindStays ==
  ASSUME NEW x, NEW L, NEW L2, Behind(x, L), Taken(L2, L), ~EndsWith(x, L[1])
  PROVE  Behind(x, L2)
<1>1. /\ 1 \in DOMAIN L /\ DOMAIN L \subseteq Nat
      /\ \A i \in DOMAIN L2 : i + 1 \in DOMAIN L /\ L2[i] = L[i + 1]
      /\ \A i \in DOMAIN L : i # 1 => i - 1 \in DOMAIN L2 /\ L2[i - 1] = L[i]
  BY TakenPositions
<1>2. DOMAIN L2 \subseteq Nat
  BY DEF Taken
<1> SUFFICES ASSUME NEW j \in DOMAIN L2
             PROVE  \/ ~EndsWith(x, L2[j]) /\ ~Alike(x, L2[j])
                    \/ EndsWith(x, L2[j]) /\ x.op = L2[j].op
                    \/ \E k \in DOMAIN L2 : k < j /\ EndsWith(x, L2[k])
  BY DEF Behind
<1>3. PICK n : n = j + 1 /\ n \in DOMAIN L /\ L2[j] = L[n]
  BY <1>1
<1>4. CASE \E k \in DOMAIN L : k < n /\ EndsWith(x, L[k])
  <2>1. PICK k \in DOMAIN L : k < n /\ EndsWith(x, L[k])
    BY <1>4
  <2>2. k # 1 /\ k \in Nat /\ j \in Nat
    BY <1>1, <1>2, <2>1
  <2>3. k - 1 \in DOMAIN L2 /\ L2[k - 1] = L[k] /\ k - 1 < j
    BY <1>1, <1>3, <2>1, <2>2
  <2>4. QED
    BY <2>1, <2>3
<1>5. CASE ~\E k \in DOMAIN L : k < n /\ EndsWith(x, L[k])
  BY <1>3, <1>5 DEF Behind
<1>6. QED
  BY <1>4, <1>5

(* The first event of a log ends what its operation began, and begins      *)
(* nothing like what was begun.                                            *)
LEMMA EndsOwn ==
  ASSUME NEW x, NEW L, NEW L2, Behind(x, L), Taken(L2, L)
  PROVE  (EndsWith(x, L[1]) => x.op = L[1].op) /\ ~Alike(x, L[1])
<1>1. 1 \in DOMAIN L /\ \A i \in DOMAIN L : ~(i < 1)
  BY TakenPositions DEF Taken
<1>2. ~(EndsWith(x, L[1]) /\ Alike(x, L[1]))
  BY DEF EndsWith, Alike, Waits, HostMmioIssue
<1>3. QED
  BY <1>1, <1>2 DEF Behind

(* A log that scripts end what they begin in.                              *)
LEMMA LogEnds ==
  ASSUME NEW s \in DOMAIN Scripts, NEW p \in Spanners, NEW P, NEW L, NEW h,
         History(s, p, P, L, h), EndsOfItsOwn(s, Occurrences(s, p))
  PROVE  EndsInLog(L)
<1>1. PICK X : X = Occurrences(s, p)
  OBVIOUS
<1>2. DOMAIN L \subseteq Nat /\ DOMAIN h = DOMAIN L
  BY DEF History, Sequence
<1>3. \A i \in DOMAIN L : h[i] \in X /\ Records(L[i], s, h[i])
  BY <1>1 DEF History
<1>4. \A i, j \in DOMAIN L :
        /\ EndsWith(L[i], L[j]) <=> EndsWith(EventOf(s, h[i]), EventOf(s, h[j]))
        /\ Alike(L[i], L[j]) <=> Alike(EventOf(s, h[i]), EventOf(s, h[j]))
        /\ IsPosted(L[i]) <=> IsPosted(EventOf(s, h[i]))
        /\ L[i].op = h[i][1]
  BY <1>3 DEF Records, EndsWith, Alike, IsPosted, Waits
<1>5. ASSUME NEW i \in DOMAIN L, NEW j \in DOMAIN L, Earlier(s, h[i], h[j]) PROVE i < j
  <2>1. PICK k \in DOMAIN L : k < j /\ h[k] = h[i]
    BY <1>1, <1>3, <1>5 DEF History
  <2>2. k = i
    BY <2>1 DEF History
  <2>3. QED
    BY <2>1, <2>2
<1>6. ASSUME NEW i \in DOMAIN L, NEW j \in DOMAIN L, Ended(s, X, h[i], h[j])
      PROVE  \E k \in DOMAIN L : i < k /\ k < j /\ EndsWith(L[i], L[k])
  <2>1. PICK z \in X : /\ EndsWith(EventOf(s, h[i]), EventOf(s, z))
                       /\ Earlier(s, h[i], z) /\ Earlier(s, z, h[j])
    BY <1>6 DEF Ended
  <2>2. PICK k \in DOMAIN L : k < j /\ h[k] = z
    BY <1>1, <2>1 DEF History
  <2>3. i < k
    BY <1>5, <2>1, <2>2
  <2>4. EndsWith(L[i], L[k])
    BY <1>4, <2>1, <2>2
  <2>5. QED
    BY <2>2, <2>3, <2>4
<1>7. ASSUME NEW i \in DOMAIN L, NEW j \in DOMAIN L, i < j
      PROVE  \/ ~EndsWith(L[i], L[j]) /\ ~Alike(L[i], L[j])
             \/ EndsWith(L[i], L[j]) /\ L[i].op = L[j].op
             \/ \E k \in DOMAIN L : i < k /\ k < j /\ EndsWith(L[i], L[k])
  <2>1. i # j /\ ~(j < i)
    BY <1>2, <1>7
  <2>2. ~Earlier(s, h[j], h[i]) /\ h[i] # h[j]
    BY <1>5, <2>1 DEF History
  <2>3. PICK x, y : x = h[i] /\ y = h[j] /\ x \in X /\ y \in X
    BY <1>3
  <2>4. CASE EndsWith(L[i], L[j]) /\ L[i].op # L[j].op
    <3>1. EndsWith(EventOf(s, x), EventOf(s, y)) /\ x[1] # y[1] /\ ~Earlier(s, y, x)
      BY <1>4, <2>2, <2>3, <2>4
    <3>2. Ended(s, X, x, y)
      BY <1>1, <2>3, <3>1 DEF EndsOfItsOwn
    <3>3. QED
      BY <1>6, <2>3, <3>2
  <2>5. CASE Alike(L[i], L[j])
    <3>1. Alike(EventOf(s, x), EventOf(s, y)) /\ x # y
      BY <1>4, <2>2, <2>3, <2>5
    <3>2. Ended(s, X, x, y) \/ Ended(s, X, y, x)
      BY <1>1, <2>3, <3>1 DEF EndsOfItsOwn
    <3>3. ~Ended(s, X, y, x)
      <4>1. SUFFICES ASSUME NEW k \in DOMAIN L, j < k, k < i PROVE FALSE
        BY <1>6, <2>3
      <4>2. QED
        BY <1>2, <1>7, <4>1
    <3>4. QED
      BY <1>6, <2>3, <3>2, <3>3
  <2>6. QED
    BY <2>4, <2>5
<1>8. ASSUME NEW i \in DOMAIN L, IsPosted(L[i])
      PROVE  i + 1 \in DOMAIN L /\ L[i + 1].type = "HostMmioImRespPoW" /\ L[i + 1].op = L[i].op
  <2>1. PICK x : x = h[i] /\ x \in X
    BY <1>3
  <2>2. /\ x[3] + 1 \in DOMAIN StepOf(s, x).log
        /\ StepOf(s, x).log[x[3] + 1].type = "HostMmioImRespPoW"
    BY <1>1, <1>4, <1>8, <2>1 DEF EndsOfItsOwn
  <2>3. PICK n, y : n = x[3] + 1 /\ y = <<x[1], x[2], n>>
    OBVIOUS
  <2>4. \E j \in DOMAIN L : j - i = n - x[3] /\ h[j] = y
    <3>1. \A j \in DOMAIN L : \A k \in DOMAIN StepOf(s, h[j]).log :
            \E l \in DOMAIN L : l - j = k - h[j][3] /\ h[l] = <<h[j][1], h[j][2], k>>
      BY DEF History
    <3>2. n \in DOMAIN StepOf(s, h[i]).log
      BY <2>1, <2>2, <2>3
    <3>3. \E l \in DOMAIN L : l - i = n - h[i][3] /\ h[l] = <<h[i][1], h[i][2], n>>
      BY ONLY <3>1, <3>2, <1>8
    <3>4. QED
      BY <2>1, <2>3, <3>3
  <2>5. PICK j \in DOMAIN L : j - i = n - x[3] /\ h[j] = y
    BY <2>4
  <2>6. x[3] \in Nat
    BY <1>1, <2>1, Occurs
  <2>7. j = i + 1
    BY <1>2, <2>3, <2>5, <2>6
  <2>8. y[1] = x[1] /\ EventOf(s, y).type = "HostMmioImRespPoW"
    BY <1>1, <2>1, <2>2, <2>3, OccursToo
  <2>9. L[j].type = EventOf(s, y).type /\ L[j].op = y[1]
    BY <1>3, <2>5 DEF Records
  <2>10. L[i].op = x[1]
    BY <1>4, <2>1
  <2>11. QED
    BY <2>7, <2>8, <2>9, <2>10
<1>9. QED
  BY <1>7, <1>8 DEF EndsInLog

--------------------------------------------------------------------------------
(* What host m began and is still to be ended, in order with its log.      *)
Begun(m) ==
  ({host[m].pci, host[m].int} \ {None})
    \cup {id \in Listing(host[m].mmios) : SpanOf(id).pending}
BegunBy(id) ==
  LET sp == SpanOf(id)
  IN /\ sp.pending /\ sp.events = <<sp.events[1]>>
     /\ \/ sp.kind = "HostPci" /\ sp.events[1].type = "HostPciRW"
        \/ sp.kind = "HostInt" /\ sp.events[1].type = "HostPostInt"
        \/ sp.kind = "HostMmio" /\ sp.events[1].type \in HostMmioIssue
BegunInv(m) ==
  /\ EndsInLog(log[Host(m)])
  /\ \A id \in Begun(m) : /\ BegunBy(id)
                          /\ Behind(FirstEvent(id), log[Host(m)])
                          /\ Answered(FirstEvent(id), log[Host(m)])
  /\ \A x, y \in Begun(m) :
       \/ Alike(FirstEvent(x), FirstEvent(y))
       \/ IsPosted(FirstEvent(x)) /\ IsPosted(FirstEvent(y))
       => x = y

(* A span is made of the events of one operation.                          *)
Whole(id) ==
  SpanOf(id).kind # "HostCall" =>
    \A i \in DOMAIN SpanOf(id).events : SpanOf(id).events[i].op = FirstEvent(id).op
WholeInv == \A p \in Spanners : \A id \in Ids(p) : Whole(id)

OperationsInv == WholeInv /\ \A m \in Machines : BegunInv(m)

(* What host m began are spans of these kinds.                             *)
Accessed == {"HostMmio", "HostPci", "HostInt"}

(* And where they are.                                                     *)
LEMMA BegunAre ==
  ASSUME KindsInv, NEW m \in Machines
  PROVE  /\ \A id \in Begun(m) : id \in OfKind(Host(m), Accessed) /\ id # None
         /\ \A id \in Listing(host[m].mmios) :
              id \in OfKind(Host(m), {"HostMmio"}) /\ id \in OfKind(Host(m), Accessed)
         /\ host[m].pci # None => host[m].pci \in Begun(m)
         /\ host[m].int # None => host[m].int \in Begun(m)
         /\ \A id \in Listing(host[m].mmios) : SpanOf(id).pending => id \in Begun(m)
<1>1. AllOf(host[m].mmios, Host(m), "HostMmio")
  BY HostMembersAre DEF HostNames
<1>2. \A id \in Listing(host[m].mmios) :
        id \in OfKind(Host(m), {"HostMmio"}) /\ id \in OfKind(Host(m), Accessed)
  BY <1>1 DEF AllOf, OfKind, Listing, Accessed
<1>3. /\ host[m].pci # None => host[m].pci \in OfKind(Host(m), Accessed)
      /\ host[m].int # None => host[m].int \in OfKind(Host(m), Accessed)
  BY HostMembersAre DEF OfKind, Accessed
<1>4. \A id \in OfKind(Host(m), Accessed) : id # None
  <2> SUFFICES ASSUME NEW id \in OfKind(Host(m), Accessed) PROVE id # None
    OBVIOUS
  <2>1. id \in Ids(Host(m)) /\ Host(m) \in Sources /\ Host(m) \in Spanners
    BY SourcesApart DEF OfKind
  <2>2. id = <<Host(m), id[2]>> /\ id[2] \in Nat
    BY <2>1, SpansAre DEF KindsInv
  <2>3. QED
    BY <2>1, <2>2, MachineAssumption
<1>5. QED
  BY <1>2, <1>3, <1>4 DEF Begun

(* Spans stay of one operation unless they take an event of another one.   *)
LEMMA WholeStays ==
  ASSUME WholeInv, NEW X, Keeps(X),
         \A p \in Spanners : \A id \in Ids(p)' : (id \in Ids(p) /\ id \notin X) \/ Whole(id)'
  PROVE  WholeInv'
<1> SUFFICES ASSUME NEW p \in Spanners, NEW id \in Ids(p)', id \in Ids(p), id \notin X
             PROVE  Whole(id)'
  BY DEF WholeInv
<1>1. p \in Sources
  BY DEF Sources
<1>2. SpanOf(id)' = SpanOf(id) /\ FirstEvent(id)' = FirstEvent(id)
  BY <1>1 DEF Keeps
<1>3. Whole(id)
  BY DEF WholeInv
<1>4. QED
  BY <1>2, <1>3 DEF Whole

(* A span with one event.                                                  *)
LEMMA StartedWhole ==
  ASSUME NEW id, NEW e, SpanOf(id)'.events = <<e>>
  PROVE  Whole(id)'
<1>1. FirstEvent(id)' = e
  BY DEF FirstEvent
<1>2. \A i \in DOMAIN SpanOf(id)'.events : SpanOf(id)'.events[i] = e
  OBVIOUS
<1>3. QED
  BY <1>1, <1>2 DEF Whole

(* A system call.                                                          *)
LEMMA CallWhole ==
  ASSUME NEW id, SpanOf(id)'.kind = "HostCall"
  PROVE  Whole(id)'
BY DEF Whole

(* A span takes an event of its operation.                                 *)
LEMMA AddedWhole ==
  ASSUME KindsInv, EventsInv, WholeInv, NEW m \in Machines, NEW p \in {Host(m), Nic(m)},
         NEW id \in Ids(p), NEW e, SpanOf(id)' = Add(SpanOf(id), e), e.op = FirstEvent(id).op
  PROVE  Whole(id)'
<1>1. p \in Sources /\ p \in Spanners
  BY SourcesApart
<1>2. PICK sp, t : sp = SpanOf(id) /\ t = Add(sp, e)
  OBVIOUS
<1>3. DOMAIN sp = SpanFields /\ Sequence(sp.events) /\ 1 \in DOMAIN sp.events
  BY <1>1, <1>2 DEF KindsInv, SpansInv, EventsInv
<1>4. t.kind = sp.kind /\ Extended(t.events, sp.events, e) /\ t.events[1] = sp.events[1]
  BY <1>2, <1>3, AddIs
<1>5. \A i \in DOMAIN t.events :
        t.events[i] = e \/ (i \in DOMAIN sp.events /\ t.events[i] = sp.events[i])
  BY <1>4 DEF Extended
<1>6. Whole(id)
  BY <1>1 DEF WholeInv
<1>7. SpanOf(id)' = t /\ FirstEvent(id)' = sp.events[1] /\ FirstEvent(id) = sp.events[1]
  BY <1>2, <1>4 DEF FirstEvent
<1>8. QED
  BY <1>2, <1>4, <1>5, <1>6, <1>7 DEF Whole

(* What is begun when an event e was consumed: what was and is not ended,  *)
(* and one span of N that begins with e.                                   *)
LEMMA BegunGoesOn ==
  ASSUME LogsInv, NEW m \in Machines, BegunInv(m), log[Host(m)] # <<>>, Consume(Host(m)),
         NEW e, e = Event(Host(m)), NEW N, \A x, y \in N : x = y,
         \A id \in Begun(m)' :
           \/ /\ id \in Begun(m) /\ SpanOf(id)' = SpanOf(id)
              /\ ~EndsWith(FirstEvent(id), e) /\ ~IsPosted(FirstEvent(id))
           \/ id \in N /\ BegunBy(id)' /\ FirstEvent(id)' = e
  PROVE  BegunInv(m)'
<1>1. PICK L, L2 : L = log[Host(m)] /\ L2 = log'[Host(m)]
  OBVIOUS
<1>2. Taken(L2, L) /\ e = L[1]
  BY <1>1, Consuming, SourcesApart DEF Consumed
<1>3. EndsInLog(L2) /\ Behind(e, L2) /\ Answered(e, L2)
  BY <1>1, <1>2, EndsBehind DEF BegunInv
<1>4. PICK O, B : /\ B = Begun(m)'
                  /\ O = {id \in Begun(m) : SpanOf(id)' = SpanOf(id) /\ id \in B
                            /\ ~EndsWith(FirstEvent(id), e) /\ ~IsPosted(FirstEvent(id))}
  OBVIOUS
<1>5. \A id \in B : id \in O \/ (id \in N /\ BegunBy(id)' /\ FirstEvent(id)' = e)
  BY <1>4
<1>6. ASSUME NEW id \in O
      PROVE  /\ id \in Begun(m) /\ FirstEvent(id)' = FirstEvent(id) /\ ~IsPosted(FirstEvent(id))
             /\ BegunBy(id)' /\ Behind(FirstEvent(id), L2) /\ ~Alike(FirstEvent(id), e)
  <2>1. id \in Begun(m) /\ SpanOf(id)' = SpanOf(id)
        /\ ~EndsWith(FirstEvent(id), e) /\ ~IsPosted(FirstEvent(id))
    BY <1>4
  <2>2. FirstEvent(id)' = FirstEvent(id)
    BY <2>1 DEF FirstEvent
  <2>3. BegunBy(id) /\ Behind(FirstEvent(id), L)
    BY <1>1, <2>1 DEF BegunInv
  <2>4. BegunBy(id)'
    BY <2>1, <2>3 DEF BegunBy
  <2>5. Behind(FirstEvent(id), L2)
    BY <1>2, <2>1, <2>3, BehindStays
  <2>6. ~Alike(FirstEvent(id), e)
    BY <1>2, <2>3, EndsOwn
  <2>7. QED
    BY <2>1, <2>2, <2>4, <2>5, <2>6
<1>7. ASSUME NEW id \in B
      PROVE  BegunBy(id)' /\ Behind(FirstEvent(id)', L2) /\ Answered(FirstEvent(id)', L2)
  <2>1. CASE id \in O
    <3>1. PICK f : f = FirstEvent(id)
      OBVIOUS
    <3>2. FirstEvent(id)' = f /\ ~IsPosted(f) /\ Behind(f, L2) /\ BegunBy(id)'
      BY <1>6, <2>1, <3>1
    <3>3. Answered(f, L2)
      BY <3>2 DEF Answered
    <3>4. QED
      BY <3>2, <3>3
  <2>2. CASE id \in N /\ BegunBy(id)' /\ FirstEvent(id)' = e
    BY <1>3, <2>2
  <2>3. QED
    BY <1>5, <2>1, <2>2
<1>8. ASSUME NEW x \in B, NEW y \in B, Alike(FirstEvent(x)', FirstEvent(y)')
             \/ (IsPosted(FirstEvent(x)') /\ IsPosted(FirstEvent(y)'))
      PROVE  x = y
  <2>1. \A id \in O : \E f : f = FirstEvent(id) /\ FirstEvent(id)' = f /\ ~IsPosted(f) /\ ~Alike(f, e)
                             /\ id \in Begun(m)
    BY <1>6
  <2>2. \A f : Alike(f, e) <=> Alike(e, f)
    BY DEF Alike
  <2>3. CASE x \in O /\ y \in O
    <3>1. PICK f, g : /\ f = FirstEvent(x) /\ FirstEvent(x)' = f /\ ~IsPosted(f)
                      /\ g = FirstEvent(y) /\ FirstEvent(y)' = g
      BY <2>1, <2>3
    <3>2. Alike(FirstEvent(x), FirstEvent(y)) /\ x \in Begun(m) /\ y \in Begun(m)
      BY <1>8, <2>1, <2>3, <3>1
    <3>3. QED
      BY <3>2 DEF BegunInv
  <2>4. CASE x \in O /\ y \notin O
    <3>1. PICK f : /\ f = FirstEvent(x) /\ FirstEvent(x)' = f /\ ~IsPosted(f) /\ ~Alike(f, e)
      BY <2>1, <2>4
    <3>2. FirstEvent(y)' = e
      BY <1>5, <2>4
    <3>3. QED
      BY <1>8, <3>1, <3>2
  <2>5. CASE x \notin O /\ y \in O
    <3>1. PICK f : /\ f = FirstEvent(y) /\ FirstEvent(y)' = f /\ ~IsPosted(f) /\ ~Alike(f, e)
      BY <2>1, <2>5
    <3>2. FirstEvent(x)' = e
      BY <1>5, <2>5
    <3>3. QED
      BY <1>8, <2>2, <3>1, <3>2
  <2>6. CASE x \notin O /\ y \notin O
    BY <1>5, <2>6
  <2>7. QED
    BY <2>3, <2>4, <2>5, <2>6
<1>9. QED
  BY <1>1, <1>3, <1>4, <1>7, <1>8 DEF BegunInv

(* Host m goes on to name what it began, and those spans stay.             *)
BegunStay(m) ==
  \A id \in Begun(m)' : id \in Begun(m) /\ SpanOf(id)' = SpanOf(id)

(* So it is when others change.                                            *)
LEMMA BegunKept ==
  ASSUME KindsInv, NEW m \in Machines, NEW h, host'[m] = h,
         h.pci = host[m].pci, h.int = host[m].int, h.mmios = host[m].mmios,
         NEW X, Keeps(X), X \cap OfKind(Host(m), Accessed) = {}
  PROVE  BegunStay(m)
<1>1. Host(m) \in Sources
  BY SourcesApart
<1>2. \A id \in OfKind(Host(m), Accessed) : SpanOf(id)' = SpanOf(id)
  BY <1>1 DEF Keeps, OfKind
<1>3. PICK a, b, ids : a = host[m].pci /\ b = host[m].int /\ ids = Listing(host[m].mmios)
  OBVIOUS
<1>4. Begun(m)' = ({a, b} \ {None}) \cup {id \in ids : SpanOf(id)'.pending}
  <2>1. host[m].pci' = a /\ host[m].int' = b /\ Listing(host[m].mmios)' = ids
    BY <1>3 DEF Listing
  <2>2. QED
    BY <2>1 DEF Begun
<1>5. Begun(m) = ({a, b} \ {None}) \cup {id \in ids : SpanOf(id).pending}
  BY <1>3 DEF Begun
<1>6. \A id \in ids : id \in OfKind(Host(m), Accessed)
  BY <1>3, BegunAre
<1>7. \A id \in Begun(m) : id \in OfKind(Host(m), Accessed)
  BY BegunAre
<1>8. \A id \in Begun(m)' : id \in Begun(m)
  BY <1>2, <1>4, <1>5, <1>6
<1>9. QED
  BY <1>2, <1>7, <1>8 DEF BegunStay

(* The types of events that end something.                                 *)
Endings == {"HostConf", "HostClearInt", "HostMmioCW", "HostMmioCR", "HostMmioImRespPoW"}

(* A posted write is answered next.                                        *)
LEMMA NextAnswers ==
  ASSUME LogsInv, NEW m \in Machines, BegunInv(m), log[Host(m)] # <<>>,
         NEW e, e = Event(Host(m)), NEW id \in Begun(m), IsPosted(FirstEvent(id))
  PROVE  e.type = "HostMmioImRespPoW" /\ e.op = FirstEvent(id).op
<1>1. PICK L : L = log[Host(m)] /\ Sequence(L)
  BY SourcesApart DEF LogsInv
<1>2. e = L[1]
  BY <1>1 DEF Event
<1>3. Answered(FirstEvent(id), L)
  BY <1>1 DEF BegunInv
<1>4. QED
  BY <1>2, <1>3 DEF Answered

(* An event that ends nothing is consumed.                                 *)
LEMMA BegunPasses ==
  ASSUME LogsInv, NEW m \in Machines, BegunInv(m), BegunStay(m), log[Host(m)] # <<>>,
         Consume(Host(m)), NEW e, e = Event(Host(m)), e.type \notin Endings
  PROVE  BegunInv(m)'
<1>1. PICK N : N = {}
  OBVIOUS
<1>2. \A x : ~EndsWith(x, e)
  BY DEF EndsWith, Endings
<1>3. \A id \in Begun(m) : ~IsPosted(FirstEvent(id))
  BY NextAnswers DEF Endings
<1>4. \A id \in Begun(m)' :
        /\ id \in Begun(m) /\ SpanOf(id)' = SpanOf(id)
        /\ ~EndsWith(FirstEvent(id), e) /\ ~IsPosted(FirstEvent(id))
  BY <1>2, <1>3 DEF BegunStay
<1>5. \A x, y \in N : x = y
  BY <1>1
<1>6. QED
  BY <1>4, <1>5, BegunGoesOn

(* The host does not go on in its log.                                     *)
LEMMA BegunLasts ==
  ASSUME NEW m \in Machines, BegunInv(m), BegunStay(m), log'[Host(m)] = log[Host(m)]
  PROVE  BegunInv(m)'
<1>1. \A id \in Begun(m)' : /\ id \in Begun(m) /\ FirstEvent(id)' = FirstEvent(id)
                            /\ BegunBy(id) => BegunBy(id)'
  BY DEF BegunStay, FirstEvent, BegunBy
<1>2. PICK L, B : L = log[Host(m)] /\ B = Begun(m)'
  OBVIOUS
<1>3. ASSUME NEW id \in B
      PROVE  BegunBy(id)' /\ Behind(FirstEvent(id)', L) /\ Answered(FirstEvent(id)', L)
  <2>1. PICK f : f = FirstEvent(id) /\ FirstEvent(id)' = f
    BY <1>1, <1>2
  <2>2. Behind(f, L) /\ Answered(f, L) /\ BegunBy(id)
    BY <1>1, <1>2, <2>1 DEF BegunInv
  <2>3. QED
    BY <1>1, <1>2, <2>1, <2>2
<1>4. ASSUME NEW x \in B, NEW y \in B, Alike(FirstEvent(x)', FirstEvent(y)')
             \/ (IsPosted(FirstEvent(x)') /\ IsPosted(FirstEvent(y)'))
      PROVE  x = y
  <2>1. PICK f, g : /\ f = FirstEvent(x) /\ FirstEvent(x)' = f
                    /\ g = FirstEvent(y) /\ FirstEvent(y)' = g
    BY <1>1, <1>2
  <2>2. x \in Begun(m) /\ y \in Begun(m)
        /\ \/ Alike(FirstEvent(x), FirstEvent(y))
           \/ IsPosted(FirstEvent(x)) /\ IsPosted(FirstEvent(y))
    BY <1>1, <1>2, <1>4, <2>1
  <2>3. QED
    BY <2>2 DEF BegunInv
<1>5. EndsInLog(L)
  BY <1>2 DEF BegunInv
<1>6. QED
  BY <1>2, <1>3, <1>4, <1>5 DEF BegunInv

(* What is left to show of a step of machine m.                            *)
LEMMA OperationsReached ==
  ASSUME KindsInv, OperationsInv, NEW m \in Machines, NEW X, Keeps(X),
         X \subseteq Ids(Host(m)) \cup Ids(Nic(m)), WholeInv', BegunInv(m)',
         \A n \in Machines : n # m => host'[n] = host[n] /\ log'[Host(n)] = log[Host(n)]
  PROVE  OperationsInv'
<1>1. ASSUME NEW n \in Machines, n # m PROVE BegunInv(n)'
  <2>1. X \cap OfKind(Host(n), Accessed) = {}
    <3>1. Host(n) # Host(m) /\ Host(n) # Nic(m)
      BY <1>1 DEF Host, Nic
    <3>2. \A x \in Ids(Host(m)) \cup Ids(Nic(m)) : x[1] = Host(m) \/ x[1] = Nic(m)
      BY DEF Ids
    <3>3. \A x \in OfKind(Host(n), Accessed) : x[1] = Host(n)
      BY DEF OfKind, Ids
    <3>4. QED
      BY <3>1, <3>2, <3>3
  <2>2. PICK h : h = host[n]
    OBVIOUS
  <2>3. host'[n] = h /\ h.pci = host[n].pci /\ h.int = host[n].int /\ h.mmios = host[n].mmios
    BY <1>1, <2>2
  <2>4. BegunStay(n)
    BY <2>1, <2>3, BegunKept
  <2>5. BegunInv(n) /\ log'[Host(n)] = log[Host(n)]
    BY <1>1 DEF OperationsInv
  <2>6. QED
    BY <2>4, <2>5, BegunLasts
<1>2. QED
  BY <1>1 DEF OperationsInv

(* Host m consumes an event.                                               *)
LEMMA HostGoes ==
  ASSUME KindsInv, LogsInv, OperationsInv, NEW m \in Machines, NEW h, HostBecomes(m, h),
         log[Host(m)] # <<>>, Consume(Host(m)),
         NEW X, Keeps(X), X \subseteq Ids(Host(m)), WholeInv', BegunInv(m)'
  PROVE  OperationsInv'
<1>1. \A q \in Spanners : q # Host(m) => log'[q] = log[q]
  BY Consuming, SourcesApart DEF Consumed
<1>2. \A n \in Machines : n # m => host'[n] = host[n] /\ log'[Host(n)] = log[Host(n)]
  <2>1. \A n \in Machines : Host(n) \in Spanners /\ (n # m => Host(n) # Host(m))
    BY SourcesApart DEF Host
  <2>2. QED
    BY <1>1, <2>1 DEF HostBecomes
<1>3. X \subseteq Ids(Host(m)) \cup Ids(Nic(m))
  OBVIOUS
<1>4. QED
  BY <1>2, <1>3, OperationsReached

(* And what it began stays as it is.                                       *)
LEMMA HostGoesBy ==
  ASSUME KindsInv, LogsInv, OperationsInv, NEW m \in Machines, NEW h, HostBecomes(m, h),
         h.pci = host[m].pci, h.int = host[m].int, h.mmios = host[m].mmios,
         log[Host(m)] # <<>>, Consume(Host(m)), Event(Host(m)).type \notin Endings,
         NEW X, Keeps(X), X \subseteq Ids(Host(m)), X \cap OfKind(Host(m), Accessed) = {},
         WholeInv'
  PROVE  OperationsInv'
<1>1. BegunStay(m)
  BY BegunKept DEF HostBecomes
<1>2. BegunInv(m)'
  BY <1>1, BegunPasses DEF OperationsInv
<1>3. QED
  BY <1>2, HostGoes

(* Card m consumes an event.                                               *)
LEMMA NicGoes ==
  ASSUME KindsInv, LogsInv, OperationsInv, NEW m \in Machines, host' = host,
         log[Nic(m)] # <<>>, Consume(Nic(m)),
         NEW X, Keeps(X), X \subseteq Ids(Nic(m)), WholeInv'
  PROVE  OperationsInv'
<1>1. \A q \in Spanners : q # Nic(m) => log'[q] = log[q]
  BY Consuming, SourcesApart DEF Consumed
<1>2. \A n \in Machines : host'[n] = host[n] /\ log'[Host(n)] = log[Host(n)]
  <2>1. \A n \in Machines : Host(n) \in Spanners /\ Host(n) # Nic(m)
    BY SourcesApart DEF Host, Nic
  <2>2. QED
    BY <1>1, <2>1
<1>3. X \subseteq Ids(Host(m)) \cup Ids(Nic(m))
  OBVIOUS
<1>4. X \cap OfKind(Host(m), Accessed) = {}
  <2>1. Host(m) # Nic(m)
    BY DEF Host, Nic
  <2>2. \A x \in Ids(Nic(m)) : x[1] = Nic(m)
    BY DEF Ids
  <2>3. \A x \in OfKind(Host(m), Accessed) : x[1] = Host(m)
    BY DEF OfKind, Ids
  <2>4. QED
    BY <2>1, <2>2, <2>3
<1>5. PICK h : h = host[m] /\ host'[m] = h
  BY <1>2
<1>6. h.pci = host[m].pci /\ h.int = host[m].int /\ h.mmios = host[m].mmios
  BY <1>5
<1>7. BegunStay(m)
  BY ONLY <1>4, <1>5, <1>6, KindsInv, m \in Machines, Keeps(X), BegunKept
<1>8. BegunInv(m)'
  BY <1>2, <1>7, BegunLasts DEF OperationsInv
<1>9. QED
  BY <1>2, <1>3, <1>8, OperationsReached

(* Nothing happens to spans and logs.                                      *)
LEMMA OperationsStay ==
  ASSUME OperationsInv, UNCHANGED <<log, spans, host>>
  PROVE  OperationsInv'
<1>1. \A m \in Machines : Begun(m)' = Begun(m)
  BY DEF Begun, Listing, SpanOf
<1>2. \A id : SpanOf(id)' = SpanOf(id) /\ FirstEvent(id)' = FirstEvent(id)
              /\ (BegunBy(id)' <=> BegunBy(id)) /\ (Whole(id)' <=> Whole(id))
  BY DEF SpanOf, FirstEvent, BegunBy, Whole
<1>3. WholeInv'
  BY <1>2 DEF OperationsInv, WholeInv, Ids
<1>4. ASSUME NEW m \in Machines PROVE BegunInv(m)'
  <2>1. BegunInv(m) /\ Begun(m)' = Begun(m) /\ log' = log
    BY <1>1 DEF OperationsInv
  <2>2. QED
    BY <1>2, <2>1 DEF BegunInv
<1>5. QED
  BY <1>3, <1>4 DEF OperationsInv

(* A span is started with one event.                                       *)
LEMMA StartingIs ==
  ASSUME KindsInv, EventsInv, WholeInv, NEW p \in Spanners, NEW kind, NEW parent, NEW e,
         spans' = Append1(p, NewSpan(kind, parent, e)),
         kind = "HostMmio" => e.type \in HostMmioIssue, NEW id, id = NextId(p)
  PROVE  /\ Keeps({}) /\ WholeInv' /\ SpanOf(id)' = NewSpan(kind, parent, e)
         /\ FirstEvent(id)' = e /\ id \notin Ids(p)
         /\ \A q \in Spanners : \A y \in Ids(q)' : y \in Ids(q) \/ y = id
<1>1. PICK sp : sp = NewSpan(kind, parent, e)
  OBVIOUS
<1>2. /\ DOMAIN sp = SpanFields /\ sp.kind = kind /\ sp.events = <<e>>
      /\ Sequence(sp.events) /\ 1 \in DOMAIN sp.events /\ sp.events[1] = e
  BY <1>1, NewSpanIs, NewSpanHas
<1>3. p \in Sources /\ spans' = Append1(p, sp) /\ SpansInv
  BY <1>1 DEF Sources, KindsInv
<1>4. Appended(p, id, sp)
  BY <1>2, <1>3, SpanAppended
<1>5. Keeps({}) /\ FirstEvent(id)' = e
  BY <1>2, <1>3, <1>4, AppendedKeeps
<1>6. SpanOf(id)' = sp /\ Ids(p)' = Ids(p) \cup {id} /\ id \notin Ids(p)
      /\ \A q \in Sources : q # p => Ids(q)' = Ids(q)
  BY <1>4 DEF Appended
<1>7. \A q \in Spanners : \A y \in Ids(q)' : y \in Ids(q) \/ y = id
  BY <1>6 DEF Sources
<1>8. Whole(id)'
  BY <1>2, <1>6, StartedWhole
<1>9. PICK X : X = {}
  OBVIOUS
<1>10. Keeps(X) /\ \A q \in Spanners : \A y \in Ids(q)' : (y \in Ids(q) /\ y \notin X) \/ Whole(y)'
  BY <1>5, <1>7, <1>8, <1>9
<1>11. WholeInv'
  BY <1>10, WholeStays
<1>12. QED
  BY <1>1, <1>5, <1>6, <1>7, <1>11

(* A span takes an event of its operation.                                 *)
LEMMA AddingWhole ==
  ASSUME KindsInv, EventsInv, WholeInv, NEW m \in Machines, NEW p \in {Host(m), Nic(m)},
         NEW id \in Ids(p), NEW e, SpanOf(id)' = Add(SpanOf(id), e), e.op = FirstEvent(id).op,
         Keeps({id}), \A q \in Sources : Ids(q)' = Ids(q)
  PROVE  WholeInv'
<1>1. Whole(id)'
  BY AddedWhole
<1>2. PICK X : X = {id}
  OBVIOUS
<1>3. Keeps(X) /\ \A q \in Spanners : \A y \in Ids(q)' : (y \in Ids(q) /\ y \notin X) \/ Whole(y)'
  BY <1>1, <1>2 DEF Sources
<1>4. QED
  BY <1>3, WholeStays

(* What ends a span that was opened with its id is of its operation.       *)
LEMMA ClosesOwn ==
  ASSUME NEW D, NEW L, NEW A, NEW C, InTurn(UsesOf(D), L, A, C), NEW L2, Taken(L2, L),
         L[1].type \in C, L[1].type \notin A, NEW id \in D, FirstEvent(id).id = L[1].id
  PROVE  L[1].op = FirstEvent(id).op
<1>1. PICK F : F = UsesOf(D)
  OBVIOUS
<1>2. id \in DOMAIN F /\ F[id] = UseOf(FirstEvent(id))
  BY <1>1 DEF UsesOf
<1>3. PICK x \in DOMAIN F : F[x] = UseOf(L[1]) /\ \A y \in DOMAIN F : F[y][2] = L[1].id => y = x
  BY <1>1, TurnCloses
<1>4. F[id][2] = L[1].id
  BY <1>2 DEF UseOf
<1>5. UseOf(FirstEvent(id)) = UseOf(L[1])
  BY <1>2, <1>3, <1>4
<1>6. QED
  BY <1>5 DEF UseOf

(* What host m began has the kind that its first event says.               *)
LEMMA BegunApart ==
  ASSUME KindsInv, NEW m \in Machines, BegunInv(m)
  PROVE  /\ \A id \in Begun(m) : SpanOf(id).kind = "HostPci" <=> id = host[m].pci
         /\ \A id \in Begun(m) : SpanOf(id).kind = "HostInt" <=> id = host[m].int
<1>1. /\ host[m].pci # None => SpanOf(host[m].pci).kind = "HostPci"
      /\ host[m].int # None => SpanOf(host[m].int).kind = "HostInt"
  BY HostMembersAre DEF OfKind
<1>2. \A id \in Listing(host[m].mmios) : SpanOf(id).kind = "HostMmio"
  BY BegunAre DEF OfKind
<1>3. \A id \in Begun(m) : id # None
  BY BegunAre
<1>4. \A id \in Begun(m) : \/ id = host[m].pci \/ id = host[m].int
                           \/ id \in Listing(host[m].mmios)
  BY DEF Begun
<1>5. QED
  BY <1>1, <1>2, <1>3, <1>4

(* An event ends one of them.                                              *)
LEMMA EndsOne ==
  ASSUME KindsInv, NEW m \in Machines, BegunInv(m), NEW x \in Begun(m), NEW y \in Begun(m), NEW e,
         EndsWith(FirstEvent(x), e), EndsWith(FirstEvent(y), e)
  PROVE  x = y
<1>1. BegunBy(x) /\ BegunBy(y)
  BY DEF BegunInv
<1>2. PICK f, g : f = FirstEvent(x) /\ g = FirstEvent(y)
  OBVIOUS
<1>3. EndsWith(f, e) /\ EndsWith(g, e)
  BY <1>2
<1>4. CASE e.type = "HostConf"
  <2>1. f.type = "HostPciRW" /\ g.type = "HostPciRW"
    BY <1>3, <1>4 DEF EndsWith
  <2>2. SpanOf(x).kind = "HostPci" /\ SpanOf(y).kind = "HostPci"
    BY <1>1, <1>2, <2>1 DEF BegunBy, FirstEvent, HostMmioIssue
  <2>3. QED
    BY <2>2, BegunApart
<1>5. CASE e.type = "HostClearInt"
  <2>1. f.type = "HostPostInt" /\ g.type = "HostPostInt"
    BY <1>3, <1>5 DEF EndsWith
  <2>2. SpanOf(x).kind = "HostInt" /\ SpanOf(y).kind = "HostInt"
    BY <1>1, <1>2, <2>1 DEF BegunBy, FirstEvent, HostMmioIssue
  <2>3. QED
    BY <2>2, BegunApart
<1>6. CASE e.type \notin {"HostConf", "HostClearInt"}
  <2>1. Alike(f, g)
    BY <1>3, <1>6 DEF EndsWith, Alike
  <2>2. Alike(FirstEvent(x), FirstEvent(y))
    BY <1>2, <2>1
  <2>3. QED
    BY <2>2 DEF BegunInv
<1>7. QED
  BY <1>4, <1>5, <1>6

(* What an event ends, a posted write included.                            *)
EndsNow(f, e) ==
  \/ EndsWith(f, e)
  \/ IsPosted(f) /\ e.type = "HostMmioImRespPoW"

(* An event ends a span that host m began, and it is one of the span's     *)
(* operation.                                                              *)
LEMMA HostEndsBegun ==
  ASSUME KindsInv, InStepInv, OperationsInv, NEW m \in Machines, NEW h, HostBecomes(m, h),
         log[Host(m)] # <<>>, Consume(Host(m)), NEW e, e = Event(Host(m)),
         NEW id \in Begun(m), EndsNow(FirstEvent(id), e),
         spans' = Update(id, Add(SpanOf(id), e)),
         \A y \in Begun(m)' : y \in Begun(m) /\ y # id
  PROVE  OperationsInv'
<1>1. LogsInv /\ EventsInv /\ WholeInv /\ BegunInv(m)
  BY DEF InStepInv, OperationsInv
<1>2. \A y \in Begun(m) : y \in OfKind(Host(m), Accessed) /\ y \in Ids(Host(m))
  BY BegunAre DEF OfKind
<1>3. PICK p : p = Host(m) /\ p \in {Host(m), Nic(m)} /\ p \in Sources /\ id \in Ids(p)
  BY <1>2, SourcesApart
<1>4. /\ Keeps({id}) /\ \A q \in Sources : Ids(q)' = Ids(q)
      /\ SpanOf(id)' = Add(SpanOf(id), e)
  BY <1>1, <1>3, AddingKeeps
<1>5. PICK L, L2 : L = log[Host(m)] /\ L2 = log'[Host(m)]
  OBVIOUS
<1>6. Taken(L2, L) /\ e = L[1]
  BY <1>1, <1>5, Consuming, SourcesApart DEF Consumed
<1>7. PICK f : f = FirstEvent(id)
  OBVIOUS
<1>8. Behind(f, L) /\ Answered(f, L) /\ EndsNow(f, e)
  BY <1>1, <1>5, <1>7 DEF BegunInv
<1>9. e.op = f.op
  <2>1. CASE EndsWith(f, e)
    BY <1>6, <1>8, <2>1, EndsOwn
  <2>2. CASE IsPosted(f)
    BY <1>6, <1>8, <2>2 DEF Answered
  <2>3. QED
    BY <1>8, <2>1, <2>2 DEF EndsNow
<1>10. e.op = FirstEvent(id).op
  BY <1>7, <1>9
<1>11. WholeInv'
  BY ONLY <1>1, <1>3, <1>4, <1>10, KindsInv, m \in Machines, AddingWhole
<1>12. ASSUME NEW y \in Begun(m), y # id
       PROVE  ~EndsWith(FirstEvent(y), e) /\ ~IsPosted(FirstEvent(y))
  <2>1. IsPosted(FirstEvent(y)) => e.type = "HostMmioImRespPoW"
    BY <1>1, NextAnswers
  <2>2. CASE EndsWith(f, e)
    <3>1. e.type # "HostMmioImRespPoW"
      BY <2>2 DEF EndsWith
    <3>2. EndsWith(FirstEvent(id), e)
      BY <1>7, <2>2
    <3>3. ~EndsWith(FirstEvent(y), e)
      BY <1>1, <1>12, <3>2, EndsOne
    <3>4. QED
      BY <2>1, <3>1, <3>3
  <2>3. CASE IsPosted(f) /\ e.type = "HostMmioImRespPoW"
    <3>1. ~EndsWith(FirstEvent(y), e)
      BY <2>3 DEF EndsWith
    <3>2. ~IsPosted(FirstEvent(y))
      <4>1. IsPosted(FirstEvent(id))
        BY <1>7, <2>3
      <4>2. QED
        BY <1>1, <1>12, <4>1 DEF BegunInv
    <3>3. QED
      BY <3>1, <3>2
  <2>4. QED
    BY <1>8, <2>2, <2>3 DEF EndsNow
<1>13. PICK N : N = {}
  OBVIOUS
<1>14. \A y \in Begun(m)' :
         \/ /\ y \in Begun(m) /\ SpanOf(y)' = SpanOf(y)
            /\ ~EndsWith(FirstEvent(y), e) /\ ~IsPosted(FirstEvent(y))
         \/ y \in N /\ BegunBy(y)' /\ FirstEvent(y)' = e
  <2>1. \A y \in Ids(p) : y # id => SpanOf(y)' = SpanOf(y)
    BY <1>3, <1>4 DEF Keeps
  <2>2. QED
    BY <1>2, <1>3, <1>12, <2>1
<1>15. \A x, y \in N : x = y
  BY <1>13
<1>16. BegunInv(m)'
  BY <1>1, <1>14, <1>15, BegunGoesOn
<1>17. PICK X : X = {id} /\ Keeps(X) /\ X \subseteq Ids(Host(m))
  BY <1>3, <1>4
<1>18. QED
  BY <1>1, <1>11, <1>16, <1>17, HostGoes

(* An event begins something.                                              *)
LEMMA HostBegins ==
  ASSUME KindsInv, InStepInv, OperationsInv, NEW m \in Machines, NEW h, HostBecomes(m, h),
         log[Host(m)] # <<>>, Consume(Host(m)), NEW e, e = Event(Host(m)), e.type \notin Endings,
         NEW X, Keeps(X), X \subseteq Ids(Host(m)), WholeInv', NEW n,
         \A y \in Begun(m)' : \/ y \in Begun(m) /\ SpanOf(y)' = SpanOf(y)
                              \/ y = n /\ BegunBy(n)' /\ FirstEvent(n)' = e
  PROVE  OperationsInv'
<1>1. LogsInv /\ EventsInv /\ BegunInv(m)
  BY DEF InStepInv, OperationsInv
<1>2. PICK N : N = {n}
  OBVIOUS
<1>3. \A f : ~EndsWith(f, e)
  BY DEF EndsWith, Endings
<1>4. \A y \in Begun(m) : ~IsPosted(FirstEvent(y))
  BY <1>1, NextAnswers DEF Endings
<1>5. \A y \in Begun(m)' :
        \/ /\ y \in Begun(m) /\ SpanOf(y)' = SpanOf(y)
           /\ ~EndsWith(FirstEvent(y), e) /\ ~IsPosted(FirstEvent(y))
        \/ y \in N /\ BegunBy(y)' /\ FirstEvent(y)' = e
  BY <1>2, <1>3, <1>4
<1>6. \A x, y \in N : x = y
  BY <1>2
<1>7. BegunInv(m)'
  BY <1>1, <1>5, <1>6, BegunGoesOn
<1>8. QED
  BY <1>1, <1>7, HostGoes

(* What is begun when the members are others.                              *)
LEMMA BegunNext ==
  ASSUME NEW m \in Machines, NEW h, host'[m] = h, NEW y \in Begun(m)'
  PROVE  \/ y # None /\ (y = h.pci \/ y = h.int)
         \/ y \in Listing(h.mmios) /\ SpanOf(y)'.pending
<1>1. PICK a, b, ids : a = h.pci /\ b = h.int /\ ids = Listing(h.mmios)
  OBVIOUS
<1>2. host[m].pci' = a /\ host[m].int' = b /\ Listing(host[m].mmios)' = ids
  BY <1>1 DEF Listing
<1>3. Begun(m)' = ({a, b} \ {None}) \cup {id \in ids : SpanOf(id)'.pending}
  BY <1>2 DEF Begun
<1>4. QED
  BY <1>1, <1>3

--------------------------------------------------------------------------------
(* The steps of a host.                                                    *)

(* HandelMmio gives an event to a span.                                    *)
LEMMA AddToMmioWhole ==
  ASSUME KindsInv, InStepInv, OperationsInv, NEW m \in Machines, AddToMmio(m), UNCHANGED nic
  PROVE  OperationsInv'
<1>1. PICK p, e, g, i, id, sp :
        /\ p = Host(m) /\ e = Event(p) /\ g = host[m]
        /\ i = First(Taking(g.mmios, e)) /\ id = g.mmios[i] /\ sp = SpanOf(id)
  OBVIOUS
<1>2. g \in HostRecords /\ g.mmios \in Seq(SpannerIds) /\ AllOf(g.mmios, p, "HostMmio")
  BY <1>1, HostMembersAre DEF HostRecords, HostNames
<1>3. /\ log[Host(m)] # <<>> /\ Consume(Host(m)) /\ e.type \in HostMmioTypes
      /\ Taking(g.mmios, e) # {} /\ spans' = Update(id, Add(sp, e))
  BY <1>1 DEF AddToMmio, At
<1>4. i \in DOMAIN g.mmios /\ CanAdd(sp, e)
  <2>1. i \in DOMAIN g.mmios
    BY <1>1, <1>2, <1>3, TakingFirst
  <2>2. Taking(g.mmios, e) \in SUBSET Nat
    BY <1>2 DEF Taking
  <2>3. i \in Taking(g.mmios, e)
    BY <1>1, <1>3, <2>2, FirstOf
  <2>4. QED
    BY <1>1, <2>1, <2>3 DEF Taking
<1>5. id \in Listing(g.mmios) /\ id \in Ids(p) /\ sp.kind = "HostMmio" /\ sp.pending
  BY <1>1, <1>2, <1>4 DEF AllOf, OfKind, Listing, CanAdd, IsPotentialAdd
<1>6. id \in Begun(m) /\ BegunInv(m) /\ BegunBy(id)
  <2>1. id \in Begun(m)
    BY <1>1, <1>5, BegunAre
  <2>2. QED
    BY <2>1 DEF OperationsInv, BegunInv
<1>7. PICK f : f = FirstEvent(id) /\ f = sp.events[1] /\ sp.events = <<f>> /\ f.type \in HostMmioIssue
  BY <1>1, <1>5, <1>6 DEF BegunBy, FirstEvent
<1>8. Types(sp.events) = {f.type} /\ TheOne(sp.events, HostMmioIssue) = f
  BY <1>7 DEF Types, TheOne
<1>9. HostMmioTakes(sp.events, e)
  BY <1>4, <1>5 DEF CanAdd, Takes
<1>10. /\ e.type \notin HostMmioIssue
       /\ \/ e.type = "HostMmioImRespPoW" /\ f.type = "HostMmioW" /\ f.posted
          \/ /\ e.type = "HostMmioCW" /\ IsToDeviceBarNumber(f.bar)
             /\ f.type = "HostMmioW" /\ f.id = e.id
          \/ /\ e.type = "HostMmioCR" /\ IsToDeviceBarNumber(f.bar)
             /\ f.type = "HostMmioR" /\ f.id = e.id
  BY <1>7, <1>8, <1>9 DEF HostMmioTakes
<1>11. IsPosted(f) => e.type = "HostMmioImRespPoW"
  <2>1. LogsInv /\ IsPosted(FirstEvent(id)) <=> LogsInv /\ IsPosted(f)
    BY <1>7
  <2>2. QED
    BY <1>1, <1>3, <1>6, <2>1, NextAnswers DEF InStepInv
<1>12. EndsNow(FirstEvent(id), e)
  <2>1. EndsNow(f, e)
    BY <1>10, <1>11 DEF EndsNow, EndsWith, Waits, IsPosted
  <2>2. QED
    BY <1>7, <2>1
<1>13. SpanOf(id)' = Add(sp, e) /\ Add(sp, e).pending = FALSE
  <2>1. EventsInv /\ p \in {Host(m), Nic(m)} /\ p \in Sources
    BY <1>1, SourcesApart DEF InStepInv
  <2>2. SpanOf(id)' = Add(sp, e)
    BY <1>1, <1>3, <1>5, <2>1, AddingKeeps
  <2>3. DOMAIN sp = SpanFields /\ Sequence(sp.events) /\ 1 \in DOMAIN sp.events
    BY <1>1, <1>5, <2>1, SpansAre DEF EventsInv, KindsInv
  <2>4. Add(sp, e).pending = ~Completes(sp.kind, e)
    BY <2>3, AddIs
  <2>5. Completes(sp.kind, e)
    BY <1>5, <1>10 DEF Completes
  <2>6. QED
    BY <2>2, <2>4, <2>5
<1>14. PICK w, h : w = Without(g.mmios, i) /\ h = [g EXCEPT !.mmios = w]
  OBVIOUS
<1>15. h.pci = g.pci /\ h.int = g.int /\ h.mmios = w
  BY <1>2, <1>14 DEF HostRecords
<1>16. HostBecomes(m, h)
  <2>1. host' = [host EXCEPT ![m] = h]
    BY <1>1, <1>13, <1>14 DEF AddToMmio
  <2>2. QED
    BY <2>1, HostChanges
<1>17. \A y \in Listing(w) : y \in Listing(g.mmios)
  BY <1>2, <1>4, <1>14, ListShrinks DEF Listing
<1>18. ASSUME NEW y \in Begun(m)' PROVE y \in Begun(m) /\ y # id
  <2>1. \/ y # None /\ (y = h.pci \/ y = h.int)
        \/ y \in Listing(w) /\ SpanOf(y)'.pending
    BY <1>15, <1>16, BegunNext DEF HostBecomes
  <2>2. CASE y # None /\ (y = h.pci \/ y = h.int)
    <3>1. y \in Begun(m)
      BY <1>1, <1>15, <2>2, BegunAre
    <3>2. SpanOf(y).kind \in {"HostPci", "HostInt"}
      BY <1>1, <1>6, <1>15, <2>2, <3>1, BegunApart
    <3>3. QED
      BY <1>1, <1>5, <3>1, <3>2
  <2>3. CASE y \in Listing(w) /\ SpanOf(y)'.pending
    <3>1. y # id
      BY <1>13, <2>3
    <3>2. y \in Listing(g.mmios) /\ y \in Ids(p) /\ p \in Sources
      BY <1>1, <1>17, <2>3, BegunAre, SourcesApart DEF OfKind
    <3>3. SpanOf(y)' = SpanOf(y)
      <4>1. EventsInv /\ p \in {Host(m), Nic(m)}
        BY <1>1 DEF InStepInv
      <4>2. Keeps({id})
        BY <1>1, <1>3, <1>5, <4>1, AddingKeeps
      <4>3. QED
        BY <3>1, <3>2, <4>2 DEF Keeps
    <3>4. SpanOf(y).pending
      BY <2>3, <3>3
    <3>5. QED
      BY <1>1, <3>1, <3>2, <3>4, BegunAre
  <2>4. QED
    BY <2>1, <2>2, <2>3
<1>19. spans' = Update(id, Add(SpanOf(id), e)) /\ e = Event(Host(m))
  BY <1>1, <1>3
<1>20. QED
  BY <1>3, <1>6, <1>12, <1>16, <1>18, <1>19, HostEndsBegun

(* HandelPci ends an access of the configuration.                          *)
LEMMA EndPciWhole ==
  ASSUME KindsInv, InStepInv, OperationsInv, NEW m \in Machines, EndPci(m), UNCHANGED nic
  PROVE  OperationsInv'
<1>1. PICK e, g, id, h : /\ e = Event(Host(m)) /\ g = host[m] /\ id = g.pci
                         /\ h = [g EXCEPT !.pci = None]
  OBVIOUS
<1>2. /\ log[Host(m)] # <<>> /\ Consume(Host(m)) /\ e.type = "HostConf"
      /\ id # None /\ spans' = Update(id, Add(SpanOf(id), e)) /\ host' = [host EXCEPT ![m] = h]
  BY <1>1 DEF EndPci, At
<1>3. g \in HostRecords /\ id \in OfKind(Host(m), {"HostPci"})
  BY <1>1, <1>2, HostMembersAre
<1>4. h.pci = None /\ h.int = g.int /\ h.mmios = g.mmios
  BY <1>1, <1>3 DEF HostRecords
<1>5. HostBecomes(m, h)
  BY <1>2, HostChanges
<1>6. id \in Begun(m) /\ BegunInv(m) /\ BegunBy(id) /\ SpanOf(id).kind = "HostPci"
  <2>1. id \in Begun(m)
    BY <1>1, <1>2, BegunAre
  <2>2. QED
    BY <1>3, <2>1 DEF OperationsInv, BegunInv, OfKind
<1>7. EndsNow(FirstEvent(id), e)
  <2>1. FirstEvent(id).type = "HostPciRW"
    BY <1>6 DEF BegunBy, FirstEvent
  <2>2. QED
    BY <1>2, <2>1 DEF EndsNow, EndsWith
<1>8. ASSUME NEW y \in Begun(m)' PROVE y \in Begun(m) /\ y # id
  <2>1. (y # None /\ y = h.int) \/ (y \in Listing(g.mmios) /\ SpanOf(y)'.pending)
    BY <1>4, <1>5, BegunNext DEF HostBecomes
  <2>2. CASE y # None /\ y = h.int
    <3>1. y \in Begun(m)
      BY <1>1, <1>4, <2>2, BegunAre
    <3>2. SpanOf(y).kind = "HostInt"
      BY <1>1, <1>4, <1>6, <2>2, <3>1, BegunApart
    <3>3. QED
      BY <1>6, <3>1, <3>2
  <2>3. CASE y \in Listing(g.mmios) /\ SpanOf(y)'.pending
    <3>1. y \in OfKind(Host(m), {"HostMmio"})
      BY <1>1, <2>3, BegunAre
    <3>2. y # id /\ y \in Ids(Host(m))
      BY <1>6, <3>1 DEF OfKind
    <3>3. SpanOf(y)' = SpanOf(y)
      <4>1. EventsInv /\ Host(m) \in {Host(m), Nic(m)} /\ id \in Ids(Host(m)) /\ Host(m) \in Sources
        BY <1>3, SourcesApart DEF InStepInv, OfKind
      <4>2. Keeps({id})
        BY <1>2, <4>1, AddingKeeps
      <4>3. QED
        BY <3>2, <4>1, <4>2 DEF Keeps
    <3>4. QED
      BY <1>1, <2>3, <3>2, <3>3, BegunAre
  <2>4. QED
    BY <2>1, <2>2, <2>3
<1>9. QED
  BY <1>1, <1>2, <1>5, <1>6, <1>7, <1>8, HostEndsBegun

(* HandelInt clears the interrupt, or gives the event up.                  *)
LEMMA AddToIntWhole ==
  ASSUME KindsInv, InStepInv, OperationsInv, NEW m \in Machines, AddToInt(m), UNCHANGED nic
  PROVE  OperationsInv'
<1>1. PICK e, g, id : e = Event(Host(m)) /\ g = host[m] /\ id = g.int
  OBVIOUS
<1>2. /\ log[Host(m)] # <<>> /\ Consume(Host(m)) /\ e.type \in HostIntTypes /\ id # None
  BY <1>1 DEF AddToInt, At
<1>3. g \in HostRecords /\ id \in OfKind(Host(m), {"HostInt"})
  BY <1>1, <1>2, HostMembersAre
<1>4. id \in Begun(m) /\ BegunInv(m) /\ BegunBy(id) /\ SpanOf(id).kind = "HostInt"
  <2>1. id \in Begun(m)
    BY <1>1, <1>2, BegunAre
  <2>2. QED
    BY <1>3, <2>1 DEF OperationsInv, BegunInv, OfKind
<1>5. PICK sp, f : /\ sp = SpanOf(id) /\ f = FirstEvent(id) /\ sp.events = <<f>>
                   /\ f.type = "HostPostInt" /\ sp.pending
  BY <1>4 DEF BegunBy, FirstEvent
<1>6. Types(sp.events) = {"HostPostInt"}
  BY <1>5 DEF Types
<1>7. CanAdd(sp, e) <=> e.type = "HostClearInt"
  <2>1. CanAdd(sp, e) <=> HostIntTakes(sp.events, e)
    BY <1>4, <1>5 DEF CanAdd, IsPotentialAdd, Takes
  <2>2. QED
    BY <1>2, <1>6, <2>1 DEF HostIntTakes, HostIntTypes
<1>8. CASE e.type = "HostClearInt"
  <2>1. CanAdd(SpanOf(id), e)
    BY <1>5, <1>7, <1>8
  <2>2. PICK h : h = [g EXCEPT !.int = None]
    OBVIOUS
  <2>3. spans' = Update(id, Add(SpanOf(id), e)) /\ host' = [host EXCEPT ![m] = h]
    BY <1>1, <2>1, <2>2 DEF AddToInt
  <2>4. h.pci = g.pci /\ h.int = None /\ h.mmios = g.mmios
    BY <1>3, <2>2 DEF HostRecords
  <2>5. HostBecomes(m, h)
    BY <2>3, HostChanges
  <2>6. EndsNow(FirstEvent(id), e)
    BY <1>5, <1>8 DEF EndsNow, EndsWith
  <2>7. ASSUME NEW y \in Begun(m)' PROVE y \in Begun(m) /\ y # id
    <3>1. (y # None /\ y = h.pci) \/ (y \in Listing(g.mmios) /\ SpanOf(y)'.pending)
      BY <2>4, <2>5, BegunNext DEF HostBecomes
    <3>2. CASE y # None /\ y = h.pci
      <4>1. y \in Begun(m)
        BY <1>1, <2>4, <3>2, BegunAre
      <4>2. SpanOf(y).kind = "HostPci"
        BY <1>1, <1>4, <2>4, <3>2, <4>1, BegunApart
      <4>3. QED
        BY <1>4, <4>1, <4>2
    <3>3. CASE y \in Listing(g.mmios) /\ SpanOf(y)'.pending
      <4>1. y \in OfKind(Host(m), {"HostMmio"})
        BY <1>1, <3>3, BegunAre
      <4>2. y # id /\ y \in Ids(Host(m))
        BY <1>4, <4>1 DEF OfKind
      <4>3. SpanOf(y)' = SpanOf(y)
        <5>1. EventsInv /\ Host(m) \in {Host(m), Nic(m)} /\ id \in Ids(Host(m)) /\ Host(m) \in Sources
          BY <1>3, SourcesApart DEF InStepInv, OfKind
        <5>2. Keeps({id})
          BY <2>3, <5>1, AddingKeeps
        <5>3. QED
          BY <4>2, <5>1, <5>2 DEF Keeps
      <4>4. QED
        BY <1>1, <3>3, <4>2, <4>3, BegunAre
    <3>4. QED
      BY <3>1, <3>2, <3>3
  <2>8. QED
    BY <1>1, <1>2, <1>4, <2>3, <2>5, <2>6, <2>7, HostEndsBegun
<1>9. CASE e.type # "HostClearInt"
  <2>1. spans' = spans /\ host' = host
    <3>1. ~CanAdd(SpanOf(id), e)
      BY <1>5, <1>7, <1>9
    <3>2. QED
      BY <1>1, <3>1 DEF AddToInt
  <2>2. PICK X : X = {}
    OBVIOUS
  <2>3. Keeps(X) /\ X \subseteq Ids(Host(m)) /\ X \cap OfKind(Host(m), Accessed) = {}
    BY <2>1, <2>2, SameKeeps DEF InStepInv
  <2>4. HostBecomes(m, g)
    BY <1>1, <2>1 DEF HostBecomes
  <2>5. WholeInv'
    BY <2>1 DEF OperationsInv, WholeInv, Whole, Ids, SpanOf, FirstEvent
  <2>6. Event(Host(m)).type \notin Endings /\ LogsInv
    BY <1>1, <1>2, <1>9 DEF Endings, HostIntTypes, InStepInv
  <2>7. g.pci = host[m].pci /\ g.int = host[m].int /\ g.mmios = host[m].mmios
    BY <1>1
  <2>8. QED
    BY <1>2, <2>3, <2>4, <2>5, <2>6, <2>7, HostGoesBy
<1>10. QED
  BY <1>8, <1>9

(* HandelMmio starts a span.                                               *)
LEMMA StartMmioWhole ==
  ASSUME KindsInv, InStepInv, OperationsInv, NEW m \in Machines, StartMmio(m), UNCHANGED nic
  PROVE  OperationsInv'
<1>1. PICK p, e, g, n, w, h :
        /\ p = Host(m) /\ e = Event(p) /\ g = host[m] /\ n = NextId(p)
        /\ w = Append(g.mmios, n) /\ h = [g EXCEPT !.mmios = w]
  OBVIOUS
<1>2. /\ log[Host(m)] # <<>> /\ Consume(Host(m)) /\ e.type \in HostMmioIssue
      /\ spans' = Append1(p, NewSpan("HostMmio", g.call, e)) /\ host' = [host EXCEPT ![m] = h]
  BY <1>1 DEF StartMmio, At
<1>3. EventsInv /\ WholeInv /\ p \in Spanners /\ p \in Sources
  BY <1>1, SourcesApart DEF InStepInv, OperationsInv
<1>4. /\ Keeps({}) /\ WholeInv' /\ SpanOf(n)' = NewSpan("HostMmio", g.call, e)
      /\ FirstEvent(n)' = e
  BY <1>1, <1>2, <1>3, StartingIs
<1>5. g \in HostRecords /\ g.mmios \in Seq(SpannerIds)
  BY <1>1, HostMembersAre DEF HostRecords
<1>6. h.pci = g.pci /\ h.int = g.int /\ h.mmios = w /\ Listing(w) = Listing(g.mmios) \cup {n}
  <2>1. h.pci = g.pci /\ h.int = g.int /\ h.mmios = w
    BY <1>1, <1>5 DEF HostRecords
  <2>2. g.mmios \in Seq(SpannerIds) /\ w = Append(g.mmios, n)
    BY <1>1, <1>5
  <2>3. Listing(w) = Listing(g.mmios) \cup {n}
    BY <2>2, ListGains
  <2>4. QED
    BY <2>1, <2>3
<1>7. HostBecomes(m, h)
  BY <1>2, HostChanges
<1>8. PICK sp : sp = SpanOf(n)' /\ sp.kind = "HostMmio" /\ sp.events = <<e>>
  BY <1>4, NewSpanIs, NewSpanHas
<1>9. SpanOf(n)'.pending => BegunBy(n)'
  BY <1>2, <1>8 DEF BegunBy
<1>10. \A y \in Ids(p) : SpanOf(y)' = SpanOf(y)
  BY <1>3, <1>4 DEF Keeps
<1>11. ASSUME NEW y \in Begun(m)'
       PROVE  \/ y \in Begun(m) /\ SpanOf(y)' = SpanOf(y)
              \/ y = n /\ BegunBy(n)' /\ FirstEvent(n)' = e
  <2>1. \/ y # None /\ (y = g.pci \/ y = g.int)
        \/ y \in Listing(g.mmios) \cup {n} /\ SpanOf(y)'.pending
    BY <1>6, <1>7, BegunNext DEF HostBecomes
  <2>2. CASE y # None /\ (y = g.pci \/ y = g.int)
    <3>1. y \in Begun(m) /\ y \in Ids(p)
      BY <1>1, <2>2, BegunAre DEF OfKind
    <3>2. QED
      BY <1>10, <3>1
  <2>3. CASE y \in Listing(g.mmios) /\ SpanOf(y)'.pending
    <3>1. y \in Ids(p)
      BY <1>1, <2>3, BegunAre DEF OfKind
    <3>2. QED
      BY <1>1, <1>10, <2>3, <3>1, BegunAre
  <2>4. CASE y = n /\ SpanOf(y)'.pending
    BY <1>4, <1>9, <2>4
  <2>5. QED
    BY <2>1, <2>2, <2>3, <2>4
<1>12. e.type \notin Endings /\ e = Event(Host(m))
  BY <1>1, <1>2 DEF Endings, HostMmioIssue
<1>13. PICK X : X = {} /\ Keeps(X) /\ X \subseteq Ids(Host(m))
  BY <1>4
<1>14. QED
  BY <1>2, <1>4, <1>7, <1>11, <1>12, <1>13, HostBegins

(* HandelPci starts one.                                                   *)
LEMMA StartPciWhole ==
  ASSUME KindsInv, InStepInv, OperationsInv, NEW m \in Machines, StartPci(m), UNCHANGED nic
  PROVE  OperationsInv'
<1>1. PICK e, g, p : e = Event(Host(m)) /\ g = host[m] /\ p = Host(m)
  OBVIOUS
<1>2. /\ log[Host(m)] # <<>> /\ Consume(Host(m)) /\ e.type = "HostPciRW"
  BY <1>1 DEF StartPci, At
<1>3. PICK X, n :
        /\ X = {g.pci} \ {None} /\ n = NextId(p)
        /\ Keeps(X) /\ \A x \in X : SpanOf(x)'.events = SpanOf(x).events
        /\ \A q \in Spanners : \A id \in Ids(q)' : id \in Ids(q) \/ id = n
        /\ SpanOf(n)' = NewSpan("HostPci", g.call, e)
        /\ host'[m].pci = n /\ host'[m].int = g.int /\ host'[m].mmios = g.mmios
        /\ \A k \in Machines : k # m => host'[k] = host[k]
  <2>1. PciStarts(m)
    BY StartPciInStep
  <2>2. QED
    BY <1>1, <2>1 DEF PciStarts
<1>4. p \in Spanners /\ p \in Sources /\ WholeInv
  BY <1>1, SourcesApart DEF OperationsInv
<1>5. X \subseteq OfKind(p, {"HostPci"}) /\ X \subseteq Ids(Host(m))
  BY <1>1, <1>3, HostMembersAre DEF OfKind
<1>6. PICK sp : /\ sp = SpanOf(n)' /\ sp.kind = "HostPci" /\ sp.events = <<e>>
                /\ sp.pending = ~Completes("HostPci", e)
  BY <1>3, NewSpanIs, NewSpanHas
<1>7. BegunBy(n)' /\ FirstEvent(n)' = e
  <2>1. ~Completes("HostPci", e)
    BY <1>2 DEF Completes
  <2>2. sp.pending
    BY <1>6, <2>1
  <2>3. SpanOf(n)'.pending /\ SpanOf(n)'.kind = "HostPci" /\ SpanOf(n)'.events = <<e>>
    BY <1>6, <2>2
  <2>4. QED
    BY <1>2, <2>3 DEF BegunBy, FirstEvent
<1>8. Whole(n)'
  BY <1>6, StartedWhole
<1>9. \A x \in X : Whole(x)'
  <2> SUFFICES ASSUME NEW x \in X PROVE Whole(x)'
    OBVIOUS
  <2>1. x \in Ids(p) /\ Whole(x)
    BY <1>1, <1>4, <1>5 DEF WholeInv
  <2>2. FirstEvent(x)' = FirstEvent(x) /\ SpanOf(x)'.kind = SpanOf(x).kind
    BY <1>3, <1>4, <2>1 DEF Keeps, KindsKept
  <2>3. QED
    BY <1>3, <2>1, <2>2 DEF Whole
<1>10. \A q \in Spanners : \A y \in Ids(q)' : (y \in Ids(q) /\ y \notin X) \/ Whole(y)'
  BY <1>3, <1>8, <1>9
<1>11. WholeInv'
  BY <1>3, <1>4, <1>10, WholeStays
<1>12. PICK h : h = host'[m]
  OBVIOUS
<1>13. HostBecomes(m, h)
  BY <1>3, <1>12 DEF HostBecomes
<1>14. ASSUME NEW y \in Begun(m)'
       PROVE  \/ y \in Begun(m) /\ SpanOf(y)' = SpanOf(y)
              \/ y = n /\ BegunBy(n)' /\ FirstEvent(n)' = e
  <2>1. \/ y = n \/ (y # None /\ y = g.int)
        \/ y \in Listing(g.mmios) /\ SpanOf(y)'.pending
    BY <1>3, <1>12, BegunNext
  <2>2. CASE y # None /\ y = g.int
    <3>1. y \in Begun(m) /\ y \in Ids(p) /\ y \in OfKind(p, {"HostInt"})
      BY <1>1, <2>2, BegunAre, HostMembersAre DEF OfKind
    <3>2. y \notin X
      BY <1>5, <3>1 DEF OfKind
    <3>3. QED
      BY <1>3, <1>4, <3>1, <3>2 DEF Keeps
  <2>3. CASE y \in Listing(g.mmios) /\ SpanOf(y)'.pending
    <3>1. y \in Ids(p) /\ y \in OfKind(p, {"HostMmio"})
      BY <1>1, <2>3, BegunAre DEF OfKind
    <3>2. y \notin X
      BY <1>5, <3>1 DEF OfKind
    <3>3. SpanOf(y)' = SpanOf(y)
      BY <1>3, <1>4, <3>1, <3>2 DEF Keeps
    <3>4. QED
      BY <1>1, <2>3, <3>3, BegunAre
  <2>4. QED
    BY <1>7, <2>1, <2>2, <2>3
<1>15. e.type \notin Endings
  BY <1>2 DEF Endings
<1>16. QED
  BY <1>1, <1>2, <1>3, <1>5, <1>11, <1>13, <1>14, <1>15, HostBegins

(* HandelInt starts one.                                                   *)
LEMMA StartIntWhole ==
  ASSUME KindsInv, InStepInv, OperationsInv, NEW m \in Machines, StartInt(m), UNCHANGED nic
  PROVE  OperationsInv'
<1>1. PICK p, e, g, n, h : /\ p = Host(m) /\ e = Event(p) /\ g = host[m] /\ n = NextId(p)
                           /\ h = [g EXCEPT !.int = n]
  OBVIOUS
<1>2. /\ log[Host(m)] # <<>> /\ Consume(Host(m)) /\ e.type = "HostPostInt"
      /\ spans' = Append1(p, NewSpan("HostInt", g.call, e)) /\ host' = [host EXCEPT ![m] = h]
  BY <1>1 DEF StartInt, At
<1>3. EventsInv /\ WholeInv /\ p \in Spanners /\ p \in Sources
  BY <1>1, SourcesApart DEF InStepInv, OperationsInv
<1>4. /\ Keeps({}) /\ WholeInv' /\ SpanOf(n)' = NewSpan("HostInt", g.call, e)
      /\ FirstEvent(n)' = e
  BY <1>1, <1>2, <1>3, StartingIs
<1>5. h.pci = g.pci /\ h.int = n /\ h.mmios = g.mmios
  <2>1. g \in HostRecords
    BY <1>1, HostMembersAre
  <2>2. QED
    BY <1>1, <2>1 DEF HostRecords
<1>6. HostBecomes(m, h)
  BY <1>2, HostChanges
<1>7. PICK sp : /\ sp = SpanOf(n)' /\ sp.kind = "HostInt" /\ sp.events = <<e>>
                /\ sp.pending = ~Completes("HostInt", e)
  BY <1>4, NewSpanIs, NewSpanHas
<1>8. BegunBy(n)'
  <2>1. ~Completes("HostInt", e)
    BY <1>2 DEF Completes
  <2>2. sp.pending
    BY <1>7, <2>1
  <2>3. SpanOf(n)'.pending /\ SpanOf(n)'.kind = "HostInt" /\ SpanOf(n)'.events = <<e>>
    BY <1>7, <2>2
  <2>4. QED
    BY <1>2, <2>3 DEF BegunBy
<1>9. \A y \in Ids(p) : SpanOf(y)' = SpanOf(y)
  BY <1>3, <1>4 DEF Keeps
<1>10. ASSUME NEW y \in Begun(m)'
       PROVE  \/ y \in Begun(m) /\ SpanOf(y)' = SpanOf(y)
              \/ y = n /\ BegunBy(n)' /\ FirstEvent(n)' = e
  <2>1. \/ y = n \/ (y # None /\ y = g.pci)
        \/ y \in Listing(g.mmios) /\ SpanOf(y)'.pending
    BY <1>5, <1>6, BegunNext DEF HostBecomes
  <2>2. CASE y # None /\ y = g.pci
    <3>1. y \in Begun(m) /\ y \in Ids(p)
      BY <1>1, <2>2, BegunAre DEF OfKind
    <3>2. QED
      BY <1>9, <3>1
  <2>3. CASE y \in Listing(g.mmios) /\ SpanOf(y)'.pending
    <3>1. y \in Ids(p)
      BY <1>1, <2>3, BegunAre DEF OfKind
    <3>2. QED
      BY <1>1, <1>9, <2>3, <3>1, BegunAre
  <2>4. QED
    BY <1>4, <1>8, <2>1, <2>2, <2>3
<1>11. e.type \notin Endings /\ e = Event(Host(m))
  BY <1>1, <1>2 DEF Endings
<1>12. PICK X : X = {} /\ Keeps(X) /\ X \subseteq Ids(Host(m))
  BY <1>4
<1>13. QED
  BY <1>2, <1>4, <1>6, <1>10, <1>11, <1>12, HostBegins

(* System calls are not looked at.                                         *)
LEMMA CallsWhole ==
  ASSUME KindsInv, InStepInv, OperationsInv, NEW m \in Machines, UNCHANGED nic, CallsOnly(m),
         \/ /\ log[Host(m)] # <<>> /\ Consume(Host(m))
            /\ Event(Host(m)).type = "HostCall"
         \/ log' = log
  PROVE  OperationsInv'
<1>1. LogsInv /\ WholeInv /\ BegunInv(m)
  BY DEF InStepInv, OperationsInv
<1>2. PICK h, X : h = host'[m] /\ X = Calls(m)
  OBVIOUS
<1>3. HostBecomes(m, h) /\ h.pci = host[m].pci /\ h.int = host[m].int /\ h.mmios = host[m].mmios
  BY <1>2 DEF CallsOnly, HostBecomes
<1>4. Keeps(X) /\ X \subseteq Ids(Host(m)) /\ X \cap OfKind(Host(m), Accessed) = {}
  BY <1>2 DEF CallsOnly, Calls, OfKind, Accessed
<1>5. ASSUME NEW q \in Spanners, NEW y \in Ids(q)'
      PROVE  (y \in Ids(q) /\ y \notin X) \/ Whole(y)'
  <2>1. y \in Ids(q) \/ SpanOf(y)'.kind = "HostCall"
    BY DEF CallsOnly
  <2>2. CASE SpanOf(y)'.kind = "HostCall"
    BY <2>2, CallWhole
  <2>3. CASE y \in X
    <3>1. SpanOf(y).kind = "HostCall" /\ y \in Ids(Host(m)) /\ Host(m) \in Sources
      BY <1>2, <2>3, SourcesApart DEF Calls, OfKind
    <3>2. SpanOf(y)'.kind = "HostCall"
      BY <1>4, <3>1 DEF Keeps, KindsKept
    <3>3. QED
      BY <3>2, CallWhole
  <2>4. QED
    BY <2>1, <2>2, <2>3
<1>6. WholeInv'
  BY <1>1, <1>4, <1>5, WholeStays
<1>7. CASE log[Host(m)] # <<>> /\ Consume(Host(m)) /\ Event(Host(m)).type = "HostCall"
  <2>1. Event(Host(m)).type \notin Endings
    BY <1>7 DEF Endings
  <2>2. QED
    BY <1>1, <1>3, <1>4, <1>6, <1>7, <2>1, HostGoesBy
<1>8. CASE log' = log
  <2>1. BegunStay(m)
    BY <1>3, <1>4, BegunKept DEF HostBecomes
  <2>2. BegunInv(m)'
    BY <1>1, <1>8, <2>1, BegunLasts
  <2>3. X \subseteq Ids(Host(m)) \cup Ids(Nic(m))
    BY <1>4
  <2>4. \A n \in Machines : n # m => host'[n] = host[n] /\ log'[Host(n)] = log[Host(n)]
    BY <1>3, <1>8 DEF HostBecomes
  <2>5. QED
    BY <1>4, <1>6, <2>2, <2>3, <2>4, OperationsReached
<1>9. QED
  BY <1>7, <1>8

(* What the card told the host to expect is ended by its own completion.   *)
LEMMA HostCompletesOwn ==
  ASSUME KindsInv, InStepInv, OperationsInv, NEW m \in Machines, NEW h, HostBecomes(m, h),
         h.pci = host[m].pci, h.int = host[m].int, h.mmios = host[m].mmios,
         log[Host(m)] # <<>>, Consume(Host(m)), NEW e, e = Event(Host(m)), e.type = "HostDmaC",
         NEW id \in HostOpen(m), id \in OfKind(Host(m), {"HostDma", "HostMsix"}),
         FirstEvent(id).id = e.id, spans' = Update(id, Add(SpanOf(id), e))
  PROVE  OperationsInv'
<1>1. LogsInv /\ EventsInv /\ WholeInv /\ HostHalf(m)
  BY DEF InStepInv, OperationsInv, PeersInv
<1>2. PICK L, L2, D : L = log[Host(m)] /\ L2 = log'[Host(m)] /\ D = HostOpen(m)
  OBVIOUS
<1>3. Taken(L2, L) /\ e = L[1]
  BY <1>1, <1>2, Consuming, SourcesApart DEF Consumed
<1>4. InTurn(UsesOf(D), L, Opens, {"HostDmaC"})
  BY <1>1, <1>2 DEF HostHalf
<1>5. L[1].type \in {"HostDmaC"} /\ L[1].type \notin Opens
  BY <1>3 DEF Opens, HostDmaExecution
<1>6. L[1].op = FirstEvent(id).op
  BY <1>2, <1>3, <1>4, <1>5, ClosesOwn
<1>7. PICK p : p = Host(m) /\ p \in {Host(m), Nic(m)} /\ id \in Ids(p)
  BY DEF OfKind
<1>8. /\ Keeps({id}) /\ \A q \in Sources : Ids(q)' = Ids(q)
      /\ SpanOf(id)' = Add(SpanOf(id), e)
  BY <1>1, <1>7, AddingKeeps
<1>9. e.op = FirstEvent(id).op
  BY <1>3, <1>6
<1>10. WholeInv'
  BY ONLY <1>1, <1>7, <1>8, <1>9, KindsInv, m \in Machines, AddingWhole
<1>11. PICK X : X = {id}
  OBVIOUS
<1>12. Keeps(X) /\ X \subseteq Ids(Host(m)) /\ X \cap OfKind(Host(m), Accessed) = {}
  BY <1>7, <1>8, <1>11 DEF OfKind, Accessed
<1>13. Event(Host(m)).type \notin Endings
  BY DEF Endings
<1>14. QED
  BY <1>1, <1>10, <1>12, <1>13, HostGoesBy

(* HandelDma ends an interrupt or a dma.                                   *)
LEMMA EndMsixWhole ==
  ASSUME KindsInv, InStepInv, OperationsInv, NEW m \in Machines, EndMsix(m), UNCHANGED nic
  PROVE  OperationsInv'
<1>1. PICK e, g, id, h : /\ e = Event(Host(m)) /\ g = host[m] /\ id = g.msix
                         /\ h = [g EXCEPT !.msix = None]
  OBVIOUS
<1>2. /\ log[Host(m)] # <<>> /\ Consume(Host(m)) /\ e.type \in HostDmaTypes
      /\ id # None /\ CanAdd(SpanOf(id), e)
      /\ spans' = Update(id, Add(SpanOf(id), e)) /\ host' = [host EXCEPT ![m] = h]
  BY <1>1 DEF EndMsix, EndsMsix, At
<1>3. g \in HostRecords /\ HostHalf(m) /\ id \in OfKind(Host(m), {"HostMsix"})
  BY <1>1, <1>2, HostMembersAre DEF InStepInv, PeersInv
<1>4. h.pci = g.pci /\ h.int = g.int /\ h.mmios = g.mmios
  BY <1>1, <1>3 DEF HostRecords
<1>5. HostBecomes(m, h)
  BY <1>2, HostChanges
<1>6. e.type = "HostDmaC" /\ e.id = 0
  BY <1>1, <1>2, <1>3, HostOpenTakes
<1>7. id \in HostOpen(m) /\ FirstEvent(id).id = 0
  BY <1>1, <1>2, <1>3, OpenAre DEF HostHalf
<1>8. id \in OfKind(Host(m), {"HostDma", "HostMsix"})
  BY <1>3 DEF OfKind
<1>9. QED
  BY <1>1, <1>2, <1>4, <1>5, <1>6, <1>7, <1>8, HostCompletesOwn

(* The same of a dma.                                                      *)
LEMMA EndDmaWhole ==
  ASSUME KindsInv, InStepInv, OperationsInv, NEW m \in Machines, EndDma(m), UNCHANGED nic
  PROVE  OperationsInv'
<1>1. PICK e, g, i, id, w, h :
        /\ e = Event(Host(m)) /\ g = host[m] /\ i = First(Taking(g.dmas, e)) /\ id = g.dmas[i]
        /\ w = Without(g.dmas, i) /\ h = [g EXCEPT !.dmas = w]
  OBVIOUS
<1>2. /\ log[Host(m)] # <<>> /\ Consume(Host(m)) /\ e.type \in HostDmaTypes
      /\ Taking(g.dmas, e) # {}
      /\ spans' = Update(id, Add(SpanOf(id), e)) /\ host' = [host EXCEPT ![m] = h]
  BY <1>1 DEF EndDma, At
<1>3. /\ g \in HostRecords /\ g.dmas \in Seq(SpannerIds)
      /\ AllOf(g.dmas, Host(m), "HostDma") /\ HostHalf(m)
  BY <1>1, HostMembersAre DEF InStepInv, PeersInv, HostRecords, HostNames
<1>4. h.pci = g.pci /\ h.int = g.int /\ h.mmios = g.mmios
  BY <1>1, <1>3 DEF HostRecords
<1>5. HostBecomes(m, h)
  BY <1>2, HostChanges
<1>6. i \in DOMAIN g.dmas /\ CanAdd(SpanOf(id), e)
  <2>1. i \in DOMAIN g.dmas
    BY <1>1, <1>2, <1>3, TakingFirst
  <2>2. Taking(g.dmas, e) \in SUBSET Nat
    BY <1>3 DEF Taking
  <2>3. i \in Taking(g.dmas, e)
    BY <1>1, <1>2, <2>2, FirstOf
  <2>4. QED
    BY <1>1, <2>1, <2>3 DEF Taking
<1>7. e.type = "HostDmaC" /\ e.id = FirstEvent(id).id
  BY <1>1, <1>2, <1>3, <1>6, HostOpenTakes
<1>8. id \in HostOpen(m)
  BY <1>1, <1>6, OpenAre
<1>9. id \in OfKind(Host(m), {"HostDma", "HostMsix"})
  BY <1>1, <1>3, <1>6 DEF AllOf, OfKind
<1>10. QED
  BY <1>1, <1>2, <1>4, <1>5, <1>7, <1>8, <1>9, HostCompletesOwn

(* A span is started with an event that the card told the host to expect.  *)
LEMMA HostStartsExpected ==
  ASSUME KindsInv, InStepInv, OperationsInv, NEW m \in Machines, NEW h, HostBecomes(m, h),
         h.pci = host[m].pci, h.int = host[m].int, h.mmios = host[m].mmios,
         log[Host(m)] # <<>>, Consume(Host(m)), NEW e, e = Event(Host(m)), e.type \notin Endings,
         NEW kind \in {"HostDma", "HostMsix"}, NEW parent,
         spans' = Append1(Host(m), NewSpan(kind, parent, e))
  PROVE  OperationsInv'
<1>1. PICK p, n : p = Host(m) /\ p \in Spanners /\ n = NextId(p)
  BY SourcesApart
<1>2. EventsInv /\ WholeInv /\ LogsInv
  BY DEF InStepInv, OperationsInv
<1>3. spans' = Append1(p, NewSpan(kind, parent, e)) /\ kind # "HostMmio"
  BY <1>1
<1>4. Keeps({}) /\ WholeInv'
  BY <1>1, <1>2, <1>3, StartingIs
<1>5. PICK X : X = {}
  OBVIOUS
<1>6. Keeps(X) /\ X \subseteq Ids(Host(m)) /\ X \cap OfKind(Host(m), Accessed) = {}
  BY <1>4, <1>5
<1>7. Event(Host(m)).type \notin Endings
  OBVIOUS
<1>8. QED
  BY <1>2, <1>4, <1>6, <1>7, HostGoesBy

(* HandelDma and HandelMsix start one.                                     *)
LEMMA StartDmaWhole ==
  ASSUME KindsInv, InStepInv, OperationsInv, NEW m \in Machines,
         StartDma(m) \/ StartMsix(m), UNCHANGED nic
  PROVE  OperationsInv'
<1>1. PICK e, g, c, n : /\ e = Event(Host(m)) /\ g = host[m] /\ n = NextId(Host(m))
                        /\ c = Front(FromNic(m)).parent
  OBVIOUS
<1>2. log[Host(m)] # <<>> /\ Consume(Host(m)) /\ e.type \notin Endings
  BY <1>1 DEF StartDma, StartMsix, AtNewDma, AtMsix, At, HostDmaTypes, HostDmaExecution, Endings
<1>3. g \in HostRecords
  BY <1>1, HostMembersAre
<1>4. CASE StartDma(m)
  <2>1. PICK w, h : w = Append(g.dmas, n) /\ h = [g EXCEPT !.dmas = w]
    OBVIOUS
  <2>2. host' = [host EXCEPT ![m] = h] /\ spans' = Append1(Host(m), NewSpan("HostDma", c, e))
    BY <1>1, <1>4, <2>1 DEF StartDma
  <2>3. h.pci = g.pci /\ h.int = g.int /\ h.mmios = g.mmios
    BY <1>3, <2>1 DEF HostRecords
  <2>4. HostBecomes(m, h)
    BY <2>2, HostChanges
  <2>5. QED
    BY <1>1, <1>2, <2>2, <2>3, <2>4, HostStartsExpected
<1>5. CASE StartMsix(m)
  <2>1. PICK h : h = [g EXCEPT !.msix = n]
    OBVIOUS
  <2>2. host' = [host EXCEPT ![m] = h] /\ spans' = Append1(Host(m), NewSpan("HostMsix", c, e))
    BY <1>1, <1>5, <2>1 DEF StartMsix
  <2>3. h.pci = g.pci /\ h.int = g.int /\ h.mmios = g.mmios
    BY <1>3, <2>1 DEF HostRecords
  <2>4. HostBecomes(m, h)
    BY <2>2, HostChanges
  <2>5. QED
    BY <1>1, <1>2, <2>2, <2>3, <2>4, HostStartsExpected
<1>6. QED
  BY <1>4, <1>5

(* An event that no handler is registered for ends nothing.                *)
LEMMA SkipHostWhole ==
  ASSUME KindsInv, InStepInv, OperationsInv, NEW m \in Machines, SkipHost(m), UNCHANGED nic
  PROVE  OperationsInv'
<1>1. /\ log[Host(m)] # <<>> /\ Consume(Host(m)) /\ Event(Host(m)).type \notin HostTypes
      /\ spans' = spans /\ host' = host
  BY DEF SkipHost, Skip
<1>2. PICK X, g : X = {} /\ g = host[m]
  OBVIOUS
<1>3. Keeps(X) /\ X \subseteq Ids(Host(m)) /\ X \cap OfKind(Host(m), Accessed) = {}
  BY <1>1, <1>2, SameKeeps DEF InStepInv
<1>4. HostBecomes(m, g)
  BY <1>1, <1>2 DEF HostBecomes
<1>5. WholeInv'
  BY <1>1 DEF OperationsInv, WholeInv, Whole, Ids, SpanOf, FirstEvent
<1>6. Event(Host(m)).type \notin Endings /\ LogsInv
  BY <1>1 DEF Endings, HostTypes, HostMmioTypes, InStepInv
<1>7. g.pci = host[m].pci /\ g.int = host[m].int /\ g.mmios = host[m].mmios
  BY <1>2
<1>8. QED
  BY <1>1, <1>3, <1>4, <1>5, <1>6, <1>7, HostGoesBy

(* Every step of a host keeps spans of one operation.                      *)
LEMMA TraceHostWhole ==
  ASSUME KindsInv, InStepInv, OperationsInv, NEW m \in Machines, TraceHost(m)
  PROVE  OperationsInv'
<1>1. NextHost(m) /\ UNCHANGED nic
  BY DEF TraceHost
<1>2. CASE NextCall(m) \/ EndOfCopies(m)
  <2>1. AtNextCall(m) /\ StartNextCall(m)
    BY <1>2 DEF NextCall, EndOfCopies
  <2>2. CallsOnly(m)
    BY <1>1, <2>1, StartNextCallInStep
  <2>3. Consume(Host(m)) /\ log[Host(m)] # <<>> /\ Event(Host(m)).type = "HostCall"
    BY <2>1 DEF AtNextCall, At, StartNextCall
  <2>4. QED
    BY <1>1, <2>2, <2>3, CallsWhole
<1>3. CASE FirstCall(m)
  <2>1. CallsOnly(m)
    BY <1>1, <1>3, FirstCallInStep
  <2>2. Consume(Host(m)) /\ log[Host(m)] # <<>> /\ Event(Host(m)).type = "HostCall"
    BY <1>3 DEF FirstCall, At
  <2>3. QED
    BY <1>1, <2>1, <2>2, CallsWhole
<1>4. CASE AddToCall(m)
  <2>1. CallsOnly(m)
    BY <1>1, <1>4, AddToCallInStep
  <2>2. Consume(Host(m)) /\ log[Host(m)] # <<>> /\ Event(Host(m)).type = "HostCall"
    BY <1>4 DEF AddToCall, At
  <2>3. QED
    BY <1>1, <2>1, <2>2, CallsWhole
<1>5. CASE ReceiveContext(m) \/ CopyContext(m)
  <2>1. CallsOnly(m)
    BY <1>1, <1>5, ReceiveContextInStep, CopyContextInStep
  <2>2. log' = log
    BY <1>5 DEF ReceiveContext, CopyContext
  <2>3. QED
    BY <1>1, <2>1, <2>2, CallsWhole
<1>6. CASE CannotStartMmio(m) \/ CannotHandlePci(m) \/ CannotStartInt(m)
  <2>1. HostThrows
    BY <1>6 DEF CannotStartMmio, CannotHandlePci, CannotStartInt
  <2>2. UNCHANGED <<log, spans, host>>
    BY <2>1 DEF HostThrows, Throw
  <2>3. QED
    BY <2>2, OperationsStay
<1>7. CASE UnexpectedContext(m)
  BY <1>7, NoUnexpectedContext
<1>8. QED
  BY <1>1, <1>2, <1>3, <1>4, <1>5, <1>6, <1>7, AddToMmioWhole, StartMmioWhole, EndPciWhole,
     StartPciWhole, EndMsixWhole, EndDmaWhole, StartDmaWhole, StartIntWhole, AddToIntWhole,
     SkipHostWhole DEF NextHost

--------------------------------------------------------------------------------
(* The steps of a card.                                                    *)

(* A span is started, or none.                                             *)
LEMMA NicStartsOne ==
  ASSUME KindsInv, InStepInv, OperationsInv, NEW m \in Machines, host' = host,
         log[Nic(m)] # <<>>, Consume(Nic(m)),
         \/ \E kind, parent : /\ kind # "HostMmio"
                              /\ spans' = Append1(Nic(m), NewSpan(kind, parent, Event(Nic(m))))
         \/ spans' = spans
  PROVE  OperationsInv'
<1>1. PICK p, n, e, X : /\ p = Nic(m) /\ p \in Spanners /\ n = NextId(p) /\ e = Event(p)
                        /\ X = {}
  BY SourcesApart
<1>2. EventsInv /\ WholeInv /\ LogsInv
  BY DEF InStepInv, OperationsInv
<1>3. Keeps(X) /\ WholeInv'
  <2>1. CASE spans' = spans
    <3>1. WholeInv'
      BY <1>2, <2>1 DEF WholeInv, Whole, Ids, SpanOf, FirstEvent
    <3>2. QED
      BY <1>1, <1>2, <2>1, <3>1, SameKeeps
  <2>2. ASSUME NEW kind, NEW parent, kind # "HostMmio", spans' = Append1(p, NewSpan(kind, parent, e))
        PROVE  Keeps(X) /\ WholeInv'
    <3>1. Keeps({}) /\ WholeInv'
      BY <1>1, <1>2, <2>2, StartingIs
    <3>2. QED
      BY <1>1, <3>1
  <2>3. QED
    BY <1>1, <2>1, <2>2
<1>4. X \subseteq Ids(Nic(m))
  BY <1>1
<1>5. QED
  BY <1>2, <1>3, <1>4, NicGoes

(* HandelDma gives an event to the span of its operation.                  *)
LEMMA AddToDmaWhole ==
  ASSUME KindsInv, InStepInv, OperationsInv, NEW m \in Machines, AddToDma(m), UNCHANGED host
  PROVE  OperationsInv'
<1>1. PICK e, i, id : /\ e = Event(Nic(m)) /\ i = First(Taking(nic[m].dmas, e))
                      /\ id = nic[m].dmas[i]
  OBVIOUS
<1>2. DmaGoes(m, e, id)
  BY <1>1, DmaGoesOn
<1>3. /\ log[Nic(m)] # <<>> /\ Consume(Nic(m))
      /\ id \in NicOpen(m) /\ id \in Ids(Nic(m)) /\ e.id = FirstEvent(id).id
      /\ \/ e.type = "NicDmaEx" /\ ~Executed(id)
         \/ e.type \in {"NicDmaCW", "NicDmaCR"} /\ Executed(id)
      /\ Keeps({id}) /\ SpanOf(id)' = Add(SpanOf(id), e)
  BY <1>2 DEF DmaGoes
<1>4. LogsInv /\ EventsInv /\ WholeInv /\ NicHalf(m)
  BY DEF InStepInv, OperationsInv, PeersInv
<1>5. PICK L, L2 : L = log[Nic(m)] /\ L2 = log'[Nic(m)]
  OBVIOUS
<1>6. Taken(L2, L) /\ e = L[1]
  BY <1>1, <1>3, <1>4, <1>5, Consuming, SourcesApart DEF Consumed
<1>7. e.op = FirstEvent(id).op
  <2>1. CASE e.type = "NicDmaEx" /\ ~Executed(id)
    <3>1. PICK D, A, C : D = NicIssued(m) /\ A = {"NicDmaI"} /\ C = {"NicDmaEx"}
      OBVIOUS
    <3>2. InTurn(UsesOf(D), L, A, C) /\ id \in D
      BY <1>3, <1>4, <1>5, <2>1, <3>1 DEF NicHalf, NicIssued
    <3>3. L[1].type \in C /\ L[1].type \notin A /\ FirstEvent(id).id = L[1].id
      BY <1>3, <1>6, <2>1, <3>1
    <3>4. L[1].op = FirstEvent(id).op
      BY ONLY <1>6, <3>2, <3>3, ClosesOwn
    <3>5. QED
      BY <1>6, <3>4
  <2>2. CASE e.type \in {"NicDmaCW", "NicDmaCR"} /\ Executed(id)
    <3>1. PICK D, A, C : D = NicExecuted(m) /\ A = {"NicDmaEx"} /\ C = {"NicDmaCW", "NicDmaCR"}
      OBVIOUS
    <3>2. InTurn(UsesOf(D), L, A, C) /\ id \in D
      BY <1>3, <1>4, <1>5, <2>2, <3>1 DEF NicHalf, NicExecuted
    <3>3. L[1].type \in C /\ L[1].type \notin A /\ FirstEvent(id).id = L[1].id
      BY <1>3, <1>6, <2>2, <3>1
    <3>4. L[1].op = FirstEvent(id).op
      BY ONLY <1>6, <3>2, <3>3, ClosesOwn
    <3>5. QED
      BY <1>6, <3>4
  <2>3. QED
    BY <1>3, <2>1, <2>2
<1>8. \A q \in Sources : Ids(q)' = Ids(q)
  <2>1. spans' = Update(id, Add(SpanOf(id), e))
    BY <1>1 DEF AddToDma
  <2>2. Nic(m) \in {Host(m), Nic(m)}
    OBVIOUS
  <2>3. QED
    BY <1>3, <1>4, <2>1, <2>2, AddingKeeps
<1>9. WholeInv'
  <2>1. Nic(m) \in {Host(m), Nic(m)}
    OBVIOUS
  <2>2. QED
    BY <1>3, <1>4, <1>7, <1>8, <2>1, AddingWhole
<1>10. PICK X : X = {id} /\ Keeps(X) /\ X \subseteq Ids(Nic(m)) /\ host' = host
  BY <1>3
<1>11. QED
  BY <1>3, <1>4, <1>9, <1>10, NicGoes

(* Every step of a card keeps spans of one operation.                      *)
LEMMA TraceNicWhole ==
  ASSUME KindsInv, InStepInv, OperationsInv, NEW m \in Machines, TraceNic(m)
  PROVE  OperationsInv'
<1>1. NextNic(m) /\ host' = host
  BY DEF TraceNic
<1>2. PICK c, d, f, e : /\ c = Front(ToNic(m)).parent /\ d = nic[m].lastCausing
                        /\ f = Front(FromNet(m)).parent /\ e = Event(Nic(m))
  OBVIOUS
<1>3. CASE Mmio(m)
  <2>1. log[Nic(m)] # <<>> /\ Consume(Nic(m))
        /\ (spans' = Append1(Nic(m), NewSpan("NicMmio", c, e)) \/ spans' = spans)
    BY <1>2, <1>3 DEF Mmio, At
  <2>2. QED
    BY <1>1, <1>2, <2>1, NicStartsOne
<1>4. CASE IssueDma(m)
  <2>1. log[Nic(m)] # <<>> /\ Consume(Nic(m)) /\ spans' = Append1(Nic(m), NewSpan("NicDma", d, e))
    BY <1>2, <1>4 DEF IssueDma, At
  <2>2. QED
    BY <1>1, <1>2, <2>1, NicStartsOne
<1>5. CASE Transmit(m)
  <2>1. log[Nic(m)] # <<>> /\ Consume(Nic(m)) /\ spans' = Append1(Nic(m), NewSpan("NicEth", d, e))
    BY <1>2, <1>5 DEF Transmit, At
  <2>2. QED
    BY <1>1, <1>2, <2>1, NicStartsOne
<1>6. CASE Receive(m)
  <2>1. log[Nic(m)] # <<>> /\ Consume(Nic(m)) /\ spans' = Append1(Nic(m), NewSpan("NicEth", f, e))
    BY <1>2, <1>6 DEF Receive, At
  <2>2. QED
    BY <1>1, <1>2, <2>1, NicStartsOne
<1>7. CASE Msix(m)
  <2>1. log[Nic(m)] # <<>> /\ Consume(Nic(m)) /\ spans' = Append1(Nic(m), NewSpan("NicMsix", d, e))
    BY <1>2, <1>7 DEF Msix, At
  <2>2. QED
    BY <1>1, <1>2, <2>1, NicStartsOne
<1>8. CASE UnexpectedDma(m)
  BY <1>8, NoUnexpectedDma
<1>9. CASE NicThrows(m)
  <2>1. UNCHANGED <<log, spans, host>>
    BY <1>1, <1>9 DEF NicThrows, Throw
  <2>2. QED
    BY <2>1, OperationsStay
<1>10. CASE SkipNic(m)
  <2>1. log[Nic(m)] # <<>> /\ Consume(Nic(m)) /\ spans' = spans
    BY <1>10 DEF SkipNic, Skip
  <2>2. QED
    BY <1>1, <2>1, NicStartsOne
<1>11. CASE AddToDma(m)
  BY <1>1, <1>11, AddToDmaWhole
<1>12. QED
  BY <1>1, <1>3, <1>4, <1>5, <1>6, <1>7, <1>8, <1>9, <1>10, <1>11 DEF NextNic

--------------------------------------------------------------------------------
(* The simulation leaves logs that it is so in.                            *)
LEMMA OperationsBegin ==
  ASSUME KindsInv, SimulationIn
  PROVE  OperationsInv
<1>1. PICK s, P : s = scenario /\ P = progress /\ s \in DOMAIN Scripts
  BY DEF KindsInv, SimulationInv
<1>2. PICK H : HistoryOf(H, s, P)
  BY <1>1 DEF SimulationIn
<1>3. WholeInv
  BY DEF SimulationIn, WholeInv, Ids
<1>4. ASSUME NEW m \in Machines PROVE BegunInv(m)
  <2>1. PICK p, L, h : p = Host(m) /\ p \in Spanners /\ L = log[p] /\ h = H[p]
    BY SourcesApart
  <2>2. History(s, p, P, L, h)
    BY <1>2, <2>1 DEF HistoryOf
  <2>3. EndsOfItsOwn(s, Occurrences(s, p))
    BY <1>1, <2>1, EndsAssumption
  <2>4. EndsInLog(L)
    BY <1>1, <2>1, <2>2, <2>3, LogEnds
  <2>5. Begun(m) = {}
    <3>1. host[m] = HostMembers
      BY DEF SimulationIn, Unheard
    <3>2. host[m].pci = None /\ host[m].int = None /\ host[m].mmios = <<>>
      BY <3>1 DEF HostMembers
    <3>3. QED
      BY <3>2 DEF Begun, Listing
  <2>6. QED
    BY <2>1, <2>4, <2>5 DEF BegunInv
<1>5. QED
  BY <1>3, <1>4 DEF OperationsInv

(* It is so as long as the spanners run.                                   *)
OperationInv == ParentInv /\ (tracing => OperationsInv)

(* Every step keeps the invariant.                                         *)
LEMMA OperationNext ==
  ASSUME OperationInv, [Next]_vars
  PROVE  OperationInv'
<1>1. ParentInv' /\ ParentInv
  BY ParentNext DEF OperationInv
<1>2. KindsInv /\ cut = TRUE /\ (~tracing => SimulationIn) /\ (tracing => InStepInv)
      /\ (tracing => OperationsInv)
  BY DEF OperationInv, ParentInv
<1>3. ASSUME NEW o \in Operations, Simulate(o) PROVE ~tracing'
  BY <1>3 DEF Simulate
<1>4. ~BeginLogs
  BY <1>2 DEF BeginLogs
<1>5. ASSUME EndLogs PROVE OperationsInv'
  <2>1. ~tracing /\ UNCHANGED <<log, spans, host>>
    BY <1>5 DEF EndLogs
  <2>2. OperationsInv
    BY <1>2, <2>1, OperationsBegin
  <2>3. QED
    BY <2>1, <2>2, OperationsStay
<1>6. ASSUME NEW m \in Machines, TraceHost(m) \/ TraceNic(m) PROVE OperationsInv'
  <2>1. tracing
    BY <1>6 DEF TraceHost, TraceNic
  <2>2. QED
    BY <1>2, <1>6, <2>1, TraceHostWhole, TraceNicWhole
<1>7. ASSUME UNCHANGED vars PROVE tracing' => OperationsInv'
  <2>1. tracing' = tracing /\ UNCHANGED <<log, spans, host>>
    BY <1>7 DEF vars, simulation
  <2>2. QED
    BY <1>2, <2>1, OperationsStay
<1>8. tracing' => OperationsInv'
  BY <1>3, <1>4, <1>5, <1>6, <1>7 DEF Next
<1>9. QED
  BY <1>1, <1>8 DEF OperationInv

(* And what it says of events.                                             *)
LEMMA OperationsAreOne == OperationInv => OneOperation
<1> SUFFICES ASSUME OperationInv, NEW id \in AllIds, SpanOf(id).kind # "HostCall",
                    NEW i \in DOMAIN SpanOf(id).events, NEW j \in DOMAIN SpanOf(id).events
             PROVE  SpanOf(id).events[i].op = SpanOf(id).events[j].op
  BY DEF OneOperation
<1>1. PICK p \in Spanners : id \in Ids(p)
  BY DEF AllIds
<1>2. tracing
  <2> SUFFICES ASSUME ~tracing PROVE FALSE
    OBVIOUS
  <2>1. spans[p] = <<>>
    BY DEF OperationInv, ParentInv, SimulationIn
  <2>2. QED
    BY <1>1, <2>1 DEF Ids
<1>3. Whole(id)
  BY <1>1, <1>2 DEF OperationInv, OperationsInv, WholeInv
<1>4. QED
  BY <1>3 DEF Whole

(* OneOperation: a span is made of the events of one operation, however    *)
(* many accesses, interrupts and dmas are pending at the same time: a      *)
(* spanner that looks for the span an event belongs to finds the right     *)
(* one.  The logs are read from their beginning.                           *)
THEOREM OneOperationAlways == ASSUME ~Window PROVE Spec => []OneOperation
<1>1. Init => OperationInv
  <2> SUFFICES ASSUME Init PROVE OperationInv
    OBVIOUS
  <2>1. KindsInv
    BY KindsInit
  <2>2. cut = TRUE /\ ~tracing
    BY DEF Init
  <2>3. SimulationIn
    BY SimulationBegins
  <2>4. QED
    BY <2>1, <2>2, <2>3 DEF OperationInv, ParentInv
<1>2. OperationInv /\ [Next]_vars => OperationInv'
  BY OperationNext
<1>3. QED
  BY <1>1, <1>2, OperationsAreOne, PTL DEF Spec
================================================================================
