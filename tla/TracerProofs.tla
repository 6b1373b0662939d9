------------------------------ MODULE TracerProofs ------------------------------
(***************************************************************************)
(* Theorems about Tracer, for every set of spanners and every number of    *)
(* spans and contexts: no check of tracer, trace or exporter ever fails,   *)
(* finished spans are exported or wait for their parents, and traces are   *)
(* trees that are exported as a whole.                                     *)
(***************************************************************************)
EXTENDS Tracer, TLAPS

(* The lock is held while spans are exported, and only then.               *)
LockInv == lock = NoSpanner <=> frames = <<>>

(* Parents are spans.                                                      *)
ParentsKnown == \A s \in Known : HasParent(s) => spans[s].parent \in Known

(* A waiter is finished and is entered below its parent.                   *)
WaitingInv ==
  \A q \in Ids, s \in Ids : s \in waiting_list_[q] => s \in done /\ spans[s].parent = q

(* Parents are exported first.                                             *)
ExportedInv ==
  \A s \in exported_spans_ :
    /\ context_map_[s] # NoParent
    /\ HasParent(s) => spans[s].parent \in exported_spans_

(* An activation exports the children of one exported span, and no two     *)
(* activations those of the same.                                          *)
FramesInv ==
  /\ \A i \in DOMAIN frames :
       /\ frames[i].parent \in exported_spans_
       /\ \A w \in frames[i].waiters :
            /\ w \in done /\ w \notin exported_spans_
            /\ spans[w].parent = frames[i].parent
  /\ \A i, j \in DOMAIN frames : frames[i].parent = frames[j].parent => i = j

(* A finished span that is not exported waits for its parent or is about   *)
(* to be exported by an activation; only activations leave entries behind. *)
NoneForgotten ==
  /\ \A s \in done \ exported_spans_ :
       /\ HasParent(s)
       /\ \/ s \in waiting_list_[spans[s].parent]
             /\ spans[s].parent \notin exported_spans_
          \/ \E i \in DOMAIN frames : s \in frames[i].waiters
  /\ \A q \in exported_spans_ :
       waiting_list_[q] # {} => \E i \in DOMAIN frames : frames[i].parent = q

(* The members of a trace carry its id, and a span without a parent is in  *)
(* the trace it started until it is exported.                              *)
MembersInv ==
  /\ \A t \in Ids : \A s \in traces_[t] : spans[s].trace = t
  /\ \A s \in Known : ~HasParent(s) =>
       spans[s].trace = s /\ (s \notin exported_spans_ => s \in traces_[s])

(* A context names a span and one that it descends from.                   *)
GoodContext(con) ==
  con.parent \in Known /\ DescendsFrom(con.parent, con.trace)

(* Whoever carries a trace id descends from the span that started the      *)
(* trace, however old the id is.                                           *)
DescentInv ==
  /\ \A s \in Known : DescendsFrom(s, spans[s].trace)
  /\ \A con \in sent : GoodContext(con)
  /\ \A p \in Spanners : reading[p] # Nothing => GoodContext(reading[p])

IInv ==
  /\ TypeOK
  /\ ~terminated
  /\ LockInv
  /\ ParentsKnown
  /\ WaitingInv
  /\ ExportedInv
  /\ FramesInv
  /\ NoneForgotten
  /\ MembersInv
  /\ DescentInv
--------------------------------------------------------------------------------
(* Lemmas about the operators of Tracer.                                   *)

(* A function on 1 .. n is a sequence of length n.                         *)
LEMMA FunctionIsSequence ==
  ASSUME NEW n \in Nat, NEW S, NEW g \in [1 .. n -> S]
  PROVE  g \in Seq(S) /\ Len(g) = n
<1>1. g \in Seq(S)
  OBVIOUS
<1>2. QED
  BY <1>1

(* The elements of a sequence.                                             *)
LEMMA ElementsOfSequence ==
  ASSUME NEW S, NEW q \in Seq(S)
  PROVE  \A i \in 1 .. Len(q) : q[i] \in S
OBVIOUS

(* A sequence without its last element.                                    *)
LEMMA FrontOfSequence ==
  ASSUME NEW S, NEW q \in Seq(S), q # <<>>
  PROVE  /\ SubSeq(q, 1, Len(q) - 1) \in Seq(S)
         /\ DOMAIN SubSeq(q, 1, Len(q) - 1) = 1 .. Len(q) - 1
         /\ \A i \in 1 .. Len(q) - 1 : SubSeq(q, 1, Len(q) - 1)[i] = q[i]
OBVIOUS

(* Appending a span gives a new id and keeps the other spans.              *)
LEMMA NewSpan ==
  ASSUME TypeOK, NEW r \in Records,
         Len(spans) + 1 \in Ids, spans' = Append(spans, r)
  PROVE  /\ spans' \in Seq(Records)
         /\ Known' = Known \cup {Len(spans) + 1}
         /\ Known' \subseteq Ids
         /\ Len(spans) + 1 \notin Known
         /\ spans'[Len(spans) + 1] = r
         /\ \A s \in Known : spans'[s] = spans[s]
BY DEF TypeOK, Known, Ids

(* A step that starts a span with a context; the trace it joins gets it.   *)
LEMMA NewSpanWithContext ==
  ASSUME TypeOK, NEW p \in Spanners, NEW con \in Contexts, AddNewSpan(p, con)
  PROVE  LET s == Len(spans) + 1
             r == [owner |-> p, trace |-> con.trace, parent |-> con.parent]
         IN /\ s \in Ids
            /\ r \in Records
            /\ spans' = Append(spans, r)
            /\ traces_' \in [Ids -> SUBSET (Known \cup {s})]
            /\ \A t \in Ids : traces_[t] \subseteq traces_'[t]
            /\ \A t \in Ids : traces_'[t] \subseteq
                 traces_[t] \cup (IF t = con.trace THEN {s} ELSE {})
BY DEF AddNewSpan, Contexts, Records, TypeOK

(* What a span is below, it stays below, when a span is added or a span    *)
(* without a parent gets one: each set that counts afterwards counted      *)
(* before, up to spans that were not there.                                *)
LEMMA DescentMonotone ==
  ASSUME Known \subseteq Known', ParentsKnown,
         \A s \in Known : HasParent(s) => spans'[s].parent = spans[s].parent,
         NEW x \in Known, NEW y, DescendsFrom(x, y)
  PROVE  DescendsFrom(x, y)'
<1> SUFFICES ASSUME NEW C \in SUBSET Known', x \in C, HasParentsOfAll(C)'
             PROVE  y \in C
  BY DEF DescendsFrom
<1> DEFINE D == C \cap Known
<1>1. HasParentsOfAll(D)
  <2> SUFFICES ASSUME NEW c \in D, HasParent(c) PROVE spans[c].parent \in D
    BY DEF HasParentsOfAll
  <2>1. spans'[c].parent = spans[c].parent
    OBVIOUS
  <2>2. HasParent(c)'
    BY <2>1 DEF HasParent
  <2>3. spans[c].parent \in C
    BY <2>1, <2>2 DEF HasParentsOfAll
  <2>4. spans[c].parent \in Known
    BY DEF ParentsKnown
  <2>5. QED
    BY <2>3, <2>4
<1>2. x \in D /\ D \in SUBSET Known
  OBVIOUS
<1>3. QED
  BY <1>1, <1>2 DEF DescendsFrom

(* A span without a parent descends from itself only.                      *)
LEMMA RootDescent ==
  ASSUME NEW s \in Known, ~HasParent(s), NEW y, DescendsFrom(s, y)
  PROVE  y = s
<1>1. {s} \in SUBSET Known /\ HasParentsOfAll({s})
  BY DEF HasParentsOfAll
<1>2. QED
  BY <1>1 DEF DescendsFrom

--------------------------------------------------------------------------------
(* The invariant holds initially and is kept by every action.              *)
LEMMA InitIInv == Init => IInv
<1> SUFFICES ASSUME Init PROVE IInv
  OBVIOUS
<1>1. Known = {}
  BY DEF Init, Known
<1>2. TypeOK
  <2>1. spans \in Seq(Records) /\ frames \in Seq([parent : Ids, waiters : SUBSET Ids])
    BY DEF Init
  <2>2. context_map_ \in [Ids -> Ids \cup {NoParent}]
    BY DEF Init
  <2>3. QED
    BY <1>1, <2>1, <2>2 DEF Init, TypeOK
<1>3. FramesInv /\ NoneForgotten
  BY <1>1 DEF Init, FramesInv, NoneForgotten
<1>4. QED
  BY <1>1, <1>2, <1>3
     DEF Init, IInv, LockInv, ParentsKnown, WaitingInv, ExportedInv, MembersInv,
         DescentInv

(* The parts of the invariant that are about exporting do not notice a new *)
(* span.                                                                   *)
LEMMA ExportPartsKept ==
  ASSUME TypeOK, WaitingInv, ExportedInv, FramesInv, NoneForgotten,
         \A s \in done : spans'[s].parent = spans[s].parent,
         UNCHANGED <<done, exported_spans_, waiting_list_, frames, context_map_>>
  PROVE  WaitingInv' /\ ExportedInv' /\ FramesInv' /\ NoneForgotten'
<1>1. \A s \in done : HasParent(s)' = HasParent(s)
  BY DEF HasParent
<1>2. exported_spans_ \subseteq done
  BY DEF TypeOK
<1>3. WaitingInv'
  BY DEF WaitingInv
<1>4. ExportedInv'
  BY <1>1, <1>2 DEF ExportedInv
<1>5. FramesInv'
  BY DEF FramesInv
<1>6. NoneForgotten'
  <2>1. ASSUME NEW s \in done' \ exported_spans_'
        PROVE  /\ HasParent(s)'
               /\ \/ s \in waiting_list_'[spans'[s].parent]
                     /\ spans'[s].parent \notin exported_spans_'
                  \/ \E i \in DOMAIN frames' : s \in frames'[i].waiters
    BY <1>1, <2>1 DEF NoneForgotten
  <2>2. QED
    BY <2>1 DEF NoneForgotten
<1>7. QED
  BY <1>3, <1>4, <1>5, <1>6

(* StartSpan keeps the invariant.                                          *)
LEMMA StartSpanStep ==
  ASSUME IInv, NEW p \in Spanners, StartSpan(p)
  PROVE  IInv'
<1>0. PICK s : s = Len(spans) + 1
  OBVIOUS
<1> DEFINE r == [owner |-> p, trace |-> s, parent |-> NoParent]
<1>1. r \in Records /\ s \in Ids /\ spans' = Append(spans, r)
  BY <1>0 DEF StartSpan, Records
<1> USE DEF IInv
<1>2. /\ spans' \in Seq(Records)
      /\ Known' = Known \cup {s}
      /\ Known' \subseteq Ids
      /\ s \notin Known
      /\ spans'[s] = r
      /\ \A c \in Known : spans'[c] = spans[c]
  BY <1>0, <1>1, NewSpan
<1> HIDE DEF r
<1>3. TypeOK'
  <2>1. traces_' \in [Ids -> SUBSET Known']
    BY <1>0, <1>1, <1>2 DEF StartSpan, TypeOK
  <2>2. QED
    BY <1>2, <2>1 DEF StartSpan, TypeOK
<1>4. ParentsKnown'
  BY <1>2 DEF ParentsKnown, HasParent, r
<1>5. WaitingInv' /\ ExportedInv' /\ FramesInv' /\ NoneForgotten'
  <2>1. \A c \in done : spans'[c] = spans[c]
    BY <1>2 DEF TypeOK
  <2>2. UNCHANGED <<done, exported_spans_, waiting_list_, frames, context_map_>>
    BY DEF StartSpan
  <2>3. QED
    BY <2>1, <2>2, ExportPartsKept
<1>6. MembersInv'
  <2>1. \A t \in Ids : traces_'[t] = IF t = s THEN {s} ELSE traces_[t]
    BY <1>0, <1>1 DEF StartSpan, TypeOK
  <2>2. spans'[s].trace = s
    BY <1>2 DEF r
  <2>3. ASSUME NEW t \in Ids, NEW c \in traces_'[t] PROVE spans'[c].trace = t
    <3>1. CASE t = s
      BY <2>1, <2>2, <3>1, <2>3
    <3>2. CASE t # s
      <4>1. c \in traces_[t] /\ c \in Known
        BY <2>1, <2>3, <3>2 DEF TypeOK
      <4>2. QED
        BY <1>2, <4>1 DEF MembersInv
    <3>3. QED
      BY <3>1, <3>2
  <2>4. ASSUME NEW c \in Known', ~HasParent(c)'
        PROVE  spans'[c].trace = c /\ (c \notin exported_spans_' => c \in traces_'[c])
    <3>1. CASE c = s
      BY <1>1, <2>1, <2>2, <3>1
    <3>2. CASE c # s
      <4>1. c \in Known /\ ~HasParent(c) /\ c \in Ids
        BY <1>2, <2>4, <3>2 DEF HasParent
      <4>2. spans[c].trace = c /\ (c \notin exported_spans_ => c \in traces_[c])
        BY <4>1 DEF MembersInv
      <4>3. spans'[c].trace = spans[c].trace
        BY <1>2, <4>1
      <4>4. c \in traces_[c] => c \in traces_'[c]
        BY <2>1, <4>1
      <4>5. exported_spans_' = exported_spans_
        BY DEF StartSpan
      <4>6. QED
        BY <4>2, <4>3, <4>4, <4>5
    <3>3. QED
      BY <3>1, <3>2
  <2>5. QED
    BY <2>3, <2>4 DEF MembersInv
<1>7. DescentInv'
  <2>1. \A x \in Known : \A y : DescendsFrom(x, y) => DescendsFrom(x, y)'
    BY <1>2, DescentMonotone
  <2>2. DescendsFrom(s, spans[s].trace)'
    BY <1>2 DEF DescendsFrom, r
  <2>3. \A c \in Known' : DescendsFrom(c, spans[c].trace)'
    BY <1>2, <2>1, <2>2 DEF DescentInv
  <2>4. \A con : GoodContext(con) => GoodContext(con)'
    BY <1>2, <2>1 DEF GoodContext
  <2>5. QED
    BY <2>3, <2>4 DEF DescentInv, StartSpan
<1>8. QED
  BY <1>3, <1>4, <1>5, <1>6, <1>7 DEF StartSpan, LockInv

(* A span started with a good context keeps the invariant, whichever of    *)
(* the three operations starts it.                                         *)
LEMMA AddNewSpanStep ==
  ASSUME IInv, NEW p \in Spanners, NEW con \in Contexts, GoodContext(con),
         AddNewSpan(p, con),
         sent' \subseteq sent,
         reading' \in [Spanners -> Contexts \cup {Nothing}],
         \A q \in Spanners : reading'[q] \in {reading[q], Nothing},
         UNCHANGED <<lock, done, exported_spans_, waiting_list_, frames,
                     context_map_, terminated>>
  PROVE  IInv'
<1>0. PICK s : s = Len(spans) + 1
  OBVIOUS
<1> DEFINE r == [owner |-> p, trace |-> con.trace, parent |-> con.parent]
<1> USE DEF IInv
<1>1. /\ r \in Records /\ s \in Ids /\ spans' = Append(spans, r)
      /\ traces_' \in [Ids -> SUBSET (Known \cup {s})]
      /\ \A t \in Ids : traces_[t] \subseteq traces_'[t]
      /\ \A t \in Ids : traces_'[t] \subseteq
           traces_[t] \cup (IF t = con.trace THEN {s} ELSE {})
  BY <1>0, NewSpanWithContext
<1>2. /\ spans' \in Seq(Records)
      /\ Known' = Known \cup {s}
      /\ Known' \subseteq Ids
      /\ s \notin Known
      /\ spans'[s] = r
      /\ \A c \in Known : spans'[c] = spans[c]
  BY <1>0, <1>1, NewSpan
<1>3. r.trace = con.trace /\ r.parent = con.parent /\ con.parent \in Known
  BY DEF GoodContext
<1> HIDE DEF r
<1>4. TypeOK'
  BY <1>1, <1>2 DEF TypeOK
<1>5. ParentsKnown'
  <2>1. ASSUME NEW c \in Known', HasParent(c)' PROVE spans'[c].parent \in Known'
    <3>1. CASE c = s
      BY <1>2, <1>3, <3>1
    <3>2. CASE c # s
      BY <1>2, <2>1, <3>2 DEF ParentsKnown, HasParent
    <3>3. QED
      BY <3>1, <3>2
  <2>2. QED
    BY <2>1 DEF ParentsKnown
<1>6. WaitingInv' /\ ExportedInv' /\ FramesInv' /\ NoneForgotten'
  <2>1. \A c \in done : spans'[c] = spans[c]
    BY <1>2 DEF TypeOK
  <2>2. QED
    BY <2>1, ExportPartsKept
<1>7. MembersInv'
  <2>1. ASSUME NEW t \in Ids, NEW c \in traces_'[t] PROVE spans'[c].trace = t
    <3>1. CASE c = s
      <4>1. c \notin traces_[t]
        BY <1>2, <3>1 DEF TypeOK
      <4>2. t = con.trace
        BY <1>1, <2>1, <4>1
      <4>3. QED
        BY <1>2, <1>3, <3>1, <4>2
    <3>2. CASE c # s
      <4>1. c \in traces_[t] /\ c \in Known
        BY <1>1, <2>1, <3>2 DEF TypeOK
      <4>2. QED
        BY <1>2, <4>1 DEF MembersInv
    <3>3. QED
      BY <3>1, <3>2
  <2>2. ASSUME NEW c \in Known', ~HasParent(c)'
        PROVE  spans'[c].trace = c /\ (c \notin exported_spans_' => c \in traces_'[c])
    <3>1. c # s
      <4>1. con.parent # NoParent
        BY <1>2, <1>3 DEF Ids, NoParent
      <4>2. QED
        BY <1>2, <1>3, <2>2, <4>1 DEF HasParent
    <3>2. c \in Known /\ ~HasParent(c) /\ c \in Ids
      BY <1>2, <2>2, <3>1 DEF HasParent
    <3>3. QED
      BY <1>1, <1>2, <3>2 DEF MembersInv
  <2>3. QED
    BY <2>1, <2>2 DEF MembersInv
<1>8. DescentInv'
  <2>1. \A x \in Known : \A y : DescendsFrom(x, y) => DescendsFrom(x, y)'
    BY <1>2, DescentMonotone
  <2>2. DescendsFrom(s, con.trace)'
    <3>1. DescendsFrom(con.parent, con.trace)'
      BY <2>1 DEF GoodContext
    <3>2. HasParent(s)' /\ spans'[s].parent = con.parent
      BY <1>2, <1>3 DEF HasParent, Ids, NoParent
    <3>3. QED
      BY <3>1, <3>2 DEF DescendsFrom, HasParentsOfAll
  <2>3. \A c \in Known' : DescendsFrom(c, spans[c].trace)'
    BY <1>2, <1>3, <2>1, <2>2 DEF DescentInv
  <2>4. \A k : GoodContext(k) => GoodContext(k)'
    BY <1>2, <2>1 DEF GoodContext
  <2>5. QED
    BY <2>3, <2>4 DEF DescentInv
<1>9. QED
  BY <1>4, <1>5, <1>6, <1>7, <1>8 DEF LockInv

(* The context of a span the spanner knows is a good one.                  *)
LEMMA OwnContext ==
  ASSUME IInv, NEW s \in Known
  PROVE  /\ [trace |-> spans[s].trace, parent |-> s] \in Contexts
         /\ GoodContext([trace |-> spans[s].trace, parent |-> s])
<1>1. spans[s] \in Records
  BY DEF IInv, TypeOK, Known
<1>2. s \in Ids /\ spans[s].trace \in Ids
  BY <1>1 DEF IInv, TypeOK, Records
<1>3. QED
  BY <1>2 DEF IInv, Contexts, DescentInv, GoodContext

(* Steps that only take or pass on a context keep the invariant.           *)
LEMMA ContextStep ==
  ASSUME IInv,
         sent' \subseteq Contexts,
         \A con \in sent' : GoodContext(con),
         reading' \in [Spanners -> Contexts \cup {Nothing}],
         \A q \in Spanners : reading'[q] # Nothing => GoodContext(reading'[q]),
         UNCHANGED <<lock, spans, done, traces_, exported_spans_, waiting_list_,
                     frames, context_map_, terminated>>
  PROVE  IInv'
<1> USE DEF IInv
<1>1. TypeOK'
  BY DEF TypeOK, Known
<1>2. LockInv' /\ ParentsKnown' /\ MembersInv'
  BY DEF LockInv, ParentsKnown, MembersInv, Known, HasParent
<1>3. WaitingInv' /\ ExportedInv' /\ FramesInv' /\ NoneForgotten'
  BY ExportPartsKept
<1>4. \A x, y : DescendsFrom(x, y)' = DescendsFrom(x, y)
  BY DEF DescendsFrom, HasParentsOfAll, HasParent, Known
<1>5. DescentInv'
  BY <1>4 DEF DescentInv, GoodContext, Known
<1>6. QED
  BY <1>1, <1>2, <1>3, <1>5

(* What AddParentLazily changes.  The old trace is the one that the span   *)
(* started and exists still, it is not the one the span is moved to, and   *)
(* shares no span with that, so none of the checks fails.                  *)
LEMMA Reparented ==
  ASSUME IInv, NEW p \in Spanners, NEW s \in Known, NEW con \in sent,
         AddParentLazily(p, s, con)
  PROVE  /\ con \in Contexts /\ con.trace \in Ids /\ con.parent \in Ids
         /\ con.parent \in Known /\ DescendsFrom(con.parent, con.trace)
         /\ ~HasParent(s) /\ s \notin done /\ s \notin exported_spans_
         /\ ~DescendsFrom(con.parent, s)
         /\ s \in Ids /\ spans[s].trace = s /\ s \in traces_[s]
         /\ traces_[s] \subseteq Known /\ con.trace # s
         /\ ~terminated'
         /\ spans' \in Seq(Records) /\ Known' = Known
         /\ \A c \in Known : c # s => spans'[c].parent = spans[c].parent
         /\ spans'[s].parent = con.parent /\ spans'[s].trace = con.trace
         /\ \A c \in traces_[s] : spans'[c].trace = con.trace
         /\ \A c \in Known : c \notin traces_[s] => spans'[c].trace = spans[c].trace
         /\ \A t \in Ids : traces_'[t] =
              IF t = s THEN {}
              ELSE IF t = con.trace /\ traces_[t] # {} THEN traces_[t] \cup traces_[s]
              ELSE traces_[t]
<1> USE DEF IInv
<1>0. PICK old : old = spans[s].trace
  OBVIOUS
<1>00. PICK moved : moved = traces_[old]
  OBVIOUS
<1>1. /\ con \in Contexts /\ con.trace \in Ids /\ con.parent \in Ids
      /\ con.parent \in Known /\ DescendsFrom(con.parent, con.trace)
      /\ s \in Ids
  BY DEF TypeOK, Contexts, DescentInv, GoodContext
<1>2. /\ ~HasParent(s) /\ s \notin done /\ ~DescendsFrom(con.parent, s)
      /\ s \notin exported_spans_
  BY DEF AddParentLazily, TypeOK
<1>3. old = s /\ s \in moved /\ moved \subseteq Known
  BY <1>0, <1>00, <1>1, <1>2 DEF MembersInv, TypeOK
<1>4. con.trace # old
  BY <1>1, <1>2, <1>3
<1>5. traces_[con.trace] \cap (moved \cup {s}) = {}
  BY <1>00, <1>1, <1>3, <1>4 DEF MembersInv
<1>6. ~terminated'
  BY <1>0, <1>00, <1>3, <1>4, <1>5 DEF AddParentLazily
<1>7. /\ DOMAIN spans' = DOMAIN spans
      /\ spans'[s] = [spans[s] EXCEPT !.trace = con.trace, !.parent = con.parent]
      /\ \A c \in moved : c # s => spans'[c] = [spans[c] EXCEPT !.trace = con.trace]
      /\ \A c \in Known : c \notin moved /\ c # s => spans'[c] = spans[c]
  BY <1>0, <1>00, <1>3 DEF AddParentLazily, Known
<1>8. \A t \in Ids : traces_'[t] =
        IF t = old THEN {}
        ELSE IF t = con.trace /\ traces_[t] # {} THEN traces_[t] \cup moved \cup {s}
        ELSE traces_[t]
  BY <1>0, <1>00 DEF AddParentLazily
<1>9. spans' \in Seq(Records) /\ Known' = Known
  <2>1. \A c \in Known : spans[c] \in Records
    BY DEF TypeOK, Known
  <2>2. ASSUME NEW c \in Known PROVE spans'[c] \in Records
    <3>1. spans[c] \in Records
      BY <2>1
    <3>2. CASE c = s
      <4>1. [spans[c] EXCEPT !.trace = con.trace, !.parent = con.parent] \in Records
        BY <1>1, <3>1 DEF Records
      <4>2. QED
        BY <1>7, <3>2, <4>1
    <3>3. CASE c \in moved /\ c # s
      <4>1. [spans[c] EXCEPT !.trace = con.trace] \in Records
        BY <1>1, <3>1 DEF Records
      <4>2. QED
        BY <1>7, <3>3, <4>1
    <3>4. CASE c \notin moved /\ c # s
      BY <1>7, <3>1, <3>4
    <3>5. QED
      BY <3>2, <3>3, <3>4
  <2>3. PICK n \in Nat : DOMAIN spans = 1 .. n
    BY DEF TypeOK
  <2>4. spans' = [c \in Known |-> spans'[c]]
    BY DEF AddParentLazily
  <2>5. spans' \in [1 .. n -> Records]
    BY <2>2, <2>3, <2>4 DEF Known
  <2>6. \A f \in [1 .. n -> Records] : f \in Seq(Records)
    BY <2>3
  <2>7. QED
    BY <1>7, <2>5, <2>6 DEF Known
<1>10. /\ \A c \in Known : c # s => spans'[c].parent = spans[c].parent
       /\ spans'[s].parent = con.parent /\ spans'[s].trace = con.trace
       /\ \A c \in moved : spans'[c].trace = con.trace
       /\ \A c \in Known : c \notin moved => spans'[c].trace = spans[c].trace
  <2>1. \A c \in Known : spans[c] \in Records
    BY DEF TypeOK, Known
  <2>2. \A c \in moved : c # s => /\ spans'[c].trace = con.trace
                                  /\ spans'[c].parent = spans[c].parent
    <3>1. ASSUME NEW c \in moved, c # s
          PROVE  spans'[c].trace = con.trace /\ spans'[c].parent = spans[c].parent
      <4>1. spans'[c] = [spans[c] EXCEPT !.trace = con.trace] /\ spans[c] \in Records
        BY <1>3, <1>7, <2>1, <3>1
      <4>2. QED
        BY <4>1 DEF Records
    <3>2. QED
      BY <3>1
  <2>3. spans'[s].parent = con.parent /\ spans'[s].trace = con.trace
    <3>1. spans'[s] = [spans[s] EXCEPT !.trace = con.trace, !.parent = con.parent]
          /\ spans[s] \in Records
      BY <1>3, <1>7, <2>1
    <3>2. QED
      BY <3>1 DEF Records
  <2>4. \A c \in Known : c \notin moved /\ c # s => spans'[c] = spans[c]
    BY <1>7
  <2>5. QED
    BY <1>3, <2>2, <2>3, <2>4
<1>11. \A t \in Ids : traces_'[t] =
         IF t = s THEN {}
         ELSE IF t = con.trace /\ traces_[t] # {} THEN traces_[t] \cup traces_[s]
         ELSE traces_[t]
  BY <1>00, <1>3, <1>8
<1>12. QED
  BY <1>00, <1>0, <1>1, <1>2, <1>3, <1>4, <1>6, <1>9, <1>10, <1>11

(* AddParentLazily keeps the invariant: the whole trace moves below the    *)
(* new parent, which is not in it.                                         *)
LEMMA AddParentLazilyStep ==
  ASSUME IInv, NEW p \in Spanners, NEW s \in Known, NEW con \in sent,
         AddParentLazily(p, s, con)
  PROVE  IInv'
<1> USE DEF IInv
<1>00. PICK moved : moved = traces_[s]
  OBVIOUS
<1>1. /\ con \in Contexts /\ con.trace \in Ids /\ con.parent \in Ids
      /\ con.parent \in Known /\ DescendsFrom(con.parent, con.trace)
      /\ s \in Ids
  BY Reparented
<1>2. /\ ~HasParent(s) /\ s \notin done /\ ~DescendsFrom(con.parent, s)
      /\ s \notin exported_spans_
  BY Reparented
<1>3. s \in moved /\ moved \subseteq Known /\ spans[s].trace = s
  BY <1>00, Reparented
<1>4. con.trace # s
  BY Reparented
<1>6. ~terminated'
  BY Reparented
<1>8. \A t \in Ids : traces_'[t] =
        IF t = s THEN {}
        ELSE IF t = con.trace /\ traces_[t] # {} THEN traces_[t] \cup moved
        ELSE traces_[t]
  <2>1. \A t \in Ids : traces_'[t] =
          IF t = s THEN {}
          ELSE IF t = con.trace /\ traces_[t] # {} THEN traces_[t] \cup traces_[s]
          ELSE traces_[t]
    BY Reparented
  <2>2. QED
    BY <1>00, <2>1
<1>9. spans' \in Seq(Records) /\ Known' = Known
  BY Reparented
<1>10. /\ \A c \in Known : c # s => spans'[c].parent = spans[c].parent
       /\ spans'[s].parent = con.parent /\ spans'[s].trace = con.trace
       /\ \A c \in moved : spans'[c].trace = con.trace
       /\ \A c \in Known : c \notin moved => spans'[c].trace = spans[c].trace
  BY <1>00, Reparented
<1>11. QED
  <2>1. TypeOK'
    <3>1. traces_' \in [Ids -> SUBSET Known]
      BY <1>3 DEF AddParentLazily, TypeOK
    <3>2. sent' \subseteq Contexts /\ terminated' \in BOOLEAN
      BY <1>6 DEF AddParentLazily, TypeOK
    <3>3. QED
      BY <1>9, <3>1, <3>2 DEF AddParentLazily, TypeOK
  <2>2. LockInv'
    BY DEF AddParentLazily, LockInv
  <2>3. ParentsKnown'
    BY <1>1, <1>9, <1>10 DEF ParentsKnown, HasParent
  <2>4. WaitingInv' /\ ExportedInv' /\ FramesInv' /\ NoneForgotten'
    <3>1. \A c \in done : c \in Known /\ c # s
      BY <1>2 DEF TypeOK
    <3>2. \A c \in done : spans'[c].parent = spans[c].parent /\ HasParent(c)' = HasParent(c)
      BY <1>10, <3>1 DEF HasParent
    <3>3. QED
      BY <3>2, ExportPartsKept DEF AddParentLazily
  <2>5. MembersInv'
    <3>1. ASSUME NEW t \in Ids, NEW c \in traces_'[t] PROVE spans'[c].trace = t
      <4>1. t # s
        BY <1>8, <3>1
      <4>2. CASE c \in moved \cup {s}
        <5>1. c \notin traces_[t]
          BY <1>00, <1>1, <1>3, <4>1, <4>2 DEF MembersInv
        <5>2. t = con.trace
          BY <1>8, <3>1, <4>1, <5>1
        <5>3. QED
          BY <1>3, <1>10, <4>2, <5>2
      <4>3. CASE c \notin moved \cup {s}
        <5>1. c \in traces_[t] /\ c \in Known
          BY <1>8, <3>1, <4>1, <4>3 DEF TypeOK
        <5>2. QED
          BY <1>10, <4>3, <5>1 DEF MembersInv
      <4>4. QED
        BY <4>2, <4>3
    <3>2. ASSUME NEW c \in Known', ~HasParent(c)'
          PROVE  spans'[c].trace = c /\ (c \notin exported_spans_' => c \in traces_'[c])
      <4>1. c # s
        BY <1>1, <1>10, <3>2 DEF HasParent, Ids, NoParent
      <4>2. c \in Known /\ ~HasParent(c) /\ c \in Ids
        BY <1>9, <1>10, <3>2, <4>1 DEF HasParent, TypeOK
      <4>3. spans[c].trace = c /\ (c \notin exported_spans_ => c \in traces_[c])
        BY <4>2 DEF MembersInv
      <4>4. c \notin moved
        BY <1>00, <1>1, <1>3, <4>1, <4>3 DEF MembersInv
      <4>5. QED
        BY <1>3, <1>8, <1>10, <4>1, <4>2, <4>3, <4>4 DEF AddParentLazily
    <3>3. QED
      BY <3>1, <3>2 DEF MembersInv
  <2>6. DescentInv'
    <3>1. \A x \in Known : \A y : DescendsFrom(x, y) => DescendsFrom(x, y)'
      BY <1>2, <1>9, <1>10, DescentMonotone
    <3>2. DescendsFrom(s, con.trace)'
      <4>1. DescendsFrom(con.parent, con.trace)'
        BY <1>1, <3>1
      <4>2. HasParent(s)' /\ spans'[s].parent = con.parent
        BY <1>1, <1>10 DEF HasParent, Ids, NoParent
      <4>3. QED
        BY <4>1, <4>2 DEF DescendsFrom, HasParentsOfAll
    <3>3. ASSUME NEW c \in moved PROVE DescendsFrom(c, con.trace)'
      <4>1. DescendsFrom(c, s)
        BY <1>00, <1>1, <1>3 DEF MembersInv, DescentInv
      <4>2. DescendsFrom(c, s)'
        BY <1>3, <3>1, <4>1
      <4>3. QED
        BY <3>2, <4>2 DEF DescendsFrom
    <3>4. ASSUME NEW c \in Known' PROVE DescendsFrom(c, spans[c].trace)'
      <4>1. CASE c \in moved
        BY <1>10, <3>3, <4>1
      <4>2. CASE c \notin moved
        BY <1>9, <1>10, <3>1, <4>2 DEF DescentInv
      <4>3. QED
        BY <4>1, <4>2
    <3>5. \A k : GoodContext(k) => GoodContext(k)'
      BY <1>9, <3>1 DEF GoodContext
    <3>6. QED
      BY <3>4, <3>5 DEF DescentInv, AddParentLazily
  <2>7. QED
    BY <1>6, <2>1, <2>2, <2>3, <2>4, <2>5, <2>6

(* Exporting leaves the parts about spans and contexts as they are.        *)
LEMMA SpanPartsKept ==
  ASSUME ParentsKnown, DescentInv, UNCHANGED <<spans, sent, reading>>
  PROVE  /\ ParentsKnown' /\ DescentInv'
         /\ Known' = Known
         /\ \A s \in Known : HasParent(s)' = HasParent(s)
<1>1. \A x, y : DescendsFrom(x, y)' = DescendsFrom(x, y)
  BY DEF DescendsFrom, HasParentsOfAll, HasParent, Known
<1>2. QED
  BY <1>1 DEF ParentsKnown, DescentInv, GoodContext, HasParent, Known

(* MarkSpanAsDone keeps the invariant, exported or waiting.                *)
LEMMA MarkSpanAsDoneStep ==
  ASSUME IInv, NEW p \in Spanners, NEW s \in Known, MarkSpanAsDone(p, s)
  PROVE  IInv'
<1> USE DEF IInv
<1>1. /\ s \in Ids /\ s \notin done /\ s \notin exported_spans_
      /\ frames = <<>> /\ lock = NoSpanner
      /\ UNCHANGED <<spans, reading, sent, traces_>>
      /\ done' = done \cup {s}
  BY DEF MarkSpanAsDone, Enters, LockInv, TypeOK
<1>2. /\ ParentsKnown' /\ DescentInv'
      /\ Known' = Known
      /\ \A c \in Known : HasParent(c)' = HasParent(c)
  BY <1>1, SpanPartsKept
<1>3. \A c \in Known : spans[c] \in Records
  BY DEF TypeOK, Known
<1>7. /\ \A c \in done \ exported_spans_ :
            /\ HasParent(c) /\ c \in waiting_list_[spans[c].parent]
            /\ spans[c].parent \notin exported_spans_
      /\ \A q \in exported_spans_ : waiting_list_[q] = {}
  <2>1. DOMAIN frames = {}
    BY <1>1
  <2>2. QED
    BY <2>1 DEF NoneForgotten
<1>4. CASE ~WasParentExported(s)
  <2>1. /\ waiting_list_' = [waiting_list_ EXCEPT ![spans[s].parent] = @ \cup {s}]
        /\ UNCHANGED <<lock, exported_spans_, frames, context_map_, terminated>>
    BY <1>4 DEF MarkSpanAsDone
  <2>2. HasParent(s) /\ spans[s].parent \notin exported_spans_ /\ spans[s].parent \in Ids
    BY <1>3, <1>4 DEF WasParentExported, HasParent, Records
  <2>3. \A q \in Ids : waiting_list_'[q] =
          IF q = spans[s].parent THEN waiting_list_[q] \cup {s} ELSE waiting_list_[q]
    BY <2>1 DEF TypeOK
  <2>4. TypeOK'
    BY <1>1, <1>2, <2>1 DEF TypeOK
  <2>5. LockInv' /\ MembersInv'
    BY <1>1, <1>2, <2>1 DEF LockInv, MembersInv
  <2>6. WaitingInv'
    <3>1. ASSUME NEW q \in Ids, NEW c \in Ids, c \in waiting_list_'[q]
          PROVE  c \in done' /\ spans'[c].parent = q
      <4>1. CASE c \in waiting_list_[q]
        BY <1>1, <4>1 DEF WaitingInv
      <4>2. CASE c \notin waiting_list_[q]
        BY <1>1, <2>3, <3>1, <4>2
      <4>3. QED
        BY <4>1, <4>2
    <3>2. QED
      BY <3>1 DEF WaitingInv
  <2>7. ExportedInv'
    BY <1>1, <1>2, <2>1 DEF ExportedInv, TypeOK
  <2>8. FramesInv'
    BY <1>1, <2>1 DEF FramesInv
  <2>9. NoneForgotten'
    <3>1. ASSUME NEW c \in done' \ exported_spans_'
          PROVE  /\ HasParent(c)'
                 /\ c \in waiting_list_'[spans'[c].parent]
                 /\ spans'[c].parent \notin exported_spans_'
      <4>1. c \in Known /\ spans[c].parent \in Ids \cup {NoParent}
        <5>1. c \in Known
          BY <1>1, <3>1 DEF TypeOK
        <5>2. QED
          BY <1>3, <5>1 DEF Records
      <4>2. CASE c = s
        <5>1. c \in waiting_list_'[spans[s].parent]
          BY <2>2, <2>3, <4>2
        <5>2. spans'[c].parent = spans[s].parent
          BY <1>1, <4>2
        <5>3. QED
          BY <2>1, <2>2, <5>1, <5>2 DEF HasParent
      <4>3. CASE c # s
        <5>1. /\ HasParent(c)
              /\ c \in waiting_list_[spans[c].parent]
              /\ spans[c].parent \notin exported_spans_
          BY <1>1, <1>7, <2>1, <3>1, <4>3
        <5>2. QED
          BY <1>1, <1>2, <2>1, <2>3, <4>1, <5>1 DEF HasParent
      <4>4. QED
        BY <4>2, <4>3
    <3>2. ASSUME NEW q \in exported_spans_' PROVE waiting_list_'[q] = {}
      <4>1. q # spans[s].parent /\ q \in Ids /\ q \in exported_spans_
        BY <2>1, <2>2, <3>2 DEF TypeOK
      <4>2. QED
        BY <1>7, <2>3, <4>1
    <3>3. QED
      BY <3>1, <3>2 DEF NoneForgotten
  <2>10. QED
    BY <1>2, <2>1, <2>4, <2>5, <2>6, <2>7, <2>8, <2>9
<1>5. CASE WasParentExported(s)
  <2>1. /\ exported_spans_' = exported_spans_ \cup {s}
        /\ context_map_' = [context_map_ EXCEPT ![s] = spans[s].trace]
        /\ terminated' = \/ s \in exported_spans_
                         \/ HasParent(s) /\ context_map_[spans[s].parent] = NoParent
        /\ lock' = p
        /\ frames' = <<Frame(s)>>
        /\ UNCHANGED waiting_list_
    BY <1>5 DEF MarkSpanAsDone, Export
  <2>2. HasParent(s) => spans[s].parent \in exported_spans_
    BY <1>5 DEF WasParentExported
  <2>3. ~terminated'
    BY <1>1, <2>1, <2>2 DEF ExportedInv
  <2>4. Frame(s).parent = s /\ Frame(s).waiters = waiting_list_[s]
    BY DEF Frame
  <2>5. \A c \in waiting_list_[s] :
          /\ c \in done /\ c # s /\ spans[c].parent = s
          /\ c \notin exported_spans_
    <3>1. ASSUME NEW c \in waiting_list_[s]
          PROVE  /\ c \in done /\ c # s /\ spans[c].parent = s
                 /\ c \notin exported_spans_
      <4>1. c \in done /\ spans[c].parent = s /\ HasParent(c)
        BY <1>1 DEF WaitingInv, TypeOK, HasParent, Ids, NoParent
      <4>2. QED
        BY <1>1, <4>1 DEF ExportedInv
    <3>2. QED
      BY <3>1
  <2>6. TypeOK'
    <3>1. Frame(s) \in [parent : Ids, waiters : SUBSET Ids]
      BY <1>1 DEF Frame, TypeOK
    <3>2. frames' \in Seq([parent : Ids, waiters : SUBSET Ids])
      BY <2>1, <3>1
    <3>3. context_map_' \in [Ids -> Ids \cup {NoParent}]
      BY <1>3, <2>1 DEF TypeOK, Records
    <3>4. QED
      BY <1>1, <1>2, <2>1, <2>3, <3>2, <3>3 DEF TypeOK
  <2>7. LockInv' /\ MembersInv'
    BY <1>1, <1>2, <2>1, TracerAssumption DEF LockInv, MembersInv
  <2>8. WaitingInv'
    BY <1>1, <2>1 DEF WaitingInv
  <2>9. ExportedInv'
    <3>1. context_map_'[s] # NoParent
      BY <1>1, <1>3, <2>1 DEF TypeOK, Records, Ids, NoParent
    <3>2. \A c \in exported_spans_ : c # s /\ c \in Ids /\ c \in Known
      BY <1>1 DEF TypeOK
    <3>3. QED
      BY <1>1, <1>2, <2>1, <2>2, <3>1, <3>2 DEF ExportedInv, TypeOK
  <2>10. DOMAIN frames' = {1} /\ frames'[1] = Frame(s)
    BY <2>1
  <2>11. FramesInv'
    BY <1>1, <2>1, <2>4, <2>5, <2>10 DEF FramesInv
  <2>12. NoneForgotten'
    <3>1. ASSUME NEW c \in done' \ exported_spans_'
          PROVE  /\ HasParent(c)'
                 /\ \/ c \in waiting_list_'[spans'[c].parent]
                       /\ spans'[c].parent \notin exported_spans_'
                    \/ \E i \in DOMAIN frames' : c \in frames'[i].waiters
      <4>1. /\ c \in Known /\ HasParent(c)
            /\ c \in waiting_list_[spans[c].parent]
            /\ spans[c].parent \notin exported_spans_
        BY <1>1, <1>7, <2>1, <3>1 DEF TypeOK
      <4>2. CASE spans[c].parent = s
        BY <1>2, <2>4, <2>10, <4>1, <4>2
      <4>3. CASE spans[c].parent # s
        BY <1>1, <1>2, <2>1, <4>1, <4>3
      <4>4. QED
        BY <4>2, <4>3
    <3>2. ASSUME NEW q \in exported_spans_', waiting_list_'[q] # {}
          PROVE  \E i \in DOMAIN frames' : frames'[i].parent = q
      <4>1. q = s
        BY <1>7, <2>1, <3>2
      <4>2. QED
        BY <2>4, <2>10, <4>1
    <3>3. QED
      BY <3>1, <3>2 DEF NoneForgotten
  <2>13. QED
    BY <1>2, <2>3, <2>6, <2>7, <2>8, <2>9, <2>11, <2>12
<1>6. QED
  BY <1>4, <1>5

(* What ExportWaiter changes, with n activations: w is exported by the     *)
(* last of them and gets an activation of its own.                         *)
Activates(w, n) ==
  /\ DOMAIN frames = 1 .. n /\ w \in frames[n].waiters
  /\ exported_spans_' = exported_spans_ \cup {w}
  /\ context_map_' = [context_map_ EXCEPT ![w] = spans[w].trace]
  /\ terminated' = \/ w \in exported_spans_
                   \/ HasParent(w) /\ context_map_[spans[w].parent] = NoParent
  /\ lock # NoSpanner
  /\ UNCHANGED <<lock, spans, done, reading, sent, traces_, waiting_list_>>
  /\ w \in done /\ w \notin exported_spans_ /\ w \in Ids
  /\ spans[w].parent = frames[n].parent
  /\ frames[n].parent \in exported_spans_
  /\ DOMAIN frames' = 1 .. n + 1
  /\ frames'[n + 1].parent = w /\ frames'[n + 1].waiters = waiting_list_[w]
  /\ frames' \in Seq([parent : Ids, waiters : SUBSET Ids])
  /\ \A i \in 1 .. n : /\ frames'[i].parent = frames[i].parent
                       /\ frames'[i].waiters = frames[i].waiters \ {w}

(* Every ExportWaiter is such a step: the waiter is finished, not exported *)
(* and a child of the span the last activation is about.                   *)
LEMMA NewActivation ==
  ASSUME IInv, NEW p \in Spanners, NEW w \in Known, ExportWaiter(p, w)
  PROVE  \E n \in Nat \ {0} : Activates(w, n)
<1> USE DEF IInv
<1>0. PICK n : n = Len(frames)
  OBVIOUS
<1>1. /\ w \in frames[n].waiters
      /\ lock # NoSpanner
      /\ exported_spans_' = exported_spans_ \cup {w}
      /\ context_map_' = [context_map_ EXCEPT ![w] = spans[w].trace]
      /\ terminated' = \/ w \in exported_spans_
                       \/ HasParent(w) /\ context_map_[spans[w].parent] = NoParent
      /\ frames' = Append([frames EXCEPT ![n].waiters = @ \ {w}], Frame(w))
      /\ UNCHANGED <<lock, spans, done, reading, sent, traces_, waiting_list_>>
  BY <1>0, TracerAssumption DEF ExportWaiter, Export, Top
<1>3. n \in Nat \ {0} /\ n \in DOMAIN frames /\ DOMAIN frames = 1 .. n
  BY <1>0, <1>1 DEF TypeOK, LockInv
<1>4. /\ w \in done /\ w \notin exported_spans_ /\ w \in Ids
      /\ spans[w].parent = frames[n].parent
      /\ frames[n].parent \in exported_spans_
  BY <1>1, <1>3 DEF FramesInv, TypeOK
<1>5. Frame(w).parent = w /\ Frame(w).waiters = waiting_list_[w]
  BY DEF Frame
<1>6. /\ DOMAIN frames' = 1 .. n + 1
      /\ frames'[n + 1] = Frame(w)
      /\ \A i \in 1 .. n : frames'[i] =
           IF i = n THEN [frames[n] EXCEPT !.waiters = @ \ {w}] ELSE frames[i]
      /\ frames' \in Seq([parent : Ids, waiters : SUBSET Ids])
  <2>0. \A i \in 1 .. n : frames[i] \in [parent : Ids, waiters : SUBSET Ids]
    BY <1>0, <1>3, ElementsOfSequence DEF TypeOK
  <2>1. Frame(w) \in [parent : Ids, waiters : SUBSET Ids]
    BY <1>4 DEF Frame, TypeOK
  <2>2. PICK g : g = [frames EXCEPT ![n].waiters = @ \ {w}]
    OBVIOUS
  <2>3. \A i \in 1 .. n : g[i] =
          IF i = n THEN [frames[n] EXCEPT !.waiters = @ \ {w}] ELSE frames[i]
    BY <1>3, <2>2
  <2>4. g \in Seq([parent : Ids, waiters : SUBSET Ids]) /\ Len(g) = n
    <3>2. \A i \in 1 .. n : g[i] \in [parent : Ids, waiters : SUBSET Ids]
      BY <1>3, <2>3, <2>0
    <3>3. g = [i \in 1 .. n |-> g[i]]
      BY <1>3, <2>2
    <3>4. g \in [1 .. n -> [parent : Ids, waiters : SUBSET Ids]]
      BY <3>2, <3>3
    <3>5. n \in Nat /\ DOMAIN g = 1 .. n
      BY <1>3, <3>3
    <3>6. QED
      BY <3>4, <3>5, FunctionIsSequence
  <2>5. frames' = Append(g, Frame(w))
    BY <1>1, <2>2
  <2>6. /\ frames' \in Seq([parent : Ids, waiters : SUBSET Ids])
        /\ DOMAIN frames' = 1 .. n + 1
        /\ frames'[n + 1] = Frame(w)
        /\ \A i \in 1 .. n : frames'[i] = g[i]
    BY <1>3, <2>1, <2>4, <2>5
  <2>7. QED
    BY <2>3, <2>6
<1>7. /\ \A i \in 1 .. n : frames'[i].parent = frames[i].parent
      /\ \A i \in 1 .. n : frames'[i].waiters = frames[i].waiters \ {w}
  <2>1. \A i \in 1 .. n : frames[i] \in [parent : Ids, waiters : SUBSET Ids]
    BY <1>0, <1>3, ElementsOfSequence DEF TypeOK
  <2>2. ASSUME NEW i \in 1 .. n
        PROVE  /\ frames'[i].parent = frames[i].parent
               /\ frames'[i].waiters = frames[i].waiters \ {w}
    <3>1. CASE i = n
      BY <1>3, <1>6, <2>1, <3>1
    <3>2. CASE i # n
      <4>1. w \notin frames[i].waiters
        BY <1>3, <1>4, <3>2 DEF FramesInv
      <4>2. QED
        BY <1>6, <3>2, <4>1
    <3>3. QED
      BY <3>1, <3>2
  <2>3. QED
    BY <2>2
<1>8. QED
  BY <1>1, <1>3, <1>4, <1>5, <1>6, <1>7 DEF Activates

(* ExportWaiter keeps the invariant: the waiter is not exported yet, and   *)
(* the exporter has the context of its parent.                             *)
LEMMA ExportWaiterStep ==
  ASSUME IInv, NEW p \in Spanners, NEW w \in Known, ExportWaiter(p, w)
  PROVE  IInv'
<1> USE DEF IInv
<1> PICK n \in Nat \ {0} : Activates(w, n)
  BY NewActivation
<1>1. /\ DOMAIN frames = 1 .. n /\ w \in frames[n].waiters
      /\ exported_spans_' = exported_spans_ \cup {w}
      /\ context_map_' = [context_map_ EXCEPT ![w] = spans[w].trace]
      /\ terminated' = \/ w \in exported_spans_
                       \/ HasParent(w) /\ context_map_[spans[w].parent] = NoParent
      /\ lock # NoSpanner
      /\ UNCHANGED <<lock, spans, done, reading, sent, traces_, waiting_list_>>
      /\ w \in done /\ w \notin exported_spans_ /\ w \in Ids
      /\ spans[w].parent = frames[n].parent
      /\ frames[n].parent \in exported_spans_
      /\ DOMAIN frames' = 1 .. n + 1
      /\ frames'[n + 1].parent = w /\ frames'[n + 1].waiters = waiting_list_[w]
      /\ frames' \in Seq([parent : Ids, waiters : SUBSET Ids])
      /\ \A i \in 1 .. n : /\ frames'[i].parent = frames[i].parent
                           /\ frames'[i].waiters = frames[i].waiters \ {w}
  BY DEF Activates
<1>2. /\ ParentsKnown' /\ DescentInv'
      /\ Known' = Known
      /\ \A c \in Known : HasParent(c)' = HasParent(c)
  BY <1>1, SpanPartsKept
<1>8. \A c \in waiting_list_[w] :
        /\ c \in done /\ c # w /\ spans[c].parent = w /\ c \notin exported_spans_
  <2>1. ASSUME NEW c \in waiting_list_[w]
        PROVE  /\ c \in done /\ c # w /\ spans[c].parent = w
               /\ c \notin exported_spans_
    <3>1. w \in Ids /\ c \in Ids
      BY <1>1 DEF TypeOK
    <3>2. c \in done /\ spans[c].parent = w
      BY <3>1 DEF WaitingInv
    <3>3. HasParent(c)
      BY <3>1, <3>2 DEF HasParent, Ids, NoParent
    <3>4. QED
      BY <1>1, <3>2, <3>3 DEF ExportedInv
  <2>2. QED
    BY <2>1
<1>9. ~terminated'
  BY <1>1 DEF ExportedInv
<1>10. TypeOK'
  <2>1. spans[w] \in Records
    BY DEF TypeOK, Known
  <2>2. context_map_' \in [Ids -> Ids \cup {NoParent}]
    BY <1>1, <2>1 DEF TypeOK, Records
  <2>3. QED
    BY <1>1, <1>2, <1>9, <2>2 DEF TypeOK
<1>11. LockInv' /\ MembersInv' /\ WaitingInv'
  <2>1. frames' # <<>>
    BY <1>1
  <2>2. QED
    BY <1>1, <1>2, <2>1 DEF LockInv, MembersInv, WaitingInv
<1>12. ExportedInv'
  <2>1. context_map_'[w] # NoParent
    <3>1. spans[w] \in Records
      BY DEF TypeOK, Known
    <3>2. QED
      BY <1>1, <3>1 DEF TypeOK, Records, Ids, NoParent
  <2>2. \A c \in exported_spans_ : c # w /\ c \in Ids /\ c \in Known
    BY <1>1 DEF TypeOK
  <2>3. QED
    BY <1>1, <1>2, <2>1, <2>2 DEF ExportedInv, TypeOK
<1>13. FramesInv'
  <2>1. ASSUME NEW i \in DOMAIN frames'
        PROVE  /\ frames'[i].parent \in exported_spans_'
               /\ \A c \in frames'[i].waiters :
                    /\ c \in done' /\ c \notin exported_spans_'
                    /\ spans'[c].parent = frames'[i].parent
    <3>1. CASE i = n + 1
      BY <1>1, <1>8, <3>1
    <3>2. CASE i \in 1 .. n
      BY <1>1, <3>2 DEF FramesInv
    <3>3. QED
      BY <1>1, <3>1, <3>2
  <2>2. ASSUME NEW i \in DOMAIN frames', NEW j \in DOMAIN frames',
               frames'[i].parent = frames'[j].parent
        PROVE  i = j
    <3>1. \A k \in 1 .. n : frames'[k].parent # w
      BY <1>1 DEF FramesInv
    <3>2. frames'[n + 1].parent = w
      BY <1>1
    <3>3. CASE i \in 1 .. n /\ j \in 1 .. n
      BY <1>1, <2>2, <3>3 DEF FramesInv
    <3>4. CASE ~(i \in 1 .. n /\ j \in 1 .. n)
      BY <1>1, <2>2, <3>1, <3>2, <3>4
    <3>5. QED
      BY <3>3, <3>4
  <2>3. QED
    BY <2>1, <2>2 DEF FramesInv
<1>14. NoneForgotten'
  <2>1. ASSUME NEW c \in done' \ exported_spans_'
        PROVE  /\ HasParent(c)'
               /\ \/ c \in waiting_list_'[spans'[c].parent]
                     /\ spans'[c].parent \notin exported_spans_'
                  \/ \E i \in DOMAIN frames' : c \in frames'[i].waiters
    <3>1. c \in Known /\ c # w /\ c \in done \ exported_spans_
      BY <1>1, <2>1 DEF TypeOK
    <3>2. HasParent(c)'
      BY <1>2, <3>1 DEF NoneForgotten
    <3>3. CASE \E i \in DOMAIN frames : c \in frames[i].waiters
      <4>1. PICK i \in 1 .. n : c \in frames[i].waiters
        BY <1>1, <3>3
      <4>2. i \in DOMAIN frames' /\ c \in frames'[i].waiters
        BY <1>1, <3>1, <4>1
      <4>3. QED
        BY <3>2, <4>2
    <3>4. CASE /\ c \in waiting_list_[spans[c].parent]
               /\ spans[c].parent \notin exported_spans_
      <4>1. CASE spans[c].parent = w
        <5>1. n + 1 \in DOMAIN frames' /\ c \in frames'[n + 1].waiters
          BY <1>1, <3>4, <4>1
        <5>2. QED
          BY <3>2, <5>1
      <4>2. CASE spans[c].parent # w
        BY <1>1, <3>2, <3>4, <4>2
      <4>3. QED
        BY <4>1, <4>2
    <3>5. QED
      BY <3>1, <3>3, <3>4 DEF NoneForgotten
  <2>2. ASSUME NEW q \in exported_spans_', waiting_list_'[q] # {}
        PROVE  \E i \in DOMAIN frames' : frames'[i].parent = q
    <3>1. CASE q = w
      <4>1. n + 1 \in DOMAIN frames' /\ frames'[n + 1].parent = w
        BY <1>1
      <4>2. QED
        BY <3>1, <4>1
    <3>2. CASE q # w
      <4>1. PICK i \in 1 .. n : frames[i].parent = q
        BY <1>1, <2>2, <3>2 DEF NoneForgotten
      <4>2. i \in DOMAIN frames' /\ frames'[i].parent = q
        BY <1>1, <4>1
      <4>3. QED
        BY <4>2
    <3>3. QED
      BY <3>1, <3>2
  <2>3. QED
    BY <2>1, <2>2 DEF NoneForgotten
<1>15. QED
  BY <1>2, <1>9, <1>10, <1>11, <1>12, <1>13, <1>14

(* ReturnFromExport keeps the invariant: every waiter of the entry it      *)
(* erases was exported, and so was all of the trace it deletes.            *)
LEMMA ReturnFromExportStep ==
  ASSUME IInv, NEW p \in Spanners, ReturnFromExport(p)
  PROVE  IInv'
<1> USE DEF IInv
<1>0. PICK n, q : n = Len(frames) /\ q = frames[n].parent
  OBVIOUS
<1>1. /\ frames[n].waiters = {}
      /\ lock # NoSpanner
      /\ waiting_list_' = [waiting_list_ EXCEPT ![q] = {}]
      /\ frames' = SubSeq(frames, 1, n - 1)
      /\ UNCHANGED <<spans, done, reading, sent, exported_spans_, context_map_, terminated>>
  BY <1>0, TracerAssumption DEF ReturnFromExport, EraseWaiters, Top
<1>2. /\ ParentsKnown' /\ DescentInv'
      /\ Known' = Known
      /\ \A c \in Known : HasParent(c)' = HasParent(c)
  BY <1>1, SpanPartsKept
<1>3. n \in Nat \ {0} /\ n \in DOMAIN frames /\ DOMAIN frames = 1 .. n
  BY <1>0, <1>1 DEF TypeOK, LockInv
<1>4. q \in exported_spans_ /\ q \in Known /\ q \in Ids
  BY <1>0, <1>3 DEF FramesInv, TypeOK
<1>5. /\ frames' \in Seq([parent : Ids, waiters : SUBSET Ids])
      /\ DOMAIN frames' = 1 .. n - 1
      /\ \A i \in 1 .. n - 1 : frames'[i] = frames[i]
  <2>1. frames \in Seq([parent : Ids, waiters : SUBSET Ids]) /\ frames # <<>>
    BY <1>1 DEF TypeOK, LockInv
  <2>2. frames' = SubSeq(frames, 1, Len(frames) - 1)
    BY <1>0, <1>1
  <2>3. QED
    BY <1>0, <2>1, <2>2, FrontOfSequence
<1>6. \A c \in Ids : waiting_list_'[c] = IF c = q THEN {} ELSE waiting_list_[c]
  BY <1>1 DEF TypeOK
<1>7. PICK t : t = spans[q].trace
  OBVIOUS
<1>8. \/ n > 1 /\ UNCHANGED <<lock, traces_>>
      \/ /\ n = 1
         /\ lock' = NoSpanner
         /\ traces_' = IF SafeToDeleteTrace(t) THEN [traces_ EXCEPT ![t] = {}] ELSE traces_
  BY <1>0, <1>7 DEF ReturnFromExport, Top
<1>9. \/ UNCHANGED traces_
      \/ SafeToDeleteTrace(t) /\ traces_' = [traces_ EXCEPT ![t] = {}]
  BY <1>8
<1>10. TypeOK'
  <2>1. traces_' \in [Ids -> SUBSET Known]
    BY <1>9 DEF TypeOK
  <2>2. waiting_list_' \in [Ids -> SUBSET done]
    BY <1>1 DEF TypeOK
  <2>3. lock' \in Spanners \cup {NoSpanner}
    BY <1>8 DEF TypeOK
  <2>4. QED
    BY <1>1, <1>2, <1>5, <2>1, <2>2, <2>3 DEF TypeOK
<1>11. LockInv'
  <2>1. CASE n > 1
    <3>1. frames' # <<>>
      BY <1>3, <1>5, <2>1
    <3>2. QED
      BY <1>1, <1>8, <2>1, <3>1 DEF LockInv
  <2>2. CASE n = 1
    BY <1>1, <1>8, <2>2 DEF LockInv
  <2>3. QED
    BY <1>3, <2>1, <2>2
<1>12. WaitingInv' /\ ExportedInv'
  BY <1>1, <1>2, <1>6 DEF WaitingInv, ExportedInv, HasParent
<1>13. FramesInv'
  BY <1>1, <1>3, <1>5 DEF FramesInv
<1>14. NoneForgotten'
  <2>1. ASSUME NEW c \in done' \ exported_spans_'
        PROVE  /\ HasParent(c)'
               /\ \/ c \in waiting_list_'[spans'[c].parent]
                     /\ spans'[c].parent \notin exported_spans_'
                  \/ \E i \in DOMAIN frames' : c \in frames'[i].waiters
    <3>1. c \in Known /\ c \in done \ exported_spans_
      BY <1>1, <2>1 DEF TypeOK
    <3>2. HasParent(c)'
      BY <1>2, <3>1 DEF NoneForgotten
    <3>3. CASE \E i \in DOMAIN frames : c \in frames[i].waiters
      <4>1. PICK i \in 1 .. n - 1 : c \in frames[i].waiters
        BY <1>1, <1>3, <3>3
      <4>2. i \in DOMAIN frames' /\ c \in frames'[i].waiters
        BY <1>5, <4>1
      <4>3. QED
        BY <3>2, <4>2
    <3>4. CASE /\ c \in waiting_list_[spans[c].parent]
               /\ spans[c].parent \notin exported_spans_
      <4>1. spans[c].parent # q
        BY <1>4, <3>4
      <4>2. waiting_list_'[spans[c].parent] = waiting_list_[spans[c].parent]
        BY <1>1, <4>1 DEF TypeOK
      <4>3. QED
        BY <1>1, <3>2, <3>4, <4>2
    <3>5. QED
      BY <3>1, <3>3, <3>4 DEF NoneForgotten
  <2>2. ASSUME NEW c \in exported_spans_', waiting_list_'[c] # {}
        PROVE  \E i \in DOMAIN frames' : frames'[i].parent = c
    <3>1. c \in exported_spans_ /\ c # q /\ waiting_list_[c] # {}
      BY <1>1, <1>6, <2>2 DEF TypeOK
    <3>2. PICK i \in 1 .. n : frames[i].parent = c
      BY <1>3, <3>1 DEF NoneForgotten
    <3>3. i \in 1 .. n - 1
      BY <1>0, <1>3, <3>1, <3>2
    <3>4. QED
      BY <1>5, <3>2, <3>3
  <2>3. QED
    BY <2>1, <2>2 DEF NoneForgotten
<1>15. MembersInv'
  <2>1. \A c \in Ids : traces_'[c] \subseteq traces_[c]
    BY <1>9 DEF TypeOK
  <2>2. ASSUME NEW c \in Known, ~HasParent(c), c \notin exported_spans_
        PROVE  c \in traces_'[c]
    <3>1. c \in traces_[c] /\ c \in Ids
      BY <2>2 DEF MembersInv, TypeOK
    <3>2. CASE UNCHANGED traces_
      BY <3>1, <3>2
    <3>3. CASE SafeToDeleteTrace(t) /\ traces_' = [traces_ EXCEPT ![t] = {}]
      <4>1. c # t
        BY <2>2, <3>1, <3>3 DEF SafeToDeleteTrace
      <4>2. QED
        BY <3>1, <3>3, <4>1 DEF TypeOK
    <3>4. QED
      BY <1>9, <3>2, <3>3
  <2>3. QED
    BY <1>1, <1>2, <2>1, <2>2 DEF MembersInv
<1>16. QED
  BY <1>1, <1>2, <1>10, <1>11, <1>12, <1>13, <1>14, <1>15

(* Every step keeps the invariant.                                         *)
LEMMA NextIInv ==
  ASSUME IInv, [Next]_vars
  PROVE  IInv'
<1>1. CASE Next
  <2>1. PICK p \in Spanners :
          \/ StartSpan(p)
          \/ StartSpanByParent(p)
          \/ ReturnFromExport(p)
          \/ \E s \in Known :
               \/ ReadParent(p, s)
               \/ PushPropagateContext(p, s)
               \/ MarkSpanAsDone(p, s)
               \/ ExportWaiter(p, s)
          \/ \E con \in sent :
               \/ StartSpanByParentPassOnContext(p, con)
               \/ \E s \in Known :
                    \/ StartSpanSetParentContext(p, s, con)
                    \/ AddParentLazily(p, s, con)
    BY <1>1 DEF Next
  <2>2. /\ sent \subseteq Contexts
        /\ reading \in [Spanners -> Contexts \cup {Nothing}]
        /\ \A con \in sent : GoodContext(con)
        /\ \A q \in Spanners : reading[q] # Nothing => GoodContext(reading[q])
    BY DEF IInv, TypeOK, DescentInv
  <2>3. CASE StartSpan(p)
    BY <2>3, StartSpanStep
  <2>4. CASE StartSpanByParent(p)
    <3>1. /\ reading[p] \in Contexts
          /\ GoodContext(reading[p])
          /\ AddNewSpan(p, reading[p])
          /\ reading' = [reading EXCEPT ![p] = Nothing]
      BY <2>2, <2>4 DEF StartSpanByParent
    <3>2. /\ reading' \in [Spanners -> Contexts \cup {Nothing}]
          /\ \A q \in Spanners : reading'[q] \in {reading[q], Nothing}
      BY <2>2, <3>1
    <3>3. QED
      BY <2>4, <3>1, <3>2, AddNewSpanStep DEF StartSpanByParent
  <2>5. CASE ReturnFromExport(p)
    BY <2>5, ReturnFromExportStep
  <2>6. ASSUME NEW s \in Known, ReadParent(p, s) PROVE IInv'
    <3>1. PICK con : con = [trace |-> spans[s].trace, parent |-> s]
      OBVIOUS
    <3>2. con \in Contexts /\ GoodContext(con)
      BY <3>1, OwnContext
    <3>3. /\ reading' = [reading EXCEPT ![p] = con]
          /\ UNCHANGED <<lock, spans, done, sent, traces_, exported_spans_,
                         waiting_list_, frames, context_map_, terminated>>
      BY <2>6, <3>1 DEF ReadParent
    <3>4. /\ reading' \in [Spanners -> Contexts \cup {Nothing}]
          /\ \A q \in Spanners : reading'[q] # Nothing => GoodContext(reading'[q])
      BY <2>2, <3>2, <3>3
    <3>5. QED
      BY <2>2, <3>3, <3>4, ContextStep
  <2>7. ASSUME NEW s \in Known, PushPropagateContext(p, s) PROVE IInv'
    <3>1. PICK con : con = [trace |-> spans[s].trace, parent |-> s]
      OBVIOUS
    <3>2. con \in Contexts /\ GoodContext(con)
      BY <3>1, OwnContext
    <3>3. /\ sent' = sent \cup {con}
          /\ UNCHANGED <<lock, spans, done, reading, traces_, exported_spans_,
                         waiting_list_, frames, context_map_, terminated>>
      BY <2>7, <3>1 DEF PushPropagateContext
    <3>4. QED
      BY <2>2, <3>2, <3>3, ContextStep
  <2>8. ASSUME NEW s \in Known, MarkSpanAsDone(p, s) PROVE IInv'
    BY <2>8, MarkSpanAsDoneStep
  <2>9. ASSUME NEW s \in Known, ExportWaiter(p, s) PROVE IInv'
    BY <2>9, ExportWaiterStep
  <2>10. ASSUME NEW con \in sent, StartSpanByParentPassOnContext(p, con) PROVE IInv'
    <3>1. /\ con \in Contexts /\ GoodContext(con)
          /\ AddNewSpan(p, con)
          /\ sent' \subseteq sent
          /\ UNCHANGED <<lock, done, reading, exported_spans_, waiting_list_, frames,
                         context_map_, terminated>>
      BY <2>2, <2>10 DEF StartSpanByParentPassOnContext
    <3>2. QED
      BY <2>2, <3>1, AddNewSpanStep
  <2>11. ASSUME NEW con \in sent, NEW s \in Known, AddParentLazily(p, s, con)
         PROVE  IInv'
    BY <2>11, AddParentLazilyStep
  <2>12. QED
    BY <2>1, <2>3, <2>4, <2>5, <2>6, <2>7, <2>8, <2>9, <2>10, <2>11
       DEF StartSpanSetParentContext
<1>2. CASE UNCHANGED vars
  <2>1. UNCHANGED <<lock, spans, done, reading, sent, traces_, exported_spans_,
                    waiting_list_, frames, context_map_, terminated>>
    BY <1>2 DEF vars
  <2>2. QED
    BY <2>1, ContextStep DEF IInv, TypeOK, DescentInv
<1>3. QED
  BY <1>1, <1>2

--------------------------------------------------------------------------------
(* The inductive invariant holds for every number of spanners, spans and   *)
(* contexts.                                                               *)
THEOREM TracerInvariance == Spec => []IInv
<1>1. Init => IInv
  BY InitIInv
<1>2. IInv /\ [Next]_vars => IInv'
  BY NextIInv
<1>3. QED
  BY <1>1, <1>2, PTL DEF Spec

(* Type correctness of the tracer.                                         *)
THEOREM TracerTypeCorrect == Spec => []TypeOK
<1>1. IInv => TypeOK
  BY DEF IInv
<1>2. QED
  BY <1>1, TracerInvariance, PTL

(* No check of tracer.h, trace.h or exporter.h fails: no span is exported  *)
(* twice or before its parent, and AddParentLazily finds the old trace and *)
(* moves no span into a trace that has it.                                 *)
THEOREM ChecksNeverFail == Spec => []NeverTerminates
<1>1. IInv => NeverTerminates
  BY DEF IInv, NeverTerminates
<1>2. QED
  BY <1>1, TracerInvariance, PTL

(* Between two calls of the tracer, a finished span is exported or waits   *)
(* for its parent, whatever was started, finished and reparented before:   *)
(* no waiter is entered after its parent was exported or forgotten when it *)
(* is.                                                                     *)
THEOREM WaitersInOrder == Spec => []WaitsForParent
<1>1. IInv => WaitsForParent
  <2> SUFFICES ASSUME IInv, Unlocked, NEW s \in Known, NEW q \in Ids
               PROVE  s \in waiting_list_[q] <=>
                        s \in done \ exported_spans_ /\ q = spans[s].parent
                        /\ q \notin exported_spans_
    BY DEF WaitsForParent
  <2> USE DEF IInv
  <2>1. DOMAIN frames = {}
    BY DEF Unlocked, LockInv
  <2>2. ASSUME s \in waiting_list_[q]
        PROVE  /\ s \in done \ exported_spans_ /\ q = spans[s].parent
               /\ q \notin exported_spans_
    <3>1. q \notin exported_spans_
      BY <2>1, <2>2 DEF NoneForgotten
    <3>2. s \in done /\ q = spans[s].parent /\ HasParent(s)
      BY <2>2 DEF WaitingInv, TypeOK, HasParent, Ids, NoParent
    <3>3. QED
      BY <3>1, <3>2 DEF ExportedInv
  <2>3. ASSUME s \in done \ exported_spans_, q = spans[s].parent
        PROVE  s \in waiting_list_[q]
    BY <2>1, <2>3 DEF NoneForgotten
  <2>4. QED
    BY <2>2, <2>3
<1>2. QED
  BY <1>1, TracerInvariance, PTL

--------------------------------------------------------------------------------
(* The traces: a trace is one tree, none is kept longer than it is needed, *)
(* and in the end every span is exported.                                  *)

(* The span that started a trace is the one member without a parent, and   *)
(* the parents of the others are members too.                              *)
TreeInv ==
  \A t \in Ids : \A s \in traces_[t] :
    /\ t \in traces_[t]
    /\ HasParent(s) <=> s # t
    /\ HasParent(s) => spans[s].parent \in traces_[t]

(* Who carries the id of a trace that exists, a span or a context, is in   *)
(* that trace: ids of traces that were reparented or deleted are never     *)
(* used again.                                                             *)
InTrace(con) == traces_[con.trace] # {} => con.parent \in traces_[con.trace]

JoinedInv ==
  /\ \A s \in Known : traces_[spans[s].trace] # {} => s \in traces_[spans[s].trace]
  /\ \A con \in sent : InTrace(con)
  /\ \A p \in Spanners : reading[p] # Nothing => InTrace(reading[p])

(* Parents lead to a span without one: they form no cycle.                 *)
RootedInv == \A s \in Known : \E r \in Known : ~HasParent(r) /\ DescendsFrom(s, r)

(* One call of MarkSpanAsDone exports within one trace: whatever is a      *)
(* member of a trace and has an activation is in the trace of the span     *)
(* that was finished, and no other trace becomes complete.                 *)
CompleteInv ==
  /\ \A i \in DOMAIN frames, t \in Ids :
       frames[i].parent \in traces_[t] => frames[1].parent \in traces_[t]
  /\ \A t \in Ids :
       traces_[t] # {} /\ traces_[t] \subseteq exported_spans_
         => frames # <<>> /\ frames[1].parent \in traces_[t]

TInv == IInv /\ TreeInv /\ JoinedInv /\ RootedInv /\ CompleteInv
--------------------------------------------------------------------------------
(* Lemmas about descent and about what is known.                           *)

(* What a span descends from is a span.                                    *)
LEMMA DescentKnown ==
  ASSUME ParentsKnown, NEW x \in Known, NEW y, DescendsFrom(x, y)
  PROVE  y \in Known
<1>1. Known \in SUBSET Known /\ HasParentsOfAll(Known)
  BY DEF ParentsKnown, HasParentsOfAll
<1>2. QED
  BY <1>1 DEF DescendsFrom

(* A span descends from what its parent descends from.                     *)
LEMMA DescentThroughParent ==
  ASSUME NEW x, HasParent(x), NEW y, DescendsFrom(spans[x].parent, y)
  PROVE  DescendsFrom(x, y)
<1> SUFFICES ASSUME NEW C \in SUBSET Known, x \in C, HasParentsOfAll(C)
             PROVE  y \in C
  BY DEF DescendsFrom
<1>1. spans[x].parent \in C
  BY DEF HasParentsOfAll
<1>2. QED
  BY <1>1 DEF DescendsFrom

(* Descent is transitive.                                                  *)
LEMMA DescentTransitive ==
  ASSUME NEW x, NEW y, NEW z, DescendsFrom(x, y), DescendsFrom(y, z)
  PROVE  DescendsFrom(x, z)
BY DEF DescendsFrom

(* The ids that spans and contexts carry are those of spans, so the trace  *)
(* of a span that is yet to be started does not exist.                     *)
LEMMA TraceIdsKnown ==
  ASSUME IInv, TreeInv
  PROVE  /\ Known \subseteq Ids
         /\ \A s \in Known : spans[s].trace \in Known
         /\ \A con : GoodContext(con) => con.trace \in Known
         /\ \A t \in Ids \ Known : traces_[t] = {}
         /\ \A t \in Ids : traces_[t] \subseteq Known
<1>1. Known \subseteq Ids /\ \A t \in Ids : traces_[t] \subseteq Known
  BY DEF IInv, TypeOK
<1>2. \A s \in Known : spans[s].trace \in Known
  BY DescentKnown DEF IInv, DescentInv
<1>3. \A con : GoodContext(con) => con.trace \in Known
  BY DescentKnown DEF IInv, GoodContext
<1>4. \A t \in Ids \ Known : traces_[t] = {}
  BY <1>1 DEF TreeInv
<1>5. QED
  BY <1>1, <1>2, <1>3, <1>4

(* Steps that leave the spans alone leave their descent alone.             *)
LEMMA SpansKept ==
  ASSUME UNCHANGED spans
  PROVE  /\ Known' = Known
         /\ \A s : HasParent(s)' = HasParent(s)
         /\ RootedInv => RootedInv'
<1>1. \A x, y : DescendsFrom(x, y)' = DescendsFrom(x, y)
  BY DEF DescendsFrom, HasParentsOfAll, HasParent, Known
<1>2. Known' = Known /\ \A s : HasParent(s)' = HasParent(s)
  BY DEF Known, HasParent
<1>3. QED
  BY <1>1, <1>2 DEF RootedInv

--------------------------------------------------------------------------------
(* Starting spans.                                                         *)

TraceParts == TreeInv /\ JoinedInv /\ RootedInv /\ CompleteInv

(* A new root: a trace with one member.                                    *)
LEMMA StartSpanTraces ==
  ASSUME TInv, NEW p \in Spanners, StartSpan(p)
  PROVE  TraceParts'
<1> USE DEF TInv, TraceParts
<1>0. PICK s : s = Len(spans) + 1
  OBVIOUS
<1>1. /\ s \in Ids /\ s \notin Known /\ Known' = Known \cup {s} /\ Known' \subseteq Ids
      /\ spans'[s].trace = s /\ ~HasParent(s)'
      /\ \A c \in Known : spans'[c] = spans[c] /\ (HasParent(c)' <=> HasParent(c))
  <2> DEFINE r == [owner |-> p, trace |-> s, parent |-> NoParent]
  <2>1. r \in Records /\ s \in Ids /\ spans' = Append(spans, r)
    BY <1>0 DEF StartSpan, Records
  <2>2. TypeOK
    BY DEF IInv
  <2>3. /\ Known' = Known \cup {s} /\ Known' \subseteq Ids /\ s \notin Known
        /\ spans'[s] = r /\ \A c \in Known : spans'[c] = spans[c]
    BY <1>0, <2>1, <2>2, NewSpan
  <2>4. r.trace = s /\ r.parent = NoParent
    OBVIOUS
  <2> HIDE DEF r
  <2>5. QED
    BY <2>1, <2>3, <2>4 DEF HasParent
<1>2. /\ \A t \in Ids : traces_'[t] = IF t = s THEN {s} ELSE traces_[t]
      /\ frames = <<>> /\ UNCHANGED <<frames, exported_spans_, sent, reading>>
      /\ exported_spans_ \subseteq Known
  BY <1>0 DEF StartSpan, Enters, IInv, LockInv, TypeOK
<1>3. /\ \A c \in Known : spans[c].trace \in Known
      /\ \A con : GoodContext(con) => con.trace \in Known
      /\ traces_[s] = {} /\ \A t \in Ids : traces_[t] \subseteq Known
  BY <1>1, TraceIdsKnown
<1>4. TreeInv'
  BY <1>1, <1>2, <1>3 DEF TreeInv
<1>5. JoinedInv'
  <2>1. \A con : GoodContext(con) /\ InTrace(con) => InTrace(con)'
    BY <1>1, <1>2, <1>3 DEF InTrace, GoodContext
  <2>2. \A c \in Known : traces_'[spans'[c].trace] # {} => c \in traces_'[spans'[c].trace]
    BY <1>1, <1>2, <1>3 DEF JoinedInv
  <2>3. s \in traces_'[spans'[s].trace]
    BY <1>1, <1>2
  <2>4. QED
    BY <1>1, <1>2, <2>1, <2>2, <2>3 DEF JoinedInv, IInv, DescentInv
<1>6. RootedInv'
  <2>1. \A x \in Known : \A y : DescendsFrom(x, y) => DescendsFrom(x, y)'
    BY <1>1, DescentMonotone DEF IInv
  <2>2. DescendsFrom(s, s)'
    BY DEF DescendsFrom
  <2>3. QED
    BY <1>1, <2>1, <2>2 DEF RootedInv
<1>7. CompleteInv'
  BY <1>1, <1>2 DEF CompleteInv
<1>8. QED
  BY <1>4, <1>5, <1>6, <1>7

(* A span started with a context: it joins the trace of its parent when    *)
(* that exists, and no trace otherwise.                                    *)
LEMMA AddNewSpanTraces ==
  ASSUME TInv, NEW p \in Spanners, NEW con \in Contexts,
         GoodContext(con), InTrace(con), AddNewSpan(p, con),
         frames = <<>>, sent' \subseteq sent,
         \A q \in Spanners : reading'[q] \in {reading[q], Nothing},
         UNCHANGED <<frames, exported_spans_>>
  PROVE  TraceParts'
<1> USE DEF TInv, TraceParts
<1>0. PICK s : s = Len(spans) + 1
  OBVIOUS
<1>1. /\ s \in Ids /\ s \notin Known /\ Known' = Known \cup {s}
      /\ spans'[s].trace = con.trace /\ spans'[s].parent = con.parent /\ HasParent(s)'
      /\ \A c \in Known : spans'[c] = spans[c] /\ (HasParent(c)' <=> HasParent(c))
  <2> DEFINE r == [owner |-> p, trace |-> con.trace, parent |-> con.parent]
  <2>1. TypeOK
    BY DEF IInv
  <2>2. r \in Records /\ s \in Ids /\ spans' = Append(spans, r)
    BY <1>0, <2>1, NewSpanWithContext
  <2>3. /\ Known' = Known \cup {s} /\ s \notin Known
        /\ spans'[s] = r /\ \A c \in Known : spans'[c] = spans[c]
    BY <1>0, <2>1, <2>2, NewSpan
  <2>4. r.trace = con.trace /\ r.parent = con.parent /\ con.parent # NoParent
    BY DEF Contexts, Ids, NoParent
  <2> HIDE DEF r
  <2>5. QED
    BY <2>2, <2>3, <2>4 DEF HasParent
<1>2. \A t \in Ids : traces_'[t] =
        IF t = con.trace /\ traces_[t] # {} THEN traces_[t] \cup {s} ELSE traces_[t]
  BY <1>0 DEF AddNewSpan, IInv, TypeOK
<1>3. /\ \A c \in Known : spans[c].trace \in Known
      /\ con.trace \in Known /\ con.parent \in Known /\ Known \subseteq Ids
      /\ \A t \in Ids : traces_[t] \subseteq Known
  BY TraceIdsKnown DEF GoodContext
<1>4. TreeInv'
  <2> SUFFICES ASSUME NEW t \in Ids, NEW c \in traces_'[t]
               PROVE  /\ t \in traces_'[t]
                      /\ HasParent(c)' <=> c # t
                      /\ HasParent(c)' => spans'[c].parent \in traces_'[t]
    BY DEF TreeInv
  <2>1. CASE c = s
    <3>1. t = con.trace /\ traces_[t] # {} /\ traces_'[t] = traces_[t] \cup {s}
      BY <1>1, <1>2, <1>3, <2>1
    <3>2. t \in traces_[t] /\ con.parent \in traces_[t]
      BY <3>1 DEF TreeInv, InTrace
    <3>3. QED
      BY <1>1, <1>3, <2>1, <3>1, <3>2
  <2>2. CASE c # s
    <3>1. c \in traces_[t] /\ traces_[t] \subseteq traces_'[t]
      <4>1. CASE t = con.trace /\ traces_[t] # {}
        <5>1. traces_'[t] = traces_[t] \cup {s}
          BY <1>2, <4>1
        <5>2. c \in traces_'[t]
          OBVIOUS
        <5>3. QED
          BY <2>2, <5>1, <5>2
      <4>2. CASE ~(t = con.trace /\ traces_[t] # {})
        BY <1>2, <4>2
      <4>3. QED
        BY <4>1, <4>2
    <3>2. c \in Known
      BY <1>3, <3>1
    <3>3. /\ t \in traces_[t]
          /\ HasParent(c) <=> c # t
          /\ HasParent(c) => spans[c].parent \in traces_[t]
      BY <3>1 DEF TreeInv
    <3>4. spans'[c] = spans[c] /\ (HasParent(c)' <=> HasParent(c))
      BY <1>1, <3>2
    <3>5. QED
      BY <3>1, <3>3, <3>4
  <2>3. QED
    BY <2>1, <2>2
<1>5. JoinedInv'
  <2>1. \A t \in Ids : /\ traces_'[t] # {} => traces_[t] # {}
                       /\ traces_[t] \subseteq traces_'[t]
    BY <1>2
  <2>2. \A k : GoodContext(k) /\ InTrace(k) => InTrace(k)'
    <3>1. \A k : GoodContext(k) => k.trace \in Ids
      BY TraceIdsKnown
    <3>2. QED
      BY <2>1, <3>1 DEF InTrace
  <2>3. \A c \in Known : traces_'[spans'[c].trace] # {} => c \in traces_'[spans'[c].trace]
    BY <1>1, <1>3, <2>1 DEF JoinedInv
  <2>4. traces_'[con.trace] # {} => s \in traces_'[con.trace]
    BY <1>2, <1>3
  <2>5. \A k \in sent' : k \in sent
    OBVIOUS
  <2>6. \A q \in Spanners : reading'[q] # Nothing => reading'[q] = reading[q]
    OBVIOUS
  <2>7. QED
    BY <1>1, <2>2, <2>3, <2>4, <2>5, <2>6 DEF JoinedInv, IInv, DescentInv
<1>6. RootedInv'
  <2>1. \A x \in Known : \A y : DescendsFrom(x, y) => DescendsFrom(x, y)'
    BY <1>1, DescentMonotone DEF IInv
  <2>2. PICK r \in Known : ~HasParent(r) /\ DescendsFrom(con.parent, r)
    BY <1>3 DEF RootedInv
  <2>3. DescendsFrom(s, r)'
    <3>1. DescendsFrom(con.parent, r)'
      BY <1>3, <2>1, <2>2
    <3>2. QED
      BY <1>1, <3>1 DEF DescendsFrom, HasParentsOfAll
  <2>4. QED
    BY <1>1, <2>1, <2>2, <2>3 DEF RootedInv
<1>7. CompleteInv'
  <2>1. s \notin exported_spans_
    BY <1>1 DEF IInv, TypeOK
  <2>2. \A i \in DOMAIN frames' : FALSE
    OBVIOUS
  <2>3. ASSUME NEW t \in Ids, traces_'[t] # {}, traces_'[t] \subseteq exported_spans_'
        PROVE  FALSE
    <3>1. traces_'[t] = traces_[t]
      BY <1>2, <2>1, <2>3
    <3>2. QED
      BY <2>3, <3>1 DEF CompleteInv
  <2>4. QED
    BY <2>2, <2>3 DEF CompleteInv
<1>8. QED
  BY <1>4, <1>5, <1>6, <1>7

--------------------------------------------------------------------------------
(* Reparenting.                                                            *)

(* The old trace joins the trace of the new parent below that parent, and  *)
(* what still carries the old id is in no trace: with a new parent that    *)
(* does not descend from the span, no cycle is closed.                     *)
LEMMA AddParentLazilyTraces ==
  ASSUME TInv, NEW p \in Spanners, NEW s \in Known, NEW con \in sent,
         AddParentLazily(p, s, con)
  PROVE  TraceParts'
<1> USE DEF TInv, TraceParts
<1>1. /\ con \in Contexts /\ con.trace \in Ids /\ con.parent \in Ids
      /\ con.parent \in Known
      /\ ~HasParent(s) /\ s \notin exported_spans_ /\ ~DescendsFrom(con.parent, s)
      /\ s \in Ids /\ spans[s].trace = s /\ s \in traces_[s]
      /\ traces_[s] \subseteq Known /\ con.trace # s
  BY Reparented
<1>2. /\ Known' = Known
      /\ \A c \in Known : c # s => spans'[c].parent = spans[c].parent
      /\ spans'[s].parent = con.parent
      /\ \A c \in traces_[s] : spans'[c].trace = con.trace
      /\ \A c \in Known : c \notin traces_[s] => spans'[c].trace = spans[c].trace
  BY Reparented
<1>3. \A t \in Ids : traces_'[t] =
        IF t = s THEN {}
        ELSE IF t = con.trace /\ traces_[t] # {} THEN traces_[t] \cup traces_[s]
        ELSE traces_[t]
  BY Reparented
<1>4. /\ HasParent(s)'
      /\ \A c \in Known : c # s => (HasParent(c)' <=> HasParent(c))
  BY <1>1, <1>2 DEF HasParent, Ids, NoParent
<1>5. /\ \A c \in Known : spans[c].trace \in Known
      /\ \A k : GoodContext(k) => k.trace \in Known
      /\ Known \subseteq Ids
      /\ \A t \in Ids : traces_[t] \subseteq Known
      /\ \A t \in Ids : \A c \in traces_[t] : spans[c].trace = t
  BY TraceIdsKnown DEF IInv, MembersInv
<1>6. frames = <<>> /\ UNCHANGED <<frames, exported_spans_, reading>> /\ sent' = sent \ {con}
  BY DEF AddParentLazily, Enters, IInv, LockInv
<1>7. TreeInv'
  <2> SUFFICES ASSUME NEW t \in Ids, NEW c \in traces_'[t]
               PROVE  /\ t \in traces_'[t]
                      /\ HasParent(c)' <=> c # t
                      /\ HasParent(c)' => spans'[c].parent \in traces_'[t]
    BY DEF TreeInv
  <2>1. t # s /\ traces_[t] \subseteq traces_'[t]
    BY <1>3
  <2>2. CASE c \in traces_[t]
    <3>1. c \in Known /\ c # s
      BY <1>1, <1>5, <2>1, <2>2
    <3>2. /\ t \in traces_[t]
          /\ HasParent(c) <=> c # t
          /\ HasParent(c) => spans[c].parent \in traces_[t]
      BY <2>2 DEF TreeInv
    <3>3. spans'[c].parent = spans[c].parent /\ (HasParent(c)' <=> HasParent(c))
      BY <1>2, <1>4, <3>1
    <3>4. QED
      BY <2>1, <3>2, <3>3
  <2>3. CASE c \notin traces_[t]
    <3>1. /\ t = con.trace /\ traces_[t] # {} /\ c \in traces_[s]
          /\ traces_'[t] = traces_[t] \cup traces_[s]
      <4>1. t = con.trace /\ traces_[t] # {}
        BY <1>3, <2>1, <2>3
      <4>2. traces_'[t] = traces_[t] \cup traces_[s]
        BY <1>3, <2>1, <4>1
      <4>3. QED
        BY <2>3, <4>1, <4>2
    <3>2. t \in traces_[t]
      BY <3>1 DEF TreeInv
    <3>3. c # t
      BY <2>3, <3>2
    <3>4. CASE c = s
      <4>1. con.parent \in traces_[t]
        BY <3>1 DEF JoinedInv, InTrace
      <4>2. QED
        BY <1>2, <1>4, <3>1, <3>2, <3>3, <3>4, <4>1
    <3>5. CASE c # s
      <4>1. c \in Known /\ HasParent(c) /\ spans[c].parent \in traces_[s]
        BY <1>1, <3>1, <3>5 DEF TreeInv
      <4>2. HasParent(c)' /\ spans'[c].parent = spans[c].parent
        BY <1>2, <1>4, <3>5, <4>1
      <4>3. QED
        BY <3>1, <3>2, <3>3, <4>1, <4>2
    <3>6. QED
      BY <3>4, <3>5
  <2>4. QED
    BY <2>2, <2>3
<1>8. JoinedInv'
  <2>1. \A t \in Ids : traces_'[t] # {} => /\ t # s /\ traces_[t] # {}
                                          /\ traces_[t] \subseteq traces_'[t]
    BY <1>3
  <2>2. \A k : GoodContext(k) /\ InTrace(k) => InTrace(k)'
    BY <1>5, <2>1 DEF InTrace
  <2>3. ASSUME NEW c \in Known, traces_'[spans'[c].trace] # {}
        PROVE  c \in traces_'[spans'[c].trace]
    <3>1. CASE c \in traces_[s]
      <4>1. spans'[c].trace = con.trace
        BY <1>2, <3>1
      <4>2. traces_[con.trace] # {}
        BY <1>1, <2>1, <2>3, <4>1
      <4>3. traces_'[con.trace] = traces_[con.trace] \cup traces_[s]
        BY <1>1, <1>3, <4>2
      <4>4. QED
        BY <3>1, <4>1, <4>3
    <3>2. CASE c \notin traces_[s]
      <4>1. spans'[c].trace = spans[c].trace /\ spans[c].trace \in Ids
        BY <1>2, <1>5, <3>2
      <4>2. QED
        BY <2>1, <2>3, <4>1 DEF JoinedInv
    <3>3. QED
      BY <3>1, <3>2
  <2>4. /\ \A k \in sent : GoodContext(k) /\ InTrace(k)
        /\ \A q \in Spanners : reading[q] # Nothing =>
             GoodContext(reading[q]) /\ InTrace(reading[q])
    BY DEF JoinedInv, IInv, DescentInv
  <2>5. QED
    BY <1>2, <1>6, <2>2, <2>3, <2>4 DEF JoinedInv
<1>9. RootedInv'
  <2>1. \A x \in Known : \A y : DescendsFrom(x, y) => DescendsFrom(x, y)'
    BY <1>1, <1>2, DescentMonotone DEF IInv
  <2>2. PICK root \in Known : ~HasParent(root) /\ DescendsFrom(con.parent, root)
    BY <1>1 DEF RootedInv
  <2>3. root # s /\ ~HasParent(root)'
    BY <1>1, <1>4, <2>2
  <2>4. DescendsFrom(s, root)'
    <3>1. DescendsFrom(con.parent, root)'
      BY <1>1, <2>1, <2>2
    <3>2. QED
      BY <1>2, <1>4, <3>1 DEF DescendsFrom, HasParentsOfAll
  <2>5. ASSUME NEW x \in Known
        PROVE  \E r \in Known : ~HasParent(r)' /\ DescendsFrom(x, r)'
    <3>1. PICK r \in Known : ~HasParent(r) /\ DescendsFrom(x, r)
      BY DEF RootedInv
    <3>2. DescendsFrom(x, r)'
      BY <2>1, <3>1
    <3>3. CASE r = s
      <4>1. DescendsFrom(x, root)'
        BY <2>4, <3>2, <3>3 DEF DescendsFrom
      <4>2. QED
        BY <2>2, <2>3, <4>1
    <3>4. CASE r # s
      BY <1>4, <3>1, <3>2, <3>4
    <3>5. QED
      BY <3>3, <3>4
  <2>6. QED
    BY <1>2, <2>5 DEF RootedInv
<1>10. CompleteInv'
  <2>1. \A i \in DOMAIN frames' : FALSE
    BY <1>6
  <2>2. ASSUME NEW t \in Ids, traces_'[t] # {}, traces_'[t] \subseteq exported_spans_'
        PROVE  FALSE
    <3>1. s \notin traces_'[t]
      BY <1>1, <1>6, <2>2
    <3>2. traces_'[t] = traces_[t]
      BY <1>1, <1>3, <2>2, <3>1
    <3>3. QED
      BY <1>6, <2>2, <3>2 DEF CompleteInv
  <2>3. QED
    BY <2>1, <2>2 DEF CompleteInv
<1>11. QED
  BY <1>7, <1>8, <1>9, <1>10

--------------------------------------------------------------------------------
(* Exporting.                                                              *)

(* Steps that leave the spans alone keep the parts about the shape of      *)
(* traces, when they only delete whole traces and pass on good contexts.   *)
LEMMA TracesKept ==
  ASSUME TInv, UNCHANGED spans,
         \A t \in Ids : traces_'[t] \in {traces_[t], {}},
         \A con \in sent' : GoodContext(con) /\ InTrace(con),
         \A q \in Spanners : reading'[q] # Nothing =>
           GoodContext(reading'[q]) /\ InTrace(reading'[q])
  PROVE  TreeInv' /\ JoinedInv' /\ RootedInv'
<1> USE DEF TInv
<1>1. Known' = Known /\ RootedInv' /\ \A c : HasParent(c)' = HasParent(c)
  BY SpansKept
<1>2. /\ \A c \in Known : spans[c].trace \in Ids
      /\ \A con : GoodContext(con) => con.trace \in Ids
  BY TraceIdsKnown
<1>3. \A t \in Ids : traces_'[t] # {} => traces_'[t] = traces_[t]
  OBVIOUS
<1>4. TreeInv'
  <2> SUFFICES ASSUME NEW t \in Ids, NEW c \in traces_'[t]
               PROVE  /\ t \in traces_'[t]
                      /\ HasParent(c)' <=> c # t
                      /\ HasParent(c)' => spans'[c].parent \in traces_'[t]
    BY DEF TreeInv
  <2>1. traces_'[t] = traces_[t]
    BY <1>3
  <2>2. QED
    BY <1>1, <2>1 DEF TreeInv
<1>5. JoinedInv'
  <2>1. \A con : GoodContext(con) /\ InTrace(con) => InTrace(con)'
    BY <1>2, <1>3 DEF InTrace
  <2>2. \A c \in Known : traces_'[spans[c].trace] # {} => c \in traces_'[spans[c].trace]
    BY <1>2, <1>3 DEF JoinedInv
  <2>3. QED
    BY <1>1, <2>1, <2>2 DEF JoinedInv
<1>6. QED
  BY <1>1, <1>4, <1>5

(* Steps that only take or pass on a context.                              *)
LEMMA ContextTraces ==
  ASSUME TInv, UNCHANGED <<spans, traces_, exported_spans_, frames>>,
         \A con \in sent' : GoodContext(con) /\ InTrace(con),
         \A q \in Spanners : reading'[q] # Nothing =>
           GoodContext(reading'[q]) /\ InTrace(reading'[q])
  PROVE  TraceParts'
<1>1. TreeInv' /\ JoinedInv' /\ RootedInv'
  BY TracesKept
<1>2. CompleteInv'
  BY DEF CompleteInv, TInv
<1>3. QED
  BY <1>1, <1>2 DEF TraceParts

(* The contexts that exist are good ones and their spans in their traces.  *)
LEMMA ContextsGood ==
  ASSUME TInv
  PROVE  /\ \A con \in sent : GoodContext(con) /\ InTrace(con)
         /\ \A q \in Spanners : reading[q] # Nothing =>
              GoodContext(reading[q]) /\ InTrace(reading[q])
BY DEF TInv, IInv, DescentInv, JoinedInv

(* A span that is finished completes its own trace, if any.                *)
LEMMA MarkSpanAsDoneTraces ==
  ASSUME TInv, NEW p \in Spanners, NEW s \in Known, MarkSpanAsDone(p, s)
  PROVE  TraceParts'
<1>1. frames = <<>> /\ UNCHANGED <<spans, reading, sent, traces_>>
  BY DEF MarkSpanAsDone, Enters, TInv, IInv, LockInv
<1>2. TreeInv' /\ JoinedInv' /\ RootedInv'
  BY <1>1, ContextsGood, TracesKept
<1>3. CompleteInv'
  <2>1. CASE UNCHANGED <<exported_spans_, frames>>
    BY <1>1, <2>1 DEF CompleteInv, TInv
  <2>2. CASE exported_spans_' = exported_spans_ \cup {s} /\ frames' = <<Frame(s)>>
    <3>1. DOMAIN frames' = {1} /\ frames'[1].parent = s /\ frames' # <<>>
      BY <2>2 DEF Frame
    <3>2. ASSUME NEW t \in Ids, traces_[t] # {}, traces_[t] \subseteq exported_spans_'
          PROVE  s \in traces_[t]
      BY <1>1, <2>2, <3>2 DEF CompleteInv, TInv
    <3>3. QED
      BY <1>1, <3>1, <3>2 DEF CompleteInv
  <2>3. QED
    BY <2>1, <2>2 DEF MarkSpanAsDone, Export
<1>4. QED
  BY <1>2, <1>3 DEF TraceParts

(* A waiter that is exported is in the trace of its parent, if that        *)
(* exists, and so in the trace of the span that was finished.              *)
LEMMA ExportWaiterTraces ==
  ASSUME TInv, NEW p \in Spanners, NEW w \in Known, ExportWaiter(p, w)
  PROVE  TraceParts'
<1> PICK n \in Nat \ {0} : Activates(w, n)
  BY NewActivation DEF TInv
<1>1. /\ DOMAIN frames = 1 .. n
      /\ exported_spans_' = exported_spans_ \cup {w}
      /\ UNCHANGED <<spans, reading, sent, traces_>>
      /\ spans[w].parent = frames[n].parent
      /\ frames[n].parent \in exported_spans_
      /\ DOMAIN frames' = 1 .. n + 1
      /\ frames'[n + 1].parent = w
      /\ \A i \in 1 .. n : frames'[i].parent = frames[i].parent
  BY DEF Activates
<1>2. TreeInv' /\ JoinedInv' /\ RootedInv'
  BY <1>1, ContextsGood, TracesKept
<1>3. frames' # <<>> /\ frames'[1].parent = frames[1].parent
  BY <1>1
<1>4. HasParent(w)
  BY <1>1 DEF HasParent, TInv, IInv, TypeOK, Ids, NoParent
<1>5. ASSUME NEW t \in Ids, w \in traces_[t] PROVE frames[1].parent \in traces_[t]
  <2>1. frames[n].parent \in traces_[t]
    BY <1>1, <1>4, <1>5 DEF TInv, TreeInv
  <2>2. QED
    BY <1>1, <2>1 DEF TInv, CompleteInv
<1>6. CompleteInv'
  <2>1. ASSUME NEW i \in DOMAIN frames', NEW t \in Ids, frames'[i].parent \in traces_[t]
        PROVE  frames[1].parent \in traces_[t]
    <3>1. CASE i = n + 1
      BY <1>1, <1>5, <2>1, <3>1
    <3>2. CASE i \in 1 .. n
      BY <1>1, <2>1, <3>2 DEF TInv, CompleteInv
    <3>3. QED
      BY <1>1, <3>1, <3>2
  <2>2. ASSUME NEW t \in Ids, traces_[t] # {}, traces_[t] \subseteq exported_spans_'
        PROVE  frames[1].parent \in traces_[t]
    <3>1. CASE w \in traces_[t]
      BY <1>5, <3>1
    <3>2. CASE w \notin traces_[t]
      <4>1. traces_[t] \subseteq exported_spans_
        BY <1>1, <2>2, <3>2
      <4>2. QED
        BY <2>2, <4>1 DEF TInv, CompleteInv
    <3>3. QED
      BY <3>1, <3>2
  <2>3. QED
    BY <1>1, <1>3, <2>1, <2>2 DEF CompleteInv
<1>7. QED
  BY <1>2, <1>6 DEF TraceParts

(* Only the outermost activation deletes a trace: that of the span that    *)
(* was finished, the one trace that can have become complete.              *)
LEMMA ReturnFromExportTraces ==
  ASSUME TInv, NEW p \in Spanners, ReturnFromExport(p)
  PROVE  TraceParts'
<1> USE DEF TInv, IInv
<1>0. PICK n, q, d : n = Len(frames) /\ q = frames[n].parent /\ d = spans[q].trace
  OBVIOUS
<1>1. /\ lock # NoSpanner
      /\ frames' = SubSeq(frames, 1, n - 1)
      /\ UNCHANGED <<spans, reading, sent, exported_spans_>>
      /\ \/ n > 1 /\ UNCHANGED traces_
         \/ /\ n = 1
            /\ traces_' = IF SafeToDeleteTrace(d) THEN [traces_ EXCEPT ![d] = {}] ELSE traces_
  BY <1>0, TracerAssumption DEF ReturnFromExport, Top
<1>2. n \in Nat \ {0} /\ n \in DOMAIN frames /\ DOMAIN frames = 1 .. n
  BY <1>0, <1>1 DEF TypeOK, LockInv
<1>3. DOMAIN frames' = 1 .. n - 1 /\ \A i \in 1 .. n - 1 : frames'[i] = frames[i]
  <2>1. frames \in Seq([parent : Ids, waiters : SUBSET Ids]) /\ frames # <<>>
    BY <1>1 DEF TypeOK, LockInv
  <2>2. frames' = SubSeq(frames, 1, Len(frames) - 1)
    BY <1>0, <1>1
  <2>3. QED
    BY <1>0, <2>1, <2>2, FrontOfSequence
<1>4. TreeInv' /\ JoinedInv' /\ RootedInv'
  <2>1. \A t \in Ids : traces_'[t] \in {traces_[t], {}}
    BY <1>1 DEF TypeOK
  <2>2. QED
    BY <1>1, <2>1, ContextsGood, TracesKept
<1>5. CompleteInv'
  <2>1. CASE n > 1
    <3>1. UNCHANGED <<traces_, exported_spans_>>
      BY <1>1, <2>1
    <3>2. /\ frames' # <<>> /\ frames'[1] = frames[1]
          /\ \A i \in DOMAIN frames' : i \in DOMAIN frames /\ frames'[i] = frames[i]
      BY <1>2, <1>3, <2>1
    <3>3. QED
      BY <3>1, <3>2 DEF CompleteInv
  <2>2. CASE n = 1
    <3>1. \A i \in DOMAIN frames' : FALSE
      BY <1>3, <2>2
    <3>2. traces_' = IF SafeToDeleteTrace(d) THEN [traces_ EXCEPT ![d] = {}] ELSE traces_
      BY <1>1, <2>2
    <3>3. ASSUME NEW t \in Ids, traces_'[t] # {}, traces_'[t] \subseteq exported_spans_'
          PROVE  FALSE
      <4>1. traces_'[t] = traces_[t] /\ traces_[t] # {} /\ traces_[t] \subseteq exported_spans_
        BY <1>1, <3>2, <3>3 DEF TypeOK
      <4>2. q \in traces_[t]
        BY <1>0, <2>2, <4>1 DEF CompleteInv
      <4>3. t = d
        BY <1>0, <4>2 DEF MembersInv
      <4>4. SafeToDeleteTrace(d)
        BY <4>1, <4>3 DEF SafeToDeleteTrace
      <4>5. traces_'[t] = {}
        BY <3>2, <4>3, <4>4 DEF TypeOK
      <4>6. QED
        BY <3>3, <4>5
    <3>4. QED
      BY <3>1, <3>3 DEF CompleteInv
  <2>3. QED
    BY <1>2, <2>1, <2>2
<1>6. QED
  BY <1>4, <1>5 DEF TraceParts

--------------------------------------------------------------------------------
(* The parts about traces hold initially and are kept by every action.     *)
LEMMA InitTInv == Init => TInv
<1> SUFFICES ASSUME Init PROVE TInv
  OBVIOUS
<1>1. IInv
  BY InitIInv
<1>2. Known = {} /\ DOMAIN frames = {} /\ \A t \in Ids : traces_[t] = {}
  BY DEF Init, Known
<1>3. TreeInv /\ RootedInv /\ CompleteInv
  BY <1>2 DEF TreeInv, RootedInv, CompleteInv
<1>4. JoinedInv
  BY <1>2 DEF Init, JoinedInv
<1>5. QED
  BY <1>1, <1>3, <1>4 DEF TInv

(* Every step keeps the parts about traces.                                *)
LEMMA NextTInv ==
  ASSUME TInv, [Next]_vars
  PROVE  TInv'
<1>1. IInv'
  BY NextIInv DEF TInv
<1>2. TraceParts'
  <2>1. CASE Next
    <3>1. PICK p \in Spanners :
            \/ StartSpan(p)
            \/ StartSpanByParent(p)
            \/ ReturnFromExport(p)
            \/ \E s \in Known :
                 \/ ReadParent(p, s)
                 \/ PushPropagateContext(p, s)
                 \/ MarkSpanAsDone(p, s)
                 \/ ExportWaiter(p, s)
            \/ \E con \in sent :
                 \/ StartSpanByParentPassOnContext(p, con)
                 \/ \E s \in Known :
                      \/ StartSpanSetParentContext(p, s, con)
                      \/ AddParentLazily(p, s, con)
      BY <2>1 DEF Next
    <3>2. /\ sent \subseteq Contexts
          /\ reading \in [Spanners -> Contexts \cup {Nothing}]
          /\ frames = <<>> <=> lock = NoSpanner
      BY DEF TInv, IInv, TypeOK, LockInv
    <3>3. CASE StartSpan(p)
      BY <3>3, StartSpanTraces
    <3>4. CASE StartSpanByParent(p)
      <4>1. /\ reading[p] \in Contexts
            /\ GoodContext(reading[p]) /\ InTrace(reading[p])
            /\ AddNewSpan(p, reading[p])
            /\ reading' = [reading EXCEPT ![p] = Nothing]
            /\ frames = <<>>
            /\ UNCHANGED <<sent, frames, exported_spans_>>
        BY <3>2, <3>4, ContextsGood DEF StartSpanByParent
      <4>2. \A q \in Spanners : reading'[q] \in {reading[q], Nothing}
        BY <3>2, <4>1
      <4>3. QED
        BY <4>1, <4>2, AddNewSpanTraces
    <3>5. CASE ReturnFromExport(p)
      BY <3>5, ReturnFromExportTraces
    <3>6. ASSUME NEW s \in Known
          PROVE  LET con == [trace |-> spans[s].trace, parent |-> s]
                 IN GoodContext(con) /\ InTrace(con)
      BY OwnContext DEF TInv, JoinedInv, InTrace
    <3>7. ASSUME NEW s \in Known, ReadParent(p, s) PROVE TraceParts'
      <4>1. PICK con : con = [trace |-> spans[s].trace, parent |-> s]
        OBVIOUS
      <4>2. GoodContext(con) /\ InTrace(con)
        BY <3>6, <4>1
      <4>3. /\ reading' = [reading EXCEPT ![p] = con]
            /\ UNCHANGED <<spans, sent, traces_, exported_spans_, frames>>
        BY <3>7, <4>1 DEF ReadParent
      <4>4. \A q \in Spanners : reading'[q] # Nothing =>
              GoodContext(reading'[q]) /\ InTrace(reading'[q])
        BY <3>2, <4>2, <4>3, ContextsGood
      <4>5. QED
        BY <4>3, <4>4, ContextsGood, ContextTraces
    <3>8. ASSUME NEW s \in Known, PushPropagateContext(p, s) PROVE TraceParts'
      <4>1. PICK con : con = [trace |-> spans[s].trace, parent |-> s]
        OBVIOUS
      <4>2. GoodContext(con) /\ InTrace(con)
        BY <3>6, <4>1
      <4>3. /\ sent' = sent \cup {con}
            /\ UNCHANGED <<spans, reading, traces_, exported_spans_, frames>>
        BY <3>8, <4>1 DEF PushPropagateContext
      <4>4. QED
        BY <4>2, <4>3, ContextsGood, ContextTraces
    <3>9. ASSUME NEW s \in Known, MarkSpanAsDone(p, s) PROVE TraceParts'
      BY <3>9, MarkSpanAsDoneTraces
    <3>10. ASSUME NEW s \in Known, ExportWaiter(p, s) PROVE TraceParts'
      BY <3>10, ExportWaiterTraces
    <3>11. ASSUME NEW con \in sent, StartSpanByParentPassOnContext(p, con)
           PROVE  TraceParts'
      <4>1. /\ con \in Contexts /\ GoodContext(con) /\ InTrace(con)
            /\ AddNewSpan(p, con)
            /\ sent' \subseteq sent
            /\ frames = <<>>
            /\ UNCHANGED <<reading, frames, exported_spans_>>
        BY <3>2, <3>11, ContextsGood DEF StartSpanByParentPassOnContext, Enters
      <4>2. QED
        BY <4>1, AddNewSpanTraces
    <3>12. ASSUME NEW con \in sent, NEW s \in Known, AddParentLazily(p, s, con)
           PROVE  TraceParts'
      BY <3>12, AddParentLazilyTraces
    <3>13. QED
      BY <3>1, <3>3, <3>4, <3>5, <3>7, <3>8, <3>9, <3>10, <3>11, <3>12
         DEF StartSpanSetParentContext
  <2>2. CASE UNCHANGED vars
    <3>1. UNCHANGED <<spans, reading, sent, traces_, exported_spans_, frames>>
      BY <2>2 DEF vars
    <3>2. QED
      BY <3>1, ContextsGood, ContextTraces
  <2>3. QED
    BY <2>1, <2>2
<1>3. QED
  BY <1>1, <1>2 DEF TInv, TraceParts

--------------------------------------------------------------------------------
(* The invariant about traces holds for every number of spanners, spans    *)
(* and contexts.                                                           *)
THEOREM TraceInvariance == Spec => []TInv
<1>1. Init => TInv
  BY InitTInv
<1>2. TInv /\ [Next]_vars => TInv'
  BY NextTInv
<1>3. QED
  BY <1>1, <1>2, PTL DEF Spec

(* Every trace of trace.h is one tree whose members carry its id, however  *)
(* spans are started, late, from stale contexts, and reparented.           *)
THEOREM TracesStayTrees == Spec => []TracesAreTrees
<1>1. TInv => TracesAreTrees
  <2> SUFFICES ASSUME TInv, NEW t \in Ids, traces_[t] # {}
               PROVE  /\ \A s \in traces_[t] :
                           /\ spans[s].trace = t
                           /\ HasParent(s) => spans[s].parent \in traces_[t]
                      /\ \E root \in traces_[t] :
                           \A s \in traces_[t] : HasParent(s) <=> s # root
    BY DEF TracesAreTrees
  <2>1. t \in traces_[t] /\ \A s \in traces_[t] : HasParent(s) <=> s # t
    BY DEF TInv, TreeInv
  <2>2. \A s \in traces_[t] : HasParent(s) => spans[s].parent \in traces_[t]
    BY DEF TInv, TreeInv
  <2>3. \A s \in traces_[t] : spans[s].trace = t
    BY DEF TInv, IInv, MembersInv
  <2>4. QED
    BY <2>1, <2>2, <2>3
<1>2. QED
  BY <1>1, TraceInvariance, PTL

(* Between two calls the tracer keeps no trace whose spans are all         *)
(* exported: MarkSpanAsDone, which asks once, for the trace of its own     *)
(* span, misses none.                                                      *)
THEOREM TracesDoNotLeak == Spec => []NoTraceLeaks
<1>1. TInv => NoTraceLeaks
  BY DEF TInv, IInv, LockInv, CompleteInv, NoTraceLeaks, Unlocked
<1>2. QED
  BY <1>1, TraceInvariance, PTL

(* When the spanners have finished all spans and the tracer is idle, every *)
(* span was exported, nothing is left waiting and no trace is kept.  This  *)
(* is where the spans must descend from roots: a cycle of waiters would    *)
(* wait for itself.                                                        *)
THEOREM EverythingExported == Spec => []AllExported
<1>1. TInv => AllExported
  <2> SUFFICES ASSUME TInv, Unlocked, done = Known
               PROVE  /\ exported_spans_ = Known
                      /\ \A i \in Ids : waiting_list_[i] = {} /\ traces_[i] = {}
    BY DEF AllExported
  <2> USE DEF TInv, IInv
  <2>1. frames = <<>> /\ DOMAIN frames = {}
    BY DEF Unlocked, LockInv
  <2>2. exported_spans_ = Known
    <3> DEFINE C == Known \ exported_spans_
    <3>1. \A c \in C : HasParent(c) /\ spans[c].parent \in C
      BY <2>1 DEF NoneForgotten, ParentsKnown
    <3>2. C \in SUBSET Known /\ HasParentsOfAll(C)
      BY <3>1 DEF HasParentsOfAll
    <3>3. ASSUME NEW c \in C PROVE FALSE
      <4>1. PICK r \in Known : ~HasParent(r) /\ DescendsFrom(c, r)
        BY DEF RootedInv
      <4>2. r \in C
        BY <3>2, <4>1 DEF DescendsFrom
      <4>3. QED
        BY <3>1, <4>1, <4>2
    <3>4. exported_spans_ \subseteq Known
      BY DEF TypeOK
    <3>5. QED
      BY <3>3, <3>4
  <2>3. ASSUME NEW i \in Ids PROVE waiting_list_[i] = {}
    <3>1. \A s \in waiting_list_[i] : i \in Known
      <4>1. ASSUME NEW s \in waiting_list_[i] PROVE i \in Known
        <5>1. s \in Known /\ s \in Ids /\ spans[s].parent = i
          BY DEF TypeOK, WaitingInv
        <5>2. HasParent(s)
          BY <5>1 DEF HasParent, Ids, NoParent
        <5>3. QED
          BY <5>1, <5>2 DEF ParentsKnown
      <4>2. QED
        BY <4>1
    <3>2. QED
      BY <2>1, <2>2, <3>1 DEF NoneForgotten
  <2>4. ASSUME NEW i \in Ids PROVE traces_[i] = {}
    <3>1. traces_[i] \subseteq exported_spans_
      BY <2>2 DEF TypeOK
    <3>2. QED
      BY <2>1, <3>1 DEF CompleteInv
  <2>5. QED
    BY <2>2, <2>3, <2>4
<1>2. QED
  BY <1>1, TraceInvariance, PTL
================================================================================
