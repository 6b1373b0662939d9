--------------------------------- MODULE Tracer ---------------------------------
(***************************************************************************)
(* The tracer of include/analytics/tracer.h, shared by every spanner: it   *)
(* starts spans, keeps the traces they belong to, and hands a finished     *)
(* span to the exporter once its parent is exported.                       *)
(*                                                                         *)
(* Every method takes async_lock_ first and never suspends while it holds  *)
(* it, so a method is one step from lock to unlock, with two exceptions:   *)
(* StartSpanByParent reads its parent before it asks for the lock, and     *)
(* the recursion of ExportWaitingForParentVec is one step per span, with   *)
(* its activation records in frames.                                       *)
(*                                                                         *)
(* A span is its id, a trace the id of the span that started it.           *)
(***************************************************************************)
EXTENDS Naturals, Sequences, FiniteSets

CONSTANTS
  Spanners,      \* the callers, each a sequential coroutine
  MaxSpans,      \* bound on the spans of a run
  MaxContexts,   \* bound on the contexts between spanners
  NoSpanner,
  Nothing        \* a spanner is not inside StartSpanByParent

ASSUME TracerAssumption ==
  /\ MaxSpans \in Nat
  /\ MaxContexts \in Nat
  /\ NoSpanner \notin Spanners

NoParent == 0   \* the invalid id
Ids == 1 .. MaxSpans

Contexts == [trace : Ids, parent : Ids]

ASSUME NothingAssumption == Nothing \notin Contexts

VARIABLES
  lock,             \* the holder of async_lock_
  spans,            \* owner and TraceContext of each span, by id
  done,             \* history: the spans given to MarkSpanAsDone
  reading,          \* what StartSpanByParent read before it had the lock
  sent,             \* the Contexts on their way between spanners
  traces_,          \* the ids in each trace, {} when there is no such trace
  exported_spans_,
  waiting_list_,    \* the waiters of each span, {} when it has no entry
  frames,           \* the activations of ExportWaitingForParentVec
  context_map_,     \* of the exporter: the trace id each span went out with
  terminated        \* std::terminate was called

vars == <<lock, spans, done, reading, sent, traces_, exported_spans_,
          waiting_list_, frames, context_map_, terminated>>

Init ==
  /\ lock = NoSpanner
  /\ spans = <<>>
  /\ done = {}
  /\ reading = [p \in Spanners |-> Nothing]
  /\ sent = {}
  /\ traces_ = [t \in Ids |-> {}]
  /\ exported_spans_ = {}
  /\ waiting_list_ = [s \in Ids |-> {}]
  /\ frames = <<>>
  /\ context_map_ = [s \in Ids |-> NoParent]
  /\ terminated = FALSE

Known == DOMAIN spans
HasParent(s) == spans[s].parent # NoParent
(* Mutant: nobody waits for a parent.                                      *)
NeedNotWait(s) == s \in Known

WasParentExported(s) == HasParent(s) => spans[s].parent \in exported_spans_

(* p is between two calls and no critical section is under way.            *)
Enters(p) == ~terminated /\ lock = NoSpanner /\ reading[p] = Nothing

(* A spanner may pass on, or use as a parent, any span it started.         *)
Own(p, s) == s \in Known /\ spans[s].owner = p

---------------------------------------------------------------------------
(* Starting spans *)

(* Mutant: adds the span to a trace that does not exist any more.          *)
AddNewSpanAlways(p, con) ==
  LET s == Len(spans) + 1
  IN /\ s \in Ids
     /\ spans' = Append(spans, [owner |-> p, trace |-> con.trace, parent |-> con.parent])
     /\ traces_' = [traces_ EXCEPT ![con.trace] = @ \cup {s}]

(* AddSpanToTraceIfTraceExists of the new span, after it got a context.    *)
AddNewSpan(p, con) ==
  LET s == Len(spans) + 1
  IN /\ s \in Ids
     /\ spans' = Append(spans, [owner |-> p, trace |-> con.trace, parent |-> con.parent])
     /\ traces_' = IF traces_[con.trace] = {}
                   THEN traces_
                   ELSE [traces_ EXCEPT ![con.trace] = @ \cup {s}]

(* A span without a parent starts a trace.                                 *)
StartSpan(p) ==
  LET s == Len(spans) + 1
  IN /\ Enters(p)
     /\ s \in Ids
     /\ spans' = Append(spans, [owner |-> p, trace |-> s, parent |-> NoParent])
     /\ traces_' = [traces_ EXCEPT ![s] = {s}]
     /\ UNCHANGED <<lock, done, reading, sent, exported_spans_, waiting_list_,
                    frames, context_map_, terminated>>

(* StartSpanByParent reads the ids of the parent without the lock ...      *)
ReadParent(p, s) ==
  /\ ~terminated
  /\ lock # p /\ reading[p] = Nothing
  /\ Own(p, s)
  /\ reading' = [reading EXCEPT ![p] = [trace |-> spans[s].trace, parent |-> s]]
  /\ UNCHANGED <<lock, spans, done, sent, traces_, exported_spans_, waiting_list_,
                 frames, context_map_, terminated>>

(* ... and starts the child, once it has the lock, with what it read.      *)
StartSpanByParent(p) ==
  /\ ~terminated
  /\ lock = NoSpanner
  /\ reading[p] # Nothing
  /\ AddNewSpan(p, reading[p])
  /\ reading' = [reading EXCEPT ![p] = Nothing]
  /\ UNCHANGED <<lock, done, sent, exported_spans_, waiting_list_, frames,
                 context_map_, terminated>>

(* The child of a span of another spanner, which sent the context.         *)
StartSpanByParentPassOnContext(p, con) ==
  /\ Enters(p)
  /\ AddNewSpan(p, con)
  /\ sent' = sent \ {con}
  /\ UNCHANGED <<lock, done, reading, exported_spans_, waiting_list_, frames,
                 context_map_, terminated>>

(* A copy of the reparented span s becomes the child of con.               *)
StartSpanSetParentContext(p, s, con) ==
  /\ Own(p, s) /\ s \notin done /\ HasParent(s)
  /\ StartSpanByParentPassOnContext(p, con)

(* CreatePassOnContext: a snapshot of the span, put in a context queue.    *)
PushPropagateContext(p, s) ==
  LET con == [trace |-> spans[s].trace, parent |-> s]
  IN /\ ~terminated
     /\ lock # p /\ reading[p] = Nothing
     /\ Own(p, s)
     /\ con \notin sent
     /\ Cardinality(sent) < MaxContexts
     /\ sent' = sent \cup {con}
     /\ UNCHANGED <<lock, spans, done, reading, traces_, exported_spans_,
                    waiting_list_, frames, context_map_, terminated>>

---------------------------------------------------------------------------
(* Reparenting *)

(* s is a span that x descends from, or x itself: it is in every set that   *)
(* has x and the parents of its members.                                   *)
HasParentsOfAll(C) == \A c \in C : HasParent(c) => spans[c].parent \in C
DescendsFrom(x, s) ==
  \A C \in SUBSET Known : x \in C /\ HasParentsOfAll(C) => s \in C

(* Mutant: the spans of the old trace keep its id.                         *)
AddParentKeepingIds(p, s, con) ==
  LET old == spans[s].trace
      moved == traces_[old]
  IN /\ Enters(p)
     /\ Own(p, s) /\ s \notin done /\ ~HasParent(s)
     /\ ~DescendsFrom(con.parent, s)
     /\ sent' = sent \ {con}
     /\ spans' = [spans EXCEPT ![s].trace = con.trace, ![s].parent = con.parent]
     /\ traces_' = [t \in Ids |->
          IF t = old THEN {}
          ELSE IF t = con.trace /\ traces_[t] # {} THEN traces_[t] \cup moved
          ELSE traces_[t]]
     /\ terminated' = (moved = {} \/ con.trace = old)
     /\ UNCHANGED <<lock, done, reading, exported_spans_, waiting_list_, frames,
                    context_map_>>

(* The receive context arrives after the system call span has begun: the   *)
(* root of a trace, and all that is in the trace, move below con.parent.   *)
(* The code relies on con not descending from s; so does the model.        *)
AddParentLazily(p, s, con) ==
  LET old == spans[s].trace
      moved == traces_[old]
  IN /\ Enters(p)
     /\ Own(p, s) /\ s \notin done /\ ~HasParent(s)
     /\ ~DescendsFrom(con.parent, s)
     /\ sent' = sent \ {con}
     /\ spans' = [c \in Known |->
          IF c = s THEN [spans[c] EXCEPT !.trace = con.trace, !.parent = con.parent]
          ELSE IF c \in moved THEN [spans[c] EXCEPT !.trace = con.trace]
          ELSE spans[c]]
     /\ traces_' = [t \in Ids |->
          IF t = old THEN {}
          ELSE IF t = con.trace /\ traces_[t] # {}
               THEN traces_[t] \cup moved \cup {s}
          ELSE traces_[t]]
     /\ terminated' = \/ moved = {}
                      \/ con.trace = old
                      \/ traces_[con.trace] \cap (moved \cup {s}) # {}
     /\ UNCHANGED <<lock, done, reading, exported_spans_, waiting_list_, frames,
                    context_map_>>

---------------------------------------------------------------------------
(* Exporting *)

(* MarkSpanAsExported and ExportSpan.  The exporter links the span to the  *)
(* context of its parent, which it must have.                              *)
Export(s) ==
  /\ exported_spans_' = exported_spans_ \cup {s}
  /\ context_map_' = [context_map_ EXCEPT ![s] = spans[s].trace]
  /\ terminated' = \/ s \in exported_spans_
                   \/ HasParent(s) /\ context_map_[spans[s].parent] = NoParent

(* Mutant: exports all children, finished or not.                          *)
FrameOfChildren(s) == [parent |-> s, waiters |-> {c \in Known : spans[c].parent = s}]

Frame(s) == [parent |-> s, waiters |-> waiting_list_[s]]

MarkSpanAsDone(p, s) ==
  /\ Enters(p)
  /\ Own(p, s) /\ s \notin done
  /\ done' = done \cup {s}
  /\ \/ /\ WasParentExported(s)
        /\ Export(s)
        /\ lock' = p
        /\ frames' = <<Frame(s)>>
        /\ UNCHANGED waiting_list_
     \/ /\ ~WasParentExported(s)
        /\ waiting_list_' = [waiting_list_ EXCEPT ![spans[s].parent] = @ \cup {s}]
        /\ UNCHANGED <<lock, exported_spans_, frames, context_map_, terminated>>
  /\ UNCHANGED <<spans, reading, sent, traces_>>

Top == frames[Len(frames)]

(* Mutant: the waiters of a waiter are forgotten.                          *)
ExportWaiterOnly(p, w) ==
  /\ ~terminated
  /\ lock = p
  /\ w \in Top.waiters
  /\ Export(w)
  /\ frames' = [frames EXCEPT ![Len(frames)].waiters = @ \ {w}]
  /\ UNCHANGED <<lock, spans, done, reading, sent, traces_, waiting_list_>>

(* One turn of the loop over the waiters, up to the recursive call.        *)
ExportWaiter(p, w) ==
  /\ ~terminated
  /\ lock = p
  /\ w \in Top.waiters
  /\ Export(w)
  /\ frames' = Append([frames EXCEPT ![Len(frames)].waiters = @ \ {w}], Frame(w))
  /\ UNCHANGED <<lock, spans, done, reading, sent, traces_, waiting_list_>>

SafeToDeleteTrace(t) == traces_[t] # {} /\ traces_[t] \subseteq exported_spans_

(* Mutant: the entry of the parent stays in the waiting list.              *)
EraseNothing(q) == UNCHANGED waiting_list_

EraseWaiters(q) == waiting_list_' = [waiting_list_ EXCEPT ![q] = {}]

(* The loop is over.  The outermost activation returns to MarkSpanAsDone,  *)
(* which deletes the trace when all its spans are exported and unlocks.    *)
ReturnFromExport(p) ==
  LET t == spans[Top.parent].trace
  IN /\ ~terminated
     /\ lock = p
     /\ Top.waiters = {}
     /\ EraseWaiters(Top.parent)
     /\ frames' = SubSeq(frames, 1, Len(frames) - 1)
     /\ \/ Len(frames) > 1 /\ UNCHANGED <<lock, traces_>>
        \/ /\ Len(frames) = 1
           /\ lock' = NoSpanner
           /\ traces_' = IF SafeToDeleteTrace(t)
                         THEN [traces_ EXCEPT ![t] = {}]
                         ELSE traces_
     /\ UNCHANGED <<spans, done, reading, sent, exported_spans_, context_map_, terminated>>

Next ==
  \E p \in Spanners :
    \/ StartSpan(p)
    \/ StartSpanByParent(p)
    \/ ReturnFromExport(p)
    \/ \E s \in Known :
         \/ ReadParent(p, s)
         \/ PushPropagateContext(p, s)
         \/ MarkSpanAsDone(p, s)
         \/ ExportWaiter(p, s)
    \/ \E con \in sent :
         \/ StartSpanByParentPassOnContext(p, con)
         \/ \E s \in Known :
              \/ StartSpanSetParentContext(p, s, con)
              \/ AddParentLazily(p, s, con)

Spec == Init /\ [][Next]_vars

---------------------------------------------------------------------------
Unlocked == lock = NoSpanner

Records == [owner : Spanners, trace : Ids, parent : Ids \cup {NoParent}]

(* Type correctness. *)
TypeOK ==
  /\ lock \in Spanners \cup {NoSpanner}
  /\ spans \in Seq(Records)
  /\ Known \subseteq Ids
  /\ done \subseteq Known
  /\ reading \in [Spanners -> Contexts \cup {Nothing}]
  /\ sent \subseteq Contexts
  /\ traces_ \in [Ids -> SUBSET Known]
  /\ exported_spans_ \subseteq done
  /\ waiting_list_ \in [Ids -> SUBSET done]
  /\ frames \in Seq([parent : Ids, waiters : SUBSET Ids])
  /\ context_map_ \in [Ids -> Ids \cup {NoParent}]
  /\ terminated \in BOOLEAN

(* No check of the tracer, of a trace or of the exporter ever fails: no    *)
(* span is exported twice or before its parent, AddParentLazily always     *)
(* finds the old trace, and no span enters a trace twice.                  *)
NeverTerminates == ~terminated

(* A finished span is exported, or it waits, once, for its own parent,     *)
(* which is not exported; nothing else waits.                              *)
WaitsForParent ==
  Unlocked => \A s \in Known, q \in Ids :
    s \in waiting_list_[q] <=>
      s \in done \ exported_spans_ /\ q = spans[s].parent /\ q \notin exported_spans_

(* When every span is finished, the collector has all of them, nothing is  *)
(* left waiting, and the tracer has forgotten every trace.                 *)
AllExported ==
  Unlocked /\ done = Known =>
    /\ exported_spans_ = Known
    /\ \A i \in Ids : waiting_list_[i] = {} /\ traces_[i] = {}

(* A trace is kept only for a span still to be exported: the one call of   *)
(* SafeToDeleteTrace per finished span, for its own trace only, suffices.  *)
NoTraceLeaks ==
  Unlocked => \A t \in Ids : traces_[t] # {} => ~ traces_[t] \subseteq exported_spans_

(* A trace is one tree and is reparented as a whole: its members carry     *)
(* its id, the parent of a member is a member, and one member has none.    *)
TracesAreTrees ==
  \A t \in Ids : traces_[t] # {} =>
    /\ \A s \in traces_[t] :
         /\ spans[s].trace = t
         /\ HasParent(s) => spans[s].parent \in traces_[t]
    /\ \E root \in traces_[t] : \A s \in traces_[t] : HasParent(s) <=> s # root

(* A span that is to be exported below its parent carries the trace id of  *)
(* its parent: what StartSpanByParent and StartSpanByParentPassOnContext   *)
(* promise by adding a new span to a trace using the context.              *)
InTraceOfParent ==
  \A s \in Known : HasParent(s) => spans[s].trace = spans[spans[s].parent].trace
================================================================================
