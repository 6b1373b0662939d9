-------------------------------- MODULE Spanner --------------------------------
(***************************************************************************)
(* What the spanners of include/analytics/spanner.h share: the events they *)
(* consume, the spans they started, and the queues of contexts between     *)
(* them.  A machine m has a host and a nic; net is the network next to it. *)
(*                                                                         *)
(* A handler is one step.  It can wait only in the Pop at its beginning,   *)
(* so the step is enabled when there is a context; what the tracer does    *)
(* for it (module Tracer) is here the change of spans and finished.  The   *)
(* one handler that looks at a queue again and again, FinishPendingSpan,   *)
(* takes several steps.                                                    *)
(***************************************************************************)
EXTENDS Spans

CONSTANTS
  Machines,
  None       \* no span, a null pointer

VARIABLES
  log,         \* the events each spanner has not consumed yet
  spans,       \* the spans each spanner started
  finished,    \* the spans given to MarkSpanAsDone
  queue,       \* the channels of contexts
  terminated   \* an exception ended the program

Host(m) == <<"host", m>>
Nic(m)  == <<"nic", m>>
Net(m)  == <<"net", m>>
Spanners == {Host(m) : m \in Machines} \cup {Nic(m) : m \in Machines}
Sources  == Spanners \cup {Net(m) : m \in Machines}

ToNic(m)    == <<"to_nic", m>>      \* to_nic_queue_, from_host_queue_
FromNic(m)  == <<"from_nic", m>>    \* from_nic_queue_, to_host_queue_
Receives(m) == <<"receives", m>>    \* from_nic_receives_queue_, to_host_receives_
ToNet(m)    == <<"to_net", m>>      \* to_network_queue_
FromNet(m)  == <<"from_net", m>>    \* from_network_queue_
Queues == {"to_nic", "from_nic", "receives", "to_net", "from_net"} \X Machines

InitSpanner ==
  /\ spans = [p \in Sources |-> <<>>]
  /\ finished = {}
  /\ terminated = FALSE

(* consume: the handler of the event that p is at.                         *)
Event(p) == Head(log[p])
At(p, types) == ~terminated /\ log[p] # <<>> /\ Event(p).type \in types
Consume(p) == log' = [log EXCEPT ![p] = Tail(@)]

(* An event that no handler is registered for is skipped.                  *)
Skip(p, handled) ==
  /\ ~terminated /\ log[p] # <<>> /\ Event(p).type \notin handled
  /\ Consume(p)
  /\ UNCHANGED <<spans, finished, queue, terminated>>

(* A span is named by the spanner that started it and its number there.    *)
SpanOf(id) == spans[id[1]][id[2]]
NextId(p) == <<p, Len(spans[p]) + 1>>
NewSpan(kind, parent, e) ==
  Add([kind |-> kind, events |-> <<>>, pending |-> TRUE, parent |-> parent], e)
Append1(p, sp) == [spans EXCEPT ![p] = Append(@, sp)]
Update(id, sp) == [spans EXCEPT ![id[1]][id[2]] = sp]

(* iterate_add_erase: the pending spans that take e, the first of them, and *)
(* the list without it.                                                    *)
Taking(pending, e) == {i \in DOMAIN pending : CanAdd(SpanOf(pending[i]), e)}
First(indices) == CHOOSE i \in indices : \A j \in indices : i <= j
Without(pending, i) == SubSeq(pending, 1, i - 1) \o SubSeq(pending, i + 1, Len(pending))

(* CreatePassOnContext, PushPropagateContext and PopPropagateContext.      *)
Context(id, expectation, ts) == [parent |-> id, expectation |-> expectation, ts |-> ts]
Push(q, con) == queue' = [queue EXCEPT ![q] = Append(@, con)]
CanPop(q) == queue[q] # <<>>
Front(q) == Head(queue[q])
Pop(q) == queue' = [queue EXCEPT ![q] = Tail(@)]
PopAndPush(q, r, con) == queue' = [queue EXCEPT ![q] = Tail(@), ![r] = Append(@, con)]

(* An exception leaves consume and the pipeline.                           *)
Throw == terminated' = TRUE /\ UNCHANGED <<log, spans, finished, queue>>
================================================================================
