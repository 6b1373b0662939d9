# A TLA+ development of Columbo

Columbo turns the logs of a SimBricks simulation (gem5 hosts, nicbm network
cards, an ns-3 network) into distributed traces. Every simulator's log is read
by a pipeline of its own; the spanner at the end of each pipeline groups the
events into spans; spans of different simulators are connected by contexts that
the spanners send each other through queues; a tracer shared by all spanners
exports finished spans, parents before children.

The modules here model that program from the bytes of a log to the trace: the
line reader, the parsers and printers of events, the channels, the pipelines
built from them, the spanners of hosts, network cards and the network that
connect their spans through queues of contexts, and the tracer. All line
numbers are those of the sources under `src/`.

## Inventory

| Component | State | Operations | What makes it correct |
|---|---|---|---|
| Coroutine channels, `sync/channel.h` | lock, condition variable, `size_`, `closed_`, `poisened_`, ring buffer or list | `Push TryPush Pop TryPop TryPopOnTrue CloseChannel PoisenChannel GetSize` | fifo, bounded, ends as documented, nobody sleeps through a change |
| Pipelines, `sync/corobelt.h`, `sync/specializations.h`, `parser/parser.h` | one channel between two stages, the event buffer of the parser | fill task, produce, handel, consume, `RunPipelineImpl` | every event once and in order at the consumer, always returns |
| Tracer, `analytics/tracer.h`, `trace.h`, `traceContext.h`, `context.h` | traces, exported spans, waiting list, one lock | `StartSpan`, `StartSpanByParent`, `...PassOnContext`, `StartSpanSetParentContext`, `AddParentLazily`, `MarkSpanAsDone` | parents first, everything exported, no trace left behind, a span has its parent's trace |
| Exporter, `exporter/exporter.h` | `span_map_`, `context_map_` | `ExportSpan` | has the parent's context whenever it exports a child |
| Spanners, `source/analytics/*Spanner.*` | pending spans, last causing span | one handler per event type, which push and pop contexts | peers stay in step, nobody waits for ever |
| Span automata, `analytics/span.h`, `source/analytics/span.cpp` | the events of a span, pending or complete | `AddToSpan` | a span is completed by the events that belong to it |
| Timers, `analytics/timer.h` (unused) | waiters and their times | `MoveForward`, `Register`, `Done` | the waiter with the smallest time goes on |
| Line reader, `reader/cReader.*` | a block, position, end of line | `HasStillLine`, `NextBlock`, `NextHandler`, matchers, number parsers | every line once and whole |
| Log parsers, `source/parser/*` | none between lines | `ParseEvent` | the event a line means |
| Events, `events/events.*`, `events/printer.h` | the base of the stream they are printed to | `Display`, `Equal` | an event survives being printed and read back |
| Event filters, `events/event-filter.h` | configuration | `handel` | the spanners can live with what they pass |
| Symbol tables, `env/symtable.*` | address to name | `Create`, `Filter` | the first symbol at an address |
| Environment and configuration, `env/*`, `config/config.h` | id counters, interned strings, symbol tables | `GetNext...Id`, `SymtableFilter` | ids are unique |

How they interact: the fill task of a parser pushes events into the event
buffer (a bounded channel); the stages of a pipeline pass them on through
bounded channels; a spanner (the consumer) calls the tracer, under the tracer's
lock, and pushes contexts to and pops contexts from unbounded channels that it
shares with its peers. `RunPipelines` in `trace.cc` starts all pipelines on
worker threads and waits for all of them.

What is hard: every channel operation changes state under a lock and notifies
after it; stages block on full and on empty channels while a runner closes
them; spans finish in an order that has nothing to do with their parents, on
several threads, while a late context moves a whole trace below another span;
the queues of contexts match by order alone, while packets are dropped,
filtered, overlap, or come from hosts nobody traces; blocks and short reads cut
lines anywhere; parsers try alternatives on a line they have half consumed; and
a stream keeps its number base from one event to the next.
`PROJECT.json` lists these hazards, related ones together, at the lines where they bite.

## Modules

`CoroChannel` is the base class: lock, condition variable, `closed_`,
`poisened_`, `size_`, and a program counter per caller.  `CoroBoundedChannel`
and `CoroUnBoundedChannel` EXTEND it, as the subclasses do, with the ring buffer
and the list. `pc` separates the points where another coroutine may run:

    idle -> lock -> locked -> notify -> return -> idle
              ^        |
              +--------+ waiting (suspended in the condition variable)

and `prenotify -> lock` for the unbounded `TryPush`, which notifies before it
locks. What an operation does under the lock is one step; taking the lock,
suspending, notifying (outside the lock) and returning are steps of their own.
`Push` and `TryPush`, and the three pops, share actions where their code is the
same. The constant `Usage` says which caller calls what.

`ChannelFifo` is the abstract specification: an atomic queue with a capacity
that may be closed or poisened, in which a call takes effect in one step between
its invocation and its return. `ImplementsFifo` in both channel modules states
the refinement; `items` maps to the ring read from `read_index_` on, or to the
list.

`Pipeline` composes a fill task, a producer, `H` handlers, a consumer and the
runner. Its channels are queues with one step per operation: this is what
`ImplementsFifo` allows. Events are the numbers of their log lines. The parser
may find no event in a line, a handler may hold an event back.

`Tracer` is the tracer with the part of the exporter that can refuse a span
(`context_map_`). A span is its id; its record holds the spanner that started
it, the trace id and the parent. A trace is named by the span that started it.
Each method is one step under the lock, except that `StartSpanByParent` reads
its parent's ids in a step before the lock (`tracer.h:341`), and that the
recursive export takes one step per span with the activation records in
`frames`. Two choices make the model allow more than the code does: waiters of
a span are exported in any order, where the code goes by the order of the
vector, and a spanner may use any span it started, at any time, as a parent or in
a context. Contexts between spanners are a set: the queues keep order, the
tracer does not rely on it. Time stamps, span types and the contents of
spans do not occur.

`Spans`, `Spanner`, `HostSpanner`, `NicSpanner` and `Machine` are about which
events become which spans, and which span the parent of which.

- `Spans` has the `AddToSpan` automata: which event a span takes after the events
  it has, and which event completes it. The members of a span class that remember
  an event of some type are the events of that type in the span.
- `Spanner` is the base class: the log a spanner still has to consume, the
  spans it started, those given to `MarkSpanAsDone`, the queues of contexts, and
  `iterate_add_erase`. `terminated` is an exception that leaves `consume`.
- `HostSpanner` and `NicSpanner` have one action for each outcome of each handler.
  A handler is one step, since it waits for a context only before it has changed
  anything, and what it does then with the tracer is serialised by the
  tracer's lock. `FinishPendingSpan` takes a step for each context: what it
  finds in the queue depends on how far the card's pipeline is.
- `Machine` composes them with the simulation that writes the logs, which is
  external. Its constant `Scripts` gives, for each scenario, the steps of each operation (the system calls, an mmio, a
  dma, an interrupt, a packet): what a step logs, which steps of other
  operations it comes after, and the message it takes from or sends on a wire
  between host and card. The steps of different operations interleave
  freely; wires keep their order, as the PCI channels of SimBricks do. Reading a log to some point
  and stopping there is the same as being slow, so the logs are written first,
  to any point of the simulation, and the spanners run afterwards. With
  `Window` they begin at any point, too, as with `--ts-lower-bound`.
- `ScriptsInStep` says which scripts are those of a host and a card, as three
  assumptions that TLC evaluates on the scripts of each run. `EventsAssumption`: events
  have the fields that spans look at. `InStepAssumption`, for each machine: one wire
  carries the accesses of the device to the card and one carries its dmas and
  interrupts to the host, each message from one event to one event of the same operation, on
  first-in first-out wires (this is the PCI channel of SimBricks); the id of a dma is used
  again only after its completion (it is an address in both simulators), and an
  interrupt completes with id 0, as `HostMsixTakes` expects; only cards log packets, an operation one
  at most; and the kernel makes another call between writing the configuration and accessing the
  device (`pci_write_before_` looks at the last call only). `EndsAssumption`, for each host:
  what ends an access of the configuration, an interrupt, or an mmio with its id is the event of
  the operation that began it, unless that was ended before (`EndsOfItsOwn`: a configuration access
  and an old-style interrupt carry no id, and an id is used for one mmio at a time), and a
  posted write is answered at once. Nothing is said of causes,
  of the order of operations that do not use the same thing, or of who takes how long.

Addresses, parser identifiers and lengths do not occur in these, ids and bars
do. Time is the number of packets received: the one comparison of times that decides
anything between operations is that of packets with system calls.

`NetDeviceSpan`, `NetworkSpanner` and `Network` are the third kind of spanner.

- `NetDeviceSpan` is the span of a packet in one device: which event it takes,
  and where its addresses come from.
- `NetworkSpanner` has one action for each outcome of `HandelNetworkEvent`, and
  the channels and devices `trace.cc` wires it with. As above, a handler is one
  step, since it waits for a context only before it has changed anything.
- `Network` is the simulated network, external: packets go from device to device
  along the routes of `tests/ns3-parser-test.cpp`, interleave, and may be dropped
  in a device or in front of one. The headers an event shows are those of the
  same test. The cards give the context of their n-th transmission at any time,
  before or after the network logs it. `CardAt`, `sent` and `delivered` say what
  cards saw. Nothing the spanner does changes the simulation, so one event
  that waits in the log is as good as many.

`LineHandler` and `Reader` are the line reader. `Reader` has the file, the
buffer with its two positions, and one `read()` per step, of any number of bytes that
fits. `LineHandler` has the matchers and number parsers on lines of *tokens*
(a digit, a blank, a text that a parser consumes at once), and counts characters where a
parser does (`MoveForward`); a parser, which in the
code is a chain of calls joined by `and`, is a sequence of steps that ends at the first failure,
with what it consumed. The modules that parse whole files of lines leave out the blank ones, which
the reader does not hand out (`cReader.h:190`; `HandedOut` in `SymbolTable`).

`Events`, `EventDisplay`, `LogParser`, `Gem5Parser`, `NicBmParser`, `NS3Parser`,
`EventStreamParser`, `SymbolTable` and `EventFilter` are operators for the classes of
events with their constructors and `Equal`, their printed form on a stream with a
base, the four parsers, the tables of symbols and the filters. `EventLog`
composes them the way the program does over two runs: load the symbol tables,
parse a line of a log, filter the event, print it to the simulator's stream, read
the line back with the stream parser and filter it by time. A line comes with the
event it means, which is stated in `MCEventLog` for each format of line apart from the
parsers.

One guard of `Tracer` is an assumption about the callers: `AddParentLazily`
gets no context that descends from the span itself (`DescendsFrom`). The code relies on the
same; whether spanners can break it is a question for two machines with the network
spanner between them (see the plan).

The modules with names in `MC...` give the constants their values (scripts,
scenarios, lines, files); the pipeline's are in its `.cfg`. In each module the
definitions called mutants are wrong variants of the definition they precede;
no specification uses them. They show that each property can fail.

## Runs

| Run | Question |
|---|---|
| `bounded_any` | Three callers of all operations, two values, two slots. `RingConsistent`: indices, size and slots agree. `NoLostWakeup`: a coroutine that sleeps although it may proceed has a notification coming. `ImplementsFifo`: each behaviour is one of the abstract queue. |
| `bounded_stages` | A stage that pushes, a stage that pops and a runner that may close or poison. `StagesNeverStuck`: the stages do not wait for one another for ever. `EndReleasesAll`: after a close or a poison every operation returns. |
| `unbounded_any` | As `bounded_any` for the list, which holds at most two values. `PopIsServed`: a pop that finds a value in the list comes out with one, unless others take them all or the queue is poisened, though nobody closes the queue; on a queue that has ended it returns. |
| `pipeline` | Two handlers, four lines, channels of one slot and a buffer of two. `OrderKept`, `NothingLost`, `CompleteOnReturn`, `NeverTerminates` and `EventuallyReturns`. |
| `tracer` | Two spanners, four spans, one context on its way. `NeverTerminates`: no check in tracer, trace or exporter fails. `WaitsForParent`, `AllExported`, `NoTraceLeaks`, `TracesAreTrees`. |
| `scripts` | Three simulations, with logs up to any point. First a system call, a configuration write, an mmio write, two dmas and an interrupt. Second what stays in the host (calls from the middle of one on, the msix table, configuration, interrupts of old style), and mmios with a completion. Third three packets and two calls that receive. `OneOperation`: a span has the events of one operation. `RightParent`: a span caused across the wires has the span of the same operation as parent. `EndsInStep`: when all is handled no context is left and nothing but the last call is unfinished. `PacketsInOrder`: each packet goes to one call, in order, and none to a call that was over. `NeverTerminates`. `EveryEventHandled`: no spanner waits for ever. |
| `window` | The logs begin anywhere. `TypeOK` and `ParentFits`: the pending lists stay sound and parents are of the right kind, the packet a system call received included, whatever is missing. |
| `cut_dma` | `RightParent` is violated when the logs begin in the middle of a dma: see the findings. |
| `tracer_stale_context` | `InTraceOfParent` is violated: see the findings. |
| `network` | Two packets at a time, packets in turn with drops (an ARP request to all and its reply, an IP packet, a packet of another protocol), and the request of a host nobody traces, with and without the filter of the pipeline. `ContextsInStep`: a card is sent one context for each packet it is handed, in that order, of that packet. `TraceFollowsPacket`: the trace of a packet begins with the context of its own transmission, and follows the packet as long as it is alone on the network. `EveryEventHandled`. `EndsClean`: only a packet without addresses stops the program, and no span is left open. |
| `reader` | Every file of up to six bytes, a buffer of four, and `read()` returning anything it may. `LinesInOrder`, `EveryLineRead` (if blank lines, line and end fit into the buffer, and but for a last line without an end), `SearchFinds` (the first occurrence of a text whose first letter occurs in it once; never a wrong place), `ReadingEnds`. |
| `event_logs` | Every format of line of the three simulators, three dumps of symbols with their headings, five sources. `LinesUnderstood`: a line becomes the event it means. `ReadBackExact`: which printed events can be read back, what of them changes on the way, given the base the stream was in (`begun`), and which of them the later time filter keeps. `EqualIsIdentity`: what `Equal` says of an event and its copy. |

Bounds. Two slots make the ring wrap, fill and empty; three callers are enough
for one to hold the lock, one to have a notification outstanding and one to
sleep, and the invariants and the refinement of both channels hold for
every number (they are proved). Four lines are more than a channel holds and
fewer than all channels together, so that the stages block on both ends, with
one and with several events on the way. Four spans give a chain of four, a tree
with siblings, and a trace of two moved below another trace. `MaxSize`,
`Lines`, `MaxSpans`, `MaxContexts`, `MaxLag` and the `drops` of a scenario are
the bounds; `MaxContexts` is 2 in
`tracer_stale_context`, where one context has to outlive the use of another.
Values are symmetric in the safety runs of the channels, spanners in those of
the tracer; the liveness runs use no symmetry. The tracer's runs switch
the deadlock check off (all spans started and finished), the pipeline's
(it has returned), those of `Machine` and `Network` (all logs are handled; that nobody
waits before is `EveryEventHandled`) and that of `Reader` (the file is read).

A buffer of four bytes and files of six let a line be cut by every block and by
every short read, and be too long; the letters are two, the patterns those with and
without a repeated start. Two packets are all that one of
`last_finished_device_span_` can mix up; two from the same card make its contexts
queue up. In `event_logs` the numbers are on both sides of ten and of sixteen, those of the
sources too (1, 2, 10, 11, 18), so that a base that is wrong shows, as a letter or as
other digits; bars and the sizes of accesses of the configuration are below ten, as they
are in logs. Each line can follow each other one, since all that one leaves behind is the
base of its stream.

The scripts of `MCMachine` have one machine: hosts meet only through the network.
Two dmas are enough for ids to be mixed up and for contexts to be taken in the
wrong order; the configuration write goes before them because it is logged like
an mmio of the device. The third has a packet more than calls, and lets the
third packet come after the first call has begun. The last is a restriction that
matters: with two packets before the first call, that call is copied for both, and
the second call, which received one of them, waits for a context that may
never come. Which packets a call delivered is not in the logs, so
the code has no way to tell. There is one interrupt at a time: a second one before the
first is completed overwrites `pending_host_msix_span_`.

## Fairness

A coroutine that has called an operation is resumed until it returns: weak
fairness on `Step`. concurrencpp's `async_lock` serves awaiters in the order they
came, so a coroutine that asks for the lock is not passed over for ever although
the lock is taken again and again: strong fairness on `Lock`.
`async_condition_variable` releases the lock and enqueues the awaiter in one
step, so no notification falls between. Nobody is obliged to call an operation,
except in `bounded_stages` the two stages. In `Pipeline` every task and the
runner has a worker thread of its own (`GetWorkerThreadExecutor`), and the parser,
the handlers and the consumer are assumed to return: weak fairness on
each task. `Tracer` states safety only. In `Machine` the host's and the card's
pipeline have weak fairness each, on worker threads of their own as well; the
simulation has none, it may stop anywhere. In `Network` the network's pipeline has
weak fairness and so has the giving of each card's contexts, which is what
`EveryEventHandled` of `Machine` says of the cards. In `Reader` the task runs
and `read()` returns.

## Findings

`tracer_stale_context`. A context holds the trace id its span had when the context was made.
`AddParentLazily` gives a span and its whole trace another id and removes the
old trace. A child started later with the old context (`tracer.h:370`), or by a
`StartSpanByParent` that read the id before it waited for the lock
(`tracer.h:341`), carries an id that names no trace: it is added to none, and is
exported with a trace id that differs from its parent's. The
comment at `tracer.h:356` says the method adds the span to a trace using
the context. The run finds it with a system call that sends a context and is
reparented before the context is used. No other property of the tracer depends
on it: such a span is still exported after its parent, and leaves nothing
behind.

`cut_dma`. The comment at `hostSpanner.cc:230` says that a dma comes with a context of the
card. When `--ts-lower-bound` falls between the card's execution of a dma and
the host's event, it does not: the host takes the context of the next dma
instead, and stays one behind. Only the kind of the context is compared
(`hostSpanner.cc:236`). `window` shows what is left of the promise: a
parent of the right kind.

Apart from these runs, properties that hold state some flaws as what the code does:

- `ReadBackExact`: the number of its source, which every event shows, and lengths are
  printed in the base an earlier event left in the stream (`events.cc:33`, `events.cc:497`)
  and read back with a fixed one. After an event with an address the source numbered 10
  is printed as `a`, and no event of it can be read until one resets the base; the one
  numbered 18 comes back as 12. The length of a received packet is read into the place of
  its port, and 0 is left for a length (`event-stream.cpp:436`); the name of a component is
  cut at a `-` (`event-stream.cpp:202`). `--ts-lower-bound` and `--ts-upper-bound` are
  converted as hexadecimal numbers (`string_util.h:181` ignores the base it is
  given; `trace.cc:124` gives 10, and the comment at `trace.cc:113` a decimal time).
- `LinesUnderstood`: `LoadSyms` skips no heading, and a word is 0 to `ParseUintTrim`
  (`cReader.cpp:206`), so that the line with the file's format is a symbol at the
  offset of the dump. `LoadElf` skips three lines, of those that are not blank: with the
  blank line readelf begins with, the first entry, which has no name, is one of them.
- `EqualIsIdentity`: a `HostCall` is equal to nothing, itself included
  (`events.cc:86` asks `HostInstr::Equal`, which wants another type).
- `EveryLineRead`: a last line without a line end is lost, and so is everything
  behind a line that does not fit into the buffer.
- `TraceFollowsPacket` holds for packets that are alone on the network only.
- `EndsClean`: a packet that is neither ARP nor IP and reaches a card ends the
  program (`networkSpanner.cpp:61`).

## Proofs

`CoroBoundedChannelProofs` proves for every capacity, every set of callers and
values and every `Usage`, from the assumptions named in `CoroChannel` and
`CoroBoundedChannel` only:

- `Invariance`: `IInv`, the inductive invariant, is the conjunction of `TypeOK`,
  `LockInv` (the lock is held by exactly the process in a critical section),
  `CallInv` (operation, argument and result fit the program counter),
  `RingConsistent` and `NoLostWakeup`. The ring alone is inductive given types;
  `NoLostWakeup` needs `LockInv`, since it is the holder of the lock that may
  break it and owes the notification, and `CallInv`, since which predicate a
  sleeper waits for depends on its operation.
- `TypeCorrect`, `RingIsConsistent`, `WakeupsNotLost`, `MutualExclusion` follow.
- `ChannelIsFifo`: the channel refines `ChannelFifo`. Each push or pop under the
  lock is the abstract call's effect; locking, waiting and notifying are
  stutters. The arithmetic of the wrapped indices is in lemmas of its own.

`TracerProofs` proves for every set of spanners and every bound on spans and
contexts, from the guard of `AddParentLazily` named above:

- `TracerInvariance`: `IInv`, the inductive invariant. `WaitingInv` and
  `NoneForgotten` say who waits, also in the middle of an export: a finished
  span waits for its parent or is in an activation. `FramesInv` says what the
  activations of the recursion may assume of each other: each exports the
  children of one exported span, and no two of them the same span's.
  `ExportedInv` carries the order of the exports. `MembersInv` and `DescentInv`
  are there for `AddParentLazily`: to find the old trace, an unexported root
  must still be a member of the trace it started, so the trace is not
  deleted; to move no span into a trace that has it, the new trace must differ
  from the old one, which holds because a trace id, however stale, always
  names an ancestor of the span that carries it, and the root has no ancestor but
  itself. `DescendsFrom` is stated with closed sets instead of a recursion so
  that the provers can use it.
- `TracerTypeCorrect`, `ChecksNeverFail` and `WaitersInOrder` follow: `TypeOK`,
  `NeverTerminates` and `WaitsForParent` of the run `tracer`.

It goes on from there to what a trace is:

- `TraceInvariance`: `TInv` adds four parts to `IInv`. `TreeInv`: a trace is named
  by its one member without a parent, and the parents of the others are members.
  `JoinedInv`: who carries the id of a trace that exists, a span or a context, is
  in that trace; without it a stale id could put a span into two traces.
  `RootedInv`: parents lead to a root. `CompleteInv`: one `MarkSpanAsDone` exports
  within one trace, so that only that trace can become complete and the `erase`
  at its end is enough; it speaks of the activations, since in the middle of an
  export the trace is complete before it is erased.
- `TracesStayTrees`, `TracesDoNotLeak` and `EverythingExported` follow:
  `TracesAreTrees`, `NoTraceLeaks` and `AllExported`. For the last one takes
  a span that is not exported and waits, and goes up to its root: no ancestor is
  exported either, so the root is finished, unexported and has nothing to wait for.

`CoroUnBoundedChannelProofs` proves for every set of callers and values, every
`Usage` and every bound on the list what the bounded channel's module does:
`Invariance`, `TypeCorrect`, `WakeupsNotLost`, `MutualExclusion` and the
refinement `ChannelIsFifo`. The invariant is simpler, because there is one condition to
wait for and `size_` is the length of the list; `TryPush`, which notifies before
it locks, needs the point `prenotify` in `CallInv`.

`PipelineProofs` proves for every number of handlers, lines and slots:

- `Invariance`: `StageInv` says what each task holds at which point, `EndInv` how
  the end of the log moves down (a channel is closed only after its writer has ended, a
  task ends only after its channel is closed and empty, the runner waits for
  one after the other). The order between places cannot be proved of `consumed`
  alone: `OrderInv` has it for each pair of places an event can be at (in the hands
  of a task, between two tasks, consumed), `SortedInv` within a channel,
  and `FreshInv` says that what was read is younger than what was not.
- `TypeCorrect`, `PipelineNeverTerminates`, `OrderIsKept`, `NothingIsLost` and
  `ReturnIsComplete`: all invariants of the run `pipeline`.

`MachineProofs` proves for every number of machines, every script and logs that
begin and end anywhere, from `MachineAssumption` (`None` is no span) and
`ScriptsAssumption` (a step logs at a spanner):

- `MachineInvariance`: `MInv` is `KindsInv` and `OrderInv`. `KindsInv` types the
  whole exchange: what is in each channel is a context of the kind its
  reader may expect (`QueuesInv`), a pending span is a span of the spanner's own and of
  the member's kind (`HostInv`, `NicInv`), a pending dma is listed once and is not finished
  (`DmasInv`), and a parent is of a causing kind and at a place where it is caused
  (`ParentsInv`). These need each other: a parent comes from a context
  or from a pending span. `OrderInv` has the waiting packets in order
  (`WaitingInOrder`), after all that were taken (`TakenCameBefore`), and the call
  that takes the next one last (`CallIsLast`); the copies of a call are why
  this is not obvious.
- `TypeCorrect` and `ParentsFit` follow, `TypeOK` and `ParentFits` of the run
  `window`, and `TakenInOrder`: the first half of `PacketsInOrder`.

`MachineParentProofs` proves `RightParentAlways`, the property `RightParent` of the run
`scripts`, for every number of machines and all scripts that satisfy `EventsAssumption` and
`InStepAssumption`, if the logs begin with the simulation. `cut_dma` shows that it is false
if they do not. The contexts between the spanners carry no names; that each
meets the event it belongs to is a matter of order alone, of four orders on each side:

- `InStepInv` is about the spanners once the logs are written. Per machine there are
  three streams (`MmioStream`, `DmaStream`, `RxStream`): what is in a channel of
  contexts, and then what the rest of the sender's log will put there, begins with what the
  rest of the receiver's log is due to take, in this order (`InStep`). So the first
  context is the right one whenever there is one (`FirstsMeet`). `HostHalf` and `NicHalf` say
  which event is one that sends or takes: an execution or completion of a dma finds its span
  among the pending ones because ids are used in turn (`InTurn`), and an mmio is one
  of the device by the call before it (`CallInv`). `RightInv` is what results for the spans.
- `TraceHostInStep` and `TraceNicInStep` prove that every handler preserves it, in any
  interleaving of the two pipelines.
- `SimulationIn` is about the simulation before. A log has a history, the occurrences
  of the scripts it is made of, each once and ordered as the script is; of two histories the
  one side's messages are taken in the order they were sent (`Transit`), those
  under way being on the wire. `SimulationStays` is its preservation, `SimulationLeaves` that wherever the
  logs end they are in step: what the card was not told yet, the host has logged after all it was told.
- `ParentInv` is `SimulationIn` before and `InStepInv` after `EndLogs`.

It also proves `OneOperationAlways`, `OneOperation` of that run, from all three assumptions. An
event says neither its operation nor its span; the spanner finds the span by looking at the
pending ones:

- `OperationsInv` has spans of one operation (`WholeInv`), and what each host began and did
  not end (`BegunInv`): a pending access or interrupt has its one event yet (`BegunBy`), what ends
  it first in the rest of the log is of its operation (`Behind`), the answer to a posted write
  comes next (`Answered`), and no two of them could be ended by the same event. So the
  first pending span that takes an event (`iterate_add_erase`) is the only one, and the right one
  (`HostEndsBegun`).
- A dma or an interrupt is ended by the completion with its id, and ids are used in turn:
  this is `InTurn` of `InStepInv` again (`ClosesOwn`).
- A new configuration access finishes an old one that was not ended, a second interrupt is given
  up, and a system call is copied and goes on: what was begun stays as it is (`BegunKept`), or the new
  one takes its place (`HostBegins`).
- `LogEnds` has it that the logs of the simulation are so, from their histories.

`ReaderProofs` proves for every file, every size of the buffer and every way
`read()` cuts the file:

- `ReaderInvariance`: `BufferInv` (the buffer holds the bytes of the file that were read
  last), `PositionInv` (what is left begins where a line may begin; the end that was
  found is the end of the line there), `HandedInv` (the lines handed out are exactly
  those that begin in what is consumed), `ClosedInv` (the task gives
  up at the end of the file or with a full buffer, without a whole line in it).
- `LinesComeInOrder` and `LinesAllRead`: `LinesInOrder` and `EveryLineRead`.
- `SearchIsRight`: `SearchFinds`, for every line and from `PatternsAssumption` (a
  text is a sequence of letters). The search is a loop in the code and a recursive
  function in the model; instead of an induction over the line the proof takes the
  largest place at which the recursion would go wrong and shows that there is
  none (`FoundFromRight`).

`NetworkProofs` proves for every scenario and every lag of the spanner behind the
simulation, from `ScenariosAssumption` only: a packet is enqueued from an adapter
at most once, in the first device of its route and where there is an adapter; it is
handed over only where there is one and not in the device that sent it; the packets
of interest are exactly those whose first device belongs to a card. This is how the
simulated network is built (`trace.cc` wires the cards to these devices), and more
than the scenarios of the run `network`: any routes, drops and interleaving, with
or without the filter of the pipeline, any number of packets.

- `NetworkInvariance`: `NetworkInv`. The difficulty is that what a span needs is partly
  handled, partly in the log and partly still to be simulated, so each part
  speaks of all three. `EndsInv`: what began a span is followed by what ends it, as the
  next event of the packet, in the log or of the device the packet is in; with
  `SpansInv` (at most one unfinished span per packet, with the fields of its
  enqueue) the first active span that takes an event is the right one.
  `BeginsInv`: a packet of interest has a span before it goes on within the network, so
  `last_finished_device_span_` is set when it is asked for, and a packet that is handed
  to a card has a span to name. `DeliveredInv`: the contexts sent to a card, then
  the deliveries in the log, are the packets it was handed, in their order; `Tells`
  states this as a monotone bijection between the positions in the log and those of
  the packets that are left. `TerminatedInv`: only a packet without addresses that
  leaves for a card makes a check fail; for that the others must be shown not to.
- `ContextsInStepAlways` and `EndsCleanAlways` follow.
- `TraceInvariance`: `TraceInv`, on top of `NetworkInv`. `SentInv` is `DeliveredInv`
  for the contexts from a card, which arrive before or after the packet they are
  for. `NewInv`: an event from an adapter is the first of its packet. `AloneInv`: a
  packet that met no other is alone on its way, and from its first event to its last
  in the log; `NewestInv`: so its newest span is unfinished or is
  `last_finished_device_span_`, which all packets share. `ParentInv` is then what
  `TraceFollowsPacket` says of each span.
- `TraceFollowsPacketAlways` follows.

What is only model-checked, and why:

- all liveness (`EventuallyReturns`, `EndReleasesAll`, `StagesNeverStuck`,
  `PopIsServed`, `EveryEventHandled`, `ReadingEnds`): the prover does not do fairness
  or ENABLED;
- `NeverTerminates` and `EndsInStep` of `Machine` and the
  second half of `PacketsInOrder` (no packet that came after the call): they are
  not true of every script, and need more than `ScriptsInStep` assumes: that what ends
  something comes after its beginning and is there in the end, what each event is caused by,
  and how many packets a call receives;
- the properties of `EventLog`: what a chain of matchers computes is an induction over
  data, and what a line means is given by the tables of the instance.

## Not modelled, and why

`PROJECT.json` lists every component. In short:

- what nothing uses: `NonCoroChannel`, `Timer` and `WeakTimer`,
  `LazyTtLMap`, the nearest-address lookups of `SymsFilter`,
  `ParseSyncInfo`, `ParseSimbricksEvent`, `GenericEventFilter`, `GenericSingleSpan`.
  A model would have to invent the caller whose behaviour the properties are about.
- output: `Display` of channels and spans, logging, the attributes handed to
  OpenTelemetry.
- input from the system: the command line, YAML, opening files, and
  `IsStreamStillGood`, which polls a named pipe. `Reader` has the end of a pipe as
  what it is to the code, a `read()` of no bytes.
- configuration that is data: interned strings and the fixed tables of functions
  of the kernel. `CallsScript` uses the classes of functions that the host
  spanner tells apart.
- `cxxopts.hpp` is third-party; the scripts only prepare inputs.
- storage: the constructor of `CoroBoundedChannel` reserves room for `capacity_` elements
  and makes none (`channel.h:566`), so `buffer_[write_index_]` is past the vector's `size()`:
  undefined behaviour, whose outcomes depend on the library and on the memory. The model
  takes the slots for what they are meant to be, elements that hold what was last put there.

## Plan

1. *Machines and network together*: two machines with the network spanner
   between them, for the one question that needs all three: can the tracer be
   given a context that descends from the span it reparents (`tracer.h:313`).
2. *Overlapping interrupts* (`hostSpanner.cc:271`) and calls that share packets
   (`hostSpanner.cc:43`): scripts in which they happen, and what is then still true.
3. *Network logs that begin in the middle* (`networkSpanner.cpp:124`).
4. Proofs: the further assumptions on scripts from which `NeverTerminates` and
   `EndsInStep` follow; the second half of `PacketsInOrder`.
