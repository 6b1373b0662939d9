-------------------------------- MODULE Pipeline --------------------------------
(***************************************************************************)
(* One pipeline of include/sync/corobelt.h and include/sync/               *)
(* specializations.h, fed by the BufferedEventProvider of                  *)
(* include/parser/parser.h.                                                *)
(*                                                                         *)
(*   task 0               ResetFillBufferTask: log lines to events         *)
(*   task 1               Produce                                          *)
(*   tasks 2 .. H + 1     Handel, one for each of the H handlers           *)
(*   task H + 2           Consume                                          *)
(*                                                                         *)
(* Task t pops from channel t - 1 and pushes to channel t: channel 0 is    *)
(* the event buffer, channels 1 .. H + 1 are channels[0 .. H] of           *)
(* RunPipelineImpl.  An operation on a channel is one step on its queue;   *)
(* that CoroBoundedChannel behaves so is ImplementsFifo of that module.    *)
(***************************************************************************)
EXTENDS Naturals, Sequences

CONSTANTS
  H,            \* the number of handlers
  Lines,        \* the number of lines in the log (bound of the instance)
  BufferSize,   \* capacity of the event buffer
  ChannelSize,  \* capacity of the channels between the tasks
  NoEvent       \* a task holds no event

ASSUME PipelineAssumption ==
  /\ H \in Nat
  /\ Lines \in Nat
  /\ BufferSize \in Nat \ {0}
  /\ ChannelSize \in Nat \ {0}
  /\ NoEvent \notin Nat

VARIABLES
  line,        \* the next line of the log
  chan,        \* the values in each channel
  closed,      \* closed_ of each channel
  pc,          \* where each task is
  hand,        \* the event each task works on
  consumed,    \* what consume(...) was called with, in order
  dropped,     \* history: lines that are no event, events a handler held back
  runner,      \* the task RunPipelineImpl awaits; H + 3 once it has returned
  terminated   \* std::terminate was called

vars == <<line, chan, closed, pc, hand, consumed, dropped, runner, terminated>>

Channels == 0 .. H + 1
Tasks == 0 .. H + 2
Producers == {1}
Handlers == 2 .. H + 1
Consumer == H + 2
Returned == H + 3

Capacity(c) == IF c = 0 THEN BufferSize ELSE ChannelSize

Init ==
  /\ line = 1
  /\ chan = [c \in Channels |-> <<>>]
  /\ closed = [c \in Channels |-> FALSE]
  /\ pc = [t \in Tasks |-> IF t = 0 THEN "idle" ELSE IF t = 1 THEN "start" ELSE "pop"]
  /\ hand = [t \in Tasks |-> NoEvent]
  /\ consumed = <<>>
  /\ dropped = {}
  /\ runner = 1
  /\ terminated = FALSE

At(t, point) == pc[t] = point /\ ~terminated
Go(t, point) == pc' = [pc EXCEPT ![t] = point]

(* The first produce(...) posts the fill task to a thread of its own.      *)
StartFill ==
  /\ At(1, "start")
  /\ pc' = [pc EXCEPT ![0] = "read", ![1] = "pop"]
  /\ UNCHANGED <<line, chan, closed, hand, consumed, dropped, runner, terminated>>

(* The next line of the log is an event, or ParseEvent returns null.       *)
ReadLine ==
  /\ At(0, "read")
  /\ line <= Lines
  /\ line' = line + 1
  /\ \/ hand' = [hand EXCEPT ![0] = line] /\ Go(0, "push") /\ UNCHANGED dropped
     \/ dropped' = dropped \union {line} /\ UNCHANGED <<pc, hand>>
  /\ UNCHANGED <<chan, closed, consumed, runner, terminated>>

(* Mutant: the fill task ends without closing the event buffer.            *)
EndOfLogUnclosed ==
  /\ At(0, "read")
  /\ line > Lines
  /\ Go(0, "done")
  /\ UNCHANGED <<line, chan, closed, hand, consumed, dropped, runner, terminated>>

EndOfLog ==
  /\ At(0, "read")
  /\ line > Lines
  /\ Go(0, "close")
  /\ UNCHANGED <<line, chan, closed, hand, consumed, dropped, runner, terminated>>

(* Mutants: Push does not wait for room, and goes beyond the capacity, or  *)
(* returns false, which is ignored.                                        *)
PushBeyondCapacity(t) ==
  /\ At(t, "push")
  /\ chan' = [chan EXCEPT ![t] = IF closed[t] THEN @ ELSE Append(@, hand[t])]
  /\ terminated' = (closed[t] /\ t # 0)
  /\ hand' = [hand EXCEPT ![t] = NoEvent]
  /\ Go(t, IF t = 0 THEN "read" ELSE "pop")
  /\ UNCHANGED <<line, closed, consumed, dropped, runner>>

PushIgnored(t) ==
  /\ At(t, "push")
  /\ chan' = [chan EXCEPT ![t] =
       IF closed[t] \/ Len(@) = Capacity(t) THEN @ ELSE Append(@, hand[t])]
  /\ hand' = [hand EXCEPT ![t] = NoEvent]
  /\ Go(t, IF t = 0 THEN "read" ELSE "pop")
  /\ UNCHANGED <<line, closed, consumed, dropped, runner, terminated>>

(* Push waits for room; on a closed channel it returns false, which the    *)
(* fill task ignores and which ends the program in Produce and Handel.     *)
Push(t) ==
  /\ At(t, "push")
  /\ closed[t] \/ Len(chan[t]) < Capacity(t)
  /\ chan' = [chan EXCEPT ![t] = IF closed[t] THEN @ ELSE Append(@, hand[t])]
  /\ terminated' = (closed[t] /\ t # 0)
  /\ hand' = [hand EXCEPT ![t] = NoEvent]
  /\ Go(t, IF t = 0 THEN "read" ELSE "pop")
  /\ UNCHANGED <<line, closed, consumed, dropped, runner>>

(* Mutant: the newest event is popped first.                               *)
PopNewest(t) ==
  /\ At(t, "pop")
  /\ chan[t - 1] # <<>>
  /\ hand' = [hand EXCEPT ![t] = chan[t - 1][Len(chan[t - 1])]]
  /\ chan' = [chan EXCEPT ![t - 1] = SubSeq(@, 1, Len(@) - 1)]
  /\ Go(t, IF t \in Producers THEN "push" ELSE IF t = Consumer THEN "consume" ELSE "handel")
  /\ UNCHANGED <<line, closed, consumed, dropped, runner, terminated>>

Pop(t) ==
  /\ At(t, "pop")
  /\ chan[t - 1] # <<>>
  /\ hand' = [hand EXCEPT ![t] = Head(chan[t - 1])]
  /\ chan' = [chan EXCEPT ![t - 1] = Tail(@)]
  /\ Go(t, IF t \in Producers THEN "push" ELSE IF t = Consumer THEN "consume" ELSE "handel")
  /\ UNCHANGED <<line, closed, consumed, dropped, runner, terminated>>

(* Mutant: a closed channel is not drained.                                *)
PopNothingOnceClosed(t) ==
  /\ At(t, "pop")
  /\ closed[t - 1]
  /\ Go(t, IF t = Consumer THEN "done" ELSE "close")
  /\ UNCHANGED <<line, chan, closed, hand, consumed, dropped, runner, terminated>>

(* Pop returns nothing: the loop ends, and all but the consumer close      *)
(* their own channel.                                                      *)
PopNothing(t) ==
  /\ At(t, "pop")
  /\ chan[t - 1] = <<>>
  /\ closed[t - 1]
  /\ Go(t, IF t = Consumer THEN "done" ELSE "close")
  /\ UNCHANGED <<line, chan, closed, hand, consumed, dropped, runner, terminated>>

(* A handler passes the event on or holds it back.                         *)
Handel(t) ==
  /\ At(t, "handel")
  /\ \/ Go(t, "push") /\ UNCHANGED <<hand, dropped>>
     \/ /\ Go(t, "pop")
        /\ dropped' = dropped \union {hand[t]}
        /\ hand' = [hand EXCEPT ![t] = NoEvent]
  /\ UNCHANGED <<line, chan, closed, consumed, runner, terminated>>

Consume ==
  /\ At(Consumer, "consume")
  /\ consumed' = Append(consumed, hand[Consumer])
  /\ hand' = [hand EXCEPT ![Consumer] = NoEvent]
  /\ Go(Consumer, "pop")
  /\ UNCHANGED <<line, chan, closed, dropped, runner, terminated>>

CloseChannel(t) ==
  /\ At(t, "close")
  /\ closed' = [closed EXCEPT ![t] = TRUE]
  /\ Go(t, "done")
  /\ UNCHANGED <<line, chan, hand, consumed, dropped, runner, terminated>>

(* Mutant: the channels are closed without waiting for their writers.      *)
CloseWithoutAwait ==
  /\ runner \in Producers \union Handlers
  /\ ~terminated
  /\ closed' = [closed EXCEPT ![runner] = TRUE]
  /\ runner' = runner + 1
  /\ UNCHANGED <<line, chan, pc, hand, consumed, dropped, terminated>>

(* RunPipelineImpl: await the tasks in order and close the channel of each *)
(* again.                                                                  *)
AwaitTask ==
  /\ runner \in Producers \union Handlers
  /\ At(runner, "done")
  /\ closed' = [closed EXCEPT ![runner] = TRUE]
  /\ runner' = runner + 1
  /\ UNCHANGED <<line, chan, pc, hand, consumed, dropped, terminated>>

(* Last it awaits the consumer, which has no channel to close.             *)
AwaitConsumer ==
  /\ runner = Consumer
  /\ At(Consumer, "done")
  /\ runner' = Returned
  /\ UNCHANGED <<line, chan, closed, pc, hand, consumed, dropped, terminated>>

TaskStep(t) ==
  \/ t = 0 /\ (ReadLine \/ EndOfLog)
  \/ t = 1 /\ StartFill
  \/ t \in Channels /\ (Push(t) \/ CloseChannel(t))
  \/ t # 0 /\ (Pop(t) \/ PopNothing(t))
  \/ t \in Handlers /\ Handel(t)
  \/ t = Consumer /\ Consume

RunnerStep == AwaitTask \/ AwaitConsumer

Next == (\E t \in Tasks : TaskStep(t)) \/ RunnerStep

(* Every task runs on a thread of its own (GetWorkerThreadExecutor), and   *)
(* the parser, the handlers and the consumer return.                       *)
Fairness == (\A t \in Tasks : WF_vars(TaskStep(t))) /\ WF_vars(RunnerStep)

Spec == Init /\ [][Next]_vars /\ Fairness
--------------------------------------------------------------------------------
Points == {"idle", "start", "read", "pop", "handel", "push", "consume", "close", "done"}

(* Every variable holds a value of its type, and no channel exceeds its    *)
(* capacity.                                                               *)
TypeOK ==
  /\ line \in 1 .. Lines + 1
  /\ chan \in [Channels -> Seq(1 .. Lines)]
  /\ \A c \in Channels : Len(chan[c]) <= Capacity(c)
  /\ closed \in [Channels -> BOOLEAN]
  /\ pc \in [Tasks -> Points]
  /\ hand \in [Tasks -> 1 .. Lines \union {NoEvent}]
  /\ consumed \in Seq(1 .. Lines)
  /\ dropped \subseteq 1 .. Lines
  /\ runner \in 1 .. Returned
  /\ terminated \in BOOLEAN

(* "unable to push next event to target channel" never ends the program:   *)
(* in no interleaving of the tasks with the runner, which closes the       *)
(* channels a second time, is a channel closed while its writer may push.  *)
NeverTerminates == ~terminated

(* The events that wait in channel c, that task t works on, and that have  *)
(* reached the consumer.                                                   *)
Seen(c) == {chan[c][i] : i \in DOMAIN chan[c]}
Held(t) == {hand[t]} \ {NoEvent}
Reached == {consumed[i] : i \in DOMAIN consumed}

Increasing(s) == \A i, j \in DOMAIN s : i < j => s[i] < s[j]
Before(S, T) == \A x \in S, y \in T : x < y

(* The order of the log is kept everywhere: what a task or a channel       *)
(* further down the pipeline has is older than what is further up.         *)
OrderKept ==
  /\ Increasing(consumed)
  /\ Before(Reached, Held(Consumer))
  /\ \A c \in Channels :
       /\ Increasing(chan[c])
       /\ Before(Seen(c), Held(c))
       /\ Before(Held(c + 1), Seen(c))
       /\ \A d \in Channels : c < d =>
            /\ Before(Seen(d) \union Held(d), Seen(c) \union Held(c))
            /\ Before(Reached \union Held(Consumer), Seen(c) \union Held(c))

(* No event is lost: a line that was read is held back by somebody, or is  *)
(* on its way, or has been consumed.                                       *)
NothingLost ==
  1 .. line - 1 =
    dropped \union Reached
    \union (UNION {Held(t) : t \in Tasks}) \union (UNION {Seen(c) : c \in Channels})

(* When RunPipelineImpl returns, the consumer has had every event that the *)
(* parser recognised and the handlers passed on, each once, in the order   *)
(* of the log, and no task is left running.                                *)
CompleteOnReturn ==
  runner = Returned =>
    /\ Reached = 1 .. Lines \ dropped
    /\ Increasing(consumed)
    /\ \A t \in Tasks : pc[t] = "done"

(* RunPipelineImpl returns.                                                *)
EventuallyReturns == <>(runner = Returned)
================================================================================
