--------------------------- MODULE CoroBoundedChannel ---------------------------
(***************************************************************************)
(* The class CoroBoundedChannel of include/sync/channel.h: a ring buffer   *)
(* of capacity_ slots behind the lock and the condition variable of its    *)
(* base class.  A pipeline connects its stages with these channels.        *)
(***************************************************************************)
EXTENDS CoroChannel, Sequences

CONSTANT Capacity   \* capacity_

ASSUME CapacityAssumption == Capacity \in Nat \ {0}

VARIABLES buffer, read_index, write_index

ring == <<buffer, read_index, write_index>>
vars == <<base, ring>>

Slots == 0 .. Capacity - 1

Init ==
  /\ BaseInit
  /\ buffer = [i \in Slots |-> NoValue]
  /\ read_index = 0
  /\ write_index = 0

(* An index one further, modulo the capacity. *)
NextIndex(i) == (i + 1) % Capacity

(* Mutant: the size is not counted up.                                     *)
perform_write_uncounted(v) ==
  /\ buffer' = [buffer EXCEPT ![write_index] = v]
  /\ write_index' = NextIndex(write_index)
  /\ UNCHANGED <<size, read_index>>

perform_write(v) ==
  /\ buffer' = [buffer EXCEPT ![write_index] = v]
  /\ write_index' = NextIndex(write_index)
  /\ size' = size + 1
  /\ UNCHANGED read_index

(* The slot is moved from: a null pointer stays behind. *)
perform_read ==
  /\ buffer' = [buffer EXCEPT ![read_index] = NoValue]
  /\ read_index' = NextIndex(read_index)
  /\ size' = size - 1
  /\ UNCHANGED write_index

Ended == closed \/ poisened
(* Mutant: an off-by-one in the test for room.                             *)
HasRoomAtCapacity == size <= Capacity

HasRoom == size < Capacity

(* The predicates that Push and Pop give to the condition variable. *)
MayProceed(p) ==
  \/ Ended
  \/ op[p] = "Push" /\ HasRoom
  \/ op[p] = "Pop" /\ size > 0

Await(p) ==
  /\ Holds(p, {"Push", "Pop"})
  /\ ~MayProceed(p)
  /\ Suspend(p)
  /\ UNCHANGED ring

(* Push and TryPush, when the value goes in. *)
PushValue(p) ==
  /\ Holds(p, PushOps)
  /\ ~Ended /\ HasRoom
  /\ perform_write(arg[p])
  /\ Leave(p, Accepted, "notify")
  /\ UNCHANGED flags

(* Push and TryPush, when they return false. *)
PushRefused(p) ==
  /\ Holds(p, PushOps)
  /\ Ended \/ (op[p] = "TryPush" /\ ~HasRoom)
  /\ Leave(p, Refused, "notify")
  /\ UNCHANGED <<flags, size, ring>>

(* Mutants: the pushers are not notified; a poisened channel yields values. *)
PopValueSilently(p) ==
  /\ Holds(p, PopOps)
  /\ ~poisened /\ size > 0
  /\ Leave(p, buffer[read_index], "return")
  /\ perform_read
  /\ UNCHANGED flags

PopValueOfPoisened(p) ==
  /\ Holds(p, PopOps)
  /\ size > 0
  /\ Leave(p, buffer[read_index], "notify")
  /\ perform_read
  /\ UNCHANGED flags

(* Pop, TryPop and TryPopOnTrue (predicate true), when a value comes out. *)
PopValue(p) ==
  /\ Holds(p, PopOps)
  /\ ~poisened /\ size > 0
  /\ Leave(p, buffer[read_index], "notify")
  /\ perform_read
  /\ UNCHANGED flags

(* The same three, when the channel is poisened or empty. *)
PopNothing(p) ==
  /\ Holds(p, PopOps)
  /\ poisened \/ size = 0
  /\ op[p] = "Pop" => Ended
  /\ Leave(p, NoValue, "notify")
  /\ UNCHANGED <<flags, size, ring>>

(* TryPopOnTrue whose predicate rejects the value: it returns at once, the *)
(* guard unlocks, and nobody is notified.                                  *)
PredicateFails(p) ==
  /\ Holds(p, {"TryPopOnTrue"})
  /\ ~poisened /\ size > 0
  /\ Leave(p, NoValue, "return")
  /\ UNCHANGED <<flags, size, ring>>

(* What a process does inside the channel once it has called. *)
Step(p) ==
  \/ Await(p)
  \/ PushValue(p) \/ PushRefused(p)
  \/ PopValue(p) \/ PopNothing(p) \/ PredicateFails(p)
  \/ (CloseChannel(p) \/ PoisenChannel(p) \/ GetSize(p)) /\ UNCHANGED ring
  \/ (Notify(p) \/ Return(p)) /\ UNCHANGED ring

Enter(p) == Call(p, [o \in Operations |-> "lock"]) /\ UNCHANGED ring
Lock(p) == Acquire(p) /\ UNCHANGED ring

Next == \E p \in Procs : Enter(p) \/ Lock(p) \/ Step(p)

(* A called coroutine is resumed until it returns, and the awaiters of an  *)
(* async lock are served in their order, so none is passed over for ever.  *)
(* Nobody has to call.                                                     *)
Fairness == \A p \in Procs : WF_vars(Step(p)) /\ SF_vars(Lock(p))

Spec == Init /\ [][Next]_vars
FairSpec == Spec /\ Fairness
--------------------------------------------------------------------------------
(* Every variable holds a value of its type; the asserts of perform_write  *)
(* and perform_read on the indices and on the size are part of it.         *)
TypeOK ==
  /\ BaseTypeOK
  /\ size \in 0 .. Capacity
  /\ buffer \in [Slots -> Values \union {NoValue}]
  /\ read_index \in Slots
  /\ write_index \in Slots

(* The i-th oldest value, i from 0, is in this slot. *)
SlotOf(i) == (read_index + i) % Capacity

(* The three fields that describe the ring agree whatever operations of    *)
(* whatever callers led here: the write index is size_ slots after the     *)
(* read index, the slots in between hold values that were pushed, and no   *)
(* value is left behind outside of them.                                   *)
RingConsistent ==
  /\ write_index = SlotOf(size)
  /\ \A i \in Slots : (buffer[SlotOf(i)] # NoValue) <=> i < size

(* A coroutine that is suspended although its predicate holds is about to  *)
(* be woken: whoever made the predicate true has yet to call notify_all.   *)
(* Without it a Pop would sleep on a channel that has a value.             *)
NoLostWakeup ==
  \A p \in Procs :
    pc[p] = "waiting" /\ MayProceed(p) => \E q \in Procs : pc[q] = "notify"

(* What every step preserves.                                              *)
IInv == TypeOK /\ LockInv /\ CallInv /\ RingConsistent /\ NoLostWakeup

(* The values in the channel, oldest first. *)
Contents == [i \in 1 .. size |-> buffer[SlotOf(i - 1)]]

(* Push, TryPush, Pop, TryPop, TryPopOnTrue, CloseChannel, PoisenChannel   *)
(* and GetSize of the bounded channel take effect atomically on one fifo   *)
(* queue of Capacity values: none is lost, duplicated or overtaken, and    *)
(* closed and poisened channels answer as their comments say.              *)
Fifo == INSTANCE ChannelFifo WITH queue <- Contents, MaxLen <- Capacity
ImplementsFifo == Fifo!Spec

(* Once a channel is closed or poisened nobody stays inside it: every      *)
(* operation in progress returns, suspended or not.                        *)
EndReleasesAll ==
  \A p \in Procs : Ended /\ op[p] # NoOp ~> op[p] = NoOp
================================================================================
