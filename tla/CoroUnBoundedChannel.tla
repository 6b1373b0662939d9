-------------------------- MODULE CoroUnBoundedChannel --------------------------
(***************************************************************************)
(* The class CoroUnBoundedChannel of include/sync/channel.h: a list behind *)
(* the lock and the condition variable of its base class.  The spanners    *)
(* pass trace contexts to one another through these channels.              *)
(***************************************************************************)
EXTENDS CoroChannel, Sequences, FiniteSets

CONSTANT MaxSize   \* bound of the instance: nobody pushes beyond this size

ASSUME MaxSizeAssumption == MaxSize \in Nat \ {0}

VARIABLE buffer

vars == <<base, buffer>>

Init == BaseInit /\ buffer = <<>>

Ended == closed \/ poisened

(* Only Pop waits. *)
MayProceed(p) == Ended \/ size > 0

Await(p) ==
  /\ Holds(p, {"Pop"})
  /\ ~MayProceed(p)
  /\ Suspend(p)
  /\ UNCHANGED buffer

(* TryPush notifies before it does all that Push does. *)
NotifyFirst(p) ==
  /\ pc[p] = "prenotify"
  /\ NotifyAll(p, "lock")

(* Mutants: the size is not counted up; nobody is notified; the value      *)
(* enters at the wrong end.                                                *)
PushValueUncounted(p) ==
  /\ Holds(p, PushOps)
  /\ ~Ended
  /\ buffer' = Append(buffer, arg[p])
  /\ Leave(p, Accepted, "notify")
  /\ UNCHANGED <<flags, size>>

PushValueSilently(p) ==
  /\ Holds(p, PushOps)
  /\ ~Ended
  /\ buffer' = Append(buffer, arg[p])
  /\ size' = size + 1
  /\ Leave(p, Accepted, "return")
  /\ UNCHANGED flags

PushValueInFront(p) ==
  /\ Holds(p, PushOps)
  /\ ~Ended
  /\ buffer' = <<arg[p]>> \o buffer
  /\ size' = size + 1
  /\ Leave(p, Accepted, "notify")
  /\ UNCHANGED flags

PushValue(p) ==
  /\ Holds(p, PushOps)
  /\ ~Ended
  /\ buffer' = Append(buffer, arg[p])
  /\ size' = size + 1
  /\ Leave(p, Accepted, "notify")
  /\ UNCHANGED flags

PushRefused(p) ==
  /\ Holds(p, PushOps)
  /\ Ended
  /\ Leave(p, Refused, "notify")
  /\ UNCHANGED <<flags, size, buffer>>

(* Pop, TryPop and TryPopOnTrue (predicate true), when a value comes out. *)
PopValue(p) ==
  /\ Holds(p, PopOps)
  /\ ~poisened /\ size > 0
  /\ Leave(p, Head(buffer), "notify")
  /\ buffer' = Tail(buffer)
  /\ size' = size - 1
  /\ UNCHANGED flags

(* The same three, when the channel is poisened or empty. *)
PopNothing(p) ==
  /\ Holds(p, PopOps)
  /\ poisened \/ size = 0
  /\ op[p] = "Pop" => Ended
  /\ Leave(p, NoValue, "notify")
  /\ UNCHANGED <<flags, size, buffer>>

(* TryPopOnTrue whose predicate rejects the value: the value stays, and    *)
(* nobody is notified.                                                     *)
PredicateFails(p) ==
  /\ Holds(p, {"TryPopOnTrue"})
  /\ ~poisened /\ size > 0
  /\ Leave(p, NoValue, "return")
  /\ UNCHANGED <<flags, size, buffer>>

Step(p) ==
  \/ Await(p)
  \/ PushValue(p) \/ PushRefused(p)
  \/ PopValue(p) \/ PopNothing(p) \/ PredicateFails(p)
  \/ (CloseChannel(p) \/ PoisenChannel(p) \/ GetSize(p)) /\ UNCHANGED buffer
  \/ (NotifyFirst(p) \/ Notify(p) \/ Return(p)) /\ UNCHANGED buffer

FirstPoint == [o \in Operations |-> IF o = "TryPush" THEN "prenotify" ELSE "lock"]

(* The pushes that may still add to the list. *)
Pushing == {p \in Procs : op[p] \in PushOps /\ res[p] = Pending}

(* Bound of the instance: a push starts only while the list stays within   *)
(* MaxSize when all the pushes under way succeed.                          *)
Enter(p) ==
  /\ Call(p, FirstPoint)
  /\ (size + Cardinality(Pushing))' <= MaxSize
  /\ UNCHANGED buffer

Lock(p) == Acquire(p) /\ UNCHANGED buffer

Next == \E p \in Procs : Enter(p) \/ Lock(p) \/ Step(p)

(* As for the bounded channel. *)
Fairness == \A p \in Procs : WF_vars(Step(p)) /\ SF_vars(Lock(p))

Spec == Init /\ [][Next]_vars
FairSpec == Spec /\ Fairness
--------------------------------------------------------------------------------
(* A Pop that is suspended although there is a value, or although the      *)
(* channel has ended, is about to be woken.                                *)
NoLostWakeup ==
  \A p \in Procs :
    pc[p] = "waiting" /\ MayProceed(p) => \E q \in Procs : pc[q] = "notify"

(* The operations of the unbounded channel take effect atomically on one   *)
(* fifo queue that never refuses a value for want of room.                 *)
Fifo == INSTANCE ChannelFifo WITH queue <- buffer, MaxLen <- 0
ImplementsFifo == Fifo!Spec

(* A spanner that waits for a context gets one: a Pop under way while the  *)
(* list is not empty comes out with a value, unless others empty the list  *)
(* or the channel is poisened, and a Pop on a channel that has ended       *)
(* returns (Pop, channel.h).  The list is meant, not size_, which is what  *)
(* Pop looks at.                                                           *)
PopIsServed ==
  \A p \in Procs :
    /\ op[p] = "Pop" /\ buffer # <<>> ~> res[p] \in Values \/ buffer = <<>> \/ poisened
    /\ op[p] = "Pop" /\ Ended ~> op[p] # "Pop"
================================================================================
