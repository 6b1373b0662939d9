------------------------------ MODULE ChannelFifo ------------------------------
(***************************************************************************)
(* What a channel of include/sync/channel.h promises to its callers, with  *)
(* no lock, no condition variable and no buffer: every operation takes     *)
(* effect in one instant between its call and its return, on a first-in    *)
(* first-out queue that may be closed (it refuses values and drains) and   *)
(* poisened (it refuses and yields nothing any more).  An operation that   *)
(* may not take effect yet is simply still pending.                        *)
(***************************************************************************)
EXTENDS Naturals, Sequences

CONSTANTS
  Procs,      \* the coroutines that use the channel
  Values,     \* the values passed through it
  MaxLen,     \* how many values it holds; Unlimited if it never refuses for want of room
  Usage,      \* Usage[p]: the operations process p calls
  NoOp,       \* no operation in progress
  NoValue,    \* std::nullopt, and the argument of an operation without one
  Pending,    \* the result of an operation that has not taken effect
  Accepted,   \* true, returned by Push and TryPush
  Refused,    \* false, returned by Push and TryPush
  Done        \* the result of CloseChannel and PoisenChannel

VARIABLES queue, closed, poisened, op, arg, res

vars == <<queue, closed, poisened, op, arg, res>>

Unlimited == 0
HasRoom == MaxLen = Unlimited \/ Len(queue) < MaxLen

PushOps == {"Push", "TryPush"}
PopOps == {"Pop", "TryPop", "TryPopOnTrue"}
OtherOps == {"CloseChannel", "PoisenChannel", "GetSize"}
Operations == PushOps \union PopOps \union OtherOps

Init ==
  /\ queue = <<>>
  /\ closed = FALSE
  /\ poisened = FALSE
  /\ op = [p \in Procs |-> NoOp]
  /\ arg = [p \in Procs |-> NoValue]
  /\ res = [p \in Procs |-> NoValue]

InProgress(p, ops) == op[p] \in ops /\ res[p] = Pending
Answer(p, r) == res' = [res EXCEPT ![p] = r] /\ UNCHANGED <<op, arg>>

Call(p) ==
  /\ op[p] = NoOp
  /\ \E o \in Usage[p] :
       /\ op' = [op EXCEPT ![p] = o]
       /\ \E v \in (IF o \in PushOps THEN Values ELSE {NoValue}) :
            arg' = [arg EXCEPT ![p] = v]
  /\ res' = [res EXCEPT ![p] = Pending]
  /\ UNCHANGED <<queue, closed, poisened>>

(* A value enters only an open channel with room. *)
Enqueue(p) ==
  /\ InProgress(p, PushOps)
  /\ ~closed /\ ~poisened /\ HasRoom
  /\ queue' = Append(queue, arg[p])
  /\ Answer(p, Accepted)
  /\ UNCHANGED <<closed, poisened>>

(* Push waits for room, TryPush does not. *)
Refuse(p) ==
  /\ InProgress(p, PushOps)
  /\ \/ closed \/ poisened
     \/ op[p] = "TryPush" /\ ~HasRoom
  /\ Answer(p, Refused)
  /\ UNCHANGED <<queue, closed, poisened>>

(* The oldest value leaves, unless the channel is poisened.  The caller's  *)
(* predicate may accept any value.                                         *)
Dequeue(p) ==
  /\ InProgress(p, PopOps)
  /\ ~poisened /\ queue # <<>>
  /\ Answer(p, Head(queue))
  /\ queue' = Tail(queue)
  /\ UNCHANGED <<closed, poisened>>

(* Pop waits for a value until the channel ends; the caller's predicate    *)
(* may reject any value.                                                   *)
YieldNothing(p) ==
  /\ InProgress(p, PopOps)
  /\ \/ poisened
     \/ queue = <<>> /\ (op[p] = "Pop" => closed)
     \/ op[p] = "TryPopOnTrue"
  /\ Answer(p, NoValue)
  /\ UNCHANGED <<queue, closed, poisened>>

Close(p) ==
  /\ InProgress(p, {"CloseChannel"})
  /\ closed' = TRUE
  /\ Answer(p, Done)
  /\ UNCHANGED <<queue, poisened>>

Poisen(p) ==
  /\ InProgress(p, {"PoisenChannel"})
  /\ poisened' = TRUE
  /\ Answer(p, Done)
  /\ UNCHANGED <<queue, closed>>

Measure(p) ==
  /\ InProgress(p, {"GetSize"})
  /\ Answer(p, Len(queue))
  /\ UNCHANGED <<queue, closed, poisened>>

(* The caller gets the answer, and keeps no trace of the call. *)
Return(p) ==
  /\ op[p] # NoOp
  /\ res[p] # Pending
  /\ op' = [op EXCEPT ![p] = NoOp]
  /\ arg' = [arg EXCEPT ![p] = NoValue]
  /\ res' = [res EXCEPT ![p] = NoValue]
  /\ UNCHANGED <<queue, closed, poisened>>

Next ==
  \E p \in Procs :
    \/ Call(p) \/ Return(p)
    \/ Enqueue(p) \/ Refuse(p)
    \/ Dequeue(p) \/ YieldNothing(p)
    \/ Close(p) \/ Poisen(p) \/ Measure(p)

Spec == Init /\ [][Next]_vars
================================================================================
