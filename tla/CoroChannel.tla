------------------------------ MODULE CoroChannel ------------------------------
(***************************************************************************)
(* The class CoroChannel of include/sync/channel.h: what its bounded and   *)
(* its unbounded subclass share.  The async lock, the condition variable   *)
(* and the flags are its state; the operations of the base class are       *)
(* actions here, those of a subclass are actions of the subclass's module. *)
(*                                                                         *)
(* An operation of the code runs through these points, pc[p]:              *)
(*   idle       p is not inside the channel                                *)
(*   prenotify  TryPush of the unbounded channel: notify before locking    *)
(*   lock       p awaits channel_lock_ (at first, or after a notification) *)
(*   locked     p holds channel_lock_                                      *)
(*   waiting    p is suspended in channel_cv_ and does not hold the lock   *)
(*   notify     p has released the lock and has yet to call notify_all     *)
(*   return     p has its result                                           *)
(*                                                                         *)
(* What p does while it holds the lock is one step: nothing that others do *)
(* without the lock reads or writes the state it protects.                 *)
(***************************************************************************)
EXTENDS Naturals

CONSTANTS
  Procs,      \* the coroutines that use the channel
  Values,     \* the values passed through it
  Usage,      \* Usage[p]: the operations process p calls
  Free,       \* the lock is free
  NoOp,       \* p is in no operation
  NoValue,    \* std::nullopt, a moved-from slot, the argument of an operation without one
  Pending,    \* the operation has no result yet
  Accepted, Refused,  \* true and false, as returned by Push and TryPush
  Done        \* the result of CloseChannel and PoisenChannel

PushOps == {"Push", "TryPush"}
PopOps == {"Pop", "TryPop", "TryPopOnTrue"}
OtherOps == {"CloseChannel", "PoisenChannel", "GetSize"}
Operations == PushOps \union PopOps \union OtherOps

ASSUME UsageAssumption == Usage \in [Procs -> SUBSET Operations]

ASSUME SentinelAssumption ==
  /\ Free \notin Procs
  /\ NoOp \notin Operations
  /\ NoValue \notin Values
  /\ Pending \notin Values \union Nat \union {NoValue, Accepted, Refused, Done}

VARIABLES
  channel_lock,   \* channel_lock_: its holder, or Free
  closed,         \* closed_
  poisened,       \* poisened_
  size,           \* size_
  pc, op, arg,    \* where a process is, in which operation, with which value
  res             \* the result it is about to return

base == <<channel_lock, closed, poisened, size, pc, op, arg, res>>
flags == <<closed, poisened>>

Points == {"idle", "prenotify", "lock", "locked", "waiting", "notify", "return"}
Results == Values \union Nat \union {NoValue, Accepted, Refused, Done, Pending}

BaseInit ==
  /\ channel_lock = Free
  /\ closed = FALSE
  /\ poisened = FALSE
  /\ size = 0
  /\ pc = [p \in Procs |-> "idle"]
  /\ op = [p \in Procs |-> NoOp]
  /\ arg = [p \in Procs |-> NoValue]
  /\ res = [p \in Procs |-> NoValue]

(* p holds the lock on behalf of one of these operations. *)
Holds(p, ops) == pc[p] = "locked" /\ op[p] \in ops

(* The end of every critical section: the result is fixed and the lock is  *)
(* released, by guard.unlock() or by the destructor of the guard.          *)
Leave(p, r, to) ==
  /\ channel_lock' = Free
  /\ res' = [res EXCEPT ![p] = r]
  /\ pc' = [pc EXCEPT ![p] = to]
  /\ UNCHANGED <<op, arg>>

(* A caller starts an operation o, at point first[o]. *)
Call(p, first) ==
  /\ pc[p] = "idle"
  /\ \E o \in Usage[p] :
       /\ op' = [op EXCEPT ![p] = o]
       /\ pc' = [pc EXCEPT ![p] = first[o]]
       /\ \E v \in (IF o \in PushOps THEN Values ELSE {NoValue}) :
            arg' = [arg EXCEPT ![p] = v]
  /\ res' = [res EXCEPT ![p] = Pending]
  /\ UNCHANGED <<channel_lock, flags, size>>

(* co_await channel_lock_.lock(...), granted. *)
Acquire(p) ==
  /\ pc[p] = "lock"
  /\ channel_lock = Free
  /\ channel_lock' = p
  /\ pc' = [pc EXCEPT ![p] = "locked"]
  /\ UNCHANGED <<flags, size, op, arg, res>>

(* channel_cv_.await with a predicate that is false: the library releases  *)
(* the lock and enqueues the awaiter as one step.                          *)
Suspend(p) ==
  /\ channel_lock' = Free
  /\ pc' = [pc EXCEPT ![p] = "waiting"]
  /\ UNCHANGED <<flags, size, op, arg, res>>

(* channel_cv_.notify_all(), outside the lock: every awaiter goes back to  *)
(* locking, and p goes on to point "to".                                   *)
NotifyAll(p, to) ==
  /\ pc' = [q \in Procs |->
              IF q = p THEN to ELSE IF pc[q] = "waiting" THEN "lock" ELSE pc[q]]
  /\ UNCHANGED <<channel_lock, flags, size, op, arg, res>>

Notify(p) == pc[p] = "notify" /\ NotifyAll(p, "return")

(* Mutants: the end of the channel is not announced.                       *)
CloseChannelSilently(p) ==
  /\ Holds(p, {"CloseChannel"})
  /\ closed' = TRUE
  /\ Leave(p, Done, "return")
  /\ UNCHANGED <<poisened, size>>

PoisenChannelSilently(p) ==
  /\ Holds(p, {"PoisenChannel"})
  /\ poisened' = TRUE
  /\ Leave(p, Done, "return")
  /\ UNCHANGED <<closed, size>>

CloseChannel(p) ==
  /\ Holds(p, {"CloseChannel"})
  /\ closed' = TRUE
  /\ Leave(p, Done, "notify")
  /\ UNCHANGED <<poisened, size>>

PoisenChannel(p) ==
  /\ Holds(p, {"PoisenChannel"})
  /\ poisened' = TRUE
  /\ Leave(p, Done, "notify")
  /\ UNCHANGED <<closed, size>>

(* GetSize, and Empty, which is GetSize = 0; they notify nobody. *)
GetSize(p) ==
  /\ Holds(p, {"GetSize"})
  /\ Leave(p, size, "return")
  /\ UNCHANGED <<flags, size>>

Return(p) ==
  /\ pc[p] = "return"
  /\ pc' = [pc EXCEPT ![p] = "idle"]
  /\ op' = [op EXCEPT ![p] = NoOp]
  /\ arg' = [arg EXCEPT ![p] = NoValue]
  /\ res' = [res EXCEPT ![p] = NoValue]
  /\ UNCHANGED <<channel_lock, flags, size>>

BaseTypeOK ==
  /\ channel_lock \in Procs \union {Free}
  /\ closed \in BOOLEAN
  /\ poisened \in BOOLEAN
  /\ size \in Nat
  /\ pc \in [Procs -> Points]
  /\ op \in [Procs -> Operations \union {NoOp}]
  /\ arg \in [Procs -> Values \union {NoValue}]
  /\ res \in [Procs -> Results]

(* The lock is held by exactly the process that is in a critical section:  *)
(* no step of any operation leaves it behind locked, or enters it twice.   *)
LockInv == \A p \in Procs : pc[p] = "locked" <=> channel_lock = p

(* An operation has a result from its critical section on, not before.     *)
CallInv ==
  \A p \in Procs :
    /\ pc[p] = "idle" => op[p] = NoOp /\ arg[p] = NoValue /\ res[p] = NoValue
    /\ pc[p] # "idle" => op[p] \in Operations
    /\ pc[p] \in {"prenotify", "lock", "locked", "waiting"} => res[p] = Pending
    /\ pc[p] \in {"notify", "return"} => res[p] # Pending
    /\ op[p] \in PushOps => arg[p] \in Values
================================================================================
