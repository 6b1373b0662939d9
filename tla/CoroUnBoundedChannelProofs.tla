----------------------- MODULE CoroUnBoundedChannelProofs -----------------------
(***************************************************************************)
(* Theorems about CoroUnBoundedChannel, for every set of processes, every  *)
(* set of values and every usage.                                          *)
(***************************************************************************)
EXTENDS CoroUnBoundedChannel, SequenceTheorems, TLAPS

(* The list and its counter.                                               *)
ListInv == buffer \in Seq(Values) /\ size = Len(buffer)

TypeOK == BaseTypeOK /\ ListInv

(* The inductive invariant.  NoLostWakeup needs the types and CallInv: a    *)
(* step that changes what a Pop waits for is the end of a critical section *)
(* and goes to "notify", and no other step takes a process out of          *)
(* "notify" but the notification itself.  LockInv is there for the lock.   *)
IInv == TypeOK /\ LockInv /\ CallInv /\ NoLostWakeup

(* What a call does, with its operation and its argument named; TryPush    *)
(* begins by notifying.                                                    *)
LEMMA EnterFacts ==
  ASSUME NEW p \in Procs, Enter(p)
  PROVE  \E o \in Operations, v \in Values \union {NoValue},
            to \in {"prenotify", "lock"} :
           /\ o \in PushOps => v \in Values
           /\ pc[p] = "idle" /\ pc' = [pc EXCEPT ![p] = to]
           /\ op' = [op EXCEPT ![p] = o]
           /\ arg' = [arg EXCEPT ![p] = v]
           /\ res' = [res EXCEPT ![p] = Pending]
           /\ UNCHANGED <<channel_lock, flags, size, buffer>>
<1>1. PICK o \in Usage[p] :
        /\ op' = [op EXCEPT ![p] = o]
        /\ pc' = [pc EXCEPT ![p] = FirstPoint[o]]
        /\ \E v \in (IF o \in PushOps THEN Values ELSE {NoValue}) :
             arg' = [arg EXCEPT ![p] = v]
  BY DEF Enter, Call
<1>2. PICK v : /\ v \in (IF o \in PushOps THEN Values ELSE {NoValue})
               /\ arg' = [arg EXCEPT ![p] = v]
  BY <1>1
<1>3. o \in Operations
  BY UsageAssumption
<1>4. FirstPoint[o] \in {"prenotify", "lock"}
  BY <1>3 DEF FirstPoint
<1>5. QED
  BY <1>1, <1>2, <1>3, <1>4 DEF Enter, Call

(* Every critical section leaves the variables of the calls well typed.    *)
LEMMA LeaveType ==
  ASSUME TypeOK, NEW p \in Procs, NEW r \in Results,
         NEW to \in Points, Leave(p, r, to)
  PROVE  /\ channel_lock' \in Procs \union {Free}
         /\ pc' \in [Procs -> Points]
         /\ op' \in [Procs -> Operations \union {NoOp}]
         /\ arg' \in [Procs -> Values \union {NoValue}]
         /\ res' \in [Procs -> Results]
BY DEF TypeOK, BaseTypeOK, Leave

(* PopValue takes a value out of the list, and the rest stays a list.      *)
LEMMA PopFacts ==
  ASSUME TypeOK, size > 0
  PROVE  /\ buffer # <<>> /\ Head(buffer) \in Values
         /\ Tail(buffer) \in Seq(Values) /\ Len(Tail(buffer)) = size - 1
         /\ size - 1 \in Nat
<1>1. buffer \in Seq(Values) /\ size = Len(buffer) /\ size \in Nat
  BY DEF TypeOK, BaseTypeOK, ListInv
<1>2. buffer # <<>>
  BY <1>1
<1>3. QED
  BY <1>1, <1>2, HeadTailProperties

(* Every step keeps the types, and size_ the length of the list.           *)
LEMMA TypeStep == TypeOK /\ CallInv /\ [Next]_vars => TypeOK'
<1> SUFFICES ASSUME TypeOK, CallInv, [Next]_vars PROVE TypeOK'
  OBVIOUS
<1> USE DEF TypeOK, BaseTypeOK, ListInv, Points
<1>1. CASE UNCHANGED vars
  BY <1>1 DEF vars, base
<1>2. ASSUME NEW p \in Procs, Enter(p) PROVE TypeOK'
  BY <1>2, EnterFacts DEF flags, Results
<1>3. ASSUME NEW p \in Procs, Lock(p) PROVE TypeOK'
  BY <1>3 DEF Lock, Acquire, flags
<1>4. ASSUME NEW p \in Procs, Await(p) PROVE TypeOK'
  BY <1>4 DEF Await, Suspend, flags
<1>5. ASSUME NEW p \in Procs, PushValue(p) PROVE TypeOK'
  <2>1. Leave(p, Accepted, "notify") /\ Accepted \in Results
    BY <1>5 DEF PushValue, Results
  <2>2. arg[p] \in Values
    BY <1>5 DEF PushValue, Holds, CallInv
  <2>3. buffer' \in Seq(Values) /\ size' = Len(buffer') /\ size' \in Nat
    BY <1>5, <2>2 DEF PushValue
  <2>4. QED
    BY <1>5, <2>1, <2>3, LeaveType DEF PushValue, flags
<1>6. ASSUME NEW p \in Procs, PushRefused(p) PROVE TypeOK'
  BY <1>6, LeaveType DEF PushRefused, flags, Results
<1>7. ASSUME NEW p \in Procs, PopValue(p) PROVE TypeOK'
  <2>1. Leave(p, Head(buffer), "notify") /\ Head(buffer) \in Results
    BY <1>7, PopFacts DEF PopValue, Results
  <2>2. buffer' \in Seq(Values) /\ size' = Len(buffer') /\ size' \in Nat
    BY <1>7, PopFacts DEF PopValue
  <2>3. QED
    BY <1>7, <2>1, <2>2, LeaveType DEF PopValue, flags
<1>8. ASSUME NEW p \in Procs, PopNothing(p) \/ PredicateFails(p) PROVE TypeOK'
  BY <1>8, LeaveType DEF PopNothing, PredicateFails, flags, Results
<1>9. ASSUME NEW p \in Procs, UNCHANGED buffer,
             CloseChannel(p) \/ PoisenChannel(p) \/ GetSize(p)
      PROVE  TypeOK'
  BY <1>9, LeaveType DEF CloseChannel, PoisenChannel, GetSize, flags, Results
<1>10. ASSUME NEW p \in Procs, UNCHANGED buffer, NotifyFirst(p) \/ Notify(p)
       PROVE  TypeOK'
  BY <1>10 DEF NotifyFirst, Notify, NotifyAll, flags
<1>11. ASSUME NEW p \in Procs, UNCHANGED buffer, Return(p) PROVE TypeOK'
  BY <1>11 DEF Return, flags, Results
<1> HIDE DEF TypeOK, BaseTypeOK, ListInv, Points
<1>12. QED
  BY <1>1, <1>2, <1>3, <1>4, <1>5, <1>6, <1>7, <1>8, <1>9, <1>10, <1>11
     DEF Next, Step

--------------------------------------------------------------------------------
(* The lock and the stages of a call.                                      *)

(* The actions that end a critical section, by what they leave behind.     *)
Finishes(p, r, to) ==
  /\ pc[p] = "locked" /\ op[p] \in Operations
  /\ r # Pending /\ to \in {"notify", "return"}
  /\ Leave(p, r, to)

(* Every operation that ends its critical section does so by Finishes; one *)
(* that skips the notification has changed nothing that others wait for.   *)
LEMMA Sections ==
  ASSUME TypeOK, NEW p \in Procs,
         \/ PushValue(p) \/ PushRefused(p) \/ PopValue(p)
         \/ PopNothing(p) \/ PredicateFails(p)
         \/ CloseChannel(p) \/ PoisenChannel(p) \/ GetSize(p)
  PROVE  \E r, to : /\ Finishes(p, r, to)
                    /\ to = "return" => UNCHANGED <<flags, size>>
<1> USE DEF Finishes, Holds, Operations, PushOps, PopOps, OtherOps
<1>1. CASE PushValue(p) \/ PushRefused(p)
  BY <1>1, SentinelAssumption DEF PushValue, PushRefused
<1>2. CASE PopValue(p)
  <2>1. Head(buffer) \in Values
    BY <1>2, PopFacts DEF PopValue
  <2>2. QED
    BY <1>2, <2>1, SentinelAssumption DEF PopValue
<1>3. CASE PopNothing(p)
  BY <1>3, SentinelAssumption DEF PopNothing
<1>4. CASE PredicateFails(p)
  BY <1>4, SentinelAssumption DEF PredicateFails
<1>5. CASE CloseChannel(p) \/ PoisenChannel(p)
  BY <1>5, SentinelAssumption DEF CloseChannel, PoisenChannel
<1>6. CASE GetSize(p)
  <2>1. size \in Nat
    BY DEF TypeOK, BaseTypeOK
  <2>2. QED
    BY <1>6, <2>1, SentinelAssumption DEF GetSize
<1>7. QED
  BY <1>1, <1>2, <1>3, <1>4, <1>5, <1>6

(* Every step keeps the lock with the one process in a critical section.   *)
LEMMA LockStep == TypeOK /\ LockInv /\ [Next]_vars => LockInv'
<1> SUFFICES ASSUME TypeOK, LockInv, [Next]_vars PROVE LockInv'
  OBVIOUS
<1> USE SentinelAssumption DEF TypeOK, BaseTypeOK, LockInv
<1>1. CASE UNCHANGED vars
  BY <1>1 DEF vars, base
<1>2. ASSUME NEW p \in Procs, Enter(p) PROVE LockInv'
  BY <1>2, EnterFacts
<1>3. ASSUME NEW p \in Procs, Lock(p) PROVE LockInv'
  BY <1>3 DEF Lock, Acquire
<1>4. ASSUME NEW p \in Procs, Await(p) PROVE LockInv'
  BY <1>4 DEF Await, Suspend, Holds
<1>5. ASSUME NEW p \in Procs, NEW r, NEW to, Finishes(p, r, to) PROVE LockInv'
  BY <1>5 DEF Finishes, Leave
<1>6. ASSUME NEW p \in Procs, NotifyFirst(p) \/ Notify(p) PROVE LockInv'
  BY <1>6 DEF NotifyFirst, Notify, NotifyAll
<1>7. ASSUME NEW p \in Procs, Return(p) PROVE LockInv'
  BY <1>7 DEF Return
<1> HIDE DEF TypeOK, BaseTypeOK, LockInv
<1>8. QED
  BY <1>1, <1>2, <1>3, <1>4, <1>5, <1>6, <1>7, Sections DEF Next, Step

(* Every step keeps the results in line with the stage of the call.        *)
LEMMA CallStep == TypeOK /\ CallInv /\ [Next]_vars => CallInv'
<1> SUFFICES ASSUME TypeOK, CallInv, [Next]_vars PROVE CallInv'
  OBVIOUS
<1> USE SentinelAssumption DEF TypeOK, BaseTypeOK, CallInv
<1>1. CASE UNCHANGED vars
  BY <1>1 DEF vars, base
<1>2. ASSUME NEW p \in Procs, Enter(p) PROVE CallInv'
  BY <1>2, EnterFacts
<1>3. ASSUME NEW p \in Procs, Lock(p) PROVE CallInv'
  BY <1>3 DEF Lock, Acquire
<1>4. ASSUME NEW p \in Procs, Await(p) PROVE CallInv'
  BY <1>4 DEF Await, Suspend, Holds
<1>5. ASSUME NEW p \in Procs, NEW r, NEW to, Finishes(p, r, to) PROVE CallInv'
  BY <1>5 DEF Finishes, Leave
<1>6. ASSUME NEW p \in Procs, NotifyFirst(p) \/ Notify(p) PROVE CallInv'
  BY <1>6 DEF NotifyFirst, Notify, NotifyAll
<1>7. ASSUME NEW p \in Procs, Return(p) PROVE CallInv'
  BY <1>7 DEF Return, Operations, PushOps
<1> HIDE DEF TypeOK, BaseTypeOK, CallInv
<1>8. QED
  BY <1>1, <1>2, <1>3, <1>4, <1>5, <1>6, <1>7, Sections DEF Next, Step

--------------------------------------------------------------------------------
(* Wakeups.                                                                *)

(* No step leaves behind a suspended Pop that nobody will wake.            *)
LEMMA WakeupStep ==
  TypeOK /\ CallInv /\ NoLostWakeup /\ [Next]_vars => NoLostWakeup'
<1> SUFFICES ASSUME TypeOK, CallInv, NoLostWakeup, [Next]_vars,
                    NEW w \in Procs, pc'[w] = "waiting", MayProceed(w)'
             PROVE  \E q \in Procs : pc'[q] = "notify"
  BY DEF NoLostWakeup
<1> USE DEF TypeOK, BaseTypeOK
(* The step of p does not touch what w waits for, and p was not the one    *)
(* that had to notify.                                                     *)
<1>1. ASSUME NEW p \in Procs, pc[p] \notin {"notify", "waiting"}, w # p,
             \A q \in Procs \ {p} : pc'[q] = pc[q],
             UNCHANGED <<flags, size>>
      PROVE  \E q \in Procs : pc'[q] = "notify"
  BY <1>1 DEF NoLostWakeup, MayProceed, Ended, flags
<1>2. CASE UNCHANGED vars
  BY <1>2 DEF vars, base, NoLostWakeup, MayProceed, Ended
<1>3. ASSUME NEW p \in Procs, Enter(p) PROVE \E q \in Procs : pc'[q] = "notify"
  BY <1>1, <1>3, EnterFacts
<1>4. ASSUME NEW p \in Procs, Lock(p) PROVE \E q \in Procs : pc'[q] = "notify"
  BY <1>1, <1>4 DEF Lock, Acquire
<1>5. ASSUME NEW p \in Procs, Await(p) PROVE \E q \in Procs : pc'[q] = "notify"
  <2>1. w # p
    BY <1>5 DEF Await, Suspend, MayProceed, Ended, flags
  <2>2. QED
    BY <1>1, <1>5, <2>1 DEF Await, Suspend, Holds
<1>6. ASSUME NEW p \in Procs, NEW r, Finishes(p, r, "notify")
      PROVE  \E q \in Procs : pc'[q] = "notify"
  BY <1>6 DEF Finishes, Leave
<1>7. ASSUME NEW p \in Procs, NEW r, Finishes(p, r, "return"), UNCHANGED <<flags, size>>
      PROVE  \E q \in Procs : pc'[q] = "notify"
  BY <1>1, <1>7 DEF Finishes, Leave
<1>8. ASSUME NEW p \in Procs, NotifyFirst(p) \/ Notify(p) PROVE FALSE
  BY <1>8 DEF NotifyFirst, Notify, NotifyAll
<1>9. ASSUME NEW p \in Procs, Return(p) PROVE \E q \in Procs : pc'[q] = "notify"
  BY <1>1, <1>9 DEF Return
<1> HIDE DEF TypeOK, BaseTypeOK
<1>10. ASSUME NEW p \in Procs,
              \/ PushValue(p) \/ PushRefused(p) \/ PopValue(p)
              \/ PopNothing(p) \/ PredicateFails(p)
              \/ CloseChannel(p) \/ PoisenChannel(p) \/ GetSize(p)
       PROVE  \E q \in Procs : pc'[q] = "notify"
  <2>1. PICK r, to : /\ Finishes(p, r, to)
                     /\ to = "return" => UNCHANGED <<flags, size>>
    BY <1>10, Sections
  <2>2. to \in {"notify", "return"}
    BY <2>1 DEF Finishes
  <2>3. QED
    BY <1>6, <1>7, <2>1, <2>2
<1>11. QED
  BY <1>2, <1>3, <1>4, <1>5, <1>8, <1>9, <1>10 DEF Next, Step

--------------------------------------------------------------------------------
(* The inductive invariant.                                                *)

(* IInv holds in every reachable state of the channel.                     *)
THEOREM Invariance == Spec => []IInv
<1>1. Init => IInv
  <2>1. Init => closed \in BOOLEAN /\ poisened \in BOOLEAN
    BY DEF Init, BaseInit
  <2>2. Init => pc \in [Procs -> Points] /\ res \in [Procs -> Results]
    BY DEF Init, BaseInit, Points, Results
  <2>3. Init => TypeOK
    BY <2>1, <2>2 DEF Init, BaseInit, TypeOK, BaseTypeOK, ListInv
  <2>4. Init => LockInv /\ CallInv /\ NoLostWakeup
    BY SentinelAssumption
       DEF Init, BaseInit, LockInv, CallInv, NoLostWakeup, PushOps, Operations
  <2>5. QED
    BY <2>3, <2>4 DEF IInv
<1>2. IInv /\ [Next]_vars => IInv'
  BY TypeStep, LockStep, CallStep, WakeupStep DEF IInv
<1>3. QED
  BY <1>1, <1>2, PTL DEF Spec

(* A spanner suspended in the Pop of a CoroUnBoundedChannel, although a    *)
(* context is there or the channel has ended, has a notify_all outstanding *)
(* that wakes it, for any number of spanners on the channel.               *)
THEOREM WakeupsNotLost == Spec => []NoLostWakeup
BY Invariance, PTL DEF IInv

(* Type correctness, and size_, which Push and Pop count up and down, is   *)
(* the length of the list: GetSize and Empty tell the truth, and an        *)
(* unsigned size_ never goes below zero.                                   *)
THEOREM TypeCorrect == Spec => []TypeOK
BY Invariance, PTL DEF IInv

(* No two coroutines are in critical sections of a channel at once.        *)
THEOREM MutualExclusion ==
  Spec => [](\A p, q \in Procs : pc[p] = "locked" /\ pc[q] = "locked" => p = q)
<1>1. IInv => \A p, q \in Procs : pc[p] = "locked" /\ pc[q] = "locked" => p = q
  BY DEF IInv, LockInv
<1>2. QED
  BY <1>1, Invariance, PTL
--------------------------------------------------------------------------------
(* The unbounded channel implements ChannelFifo.                           *)

(* Every step of the channel is a step of ChannelFifo or leaves it alone:  *)
(* each operation takes effect at the one step that ends its critical      *)
(* section.                                                                *)
LEMMA FifoStep == IInv /\ [Next]_vars => [Fifo!Next]_(Fifo!vars)
<1> SUFFICES ASSUME IInv, [Next]_vars PROVE [Fifo!Next]_(Fifo!vars)
  OBVIOUS
<1> USE DEF IInv
<1>1. CASE UNCHANGED vars
  BY <1>1 DEF vars, base, Fifo!vars
<1>2. buffer \in Seq(Values) /\ size = Len(buffer) /\ size \in Nat
  BY DEF TypeOK, BaseTypeOK, ListInv
<1>3. ASSUME NEW p \in Procs, Enter(p) PROVE Fifo!Call(p)
  BY <1>3 DEF Enter, Call, CallInv, Fifo!Call, Fifo!PushOps, PushOps, flags
<1>4. ASSUME NEW p \in Procs, Lock(p) PROVE UNCHANGED Fifo!vars
  BY <1>4 DEF Lock, Acquire, Fifo!vars, flags
<1>5. ASSUME NEW p \in Procs, Await(p) PROVE UNCHANGED Fifo!vars
  BY <1>5 DEF Await, Suspend, Fifo!vars, flags
<1>6. ASSUME NEW p \in Procs, PushValue(p) PROVE Fifo!Enqueue(p)
  BY <1>6 DEF PushValue, Holds, Leave, Ended, flags, PushOps, CallInv,
              Fifo!Enqueue, Fifo!InProgress, Fifo!Answer, Fifo!PushOps,
              Fifo!HasRoom, Fifo!Unlimited
<1>7. ASSUME NEW p \in Procs, PushRefused(p) PROVE Fifo!Refuse(p)
  BY <1>7 DEF PushRefused, Holds, Leave, Ended, flags, PushOps, CallInv,
              Fifo!Refuse, Fifo!InProgress, Fifo!Answer, Fifo!PushOps
<1>8. ASSUME NEW p \in Procs, PopValue(p) PROVE Fifo!Dequeue(p)
  <2>1. buffer # <<>> /\ res[p] = Pending
    BY <1>8, PopFacts DEF PopValue, Holds, CallInv
  <2>2. QED
    BY <1>8, <2>1
       DEF PopValue, Holds, Leave, flags, PopOps,
           Fifo!Dequeue, Fifo!InProgress, Fifo!Answer, Fifo!PopOps
<1>9. ASSUME NEW p \in Procs, PopNothing(p) PROVE Fifo!YieldNothing(p)
  <2>1. size = 0 => buffer = <<>>
    BY <1>2, EmptySeq
  <2>2. QED
    BY <1>9, <2>1
       DEF PopNothing, Holds, Leave, Ended, flags, PopOps, CallInv,
           Fifo!YieldNothing, Fifo!InProgress, Fifo!Answer, Fifo!PopOps
<1>10. ASSUME NEW p \in Procs, PredicateFails(p) PROVE Fifo!YieldNothing(p)
  BY <1>10
     DEF PredicateFails, Holds, Leave, flags, CallInv, PopOps,
         Fifo!YieldNothing, Fifo!InProgress, Fifo!Answer, Fifo!PopOps
<1>11. ASSUME NEW p \in Procs, UNCHANGED buffer, CloseChannel(p) PROVE Fifo!Close(p)
  BY <1>11
     DEF CloseChannel, Holds, Leave, CallInv, Fifo!Close, Fifo!InProgress, Fifo!Answer
<1>12. ASSUME NEW p \in Procs, UNCHANGED buffer, PoisenChannel(p) PROVE Fifo!Poisen(p)
  BY <1>12
     DEF PoisenChannel, Holds, Leave, CallInv, Fifo!Poisen, Fifo!InProgress, Fifo!Answer
<1>13. ASSUME NEW p \in Procs, UNCHANGED buffer, GetSize(p) PROVE Fifo!Measure(p)
  BY <1>2, <1>13
     DEF GetSize, Holds, Leave, flags, CallInv, Fifo!Measure, Fifo!InProgress, Fifo!Answer
<1>14. ASSUME NEW p \in Procs, UNCHANGED buffer, NotifyFirst(p) \/ Notify(p)
       PROVE  UNCHANGED Fifo!vars
  BY <1>14 DEF NotifyFirst, Notify, NotifyAll, Fifo!vars, flags
<1>15. ASSUME NEW p \in Procs, UNCHANGED buffer, Return(p) PROVE Fifo!Return(p)
  BY <1>15, SentinelAssumption DEF Return, CallInv, flags, Fifo!Return
<1>16. QED
  BY <1>1, <1>3, <1>4, <1>5, <1>6, <1>7, <1>8, <1>9, <1>10, <1>11, <1>12, <1>13,
     <1>14, <1>15 DEF Next, Step, Fifo!Next

(* Refinement: whatever the interleaving of the spanners, the unbounded    *)
(* channel is one fifo queue without a limit on which each operation takes *)
(* effect at one instant between its call and its return.                  *)
THEOREM ChannelIsFifo == Spec => ImplementsFifo
<1>1. Init => Fifo!Init
  BY DEF Init, BaseInit, Fifo!Init
<1>2. QED
  BY <1>1, FifoStep, Invariance, PTL DEF Spec, ImplementsFifo, Fifo!Spec
================================================================================
