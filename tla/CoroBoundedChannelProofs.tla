------------------------ MODULE CoroBoundedChannelProofs ------------------------
(***************************************************************************)
(* Theorems about CoroBoundedChannel, for every set of processes, every    *)
(* usage and every capacity.                                               *)
(***************************************************************************)
EXTENDS CoroBoundedChannel, SequenceTheorems, TLAPS

--------------------------------------------------------------------------------
(* Arithmetic of the ring indices.                                         *)

(* NextIndex, used by perform_write and perform_read, stays in the buffer. *)
LEMMA NextIndexStays == \A i \in Slots : NextIndex(i) \in Slots
BY CapacityAssumption DEF Slots, NextIndex

(* An index that has passed the end of the buffer wraps once.              *)
LEMMA WrapOnce ==
  \A r \in Slots, i \in 0 .. Capacity :
    (r + i) % Capacity = IF r + i < Capacity THEN r + i ELSE r + i - Capacity
BY CapacityAssumption DEF Slots

--------------------------------------------------------------------------------
(* perform_write and perform_read keep the ring well typed.                *)
LEMMA WriteType ==
  ASSUME TypeOK, HasRoom, NEW v \in Values \union {NoValue}, perform_write(v)
  PROVE  /\ size' \in 0 .. Capacity
         /\ buffer' \in [Slots -> Values \union {NoValue}]
         /\ read_index' \in Slots /\ write_index' \in Slots
<1>1. NextIndex(write_index) \in Slots
  BY NextIndexStays DEF TypeOK
<1>2. size' \in 0 .. Capacity
  BY CapacityAssumption DEF TypeOK, HasRoom, perform_write
<1>3. QED
  BY <1>1, <1>2 DEF TypeOK, perform_write

LEMMA ReadType ==
  ASSUME TypeOK, size > 0, perform_read
  PROVE  /\ size' \in 0 .. Capacity
         /\ buffer' \in [Slots -> Values \union {NoValue}]
         /\ read_index' \in Slots /\ write_index' \in Slots
<1>1. NextIndex(read_index) \in Slots
  BY NextIndexStays DEF TypeOK
<1>2. size' \in 0 .. Capacity
  BY CapacityAssumption DEF TypeOK, perform_read
<1>3. QED
  BY <1>1, <1>2 DEF TypeOK, perform_read

(* Every critical section leaves the variables of the calls well typed.    *)
LEMMA LeaveType ==
  ASSUME TypeOK, NEW p \in Procs, NEW r \in Results,
         NEW to \in Points, Leave(p, r, to)
  PROVE  /\ channel_lock' \in Procs \union {Free}
         /\ pc' \in [Procs -> Points]
         /\ op' \in [Procs -> Operations \union {NoOp}]
         /\ arg' \in [Procs -> Values \union {NoValue}]
         /\ res' \in [Procs -> Results]
BY DEF TypeOK, BaseTypeOK, Leave

(* What a call does, with its operation and its argument named.            *)
LEMMA EnterFacts ==
  ASSUME NEW p \in Procs, Enter(p)
  PROVE  \E o \in Operations, v \in Values \union {NoValue} :
           /\ o \in PushOps => v \in Values
           /\ pc[p] = "idle" /\ pc' = [pc EXCEPT ![p] = "lock"]
           /\ op' = [op EXCEPT ![p] = o]
           /\ arg' = [arg EXCEPT ![p] = v]
           /\ res' = [res EXCEPT ![p] = Pending]
           /\ UNCHANGED <<channel_lock, flags, size, ring>>
<1>1. PICK o \in Usage[p] :
        /\ op' = [op EXCEPT ![p] = o]
        /\ pc' = [pc EXCEPT ![p] = [x \in Operations |-> "lock"][o]]
        /\ \E v \in (IF o \in PushOps THEN Values ELSE {NoValue}) :
             arg' = [arg EXCEPT ![p] = v]
  BY DEF Enter, Call
<1>2. PICK v : /\ v \in (IF o \in PushOps THEN Values ELSE {NoValue})
               /\ arg' = [arg EXCEPT ![p] = v]
  BY <1>1
<1>3. o \in Operations
  BY UsageAssumption
<1>4. pc' = [pc EXCEPT ![p] = "lock"]
  BY <1>1, <1>3
<1>5. QED
  BY <1>1, <1>2, <1>3, <1>4 DEF Enter, Call

(* Every step of the channel preserves TypeOK.                              *)
LEMMA TypeStep == TypeOK /\ [Next]_vars => TypeOK'
<1> SUFFICES ASSUME TypeOK, [Next]_vars PROVE TypeOK'
  OBVIOUS
<1> USE DEF TypeOK, BaseTypeOK, Points, ring
<1>1. CASE UNCHANGED vars
  BY <1>1 DEF vars, base
<1>2. ASSUME NEW p \in Procs, Enter(p) PROVE TypeOK'
  BY <1>2, EnterFacts DEF flags, Results
<1>3. ASSUME NEW p \in Procs, Lock(p) PROVE TypeOK'
  BY <1>3 DEF Lock, Acquire, flags
<1>4. ASSUME NEW p \in Procs, Await(p) PROVE TypeOK'
  BY <1>4 DEF Await, Suspend, flags
<1>5. ASSUME NEW p \in Procs, PushValue(p) PROVE TypeOK'
  <2>1. Leave(p, Accepted, "notify") /\ Accepted \in Results
    BY <1>5 DEF PushValue, Results
  <2>2. arg[p] \in Values \union {NoValue} /\ perform_write(arg[p]) /\ HasRoom
    BY <1>5 DEF PushValue
  <2>3. QED
    BY <1>5, <2>1, <2>2, LeaveType, WriteType DEF PushValue, flags
<1>6. ASSUME NEW p \in Procs, PushRefused(p) PROVE TypeOK'
  BY <1>6, LeaveType DEF PushRefused, flags, Results
<1>7. ASSUME NEW p \in Procs, PopValue(p) PROVE TypeOK'
  <2>1. Leave(p, buffer[read_index], "notify") /\ buffer[read_index] \in Results
    BY <1>7 DEF PopValue, Results
  <2>2. QED
    BY <1>7, <2>1, LeaveType, ReadType DEF PopValue, flags
<1>8. ASSUME NEW p \in Procs, PopNothing(p) \/ PredicateFails(p) PROVE TypeOK'
  BY <1>8, LeaveType DEF PopNothing, PredicateFails, flags, Results
<1>9. ASSUME NEW p \in Procs, UNCHANGED ring,
             CloseChannel(p) \/ PoisenChannel(p) \/ GetSize(p)
      PROVE  TypeOK'
  BY <1>9, LeaveType DEF CloseChannel, PoisenChannel, GetSize, flags, Results
<1>10. ASSUME NEW p \in Procs, UNCHANGED ring, Notify(p) PROVE TypeOK'
  BY <1>10 DEF Notify, NotifyAll, flags
<1>11. ASSUME NEW p \in Procs, UNCHANGED ring, Return(p) PROVE TypeOK'
  BY <1>11 DEF Return, flags, Results
<1> HIDE DEF TypeOK, BaseTypeOK, Points, ring
<1>12. QED
  BY <1>1, <1>2, <1>3, <1>4, <1>5, <1>6, <1>7, <1>8, <1>9, <1>10, <1>11
     DEF Next, Step

(* A new channel is well typed.                                            *)
LEMMA InitType == Init => TypeOK
<1>1. 0 \in Slots /\ 0 \in 0 .. Capacity
  BY CapacityAssumption DEF Slots
<1>2. Init => closed \in BOOLEAN /\ poisened \in BOOLEAN
  BY DEF Init, BaseInit
<1>3. Init => pc \in [Procs -> Points]
  BY DEF Init, BaseInit, Points
<1>4. Init => res \in [Procs -> Results]
  BY DEF Init, BaseInit, Results
<1>5. QED
  BY <1>1, <1>2, <1>3, <1>4 DEF Init, BaseInit, TypeOK, BaseTypeOK

(* Type correctness: in particular size_ stays within the capacity and     *)
(* both indices within the buffer, which the asserts of perform_write and  *)
(* perform_read demand of Push, TryPush, Pop, TryPop and TryPopOnTrue.     *)
THEOREM TypeCorrect == Spec => []TypeOK
BY InitType, TypeStep, PTL DEF Spec

--------------------------------------------------------------------------------
(* The lock and the stages of a call.                                      *)

(* The end of a critical section releases the lock and fixes the result.   *)
LEMMA LeavePoints ==
  ASSUME TypeOK, NEW p \in Procs, NEW r, NEW to, Leave(p, r, to)
  PROVE  /\ pc' = [pc EXCEPT ![p] = to] /\ pc'[p] = to
         /\ res' = [res EXCEPT ![p] = r] /\ res'[p] = r
         /\ \A q \in Procs \ {p} : pc'[q] = pc[q] /\ res'[q] = res[q]
         /\ channel_lock' = Free /\ op' = op /\ arg' = arg
BY DEF TypeOK, BaseTypeOK, Leave

(* The actions that end a critical section, by what they leave behind.     *)
Finishes(p, r, to) ==
  /\ pc[p] = "locked" /\ op[p] \in Operations
  /\ r # Pending /\ to \in {"notify", "return"}
  /\ Leave(p, r, to)

(* Every operation that ends its critical section does so by LeavePoints.  *)
LEMMA Sections ==
  ASSUME TypeOK, NEW p \in Procs,
         \/ PushValue(p) \/ PushRefused(p) \/ PopValue(p)
         \/ PopNothing(p) \/ PredicateFails(p)
         \/ CloseChannel(p) \/ PoisenChannel(p) \/ GetSize(p)
  PROVE  \E r, to : Finishes(p, r, to)
<1> USE DEF Finishes, Holds, Operations, PushOps, PopOps, OtherOps
<1>1. CASE PushValue(p)
  BY <1>1, SentinelAssumption DEF PushValue
<1>2. CASE PushRefused(p)
  BY <1>2, SentinelAssumption DEF PushRefused
<1>3. CASE PopValue(p)
  <2>1. buffer[read_index] \in Values \union {NoValue}
    BY DEF TypeOK
  <2>2. QED
    BY <1>3, <2>1, SentinelAssumption DEF PopValue
<1>4. CASE PopNothing(p) \/ PredicateFails(p)
  BY <1>4, SentinelAssumption DEF PopNothing, PredicateFails
<1>5. CASE CloseChannel(p) \/ PoisenChannel(p)
  BY <1>5, SentinelAssumption DEF CloseChannel, PoisenChannel
<1>6. CASE GetSize(p)
  <2>1. size \in Nat
    BY DEF TypeOK, BaseTypeOK
  <2>2. QED
    BY <1>6, <2>1, SentinelAssumption DEF GetSize
<1>7. QED
  BY <1>1, <1>2, <1>3, <1>4, <1>5, <1>6

(* Every step keeps the lock with the one process in a critical section.   *)
LEMMA LockStep == TypeOK /\ LockInv /\ [Next]_vars => LockInv'
<1> SUFFICES ASSUME TypeOK, LockInv, [Next]_vars PROVE LockInv'
  OBVIOUS
<1> USE SentinelAssumption DEF TypeOK, BaseTypeOK, LockInv
<1>1. CASE UNCHANGED vars
  BY <1>1 DEF vars, base
<1>2. ASSUME NEW p \in Procs, Enter(p) PROVE LockInv'
  BY <1>2, EnterFacts
<1>3. ASSUME NEW p \in Procs, Lock(p) PROVE LockInv'
  BY <1>3 DEF Lock, Acquire
<1>4. ASSUME NEW p \in Procs, Await(p) PROVE LockInv'
  BY <1>4 DEF Await, Suspend, Holds
<1>5. ASSUME NEW p \in Procs, NEW r, NEW to, Finishes(p, r, to) PROVE LockInv'
  BY <1>5 DEF Finishes, Leave
<1>6. ASSUME NEW p \in Procs, Notify(p) PROVE LockInv'
  BY <1>6 DEF Notify, NotifyAll
<1>7. ASSUME NEW p \in Procs, Return(p) PROVE LockInv'
  BY <1>7 DEF Return
<1> HIDE DEF TypeOK, BaseTypeOK, LockInv
<1>8. QED
  BY <1>1, <1>2, <1>3, <1>4, <1>5, <1>6, <1>7, Sections DEF Next, Step

(* Every step keeps the results in line with the stage of the call.        *)
LEMMA CallStep == TypeOK /\ CallInv /\ [Next]_vars => CallInv'
<1> SUFFICES ASSUME TypeOK, CallInv, [Next]_vars PROVE CallInv'
  OBVIOUS
<1> USE SentinelAssumption DEF TypeOK, BaseTypeOK, CallInv
<1>1. CASE UNCHANGED vars
  BY <1>1 DEF vars, base
<1>2. ASSUME NEW p \in Procs, Enter(p) PROVE CallInv'
  BY <1>2, EnterFacts
<1>3. ASSUME NEW p \in Procs, Lock(p) PROVE CallInv'
  BY <1>3 DEF Lock, Acquire
<1>4. ASSUME NEW p \in Procs, Await(p) PROVE CallInv'
  BY <1>4 DEF Await, Suspend, Holds
<1>5. ASSUME NEW p \in Procs, NEW r, NEW to, Finishes(p, r, to) PROVE CallInv'
  BY <1>5 DEF Finishes, Leave
<1>6. ASSUME NEW p \in Procs, Notify(p) PROVE CallInv'
  BY <1>6 DEF Notify, NotifyAll
<1>7. ASSUME NEW p \in Procs, Return(p) PROVE CallInv'
  BY <1>7 DEF Return, Operations, PushOps
<1> HIDE DEF TypeOK, BaseTypeOK, CallInv
<1>8. QED
  BY <1>1, <1>2, <1>3, <1>4, <1>5, <1>6, <1>7, Sections DEF Next, Step
--------------------------------------------------------------------------------
(* The ring.                                                               *)

(* SlotOf without its modulus, and the fact that it visits no slot twice.  *)
LEMMA SlotFacts ==
  ASSUME TypeOK
  PROVE  /\ \A i \in 0 .. Capacity :
              SlotOf(i) = IF read_index + i < Capacity
                          THEN read_index + i ELSE read_index + i - Capacity
         /\ \A i \in 0 .. Capacity : SlotOf(i) \in Slots
         /\ \A i, j \in Slots : SlotOf(i) = SlotOf(j) => i = j
         /\ \A i \in Slots : NextIndex(SlotOf(i)) = SlotOf(i + 1)
         /\ SlotOf(0) = read_index
<1>1. read_index \in Slots
  BY DEF TypeOK
<1>2. \A i \in 0 .. Capacity :
        SlotOf(i) = IF read_index + i < Capacity
                    THEN read_index + i ELSE read_index + i - Capacity
  BY <1>1, WrapOnce DEF SlotOf
<1>3. \A i \in 0 .. Capacity : SlotOf(i) \in Slots
  BY <1>1, <1>2, CapacityAssumption DEF Slots
<1>4. \A i \in Slots : NextIndex(i) = IF i + 1 < Capacity THEN i + 1 ELSE 0
  BY CapacityAssumption DEF NextIndex, Slots
<1>5. QED
  BY <1>1, <1>2, <1>3, <1>4, CapacityAssumption DEF Slots

(* A write fills the slot after the last value, and moves no other value.  *)
LEMMA WriteRing ==
  ASSUME TypeOK, RingConsistent, HasRoom, NEW v \in Values, perform_write(v)
  PROVE  /\ RingConsistent'
         /\ \A i \in 0 .. size :
              buffer'[SlotOf(i)'] = IF i < size THEN buffer[SlotOf(i)] ELSE v
<1>1. size \in Slots /\ size' = size + 1
  BY CapacityAssumption DEF TypeOK, HasRoom, Slots, perform_write
<1>2. \A i : SlotOf(i)' = SlotOf(i)
  BY DEF SlotOf, perform_write
<1>3. write_index = SlotOf(size) /\ write_index' = SlotOf(size + 1)
  BY <1>1, SlotFacts DEF RingConsistent, perform_write
<1>4. \A i \in Slots :
        buffer'[SlotOf(i)] = IF i = size THEN v ELSE buffer[SlotOf(i)]
  <2>1. SUFFICES ASSUME NEW i \in Slots
        PROVE buffer'[SlotOf(i)] = IF i = size THEN v ELSE buffer[SlotOf(i)]
    OBVIOUS
  <2>2. SlotOf(i) \in Slots /\ (SlotOf(i) = SlotOf(size) <=> i = size)
    BY <1>1, SlotFacts, CapacityAssumption DEF Slots
  <2>3. buffer' = [buffer EXCEPT ![SlotOf(size)] = v]
    BY <1>3 DEF perform_write
  <2>4. buffer \in [Slots -> Values \union {NoValue}]
    BY DEF TypeOK
  <2>5. QED
    BY <2>2, <2>3, <2>4
<1>5. \A i \in Slots : (buffer'[SlotOf(i)] # NoValue) <=> i < size + 1
  BY <1>1, <1>4, SentinelAssumption DEF RingConsistent, Slots
<1>6. RingConsistent'
  BY <1>1, <1>2, <1>3, <1>5 DEF RingConsistent
<1>7. \A i \in 0 .. size :
        buffer'[SlotOf(i)'] = IF i < size THEN buffer[SlotOf(i)] ELSE v
  BY <1>1, <1>2, <1>4, CapacityAssumption DEF Slots
<1>8. QED
  BY <1>6, <1>7

(* A read empties the slot of the oldest value, and moves no other value.  *)
LEMMA ReadRing ==
  ASSUME TypeOK, RingConsistent, size > 0, perform_read
  PROVE  /\ RingConsistent'
         /\ \A i \in 0 .. size - 2 : buffer'[SlotOf(i)'] = buffer[SlotOf(i + 1)]
<1>1. size \in 1 .. Capacity /\ size' = size - 1 /\ Capacity \in Nat \ {0}
  BY CapacityAssumption DEF TypeOK, perform_read
<1>2. /\ read_index \in Slots /\ read_index' \in Slots
      /\ read_index' = IF read_index + 1 < Capacity THEN read_index + 1 ELSE 0
  BY CapacityAssumption DEF TypeOK, perform_read, NextIndex, Slots
<1>3. /\ \A i \in 0 .. Capacity - 2 : SlotOf(i)' = SlotOf(i + 1)
      /\ SlotOf(Capacity - 1)' = read_index
  <2>1. \A i \in 0 .. Capacity :
          SlotOf(i)' = IF read_index' + i < Capacity
                       THEN read_index' + i ELSE read_index' + i - Capacity
    BY <1>2, WrapOnce DEF SlotOf
  <2>2. \A i \in 0 .. Capacity :
          SlotOf(i) = IF read_index + i < Capacity
                      THEN read_index + i ELSE read_index + i - Capacity
    BY SlotFacts
  <2>3. ASSUME NEW i \in 0 .. Capacity - 2 PROVE SlotOf(i)' = SlotOf(i + 1)
    <3>1. i \in Nat /\ i \in 0 .. Capacity /\ i + 1 \in 0 .. Capacity /\ i + 1 < Capacity
      BY <1>1
    <3>2. SlotOf(i)' = IF read_index' + i < Capacity
                       THEN read_index' + i ELSE read_index' + i - Capacity
      BY <2>1, <3>1
    <3>3. SlotOf(i + 1) = IF read_index + (i + 1) < Capacity
                          THEN read_index + (i + 1) ELSE read_index + (i + 1) - Capacity
      BY <2>2, <3>1
    <3>4. QED
      BY <1>1, <1>2, <3>1, <3>2, <3>3 DEF Slots
  <2>4. SlotOf(Capacity - 1)' = read_index
    <3>1. Capacity - 1 \in 0 .. Capacity
      BY <1>1
    <3>2. QED
      BY <1>1, <1>2, <2>1, <3>1 DEF Slots
  <2>5. QED
    BY <2>3, <2>4
<1>4. \A s \in Slots : buffer'[s] = IF s = read_index THEN NoValue ELSE buffer[s]
  BY DEF TypeOK, perform_read
<1>5. \A i \in 0 .. Capacity - 2 : buffer'[SlotOf(i)'] = buffer[SlotOf(i + 1)]
  <2>1. SUFFICES ASSUME NEW i \in 0 .. Capacity - 2
        PROVE  buffer'[SlotOf(i)'] = buffer[SlotOf(i + 1)]
    OBVIOUS
  <2>2. i + 1 \in Slots /\ 0 \in Slots /\ i + 1 # 0 /\ i + 1 \in 0 .. Capacity
    BY <1>1 DEF Slots
  <2>3. SlotOf(i + 1) \in Slots /\ SlotOf(i + 1) # read_index
    BY <2>2, SlotFacts
  <2>4. QED
    BY <1>3, <1>4, <2>3
<1>6. \A i \in Slots : (buffer'[SlotOf(i)'] # NoValue) <=> i < size - 1
  <2>1. ASSUME NEW i \in 0 .. Capacity - 2
        PROVE  (buffer'[SlotOf(i)'] # NoValue) <=> i < size - 1
    <3>1. (buffer[SlotOf(i + 1)] # NoValue) <=> i + 1 < size
      BY <1>1 DEF RingConsistent, Slots
    <3>2. QED
      BY <1>1, <1>5, <3>1
  <2>2. buffer'[SlotOf(Capacity - 1)'] = NoValue
    BY <1>2, <1>3, <1>4
  <2>3. QED
    BY <1>1, <2>1, <2>2 DEF Slots
<1>7. write_index' = SlotOf(size)'
  <2>1. \A k \in 0 .. Capacity - 1 : SlotOf(k)' = SlotOf(k + 1)
    <3>1. SlotOf(Capacity) = read_index
      BY <1>1, <1>2, SlotFacts DEF Slots
    <3>2. QED
      BY <1>1, <1>3, <3>1
  <2>2. write_index' = SlotOf((size - 1) + 1)
    BY <1>1 DEF RingConsistent, perform_read
  <2>3. size' \in 0 .. Capacity - 1 /\ write_index' = SlotOf(size - 1 + 1)
    BY <1>1, <2>2
  <2>4. \A k \in 0 .. Capacity - 1 :
          (read_index' + k) % Capacity = (read_index + (k + 1)) % Capacity
    BY <2>1 DEF SlotOf
  <2>5. QED
    BY <1>1, <2>3, <2>4 DEF SlotOf
<1>8. RingConsistent'
  BY <1>1, <1>6, <1>7 DEF RingConsistent
<1>9. QED
  BY <1>1, <1>5, <1>8

(* Every step of the channel preserves the consistency of the ring.        *)
LEMMA RingStep == TypeOK /\ CallInv /\ RingConsistent /\ [Next]_vars => RingConsistent'
<1> SUFFICES ASSUME TypeOK, CallInv, RingConsistent, [Next]_vars
             PROVE  RingConsistent'
  OBVIOUS
<1>1. CASE UNCHANGED <<ring, size>>
  BY <1>1 DEF ring, RingConsistent, SlotOf
<1>2. ASSUME NEW p \in Procs, PushValue(p) PROVE RingConsistent'
  <2>1. arg[p] \in Values
    BY <1>2 DEF PushValue, Holds, CallInv
  <2>2. QED
    BY <1>2, <2>1, WriteRing DEF PushValue
<1>3. ASSUME NEW p \in Procs, PopValue(p) PROVE RingConsistent'
  BY <1>3, ReadRing DEF PopValue
<1>4. QED
  BY <1>1, <1>2, <1>3
     DEF Next, Step, vars, base, Enter, Call, Lock, Acquire, Await, Suspend,
         PushRefused, PopNothing, PredicateFails, CloseChannel, PoisenChannel,
         GetSize, Notify, NotifyAll, Return

--------------------------------------------------------------------------------
(* Wakeups.                                                                *)

(* No step leaves behind a suspended process that nobody will wake.        *)
LEMMA WakeupStep ==
  TypeOK /\ CallInv /\ NoLostWakeup /\ [Next]_vars => NoLostWakeup'
<1> SUFFICES ASSUME TypeOK, CallInv, NoLostWakeup, [Next]_vars,
                    NEW w \in Procs, pc'[w] = "waiting", MayProceed(w)'
             PROVE  \E q \in Procs : pc'[q] = "notify"
  BY DEF NoLostWakeup
<1> USE DEF TypeOK, BaseTypeOK
(* The step of p does not touch what w waits for, and p was not the one    *)
(* that had to notify.                                                     *)
<1>1. ASSUME NEW p \in Procs, pc[p] \notin {"notify", "waiting"}, w # p,
             \A q \in Procs \ {p} : pc'[q] = pc[q] /\ op'[q] = op[q],
             UNCHANGED <<flags, size>>
      PROVE  \E q \in Procs : pc'[q] = "notify"
  BY <1>1 DEF NoLostWakeup, MayProceed, Ended, HasRoom, flags
<1>2. CASE UNCHANGED vars
  BY <1>2 DEF vars, base, NoLostWakeup, MayProceed, Ended, HasRoom
<1>3. ASSUME NEW p \in Procs, Enter(p) PROVE \E q \in Procs : pc'[q] = "notify"
  BY <1>1, <1>3, EnterFacts
<1>4. ASSUME NEW p \in Procs, Lock(p) PROVE \E q \in Procs : pc'[q] = "notify"
  BY <1>1, <1>4 DEF Lock, Acquire
<1>5. ASSUME NEW p \in Procs, Await(p) PROVE \E q \in Procs : pc'[q] = "notify"
  <2>1. w # p
    BY <1>5 DEF Await, Suspend, MayProceed, Ended, HasRoom, flags
  <2>2. QED
    BY <1>1, <1>5, <2>1 DEF Await, Suspend, Holds
<1>6. ASSUME NEW p \in Procs, NEW r, Finishes(p, r, "notify")
      PROVE  \E q \in Procs : pc'[q] = "notify"
  BY <1>6 DEF Finishes, Leave
<1>7. ASSUME NEW p \in Procs, NEW r, Finishes(p, r, "return"), UNCHANGED <<flags, size>>
      PROVE  \E q \in Procs : pc'[q] = "notify"
  BY <1>1, <1>7 DEF Finishes, Leave
<1>8. ASSUME NEW p \in Procs, Notify(p) PROVE FALSE
  BY <1>8 DEF Notify, NotifyAll
<1>9. ASSUME NEW p \in Procs, Return(p) PROVE \E q \in Procs : pc'[q] = "notify"
  BY <1>1, <1>9 DEF Return
<1> HIDE DEF TypeOK, BaseTypeOK
<1>10. ASSUME NEW p \in Procs,
              \/ PushValue(p) \/ PushRefused(p) \/ PopValue(p)
              \/ PopNothing(p) \/ PredicateFails(p)
              \/ CloseChannel(p) \/ PoisenChannel(p) \/ GetSize(p)
       PROVE  \E q \in Procs : pc'[q] = "notify"
  <2>1. PICK r, to : Finishes(p, r, to)
    BY <1>10, Sections
  <2>2. CASE to = "notify"
    BY <1>6, <2>1, <2>2
  <2>3. CASE to = "return"
    BY <1>7, <1>10, <2>1, <2>3, LeavePoints
       DEF Finishes, PushValue, PushRefused, PopValue, PopNothing,
           PredicateFails, CloseChannel, PoisenChannel, GetSize, flags
  <2>4. QED
    BY <2>1, <2>2, <2>3 DEF Finishes
<1>11. QED
  BY <1>2, <1>3, <1>4, <1>5, <1>8, <1>9, <1>10 DEF Next, Step
--------------------------------------------------------------------------------
(* The inductive invariant.                                                *)

(* IInv holds in every reachable state of the channel: it is inductive.    *)
THEOREM Invariance == Spec => []IInv
<1>1. Init => IInv
  <2>1. Init => TypeOK
    BY InitType
  <2>2. Init => LockInv /\ CallInv /\ NoLostWakeup
    BY SentinelAssumption
       DEF Init, BaseInit, LockInv, CallInv, NoLostWakeup, PushOps, Operations
  <2>3. Init => RingConsistent
    <3> SUFFICES ASSUME Init PROVE RingConsistent
      OBVIOUS
    <3>1. TypeOK
      BY <2>1
    <3>2. \A i \in Slots : SlotOf(i) \in Slots /\ ~(i < size)
      BY <3>1, SlotFacts, CapacityAssumption DEF Init, BaseInit, Slots
    <3>3. QED
      BY <3>1, <3>2, SlotFacts DEF Init, BaseInit, RingConsistent
  <2>4. QED
    BY <2>1, <2>2, <2>3 DEF IInv
<1>2. IInv /\ [Next]_vars => IInv'
  BY TypeStep, LockStep, CallStep, RingStep, WakeupStep DEF IInv
<1>3. QED
  BY <1>1, <1>2, PTL DEF Spec

(* A coroutine is never left asleep in a channel whose state lets it go    *)
(* on: CoroBoundedChannel always has a notify_all outstanding for it.      *)
THEOREM WakeupsNotLost == Spec => []NoLostWakeup
BY Invariance, PTL DEF IInv

(* The read index, the write index and the size of the ring agree, and the *)
(* occupied slots are exactly the ones between the indices.                *)
THEOREM RingIsConsistent == Spec => []RingConsistent
BY Invariance, PTL DEF IInv

(* No two coroutines are in critical sections of a channel at once.        *)
THEOREM MutualExclusion ==
  Spec => [](\A p, q \in Procs : pc[p] = "locked" /\ pc[q] = "locked" => p = q)
<1>1. IInv => \A p, q \in Procs : pc[p] = "locked" /\ pc[q] = "locked" => p = q
  BY DEF IInv, LockInv
<1>2. QED
  BY <1>1, Invariance, PTL
--------------------------------------------------------------------------------
(* The bounded channel implements ChannelFifo.                             *)

(* The contents of the ring are a sequence of size_ values.                *)
LEMMA ContentsFacts ==
  ASSUME TypeOK, RingConsistent
  PROVE  /\ Contents \in Seq(Values) /\ Len(Contents) = size
         /\ \A i \in 1 .. size : Contents[i] = buffer[SlotOf(i - 1)]
<1>1. size \in 0 .. Capacity /\ size \in Nat /\ Capacity \in Nat \ {0}
  BY CapacityAssumption DEF TypeOK
<1>2. \A i \in 1 .. size : buffer[SlotOf(i - 1)] \in Values
  <2>1. SUFFICES ASSUME NEW i \in 1 .. size PROVE buffer[SlotOf(i - 1)] \in Values
    OBVIOUS
  <2>2. i - 1 \in Slots /\ i - 1 \in 0 .. Capacity /\ i - 1 < size
    BY <1>1 DEF Slots
  <2>3. SlotOf(i - 1) \in Slots
    BY <2>2, SlotFacts
  <2>4. buffer[SlotOf(i - 1)] # NoValue
    BY <2>2 DEF RingConsistent
  <2>5. QED
    BY <2>3, <2>4 DEF TypeOK
<1>3. Contents \in [1 .. size -> Values]
  BY <1>2 DEF Contents
<1>4. QED
  BY <1>1, <1>3 DEF Contents

(* A write appends to the queue.                                           *)
LEMMA WriteAppends ==
  ASSUME TypeOK, TypeOK', RingConsistent, HasRoom, NEW v \in Values, perform_write(v)
  PROVE  Contents' = Append(Contents, v)
<1>1. size \in Nat /\ size' = size + 1
  BY CapacityAssumption DEF TypeOK, BaseTypeOK, perform_write
<1>2. /\ RingConsistent'
      /\ \A i \in 0 .. size :
           buffer'[SlotOf(i)'] = IF i < size THEN buffer[SlotOf(i)] ELSE v
  BY WriteRing
<1>3. /\ Contents \in Seq(Values) /\ Len(Contents) = size
      /\ \A i \in 1 .. size : Contents[i] = buffer[SlotOf(i - 1)]
  BY ContentsFacts
<1>4. /\ Contents' \in Seq(Values) /\ Len(Contents') = size + 1
      /\ \A i \in 1 .. size + 1 : Contents'[i] = buffer'[SlotOf(i - 1)']
  <2>1. (/\ Contents \in Seq(Values) /\ Len(Contents) = size
         /\ \A i \in 1 .. size : Contents[i] = buffer[SlotOf(i - 1)])'
    BY <1>2, ContentsFacts, PTL
  <2>2. QED
    BY <1>1, <2>1
<1>5. \A i \in 1 .. size + 1 : Contents'[i] = Append(Contents, v)[i]
  <2>1. SUFFICES ASSUME NEW i \in 1 .. size + 1
        PROVE  Contents'[i] = Append(Contents, v)[i]
    OBVIOUS
  <2>2. i - 1 \in 0 .. size
    BY <1>1
  <2>3. CASE i \in 1 .. size
    BY <1>1, <1>2, <1>3, <1>4, <2>2, <2>3
  <2>4. CASE i = size + 1
    BY <1>1, <1>2, <1>3, <1>4, <2>2, <2>4
  <2>5. i \in 1 .. size \/ i = size + 1
    BY <1>1
  <2>6. QED
    BY <2>3, <2>4, <2>5
<1>6. Append(Contents, v) \in Seq(Values) /\ Len(Append(Contents, v)) = size + 1
  BY <1>3
<1>7. QED
  BY <1>4, <1>5, <1>6, SeqEqual

(* A read takes the head of the queue.                                     *)
LEMMA ReadTakesHead ==
  ASSUME TypeOK, TypeOK', RingConsistent, size > 0, perform_read
  PROVE  /\ Contents # <<>> /\ Head(Contents) = buffer[read_index]
         /\ Contents' = Tail(Contents)
<1>1. size \in Nat /\ size' = size - 1 /\ size - 1 \in Nat
  BY CapacityAssumption DEF TypeOK, BaseTypeOK, perform_read
<1>2. /\ RingConsistent'
      /\ \A i \in 0 .. size - 2 : buffer'[SlotOf(i)'] = buffer[SlotOf(i + 1)]
  BY ReadRing
<1>3. /\ Contents \in Seq(Values) /\ Len(Contents) = size
      /\ \A i \in 1 .. size : Contents[i] = buffer[SlotOf(i - 1)]
  BY ContentsFacts
<1>4. /\ Contents' \in Seq(Values) /\ Len(Contents') = size - 1
      /\ \A i \in 1 .. size - 1 : Contents'[i] = buffer'[SlotOf(i - 1)']
  <2>1. (/\ Contents \in Seq(Values) /\ Len(Contents) = size
         /\ \A i \in 1 .. size : Contents[i] = buffer[SlotOf(i - 1)])'
    BY <1>2, ContentsFacts, PTL
  <2>2. QED
    BY <1>1, <2>1
<1>5. Contents # <<>> /\ Head(Contents) = buffer[read_index]
  <2>1. Contents[1] = buffer[read_index]
    BY <1>1, <1>3, SlotFacts
  <2>2. QED
    BY <1>1, <1>3, <2>1
<1>6. /\ Tail(Contents) \in Seq(Values) /\ Len(Tail(Contents)) = size - 1
      /\ \A i \in 1 .. size - 1 : Tail(Contents)[i] = Contents[i + 1]
  BY <1>1, <1>3, <1>5, HeadTailProperties
<1>7. \A i \in 1 .. size - 1 : Contents'[i] = Tail(Contents)[i]
  <2>1. SUFFICES ASSUME NEW i \in 1 .. size - 1
        PROVE  Contents'[i] = Tail(Contents)[i]
    OBVIOUS
  <2>2. i - 1 \in 0 .. size - 2 /\ i \in 1 .. size - 1 /\ i + 1 \in 1 .. size
        /\ (i - 1) + 1 = i /\ (i + 1) - 1 = i
    BY <1>1
  <2>3. Contents'[i] = buffer[SlotOf(i)]
    BY <1>2, <1>4, <2>2
  <2>4. Tail(Contents)[i] = buffer[SlotOf(i)]
    BY <1>3, <1>6, <2>2
  <2>5. QED
    BY <2>3, <2>4
<1>8. QED
  BY <1>4, <1>5, <1>6, <1>7, SeqEqual

(* Every step of the channel is a step of ChannelFifo or leaves it alone.  *)
LEMMA FifoStep ==
  IInv /\ IInv' /\ [Next]_vars => [Fifo!Next]_(Fifo!vars)
<1> SUFFICES ASSUME IInv, IInv', [Next]_vars PROVE [Fifo!Next]_(Fifo!vars)
  OBVIOUS
<1> USE DEF IInv
<1>1. CASE UNCHANGED vars
  BY <1>1 DEF vars, base, ring, Fifo!vars, Contents, SlotOf
(* The queue stays while the ring does.                                    *)
<1>2. UNCHANGED <<size, ring>> => UNCHANGED Contents
  BY DEF ring, Contents, SlotOf
<1>3. ASSUME NEW p \in Procs, Enter(p) PROVE Fifo!Call(p)
  BY <1>2, <1>3 DEF Enter, Call, CallInv, Fifo!Call, Fifo!PushOps, PushOps, flags
<1>4. ASSUME NEW p \in Procs, Lock(p) PROVE UNCHANGED Fifo!vars
  BY <1>2, <1>4 DEF Lock, Acquire, Fifo!vars, flags
<1>5. ASSUME NEW p \in Procs, Await(p) PROVE UNCHANGED Fifo!vars
  BY <1>2, <1>5 DEF Await, Suspend, Fifo!vars, flags
<1>6. ASSUME NEW p \in Procs, PushValue(p) PROVE Fifo!Enqueue(p)
  <2>1. arg[p] \in Values /\ res[p] = Pending
    BY <1>6 DEF PushValue, Holds, CallInv
  <2>2. Contents' = Append(Contents, arg[p])
    BY <1>6, <2>1, WriteAppends DEF PushValue
  <2>3. Fifo!HasRoom
    BY <1>6, ContentsFacts DEF PushValue, HasRoom, Fifo!HasRoom
  <2>4. QED
    BY <1>6, <2>1, <2>2, <2>3
       DEF PushValue, Holds, Leave, Ended, flags, PushOps,
           Fifo!Enqueue, Fifo!InProgress, Fifo!Answer, Fifo!PushOps
<1>7. ASSUME NEW p \in Procs, PushRefused(p) PROVE Fifo!Refuse(p)
  <2>1. res[p] = Pending
    BY <1>7 DEF PushRefused, Holds, CallInv
  <2>2. ~HasRoom => ~Fifo!HasRoom
    BY CapacityAssumption, ContentsFacts DEF HasRoom, Fifo!HasRoom, Fifo!Unlimited
  <2>3. QED
    BY <1>2, <1>7, <2>1, <2>2
       DEF PushRefused, Holds, Leave, Ended, flags, PushOps,
           Fifo!Refuse, Fifo!InProgress, Fifo!Answer, Fifo!PushOps
<1>8. ASSUME NEW p \in Procs, PopValue(p) PROVE Fifo!Dequeue(p)
  <2>1. res[p] = Pending
    BY <1>8 DEF PopValue, Holds, CallInv
  <2>2. /\ Contents # <<>> /\ Head(Contents) = buffer[read_index]
        /\ Contents' = Tail(Contents)
    BY <1>8, ReadTakesHead DEF PopValue
  <2>3. QED
    BY <1>8, <2>1, <2>2
       DEF PopValue, Holds, Leave, flags, PopOps,
           Fifo!Dequeue, Fifo!InProgress, Fifo!Answer, Fifo!PopOps
<1>9. ASSUME NEW p \in Procs, PopNothing(p) PROVE Fifo!YieldNothing(p)
  <2>1. res[p] = Pending
    BY <1>9 DEF PopNothing, Holds, CallInv
  <2>2. size = 0 => Contents = <<>>
    BY ContentsFacts
  <2>3. QED
    BY <1>2, <1>9, <2>1, <2>2
       DEF PopNothing, Holds, Leave, Ended, flags, PopOps,
           Fifo!YieldNothing, Fifo!InProgress, Fifo!Answer, Fifo!PopOps
<1>10. ASSUME NEW p \in Procs, PredicateFails(p) PROVE Fifo!YieldNothing(p)
  BY <1>2, <1>10
     DEF PredicateFails, Holds, Leave, flags, CallInv, PopOps,
         Fifo!YieldNothing, Fifo!InProgress, Fifo!Answer, Fifo!PopOps
<1>11. ASSUME NEW p \in Procs, UNCHANGED ring, CloseChannel(p) PROVE Fifo!Close(p)
  BY <1>2, <1>11
     DEF CloseChannel, Holds, Leave, CallInv, Fifo!Close, Fifo!InProgress, Fifo!Answer
<1>12. ASSUME NEW p \in Procs, UNCHANGED ring, PoisenChannel(p) PROVE Fifo!Poisen(p)
  BY <1>2, <1>12
     DEF PoisenChannel, Holds, Leave, CallInv, Fifo!Poisen, Fifo!InProgress, Fifo!Answer
<1>13. ASSUME NEW p \in Procs, UNCHANGED ring, GetSize(p) PROVE Fifo!Measure(p)
  BY <1>2, <1>13, ContentsFacts
     DEF GetSize, Holds, Leave, flags, CallInv, Fifo!Measure, Fifo!InProgress, Fifo!Answer
<1>14. ASSUME NEW p \in Procs, UNCHANGED ring, Notify(p) PROVE UNCHANGED Fifo!vars
  BY <1>2, <1>14 DEF Notify, NotifyAll, Fifo!vars, flags
<1>15. ASSUME NEW p \in Procs, UNCHANGED ring, Return(p) PROVE Fifo!Return(p)
  BY <1>2, <1>15, SentinelAssumption DEF Return, CallInv, flags, Fifo!Return
<1>16. QED
  BY <1>1, <1>3, <1>4, <1>5, <1>6, <1>7, <1>8, <1>9, <1>10, <1>11, <1>12, <1>13,
     <1>14, <1>15 DEF Next, Step, Fifo!Next

(* Refinement: whatever the interleaving of the coroutines, the bounded    *)
(* channel is one fifo queue of Capacity values on which each operation    *)
(* takes effect at one instant between its call and its return.            *)
THEOREM ChannelIsFifo == Spec => ImplementsFifo
<1>1. Init => Fifo!Init
  BY DEF Init, BaseInit, Fifo!Init, Contents
<1>2. QED
  BY <1>1, FifoStep, Invariance, PTL DEF Spec, ImplementsFifo, Fifo!Spec
================================================================================
