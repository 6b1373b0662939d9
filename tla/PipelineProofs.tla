----------------------------- MODULE PipelineProofs -----------------------------
(***************************************************************************)
(* Theorems about Pipeline, for every number of handlers, every length of  *)
(* the log and every capacity of the channels.                             *)
(***************************************************************************)
EXTENDS Pipeline, SequenceTheorems, TLAPS

(* Where each task can be: only the fill task reads, only handlers handle, *)
(* only the consumer consumes; a task holds an event exactly while it      *)
(* works on one; the fill task is posted by the first produce(...).        *)
StageInv ==
  /\ pc[0] \in {"idle", "read", "push", "close", "done"}
  /\ pc[1] \in {"start", "pop", "push", "close", "done"}
  /\ \A t \in Handlers : pc[t] \in {"pop", "handel", "push", "close", "done"}
  /\ pc[Consumer] \in {"pop", "consume", "done"}
  /\ pc[0] = "idle" <=> pc[1] = "start"
  /\ \A t \in Tasks : hand[t] # NoEvent <=> pc[t] \in {"push", "handel", "consume"}

(* The end of the log moves down the pipeline: a task ends only after the  *)
(* channel it pops from is closed and empty, a channel is closed, by its   *)
(* writer or by the runner, only after its writer has ended.               *)
EndInv ==
  /\ \A c \in Channels : closed[c] => pc[c] = "done"
  /\ \A t \in Tasks \ {0} :
       pc[t] \in {"close", "done"} => closed[t - 1] /\ chan[t - 1] = <<>>
  /\ pc[0] \in {"close", "done"} => line = Lines + 1
  /\ \A t \in Tasks \ {0} : t < runner => pc[t] = "done"

(* OrderKept, pair by pair of the places an event can be at.               *)
OrderInv ==
  /\ \A t, u \in Tasks : t < u => Before(Held(u), Held(t))
  /\ \A t \in Tasks, c \in Channels :
       /\ t <= c => Before(Seen(c), Held(t))
       /\ c < t => Before(Held(t), Seen(c))
  /\ \A c, d \in Channels : c < d => Before(Seen(d), Seen(c))
  /\ \A t \in Tasks : Before(Reached, Held(t))
  /\ \A c \in Channels : Before(Reached, Seen(c))

SortedInv == Increasing(consumed) /\ \A c \in Channels : Increasing(chan[c])

(* The lines that were read and not held back: only these are in the       *)
(* pipeline, and nothing that is yet to be read was held back.             *)
Kept == (1 .. line - 1) \ dropped

FreshInv ==
  /\ \A t \in Tasks : Held(t) \subseteq Kept
  /\ \A c \in Channels : Seen(c) \subseteq Kept
  /\ Reached \subseteq Kept
  /\ dropped \subseteq 1 .. line - 1

IInv ==
  /\ TypeOK /\ NeverTerminates
  /\ StageInv /\ EndInv
  /\ OrderInv /\ SortedInv /\ FreshInv /\ NothingLost
--------------------------------------------------------------------------------
(* Sequences of increasing numbers.                                        *)

Elements(s) == {s[i] : i \in DOMAIN s}

(* t is s with e appended to it.                                           *)
Extends(t, s, e) ==
  /\ Len(t) = Len(s) + 1
  /\ \A i \in 1 .. Len(s) + 1 : t[i] = IF i = Len(s) + 1 THEN e ELSE s[i]

(* Push appends an event to its channel, consume(...) to what was consumed.*)
LEMMA ExtendElements ==
  ASSUME NEW S, NEW s \in Seq(S), NEW t \in Seq(S), NEW e, Extends(t, s, e)
  PROVE  Elements(t) = Elements(s) \union {e}
<1>1. DOMAIN s = 1 .. Len(s) /\ DOMAIN t = 1 .. Len(s) + 1 /\ Len(s) \in Nat
  BY DEF Extends
<1>2. QED
  BY <1>1 DEF Elements, Extends

(* An event younger than all the others keeps the order.                   *)
LEMMA ExtendIncreasing ==
  ASSUME NEW S \in SUBSET Nat, NEW s \in Seq(S), NEW t \in Seq(S), NEW e,
         Extends(t, s, e), Increasing(s), Before(Elements(s), {e})
  PROVE  Increasing(t)
<1>1. DOMAIN s = 1 .. Len(s) /\ DOMAIN t = 1 .. Len(s) + 1 /\ Len(s) \in Nat
  BY DEF Extends
<1>2. SUFFICES ASSUME NEW i \in 1 .. Len(s) + 1, NEW j \in 1 .. Len(s) + 1, i < j
               PROVE  t[i] < t[j]
  BY <1>1 DEF Increasing
<1>3. i \in 1 .. Len(s) /\ t[i] = s[i]
  BY <1>1, <1>2 DEF Extends
<1>4. CASE j = Len(s) + 1
  BY <1>1, <1>3, <1>4 DEF Before, Elements, Extends
<1>5. CASE j \in 1 .. Len(s)
  BY <1>1, <1>2, <1>3, <1>5 DEF Increasing, Extends
<1>6. QED
  BY <1>1, <1>4, <1>5

(* Pop takes the oldest event of its channel.                              *)
LEMMA HeadTailElements ==
  ASSUME NEW S \in SUBSET Nat, NEW s \in Seq(S), s # <<>>
  PROVE  /\ Head(s) \in S /\ Tail(s) \in Seq(S) /\ Len(Tail(s)) = Len(s) - 1
         /\ Elements(s) = {Head(s)} \union Elements(Tail(s))
         /\ Increasing(s) => Before({Head(s)}, Elements(Tail(s)))
         /\ Increasing(s) => Increasing(Tail(s))
<1> DEFINE t == Tail(s)
<1>1. /\ Len(s) \in Nat \ {0} /\ Head(s) = s[1] /\ Head(s) \in S
      /\ t \in Seq(S) /\ Len(t) = Len(s) - 1
      /\ \A i \in 1 .. Len(t) : t[i] = s[i + 1]
  BY EmptySeq, HeadTailProperties
<1>2. DOMAIN s = 1 .. Len(s) /\ DOMAIN t = 1 .. Len(s) - 1
  BY <1>1
<1> HIDE DEF t
<1>3. Elements(s) = {s[1]} \union Elements(t)
  <2>1. \A x \in Elements(s) : x \in {s[1]} \union Elements(t)
    <3>1. SUFFICES ASSUME NEW i \in 1 .. Len(s), i # 1
                   PROVE  s[i] \in Elements(t)
      BY <1>2 DEF Elements
    <3>2. i - 1 \in 1 .. Len(t) /\ (i - 1) + 1 = i
      BY <1>1, <3>1
    <3>3. t[i - 1] = s[i]
      BY <1>1, <3>2
    <3>4. QED
      BY <1>1, <1>2, <3>2, <3>3 DEF Elements
  <2>2. s[1] \in Elements(s)
    BY <1>1, <1>2 DEF Elements
  <2>3. \A i \in 1 .. Len(t) : t[i] \in Elements(s)
    <3>1. SUFFICES ASSUME NEW i \in 1 .. Len(t) PROVE t[i] \in Elements(s)
      OBVIOUS
    <3>2. i + 1 \in DOMAIN s /\ t[i] = s[i + 1]
      BY <1>1, <1>2
    <3>3. QED
      BY <3>2 DEF Elements
  <2>4. \A x \in Elements(t) : x \in Elements(s)
    BY <1>1, <1>2, <2>3 DEF Elements
  <2>5. QED
    BY <2>1, <2>2, <2>4
<1>4. \A i \in DOMAIN t : i \in Nat /\ i + 1 \in DOMAIN s /\ 1 < i + 1 /\ t[i] = s[i + 1]
  BY <1>1, <1>2
<1>5. ASSUME Increasing(s) PROVE Before({s[1]}, Elements(t))
  <2>1. SUFFICES ASSUME NEW i \in DOMAIN t PROVE s[1] < t[i]
    BY DEF Before, Elements
  <2>2. 1 \in DOMAIN s
    BY <1>1, <1>2
  <2>3. QED
    BY <1>4, <1>5, <2>2 DEF Increasing
<1>6. ASSUME Increasing(s) PROVE Increasing(t)
  <2>1. SUFFICES ASSUME NEW i \in DOMAIN t, NEW j \in DOMAIN t, i < j PROVE t[i] < t[j]
    BY DEF Increasing
  <2>2. i + 1 < j + 1
    BY <1>4, <2>1
  <2>3. QED
    BY <1>4, <1>6, <2>2 DEF Increasing
<1>7. QED
  BY <1>1, <1>3, <1>5, <1>6 DEF t

--------------------------------------------------------------------------------
(* Types.                                                                  *)

(* The tasks and the channels between them.                                *)
LEMMA TaskFacts ==
  /\ 0 \in Channels /\ 0 \in Tasks /\ 1 \in Tasks /\ 1 \in Channels
  /\ Consumer \in Tasks /\ Consumer \notin Channels
  /\ Channels \subseteq Tasks /\ Handlers \subseteq Channels \ {0, 1}
  /\ Tasks = Channels \union {Consumer}
  /\ Channels = {0, 1} \union Handlers
  /\ Tasks \subseteq Nat
  /\ \A t \in Tasks \ {0} : t - 1 \in Channels /\ t - 1 < t
  /\ Consumer # 0 /\ Consumer # 1 /\ Consumer \notin Handlers
  /\ \A c \in Channels : c + 1 \in Tasks \ {0}
BY PipelineAssumption DEF Channels, Tasks, Handlers, Consumer

(* A new pipeline is well typed.                                           *)
LEMMA InitType == Init => TypeOK
<1> SUFFICES ASSUME Init PROVE TypeOK
  OBVIOUS
<1>1. \A c \in Channels : Len(chan[c]) <= Capacity(c)
  BY PipelineAssumption DEF Init, Capacity
<1>2. pc \in [Tasks -> Points]
  BY DEF Init, Points
<1>3. line \in 1 .. Lines + 1 /\ runner \in 1 .. Returned
  BY PipelineAssumption DEF Init, Returned
<1>4. chan \in [Channels -> Seq(1 .. Lines)] /\ consumed \in Seq(1 .. Lines)
  BY DEF Init
<1>5. /\ closed \in [Channels -> BOOLEAN] /\ terminated \in BOOLEAN
      /\ hand \in [Tasks -> 1 .. Lines \union {NoEvent}] /\ dropped \subseteq 1 .. Lines
  BY DEF Init
<1>6. QED
  BY <1>1, <1>2, <1>3, <1>4, <1>5 DEF TypeOK

(* What a task pops has the type of an event, and leaves a channel.        *)
LEMMA PopType ==
  ASSUME TypeOK, NEW c \in Channels, chan[c] # <<>>
  PROVE  /\ Head(chan[c]) \in 1 .. Lines
         /\ Tail(chan[c]) \in Seq(1 .. Lines)
         /\ Len(Tail(chan[c])) <= Capacity(c)
<1>1. chan[c] \in Seq(1 .. Lines) /\ Len(chan[c]) <= Capacity(c)
  BY DEF TypeOK
<1>2. Capacity(c) \in Nat
  BY PipelineAssumption DEF Capacity
<1>3. Len(chan[c]) \in Nat
  BY <1>1
<1>4. /\ Head(chan[c]) \in 1 .. Lines /\ Tail(chan[c]) \in Seq(1 .. Lines)
      /\ Len(Tail(chan[c])) = Len(chan[c]) - 1
  BY <1>1, HeadTailProperties
<1>5. QED
  BY <1>1, <1>2, <1>3, <1>4

(* Every step keeps the types, and no Push exceeds a capacity.             *)
LEMMA TypeStep == TypeOK /\ StageInv /\ [Next]_vars => TypeOK'
<1> SUFFICES ASSUME TypeOK, StageInv, [Next]_vars PROVE TypeOK'
  OBVIOUS
<1> USE DEF TypeOK
<1>1. CASE UNCHANGED vars
  <2>1. \A c \in Channels : Capacity(c)' = Capacity(c)
    BY DEF Capacity
  <2>2. QED
    BY <1>1, <2>1 DEF vars
<1>2. CASE StartFill
  BY <1>2 DEF StartFill, Points, Capacity
<1>3. CASE ReadLine
  <2>1. line \in 1 .. Lines /\ line + 1 \in 1 .. Lines + 1
    BY <1>3, PipelineAssumption DEF ReadLine
  <2>2. pc' \in [Tasks -> Points] /\ hand' \in [Tasks -> 1 .. Lines \union {NoEvent}]
    BY <1>3, <2>1 DEF ReadLine, Go, Points
  <2>3. dropped' \subseteq 1 .. Lines
    BY <1>3, <2>1 DEF ReadLine
  <2>4. QED
    BY <1>3, <2>1, <2>2, <2>3 DEF ReadLine, Capacity
<1>4. CASE EndOfLog
  BY <1>4 DEF EndOfLog, Go, Points, Capacity
<1>5. ASSUME NEW t \in Channels, Push(t) PROVE TypeOK'
  <2>1. hand[t] \in 1 .. Lines
    BY <1>5, TaskFacts DEF StageInv, Push, At
  <2>2. chan'[t] \in Seq(1 .. Lines) /\ Len(chan'[t]) <= Capacity(t)
    <3>1. CASE closed[t]
      BY <1>5, <3>1 DEF Push
    <3>2. CASE ~closed[t]
      <4>1. chan'[t] = Append(chan[t], hand[t]) /\ Len(chan[t]) < Capacity(t)
        BY <1>5, <3>2 DEF Push
      <4>2. Len(chan'[t]) = Len(chan[t]) + 1 /\ chan'[t] \in Seq(1 .. Lines)
        BY <2>1, <4>1
      <4>3. Capacity(t) \in Nat /\ Len(chan[t]) \in Nat
        BY PipelineAssumption DEF Capacity
      <4>4. QED
        BY <4>1, <4>2, <4>3
    <3>3. QED
      BY <3>1, <3>2
  <2>3. chan' \in [Channels -> Seq(1 .. Lines)]
        /\ \A c \in Channels : Len(chan'[c]) <= Capacity(c)
    BY <1>5, <2>2 DEF Push
  <2>4. pc' \in [Tasks -> Points] /\ hand' \in [Tasks -> 1 .. Lines \union {NoEvent}]
    BY <1>5 DEF Push, Go, Points
  <2>5. QED
    BY <1>5, <2>3, <2>4 DEF Push, Capacity
<1>6. ASSUME NEW t \in Tasks \ {0}, Pop(t) PROVE TypeOK'
  <2>1. t - 1 \in Channels /\ chan[t - 1] # <<>>
    BY <1>6, TaskFacts DEF Pop
  <2>2. /\ chan' \in [Channels -> Seq(1 .. Lines)]
        /\ \A c \in Channels : Len(chan'[c]) <= Capacity(c)
    BY <1>6, <2>1, PopType DEF Pop
  <2>3. pc' \in [Tasks -> Points] /\ hand' \in [Tasks -> 1 .. Lines \union {NoEvent}]
    BY <1>6, <2>1, PopType DEF Pop, Go, Points
  <2>4. QED
    BY <1>6, <2>2, <2>3 DEF Pop, Capacity
<1>7. ASSUME NEW t \in Tasks \ {0}, PopNothing(t) PROVE TypeOK'
  BY <1>7 DEF PopNothing, Go, Points, Capacity
<1>8. ASSUME NEW t \in Handlers, Handel(t) PROVE TypeOK'
  <2>1. hand[t] \in 1 .. Lines
    BY <1>8, TaskFacts DEF StageInv, Handel, At
  <2>2. pc' \in [Tasks -> Points] /\ hand' \in [Tasks -> 1 .. Lines \union {NoEvent}]
    BY <1>8 DEF Handel, Go, Points
  <2>3. dropped' \subseteq 1 .. Lines
    BY <1>8, <2>1 DEF Handel
  <2>4. QED
    BY <1>8, <2>2, <2>3 DEF Handel, Capacity
<1>9. CASE Consume
  <2>1. hand[Consumer] \in 1 .. Lines
    BY <1>9, TaskFacts DEF StageInv, Consume, At
  <2>2. consumed' \in Seq(1 .. Lines)
    BY <1>9, <2>1 DEF Consume
  <2>3. pc' \in [Tasks -> Points] /\ hand' \in [Tasks -> 1 .. Lines \union {NoEvent}]
    BY <1>9 DEF Consume, Go, Points
  <2>4. QED
    BY <1>9, <2>2, <2>3 DEF Consume, Capacity
<1>10. ASSUME NEW t \in Channels, CloseChannel(t) PROVE TypeOK'
  BY <1>10 DEF CloseChannel, Go, Points, Capacity
<1>11. CASE AwaitTask
  <2>1. runner' \in 1 .. Returned
    BY <1>11, PipelineAssumption DEF AwaitTask, Producers, Handlers, Returned
  <2>2. closed' \in [Channels -> BOOLEAN]
    BY <1>11 DEF AwaitTask
  <2>3. QED
    BY <1>11, <2>1, <2>2 DEF AwaitTask, Capacity
<1>12. CASE AwaitConsumer
  BY <1>12, PipelineAssumption DEF AwaitConsumer, Capacity, Returned, Consumer
<1>13. QED
  BY <1>1, <1>2, <1>3, <1>4, <1>5, <1>6, <1>7, <1>8, <1>9, <1>10, <1>11, <1>12
     DEF Next, TaskStep, RunnerStep

--------------------------------------------------------------------------------
(* The stages of the tasks, and the end of the log.                        *)

(* A task moves from one of its own points to another of its own, and      *)
(* takes up and lays down its event as it does.                            *)
LEMMA StageStep == TypeOK /\ StageInv /\ [Next]_vars => StageInv'
<1> SUFFICES ASSUME TypeOK, StageInv, [Next]_vars PROVE StageInv'
  OBVIOUS
<1> USE PipelineAssumption, TaskFacts DEF TypeOK, StageInv, At, Go
<1>1. CASE UNCHANGED <<pc, hand>>
  BY <1>1
<1>2. CASE StartFill
  <2>1. /\ pc' = [pc EXCEPT ![0] = "read", ![1] = "pop"] /\ hand' = hand
        /\ pc[0] = "idle" /\ pc[1] = "start"
    BY <1>2 DEF StartFill
  <2>2. /\ pc'[0] = "read" /\ pc'[1] = "pop"
        /\ \A t \in Tasks \ {0, 1} : pc'[t] = pc[t]
    BY <2>1
  <2>3. hand[0] = NoEvent /\ hand[1] = NoEvent
    BY <2>1
  <2>4. QED
    BY <2>1, <2>2, <2>3
<1>3. CASE ReadLine
  <2>1. line \in Nat
    BY <1>3 DEF ReadLine
  <2>2. QED
    BY <1>3, <2>1 DEF ReadLine
<1>4. CASE EndOfLog
  BY <1>4 DEF EndOfLog
<1>5. ASSUME NEW t \in Channels, Push(t) PROVE StageInv'
  BY <1>5 DEF Push
<1>6. ASSUME NEW t \in Tasks \ {0}, Pop(t) PROVE StageInv'
  <2>1. Head(chan[t - 1]) \in Nat
    BY <1>6, PopType DEF Pop
  <2>2. PICK b : /\ b = IF t = 1 THEN "push" ELSE IF t = Consumer THEN "consume" ELSE "handel"
                 /\ pc[t] = "pop" /\ pc' = [pc EXCEPT ![t] = b]
                 /\ hand' = [hand EXCEPT ![t] = Head(chan[t - 1])]
    BY <1>6 DEF Pop, Producers
  <2>3. /\ pc'[t] = b /\ \A u \in Tasks \ {t} : pc'[u] = pc[u]
        /\ hand'[t] # NoEvent /\ \A u \in Tasks \ {t} : hand'[u] = hand[u]
    BY <2>1, <2>2
  <2>4. QED
    BY <2>2, <2>3
<1>7. ASSUME NEW t \in Tasks \ {0}, PopNothing(t) PROVE StageInv'
  BY <1>7 DEF PopNothing
<1>8. ASSUME NEW t \in Handlers, Handel(t) PROVE StageInv'
  <2>1. CASE Go(t, "push") /\ UNCHANGED hand
    BY <1>8, <2>1 DEF Handel
  <2>2. CASE Go(t, "pop") /\ hand' = [hand EXCEPT ![t] = NoEvent]
    BY <1>8, <2>2 DEF Handel
  <2>3. QED
    BY <1>8, <2>1, <2>2 DEF Handel
<1>9. CASE Consume
  BY <1>9 DEF Consume
<1>10. ASSUME NEW t \in Channels, CloseChannel(t) PROVE StageInv'
  BY <1>10 DEF CloseChannel
<1>11. QED
  BY <1>1, <1>2, <1>3, <1>4, <1>5, <1>6, <1>7, <1>8, <1>9, <1>10
     DEF Next, TaskStep, RunnerStep, AwaitTask, AwaitConsumer, vars

(* Nobody pushes to a closed channel, so no Push ends the program; and a   *)
(* task ends only when nothing can come down to it any more.               *)
LEMMA EndStep ==
  TypeOK /\ StageInv /\ EndInv /\ NeverTerminates /\ [Next]_vars
    => EndInv' /\ NeverTerminates'
<1> SUFFICES ASSUME TypeOK, StageInv, EndInv, NeverTerminates, [Next]_vars
             PROVE  EndInv' /\ NeverTerminates'
  OBVIOUS
<1> USE PipelineAssumption, TaskFacts DEF TypeOK, EndInv, NeverTerminates, At, Go
<1>1. CASE UNCHANGED vars
  BY <1>1 DEF vars
<1>2. CASE StartFill
  BY <1>2 DEF StartFill, StageInv
<1>3. CASE ReadLine
  BY <1>3 DEF ReadLine
<1>4. CASE EndOfLog
  BY <1>4 DEF EndOfLog
<1>5. ASSUME NEW t \in Channels, Push(t) PROVE EndInv' /\ NeverTerminates'
  BY <1>5 DEF Push
<1>6. ASSUME NEW t \in Tasks \ {0}, Pop(t) PROVE EndInv' /\ NeverTerminates'
  BY <1>6 DEF Pop
<1>7. ASSUME NEW t \in Tasks \ {0}, PopNothing(t) PROVE EndInv' /\ NeverTerminates'
  BY <1>7 DEF PopNothing
<1>8. ASSUME NEW t \in Handlers, Handel(t) PROVE EndInv' /\ NeverTerminates'
  <2>1. PICK b \in {"push", "pop"} :
          /\ pc' = [pc EXCEPT ![t] = b] /\ pc[t] = "handel"
          /\ UNCHANGED <<line, chan, closed, runner, terminated>>
    BY <1>8 DEF Handel
  <2>2. pc'[t] = b /\ \A u \in Tasks \ {t} : pc'[u] = pc[u]
    BY <2>1
  <2>3. QED
    BY <2>1, <2>2
<1>9. CASE Consume
  BY <1>9 DEF Consume
<1>10. ASSUME NEW t \in Channels, CloseChannel(t) PROVE EndInv' /\ NeverTerminates'
  BY <1>10 DEF CloseChannel
<1>11. CASE AwaitTask
  BY <1>11 DEF AwaitTask, Producers
<1>12. CASE AwaitConsumer
  BY <1>12 DEF AwaitConsumer, Consumer, Returned
<1>13. QED
  BY <1>1, <1>2, <1>3, <1>4, <1>5, <1>6, <1>7, <1>8, <1>9, <1>10, <1>11, <1>12
     DEF Next, TaskStep, RunnerStep

--------------------------------------------------------------------------------
(* Where the events are, and how each step moves them.                     *)

(* The events are natural numbers.                                         *)
LEMMA PlaceTypes ==
  ASSUME TypeOK
  PROVE  /\ \A t \in Tasks : Held(t) \subseteq 1 .. Lines
         /\ \A c \in Channels : Seen(c) = Elements(chan[c]) /\ Seen(c) \subseteq 1 .. Lines
         /\ Reached = Elements(consumed) /\ Reached \subseteq 1 .. Lines
<1>1. \A t \in Tasks : Held(t) \subseteq 1 .. Lines
  BY DEF TypeOK, Held
<1>2. \A s \in Seq(1 .. Lines) : Elements(s) \subseteq 1 .. Lines
  <2>1. SUFFICES ASSUME NEW s \in Seq(1 .. Lines), NEW i \in DOMAIN s
                 PROVE  s[i] \in 1 .. Lines
    BY DEF Elements
  <2>2. QED
    BY LenProperties, ElementOfSeq
<1>3. QED
  BY <1>1, <1>2 DEF TypeOK, Seen, Reached, Elements

(* ReadLine: a new event in the hand of the fill task, or a dropped line.  *)
LEMMA ReadMove ==
  ASSUME TypeOK, StageInv, ReadLine
  PROVE  /\ Held(0) = {} /\ line' = line + 1 /\ line \in 1 .. Lines
         /\ \/ Held(0)' = {line} /\ dropped' = dropped
            \/ Held(0)' = {} /\ dropped' = dropped \union {line}
         /\ \A t \in Tasks \ {0} : Held(t)' = Held(t)
         /\ \A c \in Channels : Seen(c)' = Seen(c)
         /\ Reached' = Reached
<1>1. line \in 1 .. Lines /\ line # NoEvent /\ hand[0] = NoEvent
  <2>1. line \in 1 .. Lines
    BY PipelineAssumption DEF ReadLine, TypeOK
  <2>2. hand[0] = NoEvent
    BY TaskFacts DEF ReadLine, StageInv, At
  <2>3. QED
    BY <2>1, <2>2, PipelineAssumption
<1>2. /\ \/ hand'[0] = line /\ dropped' = dropped
         \/ hand'[0] = NoEvent /\ dropped' = dropped \union {line}
      /\ \A t \in Tasks \ {0} : hand'[t] = hand[t]
  BY <1>1, TaskFacts DEF ReadLine, TypeOK
<1>3. QED
  BY <1>1, <1>2 DEF ReadLine, Held, Seen, Reached

(* Push: the event of the task joins the events of its channel.            *)
LEMMA PushMove ==
  ASSUME TypeOK, StageInv, EndInv, NEW c \in Channels, Push(c)
  PROVE  /\ \E e \in 1 .. Lines : Held(c) = {e} /\ Extends(chan'[c], chan[c], e)
         /\ chan'[c] \in Seq(1 .. Lines) /\ \A d \in Channels \ {c} : chan'[d] = chan[d]
         /\ Held(c)' = {} /\ Seen(c)' = Seen(c) \union Held(c)
         /\ \A t \in Tasks \ {c} : Held(t)' = Held(t)
         /\ \A d \in Channels \ {c} : Seen(d)' = Seen(d)
         /\ UNCHANGED <<Reached, dropped, line, consumed>>
<1>1. c \in Tasks /\ hand[c] \in 1 .. Lines /\ hand[c] # NoEvent
  BY TaskFacts DEF Push, At, StageInv, TypeOK
<1>2. /\ chan'[c] = Append(chan[c], hand[c]) /\ chan[c] \in Seq(1 .. Lines)
      /\ \A d \in Channels \ {c} : chan'[d] = chan[d]
  BY DEF Push, At, EndInv, TypeOK
<1>3. Held(c) = {hand[c]} /\ Held(c)' = {}
  BY <1>1 DEF Push, TypeOK, Held
<1>4. \A t \in Tasks \ {c} : Held(t)' = Held(t)
  BY DEF Push, TypeOK, Held
<1>5. /\ chan'[c] \in Seq(1 .. Lines) /\ Extends(chan'[c], chan[c], hand[c])
      /\ Seen(c)' = Seen(c) \union Held(c)
  <2>1. chan[c] \in Seq(1 .. Lines)
    BY <1>2
  <2>2. chan'[c] \in Seq(1 .. Lines) /\ Extends(chan'[c], chan[c], hand[c])
    BY <1>1, <1>2 DEF Extends
  <2>3. Elements(chan'[c]) = Elements(chan[c]) \union {hand[c]}
    BY <2>1, <2>2, ExtendElements
  <2>4. QED
    BY <1>3, <2>2, <2>3 DEF Seen, Elements
<1>6. \A d \in Channels \ {c} : Seen(d)' = Seen(d)
  BY <1>2 DEF TypeOK, Seen
<1>7. QED
  BY <1>1, <1>2, <1>3, <1>4, <1>5, <1>6 DEF Push, Reached

(* Pop: the oldest event of the channel goes to the hand of the task.      *)
LEMMA PopMove ==
  ASSUME TypeOK, StageInv, SortedInv, NEW t \in Tasks \ {0}, Pop(t)
  PROVE  /\ Held(t) = {} /\ Seen(t - 1) = Held(t)' \union Seen(t - 1)'
         /\ Before(Held(t)', Seen(t - 1)')
         /\ \A u \in Tasks \ {t} : Held(u)' = Held(u)
         /\ \A d \in Channels \ {t - 1} : Seen(d)' = Seen(d)
         /\ UNCHANGED <<Reached, dropped, line, consumed>>
         /\ Increasing(chan'[t - 1])
         /\ \A d \in Channels \ {t - 1} : chan'[d] = chan[d]
<1> DEFINE c == t - 1
<1>1. c \in Channels /\ chan[c] # <<>> /\ chan[c] \in Seq(1 .. Lines)
  BY TaskFacts DEF Pop, TypeOK
<1>2. /\ Head(chan[c]) \in 1 .. Lines
      /\ Elements(chan[c]) = {Head(chan[c])} \union Elements(Tail(chan[c]))
      /\ Before({Head(chan[c])}, Elements(Tail(chan[c])))
      /\ Increasing(Tail(chan[c]))
  <2>1. 1 .. Lines \in SUBSET Nat /\ Increasing(chan[c])
    BY <1>1 DEF SortedInv
  <2>2. QED
    BY <1>1, <2>1, HeadTailElements
<1>3. /\ chan'[c] = Tail(chan[c]) /\ \A d \in Channels \ {c} : chan'[d] = chan[d]
      /\ hand'[t] = Head(chan[c]) /\ \A u \in Tasks \ {t} : hand'[u] = hand[u]
      /\ hand[t] = NoEvent
  BY <1>1 DEF Pop, At, TypeOK, StageInv
<1>4. Held(t) = {} /\ Held(t)' = {Head(chan[c])}
  BY <1>2, <1>3, PipelineAssumption DEF Held
<1>5. Seen(c) = Elements(chan[c]) /\ Seen(c)' = Elements(Tail(chan[c]))
  BY <1>3 DEF Seen, Elements
<1>6. /\ \A u \in Tasks \ {t} : Held(u)' = Held(u)
      /\ \A d \in Channels \ {c} : Seen(d)' = Seen(d)
  BY <1>3 DEF Held, Seen
<1>7. Reached' = Reached /\ UNCHANGED <<dropped, line, consumed>>
  BY DEF Pop, Reached
<1>8. QED
  BY <1>2, <1>3, <1>4, <1>5, <1>6, <1>7

(* Handel: nothing moves, or the event of the handler is held back.        *)
LEMMA HandelMove ==
  ASSUME TypeOK, StageInv, NEW t \in Handlers, Handel(t)
  PROVE  /\ \/ Held(t)' = Held(t) /\ dropped' = dropped
            \/ Held(t)' = {} /\ dropped' = dropped \union Held(t)
         /\ \A u \in Tasks \ {t} : Held(u)' = Held(u)
         /\ \A c \in Channels : Seen(c)' = Seen(c)
         /\ UNCHANGED <<Reached, line, consumed, chan>>
<1>1. t \in Tasks /\ hand[t] # NoEvent
  BY TaskFacts DEF Handel, At, StageInv
<1>2. /\ \/ hand'[t] = hand[t] /\ dropped' = dropped
         \/ hand'[t] = NoEvent /\ dropped' = dropped \union {hand[t]}
      /\ \A u \in Tasks \ {t} : hand'[u] = hand[u]
  BY <1>1 DEF Handel, TypeOK
<1>3. QED
  BY <1>1, <1>2 DEF Handel, Held, Seen, Reached

(* Consume: the event of the consumer is the youngest that was consumed.   *)
LEMMA ConsumeMove ==
  ASSUME TypeOK, StageInv, Consume
  PROVE  /\ \E e \in 1 .. Lines : Held(Consumer) = {e} /\ Extends(consumed', consumed, e)
         /\ consumed' \in Seq(1 .. Lines)
         /\ Held(Consumer)' = {} /\ Reached' = Reached \union Held(Consumer)
         /\ \A t \in Tasks \ {Consumer} : Held(t)' = Held(t)
         /\ \A c \in Channels : Seen(c)' = Seen(c)
         /\ UNCHANGED <<dropped, line, chan>>
<1>1. Consumer \in Tasks /\ hand[Consumer] \in 1 .. Lines /\ hand[Consumer] # NoEvent
  BY TaskFacts DEF Consume, At, StageInv, TypeOK
<1>2. Held(Consumer) = {hand[Consumer]} /\ Held(Consumer)' = {}
  BY <1>1 DEF Consume, TypeOK, Held
<1>3. /\ consumed' \in Seq(1 .. Lines) /\ Extends(consumed', consumed, hand[Consumer])
      /\ Reached' = Reached \union Held(Consumer)
  <2>1. consumed \in Seq(1 .. Lines)
    BY DEF TypeOK
  <2>2. consumed' \in Seq(1 .. Lines) /\ Extends(consumed', consumed, hand[Consumer])
    BY <1>1, <2>1 DEF Consume, Extends
  <2>3. Elements(consumed') = Elements(consumed) \union {hand[Consumer]}
    BY <1>1, <2>1, <2>2, ExtendElements
  <2>4. QED
    BY <1>2, <2>2, <2>3 DEF Reached, Elements
<1>4. /\ \A t \in Tasks \ {Consumer} : Held(t)' = Held(t)
      /\ \A c \in Channels : Seen(c)' = Seen(c)
  BY DEF Consume, TypeOK, Held, Seen
<1>5. QED
  BY <1>1, <1>2, <1>3, <1>4 DEF Consume

Still == UNCHANGED <<line, chan, hand, consumed, dropped>>

(* The other steps move no event.                                          *)
LEMMA StillPlaces ==
  ASSUME Still
  PROVE  /\ \A t \in Tasks : Held(t)' = Held(t)
         /\ \A c \in Channels : Seen(c)' = Seen(c)
         /\ UNCHANGED <<Reached, line, chan, consumed, dropped>>
BY DEF Still, Held, Seen, Reached

(* Every step moves events by one of the lemmas above, or moves none.      *)
LEMMA Moves ==
  ASSUME [Next]_vars
  PROVE  \/ ReadLine \/ (\E c \in Channels : Push(c))
         \/ (\E t \in Tasks \ {0} : Pop(t)) \/ (\E t \in Handlers : Handel(t))
         \/ Consume \/ Still
BY DEF Next, TaskStep, RunnerStep, vars, StartFill, EndOfLog, PopNothing,
       CloseChannel, AwaitTask, AwaitConsumer, Still

--------------------------------------------------------------------------------
(* The invariants about events.                                            *)

(* Every step keeps the places apart: an event that moves is older than    *)
(* all that was at or above its old place, and younger than all below.     *)
LEMMA OrderStep ==
  TypeOK /\ StageInv /\ EndInv /\ SortedInv /\ FreshInv /\ OrderInv /\ [Next]_vars
    => OrderInv'
<1> SUFFICES ASSUME TypeOK, StageInv, EndInv, SortedInv, FreshInv, OrderInv, [Next]_vars
             PROVE  OrderInv'
  OBVIOUS
<1> USE DEF OrderInv, Before
<1>0. /\ \A t \in Tasks : Held(t) \subseteq Nat
      /\ \A c \in Channels : Seen(c) \subseteq Nat
      /\ Reached \subseteq Nat /\ Tasks \subseteq Nat /\ Channels \subseteq Tasks
  BY PlaceTypes, TaskFacts
<1>1. CASE ReadLine
  <2>1. /\ \A t \in Tasks : \A x \in Held(t) : x < line
        /\ \A c \in Channels : \A x \in Seen(c) : x < line
        /\ \A x \in Reached : x < line
    BY DEF FreshInv, TypeOK, Kept
  <2>2. /\ Held(0)' \subseteq {line}
        /\ \A t \in Tasks \ {0} : Held(t)' = Held(t)
        /\ \A c \in Channels : Seen(c)' = Seen(c)
        /\ Reached' = Reached
    BY <1>1, ReadMove
  <2>3. QED
    BY <1>0, <2>1, <2>2
<1>2. ASSUME NEW c \in Channels, Push(c) PROVE OrderInv'
  <2>1. /\ c \in Tasks /\ c \in Nat /\ Held(c)' = {} /\ Seen(c)' = Seen(c) \union Held(c)
        /\ \A t \in Tasks \ {c} : Held(t)' = Held(t)
        /\ \A d \in Channels \ {c} : Seen(d)' = Seen(d)
        /\ Reached' = Reached
    BY <1>0, <1>2, PushMove
  <2>2. \A t, u \in Tasks : t < u => Before(Held(u)', Held(t)')
    BY <1>0, <2>1
  <2>3. \A u \in Tasks, d \in Channels :
          /\ u <= d => Before(Seen(d)', Held(u)')
          /\ d < u => Before(Held(u)', Seen(d)')
    BY <1>0, <2>1
  <2>4. \A d, e \in Channels : d < e => Before(Seen(e)', Seen(d)')
    BY <1>0, <2>1
  <2>5. /\ \A u \in Tasks : Before(Reached', Held(u)')
        /\ \A d \in Channels : Before(Reached', Seen(d)')
    BY <1>0, <2>1
  <2>6. QED
    BY <2>2, <2>3, <2>4, <2>5
<1>3. ASSUME NEW t \in Tasks \ {0}, Pop(t) PROVE OrderInv'
  <2>1. /\ t \in Nat /\ t - 1 \in Channels /\ t - 1 \in Nat
        /\ Held(t) = {} /\ Seen(t - 1) = Held(t)' \union Seen(t - 1)'
        /\ \A x \in Held(t)', y \in Seen(t - 1)' : x < y
        /\ \A u \in Tasks \ {t} : Held(u)' = Held(u)
        /\ \A d \in Channels \ {t - 1} : Seen(d)' = Seen(d)
        /\ Reached' = Reached
    BY <1>0, <1>3, PopMove, TaskFacts
  <2>2. \A s, u \in Tasks : s < u => Before(Held(u)', Held(s)')
    BY <1>0, <2>1
  <2>3. \A u \in Tasks, d \in Channels :
          /\ u <= d => Before(Seen(d)', Held(u)')
          /\ d < u => Before(Held(u)', Seen(d)')
    BY <1>0, <2>1
  <2>4. \A d, e \in Channels : d < e => Before(Seen(e)', Seen(d)')
    BY <1>0, <2>1
  <2>5. /\ \A u \in Tasks : Before(Reached', Held(u)')
        /\ \A d \in Channels : Before(Reached', Seen(d)')
    BY <1>0, <2>1
  <2>6. QED
    BY <2>2, <2>3, <2>4, <2>5
<1>4. ASSUME NEW t \in Handlers, Handel(t) PROVE OrderInv'
  <2>1. /\ \A u \in Tasks : Held(u)' \subseteq Held(u)
        /\ \A d \in Channels : Seen(d)' = Seen(d)
        /\ Reached' = Reached
    BY <1>4, HandelMove
  <2>2. QED
    BY <2>1
<1>5. CASE Consume
  <2>1. \A t \in Tasks \ {Consumer} : t < Consumer /\ t # Consumer
    BY PipelineAssumption DEF Tasks, Consumer
  <2>2. \A c \in Channels : c < Consumer
    BY PipelineAssumption DEF Channels, Consumer
  <2>3. /\ Consumer \in Tasks /\ Held(Consumer)' = {}
        /\ Reached' = Reached \union Held(Consumer)
        /\ \A t \in Tasks \ {Consumer} : Held(t)' = Held(t)
        /\ \A c \in Channels : Seen(c)' = Seen(c)
    BY <1>5, ConsumeMove, TaskFacts
  <2>4. /\ \A t \in Tasks : Before(Reached', Held(t)')
        /\ \A c \in Channels : Before(Reached', Seen(c)')
    BY <2>1, <2>2, <2>3
  <2>5. /\ \A t, u \in Tasks : t < u => Before(Held(u)', Held(t)')
        /\ \A t \in Tasks, c \in Channels :
             /\ t <= c => Before(Seen(c)', Held(t)')
             /\ c < t => Before(Held(t)', Seen(c)')
    BY <2>3
  <2>6. QED
    BY <2>3, <2>4, <2>5
<1>6. CASE Still
  BY <1>6, StillPlaces
<1>7. QED
  BY <1>1, <1>2, <1>3, <1>4, <1>5, <1>6, Moves

(* Channels and consumed stay sorted: what is appended is the youngest.    *)
LEMMA SortedStep ==
  TypeOK /\ StageInv /\ EndInv /\ OrderInv /\ SortedInv /\ [Next]_vars => SortedInv'
<1> SUFFICES ASSUME TypeOK, StageInv, EndInv, OrderInv, SortedInv, [Next]_vars
             PROVE  SortedInv'
  OBVIOUS
<1>0. 1 .. Lines \in SUBSET Nat
  OBVIOUS
<1>1. ASSUME NEW c \in Channels, Push(c) PROVE SortedInv'
  <2>1. PICK e \in 1 .. Lines : Held(c) = {e} /\ Extends(chan'[c], chan[c], e)
    BY <1>1, PushMove
  <2>2. Before(Elements(chan[c]), {e}) /\ Increasing(chan[c]) /\ chan[c] \in Seq(1 .. Lines)
    <3>1. Before(Seen(c), Held(c))
      BY TaskFacts DEF OrderInv
    <3>2. QED
      BY <2>1, <3>1, PlaceTypes DEF SortedInv, TypeOK
  <2>3. chan'[c] \in Seq(1 .. Lines)
    BY <1>1, PushMove
  <2>4. Increasing(chan'[c])
    BY <1>0, <2>1, <2>2, <2>3, ExtendIncreasing
  <2>5. consumed' = consumed /\ \A d \in Channels \ {c} : chan'[d] = chan[d]
    BY <1>1, PushMove
  <2>6. QED
    BY <2>4, <2>5 DEF SortedInv
<1>2. ASSUME NEW t \in Tasks \ {0}, Pop(t) PROVE SortedInv'
  BY <1>2, PopMove DEF SortedInv
<1>3. CASE Consume
  <2>1. PICK e \in 1 .. Lines : Held(Consumer) = {e} /\ Extends(consumed', consumed, e)
    BY <1>3, ConsumeMove
  <2>2. Before(Elements(consumed), {e}) /\ Increasing(consumed) /\ consumed \in Seq(1 .. Lines)
    <3>1. Before(Reached, Held(Consumer))
      BY TaskFacts DEF OrderInv
    <3>2. QED
      BY <2>1, <3>1, PlaceTypes DEF SortedInv, TypeOK
  <2>3. consumed' \in Seq(1 .. Lines) /\ chan' = chan
    BY <1>3, ConsumeMove
  <2>4. Increasing(consumed')
    BY <1>0, <2>1, <2>2, <2>3, ExtendIncreasing
  <2>5. QED
    BY <2>3, <2>4 DEF SortedInv
<1>4. ASSUME UNCHANGED <<chan, consumed>> PROVE SortedInv'
  BY <1>4 DEF SortedInv
<1>5. QED
  BY <1>1, <1>2, <1>3, <1>4, Moves DEF ReadLine, Handel, Still

(* A line enters the pipeline once, and what is held back has left it.     *)
LEMMA FreshStep ==
  TypeOK /\ StageInv /\ EndInv /\ SortedInv /\ OrderInv /\ FreshInv /\ [Next]_vars
    => FreshInv'
<1> SUFFICES ASSUME TypeOK, StageInv, EndInv, SortedInv, OrderInv, FreshInv, [Next]_vars
             PROVE  FreshInv'
  OBVIOUS
<1>0. UNCHANGED <<line, dropped>> => Kept' = Kept /\ (1 .. line - 1)' = 1 .. line - 1
  BY DEF Kept
<1>1. CASE ReadLine
  <2>1. line \in Nat /\ line \notin 1 .. line - 1 /\ line \notin dropped
    BY DEF TypeOK, FreshInv
  <2>2. (1 .. line - 1)' = (1 .. line - 1) \union {line}
    BY <1>1, <2>1, ReadMove
  <2>3. CASE Held(0)' = {line} /\ dropped' = dropped
    <3>1. Kept' = Kept \union {line}
      BY <2>1, <2>2, <2>3 DEF Kept
    <3>2. QED
      BY <1>1, <2>2, <2>3, <3>1, ReadMove DEF FreshInv
  <2>4. CASE Held(0)' = {} /\ dropped' = dropped \union {line}
    <3>1. Kept' = Kept
      BY <2>1, <2>2, <2>4 DEF Kept
    <3>2. QED
      BY <1>1, <2>2, <2>4, <3>1, ReadMove DEF FreshInv
  <2>5. QED
    BY <1>1, <2>3, <2>4, ReadMove
<1>2. ASSUME NEW c \in Channels, Push(c) PROVE FreshInv'
  <2>1. c \in Tasks /\ Held(c)' = {} /\ Seen(c)' = Seen(c) \union Held(c)
    BY <1>2, PushMove, TaskFacts
  <2>2. /\ \A t \in Tasks \ {c} : Held(t)' = Held(t)
        /\ \A d \in Channels \ {c} : Seen(d)' = Seen(d)
        /\ UNCHANGED <<Reached, dropped, line>>
    BY <1>2, PushMove
  <2>3. Kept' = Kept /\ (1 .. line - 1)' = 1 .. line - 1
    BY <1>0, <2>2
  <2>4. \A t \in Tasks : Held(t)' \subseteq Kept
    BY <2>1, <2>2 DEF FreshInv
  <2>5. \A d \in Channels : Seen(d)' \subseteq Kept
    BY <2>1, <2>2 DEF FreshInv
  <2>6. QED
    BY <2>2, <2>3, <2>4, <2>5 DEF FreshInv
<1>3. ASSUME NEW t \in Tasks \ {0}, Pop(t) PROVE FreshInv'
  <2>1. t - 1 \in Channels /\ Held(t)' \subseteq Seen(t - 1) /\ Seen(t - 1)' \subseteq Seen(t - 1)
    BY <1>3, PopMove, TaskFacts
  <2>2. QED
    BY <1>0, <1>3, <2>1, PopMove DEF FreshInv
<1>4. ASSUME NEW t \in Handlers, Handel(t) PROVE FreshInv'
  <2>1. /\ \A u \in Tasks \ {t} : Held(u) \intersect Held(t) = {}
        /\ \A c \in Channels : Seen(c) \intersect Held(t) = {}
        /\ Reached \intersect Held(t) = {}
    <3>1. t \in Tasks /\ t \in Nat /\ Tasks \subseteq Nat /\ Channels \subseteq Nat
      BY TaskFacts
    <3>2. \A x \in Held(t) : x \in Nat /\ ~(x < x)
      BY <3>1, PlaceTypes
    <3>3. \A u \in Tasks \ {t} : u < t \/ t < u
      BY <3>1
    <3>4. \A c \in Channels : t <= c \/ c < t
      BY <3>1
    <3>5. QED
      BY <3>1, <3>2, <3>3, <3>4 DEF OrderInv, Before
  <2>2. t \in Tasks /\ Held(t) \subseteq Kept
    BY TaskFacts DEF FreshInv
  <2>3. CASE UNCHANGED <<Held(t), dropped>>
    BY <1>0, <1>4, <2>2, <2>3, HandelMove DEF FreshInv
  <2>4. CASE Held(t)' = {} /\ dropped' = dropped \union Held(t)
    <3>1. line' = line
      BY <1>4 DEF Handel
    <3>2. Kept' = Kept \ Held(t) /\ (1 .. line - 1)' = 1 .. line - 1
      BY <2>4, <3>1 DEF Kept
    <3>3. dropped' \subseteq 1 .. line - 1
      BY <2>2, <2>4 DEF FreshInv, Kept
    <3>4. QED
      BY <1>4, <2>1, <2>2, <2>4, <3>2, <3>3, HandelMove DEF FreshInv
  <2>5. QED
    BY <1>4, <2>3, <2>4, HandelMove
<1>5. CASE Consume
  <2>1. Consumer \in Tasks /\ Held(Consumer)' = {} /\ Reached' = Reached \union Held(Consumer)
    BY <1>5, ConsumeMove, TaskFacts
  <2>2. QED
    BY <1>0, <1>5, <2>1, ConsumeMove DEF FreshInv
<1>6. CASE Still
  BY <1>0, <1>6, StillPlaces DEF FreshInv
<1>7. QED
  BY <1>1, <1>2, <1>3, <1>4, <1>5, <1>6, Moves

AllHeld == UNION {Held(t) : t \in Tasks}
AllSeen == UNION {Seen(c) : c \in Channels}

(* What leaves one place arrives at another or is held back.               *)
LEMMA LostStep ==
  TypeOK /\ StageInv /\ EndInv /\ SortedInv /\ NothingLost /\ [Next]_vars => NothingLost'
<1> SUFFICES ASSUME TypeOK, StageInv, EndInv, SortedInv, NothingLost, [Next]_vars
             PROVE  NothingLost'
  OBVIOUS
<1>1. 1 .. line - 1 = dropped \union Reached \union AllHeld \union AllSeen
  BY Zenon DEF NothingLost, AllHeld, AllSeen
<1>2. SUFFICES (1 .. line - 1)' = dropped' \union Reached' \union AllHeld' \union AllSeen'
  BY Zenon DEF NothingLost, AllHeld, AllSeen
<1>3. (\A t \in Tasks : Held(t)' = Held(t)) => AllHeld' = AllHeld
  BY DEF AllHeld
<1>4. (\A c \in Channels : Seen(c)' = Seen(c)) => AllSeen' = AllSeen
  BY DEF AllSeen
<1>5. UNCHANGED line => (1 .. line - 1)' = 1 .. line - 1
  OBVIOUS
<1>6. CASE ReadLine
  <2>1. (1 .. line - 1)' = (1 .. line - 1) \union {line}
    BY <1>6, ReadMove
  <2>2. AllHeld' = AllHeld \union Held(0)'
    BY <1>6, ReadMove, TaskFacts DEF AllHeld
  <2>3. AllSeen' = AllSeen /\ Reached' = Reached
    BY <1>6, <1>4, ReadMove
  <2>4. \/ Held(0)' = {line} /\ dropped' = dropped
        \/ Held(0)' = {} /\ dropped' = dropped \union {line}
    BY <1>6, ReadMove
  <2>5. QED
    BY <1>1, <2>1, <2>2, <2>3, <2>4
<1>7. ASSUME NEW c \in Channels, Push(c)
      PROVE  (1 .. line - 1)' = dropped' \union Reached' \union AllHeld' \union AllSeen'
  <2>1. c \in Tasks /\ Held(c)' = {} /\ Seen(c)' = Seen(c) \union Held(c)
    BY <1>7, PushMove, TaskFacts
  <2>2. AllHeld = Held(c) \union AllHeld'
    BY <1>7, <2>1, PushMove DEF AllHeld
  <2>3. AllSeen' = Held(c) \union AllSeen
    BY <1>7, <2>1, PushMove DEF AllSeen
  <2>4. Reached' = Reached /\ dropped' = dropped /\ (1 .. line - 1)' = 1 .. line - 1
    BY <1>7, PushMove
  <2>5. QED
    BY <1>1, <2>2, <2>3, <2>4
<1>8. ASSUME NEW t \in Tasks \ {0}, Pop(t)
      PROVE  (1 .. line - 1)' = dropped' \union Reached' \union AllHeld' \union AllSeen'
  <2>1. /\ t - 1 \in Channels /\ Held(t) = {}
        /\ Seen(t - 1) = Held(t)' \union Seen(t - 1)'
    BY <1>8, PopMove, TaskFacts
  <2>2. AllHeld' = AllHeld \union Held(t)'
    BY <1>8, <2>1, PopMove DEF AllHeld
  <2>3. AllSeen = AllSeen' \union Held(t)'
    BY <1>8, <2>1, PopMove DEF AllSeen
  <2>4. Reached' = Reached /\ dropped' = dropped /\ (1 .. line - 1)' = 1 .. line - 1
    BY <1>8, PopMove
  <2>5. QED
    BY <1>1, <2>2, <2>3, <2>4
<1>9. ASSUME NEW t \in Handlers, Handel(t)
      PROVE  (1 .. line - 1)' = dropped' \union Reached' \union AllHeld' \union AllSeen'
  <2>1. AllSeen' = AllSeen /\ Reached' = Reached /\ line' = line
    BY <1>9, <1>4, HandelMove DEF Handel
  <2>2. AllHeld \union dropped = AllHeld' \union dropped'
    BY <1>9, HandelMove, TaskFacts DEF AllHeld
  <2>3. QED
    BY <1>1, <1>5, <2>1, <2>2
<1>10. CASE Consume
  <2>1. Consumer \in Tasks /\ Held(Consumer)' = {} /\ Reached' = Reached \union Held(Consumer)
    BY <1>10, ConsumeMove, TaskFacts
  <2>2. AllHeld = Held(Consumer) \union AllHeld'
    BY <1>10, <2>1, ConsumeMove DEF AllHeld
  <2>3. AllSeen' = AllSeen /\ dropped' = dropped /\ line' = line
    BY <1>10, <1>4, ConsumeMove
  <2>4. QED
    BY <1>1, <1>5, <2>1, <2>2, <2>3
<1>11. CASE Still
  BY <1>11, <1>1, <1>3, <1>4, <1>5, StillPlaces
<1>12. QED
  BY <1>6, <1>7, <1>8, <1>9, <1>10, <1>11, Moves

--------------------------------------------------------------------------------
(* The inductive invariant, and what follows from it.                      *)

(* A new pipeline has read nothing and holds nothing.                      *)
LEMMA InitInv == Init => IInv
<1> SUFFICES ASSUME Init PROVE IInv
  OBVIOUS
<1>1. TypeOK /\ NeverTerminates
  BY InitType DEF Init, NeverTerminates
<1>2. StageInv
  BY TaskFacts, PipelineAssumption DEF Init, StageInv
<1>3. EndInv
  BY TaskFacts DEF Init, EndInv
<1>4. /\ \A t \in Tasks : Held(t) = {}
      /\ \A c \in Channels : Seen(c) = {}
      /\ Reached = {}
  BY DEF Init, Held, Seen, Reached
<1>5. OrderInv
  BY <1>4 DEF OrderInv, Before
<1>6. SortedInv
  BY DEF Init, SortedInv, Increasing
<1>7. FreshInv
  BY <1>4 DEF Init, FreshInv
<1>8. NothingLost
  <2>1. 1 .. line - 1 = {} /\ dropped = {}
    BY DEF Init
  <2>2. QED
    BY <1>4, <2>1 DEF NothingLost
<1>9. QED
  BY <1>1, <1>2, <1>3, <1>5, <1>6, <1>7, <1>8 DEF IInv

(* IInv holds in every reachable state, whatever the speed of the tasks.   *)
THEOREM Invariance == Spec => []IInv
<1>1. IInv /\ [Next]_vars => IInv'
  BY TypeStep, StageStep, EndStep, OrderStep, SortedStep, FreshStep, LostStep DEF IInv
<1>2. QED
  BY InitInv, <1>1, PTL DEF Spec

(* Type correctness: in particular no channel of the pipeline ever holds   *)
(* more than its capacity.                                                 *)
THEOREM TypeCorrect == Spec => []TypeOK
BY Invariance, PTL DEF IInv

(* "unable to push next event to target channel" is never thrown, for any  *)
(* number of handlers: though RunPipelineImpl closes every channel a       *)
(* second time, no channel is closed while its writer may still push.      *)
THEOREM PipelineNeverTerminates == Spec => []NeverTerminates
BY Invariance, PTL DEF IInv

(* The events keep the order of the log everywhere in the pipeline.        *)
THEOREM OrderIsKept == Spec => []OrderKept
<1>1. IInv => OrderKept
  <2> SUFFICES ASSUME IInv PROVE OrderKept
    OBVIOUS
  <2>1. \A c \in Channels : c \in Tasks /\ c + 1 \in Tasks /\ c < c + 1 /\ c <= c
    BY TaskFacts
  <2>2. Consumer \in Tasks /\ \A c \in Channels : c < Consumer
    BY PipelineAssumption, TaskFacts DEF Channels, Consumer
  <2>3. \A c, d \in Channels : c < d => c <= d /\ d \in Tasks
    BY TaskFacts
  <2>4. QED
    BY <2>1, <2>2, <2>3 DEF IInv, OrderKept, OrderInv, SortedInv, Before
<1>2. QED
  BY <1>1, Invariance, PTL

(* No line that was read disappears between the tasks.                     *)
THEOREM NothingIsLost == Spec => []NothingLost
BY Invariance, PTL DEF IInv

(* When RunPipelineImpl has returned, the consumer has had exactly the     *)
(* events that the parser recognised and every handler passed on, each     *)
(* once and in the order of the log, and every task has ended.             *)
THEOREM ReturnIsComplete == Spec => []CompleteOnReturn
<1>1. IInv => CompleteOnReturn
  <2> SUFFICES ASSUME IInv, runner = Returned
               PROVE  /\ Reached = 1 .. Lines \ dropped
                      /\ Increasing(consumed)
                      /\ \A t \in Tasks : pc[t] = "done"
    BY DEF CompleteOnReturn
  <2>1. \A t \in Tasks \ {0} : pc[t] = "done"
    BY PipelineAssumption DEF IInv, EndInv, Tasks, Returned
  <2>2. \A c \in Channels : closed[c] /\ chan[c] = <<>>
    <3>1. \A t \in Tasks \ {0} : closed[t - 1] /\ chan[t - 1] = <<>>
      BY <2>1 DEF IInv, EndInv
    <3>2. \A c \in Channels : c + 1 \in Tasks \ {0} /\ (c + 1) - 1 = c
      BY TaskFacts
    <3>3. QED
      BY <3>1, <3>2
  <2>3. \A t \in Tasks : pc[t] = "done"
    BY <2>1, <2>2, TaskFacts DEF IInv, EndInv
  <2>4. line = Lines + 1
    BY <2>3, TaskFacts DEF IInv, EndInv
  <2>5. \A t \in Tasks : Held(t) = {}
    BY <2>3 DEF IInv, StageInv, Held
  <2>6. \A c \in Channels : Seen(c) = {}
    BY <2>2 DEF Seen
  <2>7. 1 .. line - 1 = dropped \union Reached
    BY <2>5, <2>6 DEF IInv, NothingLost
  <2>8. 1 .. line - 1 = 1 .. Lines
    BY <2>4, PipelineAssumption
  <2>9. Reached \intersect dropped = {}
    BY DEF IInv, FreshInv, Kept
  <2>10. QED
    BY <2>3, <2>7, <2>8, <2>9 DEF IInv, SortedInv
<1>2. QED
  BY <1>1, Invariance, PTL
================================================================================
