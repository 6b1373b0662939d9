------------------------------ MODULE ScriptsInStep ------------------------------
(***************************************************************************)
(* What makes the scripts of Machine those of a host and a card that are   *)
(* in step: messages between them that each cause one event on the other   *)
(* side, ids of dmas that are used one after the other, and no access of   *)
(* the device within the write of a configuration.                         *)
(*                                                                         *)
(* An occurrence <<o, k, i>> is the i-th event that step k of operation o  *)
(* logs.                                                                   *)
(***************************************************************************)
EXTENDS Machine

StepOf(s, x) == Scripts[s][x[1]][x[2]]
EventOf(s, x) == StepOf(s, x).log[x[3]]

Occurrences(s, p) ==
  LET steps(o) == {k \in 1 .. Len(Scripts[s][o]) : Scripts[s][o][k].at = p}
  IN  UNION {UNION {{<<o, k, i>> : i \in DOMAIN Scripts[s][o][k].log} : k \in steps(o)} :
               o \in DOMAIN Scripts[s]}
OfType(s, p, types) == {x \in Occurrences(s, p) : EventOf(s, x).type \in types}

(* An operation meets each of these events once.                           *)
OncePerOperation(X) == \A x, y \in X : x[1] = y[1] => x = y

(* The step of x is taken before the step of y may be.                     *)
Before(s, x, y) ==
  \/ x[1] = y[1] /\ x[2] < y[2]
  \/ \E j \in 1 .. y[2] : \E d \in Scripts[s][y[1]][j].after : d[1] = x[1] /\ x[2] <= d[2]

(* x is logged before y is.                                                *)
Earlier(s, x, y) == Before(s, x, y) \/ (x[1] = y[1] /\ x[2] = y[2] /\ x[3] < y[3])

(* What the peer is told to expect when e is logged, or needs when it is.  *)
Expects(e) ==
  CASE e.type \in HostMmioIssue \cup NicMmioTypes                    -> "Mmio"
    [] e.type \in HostDmaExecution \cup {"NicDmaEx"}                 -> "Dma"
    [] e.type \in {"HostMsiX", "NicMsix"}                            -> "Msix"
    [] OTHER                                                         -> "Rx"

(* Each message w carries from the events X causes one of Y, if it is      *)
(* taken at all.                                                           *)
Carried(s, X, Y, w) ==
  /\ OncePerOperation(X) /\ OncePerOperation(Y)
  /\ \A x \in X :
       /\ StepOf(s, x).send = w
       /\ \A k \in 1 .. Len(Scripts[s][x[1]]) :
            LET step == Scripts[s][x[1]][k]
            IN  /\ step.send = w => k = x[2]
                /\ step.take = w => \E y \in Y : y[1] = x[1] /\ y[2] = k
  /\ \A y \in Y :
       /\ StepOf(s, y).take = w
       /\ \E x \in X : /\ x[1] = y[1] /\ x[2] < y[2]
                       /\ Expects(EventOf(s, x)) = Expects(EventOf(s, y))

(* An id is used again once the operation that used it has closed it.      *)
UsedInTurn(s, X, Y) ==
  /\ OncePerOperation(X) /\ OncePerOperation(Y)
  /\ \A y \in Y : \E x \in X :
       /\ x[1] = y[1] /\ (x[2] < y[2] \/ (x[2] = y[2] /\ x[3] < y[3]))
       /\ EventOf(s, x).id = EventOf(s, y).id
  /\ \A x1, x2 \in X :
       EventOf(s, x1).id = EventOf(s, x2).id /\ x1 # x2 =>
         \E y \in Y : \/ y[1] = x1[1] /\ Before(s, y, x2)
                      \/ y[1] = x2[1] /\ Before(s, y, x1)

(* Before position i of the events es the last system call is a write of   *)
(* the configuration; without a call, if it was one before.                *)
PciWriteBefore(es, before, i) ==
  \/ /\ before
     /\ \A j \in DOMAIN es : j < i => es[j].type # "HostCall"
  \/ \E j \in DOMAIN es :
       /\ j < i /\ es[j].type = "HostCall" /\ IsPciWrite(es[j])
       /\ \A k \in DOMAIN es : j < k /\ k < i => es[k].type # "HostCall"

(* The accesses of the device of machine m.                                *)
ToDevice(s, m) ==
  {x \in OfType(s, Host(m), HostMmioIssue) :
     /\ IsToDeviceBarNumber(EventOf(s, x).bar)
     /\ ~PciWriteBefore(StepOf(s, x).log, FALSE, x[3])}

(* Between a write of the configuration and an access is another call.     *)
AccessesApart(s, m) ==
  LET calls == OfType(s, Host(m), {"HostCall"})
  IN \A x \in ToDevice(s, m) : \A c \in calls :
       /\ \A j \in 1 .. x[3] : StepOf(s, x).log[j].type # "HostCall"
       /\ PciWriteBefore(StepOf(s, c).log, FALSE, Len(StepOf(s, c).log) + 1)
       /\ <<c[1], c[2]>> # <<x[1], x[2]>>
       => \/ Before(s, x, c)
          \/ \E d \in calls : Before(s, c, d) /\ Before(s, d, x)

(* An access of the device that waits for its completion, a write that is  *)
(* answered at once, and what ends an access or an interrupt that e begins. *)
Waits(e) ==
  /\ IsToDeviceBarNumber(e.bar)
  /\ e.type = "HostMmioR" \/ (e.type = "HostMmioW" /\ ~e.posted)
IsPosted(e) == e.type = "HostMmioW" /\ e.posted
EndsWith(e, f) ==
  \/ e.type = "HostPciRW" /\ f.type = "HostConf"
  \/ e.type = "HostPostInt" /\ f.type = "HostClearInt"
  \/ Waits(e) /\ f.type \in {"HostMmioCW", "HostMmioCR"} /\ e.id = f.id
Alike(e, f) == Waits(e) /\ Waits(f) /\ e.id = f.id

(* What operation x[1] began is ended by its own event, and an id is used  *)
(* for one access at a time.                                               *)
Ended(s, X, x, y) ==
  \E z \in X : /\ EndsWith(EventOf(s, x), EventOf(s, z))
               /\ Earlier(s, x, z) /\ Earlier(s, z, y)
EndsOfItsOwn(s, X) ==
  /\ \A x, y \in X :
       /\ EndsWith(EventOf(s, x), EventOf(s, y)) /\ x[1] # y[1] =>
            Earlier(s, y, x) \/ Ended(s, X, x, y)
       /\ Alike(EventOf(s, x), EventOf(s, y)) /\ x # y =>
            Ended(s, X, x, y) \/ Ended(s, X, y, x)
  /\ \A x \in X : IsPosted(EventOf(s, x)) =>
       /\ x[3] + 1 \in DOMAIN StepOf(s, x).log
       /\ StepOf(s, x).log[x[3] + 1].type = "HostMmioImRespPoW"

(* An event has the fields that spans look at, each log is one, and a step *)
(* comes after steps of the operations.                                    *)
ASSUME EventsAssumption ==
  \A s \in DOMAIN Scripts : \A p \in Spanners :
    /\ \A x \in Occurrences(s, p) :
         {"type", "id", "bar", "fn", "posted"} \subseteq DOMAIN EventOf(s, x)
    /\ \A o \in DOMAIN Scripts[s] : \A k \in 1 .. Len(Scripts[s][o]) :
         /\ Len(Scripts[s][o][k].log) \in Nat
         /\ DOMAIN Scripts[s][o][k].log = 1 .. Len(Scripts[s][o][k].log)
         /\ Scripts[s][o][k].after \subseteq (DOMAIN Scripts[s]) \X Nat

ASSUME InStepAssumption ==
  \A s \in DOMAIN Scripts : \A m \in Machines :
    LET atHost(types) == OfType(s, Host(m), types)
        atNic(types) == OfType(s, Nic(m), types)
    IN /\ \E w \in Wires : Carried(s, ToDevice(s, m), atNic(NicMmioTypes), w)
       /\ \E w \in Wires : Carried(s, atNic({"NicDmaEx", "NicMsix"}),
                                      atHost(HostDmaExecution \cup {"HostMsiX"}), w)
       /\ OncePerOperation(atNic({"NicRx"})) /\ atHost({"NicRx"}) = {}
       /\ UsedInTurn(s, atNic({"NicDmaI"}), atNic({"NicDmaEx"}))
       /\ UsedInTurn(s, atNic({"NicDmaEx"}), atNic({"NicDmaCW", "NicDmaCR"}))
       /\ UsedInTurn(s, atHost(HostDmaExecution \cup {"HostMsiX"}), atHost({"HostDmaC"}))
       /\ \A x \in atHost({"HostMsiX"}) : EventOf(s, x).id = 0
       /\ \A x \in atHost(HostDmaExecution) : EventOf(s, x).id # 0
       /\ AccessesApart(s, m)

ASSUME EndsAssumption ==
  \A s \in DOMAIN Scripts : \A m \in Machines : EndsOfItsOwn(s, Occurrences(s, Host(m)))
================================================================================
