--------------------------------- MODULE Machine ---------------------------------
(***************************************************************************)
(* Hosts and network cards whose spanners connect their spans through the  *)
(* context queues, over the logs of a simulation.                          *)
(*                                                                         *)
(* The simulation is external.  A script says for each operation (a thread's *)
(* system calls, an mmio, a dma, ...) which steps it takes, one after the  *)
(* other: the events a step logs, the steps of other operations it comes   *)
(* after, and the messages it takes from and sends on the wires between    *)
(* host and card, which keep their order.  The steps of different          *)
(* operations interleave.  ts counts the packets received so far: packets  *)
(* and system calls are all that is compared by time, and an immediate     *)
(* response is logged with its write.                                      *)
(*                                                                         *)
(* A spanner cannot see more of a log than was written, and not seeing it  *)
(* yet is like being slow.  So the logs, up to any point of the simulation *)
(* (and, with Window, from any point on: --ts-lower-bound), are written    *)
(* before the spanners start.                                              *)
(***************************************************************************)
EXTENDS HostSpanner, NicSpanner, FiniteSets, TLC

CONSTANTS
  Scripts,   \* what may be simulated: for each scenario the steps of each operation
  Wires,
  NoWire,
  Window     \* whether the logs may begin after the simulation did

ASSUME MachineAssumption ==
  /\ Window \in BOOLEAN
  /\ NoWire \notin Wires
  /\ None \notin Spanners \X Nat

(* A step logs at one of the spanners.                                     *)
ASSUME ScriptsAssumption ==
  \A s \in DOMAIN Scripts : \A o \in DOMAIN Scripts[s] :
    /\ Len(Scripts[s][o]) \in Nat
    /\ \A k \in 1 .. Len(Scripts[s][o]) : Scripts[s][o][k].at \in Spanners

VARIABLES
  scenario,   \* the simulation that is run
  progress,   \* the steps each operation has taken
  wire,       \* the operations whose messages are on each wire
  clock,      \* the packets each machine has received
  cut,        \* the logs have begun
  tracing     \* the spanners run

simulation == <<scenario, progress, wire, clock, cut, tracing>>
vars == <<log, spans, finished, queue, terminated, host, nic, simulation>>

Script == Scripts[scenario]
Operations == DOMAIN Script

Init ==
  /\ log = [p \in Spanners |-> <<>>]
  /\ queue = [q \in Queues |-> <<>>]
  /\ InitSpanner /\ InitHost /\ InitNic
  /\ scenario \in DOMAIN Scripts
  /\ progress = [o \in Operations |-> 0]
  /\ wire = [w \in Wires |-> <<>>]
  /\ clock = [m \in Machines |-> 0]
  /\ cut = ~Window
  /\ tracing = FALSE

(* The event e as operation o logs it.                                     *)
Logged(e, o, ts) ==
  [f \in DOMAIN e \cup {"op", "ts"} |-> CASE f = "op" -> o [] f = "ts" -> ts [] OTHER -> e[f]]

IsReceive(step) == \E i \in DOMAIN step.log : step.log[i].type = "NicRx"

(* The network hands a packet and its context to the card.                 *)
FromNetwork(m, o, step) ==
  IF IsReceive(step)
  THEN /\ clock' = [clock EXCEPT ![m] = @ + 1]
       /\ spans' = Append1(Net(m), [kind |-> "NetDevice", parent |-> None, pending |-> FALSE,
                                    events |-> <<[op |-> o, ts |-> clock[m] + 1]>>])
       /\ Push(FromNet(m), Context(NextId(Net(m)), "Rx", clock[m] + 1))
  ELSE UNCHANGED <<clock, spans, queue>>

Simulate(o) ==
  LET k == progress[o] + 1
      step == Script[o][k]
      m == step.at[2]
      sent(w) == IF w = step.send THEN <<o>> ELSE <<>>
  IN /\ ~tracing
     /\ k <= Len(Script[o])
     /\ \A d \in step.after : progress[d[1]] >= d[2]
     /\ step.take # NoWire => wire[step.take] # <<>> /\ Head(wire[step.take]) = o
     /\ progress' = [progress EXCEPT ![o] = k]
     /\ wire' = [w \in Wires |->
                  (IF w = step.take THEN Tail(wire[w]) ELSE wire[w]) \o sent(w)]
     /\ FromNetwork(m, o, step)
     /\ log' = [log EXCEPT ![step.at] = @ \o
          [i \in DOMAIN step.log |-> Logged(step.log[i], o, clock'[m])]]
     /\ UNCHANGED <<finished, terminated, host, nic, scenario, cut, tracing>>

(* The logs begin here: what came before is not seen.                      *)
BeginLogs ==
  /\ ~tracing /\ ~cut
  /\ cut' = TRUE
  /\ log' = [p \in Spanners |-> <<>>]
  /\ queue' = [q \in Queues |-> <<>>]
  /\ UNCHANGED <<spans, finished, terminated, host, nic>>
  /\ UNCHANGED <<scenario, progress, wire, clock, tracing>>

EndLogs ==
  /\ ~tracing /\ cut
  /\ tracing' = TRUE
  /\ UNCHANGED <<log, spans, finished, queue, terminated, host, nic>>
  /\ UNCHANGED <<scenario, progress, wire, clock, cut>>

TraceHost(m) == tracing /\ NextHost(m) /\ UNCHANGED <<nic, simulation>>
TraceNic(m)  == tracing /\ NextNic(m) /\ UNCHANGED <<host, simulation>>

Next ==
  \/ \E o \in Operations : Simulate(o)
  \/ BeginLogs
  \/ EndLogs
  \/ \E m \in Machines : TraceHost(m) \/ TraceNic(m)

(* Every pipeline has a thread of its own.                                 *)
Spec ==
  /\ Init /\ [][Next]_vars
  /\ \A m \in Machines : WF_vars(TraceHost(m)) /\ WF_vars(TraceNic(m))

---------------------------------------------------------------------------
Ids(p) == {<<p, i>> : i \in DOMAIN spans[p]}
AllIds == UNION {Ids(p) : p \in Spanners}
Handled == tracing /\ \A p \in Spanners : log[p] = <<>>
Completed == \A o \in Operations : progress[o] = Len(Script[o])

(* The pending spans of a spanner are spans of its own that it can find    *)
(* again, none of them twice.                                              *)
TypeOK ==
  /\ finished \subseteq AllIds
  /\ \A m \in Machines :
       /\ {host[m].call, host[m].int, host[m].msix, host[m].pci} \subseteq Ids(Host(m)) \cup {None}
       /\ \A i, j \in DOMAIN host[m].dmas : host[m].dmas[i] = host[m].dmas[j] => i = j
       /\ \A i \in DOMAIN host[m].dmas : host[m].dmas[i] \in Ids(Host(m)) \ finished
       /\ \A i, j \in DOMAIN nic[m].dmas : nic[m].dmas[i] = nic[m].dmas[j] => i = j
       /\ \A i \in DOMAIN nic[m].dmas : nic[m].dmas[i] \in Ids(Nic(m)) \ finished
       /\ nic[m].lastCausing \in Ids(Nic(m)) \cup {None}
  /\ \A q \in Queues : \A i \in DOMAIN queue[q] :
       queue[q][i].expectation \in {"Mmio", "Dma", "Msix", "Rx"}
  /\ terminated \in BOOLEAN

(* A span is made of the events of one operation, whatever else is pending *)
(* at the same time.                                                       *)
OneOperation ==
  \A id \in AllIds :
    LET sp == SpanOf(id)
    IN sp.kind # "HostCall" =>
         \A i, j \in DOMAIN sp.events : sp.events[i].op = sp.events[j].op

(* The spans that one operation has on both sides are connected: the order *)
(* in which contexts are sent is the order in which the peer meets the     *)
(* events they belong to.                                                  *)
RightParent ==
  \A id \in AllIds :
    LET sp == SpanOf(id)
        crosses == \/ sp.kind \in {"NicMmio", "HostDma", "HostMsix"}
                   \/ sp.kind = "NicEth" /\ sp.events[1].type = "NicRx"
    IN crosses => /\ sp.parent[1] # id[1]
                  /\ sp.events[1].op = SpanOf(sp.parent).events[1].op

(* A span gets a parent of the kind that causes it; a context of another   *)
(* kind is dropped, also when host and card are out of step.               *)
ParentFits ==
  LET causes ==
        [NicMmio |-> {"HostMmio"}, HostDma |-> {"NicDma"}, HostMsix |-> {"NicMsix"},
         NicDma |-> {"NicMmio", "NicEth"}, NicMsix |-> {"NicMmio", "NicEth"},
         NicEth |-> {"NicMmio", "NicEth", "NetDevice"},
         HostMmio |-> {"HostCall"}, HostPci |-> {"HostCall"}, HostInt |-> {"HostCall"},
         HostCall |-> {"NicEth"}]
  IN \A id \in AllIds :
       LET sp == SpanOf(id)
       IN sp.parent # None => SpanOf(sp.parent).kind \in causes[sp.kind]

(* No exception ends the program.                                          *)
NeverTerminates == ~terminated

(* No spanner waits for a context for ever, wherever the logs end.         *)
EveryEventHandled == tracing ~> Handled

(* Once all is handled, the peers are in step: no context is left between  *)
(* host and card, and only the last system call is unfinished.             *)
EndsInStep ==
  Handled /\ Completed /\ ~terminated =>
    /\ \A m \in Machines : queue[ToNic(m)] = <<>> /\ queue[FromNic(m)] = <<>>
    /\ AllIds \ finished = {host[m].call : m \in Machines} \ {None}

(* System calls get the packets in the order in which the card received    *)
(* them, each packet once.                                                 *)
GotPacket(id) == SpanOf(id).kind = "HostCall" /\ SpanOf(id).parent # None
PacketsTakenInOrder ==
  \A m \in Machines : \A c, d \in Ids(Host(m)) :
    GotPacket(c) /\ GotPacket(d) /\ c[2] < d[2]
      => SpanOf(c).parent[2] < SpanOf(d).parent[2]

(* And no call gets a packet that arrived after the call had ended.        *)
PacketsInOrder ==
  /\ PacketsTakenInOrder
  /\ \A m \in Machines : \A c \in Ids(Host(m)) :
       GotPacket(c) => SpanOf(SpanOf(c).parent).events[1].ts
                         <= SpanOf(c).events[Len(SpanOf(c).events)].ts
================================================================================
