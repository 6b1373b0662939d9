-------------------------------- MODULE MCMachine --------------------------------
(* Scripts of one machine for TLC. *)
EXTENDS ScriptsInStep

M == 1
H == Host(M)
N == Nic(M)

Of(type, id) ==
  [type |-> type, id |-> id, bar |-> 0, posted |-> FALSE, fn |-> "other", read |-> FALSE]
CallOf(fn) == [Of("HostCall", 0) EXCEPT !.fn = fn]
PostedWrite(id) ==
  <<[Of("HostMmioW", id) EXCEPT !.posted = TRUE], Of("HostMmioImRespPoW", id)>>

Step(at, events, after) ==
  [at |-> at, log |-> events, after |-> after, take |-> NoWire, send |-> NoWire]
Sends(step, w) == [step EXCEPT !.send = w]
Takes_(step, w) == [step EXCEPT !.take = w]

Dma(id, cause, execution, completion) ==
  << Step(N, <<Of("NicDmaI", id)>>, cause),
     Sends(Step(N, <<Of("NicDmaEx", id)>>, {}), "up"),
     Takes_(Step(H, <<Of(execution, id)>>, {}), "up"),
     Sends(Step(H, <<Of("HostDmaC", id)>>, {}), "down"),
     Takes_(Step(N, <<Of(completion, id)>>, {}), "down") >>
DmaRead(id, cause) == Dma(id, cause, "HostDmaR", "NicDmaCR")
DmaWrite(id, cause) == Dma(id, cause, "HostDmaW", "NicDmaCW")

Interrupt(cause) ==
  << Sends(Step(N, <<Of("NicMsix", 0)>>, cause), "up"),
     Takes_(Step(H, <<Of("HostMsiX", 0)>>, {}), "up"),
     Step(H, <<Of("HostDmaC", 0)>>, {}) >>

Read(id, cause) ==
  << Sends(Step(H, <<Of("HostMmioR", id)>>, cause), "down"),
     Sends(Takes_(Step(N, <<Of("NicMmioR", id)>>, {}), "down"), "up"),
     Takes_(Step(H, <<Of("HostMmioCR", id)>>, {}), "up") >>

(* Two dmas caused by a write, and an interrupt.                           *)
DmaScript ==
  [ calls |->
      << Step(H, <<CallOf("entry")>>, {}),
         Step(H, <<CallOf("pciwrite")>> \o PostedWrite(10), {}),
         Step(H, <<CallOf("other")>>, {}) >>,
    write |->
      << Sends(Step(H, PostedWrite(1), {<<"calls", 3>>}), "down"),
         Takes_(Step(N, <<Of("NicMmioW", 1)>>, {}), "down") >>,
    dma1 |-> DmaRead(3, {<<"write", 2>>}),
    dma2 |-> DmaWrite(4, {<<"write", 2>>}),
    int |-> Interrupt({<<"dma1", 5>>}) ]

(* The first events are within a system call.  A posted write and a read    *)
(* of the msix table, which stay in the host, a configuration access, a    *)
(* write that is not posted and a read of the device, interrupts of a      *)
(* device that has no msix, a packet sent, and an event nobody handles.    *)
CallsScript ==
  [ calls |->
      << Step(H, <<CallOf("other")>>, {}),
         Step(H, <<[Of("HostMmioW", 1) EXCEPT !.posted = TRUE, !.bar = 2],
                   Of("HostMmioImRespPoW", 1),
                   [Of("HostMmioR", 2) EXCEPT !.bar = 2]>>, {}),
         Step(H, <<Of("HostPciRW", 0), Of("HostConf", 0)>>, {}),
         Step(H, <<[Of("HostPciRW", 0) EXCEPT !.read = TRUE],
                   Of("HostPciRW", 0), Of("HostConf", 0)>>, {}),
         Step(H, <<CallOf("entry"), CallOf("entry")>>, {<<"post", 2>>}) >>,
    post |->
      << Step(H, <<Of("HostPostInt", 0), Of("HostPostInt", 0)>>, {<<"calls", 3>>}),
         Step(H, <<Of("HostClearInt", 0)>>, {}) >>,
    write |->
      << Sends(Step(H, <<Of("HostMmioW", 3)>>, {<<"calls", 3>>}), "down"),
         Sends(Takes_(Step(N, <<Of("NicMmioW", 3)>>, {}), "down"), "up"),
         Takes_(Step(H, <<Of("HostMmioCW", 3)>>, {}), "up") >>,
    read |-> Read(4, {<<"write", 1>>}),
    send |-> << Step(N, <<Of("NicTx", 0), Of("NicOther", 0)>>, {<<"write", 2>>}) >> ]

(* Three packets and two calls that receive.  The third packet comes when  *)
(* the first call has begun.                                               *)
PacketsScript ==
  [ calls |->
      << Step(H, <<CallOf("entry")>>, {}),
         Step(H, <<CallOf("kernelrx")>>, {<<"rx1", 1>>}),
         Step(H, <<CallOf("entry")>>, {}),
         Step(H, <<CallOf("kernelrx"), Of("HostOther", 0)>>, {<<"rx2", 1>>, <<"rx3", 1>>}),
         Step(H, <<CallOf("entry")>>, {}) >>,
    rx1 |-> << Step(N, <<Of("NicRx", 0)>>, {}) >>,
    rx2 |-> << Step(N, <<Of("NicRx", 0)>>, {}) >>,
    rx3 |-> << Step(N, <<Of("NicRx", 0)>>, {<<"calls", 1>>}) >> ]

(* With all that fails when the logs begin in the midst of it.             *)
WindowScript ==
  [ calls |->
      << Step(H, <<CallOf("entry")>>, {}),
         Step(H, <<Of("HostPciRW", 0)>>, {}),
         Step(H, <<Of("HostConf", 0), Of("HostPostInt", 0)>>, {}),
         Step(H, <<Of("HostClearInt", 0)>>, {}),
         Step(H, <<CallOf("kernelrx"), CallOf("entry")>>, {<<"rx", 1>>}) >>,
    write |->
      << Sends(Step(H, PostedWrite(1), {<<"calls", 4>>}), "down"),
         Takes_(Step(N, <<Of("NicMmioW", 1)>>, {}), "down") >>,
    dma1 |-> DmaRead(3, {<<"write", 2>>}),
    rx |-> << Step(N, <<Of("NicRx", 0)>>, {<<"dma1", 1>>}) >>,
    dma2 |-> DmaWrite(4, {<<"rx", 1>>}),
    int |-> Interrupt({<<"rx", 1>>}) ]

(* A dma for a write, and one for a packet.                                *)
TwoDmasScript ==
  [ calls |-> << Step(H, <<CallOf("entry")>>, {}) >>,
    write |->
      << Sends(Step(H, PostedWrite(1), {<<"calls", 1>>}), "down"),
         Takes_(Step(N, <<Of("NicMmioW", 1)>>, {}), "down") >>,
    dma1 |-> DmaRead(3, {<<"write", 2>>}),
    rx |-> << Step(N, <<Of("NicRx", 0)>>, {}) >>,
    dma2 |-> DmaWrite(4, {<<"rx", 1>>}) ]

MachineScripts == <<DmaScript, CallsScript, PacketsScript>>
WindowScripts == <<WindowScript>>
CutScripts == <<TwoDmasScript>>
================================================================================
