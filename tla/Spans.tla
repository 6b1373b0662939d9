--------------------------------- MODULE Spans ---------------------------------
(***************************************************************************)
(* The span classes of include/analytics/span.h: which events a span takes *)
(* (AddToSpan of source/analytics/span.cpp) and which of them completes    *)
(* it.  The members that remember an event of some type are the events of  *)
(* that type among events; the remaining state is pending.                 *)
(*                                                                         *)
(* An event is a record.  Its type is the EventType without k and T; fn of *)
(* a HostCall is the role of the function in the configuration.            *)
(***************************************************************************)
EXTENDS Naturals, Sequences

Types(es) == {es[i].type : i \in DOMAIN es}
TheOne(es, types) == es[CHOOSE i \in DOMAIN es : es[i].type \in types]

IsSysEntry(e) == e.fn = "entry"
IsKernelRx(e) == e.fn = "kernelrx"
IsPciWrite(e) == e.fn = "pciwrite"

(* Only bar 0 is within the device.                                        *)
IsToDeviceBarNumber(bar) == bar = 0

HostMmioIssue == {"HostMmioW", "HostMmioR"}
HostDmaExecution == {"HostDmaW", "HostDmaR"}

(* The events a span of each class takes after the events es.              *)

(* A second entry of a system call ends the span, see Refuse.              *)
HostCallTakes(es, e) ==
  e.type = "HostCall" /\ (IsSysEntry(e) => \A i \in DOMAIN es : ~IsSysEntry(es[i]))

HostIntTakes(es, e) ==
  \/ e.type = "HostPostInt" /\ e.type \notin Types(es)
  \/ e.type = "HostClearInt" /\ e.type \notin Types(es) /\ "HostPostInt" \in Types(es)

(* Mutant: any completion completes any dma.                               *)
HostDmaTakesAnyId(es, e) ==
  \/ e.type \in HostDmaExecution /\ Types(es) \cap HostDmaExecution = {}
  \/ e.type = "HostDmaC" /\ Types(es) \cap HostDmaExecution # {}

HostDmaTakes(es, e) ==
  \/ /\ e.type \in HostDmaExecution
     /\ Types(es) \cap HostDmaExecution = {}
  \/ /\ e.type = "HostDmaC"
     /\ Types(es) \cap HostDmaExecution # {} /\ e.type \notin Types(es)
     /\ e.id = TheOne(es, HostDmaExecution).id

HostMmioTakes(es, e) ==
  IF e.type \in HostMmioIssue THEN Types(es) \cap HostMmioIssue = {}
  ELSE /\ Types(es) \cap HostMmioIssue # {}
       /\ LET issue == TheOne(es, HostMmioIssue)
          IN \/ /\ e.type = "HostMmioImRespPoW"
                /\ issue.type = "HostMmioW" /\ issue.posted
                /\ issue.ts = e.ts
                /\ e.type \notin Types(es)
             \/ /\ e.type = "HostMmioCW"
                /\ IsToDeviceBarNumber(issue.bar)
                /\ issue.type = "HostMmioW" /\ issue.id = e.id
                /\ "HostMmioImRespPoW" \notin Types(es)
             \/ /\ e.type = "HostMmioCR"
                /\ IsToDeviceBarNumber(issue.bar)
                /\ issue.type = "HostMmioR" /\ issue.id = e.id

(* The write that delivers an interrupt completes with id 0.               *)
HostMsixTakes(es, e) ==
  \/ e.type = "HostMsiX" /\ e.type \notin Types(es)
  \/ /\ e.type = "HostDmaC" /\ e.type \notin Types(es)
     /\ "HostMsiX" \in Types(es)
     /\ e.id = 0

HostPciTakes(es, e) ==
  \/ e.type = "HostPciRW" /\ e.type \notin Types(es)
  \/ /\ e.type = "HostConf" /\ e.type \notin Types(es)
     /\ "HostPciRW" \in Types(es)
     /\ e.read = TheOne(es, {"HostPciRW"}).read

NicDmaTakes(es, e) ==
  \/ e.type = "NicDmaI" /\ e.type \notin Types(es)
  \/ /\ e.type = "NicDmaEx" /\ e.type \notin Types(es)
     /\ "NicDmaI" \in Types(es)
     /\ e.id = TheOne(es, {"NicDmaI"}).id
  \/ /\ e.type \in {"NicDmaCW", "NicDmaCR"}
     /\ Types(es) = {"NicDmaI", "NicDmaEx"}
     /\ e.id = TheOne(es, {"NicDmaI"}).id

Takes(kind, es, e) ==
  CASE kind = "HostCall" -> HostCallTakes(es, e)
    [] kind = "HostInt"  -> HostIntTakes(es, e)
    [] kind = "HostDma"  -> HostDmaTakes(es, e)
    [] kind = "HostMmio" -> HostMmioTakes(es, e)
    [] kind = "HostMsix" -> HostMsixTakes(es, e)
    [] kind = "HostPci"  -> HostPciTakes(es, e)
    [] kind = "NicMsix"  -> es = <<>> /\ e.type = "NicMsix"
    [] kind = "NicMmio"  -> es = <<>> /\ e.type \in {"NicMmioW", "NicMmioR"}
    [] kind = "NicDma"   -> NicDmaTakes(es, e)
    [] kind = "NicEth"   -> es = <<>> /\ e.type \in {"NicTx", "NicRx"}

(* The event that completes a span which takes it.                         *)
Completes(kind, e) ==
  \/ e.type \in {"HostClearInt", "HostDmaC", "HostConf", "NicDmaCW", "NicDmaCR"}
  \/ kind = "HostMmio" /\ \/ e.type \notin HostMmioIssue
                          \/ e.type = "HostMmioR" /\ ~IsToDeviceBarNumber(e.bar)
  \/ kind \in {"NicMsix", "NicMmio", "NicEth"}

IsPotentialAdd(sp) == sp.pending
CanAdd(sp, e) == IsPotentialAdd(sp) /\ Takes(sp.kind, sp.events, e)

Add(sp, e) == [sp EXCEPT !.events = Append(@, e), !.pending = ~Completes(sp.kind, e)]

(* A system call is complete when the next one begins.                     *)
Refuse(sp, e) ==
  IF sp.kind = "HostCall" /\ e.type = "HostCall" THEN [sp EXCEPT !.pending = FALSE] ELSE sp

DoesKernelReceive(sp) == \E i \in DOMAIN sp.events : IsKernelRx(sp.events[i])

GetStartingTs(sp) == sp.events[1].ts
================================================================================
