------------------------------- MODULE HostSpanner -------------------------------
(***************************************************************************)
(* The spanner of a host, source/analytics/hostSpanner.cc.                 *)
(***************************************************************************)
EXTENDS Spanner

VARIABLE host   \* the members of each HostSpanner

HostMembers ==
  [ call     |-> None,     \* pending_host_call_span_
    copying  |-> FALSE,    \* FinishPendingSpan is in its loop
    pciWrite |-> FALSE,    \* pci_write_before_
    int      |-> None,     \* pending_host_int_span_
    msix     |-> None,     \* pending_host_msix_span_
    pci      |-> None,     \* pending_pci_span_
    dmas     |-> <<>>,     \* pending_host_dma_spans_
    mmios    |-> <<>> ]    \* pending_host_mmio_spans_

InitHost == host = [m \in Machines |-> HostMembers]

HostMmioTypes ==
  {"HostMmioW", "HostMmioR", "HostMmioImRespPoW", "HostMmioCW", "HostMmioCR"}
HostTypes ==
  {"HostCall", "HostPciRW", "HostConf", "HostDmaW", "HostDmaR", "HostDmaC", "HostMsiX",
   "HostPostInt", "HostClearInt"} \cup HostMmioTypes

HostThrows == Throw /\ UNCHANGED host

---------------------------------------------------------------------------
(* HandelCall *)

Call(m) == SpanOf(host[m].call)

(* The first event is added by StartSpan and then once more.  A system     *)
(* call that begins is complete then, and another span is started with it. *)
FirstCall(m) ==
  LET p == Host(m)
      e == Event(p)
      sp == NewSpan("HostCall", None, e)
      again == CanAdd(sp, e)
  IN /\ At(p, {"HostCall"})
     /\ host[m].call = None
     /\ Consume(p)
     /\ spans' = [spans EXCEPT ![p] = @ \o IF again THEN <<Add(sp, e)>>
                                            ELSE <<Refuse(sp, e), sp>>]
     /\ finished' = IF again THEN finished ELSE finished \cup {NextId(p)}
     /\ host' = [host EXCEPT
          ![m].call = <<p, Len(spans'[p])>>,
          ![m].pciWrite = again /\ IsPciWrite(e)]
     /\ UNCHANGED <<queue, terminated>>

AddToCall(m) ==
  LET p == Host(m)
      e == Event(p)
  IN /\ At(p, {"HostCall"})
     /\ host[m].call # None
     /\ CanAdd(Call(m), e)
     /\ Consume(p)
     /\ spans' = Update(host[m].call, Add(Call(m), e))
     /\ host' = [host EXCEPT ![m].pciWrite = IsPciWrite(e)]
     /\ UNCHANGED <<finished, queue, terminated>>

(* CreateTraceStartingSpan, once FinishPendingSpan has finished old.       *)
StartNextCall(m) ==
  LET p == Host(m)
      old == host[m].call
  IN /\ Consume(p)
     /\ spans' = [spans EXCEPT
          ![p] = Append([@ EXCEPT ![old[2]] = Refuse(Call(m), Event(p))],
                        NewSpan("HostCall", None, Event(p)))]
     /\ finished' = finished \cup {old}
     /\ host' = [host EXCEPT ![m].call = NextId(p), ![m].pciWrite = FALSE,
                             ![m].copying = FALSE]
     /\ UNCHANGED <<queue, terminated>>

AtNextCall(m) ==
  /\ At(Host(m), {"HostCall"})
  /\ host[m].call # None
  /\ host[m].copying \/ ~CanAdd(Call(m), Event(Host(m)))

NextCall(m) ==
  /\ AtNextCall(m)
  /\ ~DoesKernelReceive(Call(m))
  /\ StartNextCall(m)

(* A call that received gets the context of a packet as its parent ...     *)
ReceiveContext(m) ==
  /\ AtNextCall(m)
  /\ ~host[m].copying /\ DoesKernelReceive(Call(m))
  /\ CanPop(Receives(m))
  /\ Pop(Receives(m))
  /\ spans' = Update(host[m].call,
       [Refuse(Call(m), Event(Host(m))) EXCEPT !.parent = Front(Receives(m)).parent])
  /\ host' = [host EXCEPT ![m].copying = TRUE]
  /\ UNCHANGED <<log, finished, terminated>>

(* ... and is copied for each packet that arrived before it began, as long *)
(* as TryPopOnTrue finds one.  A packet and what comes after it have the   *)
(* same ts here.                                                           *)

(* Mutant: whenever the packet arrived.                                    *)
ArrivedEver(m) == CanPop(Receives(m))

ArrivedBefore(m) ==
  CanPop(Receives(m)) /\ Front(Receives(m)).ts <= GetStartingTs(Call(m))

CopyContext(m) ==
  LET p == Host(m)
  IN /\ AtNextCall(m)
     /\ host[m].copying
     /\ ArrivedBefore(m)
     /\ Pop(Receives(m))
     /\ spans' = Append1(p, [Call(m) EXCEPT !.parent = Front(Receives(m)).parent])
     /\ finished' = finished \cup {NextId(p)}
     /\ UNCHANGED <<log, host, terminated>>

EndOfCopies(m) ==
  /\ AtNextCall(m)
  /\ host[m].copying
  /\ ~ArrivedBefore(m)
  /\ StartNextCall(m)

---------------------------------------------------------------------------
(* HandelMmio *)

AddToMmio(m) ==
  LET p == Host(m)
      pending == host[m].mmios
      i == First(Taking(pending, Event(p)))
      sp == Add(SpanOf(pending[i]), Event(p))
  IN /\ At(p, HostMmioTypes)
     /\ Taking(pending, Event(p)) # {}
     /\ Consume(p)
     /\ spans' = Update(pending[i], sp)
     /\ IF sp.pending
        THEN UNCHANGED <<finished, host>>
        ELSE /\ finished' = finished \cup {pending[i]}
             /\ host' = [host EXCEPT ![m].mmios = Without(@, i)]
     /\ UNCHANGED <<queue, terminated>>

(* The configuration space is written with an mmio, too.                   *)
EndsInDevice(m, e) == ~host[m].pciWrite /\ IsToDeviceBarNumber(e.bar)

StartMmio(m) ==
  LET p == Host(m)
      e == Event(p)
      sp == NewSpan("HostMmio", host[m].call, e)
  IN /\ At(p, HostMmioIssue)
     /\ Taking(host[m].mmios, e) = {}
     /\ host[m].call # None
     /\ Consume(p)
     /\ spans' = Append1(p, sp)
     /\ IF EndsInDevice(m, e)
        THEN Push(ToNic(m), Context(NextId(p), "Mmio", e.ts))
        ELSE UNCHANGED queue
     /\ finished' = IF sp.pending THEN finished ELSE finished \cup {NextId(p)}
     /\ host' = [host EXCEPT ![m].mmios = Append(@, NextId(p))]
     /\ UNCHANGED terminated

(* No system call, or a completion without a span.                         *)
CannotStartMmio(m) ==
  /\ At(Host(m), HostMmioTypes)
  /\ Taking(host[m].mmios, Event(Host(m))) = {}
  /\ host[m].call = None \/ Event(Host(m)).type \notin HostMmioIssue
  /\ HostThrows

---------------------------------------------------------------------------
(* HandelPci *)

EndPci(m) ==
  LET p == Host(m)
      id == host[m].pci
  IN /\ At(p, {"HostConf"})
     /\ id # None
     /\ CanAdd(SpanOf(id), Event(p))
     /\ Consume(p)
     /\ spans' = Update(id, Add(SpanOf(id), Event(p)))
     /\ finished' = finished \cup {id}
     /\ host' = [host EXCEPT ![m].pci = None]
     /\ UNCHANGED <<queue, terminated>>

(* Mutant: a pci access whose end was not seen is forgotten.               *)
StartPciOnly(m) ==
  LET p == Host(m)
  IN /\ At(p, {"HostPciRW"})
     /\ host[m].call # None
     /\ Consume(p)
     /\ spans' = Append1(p, NewSpan("HostPci", host[m].call, Event(p)))
     /\ host' = [host EXCEPT ![m].pci = NextId(p)]
     /\ UNCHANGED <<finished, queue, terminated>>

(* A pci access whose end was not seen is finished by the next one.        *)
StartPci(m) ==
  LET p == Host(m)
      old == host[m].pci
  IN /\ At(p, {"HostPciRW"})
     /\ host[m].call # None
     /\ Consume(p)
     /\ spans' = [spans EXCEPT ![p] = Append(
          IF old = None THEN @ ELSE [@ EXCEPT ![old[2]].pending = FALSE],
          NewSpan("HostPci", host[m].call, Event(p)))]
     /\ finished' = finished \cup ({old} \ {None})
     /\ host' = [host EXCEPT ![m].pci = NextId(p)]
     /\ UNCHANGED <<queue, terminated>>

CannotHandlePci(m) ==
  /\ \/ /\ At(Host(m), {"HostConf"})
        /\ host[m].pci # None => ~CanAdd(SpanOf(host[m].pci), Event(Host(m)))
     \/ At(Host(m), {"HostPciRW"}) /\ host[m].call = None
  /\ HostThrows

---------------------------------------------------------------------------
(* HandelDma and HandelMsix *)

HostDmaTypes == HostDmaExecution \cup {"HostDmaC"}

EndsMsix(m) == host[m].msix # None /\ CanAdd(SpanOf(host[m].msix), Event(Host(m)))

EndMsix(m) ==
  LET p == Host(m)
      id == host[m].msix
  IN /\ At(p, HostDmaTypes)
     /\ EndsMsix(m)
     /\ Consume(p)
     /\ spans' = Update(id, Add(SpanOf(id), Event(p)))
     /\ finished' = finished \cup {id}
     /\ host' = [host EXCEPT ![m].msix = None]
     /\ UNCHANGED <<queue, terminated>>

(* Mutant: the span stays in the list.                                     *)
EndDmaKeepsSpan(m) ==
  LET p == Host(m)
      pending == host[m].dmas
      i == First(Taking(pending, Event(p)))
  IN /\ At(p, HostDmaTypes)
     /\ ~EndsMsix(m)
     /\ Taking(pending, Event(p)) # {}
     /\ Consume(p)
     /\ spans' = Update(pending[i], Add(SpanOf(pending[i]), Event(p)))
     /\ finished' = finished \cup {pending[i]}
     /\ UNCHANGED <<queue, host, terminated>>

EndDma(m) ==
  LET p == Host(m)
      pending == host[m].dmas
      i == First(Taking(pending, Event(p)))
  IN /\ At(p, HostDmaTypes)
     /\ ~EndsMsix(m)
     /\ Taking(pending, Event(p)) # {}
     /\ Consume(p)
     /\ spans' = Update(pending[i], Add(SpanOf(pending[i]), Event(p)))
     /\ finished' = finished \cup {pending[i]}
     /\ host' = [host EXCEPT ![m].dmas = Without(@, i)]
     /\ UNCHANGED <<queue, terminated>>

AtNewDma(m) ==
  /\ At(Host(m), HostDmaTypes)
  /\ ~EndsMsix(m)
  /\ Taking(host[m].dmas, Event(Host(m))) = {}
  /\ CanPop(FromNic(m))

StartDma(m) ==
  LET p == Host(m)
      con == Front(FromNic(m))
  IN /\ AtNewDma(m)
     /\ con.expectation = "Dma" /\ Event(p).type # "HostDmaC"
     /\ Consume(p)
     /\ Pop(FromNic(m))
     /\ spans' = Append1(p, NewSpan("HostDma", con.parent, Event(p)))
     /\ host' = [host EXCEPT ![m].dmas = Append(@, NextId(p))]
     /\ UNCHANGED <<finished, terminated>>

AtMsix(m) == At(Host(m), {"HostMsiX"}) /\ CanPop(FromNic(m))

(* Mutant: takes the context of a dma, too.                                *)
StartMsixForAny(m) ==
  LET p == Host(m)
      con == Front(FromNic(m))
  IN /\ AtMsix(m)
     /\ Consume(p)
     /\ Pop(FromNic(m))
     /\ spans' = Append1(p, NewSpan("HostMsix", con.parent, Event(p)))
     /\ host' = [host EXCEPT ![m].msix = NextId(p)]
     /\ UNCHANGED <<finished, terminated>>

StartMsix(m) ==
  LET p == Host(m)
      con == Front(FromNic(m))
  IN /\ AtMsix(m)
     /\ con.expectation = "Msix"
     /\ Consume(p)
     /\ Pop(FromNic(m))
     /\ spans' = Append1(p, NewSpan("HostMsix", con.parent, Event(p)))
     /\ host' = [host EXCEPT ![m].msix = NextId(p)]
     /\ UNCHANGED <<finished, terminated>>

(* The event is given up, and the context with it.                         *)
UnexpectedContext(m) ==
  LET con == Front(FromNic(m))
  IN /\ \/ AtNewDma(m) /\ (con.expectation # "Dma" \/ Event(Host(m)).type = "HostDmaC")
        \/ AtMsix(m) /\ con.expectation # "Msix"
     /\ Consume(Host(m))
     /\ Pop(FromNic(m))
     /\ UNCHANGED <<spans, finished, host, terminated>>

---------------------------------------------------------------------------
(* HandelInt *)

HostIntTypes == {"HostPostInt", "HostClearInt"}

StartInt(m) ==
  LET p == Host(m)
  IN /\ At(p, {"HostPostInt"})
     /\ host[m].int = None /\ host[m].call # None
     /\ Consume(p)
     /\ spans' = Append1(p, NewSpan("HostInt", host[m].call, Event(p)))
     /\ host' = [host EXCEPT ![m].int = NextId(p)]
     /\ UNCHANGED <<finished, queue, terminated>>

(* A second interrupt before the first one is cleared is given up.         *)
AddToInt(m) ==
  LET p == Host(m)
      id == host[m].int
  IN /\ At(p, HostIntTypes)
     /\ id # None
     /\ Consume(p)
     /\ IF CanAdd(SpanOf(id), Event(p))
        THEN /\ spans' = Update(id, Add(SpanOf(id), Event(p)))
             /\ finished' = finished \cup {id}
             /\ host' = [host EXCEPT ![m].int = None]
        ELSE UNCHANGED <<spans, finished, host>>
     /\ UNCHANGED <<queue, terminated>>

CannotStartInt(m) ==
  /\ At(Host(m), HostIntTypes)
  /\ host[m].int = None
  /\ host[m].call = None \/ Event(Host(m)).type = "HostClearInt"
  /\ HostThrows

---------------------------------------------------------------------------
SkipHost(m) == Skip(Host(m), HostTypes) /\ UNCHANGED host

NextHost(m) ==
  \/ FirstCall(m) \/ AddToCall(m) \/ NextCall(m)
  \/ ReceiveContext(m) \/ CopyContext(m) \/ EndOfCopies(m)
  \/ AddToMmio(m) \/ StartMmio(m) \/ CannotStartMmio(m)
  \/ EndPci(m) \/ StartPci(m) \/ CannotHandlePci(m)
  \/ EndMsix(m) \/ EndDma(m) \/ StartDma(m) \/ StartMsix(m) \/ UnexpectedContext(m)
  \/ StartInt(m) \/ AddToInt(m) \/ CannotStartInt(m)
  \/ SkipHost(m)
================================================================================
