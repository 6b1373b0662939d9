------------------------------- MODULE NicSpanner -------------------------------
(***************************************************************************)
(* The spanner of a network card, source/analytics/nicSpanner.cc.          *)
(***************************************************************************)
EXTENDS Spanner

VARIABLE nic   \* the members of each NicSpanner

NicMembers ==
  [ lastCausing |-> None,    \* last_causing_
    dmas        |-> <<>> ]   \* pending_nic_dma_spans_

InitNic == nic = [m \in Machines |-> NicMembers]

NicMmioTypes == {"NicMmioW", "NicMmioR"}
NicDmaTypes == {"NicDmaI", "NicDmaEx", "NicDmaCW", "NicDmaCR"}
NicTypes == {"NicTx", "NicRx", "NicMsix"} \cup NicMmioTypes \cup NicDmaTypes

---------------------------------------------------------------------------
(* HandelMmio *)

(* Mutant: a read is the cause of what the card does next.                 *)
MmioReadCauses(m) ==
  LET p == Nic(m)
      e == Event(p)
      con == Front(ToNic(m))
  IN /\ At(p, NicMmioTypes)
     /\ CanPop(ToNic(m))
     /\ Consume(p)
     /\ Pop(ToNic(m))
     /\ spans' = Append1(p, NewSpan("NicMmio", con.parent, e))
     /\ finished' = finished \cup {NextId(p)}
     /\ nic' = IF e.type = "NicMmioR"
               THEN [nic EXCEPT ![m].lastCausing = NextId(p)]
               ELSE nic
     /\ UNCHANGED terminated

(* A write is the cause of what the card does next.  Without the context   *)
(* of an mmio the event is given up.                                       *)
Mmio(m) ==
  LET p == Nic(m)
      e == Event(p)
      con == Front(ToNic(m))
  IN /\ At(p, NicMmioTypes)
     /\ CanPop(ToNic(m))
     /\ Consume(p)
     /\ Pop(ToNic(m))
     /\ IF con.expectation = "Mmio"
        THEN /\ spans' = Append1(p, NewSpan("NicMmio", con.parent, e))
             /\ finished' = finished \cup {NextId(p)}
             /\ nic' = IF e.type = "NicMmioW"
                       THEN [nic EXCEPT ![m].lastCausing = NextId(p)]
                       ELSE nic
        ELSE UNCHANGED <<spans, finished, nic>>
     /\ UNCHANGED terminated

---------------------------------------------------------------------------
(* HandelDma *)

(* Mutant: tells the host of the dma already when it is issued.            *)
IssueAndPushDma(m) ==
  LET p == Nic(m)
  IN /\ At(p, {"NicDmaI"})
     /\ nic[m].lastCausing # None
     /\ Consume(p)
     /\ spans' = Append1(p, NewSpan("NicDma", nic[m].lastCausing, Event(p)))
     /\ Push(FromNic(m), Context(NextId(p), "Dma", Event(p).ts))
     /\ nic' = [nic EXCEPT ![m].dmas = Append(@, NextId(p))]
     /\ UNCHANGED <<finished, terminated>>

IssueDma(m) ==
  LET p == Nic(m)
  IN /\ At(p, {"NicDmaI"})
     /\ nic[m].lastCausing # None
     /\ Consume(p)
     /\ spans' = Append1(p, NewSpan("NicDma", nic[m].lastCausing, Event(p)))
     /\ nic' = [nic EXCEPT ![m].dmas = Append(@, NextId(p))]
     /\ UNCHANGED <<finished, queue, terminated>>

(* The host is told when the dma is executed, to expect it.                *)
AddToDma(m) ==
  LET p == Nic(m)
      pending == nic[m].dmas
      i == First(Taking(pending, Event(p)))
      sp == Add(SpanOf(pending[i]), Event(p))
  IN /\ At(p, NicDmaTypes)
     /\ Taking(pending, Event(p)) # {}
     /\ Consume(p)
     /\ spans' = Update(pending[i], sp)
     /\ IF sp.pending
        THEN /\ Push(FromNic(m), Context(pending[i], "Dma", GetStartingTs(sp)))
             /\ UNCHANGED <<finished, nic>>
        ELSE /\ finished' = finished \cup {pending[i]}
             /\ nic' = [nic EXCEPT ![m].dmas = Without(@, i)]
             /\ UNCHANGED queue
     /\ UNCHANGED terminated

(* An execution or a completion without a span.                            *)
UnexpectedDma(m) ==
  /\ At(Nic(m), NicDmaTypes \ {"NicDmaI"})
  /\ Taking(nic[m].dmas, Event(Nic(m))) = {}
  /\ Consume(Nic(m))
  /\ UNCHANGED <<spans, finished, queue, nic, terminated>>

---------------------------------------------------------------------------
(* HandelTxrx and HandelMsix *)

Transmit(m) ==
  LET p == Nic(m)
  IN /\ At(p, {"NicTx"})
     /\ nic[m].lastCausing # None
     /\ Consume(p)
     /\ spans' = Append1(p, NewSpan("NicEth", nic[m].lastCausing, Event(p)))
     /\ Push(ToNet(m), Context(NextId(p), "Rx", Event(p).ts))
     /\ finished' = finished \cup {NextId(p)}
     /\ UNCHANGED <<nic, terminated>>

(* The network sends no contexts but of packets; the code checks it.       *)
Receive(m) ==
  LET p == Nic(m)
      con == Front(FromNet(m))
  IN /\ At(p, {"NicRx"})
     /\ CanPop(FromNet(m))
     /\ Consume(p)
     /\ PopAndPush(FromNet(m), Receives(m), Context(NextId(p), "Rx", Event(p).ts))
     /\ spans' = Append1(p, NewSpan("NicEth", con.parent, Event(p)))
     /\ finished' = finished \cup {NextId(p)}
     /\ nic' = [nic EXCEPT ![m].lastCausing = NextId(p)]
     /\ UNCHANGED terminated

(* Mutant: the host is not told of the interrupt.                          *)
MsixOnly(m) ==
  LET p == Nic(m)
  IN /\ At(p, {"NicMsix"})
     /\ nic[m].lastCausing # None
     /\ Consume(p)
     /\ spans' = Append1(p, NewSpan("NicMsix", nic[m].lastCausing, Event(p)))
     /\ finished' = finished \cup {NextId(p)}
     /\ UNCHANGED <<queue, nic, terminated>>

Msix(m) ==
  LET p == Nic(m)
  IN /\ At(p, {"NicMsix"})
     /\ nic[m].lastCausing # None
     /\ Consume(p)
     /\ spans' = Append1(p, NewSpan("NicMsix", nic[m].lastCausing, Event(p)))
     /\ Push(FromNic(m), Context(NextId(p), "Msix", Event(p).ts))
     /\ finished' = finished \cup {NextId(p)}
     /\ UNCHANGED <<nic, terminated>>

---------------------------------------------------------------------------
(* Nothing has caused the event.                                           *)
NicThrows(m) ==
  /\ At(Nic(m), {"NicDmaI", "NicTx", "NicMsix"})
  /\ nic[m].lastCausing = None
  /\ Throw
  /\ UNCHANGED nic

SkipNic(m) == Skip(Nic(m), NicTypes) /\ UNCHANGED nic

NextNic(m) ==
  \/ Mmio(m)
  \/ IssueDma(m) \/ AddToDma(m) \/ UnexpectedDma(m)
  \/ Transmit(m) \/ Receive(m) \/ Msix(m)
  \/ NicThrows(m)
  \/ SkipNic(m)
================================================================================
