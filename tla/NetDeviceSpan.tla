------------------------------ MODULE NetDeviceSpan ------------------------------
(***************************************************************************)
(* NetDeviceSpan (include/analytics/span.h, source/analytics/span.cpp): a  *)
(* packet in one device, from its enqueue to its dequeue or drop.          *)
(*                                                                         *)
(* A packet has an ARP header or an IP header or neither, never both; so a *)
(* span that refuses an event has not changed.                             *)
(***************************************************************************)
EXTENDS Events

NetDeviceSpan(parent) ==
  [parent |-> parent, dev_enq |-> <<>>, dev_deq |-> <<>>, drop |-> <<>>, ips |-> <<>>,
   boundary_types |-> {}, pending |-> TRUE]

IsDrop(sp) == sp.drop # <<>>
HasIpsSet(sp) == sp.ips # <<>>

IsPotentialAdd(sp, e) ==
  sp.pending /\ \A i \in DOMAIN sp.dev_enq : sp.dev_enq[i].ident = e.ident

(* The ARP headers must match only if there are two.                       *)
IsConsistent(a, b) ==
  /\ a.arp_header # <<>> /\ b.arp_header # <<>> => a.arp_header = b.arp_header
  /\ a.ip_header = b.ip_header
  /\ Same(a, b, {"node", "device", "device_type", "packet_uid", "interesting", "payload_size"})

(* The addresses of the first header that has any are those of the span;   *)
(* those of a later header must be the same.                               *)
Addresses(header) == <<header.src_ip, header.dst_ip>>
SetPotentialIps(sp, header) ==
  IF sp.ips = <<>> /\ header # <<>> THEN [sp EXCEPT !.ips = <<Addresses(header[1])>>] ELSE sp
CheckPotentialIps(sp, header) ==
  header # <<>> /\ sp.ips # <<>> => sp.ips[1] = Addresses(header[1])
SetIp(sp, e) == SetPotentialIps(sp, e.ip_header)

(* Mutant: the addresses of an ARP header are not taken.                   *)
SetIpOnly(sp, e) == SetIp(sp, e)
SetIps(sp, e) == SetPotentialIps(SetIp(sp, e), e.arp_header)
CheckIps(sp, e) ==
  /\ CheckPotentialIps(sp, e.ip_header)
  /\ CheckPotentialIps(SetIp(sp, e), e.arp_header)

(* The second event of a span, or the first.                               *)
TakesEnqueue(sp, e) == sp.dev_enq = <<>> /\ CheckIps(sp, e)
TakesEnd(sp, e) ==
  /\ sp.dev_enq # <<>> /\ sp.dev_deq = <<>> /\ sp.drop = <<>>
  /\ IsConsistent(sp.dev_enq[1], e)
  /\ CheckIps(sp, e)
CanAdd(sp, e) ==
  /\ IsPotentialAdd(sp, e)
  /\ \/ IsType(e, "kNetworkEnqueueT") /\ TakesEnqueue(sp, e)
     \/ IsAnyType(e, {"kNetworkDequeueT", "kNetworkDropT"}) /\ TakesEnd(sp, e)

HandelEnqueue(sp, e) ==
  [SetIps(sp, e) EXCEPT !.dev_enq = <<e>>, !.boundary_types = @ \cup {e.boundary}]
HandelDequeue(sp, e) ==
  [SetIps(sp, e) EXCEPT !.dev_deq = <<e>>, !.boundary_types = @ \cup {e.boundary},
                        !.pending = FALSE]
HandelDrop(sp, e) ==
  [SetIps(sp, e) EXCEPT !.drop = <<e>>, !.boundary_types = @ \cup {e.boundary},
                        !.pending = FALSE]
AddToSpan(sp, e) ==
  CASE IsType(e, "kNetworkEnqueueT") -> HandelEnqueue(sp, e)
    [] IsType(e, "kNetworkDequeueT") -> HandelDequeue(sp, e)
    [] IsType(e, "kNetworkDropT")    -> HandelDrop(sp, e)
================================================================================
