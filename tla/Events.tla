--------------------------------- MODULE Events ---------------------------------
(***************************************************************************)
(* The events of include/events/events.h: what the constructor of each     *)
(* class stores, and Equal of source/events/events.cc.                     *)
(*                                                                         *)
(* An event is a record.  A constructor takes the source s of an event,    *)
(* [ts, ident, pname]: the time stamp, and number and name of the parser.  *)
(* A class that others derive from takes type and name as well.  The name  *)
(* of a parser, a function or a component is the sequence of its words and *)
(* marks; an optional value is a sequence of at most one value.            *)
(***************************************************************************)
EXTENDS Naturals, Sequences, TLC

Source(ts, ident, pname) == [ts |-> ts, ident |-> ident, pname |-> pname]

Event(s, type, name) == s @@ [type |-> type, name |-> name]

SimSendSync(s) == Event(s, "kSimSendSyncT", "SimSendSyncSimSendSync")
SimProcInEvent(s) == Event(s, "kSimProcInEventT", "SimProcInEvent")

(* The events of a host.                                                   *)
HostInstrOf(s, type, name, pc) == Event(s, type, name) @@ [pc |-> pc]
HostInstr(s, pc) == HostInstrOf(s, "kHostInstrT", "HostInstr", pc)
HostCall(s, pc, func, comp) ==
  HostInstrOf(s, "kHostCallT", "HostCall", pc) @@ [func |-> func, comp |-> comp]
HostMmioImRespPoW(s) == Event(s, "kHostMmioImRespPoWT", "HostMmioImRespPoW")
HostIdOp(s, type, name, id) == Event(s, type, name) @@ [id |-> id]
HostMmioCR(s, id) == HostIdOp(s, "kHostMmioCRT", "HostMmioCR", id)
HostMmioCW(s, id) == HostIdOp(s, "kHostMmioCWT", "HostMmioCW", id)
HostAddrSizeOp(s, type, name, id, addr, size) ==
  HostIdOp(s, type, name, id) @@ [addr |-> addr, size |-> size]
HostMmioOp(s, type, name, id, addr, size, bar, offset) ==
  HostAddrSizeOp(s, type, name, id, addr, size) @@ [bar |-> bar, offset |-> offset]
HostMmioR(s, id, addr, size, bar, offset) ==
  HostMmioOp(s, "kHostMmioRT", "HostMmioR", id, addr, size, bar, offset)
HostMmioW(s, id, addr, size, bar, offset, posted) ==
  HostMmioOp(s, "kHostMmioWT", "HostMmioW", id, addr, size, bar, offset)
    @@ [posted |-> posted]
HostDmaC(s, id) == HostIdOp(s, "kHostDmaCT", "HostDmaC", id)
HostDmaR(s, id, addr, size) == HostAddrSizeOp(s, "kHostDmaRT", "HostDmaR", id, addr, size)
HostDmaW(s, id, addr, size) == HostAddrSizeOp(s, "kHostDmaWT", "HostDmaW", id, addr, size)
HostMsiX(s, vec) == Event(s, "kHostMsiXT", "HostMsiX") @@ [vec |-> vec]
HostConf(s, dev, func, reg, bytes, data, isRead) ==
  Event(s, "kHostConfT", IF isRead THEN "HostConfRead" ELSE "HostConfWrite")
    @@ [dev |-> dev, func |-> func, reg |-> reg, bytes |-> bytes, data |-> data,
        is_read |-> isRead]
HostClearInt(s) == Event(s, "kHostClearIntT", "HostClearInt")
HostPostInt(s) == Event(s, "kHostPostIntT", "HostPostInt")
HostPciRW(s, offset, size, isRead) ==
  Event(s, "kHostPciRWT", IF isRead THEN "HostPciR" ELSE "HostPciW")
    @@ [offset |-> offset, size |-> size, is_read |-> isRead]

(* The events of a card.                                                   *)
NicMsix(s, vec, isX) ==
  Event(s, "kNicMsixT", IF isX THEN "NicMsix" ELSE "NicMsi")
    @@ [vec |-> vec % 65536, isX |-> isX]
NicDma(s, type, name, id, addr, len) ==
  Event(s, type, name) @@ [id |-> id, addr |-> addr, len |-> len]
SetIX(s, intr) == Event(s, "kSetIXT", "SetIX") @@ [intr |-> intr]
NicDmaI(s, id, addr, len)  == NicDma(s, "kNicDmaIT", "NicDmaI", id, addr, len)
NicDmaEx(s, id, addr, len) == NicDma(s, "kNicDmaExT", "NicDmaEx", id, addr, len)
NicDmaEn(s, id, addr, len) == NicDma(s, "kNicDmaEnT", "NicDmaEn", id, addr, len)
NicDmaCR(s, id, addr, len) == NicDma(s, "kNicDmaCRT", "NicDmaCR", id, addr, len)
NicDmaCW(s, id, addr, len) == NicDma(s, "kNicDmaCWT", "NicDmaCW", id, addr, len)
NicMmio(s, type, name, off, len, val) ==
  Event(s, type, name) @@ [off |-> off, len |-> len, val |-> val]
NicMmioR(s, off, len, val) == NicMmio(s, "kNicMmioRT", "NicMmioR", off, len, val)
NicMmioW(s, off, len, val, posted) ==
  NicMmio(s, "kNicMmioWT", "NicMmioW", off, len, val) @@ [posted |-> posted]
NicTrx(s, type, name, len, isRead) ==
  Event(s, type, name) @@ [len |-> len, is_read |-> isRead]
NicTx(s, len) == NicTrx(s, "kNicTxT", "NicTx", len, FALSE)
NicRx(s, port, len) == NicTrx(s, "kNicRxT", "NicRx", len, TRUE) @@ [port |-> port]

(* The events of the network.  An address is the sequence of its bytes.    *)
kMacSize == 6
EthernetHeader(lengthType, src, dst) ==
  [length_type |-> lengthType, src_mac |-> src, dst_mac |-> dst]
ArpHeader(src, dst, isRequest) == [src_ip |-> src, dst_ip |-> dst, is_request |-> isRequest]
Ipv4Header(length, src, dst) == [length |-> length, src_ip |-> src, dst_ip |-> dst]
NetworkDeviceType == {"kCosimNetDevice", "kSimpleNetDevice"}
EventBoundaryType == {"kWithinSimulator", "kFromAdapter", "kToAdapter"}
NetworkEvent(s, type, name, node, device, dtype, uid, interesting, payload, boundary, eth, arp, ip) ==
  [ts |-> s.ts, ident |-> s.ident, pname |-> s.pname, type |-> type, name |-> name,
   node |-> node, device |-> device, device_type |-> dtype, packet_uid |-> uid,
   interesting |-> interesting, payload_size |-> payload, boundary |-> boundary,
   ethernet_header |-> eth, arp_header |-> arp, ip_header |-> ip]
NetworkEnqueue(s, node, device, dtype, uid, interesting, payload, boundary, eth, arp, ip) ==
  NetworkEvent(s, "kNetworkEnqueueT", "NetworkEnqueue", node, device, dtype, uid, interesting,
               payload, boundary, eth, arp, ip)
NetworkDequeue(s, node, device, dtype, uid, interesting, payload, boundary, eth, arp, ip) ==
  NetworkEvent(s, "kNetworkDequeueT", "NetworkDequeue", node, device, dtype, uid, interesting,
               payload, boundary, eth, arp, ip)
NetworkDrop(s, node, device, dtype, uid, interesting, payload, boundary, eth, arp, ip) ==
  NetworkEvent(s, "kNetworkDropT", "NetworkDrop", node, device, dtype, uid, interesting,
               payload, boundary, eth, arp, ip)
--------------------------------------------------------------------------------
(* What dynamic_cast asks: the types of the classes derived from a class.  *)
HostMmioOps     == {"kHostMmioRT", "kHostMmioWT"}
HostAddrSizeOps == HostMmioOps \cup {"kHostDmaRT", "kHostDmaWT"}
HostIdOps       == HostAddrSizeOps \cup {"kHostMmioCRT", "kHostMmioCWT", "kHostDmaCT"}
NicDmas         == {"kNicDmaIT", "kNicDmaExT", "kNicDmaEnT", "kNicDmaCRT", "kNicDmaCWT"}
NicMmios        == {"kNicMmioRT", "kNicMmioWT"}
NicTrxs         == {"kNicTxT", "kNicRxT"}
NetworkEvents   == {"kNetworkEnqueueT", "kNetworkDequeueT", "kNetworkDropT"}

IsType(e, type) == e.type = type
IsAnyType(e, types) == e.type \in types
Same(e, f, fields) == \A x \in fields : e[x] = f[x]

(* Equal of each class; e is *this, f the other event.                     *)
EventEqual(e, f) == Same(e, f, {"ts", "ident", "pname", "type", "name"})
HostInstrEqual(e, f) == IsType(f, "kHostInstrT") /\ Same(e, f, {"pc"}) /\ EventEqual(e, f)
HostCallEqual(e, f) ==
  IsType(f, "kHostCallT") /\ Same(e, f, {"func", "comp"}) /\ HostInstrEqual(e, f)
HostIdOpEqual(e, f) == IsAnyType(f, HostIdOps) /\ Same(e, f, {"id"}) /\ EventEqual(e, f)
HostAddrSizeOpEqual(e, f) ==
  IsAnyType(f, HostAddrSizeOps) /\ Same(e, f, {"addr", "size"}) /\ HostIdOpEqual(e, f)
HostMmioOpEqual(e, f) ==
  IsAnyType(f, HostMmioOps) /\ Same(e, f, {"bar", "offset"}) /\ HostAddrSizeOpEqual(e, f)
HostMmioWEqual(e, f) ==
  IsType(f, "kHostMmioWT") /\ Same(e, f, {"posted"}) /\ HostMmioOpEqual(e, f)
HostMsiXEqual(e, f) == IsType(f, "kHostMsiXT") /\ Same(e, f, {"vec"}) /\ EventEqual(e, f)
HostConfEqual(e, f) ==
  /\ IsType(f, "kHostConfT")
  /\ Same(e, f, {"dev", "func", "reg", "bytes", "data", "is_read"}) /\ EventEqual(e, f)
HostPciRWEqual(e, f) ==
  IsType(f, "kHostPciRWT") /\ Same(e, f, {"offset", "size", "is_read"}) /\ EventEqual(e, f)
NicMsixEqual(e, f) == IsType(f, "kNicMsixT") /\ Same(e, f, {"vec", "isX"}) /\ EventEqual(e, f)
NicDmaEqual(e, f) ==
  IsAnyType(f, NicDmas) /\ Same(e, f, {"id", "addr", "len"}) /\ EventEqual(e, f)
SetIXEqual(e, f) == IsType(f, "kSetIXT") /\ Same(e, f, {"intr"}) /\ EventEqual(e, f)
NicMmioEqual(e, f) ==
  IsAnyType(f, NicMmios) /\ Same(e, f, {"off", "len", "val"}) /\ EventEqual(e, f)
NicMmioWEqual(e, f) ==
  NicMmioEqual(e, f) /\ IsType(f, "kNicMmioWT") /\ Same(e, f, {"posted"})
NicTrxEqualButLength(e, f) == IsAnyType(f, NicTrxs) /\ Same(e, f, {"is_read"}) /\ EventEqual(e, f)
NicTrxEqual(e, f) ==
  IsAnyType(f, NicTrxs) /\ Same(e, f, {"len", "is_read"}) /\ EventEqual(e, f)
NicRxEqual(e, f) == IsType(f, "kNicRxT") /\ Same(e, f, {"port"}) /\ NicTrxEqual(e, f)
NetworkEventEqual(e, f) ==
  /\ IsAnyType(f, NetworkEvents)
  /\ Same(e, f, {"ethernet_header", "arp_header", "ip_header"})
  /\ Same(e, f, {"node", "device", "payload_size", "device_type", "boundary", "packet_uid",
                 "interesting"})
  /\ EventEqual(e, f)
NetworkKindEqual(e, f) == IsType(f, e.type) /\ NetworkEventEqual(e, f)

(* The virtual call e->Equal(f).                                           *)
Equal(e, f) ==
  CASE e.type = "kHostInstrT"          -> HostInstrEqual(e, f)
    [] e.type = "kHostCallT"           -> HostCallEqual(e, f)
    [] e.type = "kHostMmioWT"          -> HostMmioWEqual(e, f)
    [] e.type = "kHostMmioRT"          -> HostMmioOpEqual(e, f)
    [] e.type \in HostAddrSizeOps \ HostMmioOps   -> HostAddrSizeOpEqual(e, f)
    [] e.type \in HostIdOps \ HostAddrSizeOps     -> HostIdOpEqual(e, f)
    [] e.type = "kHostMsiXT"           -> HostMsiXEqual(e, f)
    [] e.type = "kHostConfT"           -> HostConfEqual(e, f)
    [] e.type = "kHostPciRWT"          -> HostPciRWEqual(e, f)
    [] e.type = "kNicMsixT"            -> NicMsixEqual(e, f)
    [] e.type \in NicDmas              -> NicDmaEqual(e, f)
    [] e.type = "kSetIXT"              -> SetIXEqual(e, f)
    [] e.type = "kNicMmioWT"           -> NicMmioWEqual(e, f)
    [] e.type = "kNicMmioRT"           -> NicMmioEqual(e, f)
    [] e.type = "kNicRxT"              -> NicRxEqual(e, f)
    [] e.type = "kNicTxT"              -> NicTrxEqual(e, f)
    [] e.type \in NetworkEvents        -> NetworkKindEqual(e, f)
    [] OTHER                           -> EventEqual(e, f)
================================================================================
