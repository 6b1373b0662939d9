--------------------------- MODULE EventStreamParser ---------------------------
(***************************************************************************)
(* EventStreamParser (include/parser/eventStreamParser.h and               *)
(* source/parser/event-stream.cpp), which reads back the lines that an     *)
(* EventPrinter wrote.                                                     *)
(***************************************************************************)
EXTENDS LogParser

DeviceTypes ==
  "ns3::CosimNetDevice" :> "kCosimNetDevice" @@ "ns3::SimpleNetDevice" :> "kSimpleNetDevice"

(* What the predicates of the extractions let through.                     *)
SourceName  == Words \cup {"-"}
DeviceName  == Words \cup DOMAIN DeviceTypes

ParseIdentNameTs ==
  <<Lit(": source_id="), Uint(10, "ident"), Lit(", source_name="), Word(SourceName, "pname"),
    Lit(", timestamp="), Uint(10, "ts")>>

NetworkSteps ==
  <<Lit(", node="), Signed("node"), Lit(", device="), Signed("device"),
    Lit(", device_name="), Word(DeviceName, "device_name"),
    Till("packet-uid="), Uint(10, "uid"), Till("interesting="), Bool("interesting"),
    Lit(", payload_size="), Uint(10, "payload"), Lit(", boundary_type="), Word(Words, "boundary_name")>>
KnownNames(h) ==
  /\ h.ok
  /\ h.got.device_name[1] \in DOMAIN DeviceTypes
  /\ h.got.boundary_name[1] \in EventBoundaryType
NamedNetworkEvent(s, type, g) ==
  NetworkEventOf(s, type, g @@ [device_type |-> DeviceTypes[g.device_name[1]],
                                boundary |-> g.boundary_name[1]])
WithHeaders(h, s, type) ==
  IF ~KnownNames(h) THEN NoEvent
  ELSE When(TryParseHeaders(h), LAMBDA g : NamedNetworkEvent(s, type, g))
ParseNetworkEvent(h, s, type) == WithHeaders(Parse(h, NetworkSteps), s, type)
NetworkTypes ==
  "NetworkEnqueue" :> "kNetworkEnqueueT" @@ "NetworkDequeue" :> "kNetworkDequeueT"
    @@ "NetworkDrop" :> "kNetworkDropT"

(* The values of the events that share a branch of ParseEvent.             *)
PcSteps   == <<Lit(", pc="), Uint(16, "pc")>>
CallSteps == PcSteps \o <<Lit(", func="), Word(AlnumDotBar, "func"), Lit(", comp="), Word(AlnumDotBar, "comp")>>
IdSteps   == <<Lit(", id="), Uint(10, "id")>>
AddrSteps == IdSteps \o <<Lit(", addr="), Uint(16, "addr"), Lit(", size="), Uint(16, "size")>>
MmioSteps == AddrSteps \o <<Lit(", bar="), Signed("bar"), Lit(", offset="), Uint(16, "offset")>>
ConfSteps ==
  <<Lit(", dev="), Uint(16, "dev"), Lit(", func="), Uint(16, "func"), Lit(", reg="), Uint(16, "reg"),
    Lit(", bytes="), Uint(10, "bytes"), Lit(", data="), Uint(16, "data")>>
PciSteps  == <<Lit(", offset="), Uint(16, "offset"), Lit(", size="), Uint(10, "size")>>
VecSteps  == <<Lit(", vec="), Uint(10, "vec")>>
IntrSteps == <<Lit(", interrupt="), Uint(16, "intr")>>
NicMmioSteps ==
  <<Lit(", off="), Uint(16, "off"), Lit(", len="), Uint(16, "len"), Lit(", val="), Uint(16, "val")>>
TxSteps   == <<Lit(", len="), Uint(16, "len")>>
RxSteps   == TxSteps \o <<Lit(", is_read="), Lit("true"), Lit(", port="), Signed("port")>>
Posted    == <<Lit(", posted="), Bool("posted")>>

(* NicRx is made with the length for the port and, for the length, addr,   *)
(* which is 0.                                                             *)
NicRxOf(s, g) == NicRx(s, ToInt(g.len), 0)

(* Names and values of the events of a host and of a card, and the event   *)
(* made of them.                                                           *)
HostSteps(name) ==
  CASE name = "HostInstr"                                -> PcSteps
    [] name = "HostCall"                                 -> CallSteps
    [] name \in {"HostMmioImRespPoW", "HostClearInt", "HostPostInt"} -> <<>>
    [] name \in {"HostMmioCR", "HostMmioCW", "HostDmaC"} -> IdSteps
    [] name = "HostMmioR"                                -> MmioSteps
    [] name = "HostMmioW"                                -> MmioSteps \o Posted
    [] name \in {"HostDmaR", "HostDmaW"}                 -> AddrSteps
    [] name = "HostMsiX"                                 -> VecSteps
    [] name \in {"HostConfRead", "HostConfWrite"}        -> ConfSteps
    [] name \in {"HostPciR", "HostPciW"}                 -> PciSteps
HostEvent(name, s, g) ==
  CASE name = "HostInstr"         -> HostInstr(s, g.pc)
    [] name = "HostCall"          -> HostCall(s, g.pc, g.func, g.comp)
    [] name = "HostMmioImRespPoW" -> HostMmioImRespPoW(s)
    [] name = "HostMmioCR"        -> HostMmioCR(s, g.id)
    [] name = "HostMmioCW"        -> HostMmioCW(s, g.id)
    [] name = "HostDmaC"          -> HostDmaC(s, g.id)
    [] name = "HostMmioR"         -> HostMmioR(s, g.id, g.addr, g.size, g.bar, g.offset)
    [] name = "HostMmioW"         -> HostMmioW(s, g.id, g.addr, g.size, g.bar, g.offset, g.posted)
    [] name = "HostDmaR"          -> HostDmaR(s, g.id, g.addr, g.size)
    [] name = "HostDmaW"          -> HostDmaW(s, g.id, g.addr, g.size)
    [] name = "HostMsiX"          -> HostMsiX(s, g.vec)
    [] name \in {"HostConfRead", "HostConfWrite"} ->
         HostConf(s, g.dev, g.func, g.reg, g.bytes, g.data, name = "HostConfRead")
    [] name = "HostClearInt"      -> HostClearInt(s)
    [] name = "HostPostInt"       -> HostPostInt(s)
    [] name \in {"HostPciR", "HostPciW"} -> HostPciRW(s, g.offset, g.size, name = "HostPciR")
HostNames ==
  {"HostInstr", "HostCall", "HostMmioImRespPoW", "HostMmioCR", "HostMmioCW", "HostDmaC",
   "HostMmioR", "HostMmioW", "HostDmaR", "HostDmaW", "HostMsiX", "HostConfRead",
   "HostConfWrite", "HostClearInt", "HostPostInt", "HostPciR", "HostPciW"}

NicSteps(name) ==
  CASE name \in {"NicMsix", "NicMsi"} -> VecSteps
    [] name = "SetIX"                 -> IntrSteps
    [] name = "NicMmioR"              -> NicMmioSteps
    [] name = "NicMmioW"              -> NicMmioSteps \o Posted
    [] name = "NicTx"                 -> TxSteps
    [] name = "NicRx"                 -> RxSteps
    [] OTHER                          -> AddrSteps
NicEvent(name, s, g) ==
  CASE name \in {"NicMsix", "NicMsi"} -> NicMsix(s, g.vec, name = "NicMsix")
    [] name = "SetIX"    -> SetIX(s, g.intr)
    [] name = "NicDmaI"  -> NicDmaI(s, g.id, g.addr, g.size)
    [] name = "NicDmaEx" -> NicDmaEx(s, g.id, g.addr, g.size)
    [] name = "NicDmaEn" -> NicDmaEn(s, g.id, g.addr, g.size)
    [] name = "NicDmaCW" -> NicDmaCW(s, g.id, g.addr, g.size)
    [] name = "NicDmaCR" -> NicDmaCR(s, g.id, g.addr, g.size)
    [] name = "NicMmioR" -> NicMmioR(s, g.off, g.len, g.val)
    [] name = "NicMmioW" -> NicMmioW(s, g.off, g.len, g.val, g.posted)
    [] name = "NicTx"    -> NicTx(s, g.len)
    [] name = "NicRx"    -> NicRxOf(s, g)
NicNames ==
  {"NicMsix", "NicMsi", "SetIX", "NicDmaI", "NicDmaEx", "NicDmaEn", "NicDmaCW", "NicDmaCR",
   "NicMmioR", "NicMmioW", "NicTx", "NicRx"}

(* ParseEvent: the name, up to the colon, decides.                         *)
EventOf(name, s, h) ==
  CASE name = "SimSendSyncSimSendSync" -> <<SimSendSync(s)>>
    [] name = "SimProcInEvent"         -> <<SimProcInEvent(s)>>
    [] name \in DOMAIN NetworkTypes    -> ParseNetworkEvent(h, s, NetworkTypes[name])
    [] name \in HostNames -> When(Parse(h, HostSteps(name)), LAMBDA g : HostEvent(name, s, g))
    [] name \in NicNames  -> When(Parse(h, NicSteps(name)), LAMBDA g : NicEvent(name, s, g))
    [] OTHER -> NoEvent
OfSource(h) ==
  IF ~h.ok THEN NoEvent
  ELSE EventOf(h.got.name[1], Source(h.got.ts, h.got.ident, h.got.pname), h)
EventStreamParseEvent(line) ==
  OfSource(Parse(Reset(line), <<Trim, Word(ToSet(line) \ {": source_id="}, "name")>> \o ParseIdentNameTs))
================================================================================
