------------------------------ MODULE EventDisplay ------------------------------
(***************************************************************************)
(* Display of source/events/events.cc, and the stream an EventPrinter      *)
(* writes to (include/events/printer.h).                                   *)
(*                                                                         *)
(* std::hex and std::dec stay in force in a stream until the next of them, *)
(* beyond the end of a line.  So what Display gives is a sequence of       *)
(* outputs, and what they look like depends on the base the stream is in.  *)
(***************************************************************************)
EXTENDS Events, LineHandler

Text(token) == [kind |-> "text", value |-> <<token>>]  \* out << "..."
Name(parts) == [kind |-> "text", value |-> parts]
Plain(n)    == [kind |-> "plain", value |-> n]         \* out << n
Hex(n)      == [kind |-> "hex", value |-> n]           \* out << std::hex << n
Dec(n)      == [kind |-> "dec", value |-> n]           \* out << std::to_string(n)
Hex2(n)     == [kind |-> "hex2", value |-> n]          \* the same as Hex, two digits
SetDec      == [kind |-> "set dec", value |-> 0]       \* out << std::dec
YesNo(b)    == Text(IF b THEN "true" ELSE "false")     \* BoolToString

DigitsIn(n, base) ==
  LET of[m \in 0 .. n] ==
        IF m < base THEN <<Digits[m + 1]>>
        ELSE Append(of[m \div base], Digits[(m % base) + 1])
  IN  of[n]

(* One output on a stream with a text and a base.                          *)
TextOf(o, base) ==
  CASE o.kind = "text"    -> o.value
    [] o.kind = "set dec" -> <<>>
    [] o.kind = "dec"     -> DigitsIn(o.value, 10)
    [] o.kind = "hex"     -> DigitsIn(o.value, 16)
    [] o.kind = "hex2"    -> (IF o.value < 16 THEN <<"0">> ELSE <<>>) \o DigitsIn(o.value, 16)
    [] o.kind = "plain"   -> DigitsIn(o.value, base)
BaseAfter(o, base) ==
  IF o.kind \in {"hex", "hex2"} THEN 16 ELSE IF o.kind = "set dec" THEN 10 ELSE base
OutDecimal(stream, o) ==
  [text |-> stream.text \o TextOf(o, 10), base |-> BaseAfter(o, stream.base)]
Out(stream, o) ==
  [text |-> stream.text \o TextOf(o, stream.base), base |-> BaseAfter(o, stream.base)]

EventDisplay(e) ==
  <<Text(e.name), Text(": source_id="), Plain(e.ident),
    Text(", source_name="), Name(e.pname), Text(", timestamp="), Dec(e.ts)>>

HostInstrDisplay(e) == EventDisplay(e) \o <<Text(", pc="), Hex(e.pc)>>
HostCallDisplay(e) ==
  HostInstrDisplay(e) \o <<Text(", func="), Name(e.func), Text(", comp="), Name(e.comp)>>
HostIdOpDisplay(e) == EventDisplay(e) \o <<Text(", id="), Dec(e.id)>>
HostAddrSizeOpDisplay(e) ==
  HostIdOpDisplay(e) \o <<Text(", addr="), Hex(e.addr), Text(", size="), Plain(e.size)>>
HostMmioOpDisplay(e) ==
  HostAddrSizeOpDisplay(e)
    \o <<Text(", bar="), Plain(e.bar), Text(", offset="), Hex(e.offset)>>
HostMmioWDisplay(e) == HostMmioOpDisplay(e) \o <<Text(", posted="), YesNo(e.posted)>>
HostMsiXDisplay(e) == EventDisplay(e) \o <<Text(", vec="), Dec(e.vec)>>
HostConfDisplay(e) ==
  EventDisplay(e)
    \o <<Text(", dev="), Hex(e.dev), Text(", func="), Hex(e.func), Text(", reg="), Hex(e.reg),
         Text(", bytes="), Plain(e.bytes), Text(", data="), Hex(e.data)>>
HostPciRWDisplay(e) ==
  EventDisplay(e) \o <<Text(", offset="), Hex(e.offset), Text(", size="), Plain(e.size)>>
NicMsixDisplay(e) == EventDisplay(e) \o <<Text(", vec="), Dec(e.vec)>>
NicDmaDisplay(e) ==
  EventDisplay(e)
    \o <<Text(", id="), Dec(e.id), Text(", addr="), Hex(e.addr), Text(", size="), Plain(e.len)>>
SetIXDisplay(e) == EventDisplay(e) \o <<Text(", interrupt="), Hex(e.intr)>>
NicMmioDisplay(e) ==
  EventDisplay(e)
    \o <<Text(", off="), Hex(e.off), Text(", len="), Plain(e.len), Text(", val="), Hex(e.val)>>
NicMmioWDisplay(e) == NicMmioDisplay(e) \o <<Text(", posted="), YesNo(e.posted)>>
NicTrxDisplay(e) ==
  EventDisplay(e) \o <<Text(", len="), Plain(e.len), Text(", is_read="), YesNo(e.is_read)>>
NicRxDisplay(e) == NicTrxDisplay(e) \o <<Text(", port="), Dec(e.port)>>

MacAddressDisplay(mac) ==
  [i \in 1 .. 2 * kMacSize - 1 |->
     IF i % 2 = 1 THEN Hex2(mac[(i + 1) \div 2]) ELSE Text(":")] \o <<SetDec>>
Ipv4Display(ip) ==
  <<Dec(ip[1]), Text("."), Dec(ip[2]), Text("."), Dec(ip[3]), Text("."), Dec(ip[4])>>
EthernetHeaderDisplay(h) ==
  <<Text("EthernetHeader"), Text("("), Text("length/type=0x"), Hex(h.length_type),
    Text(", "), Text("source=")>> \o MacAddressDisplay(h.src_mac)
    \o <<Text(", "), Text("destination=")>> \o MacAddressDisplay(h.dst_mac) \o <<Text(")")>>
ArpHeaderDisplay(h) ==
  <<Text("ns3::ArpHeader"), Text("("), Text(IF h.is_request THEN "request" ELSE "reply"),
    Text(" source ipv4: ")>> \o Ipv4Display(h.src_ip)
    \o <<Text(" dest ipv4: ")>> \o Ipv4Display(h.dst_ip) \o <<Text(")")>>
Ipv4HeaderDisplay(h) ==
  <<Text("Ipv4Header"), Text("("), Text("length: "), Plain(h.length), Text(" ")>>
    \o Ipv4Display(h.src_ip) \o <<Text(" "), Text(">"), Text(" ")>>
    \o Ipv4Display(h.dst_ip) \o <<Text(")")>>
DeviceTypeText(type) ==
  Text(IF type = "kCosimNetDevice" THEN "ns3::CosimNetDevice" ELSE "ns3::SimpleNetDevice")
BoundaryText(boundary) == Text(boundary)
NetworkEventDisplay(e) ==
  EventDisplay(e)
    \o <<Text(", node="), Dec(e.node), Text(", device="), Dec(e.device),
         Text(", device_name="), DeviceTypeText(e.device_type),
         Text(", "), Text("packet-uid="), Dec(e.packet_uid),
         Text(", "), Text("interesting="), YesNo(e.interesting),
         Text(", payload_size="), Dec(e.payload_size),
         Text(", boundary_type="), BoundaryText(e.boundary)>>
    \o (IF e.ethernet_header = <<>> THEN <<>>
        ELSE <<Text(", ")>> \o EthernetHeaderDisplay(e.ethernet_header[1]))
    \o (IF e.arp_header = <<>> THEN <<>>
        ELSE <<Text(", ")>> \o ArpHeaderDisplay(e.arp_header[1]))
    \o (IF e.ip_header = <<>> THEN <<>>
        ELSE <<Text(", ")>> \o Ipv4HeaderDisplay(e.ip_header[1]))

(* The virtual call event->Display(out).                                   *)
Display(e) ==
  CASE e.type = "kHostInstrT"                    -> HostInstrDisplay(e)
    [] e.type = "kHostCallT"                     -> HostCallDisplay(e)
    [] e.type = "kHostMmioWT"                    -> HostMmioWDisplay(e)
    [] e.type = "kHostMmioRT"                    -> HostMmioOpDisplay(e)
    [] e.type \in HostAddrSizeOps \ HostMmioOps  -> HostAddrSizeOpDisplay(e)
    [] e.type \in HostIdOps \ HostAddrSizeOps    -> HostIdOpDisplay(e)
    [] e.type = "kHostMsiXT"                     -> HostMsiXDisplay(e)
    [] e.type = "kHostConfT"                     -> HostConfDisplay(e)
    [] e.type = "kHostPciRWT"                    -> HostPciRWDisplay(e)
    [] e.type = "kNicMsixT"                      -> NicMsixDisplay(e)
    [] e.type \in NicDmas                        -> NicDmaDisplay(e)
    [] e.type = "kSetIXT"                        -> SetIXDisplay(e)
    [] e.type = "kNicMmioWT"                     -> NicMmioWDisplay(e)
    [] e.type = "kNicMmioRT"                     -> NicMmioDisplay(e)
    [] e.type = "kNicRxT"                        -> NicRxDisplay(e)
    [] e.type = "kNicTxT"                        -> NicTrxDisplay(e)
    [] e.type \in NetworkEvents                  -> NetworkEventDisplay(e)
    [] OTHER                                     -> EventDisplay(e)

(* print: the line of an event on a stream in a base, and the base it      *)
(* leaves behind.                                                          *)
print(e, base) == FoldLeft(Out, [text |-> <<>>, base |-> base], Display(e))
================================================================================
