------------------------------- MODULE LogParser -------------------------------
(***************************************************************************)
(* What the log parsers share (source/parser/parser.cc): the time stamp,   *)
(* addresses, and the headers of a packet.                                 *)
(*                                                                         *)
(* A parser turns a handler into an event or nothing: a sequence of at     *)
(* most one event.  An alternative that fails leaves behind what it        *)
(* consumed; the next one goes on from there (Resume).                     *)
(***************************************************************************)
EXTENDS Events, LineHandler



(* What the predicates of string_util.h let through, as tokens.            *)
AlnumDotBar == Words \cup {".", "_"}

Resume(h) == [h EXCEPT !.ok = TRUE]
NoEvent == <<>>
When(h, Of(_)) == IF h.ok THEN <<Of(h.got)>> ELSE NoEvent
Either(h, Of(_), Otherwise(_)) == IF h.ok THEN <<Of(h.got)>> ELSE Otherwise(Resume(h))

(* Steps: a time stamp, an address, the bytes of a MAC address, which are  *)
(* cast to unsigned char, and the octets of an IP address, which are       *)
(* checked.                                                                *)
ParseTimestamp == <<Trim, Uint(10, "ts")>>
ParseAddress(name) == Uint(16, name)
ParseMacAddress(name) ==
  <<Trim>> \o [i \in 1 .. 2 * kMacSize - 1 |->
                 IF i % 2 = 1 THEN NextUint(16, MaxULong, name) ELSE Lit(":")]
ParseIpAddress(name) ==
  [i \in 1 .. 7 |-> IF i % 2 = 1 THEN NextUint(10, 255, name) ELSE Lit(".")]
Cast(bytes) == [i \in DOMAIN bytes |-> bytes[i] % 256]

(* A header that is there, or nullopt; either way parsing goes on from     *)
(* where it got to.                                                        *)
Optional(h, name, Of(_)) == Resume(Got(h, name, When(h, Of)))

TryParseEthernetHeader(h) ==
  Optional(Parse(h, <<Trim, Till("EthernetHeader"), Till("length/type=0x"), Uint(16, "length_type"),
                      Till("source=")>> \o ParseMacAddress("eth_src")
                      \o <<Till("destination=")>> \o ParseMacAddress("eth_dst")),
           "eth", LAMBDA g : EthernetHeader(g.length_type, Cast(g.eth_src), Cast(g.eth_dst)))

TryParseArpHeader(h) ==
  Optional(Parse(h, <<Trim, Till("ns3::ArpHeader"), OneTill(<<"request", "reply">>, "operation"),
                      Till(" source ipv4: ")>> \o ParseIpAddress("arp_src")
                      \o <<Till(" dest ipv4: ")>> \o ParseIpAddress("arp_dst")),
           "arp", LAMBDA g : ArpHeader(g.arp_src, g.arp_dst, g.operation = "request"))

TryParseIpHeader(h) ==
  Optional(Parse(h, <<Trim, Till("Ipv4Header"), Till("length: "), Uint(10, "length"), Trim>>
                      \o ParseIpAddress("ip_src") \o <<Trim, Lit(">"), Trim>> \o ParseIpAddress("ip_dst")),
           "ip", LAMBDA g : Ipv4Header(g.length, g.ip_src, g.ip_dst))

(* The three headers, as they come in a line.                              *)
TryParseHeaders(h) == TryParseIpHeader(TryParseArpHeader(TryParseEthernetHeader(h)))

(* The event of one of the three types.                                    *)
NetworkEventOf(s, type, g) ==
  CASE type = "kNetworkEnqueueT" ->
         NetworkEnqueue(s, g.node, g.device, g.device_type, g.uid, g.interesting, g.payload,
                        g.boundary, g.eth, g.arp, g.ip)
    [] type = "kNetworkDequeueT" ->
         NetworkDequeue(s, g.node, g.device, g.device_type, g.uid, g.interesting, g.payload,
                        g.boundary, g.eth, g.arp, g.ip)
    [] type = "kNetworkDropT" ->
         NetworkDrop(s, g.node, g.device, g.device_type, g.uid, g.interesting, g.payload,
                     g.boundary, g.eth, g.arp, g.ip)
================================================================================
