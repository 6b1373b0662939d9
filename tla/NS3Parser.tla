-------------------------------- MODULE NS3Parser --------------------------------
(***************************************************************************)
(* NS3Parser (source/parser/ns3.cpp), for the log of the network.          *)
(***************************************************************************)
EXTENDS LogParser

Types == "+" :> "kNetworkEnqueueT" @@ "-" :> "kNetworkDequeueT" @@ "d" :> "kNetworkDropT"
Adapters == "RxPacketFromAdapter" :> "kFromAdapter" @@ "TxPacketToAdapter" :> "kToAdapter"
Devices == "ns3::SimpleNetDevice" :> "kSimpleNetDevice" @@ "ns3::CosimNetDevice" :> "kCosimNetDevice"

Boundary(g) == IF "adapter" \in DOMAIN g THEN Adapters[g.adapter] ELSE "kWithinSimulator"
DeviceEvent(s, type, g) ==
  NetworkEventOf(s, type, g @@ [device_type |-> Devices[g.device_name], boundary |-> Boundary(g)])
PayloadSize(h) == IF h.ok THEN Step(h, Uint(10, "payload")) ELSE Resume(Got(h, "payload", 0))
OfPacket(h, s, type) ==
  IF ~h.ok THEN NoEvent
  ELSE When(PayloadSize(Step(TryParseHeaders(h), Till("Payload (size="))),
            LAMBDA g : DeviceEvent(s, type, g))
ParseNetDevice(h, s, type) ==
  OfPacket(Parse(Resume(Parse(h, <<Trim, OneTill(<<"RxPacketFromAdapter", "TxPacketToAdapter">>, "adapter")>>)),
                 <<Till("Packet-Uid="), Uint(10, "uid"), Till("Intersting="), Bool("interesting")>>),
           s, type)

OfDevice(h, ident, pname, type) ==
  IF h.ok THEN ParseNetDevice(h, Source(h.got.ts, ident, pname), type) ELSE NoEvent
NS3ParseEvent(line, ident, pname) ==
  IF line = <<>> THEN NoEvent
  ELSE IF line[1] \notin DOMAIN Types THEN NoEvent
  ELSE OfDevice(Parse(Moved(Reset(line), 1),
                      <<Trim>> \o ParseTimestamp
                        \o <<Till("NodeList/"), Signed("node"), Till("DeviceList/"), Signed("device"),
                             OneTill(<<"ns3::SimpleNetDevice", "ns3::CosimNetDevice">>, "device_name")>>),
                ident, pname, Types[line[1]])
================================================================================
