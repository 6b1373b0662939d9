-------------------------------- MODULE MCNetwork --------------------------------
(* The network of tests/ns3-parser-test.cpp: switches 1.1 and 0.1, a client   *)
(* behind 1.2, a server behind 0.2, and hosts without a simulator of their    *)
(* own behind 1.3 and 0.3.                                                    *)
EXTENDS Network

Hop(node, device, enq, deq) ==
  [node |-> node, device |-> device, enq |-> enq, deq |-> deq,
   type |-> IF device = 1 THEN "kSimpleNetDevice" ELSE "kCosimNetDevice"]
Enters(node, device) == Hop(node, device, "kFromAdapter", "kWithinSimulator")
Leaves(node, device) == Hop(node, device, "kWithinSimulator", "kToAdapter")
Switch(node) == Hop(node, 1, "kWithinSimulator", "kWithinSimulator")

ToServer == <<Enters(1, 2), Switch(1), Switch(0), Leaves(0, 2)>>
ToClient == <<Enters(0, 2), Switch(0), Switch(1), Leaves(1, 2)>>
Broadcast == <<Enters(1, 2), Switch(1), Leaves(1, 3), Switch(0), Leaves(0, 2), Leaves(0, 3)>>
FromOther == <<Enters(1, 3), Switch(1), Leaves(1, 2), Switch(0), Leaves(0, 2), Leaves(0, 3)>>

Of(header, route, after) ==
  [header |-> header, route |-> route, interesting |-> route # FromOther, after |-> after]

Scenario(packets, filtering, maxDrops) ==
  [packets |-> packets, filtering |-> filtering, drops |-> maxDrops]
OtherPackets == <<Of("arp", FromOther, {}), Of("ip", ToServer, {})>>
(* Two packets one way at a time; packets in turn, one of another protocol *)
(* the last; the request of a host that is not of interest and a packet.   *)
MCScenarios ==
  [ same  |-> Scenario(<<Of("ip", ToServer, {}), Of("ip", ToServer, {})>>, FALSE, 0),
    turns |-> Scenario(<<Of("arp", Broadcast, {}), Of("arp", ToClient, {1}),
                         Of("ip", ToServer, {2}), Of("none", ToClient, {3})>>, FALSE, 2),
    other |-> Scenario(OtherPackets, FALSE, 1),
    otherFiltered |-> Scenario(OtherPackets, TRUE, 1) ]
================================================================================
