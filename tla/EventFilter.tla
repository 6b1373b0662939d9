------------------------------ MODULE EventFilter ------------------------------
(***************************************************************************)
(* The handlers of include/events/event-filter.h, and the devices of the   *)
(* network one is interested in (NodeDeviceFilter of                       *)
(* include/analytics/helper.h).  TRUE: the event goes on in its pipeline.  *)
(***************************************************************************)
EXTENDS Events

EventTypeFilter(e, types_to_filter, inverted) == (e.type \in types_to_filter) # inverted

EventTimestampFilter(e, event_time_boundaries) ==
  \E b \in event_time_boundaries : b[1] <= e.ts /\ e.ts <= b[2]

HostCallFuncFilter(e, list, blacklist) ==
  IsType(e, "kHostCallT") => (e.func \in list) # blacklist

(* A filter is a set of pairs of a node and a device.                      *)
IsInterestingNodeDevice(interesting, e) == <<e.node, e.device>> \in interesting
IsNotInterestingNodeDevice(interesting, e) == ~IsInterestingNodeDevice(interesting, e)

(* The list of types names the dequeue twice and the drop never.           *)
NS3Types == {"kNetworkEnqueueT", "kNetworkDequeueT"}
NS3EventFilter(e, interesting) ==
  IsAnyType(e, NS3Types) =>
    /\ IsInterestingNodeDevice(interesting, e)
    /\ ~e.interesting => e.device_type = "kCosimNetDevice"
================================================================================
