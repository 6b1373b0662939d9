----------------------------- MODULE NetworkSpanner -----------------------------
(***************************************************************************)
(* The spanner of the network, source/analytics/networkSpanner.cpp, with   *)
(* the channels of contexts between it and the network cards as trace.cc   *)
(* wires them.                                                             *)
(*                                                                         *)
(* As in Spanner a handler is one step, enabled when the context it waits  *)
(* for is there.                                                           *)
(***************************************************************************)
EXTENDS NetDeviceSpan, EventFilter, FiniteSets

VARIABLES
  log,          \* the events of the network that are not consumed yet
  spans,        \* the spans started, each with its parent
  active,       \* current_active_device_spans_
  last,         \* last_finished_device_span_; at most one
  finished,     \* the spans given to MarkSpanAsDone
  from_host,    \* the channels of contexts from the cards, and
  to_host,      \* to them
  terminated    \* an exception ended the program

spanner == <<log, spans, active, last, finished, from_host, to_host, terminated>>

Cards == {"nic_s", "nic_c"}
host_channels ==   \* from_host_map and to_host_map, by node and device
  [d \in {<<0, 2>>, <<1, 2>>, <<0, 3>>, <<1, 3>>} |->
     CASE d = <<0, 2>> -> "nic_s" [] d = <<1, 2>> -> "nic_c" [] OTHER -> "sink"]
node_device_filter == {<<0, 2>>, <<1, 2>>, <<0, 1>>, <<1, 1>>}

InitSpanner ==
  /\ log = <<>>
  /\ spans = <<>> /\ active = <<>> /\ last = <<>> /\ finished = {}
  /\ from_host = [c \in Cards |-> <<>>] /\ to_host = [c \in Cards |-> <<>>]
  /\ terminated = FALSE

HasValidChannel(e) == <<e.node, e.device>> \in DOMAIN host_channels
GetValidChannel(e) == host_channels[<<e.node, e.device>>]

Context(parent) == [parent |-> parent, expectation |-> "kRx"]
OfNetwork(i) == <<"network", i>>    \* the id of a span
NextSpan == Len(spans) + 1

(* The event that is handled.                                              *)
Next_ == Head(log)
Consume == ~terminated /\ log # <<>> /\ log' = Tail(log)

(* iterate_add_erase: the first active span that takes the event.          *)
Taking(e) == {i \in DOMAIN active : CanAdd(spans[active[i]], e)}
First(indices) == CHOOSE i \in indices : \A j \in indices : i <= j
WithoutActive(i) == SubSeq(active, 1, i - 1) \o SubSeq(active, i + 1, Len(active))

IsFiltered(e)   == e.interesting /\ IsNotInterestingNodeDevice(node_device_filter, e)
IsUnmatched(e)  == ~IsFiltered(e) /\ Taking(e) = {}
IsStart(e)      == IsUnmatched(e) /\ IsType(e, "kNetworkEnqueueT")
StartsTrace(e)  == /\ IsStart(e) /\ ~e.interesting
                   /\ IsInterestingNodeDevice(node_device_filter, e)
                   /\ e.device_type = "kCosimNetDevice"
IsFromAdapter(e) == IsStart(e) /\ e.interesting /\ e.boundary = "kFromAdapter"
IsWithin(e)      == IsStart(e) /\ e.interesting /\ e.boundary # "kFromAdapter"
--------------------------------------------------------------------------------
(* HandelNetworkEvent.  A packet of interest in a device that is not.      *)
FilterDevice ==
  /\ Consume /\ IsFiltered(Next_)
  /\ UNCHANGED <<spans, active, last, finished, from_host, to_host, terminated>>

(* The end of a span.  A packet that leaves for a card has its context     *)
(* sent there.                                                             *)
EndedSpan(e) == AddToSpan(spans[active[First(Taking(e))]], e)
(* Mutant: also one that is dropped there.                                 *)
LeavesForCardOrDrops(sp) == "kToAdapter" \in sp.boundary_types
LeavesForCard(sp) == "kToAdapter" \in sp.boundary_types /\ ~IsDrop(sp)

Ended == active[First(Taking(Next_))]
FinishSpan ==
  LET e == Next_
      sp == EndedSpan(e)
      pushed(c) == IF LeavesForCard(sp) /\ c = GetValidChannel(e)   \* to the sink: is gone
                   THEN <<Context(OfNetwork(Ended))>> ELSE <<>>
  IN /\ Consume /\ ~IsFiltered(e) /\ Taking(e) # {}
     /\ LeavesForCard(sp) => HasIpsSet(sp) /\ HasValidChannel(e)
     /\ spans' = [spans EXCEPT ![Ended] = sp]
     /\ active' = WithoutActive(First(Taking(e)))
     /\ to_host' = [c \in Cards |-> to_host[c] \o pushed(c)]
     /\ finished' = finished \cup {Ended}
     /\ UNCHANGED <<from_host, terminated>>

(* Mutant: the span that is remembered is replaced only by one that leaves *)
(* for a card.                                                             *)
EndSpanOfDelivered ==
  FinishSpan /\ last' = IF last = <<>> \/ LeavesForCard(EndedSpan(Next_)) THEN <<Ended>> ELSE last
EndSpan == FinishSpan /\ last' = <<Ended>>

(* A dequeue or a drop of a packet that has no span in the device.         *)
IgnoreEnd ==
  /\ Consume /\ IsUnmatched(Next_) /\ ~IsType(Next_, "kNetworkEnqueueT")
  /\ UNCHANGED <<spans, active, last, finished, from_host, to_host, terminated>>

StartDeviceSpan(parent, e) ==
  /\ spans' = Append(spans, AddToSpan(NetDeviceSpan(parent), e))
  /\ active' = Append(active, NextSpan)

(* Mutant: the card is expected to give a context for it.                  *)
StartTraceFromAdapter ==
  LET e == Next_
      from == GetValidChannel(e)
  IN /\ Consume /\ StartsTrace(e)
     /\ HasValidChannel(e) /\ from \in Cards
     /\ from_host[from] # <<>>
     /\ from_host' = [from_host EXCEPT ![from] = Tail(@)]
     /\ StartDeviceSpan(<<>>, e)
     /\ UNCHANGED <<last, finished, to_host, terminated>>

(* A packet that is not of interest begins a trace of its own in front of  *)
(* a card, whose spanner will want a context for it.                       *)
StartTrace ==
  /\ Consume /\ StartsTrace(Next_)
  /\ StartDeviceSpan(<<>>, Next_)
  /\ UNCHANGED <<last, finished, from_host, to_host, terminated>>

IgnoreUninteresting ==
  /\ Consume /\ IsStart(Next_) /\ ~Next_.interesting /\ ~StartsTrace(Next_)
  /\ UNCHANGED <<spans, active, last, finished, from_host, to_host, terminated>>

(* From a card: the card's spanner gives the context.                      *)
StartFromAdapter ==
  LET e == Next_
      from == GetValidChannel(e)
  IN /\ Consume /\ IsFromAdapter(e)
     /\ e.device_type = "kCosimNetDevice"
     /\ HasValidChannel(e) /\ from \in Cards
     /\ from_host[from] # <<>>
     /\ Head(from_host[from]).expectation = "kRx"
     /\ from_host' = [from_host EXCEPT ![from] = Tail(@)]
     /\ StartDeviceSpan(Head(from_host[from]).parent, e)
     /\ UNCHANGED <<last, finished, to_host, terminated>>

(* From another device: the span that ended last is the parent.            *)
StartWithin ==
  /\ Consume /\ IsWithin(Next_)
  /\ last # <<>>
  /\ StartDeviceSpan(OfNetwork(last[1]), Next_)
  /\ UNCHANGED <<last, finished, from_host, to_host, terminated>>

(* What is asserted or checked and fails.                                  *)
CannotDeliver(e) ==
  ~IsFiltered(e) /\ Taking(e) # {} /\ LeavesForCard(EndedSpan(e))
    /\ (~HasIpsSet(EndedSpan(e)) \/ ~HasValidChannel(e))
CannotConnect(e) ==
  \/ IsFromAdapter(e) /\ (e.device_type # "kCosimNetDevice" \/ ~HasValidChannel(e))
  \/ IsWithin(e) /\ last = <<>>
Throws ==
  /\ ~terminated /\ log # <<>>
  /\ CannotDeliver(Next_) \/ CannotConnect(Next_)
  /\ terminated' = TRUE
  /\ UNCHANGED <<log, spans, active, last, finished, from_host, to_host>>

HandelNetworkEvent ==
  \/ FilterDevice \/ EndSpan \/ IgnoreEnd
  \/ StartTrace \/ IgnoreUninteresting \/ StartFromAdapter \/ StartWithin
  \/ Throws
================================================================================
