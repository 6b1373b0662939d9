-------------------------------- MODULE EventLog --------------------------------
(***************************************************************************)
(* From the log of a simulator to the stream of its events, and back.      *)
(*                                                                         *)
(* The environment loads its symbol tables; the parser of a simulator      *)
(* turns a line of its log into an event or nothing; the handlers of the   *)
(* pipeline let the event through or not; an EventPrinter writes it to the *)
(* simulator's own stream; EventStreamParser reads the line of that stream *)
(* in a later run of the program (trace.cc).                               *)
(*                                                                         *)
(* What a line of a log means is not in the program: a line is given as    *)
(* [of, line, means], with the simulator that writes it and the event it   *)
(* stands for, or nothing.                                                 *)
(***************************************************************************)
EXTENDS EventDisplay, EventFilter, EventStreamParser, Gem5Parser, NicBmParser, NS3Parser

CONSTANTS
  Simulators,       \* the logs: simulator -> [parser, ident, pname]
  Lines,            \* the lines the simulators write
  Dumps,            \* the symbol tables of the configuration, in their order
  TypesToFilter,    \* configured types of events, and functions,
  BlacklistFunctions, \* that are dropped
  lower, upper      \* --ts-lower-bound and --ts-upper-bound of a later run: their digits

VARIABLES
  symbol_tables_,   \* the tables loaded so far
  base,             \* of each simulator's stream: the base std::hex or std::dec left
  input,            \* the line last read from a log
  event,            \* what it was parsed to: at most one event
  printed,          \* the line last printed,
  begun,            \* and the base its stream was in before
  back,             \* what that line was read back to
  kept,             \* whether the later run's time filter lets it through
  stage             \* what was done last

vars == <<symbol_tables_, base, input, event, printed, begun, back, kept, stage>>

ParseEvent(raw) ==
  LET s == Simulators[raw.of]
  IN  CASE s.parser = "gem5"  -> Gem5ParseEvent(raw.line, s.ident, s.pname, symbol_tables_)
        [] s.parser = "nicbm" -> NicBmParseEvent(raw.line, s.ident, s.pname)
        [] s.parser = "ns3"   -> NS3ParseEvent(raw.line, s.ident, s.pname)

(* The handlers of a pipeline; a host's has one for functions as well.     *)
LetsThrough(e, simulator) ==
  /\ EventTypeFilter(e, TypesToFilter, TRUE)
  /\ Simulators[simulator].parser = "gem5" => HostCallFuncFilter(e, BlacklistFunctions, TRUE)
(* parse_uint_trim_copy of string_util.h takes the digits of a base and    *)
(* converts them with base 16, whatever the base.  An option not given, or *)
(* ULONG_MAX, leaves the bound as it is.                                   *)
parse_uint_trim_copy(text, bound) ==
  IF text = <<>> \/ ValueOf(text, 16) >= MaxULong THEN bound ELSE ValueOf(text, 16)
timestamp_bounds ==
  {<<parse_uint_trim_copy(lower, 0), parse_uint_trim_copy(upper, MaxULong)>>}
--------------------------------------------------------------------------------
Init ==
  /\ symbol_tables_ = <<>>
  /\ base = [s \in DOMAIN Simulators |-> 10]
  /\ input = [of |-> "none", line |-> <<>>, means |-> NoEvent]
  /\ event = NoEvent
  /\ printed = <<>>
  /\ begun = 10
  /\ back = NoEvent
  /\ kept = FALSE
  /\ stage = "load"

AddSymbolTable ==
  /\ stage = "load"
  /\ Len(symbol_tables_) < Len(Dumps)
  /\ LET d == Dumps[Len(symbol_tables_) + 1]
     IN  symbol_tables_' = Append(symbol_tables_,
           [component |-> d.identifier, symbols |-> Create(d.type, d.lines, d.offset, {})])
  /\ UNCHANGED <<base, input, event, printed, begun, back, kept, stage>>

ReadLog(raw) ==
  /\ Len(symbol_tables_) = Len(Dumps)
  /\ stage \in {"load", "drop", "read back"} \/ (stage = "parse" /\ event = NoEvent)
  /\ input' = raw
  /\ event' = NoEvent
  /\ printed' = <<>>
  /\ begun' = 10
  /\ back' = NoEvent
  /\ kept' = FALSE
  /\ stage' = "read"
  /\ UNCHANGED <<symbol_tables_, base>>

ParseLine ==
  /\ stage = "read"
  /\ event' = ParseEvent(input)
  /\ stage' = "parse"
  /\ UNCHANGED <<symbol_tables_, base, input, printed, begun, back, kept>>

Drop ==
  /\ stage = "parse" /\ event # NoEvent
  /\ ~LetsThrough(event[1], input.of)
  /\ stage' = "drop"
  /\ UNCHANGED <<symbol_tables_, base, input, event, printed, begun, back, kept>>

PrintEvent ==
  /\ stage = "parse" /\ event # NoEvent
  /\ LetsThrough(event[1], input.of)
  /\ LET after == print(event[1], base[input.of])
     IN  printed' = after.text /\ base' = [base EXCEPT ![input.of] = after.base]
  /\ begun' = base[input.of]
  /\ stage' = "print"
  /\ UNCHANGED <<symbol_tables_, input, event, back, kept>>

ReadBack ==
  /\ stage = "print"
  /\ back' = EventStreamParseEvent(printed)
  /\ kept' = \E i \in DOMAIN back' : EventTimestampFilter(back'[i], timestamp_bounds)
  /\ stage' = "read back"
  /\ UNCHANGED <<symbol_tables_, base, input, event, printed, begun>>

Next ==
  \/ AddSymbolTable
  \/ \E raw \in Lines : ReadLog(raw)
  \/ ParseLine \/ Drop \/ PrintEvent \/ ReadBack

Spec == Init /\ [][Next]_vars
--------------------------------------------------------------------------------
(* A line of a log becomes the event it means, with the symbol that comes  *)
(* first in the dumps for a call, and a line that means nothing becomes    *)
(* nothing: keywords inside other keywords, alternatives that consumed     *)
(* something before they failed, and missing headers do not confuse the    *)
(* parsers.  Of the lines of the dumps that list no symbol, none hides     *)
(* one or counts as one, but the first of objdump --syms (symtable.cc:156  *)
(* has no heading to skip, ParseUintTrim takes a word for 0).              *)
LinesUnderstood == stage = "parse" => event = input.means

(* What becomes of an event that is printed and read back.  Its source's   *)
(* number is printed in the base the line before left and read as decimal: *)
(* it is unreadable if that is hexadecimal and shows a letter, and then so *)
(* is the event; it is another number if it shows no letter but is above   *)
(* nine.  The type, the time stamp and the name of the source survive, and *)
(* so does the rest with three exceptions: the length of a received packet *)
(* is read into its port, and 0 is left for a length; the length of a sent *)
(* packet is printed like the source's number and read as hexadecimal; and *)
(* a component's name is cut at a character outside [A-Za-z0-9._].  The    *)
(* time filter lets through what could be read and lies between the        *)
(* bounds, taken for hexadecimal numbers.  Bars, and the sizes of          *)
(* accesses of the configuration, are below ten.                           *)
SourceSurvives(ident) == begun = 16 => ident < 10
SourceReadable(ident) == begun = 16 => ToSet(DigitsIn(ident, 16)) \subseteq DigitsOf(10)
RestSurvives(e) ==
  /\ e.type # "kNicRxT"
  /\ e.type = "kNicTxT" => begun = 16 \/ e.len < 10
  /\ e.type = "kHostCallT" => ToSet(e.comp) \subseteq AlnumDotBar
ReadBackExact ==
  stage = "read back" =>
    LET e == event[1]
    IN  /\ back # NoEvent <=> SourceReadable(e.ident)
        /\ \A i \in DOMAIN back :
             /\ Same(e, back[i], {"type", "name", "ts", "pname"})
             /\ back[i].ident = e.ident <=> SourceSurvives(e.ident)
             /\ e = [back[i] EXCEPT !.ident = e.ident] <=> RestSurvives(e)
        /\ kept <=> back # NoEvent /\ e.ts \in ValueOf(lower, 16) .. ValueOf(upper, 16)

(* Equal of a printed event and the one read back says whether they are    *)
(* the same, except for calls: HostCall::Equal asks HostInstr::Equal,      *)
(* which wants the type HostInstr, so no call is equal to any, itself      *)
(* included.                                                               *)
EqualIsIdentity ==
  stage = "read back" /\ back # NoEvent =>
    (Equal(event[1], back[1]) <=> back = event /\ event[1].type # "kHostCallT")
================================================================================
