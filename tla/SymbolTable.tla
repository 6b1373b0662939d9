------------------------------ MODULE SymbolTable ------------------------------
(***************************************************************************)
(* SymsFilter (source/env/symtable.cc) and the lookups of TraceEnvironment *)
(* (source/env/traceEnvironment.cc): which function is called at an        *)
(* address.                                                                *)
(*                                                                         *)
(* A dump is a sequence of lines, blank ones included; the reader hands    *)
(* out the others only.  A symbol table is a function from addresses to    *)
(* names; a table of the environment carries the name of its component as  *)
(* well.                                                                   *)
(***************************************************************************)
EXTENDS LogParser

SymsParseAddress == <<Trim, Uint(16, "address")>>
ParseName == <<Trim, Word(AlnumDotBar, "name")>>

(* What a line of a dump says, [address, name], or nothing.                *)
Symbol(h) == When(h, LAMBDA g : [address |-> g.address, name |-> g.name])

(* objdump --syms: seven characters with the flags, section and alignment  *)
(* stand before the name.  Flags that begin with blanks are trimmed before *)
(* seven characters are skipped, which then reach into the section.        *)
SkipSymsFlags(h) ==
  LET flags == TrimL(h)
  IN  IF Characters(Rest(flags)) < 8 THEN Failed(flags) ELSE MoveForward(flags, 7)
OfAddressed(h) ==
  IF h.ok THEN Symbol(Parse(SkipSymsFlags(h), <<Trim, TrimWord, Trim, TrimWord>> \o ParseName))
  ELSE <<>>
SymsLine(line) == OfAddressed(Parse(Reset(line), <<Trim>> \o SymsParseAddress))

(* objdump -S: an instruction's line has no label.                         *)
SLine(line) ==
  Symbol(Parse(Reset(line), SymsParseAddress \o <<Lit(" <")>> \o ParseName \o <<Lit(">"), Lit(":")>>))

(* readelf: six columns stand before the name.  Whether there is one more  *)
(* column to skip is not asked.                                            *)
Column(h) == TrimL(Resume(Step(h, SkipTo({Blank}))))
ElfName(h) ==
  IF Step(h, OneLit(<<"FILE", "OBJECT">>, "kind")).ok THEN <<>>
  ELSE Symbol(Parse(Column(Column(Column(Column(h)))), ParseName))
ElfSymbol(h) == IF h.ok THEN ElfName(Column(TrimL(h))) ELSE <<>>
ElfLine(line) ==
  ElfSymbol(Parse(Reset(line), <<Trim, SkipTo({Blank})>> \o SymsParseAddress))

(* The first symbol at an address stays.                                   *)
AddLastToSymTable(table, symbol_filter, symbol, address_offset) ==
  LET at == (address_offset + symbol.address) % (MaxULong + 1)
  IN  IF symbol_filter # {} /\ symbol.name \notin symbol_filter THEN table
      ELSE (at :> symbol.name) @@ table
AddToSymTable(table, symbol_filter, symbol, address_offset) ==
  LET at == (address_offset + symbol.address) % (MaxULong + 1)
  IN  IF symbol_filter # {} /\ symbol.name \notin symbol_filter THEN table
      ELSE table @@ (at :> symbol.name)

(* Create: a table is loaded from a dump of one of three formats.          *)
LoadSymbol(table, symbol_filter, symbol, address_offset) ==
  IF symbol = <<>> THEN table ELSE AddToSymTable(table, symbol_filter, symbol[1], address_offset)
HandedOut(lines) == SelectSeq(lines, LAMBDA line : line # <<>>)
LoadWith(lines, SymbolOf(_), address_offset, symbol_filter) ==
  FoldLeft(LAMBDA table, line : LoadSymbol(table, symbol_filter, SymbolOf(line), address_offset),
           <<>>, lines)
LoadSyms(lines, address_offset, symbol_filter) ==
  LoadWith(HandedOut(lines), SymsLine, address_offset, symbol_filter)
LoadS(lines, address_offset, symbol_filter) ==
  LoadWith(HandedOut(lines), SLine, address_offset, symbol_filter)
LoadElf(lines, address_offset, symbol_filter) ==  \* without the first three of them
  LET all == HandedOut(lines)
  IN  LoadWith(SubSeq(all, 4, Len(all)), ElfLine, address_offset, symbol_filter)
Create(type, lines, address_offset, symbol_filter) ==
  CASE type = "kS"    -> LoadS(lines, address_offset, symbol_filter)
    [] type = "kElf"  -> LoadElf(lines, address_offset, symbol_filter)
    [] type = "kSyms" -> LoadSyms(lines, address_offset, symbol_filter)

Filter(table, address) == IF address \in DOMAIN table THEN <<table[address]>> ELSE <<>>

(* The symbol at an address in the first table that has one, with the      *)
(* component of the table.                                                 *)
FirstWith(tables, address) ==
  SelectInSeq(tables, LAMBDA t : Filter(t.symbols, address) # <<>>)
SymtableFilter(tables, address) ==
  LET i == FirstWith(tables, address)
  IN  IF i = 0 THEN <<>>
      ELSE <<[func |-> Filter(tables[i].symbols, address)[1], comp |-> tables[i].component]>>
================================================================================
