------------------------------- MODULE Gem5Parser -------------------------------
(***************************************************************************)
(* Gem5Parser (source/parser/gem5.cc) and ComponentFilter                  *)
(* (include/util/componenttable.h), for the log of a host.                 *)
(***************************************************************************)
EXTENDS SymbolTable

CONSTANT Components   \* component_table_ of the filter

filter(component) == Components = {} \/ component \in Components

ParseGlobalEvent(h, s) ==
  When(Parse(h, <<Till("simbricks:"), Trim, OneLit(<<"processInEvent", "sending sync message">>, "what")>>),
       LAMBDA g : IF g.what = "processInEvent" THEN SimProcInEvent(s) ELSE SimSendSync(s))

(* A micro-operation is an instruction; the others count only as a call of *)
(* a function that has a symbol.                                           *)
CallOf(s, addr, symbol) ==
  [i \in DOMAIN symbol |-> HostCall(s, addr, symbol[i].func, symbol[i].comp)]
InstructionOrCall(h, s, tables) ==
  IF Step(h, OneLit(<<"NOP", "MFENCE", "LFENCE">>, "op")).ok THEN NoEvent
  ELSE Either(Step(Resume(h), Lit(".")), LAMBDA g : HostInstr(s, g.addr),
              LAMBDA rest : CallOf(s, rest.got.addr, SymtableFilter(tables, rest.got.addr)))
OfAddress(h, s, tables) ==
  IF h.ok THEN InstructionOrCall(Parse(h, <<Lit(":"), Trim>>), s, tables) ELSE NoEvent
ParseSystemSwitchCpus(h, s, tables) ==
  OfAddress(Parse(h, <<Till("0x"), ParseAddress("addr"), Trim>>), s, tables)

ParseSystemPcPciHost(h, s) ==
  When(Parse(h, <<OneTill(<<"read: offset=0x", "write: offset=0x">>, "op"), Uint(16, "offset"),
                  Lit(", size=0x"), Uint(16, "size")>>),
       LAMBDA g : HostPciRW(s, g.offset, g.size, g.op = "read: offset=0x"))

ParseSystemPcPciHostInterface(h, s) ==
  When(Parse(h, <<SkipTo({Blank}), Trim, OneLit(<<"clearInt", "postInt">>, "what")>>),
       LAMBDA g : IF g.what = "clearInt" THEN HostClearInt(s) ELSE HostPostInt(s))

ConfOf(s, g, data, isRead) == HostConf(s, g.dev, g.func, g.reg, g.bytes, data, isRead)
ConfData(h, s, isRead) ==
  IF ~h.ok THEN NoEvent
  ELSE Either(Parse(h, <<Lit("0x"), Uint(16, "data")>>), LAMBDA g : ConfOf(s, g, g.data, isRead),
              LAMBDA rest : When(Step(rest, Lit("0")), LAMBDA g : ConfOf(s, g, 0, isRead)))
ParseConf(h, s, isRead) ==
  ConfData(Parse(h, <<Trim, Lit("dev "), Uint(10, "dev"), Lit(" func "), Uint(10, "func"),
                      Lit(" reg 0x"), Uint(16, "reg"), Lit(Blank), Uint(10, "bytes"),
                      Lit(" bytes: data = ")>>), s, isRead)

(* A completion, a DMA operation of the card, or an interrupt.             *)
DmaSteps == <<Uint(10, "id"), Lit(" addr "), Uint(16, "addr"), Lit(" size "), Uint(10, "size")>>
ReceivedDma(h, s) ==
  Either(Parse(h, <<Lit("write id ")>> \o DmaSteps), LAMBDA g : HostDmaW(s, g.id, g.addr, g.size),
         LAMBDA rest : When(Parse(rest, <<Lit("read id ")>> \o DmaSteps),
                            LAMBDA g : HostDmaR(s, g.id, g.addr, g.size)))
ReceivedInterrupt(h, s) ==
  When(Parse(h, <<Till("MSI-X intr vec "), Uint(10, "vec")>>), LAMBDA g : HostMsiX(s, g.vec))
ReceivedOther(h, s) ==
  IF h.ok THEN ReceivedDma(h, s) ELSE ReceivedInterrupt(Resume(h), s)
ParseReceived(h, s) ==
  Either(Parse(h, <<Lit("write "), Lit("completion id "), Uint(10, "id")>>),
         LAMBDA g : HostMmioCW(s, g.id),
         LAMBDA rest : Either(Parse(rest, <<Lit("read "), Lit("completion id "), Uint(10, "id")>>),
                              LAMBDA g : HostMmioCR(s, g.id),
                              LAMBDA more : ReceivedOther(Step(more, Lit("DMA ")), s)))

MmioOpSteps ==
  <<Uint(16, "addr"), Lit(" size "), Uint(10, "size"), Lit(" id "), Uint(10, "id"),
    Lit(" bar "), Signed("bar"), Lit(" offs "), Uint(16, "offset")>>
OfSendOp(h, s) ==
  IF ~h.ok THEN NoEvent ELSE
  CASE h.got.op = "read addr " ->
         When(Parse(h, MmioOpSteps),
              LAMBDA g : HostMmioR(s, g.id, g.addr, g.size, g.bar, g.offset))
    [] h.got.op = "write addr " ->
         When(Parse(h, MmioOpSteps \o <<Lit(" posted "), BoolInt("posted")>>),
              LAMBDA g : HostMmioW(s, g.id, g.addr, g.size, g.bar, g.offset, g.posted))
    [] OTHER -> <<HostMmioImRespPoW(s)>>
ParseSending(h, s) ==
  OfSendOp(Step(h, OneLit(<<"read addr ", "write addr ", "immediate response for posted write">>, "op")), s)

OfPciOp(h, s) ==
  IF ~h.ok THEN NoEvent ELSE
  CASE h.got.op = "received " -> ParseReceived(h, s)
    [] h.got.op = "sending "  -> ParseSending(h, s)
    [] OTHER -> When(Step(h, Uint(10, "id")), LAMBDA g : HostDmaC(s, g.id))
OfSimbricksOp(h, s) ==
  IF ~h.ok THEN NoEvent ELSE
  CASE h.got.op = "readConfig:"  -> ParseConf(h, s, TRUE)
    [] h.got.op = "writeConfig:" -> ParseConf(h, s, FALSE)
    [] OTHER -> OfPciOp(Parse(h, <<Trim, OneLit(<<"received ", "sending ", "completed DMA id ">>, "op")>>), s)
ParseSystemPcSimbricks(h, s) ==
  OfSimbricksOp(Parse(h, <<SkipTo({Blank}), Trim,
                         OneLit(<<"readConfig:", "writeConfig:", "simbricks-pci:">>, "op")>>), s)

(* ParseEvent: what names the component is consumed whether or not the     *)
(* filter lets the component through.                                      *)
OfInterface(h, s) ==
  IF h.ok /\ filter("system.pc.pci_host.interface") THEN ParseSystemPcPciHostInterface(h, s)
  ELSE IF filter("system.pc.pci_host") THEN ParseSystemPcPciHost(Resume(h), s) ELSE NoEvent
OfSimbricks(h, s) ==
  IF h.ok /\ filter("system.pc.simbricks") THEN ParseSystemPcSimbricks(h, s) ELSE NoEvent
OfPciHost(h, s) ==
  IF h.ok THEN OfInterface(Step(h, Lit(".interface")), s)
  ELSE OfSimbricks(Step(Resume(h), Lit(".simbricks")), s)
OfPc(h, s) == IF h.ok THEN OfPciHost(Step(h, Lit(".pci_host")), s) ELSE NoEvent
OfCpus(h, s, tables) ==
  IF h.ok /\ filter("system.switch_cpus") THEN ParseSystemSwitchCpus(h, s, tables)
  ELSE OfPc(Step(Resume(h), Lit("system.pc")), s)
OfGlobal(h, s, tables) ==
  IF h.ok /\ filter("global") THEN ParseGlobalEvent(h, s)
  ELSE OfCpus(Step(Resume(h), Lit("system.switch_cpus:")), s, tables)
OfTimestamp(h, ident, pname, tables) ==
  IF h.ok THEN OfGlobal(Step(h, Lit("global:")), Source(h.got.ts, ident, pname), tables) ELSE NoEvent
Gem5ParseEvent(line, ident, pname, tables) ==
  OfTimestamp(Parse(Reset(line), ParseTimestamp \o <<Lit(":"), Trim>>), ident, pname, tables)
================================================================================
