------------------------------ MODULE NicBmParser ------------------------------
(***************************************************************************)
(* NicBmParser (source/parser/nicbm.cc), for the log of a card.            *)
(*                                                                         *)
(* The keywords are searched in the whole rest of a line, one after the    *)
(* other, and the first that occurs decides; a keyword inside another is   *)
(* why their order matters.                                                *)
(***************************************************************************)
EXTENDS LogParser

ParseOffLenValComma ==
  <<Till("off=0x"), Uint(16, "off"), Till("len="), Uint(10, "len"), Till("val=0x"), Uint(16, "val")>>

ParseOpAddrLenPending(withPending) ==
  <<Till("op 0x"), Uint(16, "op"), Till("addr "), ParseAddress("addr"), Till("len "), Uint(10, "len")>>
    \o (IF withPending THEN <<Till("pending "), Uint(10, "pending")>> ELSE <<>>)

(* The keywords of ParseEvent, in their order.                             *)
Keywords ==
  <<"sending sync message", "read(", "write(", "issuing dma", "executing dma", "enqueuing dma",
    "completed dma", "issue MSI", "eth", "set intx interrupt", "dma write data">>
Dmas == {"issuing dma", "executing dma", "enqueuing dma"}

DmaOf(s, g) ==
  CASE g.keyword = "issuing dma"   -> NicDmaI(s, g.op, g.addr, g.len)
    [] g.keyword = "executing dma" -> NicDmaEx(s, g.op, g.addr, g.len)
    [] g.keyword = "enqueuing dma" -> NicDmaEn(s, g.op, g.addr, g.len)

CompletionOf(s, g) ==
  IF g.kind = "read" THEN NicDmaCR(s, g.op, g.addr, g.len) ELSE NicDmaCW(s, g.op, g.addr, g.len)

(* "interrupt vec " is the end of "-X interrupt vec ".                     *)
MsiOf(h, s, isX) == When(Step(h, Uint(10, "vec")), LAMBDA g : NicMsix(s, g.vec, isX))
MsixOrMsi(h, rest, s) ==
  IF h.ok THEN MsiOf(h, s, TRUE)
  ELSE MsiOf(ConsumeAndTrimTillString(rest, <<"interrupt vec ">>), s, FALSE)
ParseMsi(h, s) == MsixOrMsi(ConsumeAndTrimTillString(h, <<"-X ", "interrupt vec ">>), h, s)

TxOrRx(h, s) ==
  IF ~h.ok THEN NoEvent
  ELSE IF h.got.direction = "tx: len " THEN When(Step(h, Uint(10, "len")), LAMBDA g : NicTx(s, g.len))
  ELSE When(Parse(h, <<Signed("port"), Till("len "), Uint(10, "len")>>),
            LAMBDA g : NicRx(s, g.port, g.len))
ParseEth(h, s) == TxOrRx(Step(h, OneTill(<<"tx: len ", "rx: port ">>, "direction")), s)

OfKeyword(h, s) ==
  IF ~h.ok THEN NoEvent ELSE
  CASE h.got.keyword = "sending sync message" -> <<SimSendSync(s)>>
    [] h.got.keyword = "read(" ->
         When(Parse(h, ParseOffLenValComma), LAMBDA g : NicMmioR(s, g.off, g.len, g.val))
    [] h.got.keyword = "write(" ->
         When(Parse(h, ParseOffLenValComma \o <<Till("posted="), BoolUint("posted")>>),
              LAMBDA g : NicMmioW(s, g.off, g.len, g.val, g.posted))
    [] h.got.keyword \in Dmas ->
         When(Parse(h, ParseOpAddrLenPending(TRUE)), LAMBDA g : DmaOf(s, g))
    [] h.got.keyword = "completed dma" ->
         When(Parse(h, <<OneTill(<<"read", "write">>, "kind")>> \o ParseOpAddrLenPending(FALSE)),
              LAMBDA g : CompletionOf(s, g))
    [] h.got.keyword = "issue MSI" -> ParseMsi(h, s)
    [] h.got.keyword = "eth"       -> ParseEth(h, s)
    [] h.got.keyword = "set intx interrupt" ->
         When(Step(h, ParseAddress("addr")), LAMBDA g : SetIX(s, g.addr))
    [] h.got.keyword = "dma write data" -> NoEvent
OfMainTime(h, ident, pname) ==
  IF h.ok THEN OfKeyword(Step(h, OneTill(Keywords, "keyword")), Source(h.got.ts, ident, pname))
  ELSE NoEvent
NicBmParseEvent(line, ident, pname) ==
  OfMainTime(Parse(Reset(line), <<Trim, Till("main_time"), Lit(" = ")>> \o ParseTimestamp
                                  \o <<Till("nicbm")>>), ident, pname)
================================================================================
