------------------------------ MODULE MCEventLog ------------------------------
(***************************************************************************)
(* EventLog for TLC: the formats of the simulators' lines, as the parsers' *)
(* comments and the logs in tests/ show them, with numbers on both sides   *)
(* of ten, and dumps of a few symbols in the three formats.                *)
(***************************************************************************)
EXTENDS EventLog

Letters == {"Linuxvm", "Symbols", "Driver", "main", "send", "poll", "sys", "text", "hidden", "weak",
            "file", "format", "elf64", "host", "nic", "net", "host2", "nic2", "kCosimNetDevice", "kSimpleNetDevice", "kWithinSimulator", "kFromAdapter",
            "kToAdapter"}
(* Parsers are numbered from 1 on.  The last two stand for many: 10 and 18 *)
(* are a and 12 in hexadecimal.                                            *)
Sources ==
  [host  |-> [parser |-> "gem5", ident |-> 1, pname |-> <<"host">>],
   nic   |-> [parser |-> "nicbm", ident |-> 2, pname |-> <<"nic">>],
   net   |-> [parser |-> "ns3", ident |-> 11, pname |-> <<"net">>],
   host2 |-> [parser |-> "gem5", ident |-> 10, pname |-> <<"host2">>],
   nic2  |-> [parser |-> "nicbm", ident |-> 18, pname |-> <<"nic2">>]]

Numbers == {0, 5, 18}
D(n) == DigitsIn(n, 10)
X(n) == DigitsIn(n, 16)
ts == 18
From(simulator) == Source(ts, Sources[simulator].ident, Sources[simulator].pname)
Raw(of, line, means) == [of |-> of, line |-> line, means |-> means]

(* Symbols: flags, address, name, as objdump and readelf list them.  A     *)
(* hidden symbol has a mark before its name.  What objdump lists comes     *)
(* after the name of the file and its format.                              *)
FileFormat == <<"Linuxvm", "-image:", " ", " ", "file", " ", "format", " ", "elf64", "-x86-64">>
Flags == <<"l", " ", " ", " ", " ", "d", " ">>
WeakFlags == <<" ", "w", " ", " ", " ", " ", "F">>
NoFlags == [i \in 1 .. 7 |-> " "]
SymsDumpLine(addr, flags, section, name) ==
  X(addr) \o <<" ">> \o flags \o <<" ">> \o section \o <<" ">> \o <<"0", "0", "0">> \o <<" ">> \o name
InText(addr, flags, name) == SymsDumpLine(addr, flags, <<".", "text">>, name)
SDumpLine(addr, name) == X(addr) \o <<" <">> \o name \o <<">", ":">>
ElfDumpLine(i, addr, type, name) ==
  <<" ">> \o D(i) \o <<":", " ">> \o X(addr) \o <<" ">> \o D(0)
    \o <<" ", type, " ", "LOCAL", " ", "DEFAULT", " ">> \o D(1) \o <<" ">> \o name

TheDumps ==
  <<[identifier |-> <<"Linuxvm", "-", "Symbols">>, type |-> "kSyms", offset |-> 0,
     lines |-> <<<<>>, FileFormat, <<>>, <<"SYMBOL", " ", "TABLE", ":">>,
                 SymsDumpLine(24, NoFlags, <<"*UND*">>, <<"poll">>),  \* undefined: not loaded
                 InText(16, Flags, <<".", "text">>),             \* the section's own symbol
                 InText(16, Flags, <<"main">>),
                 InText(18, Flags, <<"send">>),
                 InText(20, Flags, <<".", "hidden", " ", "sys">>),
                 InText(24, WeakFlags, <<"weak">>)>>],
    [identifier |-> <<"Driver">>, type |-> "kElf", offset |-> 240,
     lines |-> <<<<>>, <<"Symbol table">>, <<"Num:">>,
                 ElfDumpLine(0, 0, "NOTYPE", <<>>),              \* the third line of the heading
                 ElfDumpLine(1, 37, "FUNC", <<"poll">>),         \* wraps around to 21
                 ElfDumpLine(2, 17, "FILE", <<"sys">>),
                 ElfDumpLine(3, 34, "FUNC", <<"poll">>)>>],      \* 18 again
    [identifier |-> <<"Driver">>, type |-> "kS", offset |-> 0,
     lines |-> <<<<>>, FileFormat, <<>>, <<>>, SDumpLine(33, <<"sys", "_", "poll">>),
                 X(33) \o <<":", " ">> \o X(65)>>]>>
(* The symbols a call of an address means.  What stands behind the name of *)
(* the file in the list of objdump --syms is a symbol at address 0.        *)
Meaning ==
  0  :> <<<<"elf64">>, <<"Linuxvm", "-", "Symbols">>>>
    @@ 16 :> <<<<".", "text">>, <<"Linuxvm", "-", "Symbols">>>>
    @@ 18 :> <<<<"send">>, <<"Linuxvm", "-", "Symbols">>>>
    @@ 20 :> <<<<".", "hidden">>, <<"Linuxvm", "-", "Symbols">>>>
    @@ 21 :> <<<<"poll">>, <<"Driver">>>>
    @@ 24 :> <<<<"weak">>, <<"Linuxvm", "-", "Symbols">>>>
    @@ 33 :> <<<<"sys", "_", "poll">>, <<"Driver">>>>
Called == DOMAIN Meaning \cup {17, 34}
--------------------------------------------------------------------------------
(* The host.                                                               *)
Gem5(line) == D(ts) \o <<":", " ">> \o line
H == From("host")
Host(line, means) == Raw("host", Gem5(line), means)
Pci(line, means) == Host(<<"system.pc", ".simbricks", "_", "0", ":", " ", "simbricks-pci:", " ">> \o line, means)

GlobalLines ==
  {Host(<<"global:", " ", "simbricks:", " ", "processInEvent">>, <<SimProcInEvent(H)>>),
   Host(<<"global:", " ", "simbricks:", " ", "sending sync message">>, <<SimSendSync(H)>>),
   Host(<<"global:", " ", "else">>, NoEvent)}
Cpu(addr, op) == <<"system.switch_cpus:", " ", "T", "0", " ", ":", " ", "0x">> \o X(addr) \o op
CpuLines ==
  {Host(Cpu(a, <<".", " ", "0">>), <<HostInstr(H, a)>>) : a \in {5, 18}}
    \cup {Host(Cpu(a, <<" ", ":", " ", "NOP">>), NoEvent) : a \in {5, 18}}
    \cup {Host(Cpu(a, <<" ", ":", " ", "CALL">>),
               IF a \in DOMAIN Meaning THEN <<HostCall(H, a, Meaning[a][1], Meaning[a][2])>>
               ELSE NoEvent) : a \in Called}
HostPciLines ==
  {Host(<<"system.pc", ".pci_host", ":", " ", IF r THEN "read: offset=0x" ELSE "write: offset=0x">>
          \o X(n) \o <<", size=0x">> \o X(4), <<HostPciRW(H, n, 4, r)>>) : n \in Numbers, r \in BOOLEAN}
InterfaceLines ==
  {Host(<<"system.pc", ".pci_host", ".interface", "[", "0", "]", ":", " ", "clearInt">>, <<HostClearInt(H)>>),
   Host(<<"system.pc", ".pci_host", ".interface", "[", "0", "]", ":", " ", "postInt">>, <<HostPostInt(H)>>)}
ConfLines ==
  {Host(<<"system.pc", ".simbricks", "_", "0", ":", " ", IF r THEN "readConfig:" ELSE "writeConfig:",
          " ", " ", "dev ">> \o D(0) \o <<" func ">> \o D(1) \o <<" reg 0x">> \o X(n) \o <<" ">> \o D(2)
          \o <<" bytes: data = ">> \o (IF v = 0 THEN <<"0">> ELSE <<"0x">> \o X(v)),
        <<HostConf(H, 0, 1, n, 2, v, r)>>) : n \in Numbers, v \in Numbers, r \in BOOLEAN}
ReceivedLines ==
  UNION {{Pci(<<"received ", "write ", "completion id ">> \o D(n), <<HostMmioCW(H, n)>>),
          Pci(<<"received ", "read ", "completion id ">> \o D(n), <<HostMmioCR(H, n)>>),
          Pci(<<"received ", "DMA ", "write id ">> \o D(n) \o <<" addr ">> \o X(n) \o <<" size ">> \o D(n),
              <<HostDmaW(H, n, n, n)>>),
          Pci(<<"received ", "DMA ", "read id ">> \o D(n) \o <<" addr ">> \o X(n) \o <<" size ">> \o D(n),
              <<HostDmaR(H, n, n, n)>>),
          Pci(<<"completed DMA id ">> \o D(n), <<HostDmaC(H, n)>>),
          Pci(<<"received ", "MSI-X intr vec ">> \o D(n), <<HostMsiX(H, n)>>)} : n \in Numbers}
SendingLines ==
  UNION {{Pci(<<"sending ", "read addr ">> \o X(n) \o <<" size ">> \o D(4) \o <<" id ">> \o D(n)
                \o <<" bar ">> \o D(b) \o <<" offs ">> \o X(n), <<HostMmioR(H, n, n, 4, b, n)>>),
          Pci(<<"sending ", "write addr ">> \o X(n) \o <<" size ">> \o D(4) \o <<" id ">> \o D(n)
                \o <<" bar ">> \o D(b) \o <<" offs ">> \o X(n) \o <<" posted ">> \o D(b % 2),
              <<HostMmioW(H, n, n, 4, b, n, b % 2 = 1)>>)} : n \in Numbers, b \in {0, 5}}
    \cup {Pci(<<"sending ", "immediate response for posted write">>, <<HostMmioImRespPoW(H)>>),
          Pci(<<"sending ", "write addr ">> \o X(255), NoEvent)}   \* ULONG_MAX is an error
HostLines == GlobalLines \cup CpuLines \cup HostPciLines \cup InterfaceLines \cup ConfLines
               \cup ReceivedLines \cup SendingLines
--------------------------------------------------------------------------------
(* The card.                                                               *)
C == From("nic")
Nic(line, means) ==
  Raw("nic", <<"info: ", "main_time", " = ">> \o D(ts) \o <<": ", "nicbm", ": ">> \o line, means)
OffLenVal(n) == <<"off=0x">> \o X(n) \o <<", ", "len=">> \o D(n) \o <<", ", "val=0x">> \o X(n)
OpAddrLen(n) == <<" ", "op 0x">> \o X(n) \o <<" ", "addr ">> \o X(n) \o <<" ", "len ">> \o D(n)
Pending == <<" ", "pending ">> \o D(1)
NicLines ==
  UNION {{Nic(<<"read(">> \o OffLenVal(n), <<NicMmioR(C, n, n, n)>>),
          Nic(<<"write(">> \o OffLenVal(n) \o <<", ", "posted=">> \o D(n % 2),
              <<NicMmioW(C, n, n, n, n % 2 = 1)>>),
          Nic(<<"issuing dma">> \o OpAddrLen(n) \o Pending, <<NicDmaI(C, n, n, n)>>),
          Nic(<<"executing dma">> \o OpAddrLen(n) \o Pending, <<NicDmaEx(C, n, n, n)>>),
          Nic(<<"enqueuing dma">> \o OpAddrLen(n) \o Pending, <<NicDmaEn(C, n, n, n)>>),
          Nic(<<"completed dma", " ", "read">> \o OpAddrLen(n), <<NicDmaCR(C, n, n, n)>>),
          Nic(<<"completed dma", " ", "write">> \o OpAddrLen(n), <<NicDmaCW(C, n, n, n)>>),
          Nic(<<"issue MSI", "-X ", "interrupt vec ">> \o D(n), <<NicMsix(C, n, TRUE)>>),
          Nic(<<"issue MSI", " ", "interrupt vec ">> \o D(n), <<NicMsix(C, n, FALSE)>>),
          Nic(<<"eth", " ", "tx: len ">> \o D(n), <<NicTx(C, n)>>),
          Nic(<<"eth", " ", "rx: port ">> \o D(0) \o <<" ", "len ">> \o D(n + 1), <<NicRx(C, 0, n + 1)>>),
          Nic(<<"set intx interrupt">> \o X(n), <<SetIX(C, n)>>)} : n \in Numbers}
    \cup {Nic(<<"sending sync message">>, <<SimSendSync(C)>>),
          Nic(<<"dma write data", " ">> \o X(18), NoEvent),
          Nic(<<"else">>, NoEvent),
          Raw("nic", <<"main_time", " = ">> \o D(5) \o <<"nicbm", "set intx interrupt">> \o X(5),
              <<SetIX(Source(5, C.ident, C.pname), 5)>>),
          Raw("nic", <<"else">>, NoEvent)}
--------------------------------------------------------------------------------
(* The network.                                                            *)
Mac == <<0, 5, 18, 171, 0, 18>>
Broadcast == [i \in 1 .. 6 |-> 254]
Ip(n) == <<192, 168, 64, n>>
MacText(mac) == FoldLeft(LAMBDA t, b : t \o (IF t = <<>> THEN <<>> ELSE <<":">>)
                                         \o (IF b < 16 THEN <<"0">> ELSE <<>>) \o X(b), <<>>, mac)
IpText(ip) == D(ip[1]) \o <<".">> \o D(ip[2]) \o <<".">> \o D(ip[3]) \o <<".">> \o D(ip[4])
EthText == <<"EthernetHeader", "(", " ", "length/type=0x">> \o X(8) \o <<", ", "source=">> \o MacText(Mac)
             \o <<", ", "destination=">> \o MacText(Broadcast) \o <<")", " ">>
ArpText(request) ==
  <<"ns3::ArpHeader", "(", IF request THEN "request" ELSE "reply", " source mac: ", " source ipv4: ">>
    \o IpText(Ip(1)) \o <<" dest ipv4: ">> \o IpText(Ip(0)) \o <<")", " ">>
IpHeaderText == <<"Ipv4Header", "(", "tos ", "length: ">> \o D(18) \o <<" ">> \o IpText(Ip(0))
                  \o <<" ", ">", " ">> \o IpText(Ip(1)) \o <<")", " ">>
Headers ==   \* text, and ethernet, arp and ip header
  {<<EthText, <<EthernetHeader(8, Mac, Broadcast)>>, <<>>, <<>>>>,
   <<EthText \o IpHeaderText, <<EthernetHeader(8, Mac, Broadcast)>>, <<>>,
     <<Ipv4Header(18, Ip(0), Ip(1))>>>>}
    \cup {<<EthText \o ArpText(r), <<EthernetHeader(8, Mac, Broadcast)>>, <<ArpHeader(Ip(1), Ip(0), r)>>, <<>>>>
            : r \in BOOLEAN}
Kinds == {<<"+", "kNetworkEnqueueT">>, <<"-", "kNetworkDequeueT">>, <<"d", "kNetworkDropT">>}
Places == {<<"RxPacketFromAdapter", "kFromAdapter">>, <<"TxPacketToAdapter", "kToAdapter">>,
           <<"TxPacketToNetwork", "kWithinSimulator">>}
DeviceNames == {<<"ns3::CosimNetDevice", "kCosimNetDevice">>, <<"ns3::SimpleNetDevice", "kSimpleNetDevice">>}
NetLine(kind, name, place, n, interesting, payload, h) ==
  Raw("net", <<kind[1], " ", " ">> \o D(ts) \o <<" ", "NodeList/">> \o D(1) \o <<"/", "DeviceList/">> \o D(n)
        \o <<"/", name[1], "/", place[1], " ", "Packet-Uid=">> \o D(n)
        \o <<" ", "Intersting=", IF interesting THEN "true" ELSE "false", " ", "ns3::">> \o h[1]
        \o (IF payload = 0 THEN <<>> ELSE <<"Payload (size=">> \o D(payload) \o <<")">>),
      <<NetworkEventOf(From("net"), kind[2],
          [node |-> 1, device |-> n, device_type |-> name[2], uid |-> n, interesting |-> interesting,
           payload |-> payload, boundary |-> place[2], eth |-> h[2], arp |-> h[3], ip |-> h[4]])>>)
NetLines ==
  {NetLine(kind, name, place, n, n = 2, IF n = 2 THEN 0 ELSE 18, h) :
     kind \in Kinds, name \in DeviceNames, place \in Places, n \in {2, 18}, h \in Headers}
    \cup {Raw("net", <<"r", " ", "ns3::SimpleNetDevice">>, NoEvent)}
--------------------------------------------------------------------------------
(* Some lines of a second host and a second card, with numbers above nine. *)
Host2(line, means) == Raw("host2", Gem5(line), means)
Nic2(line, means) ==
  Raw("nic2", <<"info: ", "main_time", " = ">> \o D(ts) \o <<": ", "nicbm", ": ">> \o line, means)
LaterLines ==
  {Host2(Cpu(18, <<".", " ", "0">>), <<HostInstr(From("host2"), 18)>>),
   Host2(<<"global:", " ", "simbricks:", " ", "processInEvent">>, <<SimProcInEvent(From("host2"))>>),
   Nic2(<<"set intx interrupt">> \o X(18), <<SetIX(From("nic2"), 18)>>)}
    \cup UNION {{Nic2(<<"eth", " ", "tx: len ">> \o D(n), <<NicTx(From("nic2"), n)>>),
                  Nic2(<<"issue MSI", "-X ", "interrupt vec ">> \o D(n), <<NicMsix(From("nic2"), n, TRUE)>>)}
                   : n \in Numbers}

AllLines == HostLines \cup NicLines \cup NetLines \cup LaterLines
DroppedTypes == {"kSimSendSyncT"}
DroppedFunctions == {<<"sys", "_", "poll">>}
LowerText == <<"1", "2">>
UpperText == <<"1", "4">>
================================================================================
