---------------------------- MODULE LGPackets ----------------------------
(***************************************************************************)
(* The headers of the frames on their way through the two switches: what   *)
(* each of the four parsers extracts, what each control adds and removes,  *)
(* and in which order each deparser puts the headers back.                 *)
(*                                                                         *)
(* The pipelines keep nothing about the layout of a frame, so the module   *)
(* follows one frame at a time; of a frame and the copies mirrored from it *)
(* it follows any one.  What depends on registers (numbers, holes, acks,   *)
(* pending LACKs), which the other modules decide, is any choice here.     *)
(* ECN marking and the fields the pipelines never branch on are left out.  *)
(***************************************************************************)
EXTENDS Naturals, Sequences, Functions, TLC

CONSTANTS UserTypes,  \* the ether types of the hosts' frames
          Modes       \* the blocking_mode bits link_protect may be given

ASSUME PacketsAssumption ==
    /\ UserTypes \subseteq {"IPV4", "ARP"}
    /\ Modes \subseteq BOOLEAN

VARIABLES at,     \* the pipeline the frame waits for, "host" or "nowhere"
          port,   \* the port it came in by, or leaves by in an egress
          frame,  \* its headers, in the order of their bytes
          sent    \* the frame a host sent that this one carries

packetVars == <<at, port, frame, sent>>

-----------------------------------------------------------------------------
(* Headers.  "lead" is what a parser sees of a header ahead of it;         *)
(* "marked" is the byte 0xAA in a source address.                          *)

Ethernet(type, to) == [h |-> "ethernet", type |-> type, to |-> to, marked |-> FALSE]
Plain(name) == [h |-> name, lead |-> "none"]
Ipv4(protocol) == [h |-> "ipv4", lead |-> "none", protocol |-> protocol]
Data(dummy, blocking) ==
    [h |-> "data", lead |-> "DATA", reTx |-> FALSE, dummy |-> dummy,
     blocking |-> blocking, rxBuffered |-> FALSE]
BufferedHeader == [h |-> "buffered", lead |-> "TX_BUFFERED"]
LackHeader(type, piggyBacked) == [h |-> "lack", lead |-> type, piggyBacked |-> piggyBacked]
Internal(kind) == [h |-> "internal", kind |-> kind]

TxHeadersDataFirst == <<"internal", "pktgenTimer", "remainingEthernet", "ethernet", "data",
    "buffered", "lack", "lossNotification", "ipv4", "arp", "tcp", "udp">>  \* mutant

(* The order in which struct header_t lists, and a deparser emits, them.   *)
TxHeaders == <<"internal", "pktgenTimer", "remainingEthernet", "ethernet", "buffered",
               "data", "lack", "lossNotification", "ipv4", "arp", "tcp", "udp">>
RxHeaders == <<"internal", "pktgenTimer", "remainingEthernet", "ethernet", "pfc", "arp",
               "data", "rxBuffered", "lack", "lossNotification", "ipv4">>

Deparsed(order, hdr, rest) ==
    LET valid == SelectSeq(order, LAMBDA n : n \in DOMAIN hdr)
    IN  [i \in DOMAIN valid |-> hdr[valid[i]]] \o rest

With(hdr, header) == (header.h :> header) @@ hdr
Without(hdr, names) == Restrict(hdr, DOMAIN hdr \ names)
WithType(hdr, type) == [hdr EXCEPT !["ethernet"].type = type]

-----------------------------------------------------------------------------
(* Parsers: the names of the headers extracted from f, which a parser      *)
(* chooses by the fields of the headers before and the lead of the next.   *)

Field(f, i, name) == IF i \in DOMAIN f /\ name \in DOMAIN f[i] THEN f[i][name] ELSE "none"
Kind(f) == Field(f, 1, "kind")
Type(f, i) == Field(f, i, "type")
Lead(f, i) == Field(f, i, "lead")

Transport(f, i, protocols) ==
    LET protocol == Field(f, i, "protocol")
    IN  IF protocol \in DOMAIN protocols THEN <<protocols[protocol]>> ELSE <<>>

TxLinkRadar(lead) ==
    CASE lead = "DATA" -> <<"data">>
      [] lead = "LACK" -> <<"lack">>
      [] lead = "LACK_LOSS_NOTIFY" -> <<"lack", "lossNotification">>
      [] lead = "TX_BUFFERED" -> <<"buffered", "data">>
      [] OTHER -> <<>>

TxIngressParser(f) ==
    IF Type(f, 1) = "PKTGEN" THEN <<"pktgenTimer", "remainingEthernet">>
    ELSE <<"ethernet">> \o
         CASE Type(f, 1) = "IPV4" ->
                <<"ipv4">> \o Transport(f, 2, [TCP |-> "tcp", UDP |-> "udp"])
           [] Type(f, 1) = "ARP" -> <<"arp">>
           [] Type(f, 1) = "LINKRADAR" -> TxLinkRadar(Lead(f, 2))
           [] OTHER -> <<>>

TxEgressParser(f) ==
    IF Kind(f) = "bufferedPkt" THEN <<"internal", "ethernet", "data">>
    ELSE <<"internal", "ethernet">> \o
         CASE Type(f, 2) = "IPV4" -> <<"ipv4">> \o Transport(f, 3, [UDP |-> "udp"])
           [] Type(f, 2) = "LINKRADAR" /\ Lead(f, 3) \in {"DATA", "TX_BUFFERED"} ->
                TxLinkRadar(Lead(f, 3))
           [] OTHER -> <<>>

RxLinkRadar(f, i) ==
    CASE Lead(f, i) = "DATA" ->
           IF Field(f, i, "rxBuffered") = TRUE THEN <<"data", "rxBuffered">> ELSE <<"data">>
      [] Lead(f, i) = "LACK" -> <<"lack">>
      [] OTHER -> <<>>

RxIngressParser(f) ==
    IF Type(f, 1) = "PKTGEN" THEN <<"pktgenTimer", "remainingEthernet", "pfc">>
    ELSE <<"ethernet">> \o
         CASE Type(f, 1) = "ARP" -> <<"arp">>
           [] Type(f, 1) = "LINKRADAR" -> RxLinkRadar(f, 2)
           [] OTHER -> <<>>

RxEgressParser(f) ==
    CASE Kind(f) = "lackUpdate" -> <<"internal">>
      [] Kind(f) = "lossNotification" -> <<"internal", "ethernet">>
      [] OTHER -> <<"internal", "ethernet">> \o
         CASE Type(f, 2) = "LINKRADAR" -> RxLinkRadar(f, 3)
           [] Type(f, 2) = "IPV4" -> <<"ipv4">>
           [] Type(f, 2) = "PAUSE_PFC" -> <<"pfc">>
           [] OTHER -> <<>>

Path == CASE at = "txIngress" -> TxIngressParser(frame)
          [] at = "txEgress" -> TxEgressParser(frame)
          [] at = "rxIngress" -> RxIngressParser(frame)
          [] at = "rxEgress" -> RxEgressParser(frame)
          [] OTHER -> <<>>

Extracted == [n \in Range(Path) |-> frame[CHOOSE i \in DOMAIN Path : Path[i] = n]]

(* The egress controls drop bridged_meta, and emit no mirror header.       *)
EgressHeaders == Without(Extracted, {"internal"})

Rest == SubSeq(frame, Len(Path) + 1, Len(frame))

-----------------------------------------------------------------------------
(* What leaves a pipeline: the frame is dropped, waits for the egress of   *)
(* its port, or leaves by the port.                                        *)

Dropped == at' = "nowhere" /\ port' = "none" /\ frame' = <<>> /\ UNCHANGED sent

ToEgress(pipeline, p, f) == at' = pipeline /\ port' = p /\ frame' = f /\ UNCHANGED sent

Leaves(ingress, peerIngress, p, f) ==
    IF p = "wire" /\ Type(f, 1) = "PAUSE_PFC" THEN Dropped  \* the peer's MAC obeys and ends it
    ELSE /\ frame' = f
         /\ port' = p
         /\ at' = CASE p = "wire" -> peerIngress
                     [] p = "host" -> "host"
                     [] OTHER -> ingress
         /\ UNCHANGED sent

TxLeaves(p, hdr) == Leaves("txIngress", "rxIngress", p, Deparsed(TxHeaders, hdr, Rest))
RxLeaves(p, hdr) == Leaves("rxIngress", "txIngress", p, Deparsed(RxHeaders, hdr, Rest))

(* A mirrored copy is the frame as it leaves, behind an internal header.   *)
TxMirrored(p, kind, hdr) ==
    ToEgress("txEgress", p, <<Internal(kind)>> \o Deparsed(TxHeaders, hdr, Rest))
RxMirrored(p, kind, hdr) ==
    ToEgress("rxEgress", p, <<Internal(kind)>> \o Deparsed(RxHeaders, hdr, Rest))

-----------------------------------------------------------------------------
(* Sender.                                                                 *)

TxL2Forward(hdr) == IF hdr["ethernet"].to = "txHost" THEN "host" ELSE "wire"

TxForwarded(hdr) ==
    ToEgress("txEgress", TxL2Forward(hdr),
             Deparsed(TxHeaders, With(hdr, Internal("bridged")), Rest))

RemovePktgenAddEther(hdr, type, to) ==
    With(Without(hdr, {"pktgenTimer", "remainingEthernet"}), Ethernet(type, to))

DecapPiggybacked(hdr) == WithType(Without(hdr, {"lack"}), "IPV4")

RetransmittedBuffered(hdr) == [hdr EXCEPT !["data"].reTx = TRUE]  \* mutant

Retransmitted(hdr) ==
    [Without(hdr, {"buffered"}) EXCEPT !["data"].reTx = TRUE]

TxIngress ==
    /\ at = "txIngress"
    /\ LET hdr == Extracted IN
       CASE "pktgenTimer" \in DOMAIN hdr ->
              TxForwarded(RemovePktgenAddEther(hdr, "IPV4", "rxSwitch"))
         [] "lack" \in DOMAIN hdr ->
              IF hdr["lack"].piggyBacked THEN TxForwarded(DecapPiggybacked(hdr)) ELSE Dropped
         [] "buffered" \in DOMAIN hdr ->
              \/ TxLeaves("wire", Retransmitted(hdr))
              \/ TxLeaves("recirc", hdr)
              \/ Dropped
         [] OTHER -> TxForwarded(hdr)

Protected(hdr, blocking) == With(WithType(hdr, "LINKRADAR"), Data(FALSE, blocking))

TxEgress ==
    /\ at = "txEgress"
    /\ LET hdr == EgressHeaders IN
       CASE "data" \notin DOMAIN hdr /\ port # "wire" -> TxLeaves(port, hdr)
         [] "data" \notin DOMAIN hdr /\ port = "wire" ->
              \E blocking \in Modes :
                \/ TxLeaves(port, Protected(hdr, blocking))
                \/ TxMirrored("recirc", "bufferedPkt", Protected(hdr, blocking))
         [] Kind(frame) = "bufferedPkt" -> TxLeaves(port, With(hdr, BufferedHeader))
         [] OTHER ->
              \/ TxLeaves(port, hdr)
              \/ hdr["data"].dummy /\ (TxMirrored(port, "dummyPkt", hdr) \/ Dropped)

-----------------------------------------------------------------------------
(* Receiver.                                                               *)

RxL2Forward(hdr) == IF hdr["ethernet"].to \in {"rxHost", "rxSwitch"} THEN "host" ELSE "wire"

RxForwarded(p, hdr) ==
    ToEgress("rxEgress", p, Deparsed(RxHeaders, With(hdr, Internal("bridged")), Rest))

(* The receiver marks the test traffic it sees retransmitted, which the    *)
(* switch behind it counts once; the frames of hosts stay as they are.     *)
MarkRetxPkt(hdr) ==
    [hdr EXCEPT !["ethernet"].marked =
        @ \/ (port = "lpbk" /\ hdr["data"].reTx /\ hdr["ethernet"].to = "rxSwitch")]

DecapData(hdr) == WithType(Without(hdr, {"data"}), "IPV4")
DecapDataOnly(hdr) == DecapData(hdr)  \* mutant
DecapDataAndRxBuffered(hdr) == Without(DecapData(hdr), {"rxBuffered"})

RxBuffered(hdr) ==
    With([hdr EXCEPT !["data"].rxBuffered = TRUE], Plain("rxBuffered"))

AddPfcHeader(hdr) ==
    With(RemovePktgenAddEther(hdr, "PAUSE_PFC", "txSwitch"), Plain("pfc"))

(* Ingress mirroring copies the frame as it came in; both sessions         *)
(* truncate the copy behind what the egress parser extracts of it.         *)
IngressMirrored ==
    \/ ToEgress("rxEgress", "internal", <<Internal("lackUpdate")>>)
    \/ ToEgress("rxEgress", "wire", <<Internal("lossNotification"), frame[1]>>)

HandleData(hdr) ==
    CASE hdr["data"].dummy -> Dropped
      [] ~hdr["data"].dummy /\ ~hdr["data"].blocking ->
           RxForwarded(RxL2Forward(hdr), DecapData(hdr))
      [] OTHER ->
           \/ RxForwarded(RxL2Forward(hdr), DecapDataAndRxBuffered(hdr))
           \/ RxForwarded("recirc", RxBuffered(hdr))
           \/ Dropped

RxIngress ==
    /\ at = "rxIngress"
    /\ LET hdr == Extracted IN
       CASE "pktgenTimer" \in DOMAIN hdr -> RxForwarded("wire", AddPfcHeader(hdr))
         [] port = "wire" -> RxLeaves("lpbk", hdr) \/ Dropped
         [] port # "wire" /\ "data" \in DOMAIN hdr ->
              \/ port = "lpbk" /\ ~hdr["data"].reTx /\ IngressMirrored
              \/ HandleData(MarkRetxPkt(hdr))
         [] OTHER -> RxForwarded(RxL2Forward(hdr), hdr)

AddLack(hdr) == With(WithType(hdr, "LINKRADAR"), LackHeader("LACK", TRUE))

LossNotificationHeaders(hdr) ==
    With(With(With(hdr, Ethernet("LINKRADAR", "txSwitch")),
              LackHeader("LACK_LOSS_NOTIFY", FALSE)), Plain("lossNotification"))

RxEgress ==
    /\ at = "rxEgress"
    /\ LET hdr == EgressHeaders IN
       CASE Kind(frame) = "lackUpdate" -> Dropped
         [] Kind(frame) = "lossNotification" ->
              \/ RxLeaves(port, LossNotificationHeaders(hdr))
              \/ RxLeaves(port, With(With(hdr, Ethernet("PAUSE_PFC", "txSwitch")), Plain("pfc")))
         [] "rxBuffered" \in DOMAIN hdr -> RxLeaves(port, hdr)
         [] "pfc" \in DOMAIN hdr -> RxLeaves(port, hdr) \/ Dropped
         [] "lack" \in DOMAIN hdr ->
              RxMirrored(port, "courierPkt", hdr) \/ RxLeaves(port, hdr) \/ Dropped
         [] OTHER ->
              \/ RxLeaves(port, hdr)
              \/ port = "wire" /\ RxLeaves(port, AddLack(hdr))

-----------------------------------------------------------------------------
(* The frames that enter: the hosts', the test traffic and the timer of    *)
(* the packet generators, and the packets the set-up injects.              *)

UserPayloads(type) ==
    IF type = "ARP" THEN {<<Plain("arp")>>}
    ELSE {<<Ipv4("TCP"), Plain("tcp")>>, <<Ipv4("UDP"), Plain("udp")>>, <<Ipv4("OTHER")>>}

Enters(pipeline, p, f, original) ==
    at' = pipeline /\ port' = p /\ frame' = f /\ sent' = original

HostSends ==
    \E type \in UserTypes : \E payload \in UserPayloads(type) :
      LET f(to) == <<Ethernet(type, to)>> \o payload IN
      \/ Enters("txIngress", "host", f("rxHost"), f("rxHost"))
      \/ Enters("rxIngress", "host", f("txHost"), f("txHost"))

PktgenTimer == [h |-> "pktgenTimer", type |-> "PKTGEN"]

TestTraffic ==
    Enters("txIngress", "pktgen", <<PktgenTimer, Plain("remainingEthernet"), Ipv4("OTHER")>>,
           <<Ethernet("IPV4", "rxSwitch"), Ipv4("OTHER")>>)

TimerTick ==
    Enters("rxIngress", "pktgen", <<PktgenTimer, Plain("remainingEthernet"), Plain("pfc")>>, <<>>)

InitialDummyPkt ==
    Enters("txIngress", "cpu",
           <<Ethernet("LINKRADAR", "dummyQueue"), Data(TRUE, FALSE), Ipv4("UDP"), Plain("udp")>>, <<>>)

InitialCourierPkt ==
    Enters("rxIngress", "cpu",
           <<Ethernet("LINKRADAR", "courierQueue"), LackHeader("LACK", FALSE),
             Ipv4("TCP"), Plain("tcp")>>, <<>>)

FrameEnters ==
    /\ at \in {"host", "nowhere"}
    /\ HostSends \/ TestTraffic \/ TimerTick \/ InitialDummyPkt \/ InitialCourierPkt

PacketsInit == at = "nowhere" /\ port = "none" /\ frame = <<>> /\ sent = <<>>

PacketsNext == TxIngress \/ TxEgress \/ RxIngress \/ RxEgress \/ FrameEnters

PacketsSpec == PacketsInit /\ [][PacketsNext]_packetVars

-----------------------------------------------------------------------------
(* Properties.                                                             *)

Ingresses == {"txIngress", "rxIngress"}
Egresses == {"txEgress", "rxEgress"}
LinkHeaders == {"buffered", "data", "rxBuffered", "lack", "lossNotification"}
SwitchHeaders == {"internal", "pktgenTimer", "remainingEthernet", "buffered", "rxBuffered"}
Names(f) == {f[i].h : i \in DOMAIN f}

(* Whatever pipeline a frame or a copy comes from, the next parser finds   *)
(* each header where it extracts it, and no header of the link stays       *)
(* behind unparsed: the header orders and the leading type bits of all     *)
(* four parsers and deparsers fit (headers.p4 marks the order IMP).  What  *)
(* waits for an egress starts with the internal header its parser looks at *)
(* first, and nothing else has one.                                        *)
ParsersFit ==
    /\ at \in Egresses <=> "internal" \in Names(frame)
    /\ at \in Egresses => frame[1].h = "internal"
    /\ Len(Path) <= Len(frame)
    /\ \A i \in DOMAIN Path : frame[i].h = Path[i]
    /\ Names(Rest) \cap LinkHeaders = {}

(* A frame that reaches a host is the frame a host sent, whether it was    *)
(* protected, retransmitted, held back, or carried a LACK on its way; only *)
(* in the test traffic may mark_retx_pkt have changed the source address.  *)
FramesRestored ==
    at = "host" =>
        \/ frame = sent
        \/ /\ sent[1].to = "rxSwitch"
           /\ frame = [sent EXCEPT ![1].marked = TRUE]

(* The headers a switch uses inside (bridged and mirrored data, the two    *)
(* buffers' headers) never appear on the link, and one frame on the link   *)
(* carries at most one of data and LACK.                                   *)
InternalHeadersStayInside ==
    at \in Ingresses /\ port = "wire" =>
        /\ Names(frame) \cap SwitchHeaders = {}
        /\ ~ {"data", "lack"} \subseteq Names(frame)
=============================================================================
