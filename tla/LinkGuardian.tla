---------------------------- MODULE LinkGuardian ---------------------------
(***************************************************************************)
(* One protected link: the sender switch, the receiver switch and the      *)
(* wires between them.                                                     *)
(***************************************************************************)
EXTENDS LGSender, LGReceiver

vars == <<wireVars, senderVars, receiverVars>>

TypeOK == WiresTypeOK /\ SenderTypeOK /\ ReceiverTypeOK

Init == WiresInit /\ SenderInit /\ ReceiverInit

Elements(s) == {s[i] : i \in DOMAIN s}

(***************************************************************************)
(* The packets some header still in the system refers to.  A 16-bit number *)
(* covers 2^16 packets and the round trip of the link a few hundred, so no *)
(* such packet is half the range behind the newest one: an assumption on   *)
(* the timing of the link that the code rests on and does not check.       *)
(***************************************************************************)
LiveIds ==
    {c.id : c \in txBuffer}
        \cup {p.id : p \in Elements(toRx) \cup rxBuffer}
        \cup {m.lack.id : m \in Elements(toTx) \cup Elements(lossNotifications)}
        \cup {l.id : l \in Elements(lackUpdates)}
        \cup (IF lackNotifyCount > 0 THEN {rxLack.id} ELSE {})
        \cup (IF BlockingMode THEN {AckId} ELSE {})
        \cup {leadingAck.id}

WithinWindow == \A n \in LiveIds : sent - n < HalfRange

Next ==
    \/ WithinWindow /\ SendNormal /\ UNCHANGED receiverVars
    \/ SenderNext /\ UNCHANGED receiverVars
    \/ ReceiverNext /\ UNCHANGED senderVars

Spec == Init /\ [][Next]_vars

(***************************************************************************)
(* Fairness: the data plane never stops.  Packets circulate (buffered      *)
(* copies, courier and dummy packets, rx buffer), mirrored packets leave   *)
(* their queues, the wires deliver, the packet generator ticks.  Nothing   *)
(* is asked of the traffic, which may stop at any time.                    *)
(***************************************************************************)
Fairness ==
    /\ WF_vars(SendDummy /\ UNCHANGED receiverVars)
    /\ WF_vars(RecordLeadingAck /\ UNCHANGED receiverVars)
    /\ WF_vars((\E c \in txBuffer : ProcessBuffered(c)) /\ UNCHANGED receiverVars)
    /\ WF_vars(ReceivePacket /\ UNCHANGED senderVars)
    /\ WF_vars((\E p \in rxBuffer : ReprocessBuffered(p)) /\ UNCHANGED senderVars)
    /\ WF_vars(TimerPacket /\ UNCHANGED senderVars)
    /\ WF_vars(EgressLackUpdate /\ UNCHANGED senderVars)
    /\ WF_vars(EgressLossNotification /\ UNCHANGED senderVars)
    /\ WF_vars(EgressLack /\ UNCHANGED senderVars)

FairSpec == Spec /\ Fairness

-----------------------------------------------------------------------------
Numbered(h) == h.seq = SeqOf(h.id) /\ h.era = EraOf(h.id)

(***************************************************************************)
(* Both switches count alike, across every wrap: each packet, buffered     *)
(* copy and LACK in the system carries the number and the era of the       *)
(* packet it stands for, the LACK made from a dummy packet's number        *)
(* included, and so do the registers.                                      *)
(***************************************************************************)
HeadersFaithful ==
    /\ regSeqNo = SeqOf(sent) /\ regEra = EraOf(sent)
    /\ expectedSeqNo = SeqOf(expectedId)
    /\ \A c \in txBuffer : Numbered(c)
    /\ \A p \in Elements(toRx) \cup rxBuffer : Numbered(p)
    /\ \A l \in {leadingAck, rxLack} \cup Elements(lackUpdates) : Numbered(l)
    /\ \A m \in Elements(toTx) \cup Elements(lossNotifications) :
            Numbered(m.lack)

BufferedIds == {c.id : c \in txBuffer}

\* Fewer than NumHoles packets were lost right before n: the sender has a
\* register for n in whatever hole n is reported with.
Recoverable(n) == \E k \in 1 .. NumHoles : n - k \notin lost

(***************************************************************************)
(* The sender never frees the copy of a lost packet it could still         *)
(* retransmit: no LACK at or beyond the packet overtakes the loss          *)
(* notification that covers it, and the era-corrected comparison never     *)
(* takes a LACK for a later one.                                           *)
(***************************************************************************)
BufferedUntilRecovered ==
    \A n \in lost : Recoverable(n) => n \in BufferedIds \cup retransmitted

(***************************************************************************)
(* A hole bit stands for a lost packet whose copy still circulates.  A bit *)
(* left behind would retransmit the packet that has the number one wrap    *)
(* later.                                                                  *)
(***************************************************************************)
NoStaleHole ==
    \A k \in 1 .. NumHoles : \A s \in holes[k] :
        \E c \in txBuffer : c.seq = s /\ c.id \in lost

(***************************************************************************)
(* Only lost packets are retransmitted, so in the mode without             *)
(* de-duplication the user sees a packet twice only as copies of one       *)
(* retransmission.                                                         *)
(***************************************************************************)
Deliveries(n) == Cardinality({i \in DOMAIN delivered : delivered[i] = n})

NoSpuriousDuplicate ==
    \A n \in 0 .. sent - 1 :
        Deliveries(n) <= IF n \in lost THEN RetxCopies ELSE 1

(***************************************************************************)
(* No accepted packet disappears: it was handed on, or the timer gave up   *)
(* on it, or it is on the wire, in the rx buffer or a lost packet in the   *)
(* tx buffer, unless the hole it was lost in was too large or there were   *)
(* enough corruptions to hit all copies of its retransmission too.         *)
(***************************************************************************)
NothingVanishes ==
    \A n \in 0 .. sent - 1 :
        \/ n \in Elements(delivered) \cup gaveUp
        \/ n \in {p.id : p \in {q \in Elements(toRx) : ~q.dummy} \cup rxBuffer}
        \/ n \in lost \cap BufferedIds
        \/ n \in lost /\ ~Recoverable(n)
        \/ n \in retransmitted /\ MaxLoss - lossesLeft > RetxCopies

\* In blocking mode ack_no and reg_ack_era are those of the packet the
\* receiver waits for.
AckCounts ==
    BlockingMode => ackNo = SeqOf(AckId) /\ ackEra = EraOf(AckId)

(***************************************************************************)
(* In blocking mode the ack, with its era, counts the packets handed on or *)
(* skipped, and never passes the number hole detection expects, across     *)
(* wraps and time-outs: the timer compares the two for equality only, and  *)
(* an ack that got ahead would run through a whole era.                    *)
(***************************************************************************)
AckTracksExpected == AckCounts /\ (BlockingMode => AckId <= expectedId)

\* In blocking mode the protected link is an ordered link.
Ordered == INSTANCE OrderedLink
               WITH accepted <- sent, output <- delivered, skipped <- gaveUp

OrderedLinkSpec == Ordered!Spec

\* ... and does not hold an accepted packet for ever.
OrderedLinkFair == Ordered!FairSpec

(***************************************************************************)
(* The LACK the sender has recorded never goes back: the loss notification *)
(* silences the older LACK that waits in the receiver's register.          *)
(***************************************************************************)
LackNeverRegresses ==
    [][AtOrBefore(leadingAck.seq, leadingAck.era,
                  leadingAck'.seq, leadingAck'.era)]_vars

(***************************************************************************)
(* A lost packet with a hole register left is retransmitted, also when no  *)
(* packet follows it: the dummy packets reveal the loss.                   *)
(***************************************************************************)
LostIsRetransmitted ==
    \A n \in 0 .. NumPackets - 1 :
        (n \in lost /\ Recoverable(n)) ~> (n \in retransmitted)

\* Every copy leaves the recirculation loop of the sender in the end.
BufferDrains ==
    \A n \in 0 .. NumPackets - 1 : (n \in BufferedIds) ~> (n \notin BufferedIds)
============================================================================
