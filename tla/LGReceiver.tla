---------------------------- MODULE LGReceiver -----------------------------
(***************************************************************************)
(* The receiver switch (receiver.p4).  Its ingress finds holes in the      *)
(* arriving numbers and, in blocking mode, hands packets on in order:      *)
(* packets that are early recirculate in the rx buffer, and a timer gives  *)
(* up on a packet that does not come.  Its egress sends LACKs and loss     *)
(* notifications back to the sender.                                       *)
(***************************************************************************)
EXTENDS LGWires

CONSTANTS
    BlockingMode,   \* the header's blocking_mode bit
    LackMax,        \* count of get_leading_ack_notify_max_count
    HoleSizeRange,  \* 2^8: hole_size is an 8-bit field
    TimeoutVal,     \* TIMEOUT_VAL_100NS, in timer packets
    MayTimeout,     \* the numbers at which the receiver may give up
    CrossPortRace   \* the two mirror queues may overtake each other

ASSUME ReceiverAssumption ==
    /\ BlockingMode \in BOOLEAN
    /\ LackMax \in Nat \ {0}
    /\ HoleSizeRange \in Nat \ {0}
    /\ TimeoutVal \in Nat
    /\ MayTimeout \subseteq SeqNo
    /\ CrossPortRace \in BOOLEAN

VARIABLES
    expectedSeqNo,      \* reg_expected_seq_no
    expectedId,         \* the packet that number means (history)
    lackUpdates,        \* mirrored LACK updates, queued for port 68
    lossNotifications,  \* mirrored loss notifications, queue 2 of port 36
    rxLack,             \* egress reg_leading_ack, reg_leading_ack_era
    lackNotifyCount,    \* reg_leading_ack_notify_count
    ackNo,              \* reg_ack.ack_no: next number to hand on
    ackEra,             \* reg_ack_era
    timeRemaining,      \* reg_ack.time_remaining
    rxBuffer,           \* early packets, in recirculation
    delivered,          \* packets handed on, in order (history)
    gaveUp              \* packets the timer skipped (history)

receiverVars == <<expectedSeqNo, expectedId, lackUpdates, lossNotifications,
                  rxLack, lackNotifyCount, ackNo, ackEra, timeRemaining,
                  rxBuffer, delivered, gaveUp>>

ingressVars  == <<expectedSeqNo, expectedId>>
queueVars    == <<lackUpdates, lossNotifications>>
egressVars   == <<rxLack, lackNotifyCount>>
blockingVars == <<ackNo, ackEra, timeRemaining, gaveUp>>

\* A mirrored loss notification: its own LACK, the hole it reports.
Notification == [lack : Lack, first : SeqNo, hole : Nat]

ReceiverTypeOK ==
    /\ expectedSeqNo \in SeqNo
    /\ expectedId \in Nat
    /\ lackUpdates \in Seq(Lack)
    /\ lossNotifications \in Seq(Notification)
    /\ rxLack \in Lack
    /\ lackNotifyCount \in 0 .. LackMax
    /\ ackNo \in SeqNo
    /\ ackEra \in Era
    /\ timeRemaining \in 0 .. TimeoutVal
    /\ rxBuffer \subseteq Packet
    /\ delivered \in Seq(Nat)
    /\ gaveUp \subseteq Nat /\ IsFiniteSet(gaveUp)

ReceiverInit ==
    /\ expectedSeqNo = 0
    /\ expectedId = 0
    /\ lackUpdates = <<>>
    /\ lossNotifications = <<>>
    /\ rxLack = [id |-> 0, seq |-> 0, era |-> 0]
    /\ lackNotifyCount = 0
    /\ ackNo = 0
    /\ ackEra = 0
    /\ timeRemaining = TimeoutVal
    /\ rxBuffer = {}
    /\ delivered = <<>>
    /\ gaveUp = {}

-----------------------------------------------------------------------------
(***************************************************************************)
(* Hole detection.  The next number expected becomes the one after a       *)
(* normal packet, or a dummy packet's own number.                          *)
(***************************************************************************)
PktsLost(pkt) == Sub(pkt.seq, expectedSeqNo)

\* Mutant of NotificationLack: a dummy packet acknowledges its own number.
DummyLackOwnNumber(pkt) == [id |-> pkt.id, seq |-> pkt.seq, era |-> pkt.era]

\* Mutant of NotificationLack: the LACK keeps the dummy packet's era.
DummyLackSameEra(pkt) ==
    IF ~pkt.dummy
    THEN [id |-> pkt.id, seq |-> pkt.seq, era |-> pkt.era]
    ELSE [id |-> pkt.id - 1, seq |-> Sub(pkt.seq, 1), era |-> pkt.era]

\* The LACK of a loss notification: a normal packet's own number, the one
\* before a dummy packet's, in the era before if that is the last number.
NotificationLack(pkt) ==
    IF ~pkt.dummy
    THEN [id |-> pkt.id, seq |-> pkt.seq, era |-> pkt.era]
    ELSE [id  |-> pkt.id - 1,
          seq |-> Sub(pkt.seq, 1),
          era |-> IF pkt.seq = 0 THEN Flip(pkt.era) ELSE pkt.era]

LossNotification(pkt) ==
    [lack  |-> NotificationLack(pkt),
     first |-> expectedSeqNo,
     hole  |-> PktsLost(pkt) % HoleSizeRange]

\* The LACK of a mirrored LACK update.
LackUpdate(pkt) == [id |-> pkt.id, seq |-> pkt.seq, era |-> pkt.era]

\* get_update_expected_seq_no.
UpdateExpected(pkt) ==
    /\ expectedSeqNo' = IF pkt.dummy THEN pkt.seq ELSE Inc(pkt.seq)
    /\ expectedId' = IF pkt.dummy THEN pkt.id ELSE pkt.id + 1

DetectHole(pkt) ==
    /\ UpdateExpected(pkt)
    /\ \/ /\ PktsLost(pkt) # 0
          /\ lossNotifications' =
                Append(lossNotifications, LossNotification(pkt))
          /\ UNCHANGED lackUpdates
       \/ /\ PktsLost(pkt) = 0
          /\ ~pkt.dummy
          /\ lackUpdates' = Append(lackUpdates, LackUpdate(pkt))
          /\ UNCHANGED lossNotifications
       \/ /\ PktsLost(pkt) = 0
          /\ pkt.dummy
          /\ UNCHANGED queueVars

(***************************************************************************)
(* Blocking mode, for a packet from the wire or from the rx buffer:        *)
(* "others" is what the rx buffer holds besides it.                        *)
(***************************************************************************)
IsNext(pkt) == pkt.seq = ackNo

\* min_val = curr_ack, after era correction: the packet is early.
Early(pkt) ==
    pkt.seq # ackNo /\ AtOrBefore(ackNo, ackEra, pkt.seq, pkt.era)

HandOn(pkt, others) ==
    /\ IsNext(pkt)
    /\ delivered' = Append(delivered, pkt.id)
    /\ rxBuffer' = others
    /\ ackNo' = Inc(ackNo)
    /\ ackEra' = IF ackNo = MaxSeqNo THEN Flip(ackEra) ELSE ackEra
    /\ timeRemaining' = TimeoutVal
    /\ UNCHANGED gaveUp

Recirculate(pkt, others) ==
    /\ Early(pkt)
    /\ rxBuffer' = others \cup {pkt}
    /\ UNCHANGED <<delivered, ackNo, ackEra, timeRemaining, gaveUp>>

DropDuplicate(pkt, others) ==
    /\ ~IsNext(pkt) /\ ~Early(pkt)
    /\ rxBuffer' = others
    /\ UNCHANGED <<delivered, ackNo, ackEra, timeRemaining, gaveUp>>

InOrder(pkt, others) ==
    \/ HandOn(pkt, others)
    \/ Recirculate(pkt, others)
    \/ DropDuplicate(pkt, others)

\* Mutant of Forward: the blocking_mode bit is not looked at.
ForwardAtOnce(pkt) ==
    delivered' = Append(delivered, pkt.id) /\ UNCHANGED <<rxBuffer, blockingVars>>

\* A protected packet that is not a dummy: decapsulated and handed on at
\* once, or put in order first.
Forward(pkt) ==
    \/ ~BlockingMode /\ delivered' = Append(delivered, pkt.id)
                     /\ UNCHANGED <<rxBuffer, blockingVars>>
    \/ BlockingMode  /\ InOrder(pkt, rxBuffer)

(***************************************************************************)
(* Ingress of the next packet of the wire.  A retransmitted packet does    *)
(* not take part in hole detection; a dummy packet is dropped after it.    *)
(***************************************************************************)
ReceivePacket ==
    /\ toRx # <<>>
    /\ toRx' = Tail(toRx)
    /\ \/ /\ Head(toRx).copy = 0
          /\ DetectHole(Head(toRx))
       \/ /\ Head(toRx).copy > 0
          /\ UNCHANGED <<ingressVars, queueVars>>
    /\ \/ /\ Head(toRx).dummy
          /\ UNCHANGED <<delivered, rxBuffer, blockingVars>>
       \/ /\ ~Head(toRx).dummy
          /\ Forward(Head(toRx))
    /\ UNCHANGED <<egressVars, toTx, lossesLeft>>

\* Ingress of a packet that comes round in the rx buffer; one that is still
\* early goes round again, which changes nothing.
ReprocessBuffered(pkt) ==
    /\ pkt \in rxBuffer
    /\ ~Early(pkt)
    /\ InOrder(pkt, rxBuffer \ {pkt})
    /\ UNCHANGED <<ingressVars, queueVars, egressVars, wireVars>>

\* The packet the ack waits for, in blocking mode (history).
AckId == Len(delivered) + Cardinality(gaveUp)

\* Mutant of AckLags: the ack steps on also when it has caught up.
AckAlwaysLags == TRUE

\* Mutant of AckLags: the two numbers are compared as if they never wrapped.
AckBelowExpected == ackNo < expectedSeqNo

\* expected_ack_nos_diff.
AckLags == ackNo # expectedSeqNo

(***************************************************************************)
(* Ingress of a timer packet, in blocking mode (nothing reads the ack      *)
(* otherwise).  While the ack lags behind the expected number the timer    *)
(* runs down, then the ack steps over one packet; reg_ack_era is left.     *)
(***************************************************************************)
TimerPacket ==
    /\ BlockingMode
    /\ AckLags
    /\ \/ /\ timeRemaining = 0
          /\ ackNo \in MayTimeout
          /\ ackNo' = Inc(ackNo)
          /\ timeRemaining' = TimeoutVal
          /\ gaveUp' = gaveUp \cup {AckId}
       \/ /\ timeRemaining > 0
          /\ timeRemaining' = timeRemaining - 1
          /\ UNCHANGED <<ackNo, gaveUp>>
    /\ UNCHANGED <<ackEra, rxBuffer, delivered, ingressVars, queueVars,
                   egressVars, wireVars>>

-----------------------------------------------------------------------------
\* Mutant of ArmedLackCount: a LACK update does not arm the couriers.
\* Mutant of SilencedLackCount: the LACK in the register stays armed.
KeptLackCount == lackNotifyCount

\* set_leading_ack_notify_max_count, set_leading_ack_notify_max_count_to_zero.
ArmedLackCount    == LackMax
SilencedLackCount == 0

(***************************************************************************)
(* The egress.  Mirrored LACK updates go to port 68 and loss notifications *)
(* to port 36: without CrossPortRace they reach the egress in the order in *)
(* which the ingress mirrored them.                                        *)
(***************************************************************************)
EgressLackUpdate ==
    /\ lackUpdates # <<>>
    /\ CrossPortRace \/ \A i \in DOMAIN lossNotifications :
                            lossNotifications[i].lack.id > Head(lackUpdates).id
    /\ rxLack' = Head(lackUpdates)
    /\ lackNotifyCount' = ArmedLackCount
    /\ lackUpdates' = Tail(lackUpdates)
    /\ UNCHANGED <<lossNotifications, ingressVars, blockingVars, rxBuffer,
                   delivered, wireVars>>

\* add_lack_loss_notification_hdrs, copy_data_to_loss_notification_hdrs.
LossMessage(n) ==
    [lack |-> n.lack, loss |-> TRUE, first |-> n.first, hole |-> n.hole]

\* A courier or piggybacked LACK.
LackMessage(lack) == [lack |-> lack, loss |-> FALSE, first |-> 0, hole |-> 0]

\* A loss notification goes out with its own LACK and silences the LACK that
\* is in the register.
EgressLossNotification ==
    /\ lossNotifications # <<>>
    /\ CrossPortRace \/ \A i \in DOMAIN lackUpdates :
                            lackUpdates[i].id > Head(lossNotifications).lack.id
    /\ toTx' = Append(toTx, LossMessage(Head(lossNotifications)))
    /\ lackNotifyCount' = SilencedLackCount
    /\ lossNotifications' = Tail(lossNotifications)
    /\ UNCHANGED <<rxLack, lackUpdates, ingressVars, blockingVars, rxBuffer,
                   delivered, toRx, lossesLeft>>

(***************************************************************************)
(* Egress of the courier packet, or of a normal packet of the reverse      *)
(* direction the LACK is piggybacked on: both wait in queues of port 36    *)
(* below that of the loss notifications.                                   *)
(***************************************************************************)
EgressLack ==
    /\ lossNotifications = <<>>
    /\ lackNotifyCount > 0
    /\ lackNotifyCount' = lackNotifyCount - 1
    /\ toTx' = Append(toTx, LackMessage(rxLack))
    /\ UNCHANGED <<rxLack, queueVars, ingressVars, blockingVars, rxBuffer,
                   delivered, toRx, lossesLeft>>

ReceiverNext ==
    \/ ReceivePacket
    \/ \E pkt \in rxBuffer : ReprocessBuffered(pkt)
    \/ TimerPacket
    \/ EgressLackUpdate
    \/ EgressLossNotification
    \/ EgressLack
============================================================================
