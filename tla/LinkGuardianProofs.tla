------------------------- MODULE LinkGuardianProofs -------------------------
(***************************************************************************)
(* Theorems about LinkGuardian, for every value of its constants: the      *)
(* arithmetic of sequence numbers and eras, types, headers, and the order  *)
(* that the wires preserve, from which follows that in blocking mode the   *)
(* protected link implements OrderedLink.                                  *)
(*                                                                         *)
(* Then about LGFlowControl: the flow-controlled link, in which early      *)
(* packets circulate in a queue and may be held up by it and the sender    *)
(* may be paused, implements LinkGuardian, where the rx buffer is a set;   *)
(* what is proved of LinkGuardian therefore holds of it.                   *)
(***************************************************************************)
EXTENDS LGFlowControl, FiniteSetTheorems, SequenceTheorems, TLAPS

-----------------------------------------------------------------------------
\* The arithmetic of sequence numbers and eras.

\* The first numbers and the last one.
LEMMA ZeroSeqNo == 0 \in SeqNo /\ 1 \in SeqNo /\ MaxSeqNo \in SeqNo
BY HalfRangeAssumption DEF SeqNo, MaxSeqNo, MaxSeqNumbers

\* Counting stays in the range.
LEMMA SeqNoTypes ==
    ASSUME NEW s \in SeqNo, NEW t \in SeqNo
    PROVE  Inc(s) \in SeqNo /\ Sub(s, t) \in SeqNo
BY HalfRangeAssumption DEF Inc, Sub, SeqNo, MaxSeqNo, MaxSeqNumbers

\* Numbers can be compared and added.
LEMMA SeqNoIsNat == SeqNo \subseteq Nat
BY HalfRangeAssumption DEF SeqNo, MaxSeqNo, MaxSeqNumbers

\* So does adding several.
LEMMA PlusType ==
    ASSUME NEW s \in SeqNo, NEW k \in 0 .. MaxSeqNo
    PROVE  Plus(s, k) \in SeqNo
BY HalfRangeAssumption DEF Plus, SeqNo, MaxSeqNo, MaxSeqNumbers

\* The other era is an era.
LEMMA FlipType == ASSUME NEW e \in Era PROVE Flip(e) \in Era
BY DEF Flip, Era

-----------------------------------------------------------------------------
\* A number is its era count times the range plus its place in the range.
LEMMA Quotient ==
    ASSUME NEW n \in Int
    PROVE  /\ n \div MaxSeqNumbers \in Int
           /\ SeqOf(n) \in SeqNo
           /\ n = MaxSeqNumbers * (n \div MaxSeqNumbers) + SeqOf(n)
<1> DEFINE M == MaxSeqNumbers
<1>1. M \in Nat \ {0} /\ MaxSeqNo = M - 1
  BY HalfRangeAssumption DEF MaxSeqNumbers, MaxSeqNo
<1> HIDE DEF M
<1>2. n \div M \in Int /\ (n % M) \in 0 .. M - 1
  BY <1>1
<1>3. n = M * (n \div M) + (n % M)
  BY <1>1
<1> QED
  BY <1>1, <1>2, <1>3 DEF M, SeqOf, SeqNo

\* ... and there is only one way to write it so.
LEMMA Unique ==
    ASSUME NEW q \in Int, NEW s \in SeqNo
    PROVE  /\ SeqOf(MaxSeqNumbers * q + s) = s
           /\ (MaxSeqNumbers * q + s) \div MaxSeqNumbers = q
<1> DEFINE M == MaxSeqNumbers
<1>1. M \in Nat \ {0} /\ s \in 0 .. M - 1
  BY HalfRangeAssumption DEF MaxSeqNumbers, MaxSeqNo, SeqNo
<1> HIDE DEF M
<1>2. ((M * q + s) % M) = s /\ (M * q + s) \div M = q
  BY <1>1
<1> QED
  BY <1>2 DEF M, SeqOf

\* The register arithmetic counts: number and era of the next packet.
LEMMA NextNumber ==
    ASSUME NEW n \in Int
    PROVE  /\ SeqOf(n + 1) = Inc(SeqOf(n))
           /\ EraOf(n + 1) = IF SeqOf(n) = MaxSeqNo
                             THEN Flip(EraOf(n)) ELSE EraOf(n)
<1> DEFINE M == MaxSeqNumbers
           q == n \div MaxSeqNumbers
           s == SeqOf(n)
<1>1. M \in Nat \ {0} /\ MaxSeqNo = M - 1 /\ SeqNo = 0 .. M - 1
  BY HalfRangeAssumption DEF MaxSeqNumbers, MaxSeqNo, SeqNo
<1>2. q \in Int /\ s \in SeqNo /\ n = M * q + s
  BY Quotient
<1> HIDE DEF M, q, s
<1>3. CASE s = MaxSeqNo
  <2>1. n + 1 = M * (q + 1) + 0
    BY <1>1, <1>2, <1>3
  <2>2. SeqOf(n + 1) = 0 /\ (n + 1) \div MaxSeqNumbers = q + 1
    BY <1>2, <2>1, ZeroSeqNo, Unique DEF M
  <2>3. ((q + 1) % 2) = 1 - (q % 2)
    BY <1>2
  <2> QED
    BY <1>3, <2>2, <2>3 DEF s, q, Inc, EraOf, Flip
<1>4. CASE s # MaxSeqNo
  <2>1. n + 1 = M * q + (s + 1) /\ s + 1 \in SeqNo
    BY <1>1, <1>2, <1>4
  <2>2. SeqOf(n + 1) = s + 1 /\ (n + 1) \div MaxSeqNumbers = q
    BY <1>2, <2>1, Unique DEF M
  <2> QED
    BY <1>4, <2>2 DEF s, q, Inc, EraOf
<1> QED
  BY <1>3, <1>4

\* ... and of the packet before.
LEMMA PreviousNumber ==
    ASSUME NEW n \in Int
    PROVE  /\ SeqOf(n - 1) = Sub(SeqOf(n), 1)
           /\ EraOf(n - 1) = IF SeqOf(n) = 0
                             THEN Flip(EraOf(n)) ELSE EraOf(n)
<1>1. n - 1 \in Int /\ (n - 1) + 1 = n
  OBVIOUS
<1>2. SeqOf(n - 1) \in SeqNo /\ SeqOf(n) = Inc(SeqOf(n - 1))
  BY <1>1, Quotient, NextNumber
<1>3. SeqOf(n - 1) = MaxSeqNo <=> SeqOf(n) = 0
  BY <1>2, HalfRangeAssumption DEF Inc, SeqNo, MaxSeqNo, MaxSeqNumbers
<1>4. SeqOf(n - 1) = Sub(SeqOf(n), 1)
  BY <1>2, HalfRangeAssumption DEF Inc, Sub, SeqNo, MaxSeqNo, MaxSeqNumbers
<1>5. EraOf(n) = IF SeqOf(n - 1) = MaxSeqNo
                 THEN Flip(EraOf(n - 1)) ELSE EraOf(n - 1)
  BY <1>1, NextNumber
<1>6. EraOf(n - 1) \in Int
  BY <1>1, Quotient DEF EraOf
<1> QED
  BY <1>3, <1>4, <1>5, <1>6 DEF Flip

\* Every index has an era.
LEMMA EraOfType == ASSUME NEW n \in Int PROVE EraOf(n) \in Era
<1>1. n \div MaxSeqNumbers \in Int
  BY Quotient
<1>2. \A q \in Int : (q % 2) \in {0, 1}
  OBVIOUS
<1> QED
  BY <1>1, <1>2 DEF EraOf, Era

-----------------------------------------------------------------------------
(***************************************************************************)
(* The era correction is exact: of two packets at most half the range      *)
(* apart, comparing headers (sender.p4 and receiver.p4, era_correction and *)
(* the min of the corrected numbers) decides which packet was sent first.  *)
(***************************************************************************)
THEOREM EraComparison ==
    ASSUME NEW a \in Int, NEW b \in Int,
           a - b <= HalfRange, b - a <= HalfRange
    PROVE  AtOrBefore(SeqOf(a), EraOf(a), SeqOf(b), EraOf(b)) <=> a <= b
<1> DEFINE M == MaxSeqNumbers
           H == HalfRange
           p == a \div MaxSeqNumbers
           q == b \div MaxSeqNumbers
           s == SeqOf(a)
           t == SeqOf(b)
<1>1. H \in Nat \ {0} /\ M = 2 * H /\ SeqNo = 0 .. M - 1
  BY HalfRangeAssumption DEF MaxSeqNumbers, MaxSeqNo, SeqNo
<1>2. p \in Int /\ s \in 0 .. M - 1 /\ a = M * p + s
  BY <1>1, Quotient
<1>3. q \in Int /\ t \in 0 .. M - 1 /\ b = M * q + t
  BY <1>1, Quotient
<1>4. a - b <= H /\ b - a <= H
  OBVIOUS
<1>5. EraOf(a) = p % 2 /\ EraOf(b) = q % 2
  BY DEF EraOf
<1> HIDE DEF M, H, p, q, s, t
<1>6. PICK d \in Int : p = q + d
  BY <1>2, <1>3
<1>7. a - b = M * d + (s - t)
  <2>1. M * p = M * q + M * d
    BY <1>1, <1>3, <1>6
  <2> QED
    BY <1>1, <1>2, <1>3, <2>1
<1>8. d \in {-1, 0, 1}
  <2>1. ASSUME d >= 2 PROVE FALSE
    <3>1. M * d >= M * 2
      BY <1>1, <1>6, <2>1
    <3> QED
      BY <1>1, <1>2, <1>3, <1>4, <1>6, <1>7, <3>1
  <2>2. ASSUME d <= -2 PROVE FALSE
    <3>1. M * d <= M * (-2)
      BY <1>1, <1>6, <2>2
    <3> QED
      BY <1>1, <1>2, <1>3, <1>4, <1>6, <1>7, <3>1
  <2> QED
    BY <1>6, <2>1, <2>2
<1>9. CASE d = 0
  <2>1. EraOf(a) = EraOf(b)
    BY <1>3, <1>5, <1>6, <1>9
  <2>2. a - b = s - t
    BY <1>1, <1>2, <1>3, <1>7, <1>9
  <2>3. AtOrBefore(s, EraOf(a), t, EraOf(b)) <=> s <= t
    BY <1>1, <1>2, <1>3, <2>1 DEF AtOrBefore, Correction, Sub
  <2> QED
    BY <1>1, <1>2, <1>3, <2>2, <2>3 DEF s, t
<1>10. ASSUME d = 1 \/ d = -1
       PROVE  AtOrBefore(s, EraOf(a), t, EraOf(b)) <=> Sub(s, H) <= Sub(t, H)
  <2>1. EraOf(a) # EraOf(b)
    BY <1>3, <1>5, <1>6, <1>10
  <2> QED
    BY <2>1 DEF AtOrBefore, Correction, H
<1>11. CASE d = 1
  <2>1. a - b = M + (s - t)
    BY <1>1, <1>2, <1>3, <1>7, <1>11
  <2>2. t >= H /\ s < H /\ ~(a <= b)
    BY <1>1, <1>2, <1>3, <1>4, <2>1
  <2>3. Sub(s, H) = s + H /\ Sub(t, H) = t - H
    BY <1>1, <1>2, <1>3, <2>2 DEF Sub, M
  <2>4. ~(Sub(s, H) <= Sub(t, H))
    BY <1>1, <1>2, <1>3, <2>2, <2>3
  <2> QED
    BY <1>10, <1>11, <2>2, <2>4 DEF s, t
<1>12. CASE d = -1
  <2>1. b - a = M + (t - s)
    BY <1>1, <1>2, <1>3, <1>7, <1>12
  <2>2. s >= H /\ t < H /\ a <= b
    BY <1>1, <1>2, <1>3, <1>4, <2>1
  <2>3. Sub(s, H) = s - H /\ Sub(t, H) = t + H
    BY <1>1, <1>2, <1>3, <2>2 DEF Sub, M
  <2>4. Sub(s, H) <= Sub(t, H)
    BY <1>1, <1>2, <1>3, <2>2, <2>3
  <2> QED
    BY <1>10, <1>12, <2>2, <2>4 DEF s, t
<1> QED
  BY <1>8, <1>9, <1>11, <1>12

-----------------------------------------------------------------------------
\* Sequences.

\* What taking from a queue gives.
LEMMA HeadTailType ==
    ASSUME NEW S, NEW q \in Seq(S), q # <<>>
    PROVE  Head(q) \in S /\ Tail(q) \in Seq(S)
OBVIOUS

\* What adding to a queue gives.
LEMMA AppendType ==
    ASSUME NEW S, NEW q \in Seq(S), NEW e \in S
    PROVE  Append(q, e) \in Seq(S)
OBVIOUS

-----------------------------------------------------------------------------
\* Type correctness.

\* The registers after the reset have their types.
LEMMA TypeInit == Init => TypeOK
<1> SUFFICES ASSUME Init PROVE TypeOK
  OBVIOUS
<1> USE ZeroSeqNo DEF Init
<1>1. WiresTypeOK
  BY WiresAssumption DEF WiresInit, WiresTypeOK
<1>2. SenderTypeOK
  BY SenderAssumption DEF SenderInit, SenderTypeOK, Era, Lack
<1>3. ReceiverTypeOK
  BY ReceiverAssumption, FS_EmptySet DEF ReceiverInit, ReceiverTypeOK, Era, Lack
<1> QED
  BY <1>1, <1>2, <1>3 DEF TypeOK

\* A packet that leaves has the type of a packet, or is corrupted.
LEMMA TransmitTypes ==
    ASSUME WiresTypeOK, NEW pkt \in Packet,
           Arrives(pkt) \/ Corrupted(pkt), UNCHANGED toTx
    PROVE  WiresTypeOK'
<1>1. CASE Arrives(pkt)
  BY <1>1, AppendType DEF Arrives, WiresTypeOK
<1>2. CASE Corrupted(pkt)
  BY <1>2, WiresAssumption DEF Corrupted, WiresTypeOK
<1> QED
  BY <1>1, <1>2

\* Copies that leave have the type of their packet.
LEMMA CopiesTypes ==
    ASSUME WiresTypeOK, NEW pkt \in Packet, NEW n \in 0 .. RetxCopies,
           CopiesLeave(pkt, n), UNCHANGED toTx
    PROVE  WiresTypeOK'
<1> DEFINE copies == [i \in 1 .. n |-> [pkt EXCEPT !.copy = i]]
<1>1. copies \in Seq(Packet)
  <2>1. \A i \in 1 .. n : [pkt EXCEPT !.copy = i] \in Packet
    BY WiresAssumption DEF Packet
  <2> QED
    BY <2>1, WiresAssumption
<1>2. toRx' \in Seq(Packet)
  <2>1. toRx' = toRx \o copies
    BY DEF CopiesLeave
  <2> HIDE DEF copies
  <2> QED
    BY <1>1, <2>1, ConcatProperties DEF WiresTypeOK
<1>3. lossesLeft' \in 0 .. MaxLoss
  BY WiresAssumption DEF CopiesLeave, WiresTypeOK
<1> QED
  BY <1>2, <1>3 DEF WiresTypeOK

\* The sender keeps the types.
LEMMA SenderTypes ==
    ASSUME TypeOK, (WithinWindow /\ SendNormal) \/ SenderNext,
           UNCHANGED receiverVars
    PROVE  TypeOK'
<1> USE SenderAssumption
<1>0. ReceiverTypeOK'
  BY DEF TypeOK, ReceiverTypeOK, receiverVars
<1>1. CASE SendNormal
  <2> DEFINE pkt == [id |-> sent, seq |-> regSeqNo, era |-> regEra,
                     dummy |-> FALSE, copy |-> 0]
  <2>1. pkt \in Packet
    BY WiresAssumption DEF TypeOK, SenderTypeOK, Packet
  <2>2. WiresTypeOK'
    BY <1>1, <2>1, TransmitTypes DEF SendNormal, DataHeader, TypeOK
  <2>3. SenderTypeOK'
    <3>1. sent' \in 0 .. NumPackets
      BY <1>1 DEF SendNormal, TypeOK, SenderTypeOK
    <3>2. regSeqNo' \in SeqNo /\ regEra' \in Era
      BY <1>1, SeqNoTypes, FlipType DEF SendNormal, TypeOK, SenderTypeOK
    <3>3. txBuffer' \subseteq Copy
      BY <1>1 DEF SendNormal, BufferedCopy, TypeOK, SenderTypeOK, Copy
    <3>4. lost' \subseteq Nat
      <4>1. lost' = lost \/ lost' = lost \cup {sent}
        BY <1>1 DEF SendNormal
      <4>2. sent \in Nat /\ lost \subseteq Nat
        BY DEF TypeOK, SenderTypeOK
      <4> QED
        BY <4>1, <4>2
    <3> QED
      BY <1>1, <3>1, <3>2, <3>3, <3>4
         DEF SendNormal, RearmedDummyCount, TypeOK, SenderTypeOK
  <2> QED
    BY <1>0, <2>2, <2>3 DEF TypeOK
<1>2. CASE SendDummy
  <2> DEFINE pkt == [id |-> sent, seq |-> regSeqNo, era |-> regEra,
                     dummy |-> TRUE, copy |-> 0]
  <2>1. pkt \in Packet
    BY WiresAssumption DEF TypeOK, SenderTypeOK, Packet
  <2>2. WiresTypeOK'
    BY <1>2, <2>1, TransmitTypes DEF SendDummy, DataHeader, TypeOK
  <2>3. SenderTypeOK'
    BY <1>2 DEF SendDummy, TypeOK, SenderTypeOK
  <2> QED
    BY <1>0, <2>2, <2>3 DEF TypeOK
<1>3. CASE RecordLeadingAck
  <2>1. Head(toTx) \in AckMessage /\ Tail(toTx) \in Seq(AckMessage)
    BY <1>3, HeadTailType DEF RecordLeadingAck, TypeOK, WiresTypeOK
  <2>2. WiresTypeOK'
    BY <1>3, <2>1 DEF RecordLeadingAck, TypeOK, WiresTypeOK
  <2>3. leadingAck' \in Lack
    BY <1>3, <2>1 DEF RecordLeadingAck, AckMessage
  <2>4. holes' \in [1 .. NumHoles -> SUBSET SeqNo]
    <3>1. \A k \in 1 .. NumHoles : Plus(Head(toTx).first, k - 1) \in SeqNo
      BY <2>1, PlusType, HalfRangeAssumption DEF AckMessage, MaxSeqNo, MaxSeqNumbers
    <3> QED
      BY <1>3, <3>1 DEF RecordLeadingAck, SetHoles, TypeOK, SenderTypeOK
  <2>5. SenderTypeOK'
    BY <1>3, <2>3, <2>4 DEF RecordLeadingAck, TypeOK, SenderTypeOK
  <2> QED
    BY <1>0, <2>2, <2>5 DEF TypeOK
<1>4. ASSUME NEW c \in txBuffer, ProcessBuffered(c)
      PROVE  TypeOK'
  <2> DEFINE pkt == [id |-> c.id, seq |-> c.seq, era |-> c.era,
                     dummy |-> FALSE, copy |-> 0]
  <2>1. c \in Copy /\ pkt \in Packet
    BY WiresAssumption DEF TypeOK, SenderTypeOK, Copy, Packet
  <2>2. WiresTypeOK'
    <3>1. CASE IsHole(c.seq)
      <4>1. PICK n \in 0 .. RetxCopies : CopiesLeave(pkt, n)
        BY <1>4, <3>1 DEF ProcessBuffered, Retransmission
      <4> QED
        BY <1>4, <2>1, <4>1, CopiesTypes DEF ProcessBuffered, TypeOK
    <3>2. CASE ~IsHole(c.seq)
      BY <1>4, <3>2 DEF ProcessBuffered, TypeOK, WiresTypeOK
    <3> QED
      BY <3>1, <3>2
  <2>3. SenderTypeOK'
    <3>1. holes' \in [1 .. NumHoles -> SUBSET SeqNo]
      BY <1>4 DEF ProcessBuffered, ResetHoles, TypeOK, SenderTypeOK
    <3>2. txBuffer' \subseteq Copy /\ retransmitted' \subseteq Nat
      BY <1>4, <2>1 DEF ProcessBuffered, TypeOK, SenderTypeOK, Copy
    <3> QED
      BY <1>4, <3>1, <3>2 DEF ProcessBuffered, TypeOK, SenderTypeOK
  <2> QED
    BY <1>0, <2>2, <2>3 DEF TypeOK
<1> QED
  BY <1>1, <1>2, <1>3, <1>4 DEF SenderNext

-----------------------------------------------------------------------------
\* The receiver.

\* So does hole detection.
LEMMA DetectHoleTypes ==
    ASSUME TypeOK, NEW pkt \in Packet, DetectHole(pkt)
    PROVE  /\ expectedSeqNo' \in SeqNo /\ expectedId' \in Nat
           /\ lackUpdates' \in Seq(Lack)
           /\ lossNotifications' \in Seq(Notification)
<1>1. /\ pkt.id \in Nat /\ pkt.seq \in SeqNo /\ pkt.era \in Era
      /\ pkt.dummy \in BOOLEAN
  BY DEF Packet
<1>2. expectedSeqNo' \in SeqNo
  BY <1>1, SeqNoTypes DEF DetectHole, UpdateExpected
<1>3. expectedId' \in Nat
  BY <1>1 DEF DetectHole, UpdateExpected
<1>4. [id |-> pkt.id, seq |-> pkt.seq, era |-> pkt.era] \in Lack
  BY <1>1 DEF Lack
<1>5. NotificationLack(pkt) \in Lack
  BY <1>1, SeqNoTypes, FlipType, ZeroSeqNo DEF NotificationLack, Lack
<1>6. LossNotification(pkt) \in Notification
  <2>1. expectedSeqNo \in SeqNo
    BY DEF TypeOK, ReceiverTypeOK
  <2>2. PktsLost(pkt) \in Nat
    BY <1>1, <2>1, SeqNoTypes, SeqNoIsNat DEF PktsLost
  <2>3. PktsLost(pkt) % HoleSizeRange \in Nat
    BY <2>2, ReceiverAssumption
  <2> QED
    BY <1>5, <2>1, <2>3 DEF LossNotification, Notification
<1>7. lackUpdates' \in Seq(Lack)
  BY <1>4, AppendType DEF DetectHole, LackUpdate, TypeOK, ReceiverTypeOK, queueVars
<1>8. lossNotifications' \in Seq(Notification)
  BY <1>6, AppendType DEF DetectHole, TypeOK, ReceiverTypeOK, queueVars
<1> QED
  BY <1>2, <1>3, <1>7, <1>8

\* The variables blocking mode keeps.
BlockingTypeOK ==
    /\ ackNo \in SeqNo
    /\ ackEra \in Era
    /\ timeRemaining \in 0 .. TimeoutVal
    /\ rxBuffer \subseteq Packet
    /\ delivered \in Seq(Nat)
    /\ gaveUp \subseteq Nat /\ IsFiniteSet(gaveUp)

\* So does the delivery in order.
LEMMA InOrderTypes ==
    ASSUME TypeOK, NEW pkt \in Packet, NEW others \in SUBSET Packet,
           InOrder(pkt, others)
    PROVE  BlockingTypeOK'
<1>0. BlockingTypeOK
  BY DEF TypeOK, ReceiverTypeOK, BlockingTypeOK
<1>1. CASE HandOn(pkt, others)
  <2>1. pkt.id \in Nat
    BY DEF Packet
  <2>2. delivered' \in Seq(Nat)
    BY <1>0, <1>1, <2>1, AppendType DEF HandOn, BlockingTypeOK
  <2>3. ackNo' \in SeqNo /\ ackEra' \in Era
    BY <1>0, <1>1, SeqNoTypes, FlipType DEF HandOn, BlockingTypeOK
  <2>4. timeRemaining' \in 0 .. TimeoutVal
    BY <1>1, ReceiverAssumption DEF HandOn
  <2> QED
    BY <1>0, <1>1, <2>2, <2>3, <2>4 DEF HandOn, BlockingTypeOK
<1>2. CASE Recirculate(pkt, others)
  BY <1>0, <1>2 DEF Recirculate, BlockingTypeOK
<1>3. CASE DropDuplicate(pkt, others)
  BY <1>0, <1>3 DEF DropDuplicate, BlockingTypeOK
<1> QED
  BY <1>1, <1>2, <1>3 DEF InOrder

\* So does a packet that arrives.
LEMMA ReceivePacketTypes == ASSUME TypeOK, ReceivePacket, UNCHANGED senderVars
                            PROVE  TypeOK'
<1> DEFINE pkt == Head(toRx)
<1>1. pkt \in Packet /\ Tail(toRx) \in Seq(Packet)
  BY HeadTailType DEF ReceivePacket, TypeOK, WiresTypeOK
<1>2. SenderTypeOK'
  BY DEF TypeOK, SenderTypeOK, senderVars
<1>3. WiresTypeOK'
  BY <1>1 DEF ReceivePacket, TypeOK, WiresTypeOK
<1>4. /\ expectedSeqNo' \in SeqNo /\ expectedId' \in Nat
      /\ lackUpdates' \in Seq(Lack)
      /\ lossNotifications' \in Seq(Notification)
  <2>1. CASE DetectHole(pkt)
    BY <1>1, <2>1, DetectHoleTypes
  <2>2. CASE UNCHANGED <<ingressVars, queueVars>>
    BY <2>2 DEF TypeOK, ReceiverTypeOK, ingressVars, queueVars
  <2> QED
    BY <2>1, <2>2 DEF ReceivePacket
<1>5. BlockingTypeOK'
  <2>1. CASE UNCHANGED <<delivered, rxBuffer, blockingVars>>
    BY <2>1 DEF TypeOK, ReceiverTypeOK, BlockingTypeOK, blockingVars
  <2>2. CASE delivered' = Append(delivered, pkt.id) /\
             UNCHANGED <<rxBuffer, blockingVars>>
    <3>1. pkt.id \in Nat
      BY <1>1 DEF Packet
    <3>2. delivered' \in Seq(Nat)
      BY <2>2, <3>1, AppendType DEF TypeOK, ReceiverTypeOK
    <3> QED
      BY <2>2, <3>2 DEF TypeOK, ReceiverTypeOK, BlockingTypeOK, blockingVars
  <2>3. CASE InOrder(pkt, rxBuffer)
    <3>1. rxBuffer \in SUBSET Packet
      BY DEF TypeOK, ReceiverTypeOK
    <3> QED
      BY <1>1, <2>3, <3>1, InOrderTypes
  <2> QED
    BY <2>1, <2>2, <2>3 DEF ReceivePacket, Forward
<1>6. rxLack' \in Lack /\ lackNotifyCount' \in 0 .. LackMax
  BY DEF ReceivePacket, egressVars, TypeOK, ReceiverTypeOK
<1> QED
  BY <1>2, <1>3, <1>4, <1>5, <1>6 DEF TypeOK, ReceiverTypeOK, BlockingTypeOK

\* The ack has an identity.
LEMMA AckIdType == TypeOK => AckId \in Nat
BY FS_CardinalityType DEF TypeOK, ReceiverTypeOK, AckId

\* The receiver keeps the types.
LEMMA ReceiverTypes == ASSUME TypeOK, ReceiverNext, UNCHANGED senderVars
                       PROVE  TypeOK'
<1>0. SenderTypeOK'
  BY DEF TypeOK, SenderTypeOK, senderVars
<1>1. CASE ReceivePacket
  BY <1>1, ReceivePacketTypes
<1>2. ASSUME NEW pkt \in rxBuffer, ReprocessBuffered(pkt)
      PROVE  TypeOK'
  <2>1. pkt \in Packet /\ rxBuffer \ {pkt} \in SUBSET Packet
    BY DEF TypeOK, ReceiverTypeOK
  <2>2. BlockingTypeOK'
    BY <1>2, <2>1, InOrderTypes DEF ReprocessBuffered
  <2> QED
    BY <1>0, <1>2, <2>2
       DEF ReprocessBuffered, BlockingTypeOK, TypeOK, ReceiverTypeOK,
           WiresTypeOK, ingressVars, queueVars, egressVars, wireVars
<1>3. CASE TimerPacket
  <2>1. gaveUp' \subseteq Nat /\ IsFiniteSet(gaveUp')
    <3>1. gaveUp \subseteq Nat /\ IsFiniteSet(gaveUp)
      BY DEF TypeOK, ReceiverTypeOK
    <3> QED
      BY <1>3, <3>1, AckIdType, FS_AddElement DEF TimerPacket
  <2>2. ackNo' \in SeqNo
    BY <1>3, SeqNoTypes DEF TimerPacket, TypeOK, ReceiverTypeOK
  <2>3. timeRemaining' \in 0 .. TimeoutVal
    BY <1>3, ReceiverAssumption DEF TimerPacket, TypeOK, ReceiverTypeOK
  <2> QED
    BY <1>0, <1>3, <2>1, <2>2, <2>3
       DEF TimerPacket, TypeOK, ReceiverTypeOK, WiresTypeOK, ingressVars,
           queueVars, egressVars, wireVars
<1>4. CASE EgressLackUpdate
  <2>1. Head(lackUpdates) \in Lack /\ Tail(lackUpdates) \in Seq(Lack)
    BY <1>4, HeadTailType DEF EgressLackUpdate, TypeOK, ReceiverTypeOK
  <2>2. LackMax \in 0 .. LackMax
    BY ReceiverAssumption
  <2> QED
    BY <1>0, <1>4, <2>1, <2>2
       DEF EgressLackUpdate, ArmedLackCount, TypeOK, ReceiverTypeOK,
           WiresTypeOK, ingressVars, blockingVars, wireVars
<1>5. CASE EgressLossNotification
  <2>1. /\ Head(lossNotifications) \in Notification
        /\ Tail(lossNotifications) \in Seq(Notification)
    BY <1>5, HeadTailType DEF EgressLossNotification, TypeOK, ReceiverTypeOK
  <2>2. toTx' \in Seq(AckMessage)
    <3>1. LossMessage(Head(lossNotifications)) \in AckMessage
      BY <2>1 DEF LossMessage, Notification, AckMessage
    <3> QED
      BY <1>5, <3>1, AppendType DEF EgressLossNotification, TypeOK, WiresTypeOK
  <2>3. 0 \in 0 .. LackMax
    BY ReceiverAssumption
  <2> QED
    BY <1>0, <1>5, <2>1, <2>2, <2>3
       DEF EgressLossNotification, SilencedLackCount, TypeOK, ReceiverTypeOK,
           WiresTypeOK, ingressVars, blockingVars
<1>6. CASE EgressLack
  <2>1. toTx' \in Seq(AckMessage)
    <3>1. LackMessage(rxLack) \in AckMessage
      BY ZeroSeqNo DEF LackMessage, AckMessage, TypeOK, ReceiverTypeOK
    <3> QED
      BY <1>6, <3>1, AppendType DEF EgressLack, TypeOK, WiresTypeOK
  <2>2. lackNotifyCount' \in 0 .. LackMax
    BY <1>6, ReceiverAssumption DEF EgressLack, TypeOK, ReceiverTypeOK
  <2> QED
    BY <1>0, <1>6, <2>1, <2>2
       DEF EgressLack, TypeOK, ReceiverTypeOK, WiresTypeOK, queueVars,
           ingressVars, blockingVars
<1> QED
  BY <1>1, <1>2, <1>3, <1>4, <1>5, <1>6 DEF ReceiverNext

\* Every step keeps the types.
LEMMA TypeStep == ASSUME TypeOK, [Next]_vars PROVE TypeOK'
<1>1. CASE WithinWindow /\ SendNormal /\ UNCHANGED receiverVars
  BY <1>1, SenderTypes
<1>2. CASE SenderNext /\ UNCHANGED receiverVars
  BY <1>2, SenderTypes
<1>3. CASE ReceiverNext /\ UNCHANGED senderVars
  BY <1>3, ReceiverTypes
<1>4. CASE UNCHANGED vars
  BY <1>4 DEF vars, wireVars, senderVars, receiverVars, TypeOK, WiresTypeOK,
              SenderTypeOK, ReceiverTypeOK
<1> QED
  BY <1>1, <1>2, <1>3, <1>4 DEF Next

(***************************************************************************)
(* Every register, queue and wire keeps its type: numbers stay in their    *)
(* 16-bit range and eras are bits, through every handler of both switches. *)
(***************************************************************************)
THEOREM TypeCorrect == Spec => []TypeOK
BY TypeInit, TypeStep, PTL DEF Spec

-----------------------------------------------------------------------------
\* What a queue holds after an operation on it.

\* The members of a queue with one more.
LEMMA ElementsAppend ==
    ASSUME NEW S, NEW q \in Seq(S), NEW e \in S
    PROVE  Elements(Append(q, e)) = Elements(q) \cup {e}
<1> DEFINE r == Append(q, e)
<1>1. /\ DOMAIN r = (1 .. Len(q)) \cup {Len(q) + 1}
      /\ r[Len(q) + 1] = e /\ \A i \in 1 .. Len(q) : r[i] = q[i]
  OBVIOUS
<1>2. DOMAIN q = 1 .. Len(q)
  OBVIOUS
<1> HIDE DEF r
<1>3. {r[i] : i \in DOMAIN r} = {q[i] : i \in DOMAIN q} \cup {e}
  BY <1>1, <1>2
<1> QED
  BY <1>3 DEF Elements, r

\* The members of a queue with one less.
LEMMA ElementsHeadTail ==
    ASSUME NEW S, NEW q \in Seq(S), q # <<>>
    PROVE  Head(q) \in Elements(q) /\ Elements(Tail(q)) \subseteq Elements(q)
BY DEF Elements

\* The members of the wire after copies have left.
LEMMA ElementsCopies ==
    ASSUME WiresTypeOK, NEW pkt \in Packet, NEW n \in 0 .. RetxCopies,
           CopiesLeave(pkt, n), NEW p \in Elements(toRx')
    PROVE  \/ p \in Elements(toRx)
           \/ p.id = pkt.id /\ p.seq = pkt.seq /\ p.era = pkt.era
<1> DEFINE copies == [i \in 1 .. n |-> [pkt EXCEPT !.copy = i]]
<1>1. copies \in Seq(Packet)
  <2>1. \A i \in 1 .. n : [pkt EXCEPT !.copy = i] \in Packet
    BY WiresAssumption DEF Packet
  <2> QED
    BY <2>1, WiresAssumption
<1>2. toRx' = toRx \o copies /\ toRx \in Seq(Packet)
  BY DEF CopiesLeave, WiresTypeOK
<1>3. \A i \in DOMAIN copies :
          copies[i].id = pkt.id /\ copies[i].seq = pkt.seq /\ copies[i].era = pkt.era
  BY DEF Packet
<1>4. PICK i \in DOMAIN toRx' : p = toRx'[i]
  BY DEF Elements
<1> HIDE DEF copies
<1>5. CASE i \in DOMAIN toRx
  BY <1>1, <1>2, <1>4, <1>5 DEF Elements
<1>6. CASE i \notin DOMAIN toRx
  <2>1. i - Len(toRx) \in DOMAIN copies /\ toRx'[i] = copies[i - Len(toRx)]
    BY <1>1, <1>2, <1>4, <1>6
  <2> QED
    BY <1>3, <1>4, <2>1
<1> QED
  BY <1>5, <1>6

-----------------------------------------------------------------------------
\* The numbers of the headers: HeadersFaithful is inductive.

\* The headers after the reset are those of packet 0.
LEMMA NumbersInit == Init => HeadersFaithful
<1>1. SeqOf(0) = 0 /\ EraOf(0) = 0
  <2>1. MaxSeqNumbers * 0 + 0 = 0
    BY HalfRangeAssumption DEF MaxSeqNumbers
  <2>2. SeqOf(0) = 0 /\ 0 \div MaxSeqNumbers = 0
    BY <2>1, ZeroSeqNo, Unique
  <2> QED
    BY <2>2 DEF EraOf
<1> QED
  BY <1>1 DEF Init, WiresInit, SenderInit, ReceiverInit, HeadersFaithful,
              Numbered, Elements

\* A packet that leaves adds at most itself to the forward wire.
LEMMA ElementsTransmit ==
    ASSUME WiresTypeOK, NEW pkt \in Packet, Arrives(pkt) \/ Corrupted(pkt)
    PROVE  Elements(toRx') \subseteq Elements(toRx) \cup {pkt}
<1>1. CASE Arrives(pkt)
  BY <1>1, ElementsAppend DEF Arrives, WiresTypeOK
<1>2. CASE Corrupted(pkt)
  BY <1>2 DEF Corrupted
<1> QED
  BY <1>1, <1>2

\* The sender's headers have the number and era of their packet.
LEMMA SenderNumbers ==
    ASSUME TypeOK, HeadersFaithful, SendNormal \/ SenderNext,
           UNCHANGED receiverVars
    PROVE  HeadersFaithful'
<1>0. /\ WiresTypeOK /\ sent \in Nat /\ regSeqNo \in SeqNo /\ regEra \in Era
      /\ txBuffer \subseteq Copy /\ toTx \in Seq(AckMessage)
  BY SenderAssumption DEF TypeOK, WiresTypeOK, SenderTypeOK
<1>1. CASE SendNormal
  <2> DEFINE pkt == [id |-> sent, seq |-> regSeqNo, era |-> regEra,
                     dummy |-> FALSE, copy |-> 0]
  <2>1. pkt \in Packet /\ Numbered(pkt)
    BY <1>0, WiresAssumption DEF Packet, HeadersFaithful, Numbered
  <2>2. Elements(toRx') \subseteq Elements(toRx) \cup {pkt}
    BY <1>0, <1>1, <2>1, ElementsTransmit DEF SendNormal, DataHeader
  <2>3. regSeqNo' = SeqOf(sent') /\ regEra' = EraOf(sent')
    BY <1>0, <1>1, NextNumber DEF SendNormal, HeadersFaithful
  <2>4. \A c \in txBuffer' : Numbered(c)
    BY <1>1 DEF SendNormal, BufferedCopy, HeadersFaithful, Numbered
  <2> QED
    BY <1>1, <2>1, <2>2, <2>3, <2>4
       DEF SendNormal, HeadersFaithful, Numbered, receiverVars
<1>2. CASE SendDummy
  <2> DEFINE pkt == [id |-> sent, seq |-> regSeqNo, era |-> regEra,
                     dummy |-> TRUE, copy |-> 0]
  <2>1. pkt \in Packet /\ Numbered(pkt)
    BY <1>0, WiresAssumption DEF Packet, HeadersFaithful, Numbered
  <2>2. Elements(toRx') \subseteq Elements(toRx) \cup {pkt}
    BY <1>0, <1>2, <2>1, ElementsTransmit DEF SendDummy, DataHeader
  <2> QED
    BY <1>2, <2>1, <2>2 DEF SendDummy, HeadersFaithful, Numbered, receiverVars
<1>3. CASE RecordLeadingAck
  <2>1. Head(toTx) \in Elements(toTx) /\ Elements(toTx') \subseteq Elements(toTx)
    BY <1>0, <1>3, ElementsHeadTail DEF RecordLeadingAck
  <2> QED
    BY <1>3, <2>1 DEF RecordLeadingAck, HeadersFaithful, Numbered, receiverVars
<1>4. ASSUME NEW c \in txBuffer, ProcessBuffered(c)
      PROVE  HeadersFaithful'
  <2> DEFINE pkt == [id |-> c.id, seq |-> c.seq, era |-> c.era,
                     dummy |-> FALSE, copy |-> 0]
  <2>1. pkt \in Packet /\ Numbered(pkt)
    BY <1>0, WiresAssumption DEF Copy, Packet, HeadersFaithful, Numbered
  <2>2. \A p \in Elements(toRx') : Numbered(p)
    <3>1. CASE IsHole(c.seq)
      <4>1. PICK n \in 0 .. RetxCopies : CopiesLeave(pkt, n)
        BY <1>4, <3>1 DEF ProcessBuffered, Retransmission
      <4> QED
        BY <1>0, <2>1, <4>1, ElementsCopies DEF HeadersFaithful, Numbered
    <3>2. CASE ~IsHole(c.seq)
      BY <1>4, <3>2 DEF ProcessBuffered, HeadersFaithful
    <3> QED
      BY <3>1, <3>2
  <2> QED
    BY <1>4, <2>2 DEF ProcessBuffered, HeadersFaithful, Numbered, receiverVars
<1> QED
  BY <1>1, <1>2, <1>3, <1>4 DEF SenderNext

\* So do the reports of hole detection.
LEMMA DetectHoleNumbers ==
    ASSUME TypeOK, HeadersFaithful, NEW pkt \in Packet, Numbered(pkt),
           DetectHole(pkt)
    PROVE  /\ expectedSeqNo' = SeqOf(expectedId')
           /\ \A l \in Elements(lackUpdates') : Numbered(l)
           /\ \A m \in Elements(lossNotifications') : Numbered(m.lack)
<1>1. pkt.id \in Int /\ pkt.seq = SeqOf(pkt.id) /\ pkt.era = EraOf(pkt.id)
  BY DEF Packet, Numbered
<1>2. expectedSeqNo' = SeqOf(expectedId')
  BY <1>1, NextNumber DEF DetectHole, UpdateExpected
<1>3. \A l \in Elements(lackUpdates') : Numbered(l)
  <2> DEFINE lack == [id |-> pkt.id, seq |-> pkt.seq, era |-> pkt.era]
  <2>1. lack \in Lack /\ Numbered(lack)
    BY <1>1 DEF Packet, Lack, Numbered
  <2>2. lackUpdates' = lackUpdates \/ lackUpdates' = Append(lackUpdates, lack)
    BY DEF DetectHole, LackUpdate, queueVars
  <2>3. Elements(lackUpdates') \subseteq Elements(lackUpdates) \cup {lack}
    <3>1. lackUpdates \in Seq(Lack)
      BY DEF TypeOK, ReceiverTypeOK
    <3>2. CASE lackUpdates' = lackUpdates
      BY <3>2
    <3>3. CASE lackUpdates' = Append(lackUpdates, lack)
      BY <2>1, <3>1, <3>3, ElementsAppend
    <3> QED
      BY <2>2, <3>2, <3>3
  <2> QED
    BY <2>1, <2>3 DEF HeadersFaithful
<1>4. \A m \in Elements(lossNotifications') : Numbered(m.lack)
  <2> DEFINE n == LossNotification(pkt)
  <2>1. Numbered(n.lack)
    <3>1. CASE pkt.dummy
      BY <1>1, <3>1, PreviousNumber
         DEF LossNotification, NotificationLack, Numbered
    <3>2. CASE ~pkt.dummy
      BY <1>1, <3>2 DEF LossNotification, NotificationLack, Numbered
    <3> QED
      BY <3>1, <3>2
  <2>2. Elements(lossNotifications') \subseteq Elements(lossNotifications) \cup {n}
    <3>1. CASE UNCHANGED lossNotifications
      BY <3>1
    <3>2. CASE lossNotifications' = Append(lossNotifications, n)
      BY <3>2 DEF Elements, TypeOK, ReceiverTypeOK
    <3> QED
      BY <3>1, <3>2 DEF DetectHole, queueVars
  <2> QED
    BY <2>1, <2>2 DEF HeadersFaithful
<1> QED
  BY <1>2, <1>3, <1>4

\* So do the receiver's headers.
LEMMA ReceiverNumbers ==
    ASSUME TypeOK, HeadersFaithful, ReceiverNext, UNCHANGED senderVars
    PROVE  HeadersFaithful'
<1>0. /\ toRx \in Seq(Packet) /\ toTx \in Seq(AckMessage)
      /\ lackUpdates \in Seq(Lack) /\ lossNotifications \in Seq(Notification)
      /\ rxLack \in Lack
  BY DEF TypeOK, WiresTypeOK, ReceiverTypeOK
<1>1. CASE ReceivePacket
  <2> DEFINE pkt == Head(toRx)
  <2>1. /\ pkt \in Packet /\ pkt \in Elements(toRx)
        /\ Elements(toRx') \subseteq Elements(toRx)
    BY <1>0, <1>1, HeadTailType, ElementsHeadTail DEF ReceivePacket
  <2>2. Numbered(pkt)
    BY <2>1 DEF HeadersFaithful
  <2>3. /\ expectedSeqNo' = SeqOf(expectedId')
        /\ \A l \in Elements(lackUpdates') : Numbered(l)
        /\ \A m \in Elements(lossNotifications') : Numbered(m.lack)
    <3>1. CASE DetectHole(pkt)
      BY <2>1, <2>2, <3>1, DetectHoleNumbers
    <3>2. CASE UNCHANGED <<ingressVars, queueVars>>
      BY <3>2 DEF HeadersFaithful, ingressVars, queueVars
    <3> QED
      BY <1>1, <3>1, <3>2 DEF ReceivePacket
  <2>4. rxBuffer' \subseteq rxBuffer \cup {pkt}
    BY <1>1 DEF ReceivePacket, Forward, InOrder, HandOn, Recirculate,
                DropDuplicate
  <2>5. UNCHANGED <<rxLack, toTx, sent, regSeqNo, regEra, txBuffer, leadingAck>>
    BY <1>1 DEF ReceivePacket, egressVars, senderVars
  <2> QED
    BY <2>1, <2>2, <2>3, <2>4, <2>5 DEF HeadersFaithful, Numbered
<1>2. ASSUME NEW pkt \in rxBuffer, ReprocessBuffered(pkt)
      PROVE  HeadersFaithful'
  <2>1. rxBuffer' \subseteq rxBuffer
    BY <1>2 DEF ReprocessBuffered, InOrder, HandOn, Recirculate, DropDuplicate
  <2> QED
    BY <1>2, <2>1 DEF ReprocessBuffered, HeadersFaithful, Numbered, senderVars,
                      ingressVars, queueVars, egressVars, wireVars
<1>3. CASE TimerPacket
  BY <1>3 DEF TimerPacket, HeadersFaithful, Numbered, senderVars, ingressVars,
              queueVars, egressVars, wireVars
<1>4. CASE EgressLackUpdate
  <2>1. /\ Head(lackUpdates) \in Elements(lackUpdates)
        /\ Elements(lackUpdates') \subseteq Elements(lackUpdates)
    BY <1>0, <1>4, ElementsHeadTail DEF EgressLackUpdate
  <2> QED
    BY <1>4, <2>1 DEF EgressLackUpdate, HeadersFaithful, Numbered, senderVars,
                      ingressVars, wireVars
<1>5. CASE EgressLossNotification
  <2> DEFINE n == Head(lossNotifications)
             m == [lack |-> n.lack, loss |-> TRUE, first |-> n.first,
                   hole |-> n.hole]
  <2>1. /\ n \in Notification /\ n \in Elements(lossNotifications)
        /\ Elements(lossNotifications') \subseteq Elements(lossNotifications)
    BY <1>0, <1>5, HeadTailType, ElementsHeadTail DEF EgressLossNotification
  <2>2. m \in AckMessage /\ Numbered(m.lack)
    BY <2>1 DEF Notification, AckMessage, HeadersFaithful
  <2>3. Elements(toTx') = Elements(toTx) \cup {m}
    <3>1. toTx' = Append(toTx, m)
      BY <1>5 DEF EgressLossNotification, LossMessage
    <3> HIDE DEF m
    <3> QED
      BY <1>0, <2>2, <3>1, ElementsAppend
  <2> QED
    BY <1>5, <2>1, <2>2, <2>3
       DEF EgressLossNotification, HeadersFaithful, Numbered, senderVars,
           ingressVars
<1>6. CASE EgressLack
  <2> DEFINE m == [lack |-> rxLack, loss |-> FALSE, first |-> 0, hole |-> 0]
  <2>1. m \in AckMessage /\ Numbered(m.lack)
    BY <1>0, ZeroSeqNo DEF AckMessage, HeadersFaithful
  <2>2. Elements(toTx') = Elements(toTx) \cup {m}
    <3>1. toTx' = Append(toTx, m)
      BY <1>6 DEF EgressLack, LackMessage
    <3> HIDE DEF m
    <3> QED
      BY <1>0, <2>1, <3>1, ElementsAppend
  <2> QED
    BY <1>6, <2>1, <2>2 DEF EgressLack, HeadersFaithful, Numbered, senderVars,
                            ingressVars, queueVars
<1> QED
  BY <1>1, <1>2, <1>3, <1>4, <1>5, <1>6 DEF ReceiverNext

(***************************************************************************)
(* The two switches count alike for ever: whatever is lost, retransmitted, *)
(* or reordered between the receiver's queues, every header in the system  *)
(* is the one of the packet it stands for.                                 *)
(***************************************************************************)
THEOREM HeadersAreFaithful == Spec => []HeadersFaithful
<1>1. TypeOK /\ HeadersFaithful /\ [Next]_vars => HeadersFaithful'
  <2> SUFFICES ASSUME TypeOK, HeadersFaithful, [Next]_vars
               PROVE  HeadersFaithful'
    OBVIOUS
  <2>1. CASE WithinWindow /\ SendNormal /\ UNCHANGED receiverVars
    BY <2>1, SenderNumbers
  <2>2. CASE SenderNext /\ UNCHANGED receiverVars
    BY <2>2, SenderNumbers
  <2>3. CASE ReceiverNext /\ UNCHANGED senderVars
    BY <2>3, ReceiverNumbers
  <2>4. CASE UNCHANGED vars
    BY <2>4 DEF vars, wireVars, senderVars, receiverVars, HeadersFaithful,
                Numbered
  <2> QED
    BY <2>1, <2>2, <2>3, <2>4 DEF Next
<1> QED
  BY NumbersInit, TypeCorrect, <1>1, PTL DEF Spec

-----------------------------------------------------------------------------
\* The ack of blocking mode: AckCounts, strengthened by where the packets lie
\* that the timer skipped (skipping one more makes the ack step by one).

AckInv ==
    BlockingMode => /\ \A n \in gaveUp : n < AckId
                    /\ ackNo = SeqOf(AckId)
                    /\ ackEra = EraOf(AckId)

\* Nothing was handed on.
LEMMA AckInit == Init => AckInv
<1>1. SeqOf(0) = 0 /\ EraOf(0) = 0
  <2>1. MaxSeqNumbers * 0 + 0 = 0
    BY HalfRangeAssumption DEF MaxSeqNumbers
  <2>2. SeqOf(0) = 0 /\ 0 \div MaxSeqNumbers = 0
    BY <2>1, ZeroSeqNo, Unique
  <2> QED
    BY <2>2 DEF EraOf
<1>2. Init => AckId = 0
  BY FS_EmptySet DEF Init, ReceiverInit, AckId
<1> QED
  BY <1>1, <1>2 DEF Init, ReceiverInit, AckInv

\* Handing on a packet moves the ack by one.
LEMMA HandOnAck ==
    ASSUME TypeOK, AckInv, BlockingMode, NEW pkt \in Packet, NEW others,
           HandOn(pkt, others)
    PROVE  AckInv'
<1>1. AckId' = AckId + 1
  <2>1. Len(delivered') = Len(delivered) + 1 /\ Len(delivered) \in Nat
    BY DEF HandOn, TypeOK, ReceiverTypeOK
  <2>2. Cardinality(gaveUp) \in Nat /\ gaveUp' = gaveUp
    BY FS_CardinalityType DEF HandOn, TypeOK, ReceiverTypeOK
  <2> QED
    BY <2>1, <2>2 DEF AckId
<1>2. AckId \in Nat /\ gaveUp \subseteq Nat
  BY AckIdType DEF TypeOK, ReceiverTypeOK
<1>3. ackNo' = SeqOf(AckId') /\ ackEra' = EraOf(AckId')
  <2>1. /\ ackNo' = Inc(ackNo)
        /\ ackEra' = IF ackNo = MaxSeqNo THEN Flip(ackEra) ELSE ackEra
        /\ ackNo = SeqOf(AckId) /\ ackEra = EraOf(AckId)
    BY DEF HandOn, AckInv
  <2>2. /\ SeqOf(AckId + 1) = Inc(SeqOf(AckId))
        /\ EraOf(AckId + 1) = IF SeqOf(AckId) = MaxSeqNo
                              THEN Flip(EraOf(AckId)) ELSE EraOf(AckId)
    BY <1>2, NextNumber
  <2> QED
    BY <1>1, <2>1, <2>2
<1>4. \A n \in gaveUp' : n < AckId'
  <2>1. gaveUp' = gaveUp /\ \A n \in gaveUp : n \in Nat /\ n < AckId
    BY <1>2 DEF HandOn, AckInv
  <2> QED
    BY <1>1, <1>2, <2>1
<1> QED
  BY <1>3, <1>4 DEF AckInv

\* The ack moves by one with the packet handed on.
LEMMA InOrderAck ==
    ASSUME TypeOK, AckInv, BlockingMode, NEW pkt \in Packet, NEW others,
           InOrder(pkt, others)
    PROVE  AckInv'
<1>1. CASE HandOn(pkt, others)
  BY <1>1, HandOnAck
<1>2. CASE Recirculate(pkt, others) \/ DropDuplicate(pkt, others)
  BY <1>2 DEF Recirculate, DropDuplicate, AckInv, AckId
<1> QED
  BY <1>1, <1>2 DEF InOrder

\* So does a time-out, and the era stays right unless the number wraps.
LEMMA TimerAck ==
    ASSUME TypeOK, AckInv, MaxSeqNo \notin MayTimeout, TimerPacket
    PROVE  AckInv'
<1>1. AckId \in Nat /\ gaveUp \subseteq Nat /\ IsFiniteSet(gaveUp)
  BY AckIdType DEF TypeOK, ReceiverTypeOK
<1>2. CASE UNCHANGED <<ackNo, gaveUp>>
  BY <1>2 DEF TimerPacket, AckInv, AckId
<1>3. CASE /\ ackNo \in MayTimeout
           /\ ackNo' = Inc(ackNo)
           /\ gaveUp' = gaveUp \cup {AckId}
  <2>1. AckId \notin gaveUp
    BY <1>1 DEF TimerPacket, AckInv
  <2>2. Cardinality(gaveUp') = Cardinality(gaveUp) + 1
    BY <1>1, <1>3, <2>1, FS_AddElement
  <2>3. AckId' = AckId + 1
    <3>1. delivered' = delivered /\ Len(delivered) \in Nat
      BY DEF TimerPacket, TypeOK, ReceiverTypeOK
    <3>2. Cardinality(gaveUp) \in Nat
      BY <1>1, FS_CardinalityType
    <3> QED
      BY <2>2, <3>1, <3>2 DEF AckId
  <2>4. ackNo' = SeqOf(AckId') /\ ackEra' = EraOf(AckId')
    BY <1>1, <1>3, <2>3, NextNumber DEF TimerPacket, AckInv
  <2>5. \A n \in gaveUp' : n < AckId'
    BY <1>1, <1>3, <2>3 DEF TimerPacket, AckInv
  <2> QED
    BY <2>4, <2>5 DEF AckInv
<1> QED
  BY <1>2, <1>3 DEF TimerPacket

\* Every step keeps the ack with what was handed on or given up.
LEMMA AckStep ==
    ASSUME TypeOK, AckInv, MaxSeqNo \notin MayTimeout, [Next]_vars
    PROVE  AckInv'
<1>1. CASE ~BlockingMode
  BY <1>1 DEF AckInv
<1> SUFFICES ASSUME BlockingMode PROVE AckInv'
  BY <1>1
<1>2. CASE UNCHANGED <<delivered, gaveUp, ackNo, ackEra>>
  BY <1>2 DEF AckInv, AckId
<1>3. CASE ReceivePacket
  <2>1. Head(toRx) \in Packet
    BY <1>3, HeadTailType DEF ReceivePacket, TypeOK, WiresTypeOK
  <2>2. CASE InOrder(Head(toRx), rxBuffer)
    BY <2>1, <2>2, InOrderAck
  <2>3. CASE UNCHANGED <<delivered, rxBuffer, blockingVars>>
    BY <1>2, <2>3 DEF blockingVars
  <2> QED
    BY <1>3, <2>2, <2>3 DEF ReceivePacket, Forward
<1>4. ASSUME NEW pkt \in rxBuffer, ReprocessBuffered(pkt)
      PROVE  AckInv'
  <2>1. pkt \in Packet
    BY DEF TypeOK, ReceiverTypeOK
  <2> QED
    BY <1>4, <2>1, InOrderAck DEF ReprocessBuffered
<1>5. CASE TimerPacket
  BY <1>5, TimerAck
<1>6. CASE EgressLackUpdate \/ EgressLossNotification \/ EgressLack
  BY <1>2, <1>6 DEF EgressLackUpdate, EgressLossNotification, EgressLack,
                    blockingVars
<1>7. CASE UNCHANGED receiverVars
  BY <1>2, <1>7 DEF receiverVars
<1>8. CASE UNCHANGED vars
  BY <1>7, <1>8 DEF vars
<1> QED
  BY <1>3, <1>4, <1>5, <1>6, <1>7, <1>8 DEF Next, ReceiverNext

-----------------------------------------------------------------------------
(***************************************************************************)
(* What the wires preserve: first transmissions arrive in the order of     *)
(* their numbers, everything the receiver answers or holds lies before the *)
(* number it expects, and all headers that are compared lie within half    *)
(* the range.                                                              *)
(***************************************************************************)
\* Numbers of packets at most half the range apart.

\* The range of the numbers has two halves.
LEMMA SeqNumbers == MaxSeqNumbers = 2 * HalfRange /\ HalfRange \in Nat \ {0}
                    /\ SeqNo = 0 .. MaxSeqNumbers - 1
BY HalfRangeAssumption DEF MaxSeqNumbers, SeqNo, MaxSeqNo

\* The difference of two numbers is that of the packets.
LEMMA SubCounts ==
    ASSUME NEW a \in Int, NEW b \in Int, b <= a, a - b <= HalfRange
    PROVE  Sub(SeqOf(a), SeqOf(b)) = a - b
<1> DEFINE M == MaxSeqNumbers
           p == a \div MaxSeqNumbers
           q == b \div MaxSeqNumbers
           s == SeqOf(a)
           t == SeqOf(b)
<1>1. M \in Nat /\ M = 2 * HalfRange /\ HalfRange \in Nat \ {0}
  BY SeqNumbers
<1>2. /\ p \in Int /\ s \in 0 .. M - 1 /\ a = M * p + s
      /\ q \in Int /\ t \in 0 .. M - 1 /\ b = M * q + t
  BY Quotient, SeqNumbers
<1>3. a - b <= HalfRange /\ b <= a
  OBVIOUS
<1> HIDE DEF M, p, q, s, t
<1>4. PICK d \in Int : p = q + d
  BY <1>2
<1>5. a - b = M * d + (s - t)
  <2>1. M * p = M * q + M * d
    BY <1>1, <1>2, <1>4
  <2> QED
    BY <1>1, <1>2, <2>1
<1>6. d \in {0, 1}
  <2>1. ASSUME d >= 2 PROVE FALSE
    <3>1. M * d >= M * 2
      BY <1>1, <1>4, <2>1
    <3> QED
      BY <1>1, <1>2, <1>3, <1>4, <1>5, <3>1
  <2>2. ASSUME d <= -1 PROVE FALSE
    <3>1. M * d <= M * (-1)
      BY <1>1, <1>4, <2>2
    <3> QED
      BY <1>1, <1>2, <1>3, <1>4, <1>5, <3>1
  <2> QED
    BY <1>4, <2>1, <2>2
<1>7. CASE d = 0
  <2>1. a - b = s - t
    BY <1>1, <1>2, <1>5, <1>7
  <2> QED
    BY <1>1, <1>2, <1>3, <2>1 DEF Sub, s, t
<1>8. CASE d = 1
  <2>1. a - b = M + (s - t)
    BY <1>1, <1>2, <1>5, <1>8
  <2>2. t > s
    BY <1>1, <1>2, <1>3, <2>1
  <2> QED
    BY <1>1, <1>2, <2>1, <2>2 DEF Sub, s, t, M
<1> QED
  BY <1>6, <1>7, <1>8

\* Packets with the same number are the same.
LEMMA SameNumber ==
    ASSUME NEW a \in Int, NEW b \in Int,
           a - b <= HalfRange, b - a <= HalfRange, SeqOf(a) = SeqOf(b)
    PROVE  a = b
<1>1. SeqOf(a) \in SeqNo /\ Sub(SeqOf(a), SeqOf(a)) = 0
  <2>1. SeqOf(a) \in Int
    BY Quotient, SeqNumbers
  <2> QED
    BY <2>1, Quotient DEF Sub
<1>2. CASE b <= a
  BY <1>1, <1>2, SubCounts
<1>3. CASE a <= b
  BY <1>1, <1>3, SubCounts
<1> QED
  BY <1>2, <1>3

\* The number k places later.
LEMMA PlusCounts ==
    ASSUME NEW a \in Int, NEW k \in 0 .. MaxSeqNo
    PROVE  Plus(SeqOf(a), k) = SeqOf(a + k)
<1> DEFINE M == MaxSeqNumbers
           q == a \div MaxSeqNumbers
           s == SeqOf(a)
<1>1. M \in Nat \ {0} /\ MaxSeqNo = M - 1 /\ SeqNo = 0 .. M - 1
  BY HalfRangeAssumption DEF MaxSeqNumbers, MaxSeqNo, SeqNo
<1>2. q \in Int /\ s \in 0 .. M - 1 /\ a = M * q + s
  BY <1>1, Quotient
<1> HIDE DEF M, q, s
<1>3. CASE s + k <= M - 1
  <2>1. a + k = M * q + (s + k) /\ s + k \in SeqNo
    BY <1>1, <1>2, <1>3
  <2>2. SeqOf(a + k) = s + k
    BY <1>2, <2>1, Unique DEF M
  <2> QED
    BY <1>1, <1>2, <1>3, <2>2 DEF Plus, s
<1>4. CASE s + k > M - 1
  <2>1. a + k = M * (q + 1) + (s + k - M) /\ s + k - M \in SeqNo
    BY <1>1, <1>2, <1>4
  <2>2. SeqOf(a + k) = s + k - M
    BY <1>2, <2>1, Unique DEF M
  <2> QED
    BY <1>1, <1>2, <1>4, <2>2 DEF Plus, s, M
<1> QED
  BY <1>1, <1>2, <1>3, <1>4

-----------------------------------------------------------------------------
\* The order of the first transmissions on the forward wire.

\* The number expected after a packet.
After(p) == IF p.dummy THEN p.id ELSE p.id + 1

\* The first transmissions of q lie between lo and hi, in their order.
Fifo(q, lo, hi) ==
    /\ \A i \in DOMAIN q : q[i].copy = 0 => lo <= q[i].id /\ After(q[i]) <= hi
    /\ \A i, j \in DOMAIN q :
            i < j /\ q[i].copy = 0 /\ q[j].copy = 0 => After(q[i]) <= q[j].id

\* A packet behind all others keeps the order of the wire.
LEMMA FifoAppend ==
    ASSUME NEW q \in Seq(Packet), NEW e \in Packet, NEW lo \in Int,
           NEW hi \in Int, Fifo(q, lo, e.id), lo <= e.id, After(e) <= hi
    PROVE  Fifo(Append(q, e), lo, hi)
<1> DEFINE r == Append(q, e)
<1>1. /\ DOMAIN r = (1 .. Len(q)) \cup {Len(q) + 1} /\ Len(q) \in Nat
      /\ r[Len(q) + 1] = e /\ \A i \in 1 .. Len(q) : r[i] = q[i]
  OBVIOUS
<1>2. DOMAIN q = 1 .. Len(q) /\ \A i \in 1 .. Len(q) : q[i] \in Packet
  OBVIOUS
<1>3. e.id \in Nat /\ After(e) \in Nat /\ e.id <= After(e)
  BY DEF Packet, After
<1>4. \A i \in 1 .. Len(q) : q[i].id \in Nat /\ After(q[i]) \in Nat
  BY <1>2 DEF Packet, After
<1> HIDE DEF r
<1>5. \A i \in DOMAIN r : r[i].copy = 0 => lo <= r[i].id /\ After(r[i]) <= hi
  BY <1>1, <1>2, <1>3, <1>4 DEF Fifo
<1>6. \A i, j \in DOMAIN r :
        i < j /\ r[i].copy = 0 /\ r[j].copy = 0 => After(r[i]) <= r[j].id
  BY <1>1, <1>2, <1>3, <1>4 DEF Fifo
<1> QED
  BY <1>5, <1>6 DEF Fifo, r

\* The wire without its first packet is in order.
LEMMA FifoTail ==
    ASSUME NEW q \in Seq(Packet), q # <<>>, NEW lo \in Int, NEW hi \in Int,
           Fifo(q, lo, hi)
    PROVE  /\ Fifo(Tail(q), lo, hi)
           /\ Head(q).copy = 0 => /\ lo <= Head(q).id /\ After(Head(q)) <= hi
                                  /\ Fifo(Tail(q), After(Head(q)), hi)
<1> DEFINE r == Tail(q)
<1>1. /\ Len(q) \in Nat \ {0} /\ DOMAIN q = 1 .. Len(q)
      /\ Head(q) = q[1]
      /\ DOMAIN r = 1 .. Len(q) - 1
      /\ \A i \in 1 .. Len(q) - 1 : r[i] = q[i + 1]
  OBVIOUS
<1>2. 1 \in DOMAIN q /\ \A i \in DOMAIN r : i \in Int /\ i + 1 \in DOMAIN q /\ 1 < i + 1
  BY <1>1
<1> HIDE DEF r
<1>3. Fifo(r, lo, hi)
  BY <1>1, <1>2 DEF Fifo
<1>4. Head(q).copy = 0 => /\ lo <= Head(q).id /\ After(Head(q)) <= hi
                          /\ Fifo(r, After(Head(q)), hi)
  BY <1>1, <1>2, <1>3 DEF Fifo
<1> QED
  BY <1>3, <1>4 DEF r

\* A wire in order is so within wider bounds.
LEMMA FifoWiden ==
    ASSUME NEW q \in Seq(Packet), NEW lo \in Int, NEW hi \in Int,
           NEW top \in Int, hi <= top, Fifo(q, lo, hi)
    PROVE  Fifo(q, lo, top)
<1>1. \A i \in DOMAIN q : After(q[i]) \in Int
  <2>1. \A i \in DOMAIN q : q[i] \in Packet
    OBVIOUS
  <2>2. \A p \in Packet : After(p) \in Int
    BY DEF Packet, After
  <2> QED
    BY <2>1, <2>2
<1> QED
  BY <1>1 DEF Fifo

\* The copies of a retransmission.
LEMMA CopyFields ==
    ASSUME NEW pkt \in Packet, NEW k \in 1 .. RetxCopies
    PROVE  LET e == [pkt EXCEPT !.copy = k]
           IN  /\ e \in Packet /\ e.copy > 0 /\ e.id = pkt.id
               /\ e.seq = pkt.seq /\ e.era = pkt.era /\ e.dummy = pkt.dummy
BY WiresAssumption DEF Packet

\* They come behind what is on the wire.
LEMMA CopiesOnWire ==
    ASSUME NEW q \in Seq(Packet), NEW pkt \in Packet, NEW n \in 0 .. RetxCopies
    PROVE  LET r == q \o [i \in 1 .. n |-> [pkt EXCEPT !.copy = i]]
           IN  /\ Len(r) = Len(q) + n /\ DOMAIN r = 1 .. Len(q) + n
               /\ \A i \in 1 .. Len(q) : r[i] = q[i]
               /\ \A i \in DOMAIN r \ DOMAIN q :
                    /\ r[i].copy > 0 /\ r[i].id = pkt.id
                    /\ r[i].seq = pkt.seq /\ r[i].era = pkt.era
                    /\ r[i].dummy = pkt.dummy
<1> DEFINE e(i) == [pkt EXCEPT !.copy = i]
           copies == [i \in 1 .. n |-> e(i)]
           r == q \o copies
<1>0. n \in Nat /\ 1 .. n \subseteq 1 .. RetxCopies
  BY WiresAssumption
<1>1. \A i \in 1 .. n : /\ e(i) \in Packet /\ e(i).copy > 0 /\ e(i).id = pkt.id
                        /\ e(i).seq = pkt.seq /\ e(i).era = pkt.era
                        /\ e(i).dummy = pkt.dummy
  BY <1>0, CopyFields
<1> HIDE DEF e
<1>2. /\ copies \in Seq(Packet) /\ Len(copies) = n
      /\ \A i \in 1 .. n : copies[i] = e(i)
  BY <1>0, <1>1
<1> HIDE DEF copies
<1>3. /\ Len(r) = Len(q) + n /\ DOMAIN r = 1 .. Len(q) + n
      /\ \A i \in 1 .. Len(q) : r[i] = q[i]
      /\ \A i \in DOMAIN r \ DOMAIN q :
            i - Len(q) \in 1 .. n /\ r[i] = copies[i - Len(q)]
  BY <1>0, <1>2
<1>4. \A i \in DOMAIN r \ DOMAIN q :
        /\ r[i].copy > 0 /\ r[i].id = pkt.id
        /\ r[i].seq = pkt.seq /\ r[i].era = pkt.era
        /\ r[i].dummy = pkt.dummy
  BY <1>1, <1>2, <1>3
<1> QED
  BY <1>3, <1>4 DEF copies, e

\* Copies do not disturb the order of first transmissions.
LEMMA FifoCopies ==
    ASSUME WiresTypeOK, NEW pkt \in Packet, NEW n \in 0 .. RetxCopies,
           CopiesLeave(pkt, n), NEW lo \in Int, NEW hi \in Int,
           Fifo(toRx, lo, hi)
    PROVE  Fifo(toRx', lo, hi)
<1>1. /\ toRx \in Seq(Packet) /\ DOMAIN toRx = 1 .. Len(toRx)
      /\ toRx' = toRx \o [i \in 1 .. n |-> [pkt EXCEPT !.copy = i]]
  BY DEF CopiesLeave, WiresTypeOK
<1>2. \A i \in DOMAIN toRx' : toRx'[i].copy = 0 =>
            i \in DOMAIN toRx /\ toRx'[i] = toRx[i]
  BY <1>1, CopiesOnWire
<1> QED
  BY <1>2 DEF Fifo

-----------------------------------------------------------------------------
(***************************************************************************)
(* The invariant.  ArrivalsInv: what has not arrived yet is in order and   *)
(* not before the expected number.  PastInv: what the receiver sends back, *)
(* holds, or is sent again is before it, but for the zero the registers    *)
(* start from.  NearInv: every number that is compared is at most half the *)
(* range behind the next one.                                              *)
(***************************************************************************)
ArrivalsInv == expectedId <= sent /\ Fifo(toRx, expectedId, sent)

Seen(l) == 0 <= l.id /\ (l.id < expectedId \/ l.id = 0)

PastInv ==
    /\ \A p \in Elements(toRx) : p.copy > 0 => p.id < expectedId
    /\ \A p \in rxBuffer : p.id < expectedId
    /\ \A c \in txBuffer : c.id < sent
    /\ Seen(leadingAck) /\ Seen(rxLack)
    /\ \A l \in Elements(lackUpdates) : Seen(l)
    /\ \A m \in Elements(lossNotifications) : Seen(m.lack) /\ expectedId > 0
    /\ \A m \in Elements(toTx) : Seen(m.lack) /\ (m.loss => expectedId > 0)
    /\ \A k \in 1 .. NumHoles : holes[k] # {} => expectedId > 0

Near(n) == sent - n <= HalfRange

NearInv ==
    /\ \A c \in txBuffer : Near(c.id)
    /\ \A p \in Elements(toRx) \cup rxBuffer : Near(p.id)
    /\ \A m \in Elements(toTx) \cup Elements(lossNotifications) : Near(m.lack.id)
    /\ \A l \in Elements(lackUpdates) : Near(l.id)
    /\ lackNotifyCount > 0 => Near(rxLack.id)
    /\ Near(leadingAck.id)
    /\ BlockingMode => Near(AckId)

OrderInv == ArrivalsInv /\ PastInv /\ NearInv

\* In blocking mode the ack does not pass the expected number.
AckBehind == BlockingMode => AckId <= expectedId

\* Nothing was sent, and the ack is at the first packet.
LEMMA OrderInit == Init => OrderInv /\ AckBehind
<1>1. Init => AckId = 0
  BY FS_EmptySet DEF Init, ReceiverInit, AckId
<1>2. Init => ArrivalsInv
  BY DEF Init, WiresInit, SenderInit, ReceiverInit, ArrivalsInv, Fifo
<1>3. Init => PastInv
  BY DEF Init, WiresInit, SenderInit, ReceiverInit, PastInv, Seen, Elements
<1>4. Init => NearInv
  BY <1>1, SeqNumbers
     DEF Init, WiresInit, SenderInit, ReceiverInit, NearInv, Near, Elements
<1> QED
  BY <1>1, <1>2, <1>3, <1>4
     DEF OrderInv, AckBehind, Init, ReceiverInit

\* The types the proofs need, at hand.
LEMMA OrderTypes ==
    ASSUME TypeOK
    PROVE  /\ sent \in Nat /\ expectedId \in Nat /\ AckId \in Nat
           /\ toRx \in Seq(Packet) /\ toTx \in Seq(AckMessage)
           /\ lackUpdates \in Seq(Lack) /\ lossNotifications \in Seq(Notification)
           /\ leadingAck \in Lack /\ rxLack \in Lack
           /\ txBuffer \subseteq Copy /\ rxBuffer \subseteq Packet
           /\ \A p \in Elements(toRx) \cup rxBuffer : p \in Packet /\ p.id \in Nat
           /\ \A c \in txBuffer : c.id \in Nat
           /\ \A l \in {leadingAck, rxLack} \cup Elements(lackUpdates) : l.id \in Int
           /\ \A m \in Elements(toTx) \cup Elements(lossNotifications) :
                m.lack.id \in Int
<1>1. /\ sent \in Nat /\ expectedId \in Nat /\ AckId \in Nat
      /\ toRx \in Seq(Packet) /\ toTx \in Seq(AckMessage)
      /\ lackUpdates \in Seq(Lack) /\ lossNotifications \in Seq(Notification)
      /\ leadingAck \in Lack /\ rxLack \in Lack
      /\ txBuffer \subseteq Copy /\ rxBuffer \subseteq Packet
  BY AckIdType, SenderAssumption
     DEF TypeOK, WiresTypeOK, SenderTypeOK, ReceiverTypeOK
<1>2. /\ Elements(toRx) \subseteq Packet /\ Elements(toTx) \subseteq AckMessage
      /\ Elements(lackUpdates) \subseteq Lack
      /\ Elements(lossNotifications) \subseteq Notification
  BY <1>1 DEF Elements
<1>3. /\ \A p \in Packet : p.id \in Nat
      /\ \A c \in Copy : c.id \in Nat
      /\ \A l \in Lack : l.id \in Int
      /\ \A m \in AckMessage \cup Notification : m.lack.id \in Int
  BY DEF Packet, Copy, Lack, AckMessage, Notification
<1> QED
  BY <1>1, <1>2, <1>3

\* Every header lies at or before the next packet to be sent.
LEMMA Window ==
    ASSUME TypeOK, OrderInv
    PROVE  /\ \A p \in Elements(toRx) \cup rxBuffer : p.id <= sent
           /\ leadingAck.id <= sent /\ leadingAck.id <= expectedId
           /\ expectedId <= sent /\ Near(expectedId)
<1>1. expectedId <= sent /\ sent \in Nat /\ expectedId \in Nat
  BY OrderTypes DEF OrderInv, ArrivalsInv
<1>2. leadingAck.id \in Int /\ leadingAck.id <= expectedId /\ Near(leadingAck.id)
  BY <1>1, OrderTypes DEF OrderInv, PastInv, Seen, NearInv
<1>3. Near(expectedId)
  BY <1>1, <1>2, SeqNumbers DEF Near
<1>4. \A p \in Elements(toRx) \cup rxBuffer : p.id <= sent
  <2>1. ASSUME NEW p \in Elements(toRx) PROVE p.id <= sent
    <3>1. PICK i \in DOMAIN toRx : p = toRx[i]
      BY DEF Elements
    <3>2. p \in Packet /\ p.id \in Nat
      BY OrderTypes
    <3>3. CASE p.copy = 0
      <4>1. After(p) <= sent
        BY <3>1, <3>3 DEF OrderInv, ArrivalsInv, Fifo
      <4> QED
        BY <1>1, <3>2, <4>1 DEF After
    <3>4. CASE p.copy > 0
      BY <1>1, <3>2, <3>4 DEF OrderInv, PastInv
    <3>5. p.copy = 0 \/ p.copy > 0
      BY <3>2, WiresAssumption DEF Packet
    <3> QED
      BY <3>3, <3>4, <3>5
  <2>2. ASSUME NEW p \in rxBuffer PROVE p.id <= sent
    <3>1. p.id < expectedId /\ p.id \in Nat
      BY OrderTypes DEF OrderInv, PastInv
    <3> QED
      BY <1>1, <3>1
  <2> QED
    BY <2>1, <2>2
<1> QED
  BY <1>1, <1>2, <1>3, <1>4

-----------------------------------------------------------------------------
\* The sender.

\* A packet leaves: ArrivalsInv, for the packet and the number after it.
LEMMA LeaveArrivals ==
    ASSUME TypeOK, ArrivalsInv, UNCHANGED expectedId,
           NEW pkt \in Packet, pkt.id = sent, After(pkt) = sent',
           Arrives(pkt) \/ Corrupted(pkt)
    PROVE  ArrivalsInv'
<1>1. /\ sent \in Nat /\ expectedId \in Nat /\ toRx \in Seq(Packet)
      /\ expectedId <= sent /\ Fifo(toRx, expectedId, sent)
  BY OrderTypes DEF ArrivalsInv
<1>2. sent' \in Nat /\ sent <= sent'
  BY <1>1 DEF After
<1>3. CASE Arrives(pkt)
  <2>1. toRx' = Append(toRx, pkt)
    BY <1>3 DEF Arrives
  <2>2. /\ Fifo(toRx, expectedId, pkt.id) /\ expectedId <= pkt.id
        /\ After(pkt) <= sent' /\ expectedId \in Int /\ sent' \in Int
    BY <1>1, <1>2
  <2>3. Fifo(Append(toRx, pkt), expectedId, sent')
    BY <1>1, <2>2, FifoAppend
  <2> QED
    BY <1>1, <1>2, <2>1, <2>3 DEF ArrivalsInv
<1>4. CASE Corrupted(pkt)
  <2>1. toRx' = toRx
    BY <1>4 DEF Corrupted
  <2>2. Fifo(toRx, expectedId, sent')
    BY <1>1, <1>2, FifoWiden
  <2> QED
    BY <1>1, <1>2, <2>1, <2>2 DEF ArrivalsInv
<1> QED
  BY <1>3, <1>4

\* A new packet is behind all others on the wire.
LEMMA SendNormalOrder ==
    ASSUME TypeOK, OrderInv, WithinWindow, SendNormal, UNCHANGED receiverVars
    PROVE  OrderInv'
<1> DEFINE pkt == DataHeader(FALSE)
<1>0. /\ sent \in Nat /\ sent' = sent + 1 /\ expectedId' = expectedId
      /\ UNCHANGED <<leadingAck, holes, toTx, rxBuffer, rxLack, lackUpdates,
                     lossNotifications, lackNotifyCount, AckId>>
  BY OrderTypes DEF SendNormal, receiverVars, AckId
<1>1. /\ pkt \in Packet /\ pkt.id = sent /\ pkt.copy = 0 /\ After(pkt) = sent'
      /\ Arrives(pkt) \/ Corrupted(pkt)
  BY <1>0, WiresAssumption
     DEF DataHeader, TypeOK, SenderTypeOK, Packet, After, SendNormal
<1>2. Elements(toRx') \subseteq Elements(toRx) \cup {pkt}
  BY <1>1, ElementsTransmit DEF TypeOK
<1>3. txBuffer' = txBuffer \cup {BufferedCopy} /\ BufferedCopy.id = sent
  BY DEF SendNormal, BufferedCopy
<1> HIDE DEF pkt
<1>4. ArrivalsInv'
  BY <1>0, <1>1, LeaveArrivals DEF OrderInv
<1>5. PastInv'
  <2>1. \A p \in Elements(toRx') : p.copy > 0 => p.id < expectedId'
    BY <1>0, <1>1, <1>2 DEF OrderInv, PastInv
  <2>2. \A c \in txBuffer' : c.id < sent'
    BY <1>0, <1>3, OrderTypes DEF OrderInv, PastInv
  <2> QED
    BY <1>0, <2>1, <2>2 DEF OrderInv, PastInv, Seen
<1>6. NearInv'
  <2>1. \A n \in LiveIds : sent - n < HalfRange
    BY DEF WithinWindow
  <2>2. \A n \in LiveIds : n \in Int => sent' - n <= HalfRange
    BY <1>0, <2>1, SeqNumbers
  <2>3. sent' - sent <= HalfRange
    BY <1>0, SeqNumbers
  <2>4. /\ \A c \in txBuffer : sent' - c.id <= HalfRange
        /\ \A p \in Elements(toRx) \cup rxBuffer : sent' - p.id <= HalfRange
        /\ \A m \in Elements(toTx) \cup Elements(lossNotifications) :
                sent' - m.lack.id <= HalfRange
        /\ \A l \in Elements(lackUpdates) : sent' - l.id <= HalfRange
        /\ lackNotifyCount > 0 => sent' - rxLack.id <= HalfRange
        /\ sent' - leadingAck.id <= HalfRange
        /\ BlockingMode => sent' - AckId <= HalfRange
    <3>1. /\ \A c \in txBuffer : c.id \in LiveIds
          /\ \A p \in Elements(toRx) \cup rxBuffer : p.id \in LiveIds
          /\ \A m \in Elements(toTx) \cup Elements(lossNotifications) :
                m.lack.id \in LiveIds
          /\ \A l \in Elements(lackUpdates) : l.id \in LiveIds
          /\ lackNotifyCount > 0 => rxLack.id \in LiveIds
          /\ leadingAck.id \in LiveIds
          /\ BlockingMode => AckId \in LiveIds
      BY DEF LiveIds
    <3> QED
      BY <2>2, <3>1, OrderTypes
  <2>5. \A c \in txBuffer' : sent' - c.id <= HalfRange
    BY <1>3, <2>3, <2>4
  <2>6. \A p \in Elements(toRx') \cup rxBuffer' : sent' - p.id <= HalfRange
    BY <1>0, <1>1, <1>2, <2>3, <2>4
  <2> QED
    BY <1>0, <2>4, <2>5, <2>6 DEF NearInv, Near
<1> QED
  BY <1>4, <1>5, <1>6 DEF OrderInv

\* A dummy packet is behind the newest packet.
LEMMA SendDummyOrder ==
    ASSUME TypeOK, OrderInv, SendDummy, UNCHANGED receiverVars
    PROVE  OrderInv'
<1> DEFINE pkt == DataHeader(TRUE)
<1>0. /\ sent \in Nat /\ expectedId' = expectedId
      /\ UNCHANGED <<sent, leadingAck, holes, txBuffer, toTx, rxBuffer, rxLack,
                     lackUpdates, lossNotifications, lackNotifyCount, AckId>>
  BY OrderTypes DEF SendDummy, receiverVars, AckId
<1>1. /\ pkt \in Packet /\ pkt.id = sent /\ pkt.copy = 0 /\ After(pkt) = sent'
      /\ Arrives(pkt) \/ Corrupted(pkt)
  BY <1>0, WiresAssumption
     DEF DataHeader, TypeOK, SenderTypeOK, Packet, After, SendDummy
<1>2. Elements(toRx') \subseteq Elements(toRx) \cup {pkt}
  BY <1>1, ElementsTransmit DEF TypeOK
<1> HIDE DEF pkt
<1>3. ArrivalsInv'
  BY <1>0, <1>1, LeaveArrivals DEF OrderInv
<1>4. PastInv'
  BY <1>0, <1>1, <1>2 DEF OrderInv, PastInv, Seen
<1>5. NearInv'
  <2>1. sent - pkt.id <= HalfRange
    BY <1>0, <1>1, SeqNumbers
  <2> QED
    BY <1>0, <1>2, <2>1 DEF OrderInv, NearInv, Near
<1> QED
  BY <1>3, <1>4, <1>5 DEF OrderInv

\* A LACK that is recorded is of a packet noticed before.
LEMMA RecordLackOrder ==
    ASSUME TypeOK, OrderInv, RecordLeadingAck, UNCHANGED receiverVars
    PROVE  OrderInv'
<1> DEFINE m == Head(toTx)
<1>0. UNCHANGED <<sent, expectedId, toRx, txBuffer, rxBuffer, rxLack,
                  lackUpdates, lossNotifications, lackNotifyCount, AckId>>
  BY DEF RecordLeadingAck, receiverVars, AckId
<1>1. m \in Elements(toTx) /\ Elements(toTx') \subseteq Elements(toTx)
  BY OrderTypes, ElementsHeadTail DEF RecordLeadingAck
<1>2. leadingAck' = m.lack /\ holes' = SetHoles(m)
  BY DEF RecordLeadingAck
<1> HIDE DEF m
<1>3. ArrivalsInv'
  BY <1>0 DEF OrderInv, ArrivalsInv, Fifo
<1>4. PastInv'
  <2>1. \A k \in 1 .. NumHoles : holes'[k] # {} => expectedId > 0
    <3>1. \A k \in 1 .. NumHoles : m.loss \/ holes'[k] = holes[k]
      BY <1>2 DEF SetHoles
    <3> QED
      BY <1>1, <3>1 DEF OrderInv, PastInv
  <2> QED
    BY <1>0, <1>1, <1>2, <2>1 DEF OrderInv, PastInv, Seen
<1>5. NearInv'
  BY <1>0, <1>1, <1>2 DEF OrderInv, NearInv, Near
<1> QED
  BY <1>3, <1>4, <1>5 DEF OrderInv

\* What the LACK has reached according to the comparison, it has reached.
LEMMA AcknowledgedIsPast ==
    ASSUME TypeOK, HeadersFaithful, OrderInv, NEW c \in txBuffer
    PROVE  Acknowledged(c) <=> c.id <= leadingAck.id
<1>1. c.id \in Int /\ leadingAck.id \in Int /\ sent \in Nat
  BY OrderTypes
<1>2. /\ c.id <= sent /\ leadingAck.id <= sent
      /\ sent - c.id <= HalfRange /\ sent - leadingAck.id <= HalfRange
  BY <1>1, Window DEF OrderInv, PastInv, NearInv, Near
<1>3. c.id - leadingAck.id <= HalfRange /\ leadingAck.id - c.id <= HalfRange
  BY <1>1, <1>2, SeqNumbers
<1>4. Numbered(c) /\ Numbered(leadingAck)
  BY DEF HeadersFaithful
<1> QED
  BY <1>1, <1>3, <1>4, EraComparison DEF Acknowledged, Numbered

\* A retransmission is of a packet not too far behind.
LEMMA ProcessBufferedOrder ==
    ASSUME TypeOK, HeadersFaithful, OrderInv, NEW c \in txBuffer,
           ProcessBuffered(c), UNCHANGED receiverVars
    PROVE  OrderInv'
<1> DEFINE pkt == Retransmission(c)
<1>0. UNCHANGED <<sent, expectedId, leadingAck, toTx, rxBuffer, rxLack,
                  lackUpdates, lossNotifications, lackNotifyCount, AckId>>
  BY DEF ProcessBuffered, receiverVars, AckId
<1>1. /\ txBuffer' \subseteq txBuffer
      /\ \A k \in 1 .. NumHoles : holes'[k] \subseteq holes[k]
  BY DEF ProcessBuffered, ResetHoles
<1>2. pkt \in Packet /\ pkt.id = c.id
  BY WiresAssumption DEF Retransmission, TypeOK, SenderTypeOK, Copy, Packet
<1> HIDE DEF pkt
<1>3. \/ toRx' = toRx
      \/ /\ IsHole(c.seq)
         /\ \E n \in 0 .. RetxCopies : CopiesLeave(pkt, n)
  BY DEF ProcessBuffered, pkt
<1>4. IsHole(c.seq) => c.id < expectedId
  <2> SUFFICES ASSUME IsHole(c.seq) PROVE c.id < expectedId
    OBVIOUS
  <2>1. expectedId > 0
    BY DEF IsHole, OrderInv, PastInv
  <2>2. leadingAck.id < expectedId
    BY <2>1 DEF OrderInv, PastInv, Seen
  <2>3. c.id <= leadingAck.id
    BY AcknowledgedIsPast DEF ProcessBuffered
  <2> QED
    BY <2>2, <2>3, OrderTypes
<1>5. ArrivalsInv'
  <2>1. CASE toRx' = toRx
    BY <1>0, <2>1 DEF OrderInv, ArrivalsInv, Fifo
  <2>2. ASSUME NEW n \in 0 .. RetxCopies, CopiesLeave(pkt, n)
        PROVE  ArrivalsInv'
    <3>1. Fifo(toRx', expectedId, sent)
      BY <1>2, <2>2, OrderTypes, FifoCopies DEF OrderInv, ArrivalsInv, TypeOK
    <3> QED
      BY <1>0, <3>1 DEF OrderInv, ArrivalsInv
  <2> QED
    BY <1>3, <2>1, <2>2
<1>6. \A p \in Elements(toRx') :
        p \in Elements(toRx) \/ (IsHole(c.seq) /\ p.id = c.id)
  BY <1>2, <1>3, ElementsCopies DEF TypeOK
<1>7. PastInv'
  <2>1. \A p \in Elements(toRx') : p.copy > 0 => p.id < expectedId
    BY <1>4, <1>6 DEF OrderInv, PastInv
  <2>2. \A k \in 1 .. NumHoles : holes'[k] # {} => expectedId > 0
    BY <1>1 DEF OrderInv, PastInv
  <2> QED
    BY <1>0, <1>1, <2>1, <2>2 DEF OrderInv, PastInv, Seen
<1>8. NearInv'
  BY <1>0, <1>1, <1>6 DEF OrderInv, NearInv, Near
<1> QED
  BY <1>5, <1>7, <1>8 DEF OrderInv

-----------------------------------------------------------------------------
\* The receiver.

\* The ack only grows.
LEMMA InOrderGrows ==
    ASSUME TypeOK, NEW pkt \in Packet, NEW others, InOrder(pkt, others)
    PROVE  /\ AckId' \in Nat /\ AckId <= AckId'
           /\ rxBuffer' \subseteq others \cup {pkt}
<1>0. /\ Len(delivered) \in Nat /\ Cardinality(gaveUp) \in Nat
      /\ delivered \in Seq(Nat)
  BY FS_CardinalityType DEF TypeOK, ReceiverTypeOK
<1>1. CASE HandOn(pkt, others)
  <2>1. delivered' = Append(delivered, pkt.id) /\ gaveUp' = gaveUp
        /\ rxBuffer' = others /\ pkt.id \in Nat
    BY <1>1 DEF HandOn, Packet
  <2>2. Len(delivered') = Len(delivered) + 1
    BY <1>0, <2>1
  <2> QED
    BY <1>0, <2>1, <2>2 DEF AckId
<1>2. CASE Recirculate(pkt, others) \/ DropDuplicate(pkt, others)
  <2>1. AckId' = AckId /\ rxBuffer' \subseteq others \cup {pkt}
    BY <1>2 DEF Recirculate, DropDuplicate, AckId
  <2> QED
    BY <2>1, AckIdType
<1> QED
  BY <1>1, <1>2 DEF InOrder

\* The ack never moves back, and only the packet is held back.
LEMMA ForwardGrows ==
    ASSUME TypeOK, NEW pkt \in Packet, Forward(pkt)
    PROVE  /\ BlockingMode => AckId' \in Nat /\ AckId <= AckId'
           /\ rxBuffer' \subseteq rxBuffer \cup {pkt}
<1>1. CASE BlockingMode /\ InOrder(pkt, rxBuffer)
  BY <1>1, InOrderGrows
<1>2. CASE ~BlockingMode /\ rxBuffer' = rxBuffer
  BY <1>2
<1> QED
  BY <1>1, <1>2 DEF Forward

\* The hole before a first transmission, from the difference of the numbers.
LEMMA HoleSize ==
    ASSUME TypeOK, HeadersFaithful, OrderInv, toRx # <<>>, Head(toRx).copy = 0
    PROVE  LET pkt == Head(toRx)
           IN  /\ pkt \in Packet /\ pkt \in Elements(toRx) /\ pkt.id \in Nat
               /\ expectedId <= pkt.id /\ After(pkt) <= sent
               /\ PktsLost(pkt) = pkt.id - expectedId
<1> DEFINE pkt == Head(toRx)
<1>1. /\ pkt \in Packet /\ pkt \in Elements(toRx) /\ pkt.id \in Nat
      /\ expectedId \in Nat /\ sent \in Nat /\ toRx \in Seq(Packet)
  BY OrderTypes, HeadTailType, ElementsHeadTail
<1>2. expectedId <= pkt.id /\ After(pkt) <= sent
  BY <1>1, FifoTail DEF OrderInv, ArrivalsInv
<1>3. pkt.id - expectedId <= HalfRange
  <2>1. pkt.id <= sent /\ Near(expectedId)
    BY <1>1, Window
  <2> QED
    BY <1>1, <2>1, SeqNumbers DEF Near
<1>4. pkt.seq = SeqOf(pkt.id) /\ expectedSeqNo = SeqOf(expectedId)
  BY <1>1 DEF HeadersFaithful, Numbered
<1>5. PktsLost(pkt) = pkt.id - expectedId
  BY <1>1, <1>2, <1>3, <1>4, SubCounts DEF PktsLost
<1> QED
  BY <1>1, <1>2, <1>5

\* Hole detection looks at first transmissions, and finds the expected
\* number between them.
LEMMA DetectHoleOrder ==
    ASSUME TypeOK, HeadersFaithful, OrderInv, toRx # <<>>,
           Head(toRx).copy = 0, DetectHole(Head(toRx)), toRx' = Tail(toRx)
    PROVE  LET pkt == Head(toRx)
           IN  /\ expectedId' = After(pkt) /\ expectedId <= pkt.id
               /\ expectedId' \in Nat /\ expectedId <= expectedId'
               /\ Fifo(toRx', expectedId', sent) /\ expectedId' <= sent
               /\ \/ lackUpdates' = lackUpdates
                  \/ /\ lackUpdates' = Append(lackUpdates, LackUpdate(pkt))
                     /\ ~pkt.dummy
               /\ \/ lossNotifications' = lossNotifications
                  \/ /\ lossNotifications' =
                            Append(lossNotifications, LossNotification(pkt))
                     /\ expectedId < pkt.id
<1> DEFINE pkt == Head(toRx)
<1>1. /\ pkt \in Packet /\ pkt \in Elements(toRx) /\ pkt.id \in Nat
      /\ expectedId \in Nat /\ sent \in Nat /\ toRx \in Seq(Packet)
  BY OrderTypes, HeadTailType, ElementsHeadTail
<1>2. /\ expectedId <= pkt.id /\ After(pkt) <= sent
      /\ Fifo(toRx', After(pkt), sent)
  BY <1>1, FifoTail DEF OrderInv, ArrivalsInv
<1>3. expectedId' = After(pkt) /\ After(pkt) \in Nat /\ pkt.id <= After(pkt)
  BY <1>1 DEF DetectHole, UpdateExpected, After
<1>4. \/ lackUpdates' = lackUpdates
      \/ lackUpdates' = Append(lackUpdates, LackUpdate(pkt)) /\ ~pkt.dummy
  BY DEF DetectHole, queueVars
<1>5. \/ lossNotifications' = lossNotifications
      \/ /\ lossNotifications' = Append(lossNotifications, LossNotification(pkt))
         /\ PktsLost(pkt) # 0
  BY DEF DetectHole, queueVars
<1>6. PktsLost(pkt) # 0 => expectedId < pkt.id
  BY <1>1, <1>2, HoleSize
<1> QED
  BY <1>1, <1>2, <1>3, <1>4, <1>5, <1>6

\* Hole detection expects the packet behind the one that arrived.
LEMMA ReceivePacketOrder ==
    ASSUME TypeOK, HeadersFaithful, OrderInv, ReceivePacket,
           UNCHANGED senderVars
    PROVE  OrderInv'
<1> DEFINE pkt == Head(toRx)
<1>0. /\ UNCHANGED <<sent, leadingAck, holes, txBuffer, toTx, rxLack,
                     lackNotifyCount>>
      /\ toRx # <<>> /\ toRx' = Tail(toRx)
  BY DEF ReceivePacket, senderVars, egressVars
<1>1. /\ pkt \in Packet /\ pkt \in Elements(toRx) /\ pkt.id \in Nat
      /\ Elements(toRx') \subseteq Elements(toRx)
      /\ expectedId \in Nat /\ sent \in Nat /\ toRx \in Seq(Packet)
  BY <1>0, OrderTypes, HeadTailType, ElementsHeadTail
<1>2. /\ BlockingMode => AckId' \in Nat /\ AckId <= AckId'
      /\ rxBuffer' \subseteq rxBuffer \cup {pkt}
      /\ pkt.dummy => rxBuffer' = rxBuffer
  <2>1. CASE pkt.dummy
    BY <2>1, AckIdType DEF ReceivePacket, blockingVars, AckId
  <2>2. CASE ~pkt.dummy
    BY <1>1, <2>2, ForwardGrows DEF ReceivePacket
  <2> QED
    BY <2>1, <2>2
\* What both kinds of packets leave in order.
<1>3. ASSUME expectedId' \in Nat, expectedId <= expectedId',
             expectedId' <= sent, Fifo(toRx', expectedId', sent),
             ~pkt.dummy => pkt.id < expectedId',
             \A l \in Elements(lackUpdates') :
                l \in Elements(lackUpdates)
                    \/ (l.id = pkt.id /\ pkt.id < expectedId'),
             \A m \in Elements(lossNotifications') :
                m \in Elements(lossNotifications)
                    \/ /\ m.lack.id \in expectedId .. pkt.id
                       /\ m.lack.id < expectedId'
      PROVE  OrderInv'
  <2>1. ArrivalsInv'
    BY <1>0, <1>3 DEF ArrivalsInv
  <2>2. PastInv'
    <3>1. \A l : Seen(l) /\ l.id \in Int => l.id >= 0 /\ (l.id < expectedId' \/ l.id = 0)
      BY <1>1, <1>3 DEF Seen
    <3>2. /\ \A p \in Elements(toRx') : p.copy > 0 => p.id < expectedId'
          /\ \A p \in rxBuffer' : p.id < expectedId'
      BY <1>1, <1>2, <1>3, OrderTypes DEF OrderInv, PastInv
    <3>3. /\ Seen(leadingAck)' /\ Seen(rxLack)'
          /\ \A l \in Elements(lackUpdates') :
                0 <= l.id /\ (l.id < expectedId' \/ l.id = 0)
      BY <1>0, <1>1, <1>3, <3>1, OrderTypes DEF OrderInv, PastInv, Seen
    <3>4. \A m \in Elements(lossNotifications') :
            /\ 0 <= m.lack.id /\ (m.lack.id < expectedId' \/ m.lack.id = 0)
            /\ expectedId' > 0
      BY <1>1, <1>3, <3>1, OrderTypes DEF OrderInv, PastInv
    <3>5. \A m \in Elements(toTx) :
            /\ 0 <= m.lack.id /\ (m.lack.id < expectedId' \/ m.lack.id = 0)
            /\ m.loss => expectedId' > 0
      BY <1>1, <1>3, <3>1, OrderTypes DEF OrderInv, PastInv
    <3>6. \A k \in 1 .. NumHoles : holes[k] # {} => expectedId' > 0
      BY <1>1, <1>3 DEF OrderInv, PastInv
    <3> QED
      BY <1>0, <3>2, <3>3, <3>4, <3>5, <3>6 DEF OrderInv, PastInv, Seen
  <2>3. NearInv'
    <3>1. Near(expectedId) /\ Near(pkt.id)
      BY <1>1, Window DEF OrderInv, NearInv
    <3>2. \A m \in Elements(lossNotifications') : sent - m.lack.id <= HalfRange
      BY <1>1, <1>3, <3>1, SeqNumbers DEF OrderInv, NearInv, Near
    <3>3. \A l \in Elements(lackUpdates') : sent - l.id <= HalfRange
      BY <1>3, <3>1 DEF OrderInv, NearInv, Near
    <3>4. BlockingMode => sent - AckId' <= HalfRange
      BY <1>1, <1>2, OrderTypes, SeqNumbers DEF OrderInv, NearInv, Near
    <3>5. \A p \in Elements(toRx') \cup rxBuffer' : sent - p.id <= HalfRange
      BY <1>1, <1>2 DEF OrderInv, NearInv, Near
    <3> QED
      BY <1>0, <3>2, <3>3, <3>4, <3>5 DEF OrderInv, NearInv, Near
  <2> QED
    BY <2>1, <2>2, <2>3 DEF OrderInv
<1>4. CASE pkt.copy = 0
  <2>1. DetectHole(pkt)
    BY <1>4 DEF ReceivePacket
  <2>2. /\ expectedId' = After(pkt) /\ expectedId <= pkt.id
        /\ expectedId' \in Nat /\ expectedId <= expectedId'
        /\ Fifo(toRx', expectedId', sent) /\ expectedId' <= sent
        /\ \/ lackUpdates' = lackUpdates
           \/ /\ lackUpdates' = Append(lackUpdates, LackUpdate(pkt))
              /\ ~pkt.dummy
        /\ \/ lossNotifications' = lossNotifications
           \/ /\ lossNotifications' =
                     Append(lossNotifications, LossNotification(pkt))
              /\ expectedId < pkt.id
    BY <1>0, <1>4, <2>1, DetectHoleOrder
  <2>3. /\ ~pkt.dummy => pkt.id < expectedId'
        /\ pkt.dummy => pkt.id = expectedId'
    BY <1>1, <2>2 DEF After
  <2>4. \A l \in Elements(lackUpdates') :
            l \in Elements(lackUpdates) \/ (l.id = pkt.id /\ pkt.id < expectedId')
    <3>1. LackUpdate(pkt) \in Lack /\ LackUpdate(pkt).id = pkt.id
      BY <1>1 DEF LackUpdate, Lack, Packet
    <3>2. CASE lackUpdates' = lackUpdates
      BY <3>2
    <3>3. CASE lackUpdates' = Append(lackUpdates, LackUpdate(pkt)) /\ ~pkt.dummy
      <4>1. Elements(lackUpdates') = Elements(lackUpdates) \cup {LackUpdate(pkt)}
        BY <3>1, <3>3, OrderTypes, ElementsAppend
      <4> QED
        BY <2>3, <3>1, <3>3, <4>1
    <3> QED
      BY <2>2, <3>2, <3>3
  <2>5. \A m \in Elements(lossNotifications') :
            m \in Elements(lossNotifications)
                \/ /\ m.lack.id \in expectedId .. pkt.id
                   /\ m.lack.id < expectedId'
    <3>1. CASE lossNotifications' = lossNotifications
      BY <3>1
    <3>2. CASE /\ lossNotifications' =
                      Append(lossNotifications, LossNotification(pkt))
               /\ expectedId < pkt.id
      <4>1. Elements(lossNotifications')
                \subseteq Elements(lossNotifications) \cup {LossNotification(pkt)}
        BY <3>2 DEF Elements, TypeOK, ReceiverTypeOK
      <4>2. LossNotification(pkt).lack.id =
                IF pkt.dummy THEN pkt.id - 1 ELSE pkt.id
        BY DEF LossNotification, NotificationLack
      <4> QED
        BY <1>1, <2>3, <3>2, <4>1, <4>2
    <3> QED
      BY <2>2, <3>1, <3>2
  <2> QED
    BY <1>3, <2>2, <2>3, <2>4, <2>5
<1>5. CASE pkt.copy > 0
  <2>1. UNCHANGED <<expectedId, lackUpdates, lossNotifications>>
    BY <1>5 DEF ReceivePacket, ingressVars, queueVars
  <2>2. pkt.id < expectedId
    BY <1>1, <1>5 DEF OrderInv, PastInv
  <2>3. Fifo(toRx', expectedId, sent) /\ expectedId <= sent
    BY <1>0, <1>1, FifoTail DEF OrderInv, ArrivalsInv
  <2> QED
    BY <1>1, <1>3, <2>1, <2>2, <2>3
<1> QED
  BY <1>4, <1>5 DEF ReceivePacket

\* Steps that leave numbers alone.
LEMMA BufferOrder ==
    ASSUME TypeOK, OrderInv,
           UNCHANGED <<senderVars, wireVars, ingressVars, queueVars, egressVars>>,
           rxBuffer' \subseteq rxBuffer, AckId' \in Nat, AckId <= AckId'
    PROVE  OrderInv'
<1>0. /\ UNCHANGED <<sent, leadingAck, holes, txBuffer, toTx, toRx, rxLack,
                     lackNotifyCount, expectedId, lackUpdates,
                     lossNotifications>>
  BY DEF senderVars, wireVars, ingressVars, queueVars, egressVars
<1>1. ArrivalsInv'
  BY <1>0 DEF OrderInv, ArrivalsInv, Fifo
<1>2. PastInv'
  BY <1>0 DEF OrderInv, PastInv, Seen
<1>3. NearInv'
  <2>1. BlockingMode => sent - AckId' <= HalfRange
    BY OrderTypes, SeqNumbers DEF OrderInv, NearInv, Near
  <2> QED
    BY <1>0, <2>1 DEF OrderInv, NearInv, Near
<1> QED
  BY <1>1, <1>2, <1>3 DEF OrderInv

\* A packet held back stays, or is handed on or dropped.
LEMMA ReprocessOrder ==
    ASSUME TypeOK, OrderInv, NEW pkt \in rxBuffer, ReprocessBuffered(pkt),
           UNCHANGED senderVars
    PROVE  OrderInv'
<1>1. pkt \in Packet
  BY OrderTypes
<1>2. /\ AckId' \in Nat /\ AckId <= AckId'
      /\ rxBuffer' \subseteq (rxBuffer \ {pkt}) \cup {pkt}
  BY <1>1, InOrderGrows DEF ReprocessBuffered
<1>3. UNCHANGED <<wireVars, ingressVars, queueVars, egressVars>>
  BY DEF ReprocessBuffered
<1> QED
  BY <1>2, <1>3, BufferOrder

\* A time-out moves the ack by at most one packet.
LEMMA TimerGrows ==
    ASSUME TypeOK, TimerPacket
    PROVE  AckId' \in Nat /\ AckId <= AckId' /\ AckId' <= AckId + 1
<1>1. /\ AckId \in Nat /\ gaveUp \subseteq Nat /\ IsFiniteSet(gaveUp)
      /\ Len(delivered) \in Nat
  BY AckIdType DEF TypeOK, ReceiverTypeOK
<1>2. /\ delivered' = delivered
      /\ gaveUp' = gaveUp \/ gaveUp' = gaveUp \cup {AckId}
  BY DEF TimerPacket
<1>3. /\ Cardinality(gaveUp) \in Nat
      /\ Cardinality(gaveUp') \in {Cardinality(gaveUp), Cardinality(gaveUp) + 1}
  BY <1>1, <1>2, FS_CardinalityType, FS_AddElement
<1> QED
  BY <1>1, <1>2, <1>3 DEF AckId

\* A time-out moves the ack alone.
LEMMA TimerOrder ==
    ASSUME TypeOK, OrderInv, TimerPacket, UNCHANGED senderVars
    PROVE  OrderInv'
<1>1. UNCHANGED <<wireVars, ingressVars, queueVars, egressVars>>
      /\ rxBuffer' \subseteq rxBuffer
  BY DEF TimerPacket
<1> QED
  BY <1>1, TimerGrows, BufferOrder

\* LACKs and notifications move on.
LEMMA EgressOrder ==
    ASSUME TypeOK, OrderInv, UNCHANGED senderVars,
           EgressLackUpdate \/ EgressLossNotification \/ EgressLack
    PROVE  OrderInv'
<1>0. /\ UNCHANGED <<sent, leadingAck, holes, txBuffer, toRx, expectedId,
                     rxBuffer, AckId>>
      /\ lackNotifyCount \in Nat
  BY DEF EgressLackUpdate, EgressLossNotification, EgressLack, wireVars,
         ingressVars, blockingVars, senderVars, AckId, TypeOK, ReceiverTypeOK
<1>1. \A l \in {rxLack'} \cup Elements(lackUpdates') :
            l \in {rxLack} \cup Elements(lackUpdates)
  <2>1. CASE EgressLackUpdate
    BY <2>1, OrderTypes, ElementsHeadTail DEF EgressLackUpdate
  <2>2. CASE EgressLossNotification \/ EgressLack
    BY <2>2 DEF EgressLossNotification, EgressLack, queueVars
  <2> QED
    BY <2>1, <2>2
<1>2. lackNotifyCount' > 0 =>
            rxLack' \in Elements(lackUpdates)
                \/ (rxLack' = rxLack /\ lackNotifyCount > 0)
  <2>1. CASE EgressLackUpdate
    BY <2>1, OrderTypes, ElementsHeadTail DEF EgressLackUpdate
  <2>2. CASE EgressLossNotification
    BY <2>2 DEF EgressLossNotification, SilencedLackCount
  <2>3. CASE EgressLack
    BY <2>3 DEF EgressLack
  <2> QED
    BY <2>1, <2>2, <2>3
<1>3. Elements(lossNotifications') \subseteq Elements(lossNotifications)
  <2>1. CASE EgressLossNotification
    BY <2>1, OrderTypes, ElementsHeadTail DEF EgressLossNotification
  <2>2. CASE EgressLackUpdate \/ EgressLack
    BY <2>2 DEF EgressLackUpdate, EgressLack, queueVars
  <2> QED
    BY <2>1, <2>2
<1>4. \A m \in Elements(toTx') :
        \/ m \in Elements(toTx)
        \/ \E n \in Elements(lossNotifications) : m.lack = n.lack
        \/ m.lack = rxLack /\ ~m.loss /\ lackNotifyCount > 0
  <2>1. CASE EgressLackUpdate
    BY <2>1 DEF EgressLackUpdate, wireVars
  <2>2. CASE EgressLossNotification
    <3> DEFINE n == Head(lossNotifications)
               m == LossMessage(n)
    <3>1. n \in Notification /\ n \in Elements(lossNotifications)
      BY <2>2, OrderTypes, HeadTailType, ElementsHeadTail
         DEF EgressLossNotification
    <3>2. m \in AckMessage /\ m.lack = n.lack
      BY <3>1 DEF LossMessage, Notification, AckMessage
    <3>3. toTx' = Append(toTx, m)
      BY <2>2 DEF EgressLossNotification
    <3> HIDE DEF m, n
    <3>4. Elements(toTx') = Elements(toTx) \cup {m}
      BY <3>2, <3>3, OrderTypes, ElementsAppend
    <3> QED
      BY <3>1, <3>2, <3>4
  <2>3. CASE EgressLack
    <3> DEFINE m == LackMessage(rxLack)
    <3>1. m \in AckMessage /\ m.lack = rxLack /\ ~m.loss
      BY OrderTypes, ZeroSeqNo DEF LackMessage, AckMessage
    <3>2. toTx' = Append(toTx, m) /\ lackNotifyCount > 0
      BY <2>3 DEF EgressLack
    <3> HIDE DEF m
    <3>3. Elements(toTx') = Elements(toTx) \cup {m}
      BY <3>1, <3>2, OrderTypes, ElementsAppend
    <3> QED
      BY <3>1, <3>2, <3>3
  <2> QED
    BY <2>1, <2>2, <2>3
<1>5. ArrivalsInv'
  BY <1>0 DEF OrderInv, ArrivalsInv, Fifo
<1>6. PastInv'
  <2>1. /\ Seen(rxLack)' /\ \A l \in Elements(lackUpdates') : Seen(l)
    BY <1>0, <1>1 DEF OrderInv, PastInv, Seen
  <2>2. \A m \in Elements(toTx') : Seen(m.lack) /\ (m.loss => expectedId > 0)
    BY <1>4 DEF OrderInv, PastInv
  <2> QED
    BY <1>0, <1>3, <2>1, <2>2 DEF OrderInv, PastInv, Seen
<1>7. NearInv'
  <2>1. \A m \in Elements(toTx') \cup Elements(lossNotifications') :
            Near(m.lack.id)
    BY <1>3, <1>4 DEF OrderInv, NearInv
  <2>2. \A l \in Elements(lackUpdates') : Near(l.id)
    <3>1. CASE EgressLackUpdate
      BY <3>1, OrderTypes, ElementsHeadTail
         DEF EgressLackUpdate, OrderInv, NearInv
    <3>2. CASE EgressLossNotification \/ EgressLack
      BY <3>2 DEF EgressLossNotification, EgressLack, queueVars, OrderInv,
                  NearInv
    <3> QED
      BY <3>1, <3>2
  <2>3. lackNotifyCount' > 0 => Near(rxLack'.id)
    BY <1>2 DEF OrderInv, NearInv
  <2> QED
    BY <1>0, <2>1, <2>2, <2>3 DEF OrderInv, NearInv, Near
<1> QED
  BY <1>5, <1>6, <1>7 DEF OrderInv

\* Every step keeps the order of identities.
LEMMA OrderStep ==
    ASSUME TypeOK, HeadersFaithful, OrderInv, [Next]_vars
    PROVE  OrderInv'
<1>1. CASE WithinWindow /\ SendNormal /\ UNCHANGED receiverVars
  BY <1>1, SendNormalOrder
<1>2. CASE SenderNext /\ UNCHANGED receiverVars
  BY <1>2, SendDummyOrder, RecordLackOrder, ProcessBufferedOrder DEF SenderNext
<1>3. CASE ReceiverNext /\ UNCHANGED senderVars
  BY <1>3, ReceivePacketOrder, ReprocessOrder, TimerOrder, EgressOrder
     DEF ReceiverNext
<1>4. CASE UNCHANGED vars
  <2>1. UNCHANGED <<senderVars, wireVars, ingressVars, queueVars, egressVars,
                    rxBuffer, AckId>>
    BY <1>4 DEF vars, receiverVars, ingressVars, queueVars, egressVars, AckId
  <2> QED
    BY <2>1, BufferOrder, OrderTypes
<1> QED
  BY <1>1, <1>2, <1>3, <1>4 DEF Next

(***************************************************************************)
(* First transmissions arrive in order, everything the receiver holds or   *)
(* answers is behind the number it expects, and everything that is         *)
(* compared is at most half the range apart: so every comparison of        *)
(* headers in either switch decides as the order of the packets does.      *)
(***************************************************************************)
THEOREM LinkIsOrdered == Spec => []OrderInv
BY OrderInit, OrderStep, TypeCorrect, HeadersAreFaithful, PTL DEF Spec

-----------------------------------------------------------------------------
\* Blocking mode.

\* The packet handed on is the one the ack waits for.
LEMMA HandOnIsAck ==
    ASSUME TypeOK, HeadersFaithful, OrderInv, AckInv, AckBehind, BlockingMode,
           NEW pkt \in Elements(toRx) \cup rxBuffer, NEW others,
           HandOn(pkt, others)
    PROVE  /\ pkt.id = AckId /\ AckId' = AckId + 1
           /\ delivered' = Append(delivered, AckId) /\ UNCHANGED gaveUp
<1>1. /\ pkt.id \in Nat /\ AckId \in Nat /\ sent \in Nat
      /\ expectedId \in Nat /\ AckId <= expectedId /\ expectedId <= sent
      /\ pkt.id <= sent
  BY OrderTypes, Window DEF AckBehind
<1>2. sent - pkt.id <= HalfRange /\ sent - AckId <= HalfRange
  BY DEF OrderInv, NearInv, Near
<1>3. pkt.id - AckId <= HalfRange /\ AckId - pkt.id <= HalfRange
  BY <1>1, <1>2, SeqNumbers
<1>4. SeqOf(pkt.id) = SeqOf(AckId)
  BY DEF HandOn, IsNext, HeadersFaithful, Numbered, AckInv
<1>5. pkt.id = AckId
  BY <1>1, <1>3, <1>4, SameNumber
<1>6. delivered' = Append(delivered, pkt.id) /\ gaveUp' = gaveUp
  BY DEF HandOn
<1>7. AckId' = AckId + 1
  <2>1. Len(delivered') = Len(delivered) + 1 /\ Len(delivered) \in Nat
    BY <1>1, <1>6 DEF TypeOK, ReceiverTypeOK
  <2>2. Cardinality(gaveUp) \in Nat
    BY FS_CardinalityType DEF TypeOK, ReceiverTypeOK
  <2> QED
    BY <1>6, <2>1, <2>2 DEF AckId
<1> QED
  BY <1>5, <1>6, <1>7

\* What a step of blocking mode does to the packets that came out, as
\* OrderedLink has it.
NoOutput   == UNCHANGED <<delivered, gaveUp>>
DeliverAck == /\ AckId < expectedId' /\ AckId' = AckId + 1
              /\ delivered' = Append(delivered, AckId) /\ UNCHANGED gaveUp
SkipAck    == /\ AckId < expectedId /\ AckId' = AckId + 1
              /\ gaveUp' = gaveUp \cup {AckId} /\ UNCHANGED delivered

\* A packet is handed on if it is the one the ack waits for.
LEMMA InOrderOutput ==
    ASSUME TypeOK, HeadersFaithful, OrderInv, AckInv, AckBehind, BlockingMode,
           NEW pkt \in Elements(toRx) \cup rxBuffer, NEW others,
           InOrder(pkt, others), pkt.id < expectedId'
    PROVE  NoOutput \/ DeliverAck
<1>1. CASE HandOn(pkt, others)
  BY <1>1, HandOnIsAck DEF DeliverAck
<1>2. CASE Recirculate(pkt, others) \/ DropDuplicate(pkt, others)
  BY <1>2 DEF Recirculate, DropDuplicate, NoOutput
<1> QED
  BY <1>1, <1>2 DEF InOrder

\* So is a packet from the wire.
LEMMA ReceivePacketOutput ==
    ASSUME TypeOK, HeadersFaithful, OrderInv, AckInv, AckBehind, BlockingMode,
           ReceivePacket
    PROVE  (NoOutput \/ DeliverAck) /\ expectedId <= expectedId'
<1> DEFINE pkt == Head(toRx)
<1>1. /\ pkt \in Packet /\ pkt \in Elements(toRx) /\ pkt.id \in Nat
      /\ expectedId \in Nat /\ toRx # <<>> /\ toRx' = Tail(toRx)
  BY OrderTypes, HeadTailType, ElementsHeadTail DEF ReceivePacket
<1>2. expectedId <= expectedId' /\ (~pkt.dummy => pkt.id < expectedId')
  <2>1. CASE pkt.copy = 0
    <3>1. DetectHole(pkt)
      BY <2>1 DEF ReceivePacket
    <3>2. expectedId' = After(pkt) /\ expectedId <= expectedId'
      BY <1>1, <2>1, <3>1, DetectHoleOrder
    <3> QED
      BY <1>1, <3>2 DEF After
  <2>2. CASE pkt.copy > 0
    <3>1. expectedId' = expectedId
      BY <2>2 DEF ReceivePacket, ingressVars
    <3>2. pkt.id < expectedId
      BY <1>1, <2>2 DEF OrderInv, PastInv
    <3> QED
      BY <1>1, <3>1, <3>2
  <2> QED
    BY <2>1, <2>2 DEF ReceivePacket
<1>3. CASE pkt.dummy
  BY <1>2, <1>3 DEF ReceivePacket, blockingVars, NoOutput
<1>4. CASE ~pkt.dummy
  <2>1. InOrder(pkt, rxBuffer)
    BY <1>4 DEF ReceivePacket, Forward
  <2> QED
    BY <1>1, <1>2, <1>4, <2>1, InOrderOutput
<1> QED
  BY <1>3, <1>4

\* The timer gives up on one packet or on none.
LEMMA TimerOutput ==
    ASSUME TypeOK, HeadersFaithful, OrderInv, AckInv, AckBehind, BlockingMode,
           TimerPacket
    PROVE  NoOutput \/ SkipAck
<1>1. /\ AckId \in Nat /\ gaveUp \subseteq Nat /\ IsFiniteSet(gaveUp)
      /\ expectedId \in Nat
  BY OrderTypes DEF TypeOK, ReceiverTypeOK
<1>2. CASE UNCHANGED gaveUp
  BY <1>2 DEF TimerPacket, NoOutput
<1>3. CASE gaveUp' = gaveUp \cup {AckId}
  <2>1. AckId # expectedId
    BY DEF TimerPacket, AckLags, AckInv, HeadersFaithful
  <2>2. AckId < expectedId
    BY <1>1, <2>1 DEF AckBehind
  <2>3. AckId \notin gaveUp
    BY <1>1 DEF AckInv
  <2>4. /\ Cardinality(gaveUp') = Cardinality(gaveUp) + 1
        /\ Cardinality(gaveUp) \in Nat
    BY <1>1, <1>3, <2>3, FS_AddElement, FS_CardinalityType
  <2>5. delivered' = delivered /\ Len(delivered) \in Nat
    BY DEF TimerPacket, TypeOK, ReceiverTypeOK
  <2>6. AckId' = AckId + 1
    BY <2>4, <2>5 DEF AckId
  <2> QED
    BY <1>3, <2>2, <2>5, <2>6 DEF SkipAck
<1> QED
  BY <1>2, <1>3 DEF TimerPacket

\* Every step hands on, or gives up, at most the next packet.
LEMMA OutputStep ==
    ASSUME TypeOK, HeadersFaithful, OrderInv, AckInv, AckBehind, BlockingMode,
           [Next]_vars
    PROVE  /\ NoOutput \/ DeliverAck \/ SkipAck
           /\ expectedId <= expectedId'
<1>0. expectedId \in Nat
  BY OrderTypes
<1>1. CASE UNCHANGED receiverVars \/ UNCHANGED vars
  BY <1>0, <1>1 DEF receiverVars, vars, NoOutput
<1>2. CASE ReceivePacket
  BY <1>2, ReceivePacketOutput
<1>3. ASSUME NEW pkt \in rxBuffer, ReprocessBuffered(pkt)
      PROVE  (NoOutput \/ DeliverAck) /\ expectedId <= expectedId'
  <2>1. expectedId' = expectedId /\ InOrder(pkt, rxBuffer \ {pkt})
    BY <1>3 DEF ReprocessBuffered, ingressVars
  <2>2. pkt.id < expectedId'
    BY <2>1 DEF OrderInv, PastInv
  <2> QED
    BY <1>0, <2>1, <2>2, InOrderOutput
<1>4. CASE TimerPacket
  <2>1. expectedId' = expectedId
    BY <1>4 DEF TimerPacket, ingressVars
  <2> QED
    BY <1>0, <1>4, <2>1, TimerOutput
<1>5. CASE EgressLackUpdate \/ EgressLossNotification \/ EgressLack
  BY <1>0, <1>5 DEF EgressLackUpdate, EgressLossNotification, EgressLack,
                    ingressVars, blockingVars, NoOutput
<1> QED
  BY <1>1, <1>2, <1>3, <1>4, <1>5 DEF Next, ReceiverNext

\* Every step keeps the ack behind the expected packet.
LEMMA AckBehindStep ==
    ASSUME TypeOK, HeadersFaithful, OrderInv, AckInv, AckBehind, [Next]_vars
    PROVE  AckBehind'
<1> SUFFICES ASSUME BlockingMode PROVE AckId' <= expectedId'
  BY DEF AckBehind
<1>1. expectedId \in Nat /\ AckId \in Nat /\ AckId <= expectedId
  BY OrderTypes DEF AckBehind
<1>2. expectedId' \in Nat
  BY TypeStep, OrderTypes DEF TypeOK, ReceiverTypeOK
<1>3. expectedId <= expectedId' /\ (NoOutput \/ DeliverAck \/ SkipAck)
  BY OutputStep
<1>4. NoOutput => AckId' = AckId
  BY DEF NoOutput, AckId
<1> QED
  BY <1>1, <1>2, <1>3, <1>4 DEF DeliverAck, SkipAck

(***************************************************************************)
(* In blocking mode the ack counts the packets handed on or skipped and    *)
(* stays at or behind the number hole detection expects, whatever is lost, *)
(* late or duplicated, if no time-out steps over the last number of an     *)
(* era: the timer, which only asks whether the two are equal, never runs   *)
(* past the packets that exist.                                            *)
(***************************************************************************)
THEOREM AckIsTracked ==
    ASSUME MaxSeqNo \notin MayTimeout
    PROVE  Spec => []AckTracksExpected
<1>1. /\ Init => AckBehind
      /\ TypeOK /\ AckInv /\ [Next]_vars => AckInv'
      /\ AckInv /\ AckBehind => AckTracksExpected
  BY OrderInit, AckStep DEF AckInv, AckBehind, AckCounts, AckTracksExpected
<1>2. TypeOK /\ HeadersFaithful /\ OrderInv /\ AckInv /\ AckBehind /\ [Next]_vars
        => AckBehind'
  BY AckBehindStep
<1> QED
  BY AckInit, TypeCorrect, HeadersAreFaithful, LinkIsOrdered, <1>1, <1>2, PTL
     DEF Spec

\* A step of the link is one of the ordered link or none.
LEMMA OrderedLinkStep ==
    ASSUME TypeOK, HeadersFaithful, OrderInv, AckInv, AckBehind, BlockingMode,
           [Next]_vars
    PROVE  [Ordered!Next]_(Ordered!vars)
<1>1. Ordered!NextOut = AckId
  BY DEF Ordered!NextOut, AckId, Cardinality, Ordered!Cardinality
<1>2. /\ AckId \in Nat /\ sent \in Nat /\ expectedId \in Nat
      /\ expectedId <= sent /\ AckId <= expectedId
  BY OrderTypes, Window DEF AckBehind
<1>3. CASE SendNormal /\ UNCHANGED receiverVars
  BY <1>3 DEF SendNormal, receiverVars, Ordered!Next, Ordered!Accept
<1>4. CASE UNCHANGED sent
  <2>1. expectedId' <= sent /\ expectedId' \in Nat
    <3>1. OrderInv' /\ TypeOK'
      BY OrderStep, TypeStep
    <3> QED
      BY <1>4, <3>1 DEF OrderInv, ArrivalsInv, TypeOK, ReceiverTypeOK
  <2>2. CASE NoOutput
    BY <1>4, <2>2 DEF NoOutput, Ordered!vars
  <2>3. CASE DeliverAck
    BY <1>1, <1>2, <1>4, <2>1, <2>3
       DEF DeliverAck, Ordered!Next, Ordered!Deliver
  <2>4. CASE SkipAck
    BY <1>1, <1>2, <1>4, <2>4 DEF SkipAck, Ordered!Next, Ordered!Skip
  <2> QED
    BY <2>2, <2>3, <2>4, OutputStep
<1> QED
  BY <1>3, <1>4 DEF Next, SenderNext, SendDummy, RecordLeadingAck,
                    ProcessBuffered, senderVars, vars

(***************************************************************************)
(* In blocking mode the protected link is an ordered link: accepted        *)
(* packets come out in the order in which they went in, each at most once, *)
(* and a packet the timer gave up on never comes out later.  The           *)
(* assumption that a 16-bit number tells the packets in flight apart       *)
(* (WithinWindow) and the one on time-outs at the end of an era are all    *)
(* it takes.                                                               *)
(***************************************************************************)
THEOREM ImplementsOrderedLink ==
    ASSUME BlockingMode, MaxSeqNo \notin MayTimeout
    PROVE  Spec => OrderedLinkSpec
<1>1. Init => Ordered!Init
  BY DEF Init, SenderInit, ReceiverInit, Ordered!Init
<1>2. TypeOK /\ HeadersFaithful /\ OrderInv /\ AckInv /\ AckBehind /\ [Next]_vars
        => [Ordered!Next]_(Ordered!vars)
  BY OrderedLinkStep
<1>3. /\ TypeOK /\ AckInv /\ [Next]_vars => AckInv'
      /\ TypeOK /\ HeadersFaithful /\ OrderInv /\ AckInv /\ AckBehind /\ [Next]_vars
            => AckBehind'
      /\ Init => AckBehind
  BY AckStep, AckBehindStep, OrderInit
<1> QED
  BY AckInit, TypeCorrect, HeadersAreFaithful, LinkIsOrdered, <1>1, <1>2, <1>3,
     PTL DEF Spec, OrderedLinkSpec, Ordered!Spec
-----------------------------------------------------------------------------
\* Sequences without repetition.

Distinct(q) == \A i, j \in DOMAIN q : q[i] = q[j] => i = j

\* A new member leaves a queue without repetition.
LEMMA DistinctAppend ==
    ASSUME NEW S, NEW q \in Seq(S), NEW e \in S,
           Distinct(q), e \notin Elements(q)
    PROVE  Distinct(Append(q, e))
<1> DEFINE r == Append(q, e)
<1>1. /\ DOMAIN r = (1 .. Len(q)) \cup {Len(q) + 1}
      /\ r[Len(q) + 1] = e /\ \A i \in 1 .. Len(q) : r[i] = q[i]
  OBVIOUS
<1>2. DOMAIN q = 1 .. Len(q)
  OBVIOUS
<1>3. \A i \in 1 .. Len(q) : q[i] # e
  BY <1>2 DEF Elements
<1> HIDE DEF r
<1>4. Distinct(r)
  BY <1>1, <1>2, <1>3 DEF Distinct
<1> QED
  BY <1>4 DEF r

\* The first member is not among those behind it.
LEMMA DistinctHeadTail ==
    ASSUME NEW S, NEW q \in Seq(S), q # <<>>, Distinct(q)
    PROVE  /\ Distinct(Tail(q))
           /\ Elements(q) = {Head(q)} \cup Elements(Tail(q))
           /\ Head(q) \notin Elements(Tail(q))
<1> DEFINE t == Tail(q)
<1>1. /\ Len(q) \in Nat \ {0} /\ DOMAIN q = 1 .. Len(q) /\ Head(q) = q[1]
      /\ DOMAIN t = 1 .. Len(q) - 1 /\ \A i \in 1 .. Len(q) - 1 : t[i] = q[i + 1]
  OBVIOUS
<1> HIDE DEF t
<1>2. Distinct(t)
  <2> SUFFICES ASSUME NEW i \in DOMAIN t, NEW j \in DOMAIN t, t[i] = t[j]
               PROVE  i = j
    BY DEF Distinct
  <2>1. q[i + 1] = q[j + 1] /\ i + 1 \in DOMAIN q /\ j + 1 \in DOMAIN q
    BY <1>1
  <2>2. i + 1 = j + 1
    BY <2>1 DEF Distinct
  <2> QED
    BY <1>1, <2>2
<1>3. Head(q) \notin Elements(t)
  <2> SUFFICES ASSUME NEW i \in DOMAIN t, t[i] = Head(q)
               PROVE  FALSE
    BY DEF Elements
  <2>1. q[i + 1] = q[1] /\ i + 1 \in DOMAIN q /\ 1 \in DOMAIN q
    BY <1>1
  <2>2. i + 1 = 1
    BY <2>1 DEF Distinct
  <2> QED
    BY <1>1, <2>2
<1>4. Elements(q) = {q[1]} \cup Elements(t)
  <2>1. Elements(q) \subseteq {q[1]} \cup Elements(t)
    <3> SUFFICES ASSUME NEW i \in DOMAIN q, i # 1 PROVE q[i] \in Elements(t)
      BY DEF Elements
    <3>1. i - 1 \in DOMAIN t /\ t[i - 1] = q[(i - 1) + 1]
      BY <1>1
    <3>2. (i - 1) + 1 = i
      BY <1>1
    <3> QED
      BY <3>1, <3>2 DEF Elements
  <2>2. \A i \in DOMAIN t : t[i] \in Elements(q)
    <3> SUFFICES ASSUME NEW i \in DOMAIN t PROVE t[i] \in Elements(q)
      OBVIOUS
    <3>1. i + 1 \in DOMAIN q /\ t[i] = q[i + 1]
      BY <1>1
    <3> QED
      BY <3>1 DEF Elements
  <2>3. q[1] \in Elements(q)
    BY <1>1 DEF Elements
  <2> QED
    BY <2>1, <2>2, <2>3 DEF Elements
<1> QED
  BY <1>1, <1>2, <1>3, <1>4 DEF t

-----------------------------------------------------------------------------
(***************************************************************************)
(* The recirculation loop holds exactly the packets of the rx buffer, and  *)
(* each of them once: a packet that comes round is the only one of its     *)
(* kind, so that when it is handed on it leaves the buffer.                *)
(***************************************************************************)
LoopInv ==
    /\ recircQueue \in Seq(Packet) /\ recircPipe \in Seq(Packet)
    /\ rxBuffer = Elements(recircQueue) \cup Elements(recircPipe)
    /\ Distinct(recircQueue) /\ Distinct(recircPipe)
    /\ Elements(recircQueue) \cap Elements(recircPipe) = {}

\* The queue and the rx buffer are empty.
LEMMA LoopInit == FlowControlInit => LoopInv
BY DEF FlowControlInit, Init, ReceiverInit, LoopInv, Elements, Distinct

\* The rx buffer after a packet was put in order.
LEMMA InOrderBuffer ==
    ASSUME NEW pkt, NEW others, InOrder(pkt, others)
    PROVE  \/ rxBuffer' = others
           \/ Early(pkt) /\ rxBuffer' = others \cup {pkt}
BY DEF InOrder, HandOn, Recirculate, DropDuplicate

\* A packet held back from the wire enters the queue once.
LEMMA WireStepLoop == ASSUME TypeOK, LoopInv, WireStep PROVE LoopInv'
<1> DEFINE pkt == Head(toRx)
<1>1. pkt \in Packet
  BY HeadTailType DEF WireStep, ReceivePacket, TypeOK, WiresTypeOK
<1>2. rxBuffer' = rxBuffer \/ rxBuffer' = rxBuffer \cup {pkt}
  <2>1. CASE UNCHANGED rxBuffer
    BY <2>1
  <2>2. CASE InOrder(pkt, rxBuffer)
    BY <2>2, InOrderBuffer
  <2> QED
    BY <2>1, <2>2 DEF WireStep, ReceivePacket, Forward
<1>3. UNCHANGED recircPipe
  BY DEF WireStep
<1>4. CASE rxBuffer' = rxBuffer
  BY <1>3, <1>4 DEF WireStep, LoopInv
<1>5. CASE rxBuffer' # rxBuffer
  <2>1. recircQueue' = Append(recircQueue, pkt)
    BY <1>5 DEF WireStep, Joined
  <2>2. pkt \notin rxBuffer /\ rxBuffer' = rxBuffer \cup {pkt}
    BY <1>2, <1>5
  <2>3. recircQueue' \in Seq(Packet)
    BY <1>1, <2>1, AppendType DEF LoopInv
  <2>4. Elements(recircQueue') = Elements(recircQueue) \cup {pkt}
    BY <1>1, <2>1, ElementsAppend DEF LoopInv
  <2>5. Distinct(recircQueue')
    BY <1>1, <2>1, <2>2, DistinctAppend DEF LoopInv
  <2> QED
    BY <1>3, <2>2, <2>3, <2>4, <2>5 DEF LoopInv
<1> QED
  BY <1>4, <1>5

\* What the next packet of the pipe is to the rest of the loop.
LEMMA PipeHead ==
    ASSUME LoopInv, recircPipe # <<>>
    PROVE  /\ Head(recircPipe) \in Packet /\ Head(recircPipe) \in rxBuffer
           /\ Tail(recircPipe) \in Seq(Packet) /\ Distinct(Tail(recircPipe))
           /\ Elements(recircPipe) =
                {Head(recircPipe)} \cup Elements(Tail(recircPipe))
           /\ Head(recircPipe) \notin
                Elements(Tail(recircPipe)) \cup Elements(recircQueue)
<1>1. /\ recircPipe \in Seq(Packet) /\ Distinct(recircPipe)
      /\ rxBuffer = Elements(recircQueue) \cup Elements(recircPipe)
      /\ Elements(recircQueue) \cap Elements(recircPipe) = {}
  BY DEF LoopInv
<1>2. /\ Distinct(Tail(recircPipe))
      /\ Elements(recircPipe) =
            {Head(recircPipe)} \cup Elements(Tail(recircPipe))
      /\ Head(recircPipe) \notin Elements(Tail(recircPipe))
  BY <1>1, DistinctHeadTail
<1>3. Head(recircPipe) \in Packet /\ Tail(recircPipe) \in Seq(Packet)
  BY <1>1, HeadTailType
<1> QED
  BY <1>1, <1>2, <1>3

\* The next packet leaves the rx buffer, or joins the queue again.
LEMMA RecirculatedStepLoop ==
    ASSUME LoopInv, RecirculatedStep PROVE LoopInv'
<1> DEFINE pkt == Head(recircPipe)
           rest == Tail(recircPipe)
<1>1. /\ pkt \in Packet /\ pkt \in rxBuffer
      /\ rest \in Seq(Packet) /\ Distinct(rest)
      /\ Elements(recircPipe) = {pkt} \cup Elements(rest)
      /\ pkt \notin Elements(rest) \cup Elements(recircQueue)
      /\ recircPipe' = rest
  BY PipeHead DEF RecirculatedStep
<1> HIDE DEF rest
<1>2. CASE ReprocessBuffered(pkt) /\ UNCHANGED recircQueue
  <2>1. rxBuffer' = rxBuffer \ {pkt}
    BY <1>2, InOrderBuffer DEF ReprocessBuffered
  <2> QED
    BY <1>1, <1>2, <2>1 DEF LoopInv
<1>3. CASE /\ recircQueue' = Joined(pkt)
           /\ UNCHANGED receiverVars
  <2>1. recircQueue' = Append(recircQueue, pkt) /\ rxBuffer' = rxBuffer
    BY <1>3 DEF Joined, receiverVars
  <2>2. recircQueue' \in Seq(Packet)
    BY <1>1, <2>1, AppendType DEF LoopInv
  <2>3. Elements(recircQueue') = Elements(recircQueue) \cup {pkt}
    BY <1>1, <2>1, ElementsAppend DEF LoopInv
  <2>4. Distinct(recircQueue')
    BY <1>1, <2>1, DistinctAppend DEF LoopInv
  <2> QED
    BY <1>1, <2>1, <2>2, <2>3, <2>4 DEF LoopInv
<1> QED
  BY <1>2, <1>3 DEF RecirculatedStep

\* A packet goes from the queue to the pipe.
LEMMA RecircEgressLoop == ASSUME LoopInv, RecircEgress PROVE LoopInv'
<1> DEFINE pkt == Head(recircQueue)
           rest == Tail(recircQueue)
<1>1. /\ recircQueue \in Seq(Packet) /\ recircQueue # <<>>
      /\ Distinct(recircQueue) /\ recircPipe \in Seq(Packet)
      /\ recircQueue' = rest /\ recircPipe' = Append(recircPipe, pkt)
      /\ rxBuffer' = rxBuffer
  BY DEF RecircEgress, LoopInv, vars, receiverVars
<1>2. /\ Distinct(rest) /\ Elements(recircQueue) = {pkt} \cup Elements(rest)
      /\ pkt \notin Elements(rest)
  BY <1>1, DistinctHeadTail
<1>3. pkt \in Packet /\ rest \in Seq(Packet)
  BY <1>1, HeadTailType
<1> HIDE DEF pkt, rest
<1>4. pkt \notin Elements(recircPipe)
  BY <1>2 DEF LoopInv
<1>5. recircPipe' \in Seq(Packet)
  BY <1>1, <1>3, AppendType
<1>6. Elements(recircPipe') = Elements(recircPipe) \cup {pkt}
  BY <1>1, <1>3, ElementsAppend
<1>7. Distinct(recircPipe')
  BY <1>1, <1>3, <1>4, DistinctAppend DEF LoopInv
<1> QED
  BY <1>1, <1>2, <1>3, <1>4, <1>5, <1>6, <1>7 DEF LoopInv

\* Every step keeps the rx buffer once in the queue.
LEMMA LoopStep ==
    ASSUME TypeOK, LoopInv, [FlowControlNext]_allVars PROVE LoopInv'
<1>1. CASE UNCHANGED <<rxBuffer, recircQueue, recircPipe>>
  BY <1>1 DEF LoopInv
<1>2. CASE SenderStep
  BY <1>1, <1>2 DEF SenderStep, receiverVars, fcVars
<1>3. CASE MacReceivesFrame \/ PauseExpires \/ TimerEgress
  BY <1>1, <1>3 DEF MacReceivesFrame, PauseExpires, TimerEgress, loopVars,
                    vars, receiverVars
<1>4. CASE OtherReceiverStep
  BY <1>1, <1>4 DEF OtherReceiverStep, fcVars, TimerPacket, EgressLackUpdate,
                    EgressLossNotification, EgressLack
<1>5. CASE UNCHANGED allVars
  BY <1>1, <1>5 DEF allVars, fcVars, vars, receiverVars
<1> QED
  BY <1>2, <1>3, <1>4, <1>5, WireStepLoop, RecirculatedStepLoop,
     RecircEgressLoop DEF FlowControlNext

-----------------------------------------------------------------------------
\* Every step of the flow-controlled link is one of the link, or none.
LEMMA StepSimulation ==
    ASSUME LoopInv, [FlowControlNext]_allVars PROVE [Next]_vars
<1>1. CASE SenderStep
  BY <1>1 DEF SenderStep, SenderNext, Next
<1>2. CASE WireStep
  BY <1>2 DEF WireStep, ReceiverNext, Next
<1>3. CASE RecirculatedStep
  <2>1. CASE ReprocessBuffered(Head(recircPipe)) /\ UNCHANGED senderVars
    <3>1. Head(recircPipe) \in rxBuffer
      BY <2>1 DEF ReprocessBuffered
    <3> QED
      BY <2>1, <3>1 DEF ReceiverNext, Next
  <2>2. CASE UNCHANGED receiverVars /\ UNCHANGED wireVars
                /\ UNCHANGED senderVars
    BY <2>2 DEF vars
  <2> QED
    BY <1>3, <2>1, <2>2 DEF RecirculatedStep
<1>4. CASE OtherReceiverStep
  BY <1>4 DEF OtherReceiverStep, ReceiverNext, Next
<1>5. CASE MacReceivesFrame \/ PauseExpires \/ RecircEgress \/ TimerEgress
  BY <1>5 DEF MacReceivesFrame, PauseExpires, RecircEgress, TimerEgress
<1>6. CASE UNCHANGED allVars
  BY <1>6 DEF allVars
<1> QED
  BY <1>1, <1>2, <1>3, <1>4, <1>5, <1>6 DEF FlowControlNext

(***************************************************************************)
(* The link with flow control implements the link without: pauses and the  *)
(* order of the recirculation queue only restrict what LinkGuardian does.  *)
(***************************************************************************)
THEOREM FlowControlImplementsLink == FlowControlSpec => Spec
<1>1. FlowControlInit => Init /\ TypeOK /\ LoopInv
  BY TypeInit, LoopInit DEF FlowControlInit
<1>2. TypeOK /\ LoopInv /\ [FlowControlNext]_allVars
            => [Next]_vars /\ TypeOK' /\ LoopInv'
  BY StepSimulation, LoopStep, TypeStep
<1> QED
  BY <1>1, <1>2, PTL DEF FlowControlSpec, Spec

\* What is proved of the link holds under flow control.
COROLLARY FlowControlKeepsHeaders ==
    FlowControlSpec => [](TypeOK /\ HeadersFaithful)
BY FlowControlImplementsLink, TypeCorrect, HeadersAreFaithful, PTL

(***************************************************************************)
(* The code as it is built for blocking mode, with the rx buffer in a      *)
(* recirculation queue and a sender that is paused and resumed, delivers   *)
(* every accepted packet at most once and in order.                        *)
(***************************************************************************)
THEOREM FlowControlKeepsOrder ==
    ASSUME BlockingMode, MaxSeqNo \notin MayTimeout
    PROVE  FlowControlSpec => OrderedLinkSpec
BY FlowControlImplementsLink, ImplementsOrderedLink, PTL

-----------------------------------------------------------------------------
\* Pauses.

PfcTypeOK ==
    /\ pfcState \in {"PAUSED", "RESUMED"}
    /\ pfcGenReq \in {"DROP"} \cup Frames
    /\ pfcWire \in Seq(Frames)
    /\ macPaused \in BOOLEAN

\* No pause was asked for.
LEMMA PfcInit == FlowControlInit => PfcTypeOK /\ ResumeIsLastWord
<1> SUFFICES ASSUME FlowControlInit PROVE PfcTypeOK /\ ResumeIsLastWord
  OBVIOUS
<1>1. /\ pfcState = "RESUMED" /\ pfcGenReq = "DROP" /\ pfcWire = <<>>
      /\ ~macPaused
  BY DEF FlowControlInit
<1>2. macPaused \in BOOLEAN
  BY DEF FlowControlInit
<1>3. PfcTypeOK
  BY <1>1, <1>2 DEF PfcTypeOK
<1>4. ResumeIsLastWord
  BY <1>1 DEF ResumeIsLastWord, LastWord
<1> QED
  BY <1>3, <1>4

\* A queue of one has nothing behind the first.
LEMMA OneElement ==
    ASSUME NEW S, NEW q \in Seq(S), q # <<>>
    PROVE  Tail(q) = <<>> <=> Len(q) = 1
<1>1. /\ Len(q) \in Nat \ {0} /\ Tail(q) \in Seq(S)
      /\ Len(Tail(q)) = Len(q) - 1
  OBVIOUS
<1>2. Tail(q) # <<>> => Len(Tail(q)) \in Nat \ {0}
  BY <1>1, EmptySeq
<1>3. Tail(q) = <<>> => Len(Tail(q)) = 0
  BY EmptySeq
<1> QED
  BY <1>1, <1>2, <1>3

\* A frame leaves the head of the wire: it was the last one, or the last one
\* is still there.
LEMMA LastOfTail ==
    ASSUME NEW S, NEW q \in Seq(S), q # <<>>
    PROVE  \/ Tail(q) = <<>> /\ Head(q) = q[Len(q)]
           \/ Tail(q) # <<>> /\ Tail(q)[Len(Tail(q))] = q[Len(q)]
<1>1. /\ Len(q) \in Nat \ {0} /\ Tail(q) \in Seq(S) /\ Head(q) = q[1]
      /\ Len(Tail(q)) = Len(q) - 1
      /\ \A i \in 1 .. Len(q) - 1 : Tail(q)[i] = q[i + 1]
  OBVIOUS
<1>2. CASE Len(q) = 1
  BY <1>1, <1>2, OneElement
<1>3. CASE Len(q) # 1
  <2>1. Len(q) - 1 \in 1 .. Len(q) - 1 /\ (Len(q) - 1) + 1 = Len(q)
    BY <1>1, <1>3
  <2>2. Tail(q) # <<>>
    BY <1>1, <1>3
  <2> QED
    BY <1>1, <2>1, <2>2
<1> QED
  BY <1>2, <1>3

\* A PFC frame that arrives pauses or resumes the sender.
LEMMA MacReceivesFrameWord ==
    ASSUME PfcTypeOK, ResumeIsLastWord, MacReceivesFrame
    PROVE  PfcTypeOK' /\ ResumeIsLastWord'
<1>1. /\ pfcWire \in Seq(Frames) /\ pfcWire # <<>>
      /\ pfcWire' = Tail(pfcWire)
      /\ UNCHANGED <<pfcState, pfcGenReq>>
      /\ macPaused' = (Head(pfcWire) = "PAUSE")
  BY DEF MacReceivesFrame, PfcTypeOK
<1>2. PfcTypeOK'
  BY <1>1, HeadTailType DEF PfcTypeOK
<1>3. ASSUME pfcState = "RESUMED", pfcGenReq = "DROP"
      PROVE  LastWord' = "RESUME"
  <2>1. pfcWire[Len(pfcWire)] = "RESUME"
    BY <1>1, <1>3 DEF ResumeIsLastWord, LastWord
  <2>2. CASE Tail(pfcWire) = <<>> /\ Head(pfcWire) = pfcWire[Len(pfcWire)]
    <3>1. ~macPaused'
      BY <1>1, <2>1, <2>2
    <3> QED
      BY <1>1, <1>3, <2>2, <3>1 DEF LastWord
  <2>3. CASE /\ Tail(pfcWire) # <<>>
             /\ Tail(pfcWire)[Len(Tail(pfcWire))] = pfcWire[Len(pfcWire)]
    BY <1>1, <1>3, <2>1, <2>3 DEF LastWord
  <2> QED
    BY <1>1, <2>2, <2>3, LastOfTail
<1>4. ResumeIsLastWord'
  BY <1>1, <1>3 DEF ResumeIsLastWord, LastWord
<1> QED
  BY <1>2, <1>4

\* The frame sent last says what the request register does.
LEMMA TimerEgressWord ==
    ASSUME PfcTypeOK, ResumeIsLastWord, TimerEgress
    PROVE  PfcTypeOK' /\ ResumeIsLastWord'
<1>1. /\ pfcWire \in Seq(Frames) /\ pfcGenReq \in Frames
      /\ pfcWire' = Append(pfcWire, pfcGenReq) /\ pfcGenReq' = "DROP"
      /\ UNCHANGED <<pfcState, macPaused>>
  BY DEF TimerEgress, PfcTypeOK
<1>2. pfcWire' \in Seq(Frames)
  BY <1>1, AppendType
<1>3. pfcWire' # <<>> /\ pfcWire'[Len(pfcWire')] = pfcGenReq
  BY <1>1
<1>4. LastWord' = LastWord
  BY <1>1, <1>3 DEF LastWord, Frames
<1> QED
  BY <1>1, <1>2, <1>4 DEF PfcTypeOK, ResumeIsLastWord

\* A change of the state leaves its frame in the register.
LEMMA CompareDepthWord ==
    ASSUME PfcTypeOK, ResumeIsLastWord, NEW depth, CompareDepth(depth),
           UNCHANGED <<pfcWire, macPaused>>
    PROVE  PfcTypeOK' /\ ResumeIsLastWord'
<1>1. CASE UNCHANGED <<pfcState, pfcGenReq>>
  BY <1>1 DEF PfcTypeOK, ResumeIsLastWord, LastWord
<1>2. CASE pfcState' = "PAUSED" /\ pfcGenReq' = "PAUSE"
  BY <1>2 DEF PfcTypeOK, ResumeIsLastWord, Frames
<1>3. CASE pfcState' = "RESUMED" /\ pfcGenReq' = "RESUME"
  BY <1>3 DEF PfcTypeOK, ResumeIsLastWord, LastWord, Frames
<1> QED
  BY <1>1, <1>2, <1>3 DEF CompareDepth, SwitchTo, Scheduled

\* Every step keeps the types and the last word of the flow control.
LEMMA PfcStep ==
    ASSUME PfcTypeOK, ResumeIsLastWord, [FlowControlNext]_allVars
    PROVE  PfcTypeOK' /\ ResumeIsLastWord'
<1>1. CASE UNCHANGED pfcVars
  BY <1>1 DEF pfcVars, PfcTypeOK, ResumeIsLastWord, LastWord
<1>2. CASE SenderStep \/ WireStep \/ RecirculatedStep \/ OtherReceiverStep
  BY <1>1, <1>2 DEF SenderStep, WireStep, RecirculatedStep,
                    OtherReceiverStep, fcVars, pfcVars
<1>3. CASE PauseExpires
  BY <1>3 DEF PauseExpires, PfcTypeOK, ResumeIsLastWord, LastWord
<1>4. CASE RecircEgress
  BY <1>4, CompareDepthWord DEF RecircEgress
<1>5. CASE UNCHANGED allVars
  BY <1>1, <1>5 DEF allVars, fcVars, pfcVars
<1> QED
  BY <1>2, <1>3, <1>4, <1>5, MacReceivesFrameWord, TimerEgressWord
     DEF FlowControlNext

(***************************************************************************)
(* A resume is never lost between the receiver's state and the sender's    *)
(* MAC, whatever the thresholds and however many frames are in flight.     *)
(***************************************************************************)
THEOREM ResumeNeverLost == FlowControlSpec => []ResumeIsLastWord
BY PfcInit, PfcStep, PTL DEF FlowControlSpec

-----------------------------------------------------------------------------
\* The egress of the last packet of the queue resumes.
LEMMA LastPacketResumes ==
    ASSUME PfcTypeOK, LoopInv, RecircEgress, recircQueue' = <<>>
    PROVE  pfcState' = "RESUMED"
<1>1. recircQueue \in Seq(Packet) /\ recircQueue # <<>>
      /\ Tail(recircQueue) = <<>>
  BY DEF RecircEgress, LoopInv
<1>2. Len(recircQueue) = 1
  BY <1>1, OneElement
<1>3. PICK depth \in {0, 1} : CompareDepth(depth)
  BY <1>2 DEF RecircEgress
<1>4. ~ExceedsPause(depth) /\ SubceedsResume(depth)
  BY FlowControlAssumption DEF ExceedsPause, SubceedsResume
<1> QED
  BY <1>3, <1>4 DEF CompareDepth, SwitchTo

\* Every step keeps a pause with a queue, or a resume to come.
LEMMA DrainedStep ==
    ASSUME PfcTypeOK, LoopInv, ResumedWhenDrained, [FlowControlNext]_allVars
    PROVE  ResumedWhenDrained'
<1> SUFFICES ASSUME recircQueue' = <<>> PROVE pfcState' = "RESUMED"
  BY DEF ResumedWhenDrained
<1>1. CASE UNCHANGED <<pfcState, recircQueue>>
  BY <1>1 DEF ResumedWhenDrained
<1>2. CASE WireStep \/ RecirculatedStep
  <2>1. \A pkt : Append(recircQueue, pkt) # <<>>
    BY DEF LoopInv
  <2>2. UNCHANGED recircQueue
    BY <1>2, <2>1 DEF WireStep, RecirculatedStep, Joined
  <2> QED
    BY <1>1, <1>2, <2>2 DEF WireStep, RecirculatedStep, pfcVars
<1>3. CASE SenderStep \/ OtherReceiverStep
  BY <1>1, <1>3 DEF SenderStep, OtherReceiverStep, fcVars
<1>4. CASE MacReceivesFrame \/ PauseExpires \/ TimerEgress
  BY <1>1, <1>4 DEF MacReceivesFrame, PauseExpires, TimerEgress, loopVars
<1>5. CASE RecircEgress
  BY <1>5, LastPacketResumes
<1>6. CASE UNCHANGED allVars
  BY <1>1, <1>6 DEF allVars, fcVars
<1> QED
  BY <1>2, <1>3, <1>4, <1>5, <1>6 DEF FlowControlNext

\* Types, loop and requests together.
LEMMA FlowControlInvariant ==
    FlowControlSpec => [](/\ TypeOK /\ LoopInv /\ PfcTypeOK
                          /\ ResumeIsLastWord /\ ResumedWhenDrained)
<1>1. FlowControlInit => TypeOK /\ LoopInv /\ PfcTypeOK /\ ResumeIsLastWord
                            /\ ResumedWhenDrained
  BY TypeInit, LoopInit, PfcInit DEF FlowControlInit, ResumedWhenDrained
<1>2. /\ TypeOK /\ LoopInv /\ PfcTypeOK /\ ResumeIsLastWord
      /\ ResumedWhenDrained /\ [FlowControlNext]_allVars
      => /\ TypeOK' /\ LoopInv' /\ PfcTypeOK' /\ ResumeIsLastWord'
         /\ ResumedWhenDrained'
  BY StepSimulation, TypeStep, LoopStep, PfcStep, DrainedStep
<1> QED
  BY <1>1, <1>2, PTL DEF FlowControlSpec

(***************************************************************************)
(* The types: what circulates, in the queue or in the pipe behind it, is   *)
(* exactly the rx buffer, and the pause state, the one-slot register, the  *)
(* frames and the sender's MAC keep their ranges.                          *)
(***************************************************************************)
THEOREM FlowControlTypeCorrect ==
    FlowControlSpec => []FlowControlTypeOK
<1>1. LoopInv /\ PfcTypeOK => FlowControlTypeOK
  BY DEF LoopInv, PfcTypeOK, FlowControlTypeOK
<1> QED
  BY <1>1, FlowControlInvariant, PTL

(***************************************************************************)
(* No pause outlives the queue that asked for it, for all thresholds with  *)
(* 1 <= resume < pause: a resume threshold of 0 would need the depth to be *)
(* reported without the packet that leaves.                                *)
(***************************************************************************)
THEOREM NoPauseWithoutQueue ==
    FlowControlSpec => []ResumedWhenDrained
BY FlowControlInvariant, PTL
=============================================================================
