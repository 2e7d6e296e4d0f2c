-------------------------- MODULE LGRecoveryProofs --------------------------
(***************************************************************************)
(* The sender, the losses and what becomes of a packet, for every value of *)
(* the constants: no lost packet leaves the tx buffer before it was        *)
(* retransmitted, and no hole bit outlives the copy it stands for.  Both   *)
(* follow from the order in which loss notifications and LACKs reach the   *)
(* sender, also when the two overtake each other inside the receiver       *)
(* switch (CrossPortRace).  If mirrored packets keep their order there,    *)
(* the LACK recorded by the sender never goes back.  In the mode without   *)
(* de-duplication only copies of one retransmission reach the user twice,  *)
(* and in both modes no accepted packet disappears.                        *)
(***************************************************************************)
EXTENDS LinkGuardianProofs

-----------------------------------------------------------------------------
\* Sequences by their places.

\* The places of a queue after its first member is taken.
LEMMA TailPlaces ==
    ASSUME NEW S, NEW q \in Seq(S), q # <<>>
    PROVE  /\ Len(q) \in Nat \ {0} /\ DOMAIN q = 1 .. Len(q)
           /\ q[1] = Head(q) /\ Len(Tail(q)) = Len(q) - 1
           /\ DOMAIN Tail(q) = 1 .. Len(q) - 1
           /\ \A i \in 1 .. Len(q) - 1 : Tail(q)[i] = q[i + 1]
           /\ \A i \in 2 .. Len(q) : Tail(q)[i - 1] = q[i]
OBVIOUS

\* The places of a queue with one more member.
LEMMA AppendPlaces ==
    ASSUME NEW S, NEW q \in Seq(S), NEW e
    PROVE  /\ Len(q) \in Nat /\ DOMAIN q = 1 .. Len(q)
           /\ Len(Append(q, e)) = Len(q) + 1
           /\ DOMAIN Append(q, e) = 1 .. Len(q) + 1
           /\ \A i \in 1 .. Len(q) : Append(q, e)[i] = q[i]
           /\ Append(q, e)[Len(q) + 1] = e
OBVIOUS

\* A queue has its first member and those behind it.
LEMMA ElementsSplit ==
    ASSUME NEW S, NEW q \in Seq(S), q # <<>>
    PROVE  Elements(q) = {Head(q)} \cup Elements(Tail(q))
<1> DEFINE r == Tail(q)
<1>1. /\ Len(q) \in Nat \ {0} /\ DOMAIN q = 1 .. Len(q) /\ q[1] = Head(q)
      /\ DOMAIN r = 1 .. Len(q) - 1
      /\ \A i \in 1 .. Len(q) - 1 : r[i] = q[i + 1]
      /\ \A i \in 2 .. Len(q) : r[i - 1] = q[i]
  BY TailPlaces
<1>2. ASSUME NEW i \in 1 .. Len(q)
      PROVE  i = 1 \/ (i \in 2 .. Len(q) /\ i - 1 \in 1 .. Len(q) - 1)
  BY <1>1
<1>3. \A i \in 1 .. Len(q) - 1 : i + 1 \in 1 .. Len(q)
  BY <1>1
<1>4. 1 \in 1 .. Len(q)
  BY <1>1
<1> HIDE DEF r
<1>5. {q[i] : i \in DOMAIN q} = {Head(q)} \cup {r[i] : i \in DOMAIN r}
  BY <1>1, <1>2, <1>3, <1>4
<1> QED
  BY <1>5 DEF Elements, r

-----------------------------------------------------------------------------
(***************************************************************************)
(* What the receiver has not looked at yet: a packet at or after the       *)
(* expected number is lost or on the wire, and its copy, which no LACK has *)
(* reached, in the tx buffer.                                              *)
(***************************************************************************)
FirstSent(n) == \E p \in Elements(toRx) : p.copy = 0 /\ ~p.dummy /\ p.id = n

UnseenInv ==
    /\ lost \subseteq LossyIds /\ \A n \in lost : n < sent
    /\ \A p \in Elements(toRx) : p.copy = 0 /\ ~p.dummy => p.id \notin lost
    /\ \A n \in expectedId .. sent - 1 : n \in lost \/ FirstSent(n)
    /\ \A n \in expectedId .. sent - 1 : n \in BufferedIds \/ n = 0

\* Nothing was sent, so nothing is unseen.
LEMMA UnseenInit == Init => UnseenInv
BY WiresAssumption
   DEF Init, WiresInit, SenderInit, ReceiverInit, UnseenInv, Elements

\* Steps off the wire, the copies and hole detection.
LEMMA UnseenFrame ==
    ASSUME UnseenInv, UNCHANGED <<sent, lost, expectedId, toRx, txBuffer>>
    PROVE  UnseenInv'
BY DEF UnseenInv, FirstSent, BufferedIds

\* First transmissions on the wire, one by one.
LEMMA FirstsOnWire ==
    ASSUME TypeOK, OrderInv, NEW p \in Elements(toRx), p.copy = 0
    PROVE  expectedId <= p.id /\ After(p) <= sent
BY DEF OrderInv, ArrivalsInv, Fifo, Elements

\* A new packet is lost or on the wire, and its copy buffered.
LEMMA SendNormalUnseen ==
    ASSUME TypeOK, OrderInv, UnseenInv, SendNormal, UNCHANGED receiverVars
    PROVE  UnseenInv'
<1> DEFINE pkt == DataHeader(FALSE)
<1>0. /\ sent \in Nat /\ sent' = sent + 1 /\ expectedId' = expectedId
      /\ expectedId \in Nat /\ lost \subseteq Nat /\ toRx \in Seq(Packet)
  BY OrderTypes DEF SendNormal, receiverVars, TypeOK, SenderTypeOK
<1>1. /\ pkt \in Packet /\ pkt.id = sent /\ pkt.copy = 0 /\ ~pkt.dummy
  BY WiresAssumption DEF DataHeader, TypeOK, SenderTypeOK, Packet
<1>2. BufferedIds' = BufferedIds \cup {sent}
  <2> DEFINE b == BufferedCopy
  <2>1. txBuffer' = txBuffer \cup {b} /\ b.id = sent
    BY DEF SendNormal, BufferedCopy
  <2> HIDE DEF b
  <2> QED
    BY <2>1 DEF BufferedIds
<1>3. \/ /\ Elements(toRx') = Elements(toRx) \cup {pkt} /\ lost' = lost
      \/ /\ Elements(toRx') = Elements(toRx) /\ lost' = lost \cup {sent}
         /\ sent \in LossyIds
  <2>1. CASE Arrives(pkt) /\ UNCHANGED lost
    <3>1. toRx' = Append(toRx, pkt)
      BY <2>1 DEF Arrives
    <3> HIDE DEF pkt
    <3>2. Elements(toRx') = Elements(toRx) \cup {pkt}
      BY <1>0, <1>1, <3>1, ElementsAppend
    <3> QED
      BY <2>1, <3>2
  <2>2. CASE Corrupted(pkt) /\ lost' = lost \cup {sent}
    <3>1. toRx' = toRx /\ (pkt.dummy \/ pkt.id \in LossyIds)
      BY <2>2 DEF Corrupted, Corruptible
    <3> QED
      BY <1>1, <2>2, <3>1
  <2> QED
    BY <2>1, <2>2 DEF SendNormal
<1>4. \A p \in Elements(toRx) : p.copy = 0 /\ ~p.dummy => p.id < sent
  <2> SUFFICES ASSUME NEW p \in Elements(toRx), p.copy = 0, ~p.dummy
               PROVE  p.id < sent
    OBVIOUS
  <2>1. p.id \in Nat /\ After(p) <= sent
    BY FirstsOnWire, OrderTypes
  <2> QED
    BY <1>0, <2>1 DEF After
<1> HIDE DEF pkt
<1>5. /\ lost' \subseteq LossyIds /\ \A n \in lost' : n < sent'
      /\ \A p \in Elements(toRx') : p.copy = 0 /\ ~p.dummy => p.id \notin lost'
  <2>1. \A n \in lost : n \in Nat /\ n < sent
    BY <1>0 DEF UnseenInv
  <2>2. CASE /\ Elements(toRx') = Elements(toRx) \cup {pkt} /\ lost' = lost
    <3>1. sent \notin lost
      BY <1>0, <2>1
    <3> QED
      BY <1>0, <1>1, <2>1, <2>2, <3>1 DEF UnseenInv
  <2>3. CASE /\ Elements(toRx') = Elements(toRx) /\ lost' = lost \cup {sent}
             /\ sent \in LossyIds
    <3>1. \A p \in Elements(toRx) : p.copy = 0 /\ ~p.dummy => p.id # sent
      BY <1>0, <1>4
    <3> QED
      BY <1>0, <2>1, <2>3, <3>1 DEF UnseenInv
  <2> QED
    BY <1>3, <2>2, <2>3
<1>6. ASSUME NEW n \in expectedId' .. sent' - 1
      PROVE  /\ n \in lost' \/ \E p \in Elements(toRx') :
                                    p.copy = 0 /\ ~p.dummy /\ p.id = n
             /\ n \in BufferedIds' \/ n = 0
  <2>1. CASE n = sent
    BY <1>1, <1>2, <1>3, <2>1
  <2>2. CASE n \in expectedId .. sent - 1
    BY <1>2, <1>3, <2>2 DEF UnseenInv, FirstSent
  <2> QED
    BY <1>0, <2>1, <2>2
<1> QED
  BY <1>5, <1>6 DEF UnseenInv, FirstSent

\* A dummy packet is not a first transmission of data.
LEMMA SendDummyUnseen ==
    ASSUME TypeOK, OrderInv, UnseenInv, SendDummy, UNCHANGED receiverVars
    PROVE  UnseenInv'
<1> DEFINE pkt == DataHeader(TRUE)
<1>0. UNCHANGED <<sent, lost, expectedId, txBuffer>> /\ toRx \in Seq(Packet)
  BY OrderTypes DEF SendDummy, receiverVars
<1>1. pkt \in Packet /\ pkt.dummy
  BY WiresAssumption DEF DataHeader, TypeOK, SenderTypeOK, Packet
<1>2. \/ Elements(toRx') = Elements(toRx)
      \/ Elements(toRx') = Elements(toRx) \cup {pkt}
  <2>1. CASE Arrives(pkt)
    <3>1. toRx' = Append(toRx, pkt)
      BY <2>1 DEF Arrives
    <3> HIDE DEF pkt
    <3> QED
      BY <1>0, <1>1, <3>1, ElementsAppend
  <2>2. CASE Corrupted(pkt)
    BY <2>2 DEF Corrupted
  <2> QED
    BY <2>1, <2>2 DEF SendDummy
<1> HIDE DEF pkt
<1> QED
  BY <1>0, <1>1, <1>2 DEF UnseenInv, FirstSent, BufferedIds

\* What the LACKs have reached is before the expected number.
LEMMA SeenBefore ==
    ASSUME TypeOK, OrderInv, NEW n \in Nat \ {0}, expectedId <= n
    PROVE  /\ leadingAck.id < n
           /\ \A m \in Elements(toTx) \cup Elements(lossNotifications) :
                m.lack.id < n
<1>1. \A l : l.id \in Int /\ Seen(l) => l.id < n
  BY OrderTypes DEF Seen
<1> QED
  BY <1>1, OrderTypes DEF OrderInv, PastInv

\* Only copies are put on the wire by a retransmission.
LEMMA RetransmittedOnWire ==
    ASSUME TypeOK, NEW c \in txBuffer, ProcessBuffered(c)
    PROVE  /\ Elements(toRx) \subseteq Elements(toRx')
           /\ \A p \in Elements(toRx') : p \in Elements(toRx) \/ p.copy > 0
<1> DEFINE pkt == Retransmission(c)
<1>1. pkt \in Packet
  BY WiresAssumption DEF Retransmission, TypeOK, SenderTypeOK, Copy, Packet
<1>2. toRx' = toRx \/ \E n \in 0 .. RetxCopies : CopiesLeave(pkt, n)
  BY DEF ProcessBuffered
<1> HIDE DEF pkt
<1>3. ASSUME NEW n \in 0 .. RetxCopies, CopiesLeave(pkt, n)
      PROVE  /\ Elements(toRx) \subseteq Elements(toRx')
             /\ \A p \in Elements(toRx') : p \in Elements(toRx) \/ p.copy > 0
  <2>1. /\ toRx' = toRx \o [i \in 1 .. n |-> [pkt EXCEPT !.copy = i]]
        /\ toRx \in Seq(Packet) /\ DOMAIN toRx = 1 .. Len(toRx)
        /\ Len(toRx) \in Nat /\ n \in Nat
    BY <1>3, OrderTypes, WiresAssumption DEF CopiesLeave
  <2>2. /\ DOMAIN toRx' = 1 .. Len(toRx) + n
        /\ \A i \in 1 .. Len(toRx) : toRx'[i] = toRx[i]
        /\ \A i \in DOMAIN toRx' \ DOMAIN toRx : toRx'[i].copy > 0
    BY <1>1, <2>1, CopiesOnWire
  <2>3. DOMAIN toRx \subseteq DOMAIN toRx'
    BY <2>1, <2>2
  <2> QED
    BY <2>1, <2>2, <2>3 DEF Elements
<1> QED
  BY <1>2, <1>3

\* The sender drops copies only of packets that were expected.
LEMMA ProcessBufferedUnseen ==
    ASSUME TypeOK, HeadersFaithful, OrderInv, UnseenInv, NEW c \in txBuffer,
           ProcessBuffered(c), UNCHANGED receiverVars
    PROVE  UnseenInv'
<1>0. /\ UNCHANGED <<sent, lost, expectedId>> /\ txBuffer' = txBuffer \ {c}
      /\ expectedId \in Nat /\ sent \in Nat /\ c.id \in Nat
  BY OrderTypes DEF ProcessBuffered, receiverVars
<1>1. /\ Elements(toRx) \subseteq Elements(toRx')
      /\ \A p \in Elements(toRx') : p \in Elements(toRx) \/ p.copy > 0
  BY RetransmittedOnWire
<1>2. c.id <= leadingAck.id
  BY AcknowledgedIsPast DEF ProcessBuffered
<1>3. ASSUME NEW n \in expectedId .. sent - 1, n # 0
      PROVE  n \in BufferedIds'
  <2>1. leadingAck.id < n
    <3>1. n \in Nat \ {0} /\ expectedId <= n
      BY <1>0, <1>3
    <3> QED
      BY <3>1, SeenBefore
  <2>2. n # c.id
    BY <1>0, <1>2, <2>1, OrderTypes
  <2> QED
    BY <1>0, <1>3, <2>2 DEF UnseenInv, BufferedIds
<1>4. \A n \in expectedId .. sent - 1 : n \in lost \/ FirstSent(n)'
  BY <1>1 DEF UnseenInv, FirstSent
<1>5. \A p \in Elements(toRx') : p.copy = 0 /\ ~p.dummy => p.id \notin lost
  BY <1>1 DEF UnseenInv
<1> QED
  BY <1>0, <1>3, <1>4, <1>5 DEF UnseenInv

\* Hole detection moves past a packet that arrives, or is lost.
LEMMA ReceivePacketUnseen ==
    ASSUME TypeOK, HeadersFaithful, OrderInv, UnseenInv, ReceivePacket,
           UNCHANGED senderVars
    PROVE  UnseenInv'
<1> DEFINE pkt == Head(toRx)
<1>0. /\ UNCHANGED <<sent, lost, txBuffer>> /\ toRx # <<>>
      /\ toRx' = Tail(toRx) /\ toRx \in Seq(Packet)
      /\ sent \in Nat /\ expectedId \in Nat
  BY OrderTypes DEF ReceivePacket, senderVars
<1>1. Elements(toRx) = {pkt} \cup Elements(toRx')
  BY <1>0, ElementsSplit
<1>2. /\ expectedId' \in Nat /\ expectedId <= expectedId'
      /\ pkt.copy = 0 /\ ~pkt.dummy => pkt.id < expectedId'
  <2>1. CASE pkt.copy = 0
    <3>1. DetectHole(pkt)
      BY <2>1 DEF ReceivePacket
    <3>2. /\ expectedId' = After(pkt) /\ expectedId <= expectedId'
          /\ expectedId' \in Nat
      BY <1>0, <2>1, <3>1, DetectHoleOrder
    <3>3. pkt.id \in Nat
      BY <1>1, OrderTypes
    <3> QED
      BY <3>2, <3>3 DEF After
  <2>2. CASE pkt.copy > 0
    <3>1. expectedId' = expectedId
      BY <2>2 DEF ReceivePacket, ingressVars
    <3>2. pkt.copy # 0
      BY <2>2
    <3> QED
      BY <1>0, <3>1, <3>2
  <2> QED
    BY <2>1, <2>2 DEF ReceivePacket
<1> HIDE DEF pkt
<1>3. ASSUME NEW n \in expectedId' .. sent - 1
      PROVE  /\ n \in lost \/ \E p \in Elements(toRx') :
                                    p.copy = 0 /\ ~p.dummy /\ p.id = n
             /\ n \in BufferedIds \/ n = 0
  <2>1. \/ n \in expectedId .. sent - 1 /\ n # pkt.id
        \/ pkt.copy # 0 \/ pkt.dummy
    BY <1>0, <1>2
  <2>2. n \in expectedId .. sent - 1
    BY <1>0, <1>2
  <2> QED
    BY <1>1, <2>1, <2>2 DEF UnseenInv, FirstSent
<1>4. \A p \in Elements(toRx') : p.copy = 0 /\ ~p.dummy => p.id \notin lost
  BY <1>1 DEF UnseenInv
<1>5. BufferedIds' = BufferedIds
  BY <1>0 DEF BufferedIds
<1> QED
  BY <1>0, <1>3, <1>4, <1>5 DEF UnseenInv, FirstSent

\* Every step keeps what is known of packets not yet expected.
LEMMA UnseenStep ==
    ASSUME TypeOK, HeadersFaithful, OrderInv, UnseenInv, [Next]_vars
    PROVE  UnseenInv'
<1>1. CASE SendNormal /\ UNCHANGED receiverVars
  BY <1>1, SendNormalUnseen
<1>2. CASE SendDummy /\ UNCHANGED receiverVars
  BY <1>2, SendDummyUnseen
<1>3. CASE RecordLeadingAck /\ UNCHANGED receiverVars
  BY <1>3, UnseenFrame DEF RecordLeadingAck, receiverVars
<1>4. CASE (\E c \in txBuffer : ProcessBuffered(c)) /\ UNCHANGED receiverVars
  BY <1>4, ProcessBufferedUnseen
<1>5. CASE ReceivePacket /\ UNCHANGED senderVars
  BY <1>5, ReceivePacketUnseen
<1>6. CASE /\ \/ \E pkt \in rxBuffer : ReprocessBuffered(pkt)
              \/ TimerPacket \/ EgressLackUpdate \/ EgressLossNotification
              \/ EgressLack
           /\ UNCHANGED senderVars
  BY <1>6, UnseenFrame
     DEF ReprocessBuffered, TimerPacket, EgressLackUpdate,
         EgressLossNotification, EgressLack, ingressVars, wireVars, senderVars
<1>7. CASE UNCHANGED vars
  BY <1>7, UnseenFrame DEF vars, wireVars, senderVars, receiverVars
<1> QED
  BY <1>1, <1>2, <1>3, <1>4, <1>5, <1>6, <1>7
     DEF Next, SenderNext, ReceiverNext

-----------------------------------------------------------------------------
(***************************************************************************)
(* Loss notifications on their way.  A notification that arrives sets the  *)
(* bits of lost packets whose copies still circulate: no LACK that the     *)
(* sender has recorded, or will record before it, reaches them.            *)
(***************************************************************************)

\* The notification sets the bit of the k-th register.
Reports(m, k) == k = 1 \/ m.hole >= k

\* No LACK before the i-th message of the wire reaches n.
Ahead(n, i) ==
    leadingAck.id < n /\ \A j \in 1 .. i - 1 : toTx[j].lack.id < n

\* No LACK before the i-th notification the receiver still holds does.
AheadOfAll(n, i) ==
    /\ leadingAck.id < n
    /\ \A m \in Elements(toTx) : m.lack.id < n
    /\ \A j \in 1 .. i - 1 : lossNotifications[j].lack.id < n

LostCopy(c, s) == c.seq = s /\ c.id \in lost

HeldReportsInv ==
    \A i \in DOMAIN lossNotifications : \A k \in 1 .. NumHoles :
        Reports(lossNotifications[i], k) =>
            \E c \in txBuffer :
                /\ LostCopy(c, Plus(lossNotifications[i].first, k - 1))
                /\ AheadOfAll(c.id, i)

SentReportsInv ==
    \A i \in DOMAIN toTx : \A k \in 1 .. NumHoles :
        toTx[i].loss /\ Reports(toTx[i], k) =>
            \E c \in txBuffer : /\ LostCopy(c, Plus(toTx[i].first, k - 1))
                                /\ Ahead(c.id, i)

ReportsInv == HeldReportsInv /\ SentReportsInv /\ NoStaleHole

\* Nothing is reported.
LEMMA ReportsInit == Init => ReportsInv
BY DEF Init, WiresInit, SenderInit, ReceiverInit, ReportsInv, HeldReportsInv,
       SentReportsInv, NoStaleHole

\* The notification hole detection makes, if it makes one.
LEMMA NewReport ==
    ASSUME TypeOK, HeadersFaithful, OrderInv, UnseenInv, toRx # <<>>,
           Head(toRx).copy = 0, DetectHole(Head(toRx))
    PROVE  LET pkt == Head(toRx)
               m == LossNotification(pkt)
           IN  /\ pkt.id \in Nat /\ expectedId \in Nat /\ expectedId' = After(pkt)
               /\ pkt.copy = 0 /\ ~pkt.dummy => pkt.id \notin lost
               /\ \A n \in expectedId .. pkt.id - 1 : n \in lost /\ n < sent
               /\ \/ pkt.id = expectedId /\ UNCHANGED lossNotifications
                  \/ /\ expectedId < pkt.id
                     /\ lossNotifications' = Append(lossNotifications, m)
                     /\ m.first = SeqOf(expectedId)
                     /\ m.hole = (pkt.id - expectedId) % HoleSizeRange
<1> DEFINE pkt == Head(toRx)
           m == LossNotification(pkt)
<1>1. /\ pkt \in Packet /\ pkt \in Elements(toRx) /\ pkt.id \in Nat
      /\ expectedId <= pkt.id /\ After(pkt) <= sent
      /\ PktsLost(pkt) = pkt.id - expectedId
  BY HoleSize
<1>2. expectedId \in Nat /\ sent \in Nat /\ toRx \in Seq(Packet)
  BY OrderTypes
<1>3. m.first = SeqOf(expectedId) /\ m.hole = PktsLost(pkt) % HoleSizeRange
  BY DEF LossNotification, HeadersFaithful
<1>4. expectedId' = After(pkt)
  BY DEF DetectHole, UpdateExpected, After
<1>5. \/ PktsLost(pkt) = 0 /\ UNCHANGED lossNotifications
      \/ /\ PktsLost(pkt) # 0
         /\ lossNotifications' = Append(lossNotifications, m)
  BY DEF DetectHole, queueVars
<1>6. ASSUME NEW n \in expectedId .. pkt.id - 1
      PROVE  n \in lost /\ n < sent
  <2>1. pkt.id <= sent
    BY <1>1, <1>2 DEF After
  <2>2. n \in expectedId .. sent - 1 /\ n < sent
    BY <1>1, <1>2, <2>1
  <2>3. ASSUME NEW p \in Elements(toRx), p.copy = 0, p.id = n
        PROVE  FALSE
    <3>1. p # pkt
      BY <1>1, <1>2, <2>3
    <3>2. p \in Elements(Tail(toRx))
      BY <1>2, <2>3, <3>1, ElementsSplit
    <3>3. Fifo(Tail(toRx), After(pkt), sent)
      BY <1>2, FifoTail DEF OrderInv, ArrivalsInv
    <3>4. After(pkt) <= p.id
      BY <2>3, <3>2, <3>3 DEF Fifo, Elements
    <3> QED
      BY <1>1, <1>2, <2>3, <3>4 DEF After
  <2> QED
    BY <2>2, <2>3 DEF UnseenInv, FirstSent
<1>7. pkt.copy = 0 /\ ~pkt.dummy => pkt.id \notin lost
  BY <1>1 DEF UnseenInv
<1> QED
  BY <1>1, <1>2, <1>3, <1>4, <1>5, <1>6, <1>7

\* The k-th packet of the hole.
LEMMA HolePlace ==
    ASSUME NEW e \in Nat, NEW k \in 1 .. NumHoles
    PROVE  e + k - 1 \in Nat /\ Plus(SeqOf(e), k - 1) = SeqOf(e + k - 1)
<1>1. /\ k - 1 \in 0 .. MaxSeqNo /\ e \in Int /\ e + (k - 1) = e + k - 1
      /\ e + k - 1 \in Nat
  BY SenderAssumption, HalfRangeAssumption DEF MaxSeqNo, MaxSeqNumbers
<1> QED
  BY <1>1, PlusCounts

\* A report is made for packets that did not arrive.
LEMMA ReceivePacketReports ==
    ASSUME TypeOK, HeadersFaithful, OrderInv, UnseenInv, ReportsInv,
           0 \notin LossyIds, ReceivePacket, UNCHANGED senderVars
    PROVE  ReportsInv'
<1> DEFINE pkt == Head(toRx)
           m == LossNotification(pkt)
<1>0. /\ UNCHANGED <<toTx, leadingAck, holes, lost, txBuffer>>
      /\ toRx # <<>> /\ lossNotifications \in Seq(Notification)
  BY OrderTypes DEF ReceivePacket, senderVars
<1>1. SentReportsInv' /\ NoStaleHole'
  BY <1>0 DEF ReportsInv, SentReportsInv, NoStaleHole, Ahead, LostCopy, Reports
<1>2. CASE UNCHANGED lossNotifications
  <2>1. HeldReportsInv'
    BY <1>0, <1>2
       DEF ReportsInv, HeldReportsInv, AheadOfAll, LostCopy, Reports
  <2> QED
    BY <1>1, <2>1 DEF ReportsInv
<1>3. CASE pkt.copy = 0 /\ ~UNCHANGED lossNotifications
  <2>1. DetectHole(pkt)
    BY <1>3 DEF ReceivePacket
  <2>2. /\ pkt.id \in Nat /\ expectedId \in Nat /\ expectedId < pkt.id
        /\ \A n \in expectedId .. pkt.id - 1 : n \in lost /\ n < sent
        /\ lossNotifications' = Append(lossNotifications, m)
        /\ m.first = SeqOf(expectedId)
        /\ m.hole = (pkt.id - expectedId) % HoleSizeRange
    BY <1>0, <1>3, <2>1, NewReport
  <2> HIDE DEF pkt, m
  <2> DEFINE q == lossNotifications
             r == Append(lossNotifications, m)
  <2>3. /\ Len(q) \in Nat /\ DOMAIN q = 1 .. Len(q)
        /\ DOMAIN r = 1 .. Len(q) + 1 /\ r[Len(q) + 1] = m
        /\ \A i \in 1 .. Len(q) : r[i] = q[i]
    BY <1>0, AppendPlaces
  <2> HIDE DEF r
  <2>4. ASSUME NEW i \in 1 .. Len(q), NEW k \in 1 .. NumHoles,
               Reports(r[i], k)
        PROVE  \E c \in txBuffer :
                  /\ LostCopy(c, Plus(r[i].first, k - 1))
                  /\ leadingAck.id < c.id
                  /\ \A x \in Elements(toTx) : x.lack.id < c.id
                  /\ \A j \in 1 .. i - 1 : r[j].lack.id < c.id
    <3>1. r[i] = q[i] /\ \A j \in 1 .. i - 1 : r[j] = q[j]
      BY <2>3
    <3>2. PICK c \in txBuffer : LostCopy(c, Plus(q[i].first, k - 1))
                                /\ AheadOfAll(c.id, i)
      BY <2>3, <2>4, <3>1 DEF ReportsInv, HeldReportsInv
    <3> QED
      BY <3>1, <3>2 DEF AheadOfAll
  <2>5. ASSUME NEW k \in 1 .. NumHoles, Reports(m, k)
        PROVE  \E c \in txBuffer :
                  /\ LostCopy(c, Plus(m.first, k - 1))
                  /\ leadingAck.id < c.id
                  /\ \A x \in Elements(toTx) : x.lack.id < c.id
                  /\ \A j \in 1 .. Len(q) : r[j].lack.id < c.id
    <3> DEFINE n == expectedId + k - 1
    <3>1. n \in Nat /\ Plus(m.first, k - 1) = SeqOf(n)
      BY <2>2, HolePlace
    <3>2. k <= pkt.id - expectedId
      <4>1. /\ HoleSizeRange \in Nat \ {0} /\ pkt.id - expectedId \in Nat \ {0}
            /\ k \in Nat
        BY <2>2, ReceiverAssumption, SenderAssumption
      <4>2. (pkt.id - expectedId) % HoleSizeRange <= pkt.id - expectedId
        BY <4>1
      <4> QED
        BY <2>2, <2>5, <4>1, <4>2 DEF Reports
    <3>3. n \in expectedId .. pkt.id - 1
      BY <2>2, <3>1, <3>2, SenderAssumption
    <3>4. n \in lost /\ n < sent /\ n # 0 /\ n \in expectedId .. sent - 1
      BY <2>2, <3>1, <3>3, OrderTypes DEF UnseenInv
    <3>5. PICK c \in txBuffer : c.id = n
      BY <3>4 DEF UnseenInv, BufferedIds
    <3>6. LostCopy(c, Plus(m.first, k - 1))
      BY <3>1, <3>4, <3>5 DEF HeadersFaithful, Numbered, LostCopy
    <3> HIDE DEF n
    <3>7. n \in Nat \ {0} /\ expectedId <= n
      BY <2>2, <3>1, <3>3, <3>4
    <3>8. /\ leadingAck.id < n
          /\ \A x \in Elements(toTx) \cup Elements(q) : x.lack.id < n
      BY <3>7, SeenBefore
    <3>9. \A j \in 1 .. Len(q) : r[j].lack.id < n
      BY <2>3, <3>8 DEF Elements
    <3> QED
      BY <3>5, <3>6, <3>8, <3>9
  <2>6. HeldReportsInv'
    <3> SUFFICES ASSUME NEW i \in DOMAIN r, NEW k \in 1 .. NumHoles,
                        Reports(r[i], k)
                 PROVE  \E c \in txBuffer :
                            /\ LostCopy(c, Plus(r[i].first, k - 1))
                            /\ leadingAck.id < c.id
                            /\ \A x \in Elements(toTx) : x.lack.id < c.id
                            /\ \A j \in 1 .. i - 1 : r[j].lack.id < c.id
      BY <1>0, <2>2
         DEF HeldReportsInv, AheadOfAll, LostCopy, Reports, Elements, r
    <3>1. CASE i \in 1 .. Len(q)
      BY <2>4, <3>1
    <3>2. CASE i = Len(q) + 1
      <4>1. r[i] = m /\ i - 1 = Len(q)
        BY <2>3, <3>2
      <4> QED
        BY <2>5, <4>1
    <3> QED
      BY <2>3, <3>1, <3>2
  <2> QED
    BY <1>1, <2>6 DEF ReportsInv
<1> QED
  BY <1>2, <1>3 DEF ReceivePacket, queueVars

\* A packet leaves: there are more copies and losses than before.
LEMMA ReportsFrame ==
    ASSUME ReportsInv,
           UNCHANGED <<toTx, leadingAck, holes, lossNotifications>>,
           txBuffer \subseteq txBuffer', lost \subseteq lost'
    PROVE  ReportsInv'
<1>1. \A c \in txBuffer : \A s : LostCopy(c, s) => c.seq = s /\ c.id \in lost'
  BY DEF LostCopy
<1>2. HeldReportsInv'
  BY <1>1 DEF ReportsInv, HeldReportsInv, AheadOfAll, LostCopy, Reports
<1>3. SentReportsInv'
  BY <1>1 DEF ReportsInv, SentReportsInv, Ahead, LostCopy, Reports
<1>4. NoStaleHole'
  BY DEF ReportsInv, NoStaleHole
<1> QED
  BY <1>2, <1>3, <1>4 DEF ReportsInv

\* The LACK and the hole bits of a report are recorded together.
LEMMA RecordLackReports ==
    ASSUME TypeOK, ReportsInv, RecordLeadingAck, UNCHANGED receiverVars
    PROVE  ReportsInv'
<1> DEFINE m == Head(toTx)
           r == Tail(toTx)
<1>0. /\ UNCHANGED <<lossNotifications, lost, txBuffer>> /\ toTx # <<>>
      /\ toTx' = r /\ leadingAck' = m.lack /\ holes' = SetHoles(m)
      /\ toTx \in Seq(AckMessage)
  BY OrderTypes DEF RecordLeadingAck, receiverVars
<1>1. /\ Len(toTx) \in Nat \ {0} /\ DOMAIN toTx = 1 .. Len(toTx)
      /\ toTx[1] = m /\ DOMAIN r = 1 .. Len(toTx) - 1
      /\ \A i \in 1 .. Len(toTx) - 1 : r[i] = toTx[i + 1]
  BY <1>0, TailPlaces
<1>2. Elements(toTx) = {m} \cup Elements(r)
  BY <1>0, ElementsSplit
<1> HIDE DEF m, r
<1>3. HeldReportsInv'
  <2> SUFFICES ASSUME NEW i \in DOMAIN lossNotifications,
                      NEW k \in 1 .. NumHoles, Reports(lossNotifications[i], k)
               PROVE  \E c \in txBuffer :
                        /\ LostCopy(c, Plus(lossNotifications[i].first, k - 1))
                        /\ m.lack.id < c.id
                        /\ \A x \in Elements(r) : x.lack.id < c.id
                        /\ \A j \in 1 .. i - 1 :
                                lossNotifications[j].lack.id < c.id
    BY <1>0 DEF HeldReportsInv, AheadOfAll, LostCopy, Reports
  <2> QED
    BY <1>2 DEF ReportsInv, HeldReportsInv, AheadOfAll
<1>4. SentReportsInv'
  <2> SUFFICES ASSUME NEW i \in DOMAIN r, NEW k \in 1 .. NumHoles,
                      r[i].loss, Reports(r[i], k)
               PROVE  \E c \in txBuffer :
                        /\ LostCopy(c, Plus(r[i].first, k - 1))
                        /\ m.lack.id < c.id
                        /\ \A j \in 1 .. i - 1 : r[j].lack.id < c.id
    BY <1>0 DEF SentReportsInv, Ahead, LostCopy, Reports
  <2>1. i + 1 \in DOMAIN toTx /\ r[i] = toTx[i + 1] /\ i \in Nat \ {0}
    BY <1>1
  <2>2. PICK c \in txBuffer : /\ LostCopy(c, Plus(r[i].first, k - 1))
                              /\ Ahead(c.id, i + 1)
    BY <2>1 DEF ReportsInv, SentReportsInv
  <2>3. \A j \in 1 .. i : toTx[j].lack.id < c.id
    BY <2>1, <2>2 DEF Ahead
  <2>4. \A j \in 1 .. i - 1 : j + 1 \in 1 .. i /\ r[j] = toTx[j + 1]
    BY <1>1, <2>1
  <2>5. 1 \in 1 .. i
    BY <2>1
  <2> QED
    BY <1>1, <2>2, <2>3, <2>4, <2>5
<1>5. NoStaleHole'
  <2> SUFFICES ASSUME NEW k \in 1 .. NumHoles, NEW s \in holes'[k]
               PROVE  \E c \in txBuffer : c.seq = s /\ c.id \in lost
    BY <1>0 DEF NoStaleHole
  <2>1. CASE s \in holes[k]
    BY <2>1 DEF ReportsInv, NoStaleHole
  <2>2. CASE m.loss /\ (k = 1 \/ m.hole >= k) /\ s = Plus(m.first, k - 1)
    <3>1. \E c \in txBuffer : LostCopy(c, s)
      BY <1>1, <2>2 DEF ReportsInv, SentReportsInv, Reports
    <3> QED
      BY <3>1 DEF LostCopy
  <2> QED
    BY <1>0, <2>1, <2>2 DEF SetHoles
<1> QED
  BY <1>3, <1>4, <1>5 DEF ReportsInv

\* A copy whose loss is reported leaves only when it is sent again.
LEMMA ProcessBufferedReports ==
    ASSUME TypeOK, HeadersFaithful, OrderInv, ReportsInv, NEW c \in txBuffer,
           ProcessBuffered(c), UNCHANGED receiverVars
    PROVE  ReportsInv'
<1>0. /\ UNCHANGED <<lossNotifications, lost, toTx, leadingAck>>
      /\ txBuffer' = txBuffer \ {c} /\ holes' = ResetHoles(c.seq)
      /\ c.id \in Nat /\ leadingAck.id \in Int
  BY OrderTypes DEF ProcessBuffered, receiverVars
<1>1. c.id <= leadingAck.id
  BY AcknowledgedIsPast DEF ProcessBuffered
<1>2. \A d \in txBuffer : leadingAck.id < d.id => d \in txBuffer'
  BY <1>0, <1>1, OrderTypes
<1>3. HeldReportsInv'
  <2>1. \A i \in DOMAIN lossNotifications : \A k \in 1 .. NumHoles :
            Reports(lossNotifications[i], k) =>
                \E d \in txBuffer' :
                    /\ LostCopy(d, Plus(lossNotifications[i].first, k - 1))
                    /\ AheadOfAll(d.id, i)
    BY <1>2 DEF ReportsInv, HeldReportsInv, AheadOfAll
  <2> QED
    BY <1>0, <2>1 DEF HeldReportsInv, AheadOfAll, LostCopy, Reports
<1>4. SentReportsInv'
  <2>1. \A i \in DOMAIN toTx : \A k \in 1 .. NumHoles :
            toTx[i].loss /\ Reports(toTx[i], k) =>
                \E d \in txBuffer' : /\ LostCopy(d, Plus(toTx[i].first, k - 1))
                                     /\ Ahead(d.id, i)
    BY <1>2 DEF ReportsInv, SentReportsInv, Ahead
  <2> QED
    BY <1>0, <2>1 DEF SentReportsInv, Ahead, LostCopy, Reports
<1>5. NoStaleHole'
  BY <1>0 DEF ReportsInv, NoStaleHole, ResetHoles
<1> QED
  BY <1>3, <1>4, <1>5 DEF ReportsInv

\* A report goes from the mirror queue to the wire.
LEMMA EgressLossNotificationReports ==
    ASSUME TypeOK, ReportsInv, EgressLossNotification, UNCHANGED senderVars
    PROVE  ReportsInv'
<1> DEFINE q == lossNotifications
           n == Head(q)
           m == LossMessage(n)
           r == Tail(q)
           w == Append(toTx, m)
<1>0. /\ UNCHANGED <<leadingAck, holes, lost, txBuffer>> /\ q # <<>>
      /\ toTx' = w /\ lossNotifications' = r
      /\ toTx \in Seq(AckMessage) /\ q \in Seq(Notification)
  BY OrderTypes DEF EgressLossNotification, senderVars
<1>1. /\ Len(q) \in Nat \ {0} /\ DOMAIN q = 1 .. Len(q)
      /\ q[1] = n /\ DOMAIN r = 1 .. Len(q) - 1
      /\ \A i \in 1 .. Len(q) - 1 : r[i] = q[i + 1]
  BY <1>0, TailPlaces
<1>2. /\ Len(toTx) \in Nat /\ DOMAIN toTx = 1 .. Len(toTx)
      /\ DOMAIN w = 1 .. Len(toTx) + 1
      /\ \A i \in 1 .. Len(toTx) : w[i] = toTx[i]
      /\ w[Len(toTx) + 1] = m
  BY <1>0, AppendPlaces
<1>3. m.lack = n.lack /\ m.first = n.first /\ m.hole = n.hole /\ m.loss
  BY DEF LossMessage
<1>4. Elements(w) = Elements(toTx) \cup {m}
  <2>1. n \in Notification
    BY <1>0, HeadTailType
  <2>2. m \in AckMessage
    BY <2>1 DEF LossMessage, Notification, AckMessage
  <2> HIDE DEF m
  <2> QED
    BY <1>0, <2>2, ElementsAppend
<1> HIDE DEF n, m, r, w
<1>5. HeldReportsInv'
  <2> SUFFICES ASSUME NEW i \in DOMAIN r, NEW k \in 1 .. NumHoles,
                      Reports(r[i], k)
               PROVE  \E c \in txBuffer :
                        /\ LostCopy(c, Plus(r[i].first, k - 1))
                        /\ leadingAck.id < c.id
                        /\ \A x \in Elements(w) : x.lack.id < c.id
                        /\ \A j \in 1 .. i - 1 : r[j].lack.id < c.id
    BY <1>0 DEF HeldReportsInv, AheadOfAll, LostCopy, Reports
  <2>1. i + 1 \in DOMAIN q /\ r[i] = q[i + 1] /\ i \in Nat \ {0}
    BY <1>1
  <2>2. PICK c \in txBuffer : /\ LostCopy(c, Plus(r[i].first, k - 1))
                              /\ AheadOfAll(c.id, i + 1)
    BY <2>1 DEF ReportsInv, HeldReportsInv
  <2>3. \A j \in 1 .. i : q[j].lack.id < c.id
    BY <2>1, <2>2 DEF AheadOfAll
  <2>4. \A j \in 1 .. i - 1 : j + 1 \in 1 .. i /\ r[j] = q[j + 1]
    BY <1>1, <2>1
  <2>5. m.lack.id < c.id
    BY <1>1, <1>3, <2>1, <2>3
  <2> QED
    BY <1>4, <2>2, <2>3, <2>4, <2>5 DEF AheadOfAll
<1>6. SentReportsInv'
  <2> SUFFICES ASSUME NEW i \in DOMAIN w, NEW k \in 1 .. NumHoles,
                      w[i].loss, Reports(w[i], k)
               PROVE  \E c \in txBuffer :
                        /\ LostCopy(c, Plus(w[i].first, k - 1))
                        /\ leadingAck.id < c.id
                        /\ \A j \in 1 .. i - 1 : w[j].lack.id < c.id
    BY <1>0 DEF SentReportsInv, Ahead, LostCopy, Reports
  <2>1. CASE i \in 1 .. Len(toTx)
    <3>1. w[i] = toTx[i] /\ \A j \in 1 .. i - 1 : w[j] = toTx[j]
      BY <1>2, <2>1
    <3>2. \E c \in txBuffer : /\ LostCopy(c, Plus(toTx[i].first, k - 1))
                              /\ Ahead(c.id, i)
      BY <1>2, <2>1, <3>1 DEF ReportsInv, SentReportsInv
    <3> QED
      BY <3>1, <3>2 DEF Ahead
  <2>2. CASE i = Len(toTx) + 1
    <3>1. w[i] = m /\ i - 1 = Len(toTx)
      BY <1>2, <2>2
    <3>2. Reports(q[1], k) /\ 1 \in DOMAIN q
      BY <1>1, <1>3, <3>1 DEF Reports
    <3>3. PICK c \in txBuffer : /\ LostCopy(c, Plus(q[1].first, k - 1))
                                /\ AheadOfAll(c.id, 1)
      BY <3>2 DEF ReportsInv, HeldReportsInv
    <3>4. \A j \in 1 .. Len(toTx) : w[j].lack.id < c.id
      BY <1>2, <3>3 DEF AheadOfAll, Elements
    <3> QED
      BY <1>1, <1>3, <3>1, <3>3, <3>4 DEF AheadOfAll
  <2> QED
    BY <1>2, <2>1, <2>2
<1>7. NoStaleHole'
  BY <1>0 DEF ReportsInv, NoStaleHole
<1> QED
  BY <1>5, <1>6, <1>7 DEF ReportsInv

\* A LACK without a report goes to the wire.
LEMMA EgressLackReports ==
    ASSUME TypeOK, ReportsInv, EgressLack, UNCHANGED senderVars
    PROVE  ReportsInv'
<1> DEFINE m == LackMessage(rxLack)
           w == Append(toTx, m)
<1>0. /\ UNCHANGED <<leadingAck, holes, lost, txBuffer>>
      /\ toTx' = w /\ toTx \in Seq(AckMessage)
      /\ lossNotifications' = lossNotifications /\ lossNotifications = <<>>
  BY OrderTypes DEF EgressLack, senderVars, queueVars
<1>1. /\ Len(toTx) \in Nat /\ DOMAIN toTx = 1 .. Len(toTx)
      /\ DOMAIN w = 1 .. Len(toTx) + 1
      /\ \A i \in 1 .. Len(toTx) : w[i] = toTx[i]
      /\ w[Len(toTx) + 1] = m
  BY <1>0, AppendPlaces
<1>2. ~m.loss
  BY DEF LackMessage
<1> HIDE DEF m, w
<1>3. HeldReportsInv'
  BY <1>0 DEF HeldReportsInv
<1>4. SentReportsInv'
  <2> SUFFICES ASSUME NEW i \in DOMAIN w, NEW k \in 1 .. NumHoles,
                      w[i].loss, Reports(w[i], k)
               PROVE  \E c \in txBuffer :
                        /\ LostCopy(c, Plus(w[i].first, k - 1))
                        /\ leadingAck.id < c.id
                        /\ \A j \in 1 .. i - 1 : w[j].lack.id < c.id
    BY <1>0 DEF SentReportsInv, Ahead, LostCopy, Reports
  <2>1. i \in 1 .. Len(toTx)
    BY <1>1, <1>2
  <2>2. w[i] = toTx[i] /\ \A j \in 1 .. i - 1 : w[j] = toTx[j]
    BY <1>1, <2>1
  <2>3. \E c \in txBuffer : /\ LostCopy(c, Plus(toTx[i].first, k - 1))
                            /\ Ahead(c.id, i)
    BY <1>1, <2>1, <2>2 DEF ReportsInv, SentReportsInv
  <2> QED
    BY <2>2, <2>3 DEF Ahead
<1>5. NoStaleHole'
  BY <1>0 DEF ReportsInv, NoStaleHole
<1> QED
  BY <1>3, <1>4, <1>5 DEF ReportsInv

\* Every step keeps each report that of a lost, buffered packet.
LEMMA ReportsStep ==
    ASSUME TypeOK, HeadersFaithful, OrderInv, UnseenInv, ReportsInv,
           0 \notin LossyIds, [Next]_vars
    PROVE  ReportsInv'
<1>1. CASE (SendNormal \/ SendDummy) /\ UNCHANGED receiverVars
  BY <1>1, ReportsFrame DEF SendNormal, SendDummy, receiverVars
<1>2. CASE RecordLeadingAck /\ UNCHANGED receiverVars
  BY <1>2, RecordLackReports
<1>3. CASE (\E c \in txBuffer : ProcessBuffered(c)) /\ UNCHANGED receiverVars
  BY <1>3, ProcessBufferedReports
<1>4. CASE ReceivePacket /\ UNCHANGED senderVars
  BY <1>4, ReceivePacketReports
<1>5. CASE EgressLossNotification /\ UNCHANGED senderVars
  BY <1>5, EgressLossNotificationReports
<1>6. CASE EgressLack /\ UNCHANGED senderVars
  BY <1>6, EgressLackReports
<1>7. CASE /\ \/ \E pkt \in rxBuffer : ReprocessBuffered(pkt)
              \/ TimerPacket \/ EgressLackUpdate
           /\ UNCHANGED senderVars
  BY <1>7, ReportsFrame
     DEF ReprocessBuffered, TimerPacket, EgressLackUpdate, queueVars, wireVars,
         senderVars
<1>8. CASE UNCHANGED vars
  BY <1>8, ReportsFrame DEF vars, wireVars, senderVars, receiverVars
<1> QED
  BY <1>1, <1>2, <1>3, <1>4, <1>5, <1>6, <1>7, <1>8
     DEF Next, SenderNext, ReceiverNext

(***************************************************************************)
(* No hole bit is stale: each one stands for a lost packet whose copy is   *)
(* still in the tx buffer, however notifications and LACKs overtake each   *)
(* other in the receiver and at every wrap, if packet 0 is not lost (the   *)
(* zero in the LACK registers acknowledges it before it was received).     *)
(***************************************************************************)
THEOREM HolesAreFresh ==
    ASSUME 0 \notin LossyIds
    PROVE  Spec => []NoStaleHole
<1>1. TypeOK /\ HeadersFaithful /\ OrderInv /\ UnseenInv /\ [Next]_vars
        => UnseenInv'
  BY UnseenStep
<1>2. TypeOK /\ HeadersFaithful /\ OrderInv /\ UnseenInv /\ ReportsInv /\ [Next]_vars
        => ReportsInv'
  BY ReportsStep
<1>3. ReportsInv => NoStaleHole
  BY DEF ReportsInv
<1> QED
  BY UnseenInit, ReportsInit, TypeCorrect, HeadersAreFaithful, LinkIsOrdered,
     <1>1, <1>2, <1>3, PTL DEF Spec

-----------------------------------------------------------------------------
(***************************************************************************)
(* A loss that can be repaired is on its way to the sender until its       *)
(* packet was retransmitted: not noticed yet, in a notification no LACK at *)
(* or beyond the packet is ahead of, or in a hole bit.                     *)
(***************************************************************************)
Covers(m, n) ==
    \E k \in 1 .. NumHoles : Reports(m, k) /\ Plus(m.first, k - 1) = SeqOf(n)

Held(n) == \E i \in DOMAIN lossNotifications :
                Covers(lossNotifications[i], n) /\ AheadOfAll(n, i)

OnTheWay(n) == \E i \in DOMAIN toTx :
                    toTx[i].loss /\ Covers(toTx[i], n) /\ Ahead(n, i)

Pending(n) == expectedId <= n \/ Held(n) \/ OnTheWay(n) \/ IsHole(SeqOf(n))

RecoveryInv ==
    \A n \in lost : Recoverable(n) =>
        n \in retransmitted \/ (n \in BufferedIds /\ Pending(n))

(***************************************************************************)
(* hole_size has 8 bits: fewer packets in a row are lost than it counts,   *)
(* else the first ones of the hole are not reported.                       *)
(***************************************************************************)
ShortBursts ==
    \A n \in Nat : \E k \in 0 .. HoleSizeRange - 1 : n + k \notin lost

\* Nothing is lost.
LEMMA RecoveryInit == Init => RecoveryInv
BY DEF Init, SenderInit, RecoveryInv

\* What was pending stays so when nothing is taken from the wires.
LEMMA PendingFrame ==
    ASSUME NEW n, Pending(n),
           UNCHANGED <<expectedId, toTx, leadingAck, holes, lossNotifications>>
    PROVE  Pending(n)'
<1>1. expectedId <= n => expectedId' <= n
  OBVIOUS
<1>2. Held(n) => Held(n)'
  BY DEF Held, Covers, AheadOfAll, Reports
<1>3. OnTheWay(n) => OnTheWay(n)'
  BY DEF OnTheWay, Covers, Ahead, Reports
<1>4. IsHole(SeqOf(n)) => IsHole(SeqOf(n))'
  BY DEF IsHole
<1> QED
  BY <1>1, <1>2, <1>3, <1>4 DEF Pending

\* It is enough that a step keeps what is pending, and what is buffered.
LEMMA RecoveryKept ==
    ASSUME RecoveryInv, lost' = lost,
           \A n \in lost : n \in retransmitted => n \in retransmitted',
           \A n \in lost : n \in BufferedIds /\ Pending(n) =>
                \/ n \in retransmitted'
                \/ ~Recoverable(n)
                \/ n \in BufferedIds' /\ Pending(n)'
    PROVE  RecoveryInv'
<1> SUFFICES ASSUME NEW n \in lost, Recoverable(n)
             PROVE  n \in retransmitted' \/ (n \in BufferedIds' /\ Pending(n)')
  BY DEF RecoveryInv, Recoverable
<1> QED
  BY DEF RecoveryInv

\* A new packet that is lost is not noticed yet.
LEMMA SendNormalRecovery ==
    ASSUME TypeOK, OrderInv, RecoveryInv, SendNormal, UNCHANGED receiverVars
    PROVE  RecoveryInv'
<1>0. /\ sent \in Nat /\ expectedId <= sent /\ expectedId' = expectedId
      /\ UNCHANGED <<retransmitted, toTx, leadingAck, holes, lossNotifications>>
  BY OrderTypes DEF SendNormal, receiverVars, OrderInv, ArrivalsInv
<1>1. lost \subseteq lost' /\ lost' \subseteq lost \cup {sent}
  BY DEF SendNormal
<1>2. BufferedIds' = BufferedIds \cup {sent}
  <2> DEFINE b == BufferedCopy
  <2>1. txBuffer' = txBuffer \cup {b} /\ b.id = sent
    BY DEF SendNormal, BufferedCopy
  <2> HIDE DEF b
  <2> QED
    BY <2>1 DEF BufferedIds
<1>3. ASSUME NEW n \in lost', \E k \in 1 .. NumHoles : n - k \notin lost'
      PROVE  n \in retransmitted \/ (n \in BufferedIds' /\ Pending(n)')
  <2>1. CASE n \in lost
    <3>1. Recoverable(n)
      BY <1>1, <1>3 DEF Recoverable
    <3>2. CASE n \in BufferedIds /\ Pending(n)
      BY <1>0, <1>2, <3>2, PendingFrame
    <3> QED
      BY <2>1, <3>1, <3>2 DEF RecoveryInv
  <2>2. CASE n = sent
    <3>1. Pending(n)'
      BY <1>0, <2>2 DEF Pending
    <3> QED
      BY <1>2, <2>2, <3>1
  <2> QED
    BY <1>1, <2>1, <2>2
<1> QED
  BY <1>0, <1>3 DEF RecoveryInv, Recoverable

\* A loss in a notification becomes one in the hole bits.
LEMMA RecordLackRecovery ==
    ASSUME TypeOK, RecoveryInv, RecordLeadingAck, UNCHANGED receiverVars
    PROVE  RecoveryInv'
<1> DEFINE m == Head(toTx)
           r == Tail(toTx)
<1>0. /\ UNCHANGED <<lossNotifications, lost, txBuffer, retransmitted,
                     expectedId>>
      /\ toTx # <<>> /\ toTx' = r /\ leadingAck' = m.lack
      /\ holes' = SetHoles(m) /\ toTx \in Seq(AckMessage)
  BY OrderTypes DEF RecordLeadingAck, receiverVars
<1>1. /\ Len(toTx) \in Nat \ {0} /\ DOMAIN toTx = 1 .. Len(toTx)
      /\ toTx[1] = m /\ DOMAIN r = 1 .. Len(toTx) - 1
      /\ \A i \in 1 .. Len(toTx) - 1 : r[i] = toTx[i + 1]
      /\ \A i \in 2 .. Len(toTx) : r[i - 1] = toTx[i]
  BY <1>0, TailPlaces
<1>2. Elements(toTx) = {m} \cup Elements(r)
  BY <1>0, ElementsSplit
<1> HIDE DEF m, r
<1>3. ASSUME NEW n, Pending(n)
      PROVE  Pending(n)'
  <2>1. CASE expectedId <= n
    BY <1>0, <2>1 DEF Pending
  <2>2. CASE Held(n)
    <3>1. PICK i \in DOMAIN lossNotifications :
                Covers(lossNotifications[i], n) /\ AheadOfAll(n, i)
      BY <2>2 DEF Held
    <3>2. m.lack.id < n /\ \A x \in Elements(r) : x.lack.id < n
      BY <1>2, <3>1 DEF AheadOfAll
    <3>3. Held(n)'
      BY <1>0, <3>1, <3>2 DEF Held, AheadOfAll, Covers, Reports
    <3> QED
      BY <3>3 DEF Pending
  <2>3. CASE OnTheWay(n)
    <3>1. PICK i \in DOMAIN toTx :
                toTx[i].loss /\ Covers(toTx[i], n) /\ Ahead(n, i)
      BY <2>3 DEF OnTheWay
    <3>2. CASE i = 1
      <4>1. PICK k \in 1 .. NumHoles :
                    Reports(m, k) /\ Plus(m.first, k - 1) = SeqOf(n)
        BY <1>1, <3>1, <3>2 DEF Covers
      <4>2. SeqOf(n) \in holes'[k]
        BY <1>0, <1>1, <3>1, <3>2, <4>1 DEF SetHoles, Reports
      <4>3. IsHole(SeqOf(n))'
        BY <4>2 DEF IsHole
      <4> QED
        BY <4>3 DEF Pending
    <3>3. CASE i # 1
      <4>1. i \in 2 .. Len(toTx) /\ i - 1 \in DOMAIN r /\ r[i - 1] = toTx[i]
        BY <1>1, <3>3
      <4>2. m.lack.id < n
        <5>1. 1 \in 1 .. i - 1
          BY <4>1
        <5> QED
          BY <1>1, <3>1, <5>1 DEF Ahead
      <4>3. \A j \in 1 .. (i - 1) - 1 : r[j].lack.id < n
        <5>1. \A j \in 1 .. (i - 1) - 1 :
                    j + 1 \in 1 .. i - 1 /\ r[j] = toTx[j + 1]
          BY <1>1, <4>1
        <5> QED
          BY <3>1, <5>1 DEF Ahead
      <4>4. r[i - 1].loss /\ Covers(r[i - 1], n)
        BY <3>1, <4>1
      <4>5. OnTheWay(n)'
        BY <1>0, <4>1, <4>2, <4>3, <4>4 DEF OnTheWay, Ahead, Covers, Reports
      <4> QED
        BY <4>5 DEF Pending
    <3> QED
      BY <3>2, <3>3
  <2>4. CASE IsHole(SeqOf(n))
    <3>1. \A k \in 1 .. NumHoles : holes[k] \subseteq holes'[k]
      BY <1>0 DEF SetHoles
    <3>2. IsHole(SeqOf(n))'
      BY <2>4, <3>1 DEF IsHole
    <3> QED
      BY <3>2 DEF Pending
  <2> QED
    BY <1>3, <2>1, <2>2, <2>3, <2>4 DEF Pending
<1>4. BufferedIds' = BufferedIds
  BY <1>0 DEF BufferedIds
<1> QED
  BY <1>0, <1>3, <1>4, RecoveryKept

\* Copies in the buffer have different numbers.
LEMMA BufferedApart ==
    ASSUME TypeOK, HeadersFaithful, OrderInv, NEW c \in txBuffer,
           NEW d \in txBuffer, c.id # d.id
    PROVE  c.seq # d.seq /\ d.seq = SeqOf(d.id) /\ c.seq = SeqOf(c.id)
<1>1. /\ c.id \in Nat /\ d.id \in Nat /\ sent \in Nat
      /\ c.id < sent /\ d.id < sent
      /\ sent - c.id <= HalfRange /\ sent - d.id <= HalfRange
  BY OrderTypes DEF OrderInv, PastInv, NearInv, Near
<1>2. c.id - d.id <= HalfRange /\ d.id - c.id <= HalfRange
  BY <1>1, SeqNumbers
<1>3. c.seq = SeqOf(c.id) /\ d.seq = SeqOf(d.id)
  BY DEF HeadersFaithful, Numbered
<1> QED
  BY <1>1, <1>2, <1>3, SameNumber

\* A loss in the hole bits ends with its retransmission.
LEMMA ProcessBufferedRecovery ==
    ASSUME TypeOK, HeadersFaithful, OrderInv, UnseenInv, RecoveryInv,
           0 \notin LossyIds, NEW c \in txBuffer, ProcessBuffered(c),
           UNCHANGED receiverVars
    PROVE  RecoveryInv'
<1>0. /\ UNCHANGED <<lossNotifications, lost, toTx, leadingAck, expectedId>>
      /\ txBuffer' = txBuffer \ {c} /\ holes' = ResetHoles(c.seq)
      /\ c.id \in Nat /\ leadingAck.id \in Int /\ lost \subseteq Nat
      /\ IsHole(c.seq) => retransmitted' = retransmitted \cup {c.id}
      /\ retransmitted \subseteq retransmitted'
  BY OrderTypes
     DEF ProcessBuffered, receiverVars, TypeOK, SenderTypeOK
<1>1. c.id <= leadingAck.id
  BY AcknowledgedIsPast DEF ProcessBuffered
<1>2. ASSUME NEW n \in lost, n \in BufferedIds, Pending(n), n = c.id
      PROVE  n \in retransmitted'
  <2>1. ~(leadingAck.id < n)
    BY <1>0, <1>1, <1>2
  <2>2. n \in Nat \ {0}
    BY <1>0, <1>2 DEF UnseenInv
  <2>3. ~(expectedId <= n)
    BY <2>1, <2>2, SeenBefore
  <2>4. ~Held(n) /\ ~OnTheWay(n)
    BY <2>1 DEF Held, OnTheWay, Ahead, AheadOfAll
  <2>5. IsHole(SeqOf(n))
    BY <1>2, <2>3, <2>4 DEF Pending
  <2>6. c.seq = SeqOf(c.id)
    BY DEF HeadersFaithful, Numbered
  <2> QED
    BY <1>0, <1>2, <2>5, <2>6
<1>3. ASSUME NEW n \in lost, n \in BufferedIds, Pending(n), n # c.id
      PROVE  n \in BufferedIds' /\ Pending(n)'
  <2>1. PICK d \in txBuffer : d.id = n
    BY <1>3 DEF BufferedIds
  <2>2. n \in BufferedIds'
    BY <1>0, <1>3, <2>1 DEF BufferedIds
  <2>3. SeqOf(n) # c.seq
    BY <1>3, <2>1, BufferedApart
  <2>4. IsHole(SeqOf(n)) => IsHole(SeqOf(n))'
    BY <1>0, <2>3 DEF IsHole, ResetHoles
  <2>5. Held(n) => Held(n)'
    BY <1>0 DEF Held, Covers, AheadOfAll, Reports
  <2>6. OnTheWay(n) => OnTheWay(n)'
    BY <1>0 DEF OnTheWay, Covers, Ahead, Reports
  <2> QED
    BY <1>0, <1>3, <2>2, <2>4, <2>5, <2>6 DEF Pending
<1> QED
  BY <1>0, <1>2, <1>3, RecoveryKept

\* A loss that is noticed goes to a notification.
LEMMA ReceivePacketRecovery ==
    ASSUME TypeOK, HeadersFaithful, OrderInv, UnseenInv, RecoveryInv,
           0 \notin LossyIds, ShortBursts, ReceivePacket, UNCHANGED senderVars
    PROVE  RecoveryInv'
<1> DEFINE pkt == Head(toRx)
           m == LossNotification(pkt)
           q == lossNotifications
           r == Append(q, m)
<1>0. /\ UNCHANGED <<toTx, leadingAck, holes, lost, txBuffer, retransmitted>>
      /\ toRx # <<>> /\ q \in Seq(Notification) /\ expectedId \in Nat
      /\ lost \subseteq Nat
  BY OrderTypes DEF ReceivePacket, senderVars, TypeOK, SenderTypeOK
<1>1. BufferedIds' = BufferedIds
  BY <1>0 DEF BufferedIds
<1>2. CASE pkt.copy > 0
  <2>1. UNCHANGED <<expectedId, lossNotifications>>
    BY <1>2 DEF ReceivePacket, ingressVars, queueVars
  <2> QED
    BY <1>0, <1>1, <2>1, PendingFrame, RecoveryKept
<1>3. CASE pkt.copy = 0
  <2>1. DetectHole(pkt)
    BY <1>3 DEF ReceivePacket
  <2>2. /\ pkt.id \in Nat /\ expectedId \in Nat /\ expectedId' = After(pkt)
        /\ ~pkt.dummy => pkt.id \notin lost
        /\ \A n \in expectedId .. pkt.id - 1 : n \in lost /\ n < sent
        /\ \/ pkt.id = expectedId /\ UNCHANGED lossNotifications
           \/ /\ expectedId < pkt.id
              /\ lossNotifications' = r
              /\ m.first = SeqOf(expectedId)
              /\ m.hole = (pkt.id - expectedId) % HoleSizeRange
    BY <1>0, <1>3, <2>1, NewReport
  <2>3. /\ Len(q) \in Nat /\ DOMAIN q = 1 .. Len(q)
        /\ DOMAIN r = 1 .. Len(q) + 1 /\ r[Len(q) + 1] = m
        /\ \A i \in 1 .. Len(q) : r[i] = q[i]
    BY <1>0, AppendPlaces
  <2> HIDE DEF pkt, m, r
\* What the receiver held it holds still.
  <2>4. ASSUME NEW n, Held(n)
        PROVE  Held(n)'
    <3>1. CASE UNCHANGED lossNotifications
      BY <1>0, <2>4, <3>1 DEF Held, Covers, AheadOfAll, Reports
    <3>2. CASE lossNotifications' = r
      <4>1. PICK i \in 1 .. Len(q) : Covers(q[i], n) /\ AheadOfAll(n, i)
        BY <2>3, <2>4 DEF Held
      <4>2. /\ i \in DOMAIN r /\ r[i] = q[i]
            /\ \A j \in 1 .. i - 1 : r[j] = q[j]
        BY <2>3
      <4> QED
        BY <1>0, <3>2, <4>1, <4>2 DEF Held, Covers, AheadOfAll, Reports
    <3> QED
      BY <2>2, <3>1, <3>2
\* The loss it notices now is covered by the notification it makes.
  <2>5. ASSUME NEW n \in lost, Recoverable(n), expectedId <= n,
               ~(expectedId' <= n)
        PROVE  Held(n)'
    <3>1. n \in Nat \ {0} /\ n < pkt.id
      <4>1. n \in Nat \ {0}
        BY <1>0 DEF UnseenInv
      <4>2. CASE pkt.dummy
        BY <2>2, <2>5, <4>1, <4>2 DEF After
      <4>3. CASE ~pkt.dummy
        <5>1. n # pkt.id
          BY <2>2, <4>3
        <5> QED
          BY <2>2, <2>5, <4>1, <4>3, <5>1 DEF After
      <4> QED
        BY <4>1, <4>2, <4>3
    <3>2. /\ lossNotifications' = r /\ m.first = SeqOf(expectedId)
          /\ m.hole = (pkt.id - expectedId) % HoleSizeRange
      BY <2>2, <2>5, <3>1
    <3> DEFINE k == n - expectedId + 1
    <3>3. k \in 1 .. NumHoles
      <4>1. PICK d \in 1 .. NumHoles : n - d \notin lost
        BY <2>5 DEF Recoverable
      <4>2. n - d \notin expectedId .. pkt.id - 1
        BY <2>2, <4>1
      <4> QED
        BY <2>2, <2>5, <3>1, <4>2, SenderAssumption
    <3>4. pkt.id - expectedId < HoleSizeRange
      <4>1. PICK j \in 0 .. HoleSizeRange - 1 : expectedId + j \notin lost
        BY <1>0 DEF ShortBursts
      <4>2. expectedId + j \notin expectedId .. pkt.id - 1
        BY <2>2, <4>1
      <4> QED
        BY <2>2, <4>2, ReceiverAssumption
    <3>5. m.hole = pkt.id - expectedId /\ m.hole >= k
      BY <2>2, <2>5, <3>1, <3>2, <3>4, ReceiverAssumption
    <3>6. Plus(m.first, k - 1) = SeqOf(n)
      <4>1. expectedId + k - 1 = n
        BY <2>2, <3>1
      <4> HIDE DEF k
      <4> QED
        BY <2>2, <3>2, <3>3, <4>1, HolePlace
    <3>7. Covers(m, n)
      BY <3>3, <3>5, <3>6 DEF Covers, Reports
    <3>8. /\ leadingAck.id < n
          /\ \A x \in Elements(toTx) \cup Elements(q) : x.lack.id < n
      BY <2>5, <3>1, SeenBefore
    <3>9. \A j \in 1 .. Len(q) : r[j].lack.id < n
      BY <2>3, <3>8 DEF Elements
    <3>10. /\ Len(q) + 1 \in DOMAIN r /\ (Len(q) + 1) - 1 = Len(q)
           /\ Covers(r[Len(q) + 1], n)
      BY <2>3, <3>7
    <3> QED
      BY <1>0, <3>2, <3>8, <3>9, <3>10 DEF Held, Covers, AheadOfAll, Reports
  <2>6. ASSUME NEW n \in lost, Recoverable(n), Pending(n)
        PROVE  Pending(n)'
    <3>1. OnTheWay(n) => OnTheWay(n)'
      BY <1>0 DEF OnTheWay, Covers, Ahead, Reports
    <3>2. IsHole(SeqOf(n)) => IsHole(SeqOf(n))'
      BY <1>0 DEF IsHole
    <3>3. expectedId <= n => Held(n)' \/ expectedId' <= n
      BY <2>5, <2>6
    <3> QED
      BY <2>4, <2>6, <3>1, <3>2, <3>3 DEF Pending
  <2> QED
    BY <1>0, <1>1, <2>6, RecoveryKept
<1> QED
  BY <1>2, <1>3 DEF ReceivePacket

\* A loss goes with its notification from queue to wire.
LEMMA EgressLossNotificationRecovery ==
    ASSUME TypeOK, RecoveryInv, EgressLossNotification, UNCHANGED senderVars
    PROVE  RecoveryInv'
<1> DEFINE q == lossNotifications
           x == Head(q)
           m == LossMessage(x)
           r == Tail(q)
           w == Append(toTx, m)
<1>0. /\ UNCHANGED <<leadingAck, holes, lost, txBuffer, retransmitted,
                     expectedId>>
      /\ q # <<>> /\ toTx' = w /\ lossNotifications' = r
      /\ toTx \in Seq(AckMessage) /\ q \in Seq(Notification)
  BY OrderTypes DEF EgressLossNotification, senderVars, ingressVars
<1>1. /\ Len(q) \in Nat \ {0} /\ DOMAIN q = 1 .. Len(q)
      /\ q[1] = x /\ DOMAIN r = 1 .. Len(q) - 1
      /\ \A i \in 1 .. Len(q) - 1 : r[i] = q[i + 1]
      /\ \A i \in 2 .. Len(q) : r[i - 1] = q[i]
  BY <1>0, TailPlaces
<1>2. /\ Len(toTx) \in Nat /\ DOMAIN toTx = 1 .. Len(toTx)
      /\ DOMAIN w = 1 .. Len(toTx) + 1
      /\ \A i \in 1 .. Len(toTx) : w[i] = toTx[i]
      /\ w[Len(toTx) + 1] = m
  BY <1>0, AppendPlaces
<1>3. m.lack = x.lack /\ m.first = x.first /\ m.hole = x.hole /\ m.loss
  BY DEF LossMessage
<1>4. Elements(w) = Elements(toTx) \cup {m}
  <2>1. x \in Notification
    BY <1>0, HeadTailType
  <2>2. m \in AckMessage
    BY <2>1 DEF LossMessage, Notification, AckMessage
  <2> HIDE DEF m
  <2> QED
    BY <1>0, <2>2, ElementsAppend
<1> HIDE DEF x, m, r, w
<1>5. ASSUME NEW n, Held(n)
      PROVE  Held(n)' \/ OnTheWay(n)'
  <2>1. PICK i \in DOMAIN q : Covers(q[i], n) /\ AheadOfAll(n, i)
    BY <1>5 DEF Held
  <2>2. CASE i = 1
    <3>1. Covers(m, n)
      BY <1>1, <1>3, <2>1, <2>2 DEF Covers, Reports
    <3>2. \A j \in 1 .. Len(toTx) : w[j].lack.id < n
      BY <1>2, <2>1 DEF AheadOfAll, Elements
    <3>3. /\ Len(toTx) + 1 \in DOMAIN w /\ (Len(toTx) + 1) - 1 = Len(toTx)
          /\ w[Len(toTx) + 1].loss /\ Covers(w[Len(toTx) + 1], n)
      BY <1>2, <1>3, <3>1
    <3>4. leadingAck.id < n
      BY <2>1 DEF AheadOfAll
    <3>5. OnTheWay(n)'
      BY <1>0, <3>2, <3>3, <3>4 DEF OnTheWay, Ahead, Covers, Reports
    <3> QED
      BY <3>5
  <2>3. CASE i # 1
    <3>1. i \in 2 .. Len(q) /\ i - 1 \in DOMAIN r /\ r[i - 1] = q[i]
      BY <1>1, <2>3
    <3>2. m.lack.id < n
      <4>1. 1 \in 1 .. i - 1
        BY <3>1
      <4> QED
        BY <1>1, <1>3, <2>1, <4>1 DEF AheadOfAll
    <3>3. \A j \in 1 .. (i - 1) - 1 : r[j].lack.id < n
      <4>1. \A j \in 1 .. (i - 1) - 1 :
                j + 1 \in 1 .. i - 1 /\ r[j] = q[j + 1]
        BY <1>1, <3>1
      <4> QED
        BY <2>1, <4>1 DEF AheadOfAll
    <3>4. /\ leadingAck.id < n /\ \A y \in Elements(w) : y.lack.id < n
          /\ Covers(r[i - 1], n)
      BY <1>4, <2>1, <3>1, <3>2 DEF AheadOfAll
    <3>5. Held(n)'
      BY <1>0, <3>1, <3>3, <3>4 DEF Held, AheadOfAll, Covers, Reports
    <3> QED
      BY <3>5
  <2> QED
    BY <2>2, <2>3
<1>6. ASSUME NEW n, OnTheWay(n)
      PROVE  OnTheWay(n)'
  <2>1. PICK i \in 1 .. Len(toTx) :
                toTx[i].loss /\ Covers(toTx[i], n) /\ Ahead(n, i)
    BY <1>2, <1>6 DEF OnTheWay
  <2>2. i \in DOMAIN w /\ w[i] = toTx[i] /\ \A j \in 1 .. i - 1 : w[j] = toTx[j]
    BY <1>2
  <2> QED
    BY <1>0, <2>1, <2>2 DEF OnTheWay, Ahead, Covers, Reports
<1>7. ASSUME NEW n, Pending(n)
      PROVE  Pending(n)'
  <2>1. IsHole(SeqOf(n)) => IsHole(SeqOf(n))'
    BY <1>0 DEF IsHole
  <2> QED
    BY <1>0, <1>5, <1>6, <1>7, <2>1 DEF Pending
<1>8. BufferedIds' = BufferedIds
  BY <1>0 DEF BufferedIds
<1> QED
  BY <1>0, <1>7, <1>8, RecoveryKept

\* A LACK takes no pending loss away.
LEMMA EgressLackRecovery ==
    ASSUME TypeOK, RecoveryInv, EgressLack, UNCHANGED senderVars
    PROVE  RecoveryInv'
<1> DEFINE m == LackMessage(rxLack)
           w == Append(toTx, m)
<1>0. /\ UNCHANGED <<leadingAck, holes, lost, txBuffer, retransmitted,
                     expectedId>>
      /\ toTx' = w /\ toTx \in Seq(AckMessage) /\ lossNotifications = <<>>
  BY OrderTypes DEF EgressLack, senderVars, ingressVars
<1>1. /\ Len(toTx) \in Nat /\ DOMAIN toTx = 1 .. Len(toTx)
      /\ DOMAIN w = 1 .. Len(toTx) + 1
      /\ \A i \in 1 .. Len(toTx) : w[i] = toTx[i]
  BY <1>0, AppendPlaces
<1> HIDE DEF m, w
<1>2. ASSUME NEW n, OnTheWay(n)
      PROVE  OnTheWay(n)'
  <2>1. PICK i \in 1 .. Len(toTx) :
                toTx[i].loss /\ Covers(toTx[i], n) /\ Ahead(n, i)
    BY <1>1, <1>2 DEF OnTheWay
  <2>2. i \in DOMAIN w /\ w[i] = toTx[i] /\ \A j \in 1 .. i - 1 : w[j] = toTx[j]
    BY <1>1
  <2> QED
    BY <1>0, <2>1, <2>2 DEF OnTheWay, Ahead, Covers, Reports
<1>3. ASSUME NEW n, Pending(n)
      PROVE  Pending(n)'
  <2>1. ~Held(n)
    BY <1>0 DEF Held
  <2>2. IsHole(SeqOf(n)) => IsHole(SeqOf(n))'
    BY <1>0 DEF IsHole
  <2> QED
    BY <1>0, <1>2, <1>3, <2>1, <2>2 DEF Pending
<1>4. BufferedIds' = BufferedIds
  BY <1>0 DEF BufferedIds
<1> QED
  BY <1>0, <1>3, <1>4, RecoveryKept

\* Every step keeps the loss of a packet pending somewhere.
LEMMA RecoveryStep ==
    ASSUME TypeOK, HeadersFaithful, OrderInv, UnseenInv, RecoveryInv,
           0 \notin LossyIds, ShortBursts, [Next]_vars
    PROVE  RecoveryInv'
<1>1. CASE SendNormal /\ UNCHANGED receiverVars
  BY <1>1, SendNormalRecovery
<1>2. CASE RecordLeadingAck /\ UNCHANGED receiverVars
  BY <1>2, RecordLackRecovery
<1>3. CASE (\E c \in txBuffer : ProcessBuffered(c)) /\ UNCHANGED receiverVars
  BY <1>3, ProcessBufferedRecovery
<1>4. CASE ReceivePacket /\ UNCHANGED senderVars
  BY <1>4, ReceivePacketRecovery
<1>5. CASE EgressLossNotification /\ UNCHANGED senderVars
  BY <1>5, EgressLossNotificationRecovery
<1>6. CASE EgressLack /\ UNCHANGED senderVars
  BY <1>6, EgressLackRecovery
<1>7. CASE UNCHANGED <<expectedId, toTx, leadingAck, holes, lossNotifications,
                       lost, retransmitted, txBuffer>>
  <2>1. BufferedIds' = BufferedIds
    BY <1>7 DEF BufferedIds
  <2> QED
    BY <1>7, <2>1, PendingFrame, RecoveryKept
<1>8. CASE /\ \/ \E pkt \in rxBuffer : ReprocessBuffered(pkt)
              \/ TimerPacket \/ EgressLackUpdate
           /\ UNCHANGED senderVars
  BY <1>7, <1>8
     DEF ReprocessBuffered, TimerPacket, EgressLackUpdate, queueVars, wireVars,
         ingressVars, senderVars
<1>9. CASE (SendDummy /\ UNCHANGED receiverVars) \/ UNCHANGED vars
  BY <1>7, <1>9
     DEF SendDummy, vars, wireVars, senderVars, receiverVars
<1> QED
  BY <1>1, <1>2, <1>3, <1>4, <1>5, <1>6, <1>8, <1>9
     DEF Next, SenderNext, ReceiverNext

(***************************************************************************)
(* The sender never frees the copy of a lost packet it could still         *)
(* retransmit, whatever else is lost and in whatever order the receiver's  *)
(* two mirror queues and the couriers let notifications and LACKs out: if  *)
(* packet 0 is not lost, and no burst is longer than hole_size can count.  *)
(***************************************************************************)
THEOREM LossesStayBuffered ==
    ASSUME 0 \notin LossyIds
    PROVE  Spec /\ []ShortBursts => []BufferedUntilRecovered
<1>1. TypeOK /\ HeadersFaithful /\ OrderInv /\ UnseenInv /\ [Next]_vars
        => UnseenInv'
  BY UnseenStep
<1>2. TypeOK /\ HeadersFaithful /\ OrderInv /\ UnseenInv /\ RecoveryInv
        /\ ShortBursts /\ [Next]_vars
        => RecoveryInv'
  BY RecoveryStep
<1>3. RecoveryInv => BufferedUntilRecovered
  BY DEF RecoveryInv, BufferedUntilRecovered
<1> QED
  BY UnseenInit, RecoveryInit, TypeCorrect, HeadersAreFaithful, LinkIsOrdered,
     <1>1, <1>2, <1>3, PTL DEF Spec

-----------------------------------------------------------------------------
\* Queues in the order of their LACKs.

InOrderOfLacks(q) ==
    \A i, j \in DOMAIN q : i < j => q[i].lack.id <= q[j].lack.id

InOrderOfIds(q) == \A i, j \in DOMAIN q : i < j => q[i].id <= q[j].id

\* The order of the LACKs without the first.
LEMMA LacksTail ==
    ASSUME NEW S, NEW q \in Seq(S), q # <<>>, InOrderOfLacks(q)
    PROVE  /\ InOrderOfLacks(Tail(q))
           /\ \A m \in Elements(Tail(q)) : Head(q).lack.id <= m.lack.id
<1> DEFINE r == Tail(q)
<1>1. /\ Len(q) \in Nat \ {0} /\ DOMAIN q = 1 .. Len(q) /\ q[1] = Head(q)
      /\ DOMAIN r = 1 .. Len(q) - 1
      /\ \A i \in 1 .. Len(q) - 1 : r[i] = q[i + 1]
  BY TailPlaces
<1>2. \A i \in DOMAIN r : i + 1 \in DOMAIN q /\ 1 < i + 1 /\ i \in Int
  BY <1>1
<1>3. 1 \in DOMAIN q
  BY <1>1
<1> HIDE DEF r
<1>4. InOrderOfLacks(r)
  BY <1>1, <1>2 DEF InOrderOfLacks
<1>5. \A i \in DOMAIN r : Head(q).lack.id <= r[i].lack.id
  BY <1>1, <1>2, <1>3 DEF InOrderOfLacks
<1> QED
  BY <1>4, <1>5 DEF r, Elements

\* The order of the identities without the first.
LEMMA IdsTail ==
    ASSUME NEW S, NEW q \in Seq(S), q # <<>>, InOrderOfIds(q)
    PROVE  /\ InOrderOfIds(Tail(q))
           /\ \A l \in Elements(Tail(q)) : Head(q).id <= l.id
<1> DEFINE r == Tail(q)
<1>1. /\ Len(q) \in Nat \ {0} /\ DOMAIN q = 1 .. Len(q) /\ q[1] = Head(q)
      /\ DOMAIN r = 1 .. Len(q) - 1
      /\ \A i \in 1 .. Len(q) - 1 : r[i] = q[i + 1]
  BY TailPlaces
<1>2. \A i \in DOMAIN r : i + 1 \in DOMAIN q /\ 1 < i + 1 /\ i \in Int
  BY <1>1
<1>3. 1 \in DOMAIN q
  BY <1>1
<1> HIDE DEF r
<1>4. InOrderOfIds(r)
  BY <1>1, <1>2 DEF InOrderOfIds
<1>5. \A i \in DOMAIN r : Head(q).id <= r[i].id
  BY <1>1, <1>2, <1>3 DEF InOrderOfIds
<1> QED
  BY <1>4, <1>5 DEF r, Elements

\* One more LACK that is not behind the others.
LEMMA LacksAppend ==
    ASSUME NEW S, NEW q \in Seq(S), NEW e, InOrderOfLacks(q),
           \A m \in Elements(q) : m.lack.id <= e.lack.id
    PROVE  /\ InOrderOfLacks(Append(q, e))
           /\ Elements(Append(q, e)) = Elements(q) \cup {e}
<1> DEFINE r == Append(q, e)
<1>1. /\ Len(q) \in Nat /\ DOMAIN q = 1 .. Len(q)
      /\ DOMAIN r = 1 .. Len(q) + 1 /\ r[Len(q) + 1] = e
      /\ \A i \in 1 .. Len(q) : r[i] = q[i]
  BY AppendPlaces
<1> HIDE DEF r
<1>2. \A i \in DOMAIN r : i \in DOMAIN q \/ i = Len(q) + 1
  BY <1>1
<1>3. \A i \in DOMAIN q : r[i] = q[i] /\ q[i].lack.id <= e.lack.id
                          /\ i < Len(q) + 1
  BY <1>1 DEF Elements
<1>4. \A i, j \in DOMAIN r : i < j => i \in DOMAIN q
  BY <1>1
<1>5. InOrderOfLacks(r)
  BY <1>1, <1>2, <1>3, <1>4 DEF InOrderOfLacks
<1>6. {r[i] : i \in DOMAIN r} = {q[i] : i \in DOMAIN q} \cup {e}
  BY <1>1, <1>2
<1> QED
  BY <1>5, <1>6 DEF r, Elements

\* One more identity that is not behind the others.
LEMMA IdsAppend ==
    ASSUME NEW S, NEW q \in Seq(S), NEW e, InOrderOfIds(q),
           \A l \in Elements(q) : l.id <= e.id
    PROVE  /\ InOrderOfIds(Append(q, e))
           /\ Elements(Append(q, e)) = Elements(q) \cup {e}
<1> DEFINE r == Append(q, e)
<1>1. /\ Len(q) \in Nat /\ DOMAIN q = 1 .. Len(q)
      /\ DOMAIN r = 1 .. Len(q) + 1 /\ r[Len(q) + 1] = e
      /\ \A i \in 1 .. Len(q) : r[i] = q[i]
  BY AppendPlaces
<1> HIDE DEF r
<1>2. \A i \in DOMAIN r : i \in DOMAIN q \/ i = Len(q) + 1
  BY <1>1
<1>3. \A i \in DOMAIN q : r[i] = q[i] /\ q[i].id <= e.id /\ i < Len(q) + 1
  BY <1>1 DEF Elements
<1>4. \A i, j \in DOMAIN r : i < j => i \in DOMAIN q
  BY <1>1
<1>5. InOrderOfIds(r)
  BY <1>1, <1>2, <1>3, <1>4 DEF InOrderOfIds
<1>6. {r[i] : i \in DOMAIN r} = {q[i] : i \in DOMAIN q} \cup {e}
  BY <1>1, <1>2
<1> QED
  BY <1>5, <1>6 DEF r, Elements

-----------------------------------------------------------------------------
(***************************************************************************)
(* The invariant: every LACK that may still reach the sender, in a message *)
(* on the wire, a notification or an update in the receiver's queues, or   *)
(* in its register while it is armed, is at or after those that are ahead  *)
(* of it.  The register and the notifications are not ordered: the guard   *)
(* of EgressLack and the silencing of the register keep them apart.        *)
(***************************************************************************)
Follows(n) ==
    /\ leadingAck.id <= n
    /\ \A m \in Elements(toTx) : m.lack.id <= n

LackOrder ==
    /\ InOrderOfLacks(toTx) /\ InOrderOfLacks(lossNotifications)
    /\ InOrderOfIds(lackUpdates)
    /\ \A m \in Elements(toTx) : leadingAck.id <= m.lack.id
    /\ \A m \in Elements(lossNotifications) : Follows(m.lack.id)
    /\ \A l \in Elements(lackUpdates) : Follows(l.id)
    /\ lackNotifyCount > 0 =>
            /\ Follows(rxLack.id)
            /\ \A l \in Elements(lackUpdates) : rxLack.id <= l.id

\* There are no LACKs but those of the reset registers.
LEMMA LackOrderInit == Init => LackOrder
BY DEF Init, WiresInit, SenderInit, ReceiverInit, LackOrder, InOrderOfLacks,
       InOrderOfIds, Elements

\* Steps that touch no LACK.
LEMMA LackOrderFrame ==
    ASSUME LackOrder,
           UNCHANGED <<toTx, leadingAck, lossNotifications, lackUpdates,
                       rxLack, lackNotifyCount>>
    PROVE  LackOrder'
BY DEF LackOrder, Follows, InOrderOfLacks, InOrderOfIds

\* The LACK recorded next is not behind the last.
LEMMA RecordLackOrderly ==
    ASSUME TypeOK, LackOrder, RecordLeadingAck, UNCHANGED receiverVars
    PROVE  LackOrder' /\ leadingAck.id <= leadingAck'.id
<1> DEFINE m == Head(toTx)
           r == Tail(toTx)
<1>0. /\ UNCHANGED <<lossNotifications, lackUpdates, rxLack, lackNotifyCount>>
      /\ toTx # <<>> /\ toTx' = r /\ leadingAck' = m.lack
      /\ toTx \in Seq(AckMessage)
  BY OrderTypes DEF RecordLeadingAck, receiverVars
<1>1. Elements(toTx) = {m} \cup Elements(r)
  BY <1>0, ElementsSplit
<1>2. /\ InOrderOfLacks(r)
      /\ \A x \in Elements(r) : m.lack.id <= x.lack.id
  BY <1>0, LacksTail DEF LackOrder
<1> HIDE DEF m, r
<1>3. \A n : Follows(n) => m.lack.id <= n /\ \A x \in Elements(r) : x.lack.id <= n
  BY <1>1 DEF Follows
<1> QED
  BY <1>0, <1>1, <1>2, <1>3 DEF LackOrder, Follows

\* A LACK that is mirrored is the newest.
LEMMA ReceivePacketOrderly ==
    ASSUME TypeOK, HeadersFaithful, OrderInv, LackOrder, ReceivePacket,
           UNCHANGED senderVars
    PROVE  LackOrder'
<1> DEFINE pkt == Head(toRx)
<1>0. /\ UNCHANGED <<toTx, leadingAck, rxLack, lackNotifyCount>>
      /\ toRx # <<>> /\ toRx' = Tail(toRx) /\ expectedId \in Nat
      /\ lackUpdates \in Seq(Lack) /\ lossNotifications \in Seq(Notification)
  BY OrderTypes DEF ReceivePacket, senderVars, egressVars
<1>1. CASE pkt.copy > 0
  <2>1. UNCHANGED <<lossNotifications, lackUpdates>>
    BY <1>1 DEF ReceivePacket, queueVars
  <2> QED
    BY <1>0, <2>1, LackOrderFrame
<1>2. CASE pkt.copy = 0
  <2>1. DetectHole(pkt)
    BY <1>2 DEF ReceivePacket
  <2>2. /\ expectedId <= pkt.id /\ pkt.id \in Nat
        /\ \/ UNCHANGED lackUpdates
           \/ lackUpdates' = Append(lackUpdates, LackUpdate(pkt))
        /\ \/ UNCHANGED lossNotifications
           \/ /\ lossNotifications' =
                     Append(lossNotifications, LossNotification(pkt))
              /\ expectedId < pkt.id
    BY <1>0, <1>2, <2>1, DetectHoleOrder, HoleSize
\* All that was seen is before the expected number.
  <2>3. ASSUME NEW n \in Nat, expectedId <= n
        PROVE  /\ Follows(n) /\ rxLack.id <= n
               /\ \A l \in Elements(lackUpdates) : l.id <= n
               /\ \A m \in Elements(lossNotifications) : m.lack.id <= n
    <3>1. \A l : l.id \in Int /\ Seen(l) => l.id <= n
      BY <1>0, <2>3 DEF Seen
    <3> QED
      BY <3>1, OrderTypes DEF OrderInv, PastInv, Follows
  <2> DEFINE u == LackUpdate(pkt)
             x == LossNotification(pkt)
  <2>4. u.id = pkt.id
    BY DEF LackUpdate
  <2>5. expectedId < pkt.id => x.lack.id \in Nat /\ expectedId <= x.lack.id
    BY <1>0, <2>2 DEF LossNotification, NotificationLack
  <2> HIDE DEF u, x, pkt
  <2>6. /\ InOrderOfIds(lackUpdates')
        /\ \A l \in Elements(lackUpdates') :
                Follows(l.id) /\ (lackNotifyCount > 0 => rxLack.id <= l.id)
    <3>1. CASE UNCHANGED lackUpdates
      BY <3>1 DEF LackOrder
    <3>2. CASE lackUpdates' = Append(lackUpdates, u)
      <4>1. Follows(u.id) /\ rxLack.id <= u.id
            /\ \A l \in Elements(lackUpdates) : l.id <= u.id
        BY <2>2, <2>3, <2>4
      <4>2. /\ InOrderOfIds(lackUpdates')
            /\ Elements(lackUpdates') = Elements(lackUpdates) \cup {u}
        BY <1>0, <3>2, <4>1, IdsAppend DEF LackOrder
      <4> QED
        BY <4>1, <4>2 DEF LackOrder
    <3> QED
      BY <2>2, <3>1, <3>2 DEF u
  <2>7. /\ InOrderOfLacks(lossNotifications')
        /\ \A m \in Elements(lossNotifications') : Follows(m.lack.id)
    <3>1. CASE UNCHANGED lossNotifications
      BY <3>1 DEF LackOrder
    <3>2. CASE /\ lossNotifications' = Append(lossNotifications, x)
               /\ expectedId < pkt.id
      <4>1. Follows(x.lack.id)
            /\ \A m \in Elements(lossNotifications) : m.lack.id <= x.lack.id
        BY <2>3, <2>5, <3>2
      <4>2. /\ InOrderOfLacks(lossNotifications')
            /\ Elements(lossNotifications') =
                    Elements(lossNotifications) \cup {x}
        BY <1>0, <3>2, <4>1, LacksAppend DEF LackOrder
      <4> QED
        BY <4>1, <4>2 DEF LackOrder
    <3> QED
      BY <2>2, <3>1, <3>2 DEF x
  <2> QED
    BY <1>0, <2>6, <2>7 DEF LackOrder, Follows
<1> QED
  BY <1>1, <1>2 DEF ReceivePacket

\* A LACK goes from the mirror queue to the register.
LEMMA EgressLackUpdateOrderly ==
    ASSUME TypeOK, LackOrder, EgressLackUpdate, UNCHANGED senderVars
    PROVE  LackOrder'
<1> DEFINE l == Head(lackUpdates)
           r == Tail(lackUpdates)
<1>0. /\ UNCHANGED <<toTx, leadingAck, lossNotifications>>
      /\ lackUpdates # <<>> /\ rxLack' = l /\ lackUpdates' = r
      /\ lackUpdates \in Seq(Lack)
  BY OrderTypes DEF EgressLackUpdate, senderVars, wireVars
<1>1. Elements(lackUpdates) = {l} \cup Elements(r)
  BY <1>0, ElementsSplit
<1>2. InOrderOfIds(r) /\ \A x \in Elements(r) : l.id <= x.id
  BY <1>0, IdsTail DEF LackOrder
<1> HIDE DEF l, r
<1> QED
  BY <1>0, <1>1, <1>2 DEF LackOrder, Follows

\* Without the race the notification leaves before any later update.
LEMMA EgressLossNotificationOrderly ==
    ASSUME TypeOK, LackOrder, ~CrossPortRace, EgressLossNotification,
           UNCHANGED senderVars
    PROVE  LackOrder'
<1> DEFINE x == Head(lossNotifications)
           m == LossMessage(x)
           r == Tail(lossNotifications)
<1>0. /\ UNCHANGED <<leadingAck, lackUpdates>>
      /\ lossNotifications # <<>> /\ toTx' = Append(toTx, m)
      /\ lossNotifications' = r /\ lackNotifyCount' = 0
      /\ toTx \in Seq(AckMessage)
      /\ lossNotifications \in Seq(Notification)
  BY OrderTypes
     DEF EgressLossNotification, SilencedLackCount, senderVars
<1>1. Elements(lossNotifications) = {x} \cup Elements(r)
  BY <1>0, ElementsSplit
<1>2. InOrderOfLacks(r) /\ \A y \in Elements(r) : x.lack.id <= y.lack.id
  BY <1>0, LacksTail DEF LackOrder
<1>3. m.lack = x.lack
  BY DEF LossMessage
<1>4. \A l \in Elements(lackUpdates) : x.lack.id <= l.id
  <2>1. \A i \in DOMAIN lackUpdates : lackUpdates[i].id > x.lack.id
    BY DEF EgressLossNotification
  <2>2. x.lack.id \in Int /\ \A l \in Elements(lackUpdates) : l.id \in Int
    BY <1>1, OrderTypes
  <2>3. \A l \in Elements(lackUpdates) : l.id > x.lack.id
    BY <2>1 DEF Elements
  <2> HIDE DEF x
  <2> QED
    BY <2>2, <2>3
<1> HIDE DEF x, m, r
<1>5. Follows(x.lack.id)
  BY <1>1 DEF LackOrder
<1>6. InOrderOfLacks(toTx') /\ Elements(toTx') = Elements(toTx) \cup {m}
  <2>1. \A y \in Elements(toTx) : y.lack.id <= m.lack.id
    BY <1>3, <1>5 DEF Follows
  <2> QED
    BY <1>0, <2>1, LacksAppend DEF LackOrder
<1> QED
  BY <1>0, <1>1, <1>2, <1>3, <1>4, <1>5, <1>6 DEF LackOrder, Follows

\* A LACK goes from the register to the wire.
LEMMA EgressLackOrderly ==
    ASSUME TypeOK, LackOrder, EgressLack, UNCHANGED senderVars
    PROVE  LackOrder'
<1> DEFINE m == LackMessage(rxLack)
<1>0. /\ UNCHANGED <<leadingAck, lackUpdates, rxLack, lossNotifications>>
      /\ lossNotifications = <<>> /\ toTx' = Append(toTx, m)
      /\ lackNotifyCount > 0 /\ toTx \in Seq(AckMessage)
      /\ rxLack.id \in Int
  BY OrderTypes DEF EgressLack, senderVars, queueVars
<1>1. m.lack = rxLack
  BY DEF LackMessage
<1>2. Elements(lossNotifications) = {}
  BY <1>0 DEF Elements
<1> HIDE DEF m
<1>3. /\ Follows(rxLack.id)
      /\ \A l \in Elements(lackUpdates) : rxLack.id <= l.id
  BY <1>0 DEF LackOrder
<1>4. InOrderOfLacks(toTx') /\ Elements(toTx') = Elements(toTx) \cup {m}
  <2>1. \A y \in Elements(toTx) : y.lack.id <= m.lack.id
    BY <1>1, <1>3 DEF Follows
  <2> QED
    BY <1>0, <2>1, LacksAppend DEF LackOrder
<1> QED
  BY <1>0, <1>1, <1>2, <1>3, <1>4 DEF LackOrder, Follows

\* The record moves only when a LACK arrives, and then forward.
LEMMA LackOrderStep ==
    ASSUME TypeOK, HeadersFaithful, OrderInv, LackOrder, ~CrossPortRace,
           [Next]_vars
    PROVE  LackOrder' /\ leadingAck.id <= leadingAck'.id
<1>0. leadingAck.id \in Int
  BY OrderTypes
<1>1. CASE RecordLeadingAck /\ UNCHANGED receiverVars
  BY <1>1, RecordLackOrderly
<1>2. CASE ReceivePacket /\ UNCHANGED senderVars
  BY <1>0, <1>2, ReceivePacketOrderly DEF senderVars
<1>3. CASE EgressLackUpdate /\ UNCHANGED senderVars
  BY <1>0, <1>3, EgressLackUpdateOrderly DEF senderVars
<1>4. CASE EgressLossNotification /\ UNCHANGED senderVars
  BY <1>0, <1>4, EgressLossNotificationOrderly DEF senderVars
<1>5. CASE EgressLack /\ UNCHANGED senderVars
  BY <1>0, <1>5, EgressLackOrderly DEF senderVars
<1>6. CASE UNCHANGED <<toTx, leadingAck, lossNotifications, lackUpdates,
                       rxLack, lackNotifyCount>>
  BY <1>0, <1>6, LackOrderFrame
<1>7. CASE /\ \/ \E pkt \in rxBuffer : ReprocessBuffered(pkt)
              \/ TimerPacket
           /\ UNCHANGED senderVars
  BY <1>6, <1>7
     DEF ReprocessBuffered, TimerPacket, queueVars, egressVars, wireVars,
         senderVars
<1>8. CASE /\ \/ SendNormal \/ SendDummy
              \/ \E c \in txBuffer : ProcessBuffered(c)
           /\ UNCHANGED receiverVars
  BY <1>6, <1>8 DEF SendNormal, SendDummy, ProcessBuffered, receiverVars
<1>9. CASE UNCHANGED vars
  BY <1>6, <1>9 DEF vars, wireVars, senderVars, receiverVars
<1> QED
  BY <1>1, <1>2, <1>3, <1>4, <1>5, <1>7, <1>8, <1>9
     DEF Next, SenderNext, ReceiverNext

\* The comparison agrees.
LEMMA RecordCompared ==
    ASSUME TypeOK, TypeOK', HeadersFaithful, HeadersFaithful', OrderInv,
           OrderInv', leadingAck.id <= leadingAck'.id, [Next]_vars
    PROVE  AtOrBefore(leadingAck.seq, leadingAck.era,
                      leadingAck'.seq, leadingAck'.era)
<1>1. /\ leadingAck.id \in Int /\ leadingAck.id <= sent
      /\ sent - leadingAck.id <= HalfRange /\ sent \in Nat
  BY OrderTypes, Window DEF OrderInv, NearInv, Near
<1>2. leadingAck' \in Lack /\ leadingAck'.id \in Int
  BY DEF TypeOK, SenderTypeOK, Lack
<1>3. leadingAck'.id <= sent
  <2>1. CASE leadingAck' = leadingAck
    BY <1>1, <2>1
  <2>2. CASE RecordLeadingAck
    <3>1. Head(toTx) \in Elements(toTx) /\ leadingAck' = Head(toTx).lack
      BY <2>2, OrderTypes, ElementsHeadTail DEF RecordLeadingAck
    <3>2. Seen(leadingAck') /\ expectedId <= sent /\ expectedId \in Nat
      BY <3>1, OrderTypes DEF OrderInv, PastInv, ArrivalsInv
    <3> QED
      BY <1>1, <1>2, <3>2 DEF Seen
  <2> QED
    BY <2>1, <2>2
       DEF Next, SenderNext, SendNormal, SendDummy, ProcessBuffered, senderVars,
           vars
<1>4. /\ leadingAck.id - leadingAck'.id <= HalfRange
      /\ leadingAck'.id - leadingAck.id <= HalfRange
  BY <1>1, <1>2, <1>3, SeqNumbers
<1>5. /\ leadingAck.seq = SeqOf(leadingAck.id)
      /\ leadingAck.era = EraOf(leadingAck.id)
  BY DEF HeadersFaithful, Numbered
<1>6. /\ leadingAck'.seq = SeqOf(leadingAck'.id)
      /\ leadingAck'.era = EraOf(leadingAck'.id)
  BY DEF HeadersFaithful, Numbered
<1> QED
  BY <1>1, <1>2, <1>4, <1>5, <1>6, EraComparison

(***************************************************************************)
(* The LACK the sender has recorded never goes back, although couriers     *)
(* keep sending the register while notifications carry LACKs of their own, *)
(* if the two mirror sessions deliver in the order they were fed: with     *)
(* CrossPortRace a late update re-arms the register with an older LACK.    *)
(***************************************************************************)
THEOREM LacksNeverGoBack ==
    ASSUME ~CrossPortRace
    PROVE  Spec => LackNeverRegresses
<1>1. TypeOK /\ HeadersFaithful /\ OrderInv /\ LackOrder /\ [Next]_vars
        => LackOrder'
  BY LackOrderStep
<1>2. TypeOK /\ TypeOK' /\ HeadersFaithful /\ HeadersFaithful' /\ OrderInv
        /\ OrderInv' /\ LackOrder /\ [Next]_vars
        => [AtOrBefore(leadingAck.seq, leadingAck.era,
                       leadingAck'.seq, leadingAck'.era)]_vars
  BY LackOrderStep, RecordCompared
<1> QED
  BY LackOrderInit, TypeCorrect, HeadersAreFaithful, LinkIsOrdered,
     <1>1, <1>2, PTL DEF Spec, LackNeverRegresses

-----------------------------------------------------------------------------
(***************************************************************************)
(* What becomes of a packet.                                               *)
(***************************************************************************)
\* One more packet handed on.
LEMMA OneMoreDelivery ==
    ASSUME delivered \in Seq(Nat), NEW x \in Nat,
           delivered' = Append(delivered, x), NEW n
    PROVE  /\ Deliveries(n) \in Nat
           /\ Deliveries(n)' = IF n = x THEN Deliveries(n) + 1 ELSE Deliveries(n)
<1> DEFINE d == delivered
           r == Append(delivered, x)
           S == {i \in DOMAIN d : d[i] = n}
           T == {i \in DOMAIN r : r[i] = n}
<1>1. /\ Len(d) \in Nat /\ DOMAIN d = 1 .. Len(d)
      /\ DOMAIN r = 1 .. Len(d) + 1 /\ r[Len(d) + 1] = x
      /\ \A i \in 1 .. Len(d) : r[i] = d[i]
  BY AppendPlaces
<1> HIDE DEF r
<1>2. IsFiniteSet(S)
  <2>1. IsFiniteSet(1 .. Len(d))
    BY <1>1, FS_Interval
  <2>2. S \in SUBSET (1 .. Len(d))
    BY <1>1
  <2> QED
    BY <2>1, <2>2, FS_Subset
<1>3. Cardinality(S) \in Nat
  BY <1>2, FS_CardinalityType
<1>4. Len(d) + 1 \notin S
  BY <1>1
<1>5. T = IF n = x THEN S \cup {Len(d) + 1} ELSE S
  <2>1. \A i \in 1 .. Len(d) + 1 : i \in 1 .. Len(d) \/ i = Len(d) + 1
    BY <1>1
  <2>2. 1 .. Len(d) \subseteq 1 .. Len(d) + 1
    BY <1>1
  <2>3. Len(d) + 1 \in 1 .. Len(d) + 1
    BY <1>1
  <2> QED
    BY <1>1, <2>1, <2>2, <2>3
<1>6. Cardinality(T) =
        IF n = x THEN Cardinality(S) + 1 ELSE Cardinality(S)
  BY <1>2, <1>4, <1>5, FS_AddElement
<1>7. Deliveries(n) = Cardinality(S) /\ Deliveries(n)' = Cardinality(T)
  BY DEF Deliveries, r
<1> QED
  BY <1>3, <1>6, <1>7

\* The count of a packet's deliveries, when nothing is delivered.
LEMMA DeliveriesFrame ==
    ASSUME UNCHANGED delivered, NEW n
    PROVE  Deliveries(n)' = Deliveries(n)
BY DEF Deliveries

\* A packet's deliveries can be counted.
LEMMA DeliveriesType ==
    ASSUME delivered \in Seq(Nat), NEW n
    PROVE  Deliveries(n) \in Nat
<1>1. IsFiniteSet(1 .. Len(delivered)) /\ DOMAIN delivered = 1 .. Len(delivered)
  BY FS_Interval
<1>2. {i \in DOMAIN delivered : delivered[i] = n} \in SUBSET (1 .. Len(delivered))
  BY <1>1
<1>3. IsFiniteSet({i \in DOMAIN delivered : delivered[i] = n})
  BY <1>1, <1>2, FS_Subset
<1> QED
  BY <1>3, FS_CardinalityType DEF Deliveries

-----------------------------------------------------------------------------
(***************************************************************************)
(* The invariant.  WireInv: a retransmission on the wire is of a lost      *)
(* packet, its copies come in the order of their numbers and none is there *)
(* while the lost packet still has a buffered copy.  DeliveredInv: a       *)
(* packet was handed on at most as often as the number of its next copy on *)
(* the wire allows.                                                        *)
(***************************************************************************)
WireInv ==
    /\ \A p \in Elements(toRx) : p.copy > 0 => p.id \in lost /\ ~p.dummy
    /\ \A i, j \in DOMAIN toRx :
        i < j /\ ~toRx[i].dummy /\ ~toRx[j].dummy /\ toRx[i].id = toRx[j].id
            => toRx[i].copy < toRx[j].copy
    /\ \A n \in lost \cap BufferedIds, p \in Elements(toRx) :
        p.dummy \/ p.id # n

Earlier(p) == IF p.copy = 0 THEN 0 ELSE p.copy - 1

MostCopies(n) == IF n \in lost THEN RetxCopies ELSE 1

DeliveredInv ==
    /\ \A p \in Elements(toRx) : ~p.dummy => Deliveries(p.id) <= Earlier(p)
    /\ \A n \in Nat : Deliveries(n) <= MostCopies(n)
    /\ \A n \in Nat : n >= sent \/ n \in lost \cap BufferedIds
                        => Deliveries(n) = 0

DuplicateInv == WireInv /\ DeliveredInv

\* Nothing was delivered.
LEMMA DuplicateInit == Init => DuplicateInv
<1> SUFFICES ASSUME Init PROVE DuplicateInv
  OBVIOUS
<1>1. toRx = <<>> /\ delivered = <<>> /\ lost = {}
  BY DEF Init, WiresInit, SenderInit, ReceiverInit
<1>2. \A n : Deliveries(n) = 0
  <2>1. \A n : {i \in DOMAIN delivered : delivered[i] = n} = {}
    BY <1>1
  <2> QED
    BY <2>1, FS_EmptySet DEF Deliveries
<1>3. WireInv
  BY <1>1 DEF WireInv, Elements
<1>4. DeliveredInv
  BY <1>1, <1>2, WiresAssumption DEF DeliveredInv, MostCopies, Elements
<1> QED
  BY <1>3, <1>4 DEF DuplicateInv

\* Steps that send, lose and deliver nothing.
LEMMA DuplicateFrame ==
    ASSUME DuplicateInv,
           UNCHANGED <<toRx, lost, txBuffer, delivered, sent>>
    PROVE  DuplicateInv'
<1>1. BufferedIds' = BufferedIds /\ \A n : Deliveries(n)' = Deliveries(n)
  BY DEF BufferedIds, Deliveries
<1>2. WireInv'
  BY <1>1 DEF DuplicateInv, WireInv
<1>3. DeliveredInv'
  BY <1>1 DEF DuplicateInv, DeliveredInv, MostCopies, Deliveries
<1> QED
  BY <1>2, <1>3 DEF DuplicateInv

\* What is on the wire was sent.
LEMMA OnWireIsSent ==
    ASSUME TypeOK, OrderInv, NEW p \in Elements(toRx), ~p.dummy
    PROVE  p.id < sent
<1>1. /\ p \in Packet /\ p.id \in Nat /\ sent \in Nat /\ expectedId \in Nat
      /\ expectedId <= sent
  BY OrderTypes DEF OrderInv, ArrivalsInv
<1>2. CASE p.copy = 0
  <2>1. After(p) <= sent
    BY <1>2, FirstsOnWire
  <2> QED
    BY <1>1, <2>1 DEF After
<1>3. CASE p.copy > 0
  BY <1>1, <1>3 DEF OrderInv, PastInv
<1> QED
  BY <1>1, <1>2, <1>3, WiresAssumption DEF Packet

\* A new packet was never delivered.
LEMMA SendNormalDuplicates ==
    ASSUME TypeOK, OrderInv, UnseenInv, DuplicateInv, SendNormal,
           UNCHANGED receiverVars
    PROVE  DuplicateInv'
<1> DEFINE pkt == DataHeader(FALSE)
           r == Append(toRx, pkt)
<1>0. /\ sent \in Nat /\ sent' = sent + 1 /\ lost \subseteq Nat
      /\ toRx \in Seq(Packet) /\ delivered' = delivered
      /\ delivered \in Seq(Nat)
  BY OrderTypes
     DEF SendNormal, receiverVars, TypeOK, SenderTypeOK, ReceiverTypeOK
<1>1. pkt \in Packet /\ pkt.id = sent /\ pkt.copy = 0 /\ ~pkt.dummy
  BY <1>0, WiresAssumption DEF DataHeader, TypeOK, SenderTypeOK, Packet
<1>2. BufferedIds' = BufferedIds \cup {sent}
  <2> DEFINE b == BufferedCopy
  <2>1. txBuffer' = txBuffer \cup {b} /\ b.id = sent
    BY DEF SendNormal, BufferedCopy
  <2> HIDE DEF b
  <2> QED
    BY <2>1 DEF BufferedIds
<1>3. \/ toRx' = r /\ lost' = lost
      \/ toRx' = toRx /\ lost' = lost \cup {sent}
  BY DEF SendNormal, Arrives, Corrupted
<1> HIDE DEF pkt
<1>4. /\ Len(toRx) \in Nat /\ DOMAIN toRx = 1 .. Len(toRx)
      /\ DOMAIN r = 1 .. Len(toRx) + 1 /\ r[Len(toRx) + 1] = pkt
      /\ \A i \in 1 .. Len(toRx) : r[i] = toRx[i]
  BY <1>0, AppendPlaces
<1> HIDE DEF r
<1>5. Elements(r) = Elements(toRx) \cup {pkt}
  BY <1>0, <1>1, ElementsAppend DEF r
<1>6. \A p \in Elements(toRx) : ~p.dummy => p.id < sent /\ p.id \in Nat
  BY OnWireIsSent, OrderTypes
<1>7. sent \notin lost
  <2>1. \A n \in lost : n < sent
    BY DEF UnseenInv
  <2> QED
    BY <1>0, <2>1
<1>8. \A n : Deliveries(n)' = Deliveries(n)
  BY <1>0 DEF Deliveries
<1>9. Deliveries(sent) = 0
  BY <1>0 DEF DuplicateInv, DeliveredInv
<1>10. CASE toRx' = r /\ lost' = lost
  <2>1. WireInv'
    <3>1. \A p \in Elements(r) : p.copy > 0 => p.id \in lost /\ ~p.dummy
      BY <1>1, <1>5 DEF DuplicateInv, WireInv
    <3>2. ASSUME NEW i \in DOMAIN r, NEW j \in DOMAIN r, i < j,
                 ~r[i].dummy, ~r[j].dummy, r[i].id = r[j].id
          PROVE  r[i].copy < r[j].copy
      <4>1. i \in DOMAIN toRx /\ r[i] = toRx[i]
        BY <1>4, <3>2
      <4>2. CASE j \in DOMAIN toRx
        BY <1>4, <3>2, <4>1, <4>2 DEF DuplicateInv, WireInv
      <4>3. CASE j = Len(toRx) + 1
        <5>1. r[i].id < sent /\ r[i].id \in Nat
          BY <1>6, <3>2, <4>1 DEF Elements
        <5> QED
          BY <1>0, <1>1, <1>4, <3>2, <4>3, <5>1
      <4> QED
        BY <1>4, <4>2, <4>3
    <3>3. ASSUME NEW n \in lost, n \in BufferedIds', NEW p \in Elements(r)
          PROVE  p.dummy \/ p.id # n
      <4>1. n \in BufferedIds /\ n # sent
        BY <1>2, <1>7, <3>3
      <4> QED
        BY <1>1, <1>5, <3>3, <4>1 DEF DuplicateInv, WireInv
    <3> QED
      BY <1>10, <3>1, <3>2, <3>3 DEF WireInv
  <2>2. DeliveredInv'
    <3>1. \A p \in Elements(r) : ~p.dummy => Deliveries(p.id) <= Earlier(p)
      <4>1. Deliveries(pkt.id) <= Earlier(pkt)
        BY <1>1, <1>9 DEF Earlier
      <4> QED
        BY <1>5, <4>1 DEF DuplicateInv, DeliveredInv
    <3>2. \A n \in Nat : n >= sent + 1 \/ n \in lost \cap BufferedIds'
                            => Deliveries(n) = 0
      BY <1>0, <1>2, <1>9 DEF DuplicateInv, DeliveredInv
    <3> QED
      BY <1>0, <1>8, <1>10, <3>1, <3>2
         DEF DuplicateInv, DeliveredInv, MostCopies
  <2> QED
    BY <2>1, <2>2 DEF DuplicateInv
<1>11. CASE toRx' = toRx /\ lost' = lost \cup {sent}
  <2>1. WireInv'
    <3>1. ASSUME NEW n \in lost', n \in BufferedIds', NEW p \in Elements(toRx)
          PROVE  p.dummy \/ p.id # n
      <4>1. CASE n = sent
        BY <1>0, <1>6, <4>1
      <4>2. CASE n \in lost /\ n # sent
        BY <1>2, <3>1, <4>2 DEF DuplicateInv, WireInv
      <4> QED
        BY <1>11, <3>1, <4>1, <4>2
    <3> QED
      BY <1>11, <3>1 DEF DuplicateInv, WireInv
  <2>2. DeliveredInv'
    <3>1. \A n \in Nat : Deliveries(n) <= IF n \in lost' THEN RetxCopies ELSE 1
      BY <1>9, <1>11, WiresAssumption
         DEF DuplicateInv, DeliveredInv, MostCopies
    <3>2. \A n \in Nat : n >= sent + 1 \/ n \in lost' \cap BufferedIds'
                            => Deliveries(n) = 0
      BY <1>0, <1>2, <1>9, <1>11 DEF DuplicateInv, DeliveredInv
    <3> QED
      BY <1>0, <1>8, <1>11, <3>1, <3>2
         DEF DuplicateInv, DeliveredInv, MostCopies
  <2> QED
    BY <2>1, <2>2 DEF DuplicateInv
<1> QED
  BY <1>3, <1>10, <1>11

\* A dummy packet is not delivered.
LEMMA SendDummyDuplicates ==
    ASSUME TypeOK, DuplicateInv, SendDummy, UNCHANGED receiverVars
    PROVE  DuplicateInv'
<1> DEFINE pkt == DataHeader(TRUE)
           r == Append(toRx, pkt)
<1>0. /\ UNCHANGED <<sent, lost, txBuffer, delivered>>
      /\ toRx \in Seq(Packet) /\ sent \in Nat
  BY OrderTypes DEF SendDummy, receiverVars
<1>1. pkt \in Packet /\ pkt.copy = 0 /\ pkt.dummy
  BY <1>0, WiresAssumption DEF DataHeader, TypeOK, SenderTypeOK, Packet
<1>2. toRx' = r \/ toRx' = toRx
  BY DEF SendDummy, Arrives, Corrupted
<1>3. CASE toRx' = toRx
  BY <1>0, <1>3, DuplicateFrame
<1>4. CASE toRx' = r
  <2> HIDE DEF pkt
  <2>1. /\ Len(toRx) \in Nat /\ DOMAIN toRx = 1 .. Len(toRx)
        /\ DOMAIN r = 1 .. Len(toRx) + 1 /\ r[Len(toRx) + 1] = pkt
        /\ \A i \in 1 .. Len(toRx) : r[i] = toRx[i]
    BY <1>0, AppendPlaces
  <2> HIDE DEF r
  <2>2. Elements(r) = Elements(toRx) \cup {pkt}
    BY <1>0, <1>1, ElementsAppend DEF r
  <2>3. BufferedIds' = BufferedIds /\ \A n : Deliveries(n)' = Deliveries(n)
    BY <1>0 DEF BufferedIds, Deliveries
  <2>4. \A i \in DOMAIN r : ~r[i].dummy => i \in DOMAIN toRx /\ r[i] = toRx[i]
    BY <1>1, <2>1
  <2>5. WireInv'
    BY <1>0, <1>1, <1>4, <2>2, <2>3, <2>4 DEF DuplicateInv, WireInv
  <2>6. DeliveredInv'
    BY <1>0, <1>1, <1>4, <2>2, <2>3
       DEF DuplicateInv, DeliveredInv, MostCopies
  <2> QED
    BY <2>5, <2>6 DEF DuplicateInv
<1> QED
  BY <1>2, <1>3, <1>4

\* The copies of a retransmission, with their numbers.
LEMMA CopyNumbers ==
    ASSUME NEW q \in Seq(Packet), NEW pkt \in Packet, NEW n \in 0 .. RetxCopies
    PROVE  LET r == q \o [i \in 1 .. n |-> [pkt EXCEPT !.copy = i]]
           IN  \A i \in DOMAIN r \ DOMAIN q : r[i].copy = i - Len(q)
<1> DEFINE e(i) == [pkt EXCEPT !.copy = i]
           copies == [i \in 1 .. n |-> e(i)]
           r == q \o copies
<1>0. n \in Nat /\ 1 .. n \subseteq 1 .. RetxCopies
  BY WiresAssumption
<1>1. \A i \in 1 .. n : e(i).copy = i /\ e(i) \in Packet
  <2> SUFFICES ASSUME NEW i \in 1 .. n
               PROVE  e(i).copy = i /\ e(i) \in Packet
    OBVIOUS
  <2>1. i \in 1 .. RetxCopies
    BY <1>0
  <2>2. e(i) \in Packet
    BY <2>1, CopyFields
  <2>3. e(i).copy = i
    BY DEF Packet
  <2> QED
    BY <2>2, <2>3
<1> HIDE DEF e
<1>2. /\ copies \in Seq(Packet) /\ Len(copies) = n
      /\ \A i \in 1 .. n : copies[i].copy = i
  BY <1>0, <1>1
<1> HIDE DEF copies
<1>3. \A i \in DOMAIN r \ DOMAIN q :
        i - Len(q) \in 1 .. n /\ r[i] = copies[i - Len(q)]
  BY <1>0, <1>2
<1>4. \A i \in DOMAIN r \ DOMAIN q : r[i].copy = i - Len(q)
  BY <1>2, <1>3
<1> QED
  BY <1>4 DEF copies, e

\* A hole bit is set for lost packets only.
LEMMA HoleIsLost ==
    ASSUME TypeOK, HeadersFaithful, OrderInv, NoStaleHole, NEW c \in txBuffer,
           IsHole(c.seq)
    PROVE  c.id \in lost
<1>1. PICK d \in txBuffer : d.seq = c.seq /\ d.id \in lost
  BY DEF IsHole, NoStaleHole
<1> QED
  BY <1>1, BufferedApart

\* Copies are sent of a lost packet, and numbered.
LEMMA ProcessBufferedDuplicates ==
    ASSUME TypeOK, HeadersFaithful, OrderInv, NoStaleHole, DuplicateInv,
           NEW c \in txBuffer, ProcessBuffered(c), UNCHANGED receiverVars
    PROVE  DuplicateInv'
<1> DEFINE pkt == Retransmission(c)
<1>0. /\ UNCHANGED <<sent, lost, delivered>> /\ txBuffer' = txBuffer \ {c}
      /\ toRx \in Seq(Packet) /\ Len(toRx) \in Nat
      /\ DOMAIN toRx = 1 .. Len(toRx) /\ c.id \in Nat
  BY OrderTypes DEF ProcessBuffered, receiverVars
<1>1. \A n : Deliveries(n)' = Deliveries(n)
  BY <1>0 DEF Deliveries
<1>2. BufferedIds' \subseteq BufferedIds
  BY <1>0 DEF BufferedIds
<1>3. c.id \notin BufferedIds'
  <2> SUFFICES ASSUME NEW d \in txBuffer, d # c, d.id = c.id PROVE FALSE
    BY <1>0 DEF BufferedIds
  <2>1. Numbered(c) /\ Numbered(d) /\ c \in Copy /\ d \in Copy
    BY OrderTypes DEF HeadersFaithful
  <2>2. c.seq = d.seq /\ c.era = d.era
    BY <2>1 DEF Numbered
  <2> QED
    BY <2>1, <2>2 DEF Copy
<1>4. pkt \in Packet /\ pkt.id = c.id /\ ~pkt.dummy
  BY WiresAssumption DEF Retransmission, TypeOK, SenderTypeOK, Copy, Packet
<1>5. \/ toRx' = toRx
      \/ IsHole(c.seq) /\ \E n \in 0 .. RetxCopies : CopiesLeave(pkt, n)
  BY DEF ProcessBuffered
<1> HIDE DEF pkt
<1>6. CASE toRx' = toRx
  <2>1. WireInv' /\ DeliveredInv'
    BY <1>0, <1>1, <1>2, <1>6
       DEF DuplicateInv, WireInv, DeliveredInv, MostCopies
  <2> QED
    BY <2>1 DEF DuplicateInv
<1>7. ASSUME IsHole(c.seq), NEW n \in 0 .. RetxCopies, CopiesLeave(pkt, n)
      PROVE  DuplicateInv'
  <2> DEFINE r == toRx'
  <2>1. c.id \in lost /\ c.id \in BufferedIds
    BY <1>7, HoleIsLost DEF BufferedIds
  <2>2. /\ Deliveries(c.id) = 0
        /\ \A p \in Elements(toRx) : p.dummy \/ p.id # c.id
    BY <1>0, <2>1 DEF DuplicateInv, WireInv, DeliveredInv
  <2>3. /\ DOMAIN r = 1 .. Len(toRx) + n
        /\ \A i \in DOMAIN toRx : r[i] = toRx[i]
        /\ \A i \in DOMAIN r \ DOMAIN toRx :
                /\ r[i].copy > 0 /\ r[i].id = c.id /\ ~r[i].dummy
                /\ r[i].copy = i - Len(toRx)
    <3>1. r = toRx \o [i \in 1 .. n |-> [pkt EXCEPT !.copy = i]]
      BY <1>7 DEF CopiesLeave
    <3> HIDE DEF r
    <3>2. \A i \in DOMAIN r \ DOMAIN toRx : r[i].copy = i - Len(toRx)
      BY <1>0, <1>4, <3>1, CopyNumbers
    <3>3. /\ DOMAIN r = 1 .. Len(toRx) + n
          /\ \A i \in 1 .. Len(toRx) : r[i] = toRx[i]
          /\ \A i \in DOMAIN r \ DOMAIN toRx :
                r[i].copy > 0 /\ r[i].id = c.id /\ ~r[i].dummy
      BY <1>0, <1>4, <3>1, CopiesOnWire
    <3> QED
      BY <1>0, <3>2, <3>3
  <2> HIDE DEF r
  <2>4. \A p \in Elements(r) :
            \/ p \in Elements(toRx)
            \/ p.copy > 0 /\ p.copy \in Int /\ p.id = c.id /\ ~p.dummy
    <3>1. \A i \in DOMAIN r \ DOMAIN toRx : r[i].copy \in Int
      BY <1>0, <2>3, WiresAssumption
    <3> QED
      BY <2>3, <3>1 DEF Elements
  <2>5. WireInv'
    <3>1. \A p \in Elements(r) : p.copy > 0 => p.id \in lost /\ ~p.dummy
      BY <2>1, <2>4 DEF DuplicateInv, WireInv
    <3>2. ASSUME NEW i \in DOMAIN r, NEW j \in DOMAIN r, i < j,
                 ~r[i].dummy, ~r[j].dummy, r[i].id = r[j].id
          PROVE  r[i].copy < r[j].copy
      <4>1. CASE i \in DOMAIN toRx /\ j \in DOMAIN toRx
        BY <2>3, <3>2, <4>1 DEF DuplicateInv, WireInv
      <4>2. CASE i \in DOMAIN toRx /\ j \notin DOMAIN toRx
        <5>1. r[i] \in Elements(toRx) /\ r[j].id = c.id
          BY <2>3, <4>2 DEF Elements
        <5> QED
          BY <2>2, <3>2, <5>1
      <4>3. CASE i \notin DOMAIN toRx
        <5>1. j \notin DOMAIN toRx /\ i \in Int /\ j \in Int
          BY <1>0, <2>3, <3>2, <4>3, WiresAssumption
        <5> QED
          BY <1>0, <2>3, <3>2, <4>3, <5>1
      <4> QED
        BY <4>1, <4>2, <4>3
    <3>3. \A x \in lost \cap BufferedIds', p \in Elements(r) :
                p.dummy \/ p.id # x
      BY <1>2, <1>3, <2>4 DEF DuplicateInv, WireInv
    <3> QED
      BY <1>0, <3>1, <3>2, <3>3 DEF WireInv, r
  <2>6. DeliveredInv'
    <3>1. \A p \in Elements(r) : ~p.dummy => Deliveries(p.id) <= Earlier(p)
      <4>1. ASSUME NEW p, p.copy > 0, p.copy \in Int, p.id = c.id
            PROVE  Deliveries(p.id) <= Earlier(p)
        BY <2>2, <4>1 DEF Earlier
      <4> QED
        BY <2>4, <4>1 DEF DuplicateInv, DeliveredInv
    <3>2. \A x \in Nat : x >= sent \/ x \in lost \cap BufferedIds'
                            => Deliveries(x) = 0
      BY <1>2 DEF DuplicateInv, DeliveredInv
    <3> QED
      BY <1>0, <1>1, <3>1, <3>2
         DEF DuplicateInv, DeliveredInv, MostCopies, r
  <2> QED
    BY <2>5, <2>6 DEF DuplicateInv
<1> QED
  BY <1>5, <1>6, <1>7

\* A packet is delivered once for each copy that arrives.
LEMMA ReceivePacketDuplicates ==
    ASSUME TypeOK, OrderInv, UnseenInv, DuplicateInv, ~BlockingMode,
           ReceivePacket, UNCHANGED senderVars
    PROVE  DuplicateInv'
<1> DEFINE pkt == Head(toRx)
           r == Tail(toRx)
<1>0. /\ UNCHANGED <<sent, lost, txBuffer>> /\ toRx # <<>> /\ toRx' = r
      /\ toRx \in Seq(Packet) /\ delivered \in Seq(Nat) /\ sent \in Nat
  BY OrderTypes DEF ReceivePacket, senderVars, TypeOK, ReceiverTypeOK
<1>1. /\ Len(toRx) \in Nat \ {0} /\ DOMAIN toRx = 1 .. Len(toRx)
      /\ toRx[1] = pkt /\ DOMAIN r = 1 .. Len(toRx) - 1
      /\ \A i \in 1 .. Len(toRx) - 1 : r[i] = toRx[i + 1]
  BY <1>0, TailPlaces
<1>2. Elements(toRx) = {pkt} \cup Elements(r)
  BY <1>0, ElementsSplit
<1>3. pkt \in Packet /\ pkt.id \in Nat /\ pkt.copy \in 0 .. RetxCopies
  BY <1>2, OrderTypes DEF Packet
<1>4. \/ pkt.dummy /\ delivered' = delivered
      \/ ~pkt.dummy /\ delivered' = Append(delivered, pkt.id)
  BY DEF ReceivePacket, Forward
<1>5. BufferedIds' = BufferedIds
  BY <1>0 DEF BufferedIds
<1> HIDE DEF pkt, r
<1>6. WireInv'
  <2>1. \A i \in DOMAIN r : i + 1 \in DOMAIN toRx /\ r[i] = toRx[i + 1]
                            /\ i \in Int
    BY <1>1
  <2>2. \A i, j \in DOMAIN r :
            i < j /\ ~r[i].dummy /\ ~r[j].dummy /\ r[i].id = r[j].id
                => r[i].copy < r[j].copy
    BY <2>1 DEF DuplicateInv, WireInv
  <2> QED
    BY <1>0, <1>2, <1>5, <2>2 DEF DuplicateInv, WireInv
<1>7. CASE pkt.dummy /\ delivered' = delivered
  <2>1. DeliveredInv'
    BY <1>0, <1>2, <1>5, <1>7
       DEF DuplicateInv, DeliveredInv, MostCopies, Deliveries
  <2> QED
    BY <1>6, <2>1 DEF DuplicateInv
<1>8. CASE ~pkt.dummy /\ delivered' = Append(delivered, pkt.id)
  <2>1. \A n : Deliveries(n)' =
                IF n = pkt.id THEN Deliveries(n) + 1 ELSE Deliveries(n)
    BY <1>0, <1>3, <1>8, OneMoreDelivery
  <2>2. Deliveries(pkt.id) \in Nat /\ Deliveries(pkt.id) <= Earlier(pkt)
    BY <1>0, <1>2, <1>8, DeliveriesType DEF DuplicateInv, DeliveredInv
  <2>3. /\ pkt.copy = 0 => pkt.id \notin lost
        /\ pkt.copy > 0 => pkt.id \in lost
    BY <1>2, <1>8 DEF UnseenInv, DuplicateInv, WireInv
  <2>4. ASSUME NEW p \in Elements(r), ~p.dummy, p.id = pkt.id
        PROVE  Deliveries(pkt.id) + 1 <= Earlier(p)
    <3>1. PICK j \in DOMAIN r : p = r[j]
      BY DEF Elements
    <3>2. /\ j + 1 \in DOMAIN toRx /\ 1 \in DOMAIN toRx /\ 1 < j + 1
          /\ p = toRx[j + 1]
      BY <1>1, <3>1
    <3>3. pkt.copy < p.copy
      BY <1>1, <1>8, <2>4, <3>2 DEF DuplicateInv, WireInv
    <3>4. p.copy \in 0 .. RetxCopies
      BY <1>2, <2>4, OrderTypes DEF Packet
    <3>5. p.id \in lost
      BY <1>2, <1>3, <2>4, <3>3, <3>4, WiresAssumption
         DEF DuplicateInv, WireInv
    <3>6. pkt.copy # 0
      BY <2>3, <2>4, <3>5
    <3> QED
      BY <1>3, <2>2, <3>3, <3>4, <3>6, WiresAssumption DEF Earlier
  <2>5. ASSUME NEW p \in Elements(r), ~p.dummy
        PROVE  Deliveries(p.id)' <= Earlier(p)
    <3>1. CASE p.id = pkt.id
      BY <2>1, <2>4, <2>5, <3>1
    <3>2. CASE p.id # pkt.id
      BY <1>2, <2>1, <2>5, <3>2 DEF DuplicateInv, DeliveredInv
    <3> QED
      BY <3>1, <3>2
  <2>6. \A n \in Nat : Deliveries(n)' <= MostCopies(n)
    <3>1. Deliveries(pkt.id) + 1 <= MostCopies(pkt.id)
      <4>1. CASE pkt.copy = 0
        BY <2>2, <2>3, <4>1 DEF Earlier, MostCopies
      <4>2. CASE pkt.copy > 0
        BY <1>3, <2>2, <2>3, <4>2, WiresAssumption DEF Earlier, MostCopies
      <4> QED
        BY <1>3, <4>1, <4>2, WiresAssumption
    <3> QED
      BY <2>1, <3>1 DEF DuplicateInv, DeliveredInv
  <2>7. \A n \in Nat : n >= sent \/ n \in lost \cap BufferedIds
                            => Deliveries(n)' = 0
    <3>1. pkt.id < sent /\ pkt.id \notin lost \cap BufferedIds
      BY <1>2, <1>8, OnWireIsSent DEF DuplicateInv, WireInv
    <3>2. \A n \in Nat : n >= sent \/ n \in lost \cap BufferedIds
                            => n # pkt.id
      BY <1>0, <1>3, <3>1
    <3> QED
      BY <2>1, <3>2 DEF DuplicateInv, DeliveredInv
  <2>8. DeliveredInv'
    BY <1>0, <1>5, <2>5, <2>6, <2>7 DEF DeliveredInv, MostCopies
  <2> QED
    BY <1>6, <2>8 DEF DuplicateInv
<1> QED
  BY <1>4, <1>7, <1>8

\* Without blocking mode no packet waits in the rx buffer.
LEMMA NothingWaits ==
    ASSUME ~BlockingMode, rxBuffer = {}, [Next]_vars
    PROVE  rxBuffer' = {}
<1>1. CASE UNCHANGED receiverVars
  BY <1>1 DEF receiverVars
<1>2. CASE ReceiverNext
  BY <1>2 DEF ReceiverNext, ReceivePacket, Forward, ForwardAtOnce,
              ReprocessBuffered, TimerPacket, EgressLackUpdate,
              EgressLossNotification, EgressLack, ingressVars, vars
<1>3. CASE UNCHANGED vars
  BY <1>3 DEF vars, receiverVars
<1> QED
  BY <1>1, <1>2, <1>3 DEF Next

\* Every step keeps deliveries bounded by the copies that arrived.
LEMMA DuplicateStep ==
    ASSUME TypeOK, HeadersFaithful, OrderInv, UnseenInv, ReportsInv,
           DuplicateInv, ~BlockingMode, rxBuffer = {}, 0 \notin LossyIds,
           [Next]_vars
    PROVE  DuplicateInv'
<1>1. CASE SendNormal /\ UNCHANGED receiverVars
  BY <1>1, SendNormalDuplicates
<1>2. CASE SendDummy /\ UNCHANGED receiverVars
  BY <1>2, SendDummyDuplicates
<1>3. CASE (\E c \in txBuffer : ProcessBuffered(c)) /\ UNCHANGED receiverVars
  BY <1>3, ProcessBufferedDuplicates DEF ReportsInv
<1>4. CASE ReceivePacket /\ UNCHANGED senderVars
  BY <1>4, ReceivePacketDuplicates
<1>5. CASE UNCHANGED <<toRx, lost, txBuffer, delivered, sent>>
  BY <1>5, DuplicateFrame
<1>6. CASE RecordLeadingAck /\ UNCHANGED receiverVars
  BY <1>5, <1>6 DEF RecordLeadingAck, receiverVars
<1>7. CASE /\ \/ TimerPacket \/ EgressLackUpdate \/ EgressLossNotification
              \/ EgressLack
           /\ UNCHANGED senderVars
  BY <1>5, <1>7
     DEF TimerPacket, EgressLackUpdate, EgressLossNotification, EgressLack,
         wireVars, senderVars
<1>8. CASE UNCHANGED vars
  BY <1>5, <1>8 DEF vars, wireVars, senderVars, receiverVars
<1>9. ~ \E pkt \in rxBuffer : ReprocessBuffered(pkt)
  OBVIOUS
<1> QED
  BY <1>1, <1>2, <1>3, <1>4, <1>6, <1>7, <1>8, <1>9
     DEF Next, SenderNext, ReceiverNext

(***************************************************************************)
(* In the mode without de-duplication, whatever is lost and in whatever    *)
(* order the sender and the receiver take their steps, a packet that was   *)
(* not lost is handed on once and a lost one at most as often as a         *)
(* retransmission has copies.  Packet 0, the one a pipe that boots may     *)
(* miss with the receiver none the wiser, is not lost.                     *)
(***************************************************************************)
THEOREM OnlyLostAreDuplicated ==
    ASSUME ~BlockingMode, 0 \notin LossyIds
    PROVE  Spec => []NoSpuriousDuplicate
<1>1. Init => rxBuffer = {} /\ DuplicateInv
  BY DuplicateInit DEF Init, ReceiverInit
<1>2. rxBuffer = {} /\ [Next]_vars => (rxBuffer = {})'
  BY NothingWaits
<1>3. TypeOK /\ HeadersFaithful /\ OrderInv /\ UnseenInv /\ [Next]_vars
        => UnseenInv'
  BY UnseenStep
<1>4. TypeOK /\ HeadersFaithful /\ OrderInv /\ UnseenInv /\ ReportsInv /\ [Next]_vars
        => ReportsInv'
  BY ReportsStep
<1>5. TypeOK /\ HeadersFaithful /\ OrderInv /\ UnseenInv /\ ReportsInv
        /\ rxBuffer = {} /\ DuplicateInv /\ [Next]_vars
        => DuplicateInv'
  BY DuplicateStep
<1>6. TypeOK /\ DuplicateInv => NoSpuriousDuplicate
  <2> SUFFICES ASSUME TypeOK, DuplicateInv, NEW n \in 0 .. sent - 1
               PROVE  Deliveries(n) <= MostCopies(n)
    BY DEF NoSpuriousDuplicate, MostCopies
  <2>1. n \in Nat
    BY OrderTypes
  <2> QED
    BY <2>1 DEF DuplicateInv, DeliveredInv
<1> QED
  BY UnseenInit, ReportsInit, TypeCorrect, HeadersAreFaithful, LinkIsOrdered,
     <1>1, <1>2, <1>3, <1>4, <1>5, <1>6, PTL DEF Spec

-----------------------------------------------------------------------------
(***************************************************************************)
(* Where a packet can be.  FateInv adds to NothingVanishes what makes it   *)
(* inductive: a packet is retransmitted once, when its copy leaves the     *)
(* buffer, so all its copies are corrupted only after its own corruption   *)
(* and RetxCopies more; and in blocking mode what the ack has passed came  *)
(* out or was given up on, so what is dropped behind it is a duplicate.    *)
(***************************************************************************)
CameOut(n)  == n \in Elements(delivered) \cup gaveUp
OnWire(n)   == \E p \in Elements(toRx) : ~p.dummy /\ p.id = n
InBuffer(n) == \E p \in rxBuffer : p.id = n
Excused(n)  == \/ n \in lost /\ ~Recoverable(n)
               \/ n \in retransmitted /\ MaxLoss - lossesLeft > RetxCopies

Accounted(n) == \/ CameOut(n) \/ OnWire(n) \/ InBuffer(n)
                \/ n \in lost \cap BufferedIds
                \/ Excused(n)

FateInv ==
    /\ \A n \in 0 .. sent - 1 : Accounted(n)
    /\ lost # {} => lossesLeft < MaxLoss
    /\ \A c \in txBuffer : c.id \notin retransmitted
    /\ \A n \in retransmitted : n < sent
    /\ BlockingMode => \A n \in 0 .. AckId - 1 : CameOut(n)

\* No packet is without a fate.
LEMMA FateIsNothingVanishes == FateInv => NothingVanishes
<1>1. ASSUME NEW n, OnWire(n) \/ InBuffer(n)
      PROVE  n \in {p.id : p \in {q \in Elements(toRx) : ~q.dummy} \cup rxBuffer}
  BY <1>1 DEF OnWire, InBuffer
<1> QED
  BY <1>1 DEF FateInv, NothingVanishes, Accounted, CameOut, Excused

\* Nothing was sent.
LEMMA FateInit == Init => FateInv
<1> SUFFICES ASSUME Init PROVE FateInv
  OBVIOUS
<1>1. AckId = 0
  BY FS_EmptySet DEF Init, ReceiverInit, AckId
<1> QED
  BY <1>1 DEF Init, WiresInit, SenderInit, ReceiverInit, FateInv

\* Losses are not forgiven, so what is excused stays so.
LEMMA ExcusedKept ==
    ASSUME TypeOK, NEW n, Excused(n), lost \subseteq lost',
           \A m \in lost' \ lost : m >= n,
           retransmitted \subseteq retransmitted',
           lossesLeft' \in Int, lossesLeft' <= lossesLeft, n \in Int
    PROVE  Excused(n)'
<1>1. CASE n \in lost /\ ~Recoverable(n)
  <2>1. ASSUME NEW k \in 1 .. NumHoles PROVE n - k \in lost'
    BY <1>1, SenderAssumption DEF Recoverable
  <2> QED
    BY <1>1, <2>1 DEF Excused, Recoverable
<1>2. CASE n \in retransmitted /\ MaxLoss - lossesLeft > RetxCopies
  <2>1. lossesLeft \in Int /\ MaxLoss \in Int /\ RetxCopies \in Int
    BY WiresAssumption DEF TypeOK, WiresTypeOK
  <2>2. ASSUME NEW a \in Int, NEW b \in Int, NEW m \in Int, NEW r \in Int,
               b <= a, m - a > r
        PROVE  m - b > r
    BY <2>2
  <2>3. MaxLoss - lossesLeft' > RetxCopies
    BY <1>2, <2>1, <2>2
  <2> QED
    BY <1>2, <2>3 DEF Excused
<1> QED
  BY <1>1, <1>2 DEF Excused

\* A step that takes nothing from the wires and buffers loses nothing.
LEMMA FateFrame ==
    ASSUME TypeOK, FateInv,
           UNCHANGED <<sent, lost, retransmitted, txBuffer, delivered, gaveUp,
                       rxBuffer>>,
           Elements(toRx) \subseteq Elements(toRx'),
           lossesLeft' \in Int, lossesLeft' <= lossesLeft
    PROVE  FateInv'
<1>1. ASSUME NEW n \in 0 .. sent - 1 PROVE Accounted(n)'
  <2>1. CASE Excused(n)
    BY <2>1, ExcusedKept DEF Accounted
  <2>2. OnWire(n) => OnWire(n)'
    BY DEF OnWire
  <2> QED
    BY <2>1, <2>2 DEF FateInv, Accounted, CameOut, InBuffer, BufferedIds
<1>2. AckId' = AckId
  BY DEF AckId
<1>3. lossesLeft \in Int /\ MaxLoss \in Int
  BY WiresAssumption DEF TypeOK, WiresTypeOK
<1> QED
  BY <1>1, <1>2, <1>3 DEF FateInv, CameOut

\* A new packet is buffered.
LEMMA SendNormalFate ==
    ASSUME TypeOK, OrderInv, UnseenInv, FateInv, SendNormal,
           UNCHANGED receiverVars
    PROVE  FateInv'
<1> DEFINE pkt == DataHeader(FALSE)
           b == BufferedCopy
<1>0. /\ UNCHANGED <<retransmitted, delivered, gaveUp, rxBuffer, AckId>>
      /\ sent \in Nat /\ sent' = sent + 1 /\ toRx \in Seq(Packet)
      /\ lossesLeft \in Int /\ MaxLoss \in Nat /\ lossesLeft \in 0 .. MaxLoss
  BY OrderTypes, WiresAssumption
     DEF SendNormal, receiverVars, blockingVars, AckId, TypeOK, WiresTypeOK
<1>1. pkt \in Packet /\ ~pkt.dummy /\ pkt.id = sent
  BY WiresAssumption DEF DataHeader, TypeOK, SenderTypeOK, Packet
<1>2. txBuffer' = txBuffer \cup {b} /\ b.id = sent
  BY DEF SendNormal, BufferedCopy
<1>3. \/ Arrives(pkt) /\ UNCHANGED lost
      \/ Corrupted(pkt) /\ lost' = lost \cup {sent}
  BY DEF SendNormal
<1> HIDE DEF pkt, b
<1>4. BufferedIds' = BufferedIds \cup {sent}
  BY <1>2 DEF BufferedIds
<1>5. /\ Elements(toRx) \subseteq Elements(toRx')
      /\ \/ pkt \in Elements(toRx') /\ UNCHANGED <<lost, lossesLeft>>
         \/ /\ lost' = lost \cup {sent} /\ lossesLeft > 0
            /\ lossesLeft' = lossesLeft - 1
  <2>1. CASE Arrives(pkt) /\ UNCHANGED lost
    BY <1>0, <1>1, <2>1, ElementsAppend DEF Arrives
  <2>2. CASE Corrupted(pkt) /\ lost' = lost \cup {sent}
    BY <2>2 DEF Corrupted
  <2> QED
    BY <1>3, <2>1, <2>2
<1>6. ASSUME NEW n \in 0 .. sent PROVE Accounted(n)'
  <2>1. CASE n = sent
    BY <1>1, <1>4, <1>5, <2>1 DEF Accounted, OnWire
  <2>2. CASE n \in 0 .. sent - 1
    <3>1. CASE Excused(n)
      BY <1>0, <1>5, <2>2, <3>1, ExcusedKept DEF Accounted
    <3>2. (OnWire(n) => OnWire(n)') /\ (CameOut(n) => CameOut(n)')
          /\ (InBuffer(n) => InBuffer(n)')
      BY <1>0, <1>5 DEF OnWire, CameOut, InBuffer
    <3> QED
      BY <1>4, <1>5, <2>2, <3>1, <3>2 DEF FateInv, Accounted
  <2> QED
    BY <1>0, <2>1, <2>2
<1>7. \A n \in 0 .. sent' - 1 : Accounted(n)'
  BY <1>0, <1>6
<1>8. lost' # {} => lossesLeft' < MaxLoss
  BY <1>0, <1>5 DEF FateInv
<1>9. /\ \A c \in txBuffer' : c.id \notin retransmitted'
      /\ \A n \in retransmitted' : n < sent'
  <2>1. retransmitted \subseteq Nat /\ sent \notin retransmitted
    BY <1>0 DEF FateInv, TypeOK, SenderTypeOK
  <2> QED
    BY <1>0, <1>2, <2>1 DEF FateInv
<1>10. BlockingMode => \A n \in 0 .. AckId' - 1 : CameOut(n)'
  BY <1>0 DEF FateInv, CameOut
<1> QED
  BY <1>7, <1>8, <1>9, <1>10 DEF FateInv

\* A dummy packet decides no packet's fate.
LEMMA SendDummyFate ==
    ASSUME TypeOK, FateInv, SendDummy, UNCHANGED receiverVars
    PROVE  FateInv'
<1> DEFINE pkt == DataHeader(TRUE)
<1>0. /\ UNCHANGED <<sent, lost, retransmitted, txBuffer, delivered, gaveUp,
                     rxBuffer>>
      /\ toRx \in Seq(Packet) /\ lossesLeft \in Int
  BY OrderTypes DEF SendDummy, receiverVars, TypeOK, WiresTypeOK
<1>1. pkt \in Packet
  BY WiresAssumption DEF DataHeader, TypeOK, SenderTypeOK, Packet
<1>2. Arrives(pkt) \/ Corrupted(pkt)
  BY DEF SendDummy
<1> HIDE DEF pkt
<1>3. Elements(toRx) \subseteq Elements(toRx')
  <2>1. toRx' = Append(toRx, pkt) \/ toRx' = toRx
    BY <1>2 DEF Arrives, Corrupted
  <2>2. Elements(Append(toRx, pkt)) = Elements(toRx) \cup {pkt}
    BY <1>0, <1>1, ElementsAppend
  <2> QED
    BY <2>1, <2>2
<1>4. lossesLeft' \in Int /\ lossesLeft' <= lossesLeft
  BY <1>0, <1>2 DEF Arrives, Corrupted
<1> QED
  BY <1>0, <1>3, <1>4, FateFrame

\* A retransmission puts a copy on the wire or takes RetxCopies corruptions.
LEMMA RetransmissionArrives ==
    ASSUME TypeOK, NEW c \in txBuffer, ProcessBuffered(c), IsHole(c.seq)
    PROVE  \/ OnWire(c.id)' /\ lossesLeft' \in Int /\ lossesLeft' <= lossesLeft
           \/ /\ lossesLeft' \in Int /\ lossesLeft' = lossesLeft - RetxCopies
<1> DEFINE pkt == Retransmission(c)
<1>0. /\ toRx \in Seq(Packet) /\ lossesLeft \in Int /\ Len(toRx) \in Nat
      /\ RetxCopies \in Nat /\ DOMAIN toRx = 1 .. Len(toRx)
  BY WiresAssumption DEF TypeOK, WiresTypeOK
<1>1. pkt \in Packet /\ pkt.id = c.id /\ ~pkt.dummy
  BY WiresAssumption DEF Retransmission, TypeOK, SenderTypeOK, Copy, Packet
<1>2. PICK n \in 0 .. RetxCopies : CopiesLeave(pkt, n)
  BY DEF ProcessBuffered
<1> HIDE DEF pkt
<1>3. /\ toRx' = toRx \o [i \in 1 .. n |-> [pkt EXCEPT !.copy = i]]
      /\ lossesLeft' = lossesLeft - (RetxCopies - n) /\ n \in Nat
      /\ n <= RetxCopies
  BY <1>0, <1>2 DEF CopiesLeave
<1>4. lossesLeft' \in Int /\ lossesLeft' <= lossesLeft
  BY <1>0, <1>3
<1>5. CASE n = 0
  <2>1. RetxCopies - n = RetxCopies
    BY <1>0, <1>5
  <2> QED
    BY <1>3, <1>4, <2>1
<1>6. CASE n > 0
  <2> DEFINE i == Len(toRx) + 1
  <2>1. i \in DOMAIN toRx' \ DOMAIN toRx
    BY <1>0, <1>1, <1>2, <1>3, <1>6, CopiesOnWire
  <2>2. toRx'[i].id = pkt.id /\ toRx'[i].dummy = pkt.dummy
    BY <1>0, <1>1, <1>2, <1>3, <2>1, CopiesOnWire
  <2>3. toRx'[i] \in Elements(toRx')
    BY <2>1 DEF Elements
  <2> QED
    BY <1>1, <1>4, <2>2, <2>3 DEF OnWire
<1> QED
  BY <1>3, <1>5, <1>6

\* A copy leaves the buffer delivered, or as a retransmission.
LEMMA ProcessBufferedFate ==
    ASSUME TypeOK, HeadersFaithful, OrderInv, RecoveryInv, FateInv,
           RecoveryInv', NEW c \in txBuffer, ProcessBuffered(c),
           UNCHANGED receiverVars
    PROVE  FateInv'
<1>0. /\ UNCHANGED <<sent, lost, delivered, gaveUp, rxBuffer, AckId>>
      /\ txBuffer' = txBuffer \ {c} /\ c.id \in Nat /\ sent \in Nat
      /\ c.id < sent /\ lost \subseteq Nat
      /\ retransmitted' \subseteq retransmitted \cup {c.id}
      /\ retransmitted \subseteq retransmitted'
      /\ c.id \in retransmitted' => c.id \in retransmitted \/ IsHole(c.seq)
  BY OrderTypes
     DEF ProcessBuffered, receiverVars, AckId, OrderInv, PastInv, TypeOK,
         SenderTypeOK
<1>1. Elements(toRx) \subseteq Elements(toRx')
  BY RetransmittedOnWire
<1>2. /\ lossesLeft \in Int /\ MaxLoss \in Int /\ RetxCopies \in Nat
      /\ lossesLeft' \in Int /\ lossesLeft' <= lossesLeft
  <2>1. lossesLeft \in Int /\ MaxLoss \in Int /\ RetxCopies \in Nat
    BY WiresAssumption DEF TypeOK, WiresTypeOK
  <2>2. UNCHANGED lossesLeft \/ IsHole(c.seq)
    BY DEF ProcessBuffered
  <2> QED
    BY <2>1, <2>2, RetransmissionArrives
<1>3. BufferedIds \subseteq BufferedIds' \cup {c.id}
  BY <1>0 DEF BufferedIds
<1>4. ASSUME c.id \in lost, c.id \notin BufferedIds' PROVE Accounted(c.id)'
  <2>1. CASE ~Recoverable(c.id)
    BY <1>0, <1>4, <2>1 DEF Accounted, Excused, Recoverable
  <2>2. CASE Recoverable(c.id)
    <3>1. c.id \in retransmitted'
      BY <1>0, <1>4, <2>2 DEF RecoveryInv, Recoverable
    <3>2. IsHole(c.seq)
      BY <1>0, <3>1 DEF FateInv
    <3>3. CASE OnWire(c.id)'
      BY <3>3 DEF Accounted
    <3>4. CASE lossesLeft' = lossesLeft - RetxCopies
      <4>1. lossesLeft < MaxLoss
        BY <1>4 DEF FateInv
      <4>2. MaxLoss - lossesLeft' > RetxCopies
        BY <1>2, <3>4, <4>1
      <4> QED
        BY <3>1, <4>2 DEF Accounted, Excused
    <3> QED
      BY <3>2, <3>3, <3>4, RetransmissionArrives
  <2> QED
    BY <2>1, <2>2
<1>5. ASSUME NEW n \in 0 .. sent - 1 PROVE Accounted(n)'
  <2>1. CASE Excused(n)
    BY <1>0, <1>2, <2>1, ExcusedKept DEF Accounted
  <2>2. (OnWire(n) => OnWire(n)') /\ (CameOut(n) => CameOut(n)')
        /\ (InBuffer(n) => InBuffer(n)')
    BY <1>0, <1>1 DEF OnWire, CameOut, InBuffer
  <2>3. CASE n \in lost \cap BufferedIds
    BY <1>0, <1>3, <1>4, <2>3 DEF Accounted
  <2> QED
    BY <2>1, <2>2, <2>3 DEF FateInv, Accounted
<1>6. \A d \in txBuffer' : d.id \notin retransmitted'
  <2> SUFFICES ASSUME NEW d \in txBuffer, d # c PROVE d.id # c.id
    BY <1>0 DEF FateInv
  <2>1. d.seq = SeqOf(d.id) /\ d.era = EraOf(d.id)
        /\ c.seq = SeqOf(c.id) /\ c.era = EraOf(c.id)
    BY DEF HeadersFaithful, Numbered
  <2>2. c \in Copy /\ d \in Copy
    BY DEF TypeOK, SenderTypeOK
  <2> QED
    BY <2>1, <2>2 DEF Copy
<1>7. lost' # {} => lossesLeft' < MaxLoss
  BY <1>0, <1>2 DEF FateInv
<1>8. \A n \in retransmitted' : n < sent'
  BY <1>0 DEF FateInv
<1>9. BlockingMode => \A n \in 0 .. AckId' - 1 : CameOut(n)'
  BY <1>0 DEF FateInv, CameOut
<1> QED
  BY <1>0, <1>5, <1>6, <1>7, <1>8, <1>9 DEF FateInv

\* What is neither next nor early is behind the ack.
LEMMA DropIsPast ==
    ASSUME TypeOK, HeadersFaithful, OrderInv, AckInv, BlockingMode,
           NEW pkt \in Elements(toRx) \cup rxBuffer, NEW others,
           DropDuplicate(pkt, others)
    PROVE  pkt.id < AckId
<1>1. /\ pkt.id \in Nat /\ AckId \in Nat /\ sent \in Nat /\ pkt.id <= sent
  BY OrderTypes, Window
<1>2. sent - pkt.id <= HalfRange /\ sent - AckId <= HalfRange
  BY DEF OrderInv, NearInv, Near
<1>3. CASE AckId > sent
  BY <1>1, <1>3
<1>4. CASE AckId <= sent
  <2>1. pkt.id - AckId <= HalfRange /\ AckId - pkt.id <= HalfRange
    BY <1>1, <1>2, <1>4, SeqNumbers
  <2>2. /\ ackNo = SeqOf(AckId) /\ ackEra = EraOf(AckId)
        /\ pkt.seq = SeqOf(pkt.id) /\ pkt.era = EraOf(pkt.id)
    BY DEF HeadersFaithful, Numbered, AckInv
  <2>3. ~AtOrBefore(ackNo, ackEra, pkt.seq, pkt.era)
    BY DEF DropDuplicate, IsNext, Early
  <2>4. ~(AckId <= pkt.id)
    BY <1>1, <2>1, <2>2, <2>3, EraComparison
  <2> QED
    BY <1>1, <2>4
<1> QED
  BY <1>1, <1>3, <1>4

\* What came out stays out, and in blocking mode everything before the ack
\* came out.
LEMMA OutputFate ==
    ASSUME TypeOK, HeadersFaithful, OrderInv, AckInv, AckBehind, FateInv,
           [Next]_vars, BlockingMode
    PROVE  /\ \A n \in 0 .. AckId' - 1 : CameOut(n)'
           /\ \A n \in Nat : CameOut(n) => CameOut(n)'
<1>1. NoOutput \/ DeliverAck \/ SkipAck
  BY OutputStep
<1>2. AckId \in Nat /\ delivered \in Seq(Nat)
  BY OrderTypes DEF TypeOK, ReceiverTypeOK
<1>3. CASE NoOutput
  BY <1>3 DEF NoOutput, FateInv, AckId, CameOut
<1>4. CASE DeliverAck
  <2>1. Elements(delivered') = Elements(delivered) \cup {AckId}
    BY <1>2, <1>4, ElementsAppend DEF DeliverAck
  <2> QED
    BY <1>2, <1>4, <2>1 DEF DeliverAck, FateInv, CameOut
<1>5. CASE SkipAck
  BY <1>2, <1>5 DEF SkipAck, FateInv, CameOut
<1> QED
  BY <1>1, <1>3, <1>4, <1>5

\* In blocking mode a packet that is looked at comes out, stays or is an old
\* one.
LEMMA InOrderFate ==
    ASSUME TypeOK, HeadersFaithful, OrderInv, AckInv, FateInv, BlockingMode,
           NEW pkt \in Elements(toRx) \cup rxBuffer, NEW others,
           InOrder(pkt, others)
    PROVE  /\ CameOut(pkt.id)' \/ InBuffer(pkt.id)' \/ CameOut(pkt.id)
           /\ others \subseteq rxBuffer'
<1>1. CASE HandOn(pkt, others)
  <2>1. /\ delivered' = Append(delivered, pkt.id) /\ rxBuffer' = others
        /\ delivered \in Seq(Nat) /\ pkt.id \in Nat
    BY <1>1, OrderTypes DEF HandOn, TypeOK, ReceiverTypeOK
  <2>2. pkt.id \in Elements(delivered')
    BY <2>1, ElementsAppend
  <2> QED
    BY <2>1, <2>2 DEF CameOut
<1>2. CASE Recirculate(pkt, others)
  BY <1>2 DEF Recirculate, InBuffer
<1>3. CASE DropDuplicate(pkt, others)
  <2>1. pkt.id < AckId /\ pkt.id \in Nat /\ AckId \in Nat
    BY <1>3, DropIsPast, OrderTypes
  <2> QED
    BY <1>3, <2>1 DEF FateInv, DropDuplicate
<1> QED
  BY <1>1, <1>2, <1>3 DEF InOrder

\* A packet that arrives is delivered, held back or a duplicate.
LEMMA ReceivePacketFate ==
    ASSUME TypeOK, HeadersFaithful, OrderInv, AckInv, AckBehind, FateInv,
           ReceivePacket, UNCHANGED senderVars
    PROVE  FateInv'
<1>0. /\ UNCHANGED <<sent, lost, retransmitted, txBuffer, lossesLeft>>
      /\ toRx # <<>> /\ toRx' = Tail(toRx) /\ toRx \in Seq(Packet)
      /\ delivered \in Seq(Nat) /\ lossesLeft \in Int
  BY OrderTypes
     DEF ReceivePacket, senderVars, TypeOK, WiresTypeOK, ReceiverTypeOK
<1>1. PICK pkt \in Elements(toRx) :
        /\ pkt = Head(toRx) /\ Elements(toRx) = {pkt} \cup Elements(toRx')
  BY <1>0, ElementsSplit
<1>2. pkt.id \in Nat
  BY OrderTypes
<1>3. pkt.dummy => UNCHANGED <<delivered, rxBuffer, gaveUp>>
  BY <1>1 DEF ReceivePacket, blockingVars
<1>4. ~pkt.dummy => Forward(pkt)
  BY <1>1 DEF ReceivePacket
<1>5. [Next]_vars
  BY DEF Next, ReceiverNext
<1>6. BlockingMode => \A n \in 0 .. AckId' - 1 : CameOut(n)'
  BY <1>5, OutputFate
<1>7. ~pkt.dummy /\ ~BlockingMode
        => /\ Elements(delivered') = Elements(delivered) \cup {pkt.id}
           /\ UNCHANGED <<gaveUp, rxBuffer>>
  <2>1. Elements(Append(delivered, pkt.id)) = Elements(delivered) \cup {pkt.id}
    BY <1>0, <1>2, ElementsAppend
  <2> QED
    BY <1>4, <2>1 DEF Forward, blockingVars
<1>8. \A n \in Nat : CameOut(n) => CameOut(n)'
  <2>1. CASE BlockingMode
    BY <1>5, <2>1, OutputFate
  <2> QED
    BY <1>3, <1>7, <2>1 DEF CameOut
<1>9. /\ rxBuffer \subseteq rxBuffer'
      /\ ~pkt.dummy => CameOut(pkt.id)' \/ InBuffer(pkt.id)'
  <2>1. CASE pkt.dummy
    BY <1>3, <2>1
  <2>2. CASE ~pkt.dummy /\ BlockingMode
    <3>1. InOrder(pkt, rxBuffer)
      BY <1>4, <2>2 DEF Forward
    <3> QED
      BY <1>2, <1>8, <2>2, <3>1, InOrderFate
  <2>3. CASE ~pkt.dummy /\ ~BlockingMode
    BY <1>7, <2>3 DEF CameOut
  <2> QED
    BY <2>1, <2>2, <2>3
<1>10. ASSUME NEW n \in 0 .. sent - 1 PROVE Accounted(n)'
  <2>1. CASE Excused(n)
    BY <1>0, <2>1, ExcusedKept DEF Accounted
  <2>2. InBuffer(n) => InBuffer(n)'
    BY <1>9 DEF InBuffer
  <2>3. OnWire(n) => OnWire(n)' \/ CameOut(n)' \/ InBuffer(n)'
    BY <1>1, <1>9 DEF OnWire
  <2>4. BufferedIds' = BufferedIds
    BY <1>0 DEF BufferedIds
  <2>5. CameOut(n) => CameOut(n)'
    BY <1>8
  <2> QED
    BY <1>0, <2>1, <2>2, <2>3, <2>4, <2>5 DEF FateInv, Accounted
<1> QED
  BY <1>0, <1>6, <1>10 DEF FateInv

\* A packet held back goes on waiting, is delivered or dropped as late.
LEMMA ReprocessFate ==
    ASSUME TypeOK, HeadersFaithful, OrderInv, AckInv, AckBehind, FateInv,
           BlockingMode, NEW pkt \in rxBuffer, ReprocessBuffered(pkt),
           UNCHANGED senderVars
    PROVE  FateInv'
<1>0. /\ UNCHANGED <<sent, lost, retransmitted, txBuffer, lossesLeft, toRx>>
      /\ lossesLeft \in Int /\ pkt.id \in Nat
      /\ InOrder(pkt, rxBuffer \ {pkt})
  BY OrderTypes
     DEF ReprocessBuffered, wireVars, senderVars, TypeOK, WiresTypeOK
<1>1. [Next]_vars
  BY DEF Next, ReceiverNext
<1>2. /\ \A n \in 0 .. AckId' - 1 : CameOut(n)'
      /\ \A n \in Nat : CameOut(n) => CameOut(n)'
  BY <1>1, OutputFate
<1>3. /\ CameOut(pkt.id)' \/ InBuffer(pkt.id)'
      /\ rxBuffer \ {pkt} \subseteq rxBuffer'
  BY <1>0, <1>2, InOrderFate
<1>4. ASSUME NEW n \in 0 .. sent - 1 PROVE Accounted(n)'
  <2>1. CASE Excused(n)
    BY <1>0, <2>1, ExcusedKept DEF Accounted
  <2>2. InBuffer(n) => InBuffer(n)' \/ CameOut(n)'
    BY <1>3 DEF InBuffer
  <2>3. OnWire(n) => OnWire(n)'
    BY <1>0 DEF OnWire
  <2>4. BufferedIds' = BufferedIds
    BY <1>0 DEF BufferedIds
  <2>5. CameOut(n) => CameOut(n)'
    BY <1>2
  <2> QED
    BY <1>0, <2>1, <2>2, <2>3, <2>4, <2>5 DEF FateInv, Accounted
<1> QED
  BY <1>0, <1>2, <1>4 DEF FateInv

\* A time-out gives up on the packet the ack waits for.
LEMMA TimerFate ==
    ASSUME TypeOK, HeadersFaithful, OrderInv, AckInv, AckBehind, FateInv,
           TimerPacket, UNCHANGED senderVars
    PROVE  FateInv'
<1>0. /\ UNCHANGED <<sent, lost, retransmitted, txBuffer, lossesLeft, toRx,
                     rxBuffer>>
      /\ lossesLeft \in Int /\ BlockingMode
  BY DEF TimerPacket, wireVars, senderVars, TypeOK, WiresTypeOK
<1>1. [Next]_vars
  BY DEF Next, ReceiverNext
<1>2. /\ \A n \in 0 .. AckId' - 1 : CameOut(n)'
      /\ \A n \in Nat : CameOut(n) => CameOut(n)'
  BY <1>0, <1>1, OutputFate
<1>3. ASSUME NEW n \in 0 .. sent - 1 PROVE Accounted(n)'
  <2>1. CASE Excused(n)
    BY <1>0, <2>1, ExcusedKept DEF Accounted
  <2>2. (InBuffer(n) => InBuffer(n)') /\ (OnWire(n) => OnWire(n)')
    BY <1>0 DEF InBuffer, OnWire
  <2>3. BufferedIds' = BufferedIds
    BY <1>0 DEF BufferedIds
  <2>4. CameOut(n) => CameOut(n)'
    BY <1>2
  <2> QED
    BY <1>0, <2>1, <2>2, <2>3, <2>4 DEF FateInv, Accounted
<1> QED
  BY <1>0, <1>2, <1>3 DEF FateInv

\* Every step keeps a fate for every packet.
LEMMA FateStep ==
    ASSUME TypeOK, HeadersFaithful, OrderInv, UnseenInv, RecoveryInv, FateInv,
           RecoveryInv', AckInv, AckBehind, BlockingMode \/ rxBuffer = {},
           [Next]_vars
    PROVE  FateInv'
<1>0. lossesLeft \in Int
  BY DEF TypeOK, WiresTypeOK
<1>1. CASE SendNormal /\ UNCHANGED receiverVars
  BY <1>1, SendNormalFate
<1>2. CASE SendDummy /\ UNCHANGED receiverVars
  BY <1>2, SendDummyFate
<1>3. CASE RecordLeadingAck /\ UNCHANGED receiverVars
  BY <1>0, <1>3, FateFrame DEF RecordLeadingAck, receiverVars
<1>4. CASE (\E c \in txBuffer : ProcessBuffered(c)) /\ UNCHANGED receiverVars
  BY <1>4, ProcessBufferedFate
<1>5. CASE ReceivePacket /\ UNCHANGED senderVars
  BY <1>5, ReceivePacketFate
<1>6. CASE (\E pkt \in rxBuffer : ReprocessBuffered(pkt)) /\ UNCHANGED senderVars
  BY <1>6, ReprocessFate
<1>7. CASE TimerPacket /\ UNCHANGED senderVars
  BY <1>7, TimerFate
<1>8. CASE /\ EgressLackUpdate \/ EgressLossNotification \/ EgressLack
           /\ UNCHANGED senderVars
  BY <1>0, <1>8, FateFrame
     DEF EgressLackUpdate, EgressLossNotification, EgressLack, wireVars,
         senderVars, blockingVars
<1>9. CASE UNCHANGED vars
  BY <1>0, <1>9, FateFrame DEF vars, wireVars, senderVars, receiverVars
<1> QED
  BY <1>1, <1>2, <1>3, <1>4, <1>5, <1>6, <1>7, <1>8, <1>9
     DEF Next, SenderNext, ReceiverNext

(***************************************************************************)
(* In both modes every packet the link accepted is somewhere, on the way   *)
(* to the user or with the user, unless the hole it was lost in was larger *)
(* than the sender's registers, or RetxCopies + 1 packets were corrupted   *)
(* and all copies of its retransmission may be among them: if packet 0 is  *)
(* not lost, if no burst is longer than hole_size can count and, in        *)
(* blocking mode, if no time-out steps over the last number of an era.     *)
(***************************************************************************)
THEOREM NothingIsLost ==
    ASSUME 0 \notin LossyIds, BlockingMode => MaxSeqNo \notin MayTimeout
    PROVE  Spec /\ []ShortBursts => []NothingVanishes
<1> DEFINE Waits == BlockingMode \/ rxBuffer = {}
<1>1. /\ Init => Waits
      /\ Waits /\ [Next]_vars => Waits'
  BY NothingWaits DEF Init, ReceiverInit
<1>2. /\ TypeOK /\ HeadersFaithful /\ OrderInv /\ UnseenInv /\ [Next]_vars
            => UnseenInv'
      /\ TypeOK /\ HeadersFaithful /\ OrderInv /\ UnseenInv /\ RecoveryInv
         /\ ShortBursts /\ [Next]_vars
            => RecoveryInv'
  BY UnseenStep, RecoveryStep
<1>3. /\ TypeOK /\ AckInv /\ [Next]_vars => AckInv'
      /\ TypeOK /\ HeadersFaithful /\ OrderInv /\ AckInv /\ AckBehind
         /\ [Next]_vars
            => AckBehind'
  BY AckStep, AckBehindStep DEF AckInv
<1>4. TypeOK /\ HeadersFaithful /\ OrderInv /\ UnseenInv /\ RecoveryInv
      /\ RecoveryInv' /\ AckInv /\ AckBehind /\ Waits /\ FateInv /\ [Next]_vars
        => FateInv'
  BY FateStep
<1>5. Init => AckBehind
  BY OrderInit
<1> HIDE DEF Waits
<1> QED
  BY UnseenInit, RecoveryInit, AckInit, FateInit, TypeCorrect,
     HeadersAreFaithful, LinkIsOrdered, FateIsNothingVanishes, <1>1, <1>2,
     <1>3, <1>4, <1>5, PTL DEF Spec

-----------------------------------------------------------------------------
(***************************************************************************)
(* ShortBursts is a bound on the corruptions, not on the protocol: it      *)
(* holds when fewer packets are corrupted than hole_size can count.        *)
(***************************************************************************)
LossesInv == IsFiniteSet(lost) /\ Cardinality(lost) <= MaxLoss - lossesLeft

\* Every step keeps the losses counted.
LEMMA LossesStep ==
    ASSUME TypeOK, LossesInv, [Next]_vars
    PROVE  LossesInv'
<1>0. /\ lossesLeft \in Int /\ MaxLoss \in Int /\ RetxCopies \in Nat
      /\ Cardinality(lost) \in Nat
  BY WiresAssumption, FS_CardinalityType DEF TypeOK, WiresTypeOK, LossesInv
<1>1. CASE UNCHANGED lost /\ lossesLeft' \in Int /\ lossesLeft' <= lossesLeft
  <2>1. ASSUME NEW a \in Int, NEW b \in Int, NEW m \in Int, NEW k \in Int,
               b <= a, k <= m - a
        PROVE  k <= m - b
    BY <2>1
  <2> QED
    BY <1>0, <1>1, <2>1 DEF LossesInv
<1>2. CASE lost' = lost \cup {sent} /\ lossesLeft' = lossesLeft - 1
  <2> DEFINE s == lost \cup {sent}
  <2>1. /\ IsFiniteSet(s) /\ Cardinality(s) \in Nat
        /\ Cardinality(s) <= Cardinality(lost) + 1
    <3>1. IsFiniteSet(lost)
      BY DEF LossesInv
    <3>2. /\ IsFiniteSet(s)
          /\ Cardinality(s) =
                IF sent \in lost THEN Cardinality(lost) ELSE Cardinality(lost) + 1
      BY <3>1, FS_AddElement
    <3> HIDE DEF s
    <3> QED
      BY <1>0, <3>2, FS_CardinalityType
  <2>2. MaxLoss - (lossesLeft - 1) = (MaxLoss - lossesLeft) + 1
    BY <1>0
  <2>3. Cardinality(s) <= MaxLoss - (lossesLeft - 1)
    BY <1>0, <2>1, <2>2 DEF LossesInv
  <2> HIDE DEF s
  <2> QED
    BY <1>2, <2>1, <2>3 DEF LossesInv, s
<1>3. ASSUME NEW c \in txBuffer, ProcessBuffered(c)
      PROVE  UNCHANGED lost /\ lossesLeft' \in Int /\ lossesLeft' <= lossesLeft
  <2>1. UNCHANGED lossesLeft \/ IsHole(c.seq)
    BY <1>3 DEF ProcessBuffered
  <2>2. UNCHANGED lost
    BY <1>3 DEF ProcessBuffered
  <2>3. IsHole(c.seq) => lossesLeft' \in Int /\ lossesLeft' <= lossesLeft
    BY <1>0, <1>3, RetransmissionArrives
  <2> QED
    BY <1>0, <2>1, <2>2, <2>3
<1>4. CASE SendNormal
  <2>1. \/ UNCHANGED <<lost, lossesLeft>>
        \/ lost' = lost \cup {sent} /\ lossesLeft' = lossesLeft - 1
    BY <1>4 DEF SendNormal, Arrives, Corrupted
  <2> QED
    BY <1>0, <1>1, <1>2, <2>1
<1>5. CASE SendDummy
  <2>1. UNCHANGED lost /\ (UNCHANGED lossesLeft \/ lossesLeft' = lossesLeft - 1)
    BY <1>5 DEF SendDummy, Arrives, Corrupted
  <2> QED
    BY <1>0, <1>1, <2>1
<1>6. CASE RecordLeadingAck \/ UNCHANGED vars
           \/ (ReceiverNext /\ UNCHANGED senderVars)
  <2>1. UNCHANGED <<lost, lossesLeft>>
    BY <1>6
       DEF RecordLeadingAck, vars, wireVars, senderVars, ReceiverNext,
           ReceivePacket, ReprocessBuffered, TimerPacket, EgressLackUpdate,
           EgressLossNotification, EgressLack
  <2> QED
    BY <1>0, <1>1, <2>1
<1> QED
  BY <1>1, <1>3, <1>4, <1>5, <1>6 DEF Next, SenderNext

\* A burst is no longer than there are losses.
LEMMA FewLosses ==
    ASSUME TypeOK, LossesInv, MaxLoss < HoleSizeRange
    PROVE  ShortBursts
<1> SUFFICES ASSUME NEW n \in Nat,
                    \A k \in 0 .. HoleSizeRange - 1 : n + k \in lost
             PROVE  FALSE
  BY DEF ShortBursts
<1> DEFINE top   == n + HoleSizeRange - 1
           burst == n .. top
<1>1. /\ lossesLeft \in Nat /\ MaxLoss \in Nat /\ HoleSizeRange \in Nat
      /\ HoleSizeRange > 0
  BY WiresAssumption, ReceiverAssumption DEF TypeOK, WiresTypeOK
<1>2. burst \subseteq lost
  <2>1. ASSUME NEW m \in burst PROVE m \in lost
    <3>1. m - n \in 0 .. HoleSizeRange - 1 /\ n + (m - n) = m
      BY <1>1
    <3> QED
      BY <3>1
  <2> QED
    BY <2>1
<1>3. Cardinality(burst) = HoleSizeRange
  <2>1. n \in Int /\ top \in Int /\ ~(n > top) /\ top - n + 1 = HoleSizeRange
    BY <1>1
  <2> HIDE DEF top
  <2> QED
    BY <2>1, FS_Interval
<1> HIDE DEF burst
<1>4. Cardinality(burst) <= Cardinality(lost) /\ Cardinality(lost) \in Nat
  BY <1>2, FS_Subset, FS_CardinalityType DEF LossesInv
<1> QED
  BY <1>1, <1>3, <1>4 DEF LossesInv

(***************************************************************************)
(* With fewer corruptions than hole_size can count no packet disappears,   *)
(* and the copy of a lost one is kept until it is retransmitted, without a *)
(* condition on the behaviour.                                             *)
(***************************************************************************)
COROLLARY FewLossesAreRepaired ==
    ASSUME 0 \notin LossyIds, BlockingMode => MaxSeqNo \notin MayTimeout,
           MaxLoss < HoleSizeRange
    PROVE  Spec => [](NothingVanishes /\ BufferedUntilRecovered)
<1>1. Init => LossesInv
  BY FS_EmptySet, WiresAssumption DEF Init, WiresInit, SenderInit, LossesInv
<1>2. TypeOK /\ LossesInv /\ [Next]_vars => LossesInv'
  BY LossesStep
<1>3. TypeOK /\ LossesInv => ShortBursts
  BY FewLosses
<1>4. Spec => []ShortBursts
  BY TypeCorrect, <1>1, <1>2, <1>3, PTL DEF Spec
<1> QED
  BY NothingIsLost, LossesStayBuffered, <1>4, PTL
=============================================================================
