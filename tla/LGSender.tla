----------------------------- MODULE LGSender ------------------------------
(***************************************************************************)
(* The sender switch (sender.p4).  Its egress numbers the packets of the   *)
(* protected link and mirrors a copy of each to a recirculation port; its  *)
(* ingress takes LACKs and loss notifications from the receiver and, each  *)
(* time a copy comes round, keeps it, frees it or retransmits it.          *)
(*                                                                         *)
(* A handler is the pass of one packet through one pipeline, which the     *)
(* switch makes atomic for every register it touches.                      *)
(***************************************************************************)
EXTENDS LGWires

CONSTANTS
    NumHoles,       \* reg_holes_1 .. reg_holes_5: five in the code
    DummyMax,       \* dummy_pkt_max_count of the link_protect entry
    NumPackets      \* bound: packets the link is given to carry

ASSUME SenderAssumption ==
    /\ NumHoles \in 1 .. MaxSeqNumbers
    /\ DummyMax \in Nat
    /\ NumPackets \in Nat

VARIABLES
    sent,               \* packets protected so far (history)
    regSeqNo,           \* reg_seq_no: the next sequence number
    regEra,             \* reg_era
    dummyNotifyCount,   \* reg_dummy_pkt_notify_count
    leadingAck,         \* reg_leading_ack, reg_leading_ack_era
    holes,              \* reg_holes_k: the numbers whose bit is set
    txBuffer,           \* the mirrored copies, in recirculation
    lost,               \* first transmissions that were corrupted (history)
    retransmitted       \* packets that were retransmitted (history)

senderVars == <<sent, regSeqNo, regEra, dummyNotifyCount, leadingAck, holes,
                txBuffer, lost, retransmitted>>

Copy == [id : Nat, seq : SeqNo, era : Era]

SenderTypeOK ==
    /\ sent \in 0 .. NumPackets
    /\ regSeqNo \in SeqNo
    /\ regEra \in Era
    /\ dummyNotifyCount \in 0 .. DummyMax
    /\ leadingAck \in Lack
    /\ holes \in [1 .. NumHoles -> SUBSET SeqNo]
    /\ txBuffer \subseteq Copy
    /\ lost \subseteq Nat
    /\ retransmitted \subseteq Nat

\* Every register starts at zero.
SenderInit ==
    /\ sent = 0
    /\ regSeqNo = 0
    /\ regEra = 0
    /\ dummyNotifyCount = 0
    /\ leadingAck = [id |-> 0, seq |-> 0, era |-> 0]
    /\ holes = [k \in 1 .. NumHoles |-> {}]
    /\ txBuffer = {}
    /\ lost = {}
    /\ retransmitted = {}

\* Mutant of RearmedDummyCount: the dummy packets are not re-armed.
UnchangedDummyCount == dummyNotifyCount

\* set_dummy_pkt_notify_max_count.
RearmedDummyCount == DummyMax

\* What protect, get_era and the actions for the dummy packet write into the
\* header of a packet that leaves.
DataHeader(isDummy) ==
    [id |-> sent, seq |-> regSeqNo, era |-> regEra, dummy |-> isDummy,
     copy |-> 0]

\* The copy that copy_for_buffering mirrors to the recirculation port.
BufferedCopy == [id |-> sent, seq |-> regSeqNo, era |-> regEra]

(***************************************************************************)
(* Egress of a normal packet: it takes the next number and the era that    *)
(* number belongs to (the last number of an era flips reg_era behind it),  *)
(* is mirrored into the buffer, whatever then happens to it on the wire,   *)
(* and re-arms the dummy packets.                                          *)
(***************************************************************************)
SendNormal ==
    /\ sent < NumPackets
    /\ \/ Arrives(DataHeader(FALSE)) /\ UNCHANGED lost
       \/ Corrupted(DataHeader(FALSE)) /\ lost' = lost \cup {sent}
    /\ sent' = sent + 1
    /\ regSeqNo' = Inc(regSeqNo)
    /\ regEra' = IF regSeqNo = MaxSeqNo THEN Flip(regEra) ELSE regEra
    /\ txBuffer' = txBuffer \cup {BufferedCopy}
    /\ dummyNotifyCount' = RearmedDummyCount
    /\ UNCHANGED <<leadingAck, holes, retransmitted, toTx>>

(***************************************************************************)
(* Egress of the dummy packet, which circulates for ever at the lowest     *)
(* priority: while the count lasts it goes out with the number the next    *)
(* packet will have; once the count is zero it is mirrored and dropped,    *)
(* which changes nothing.                                                  *)
(***************************************************************************)
SendDummy ==
    /\ dummyNotifyCount > 0
    /\ dummyNotifyCount' = dummyNotifyCount - 1
    /\ Arrives(DataHeader(TRUE)) \/ Corrupted(DataHeader(TRUE))
    /\ UNCHANGED <<sent, regSeqNo, regEra, leadingAck, holes, txBuffer, lost,
                   retransmitted, toTx>>

\* Mutant of SetHoles: every register takes its number, whatever the size.
SetAllHoles(m) ==
    [k \in 1 .. NumHoles |->
        IF m.loss THEN holes[k] \cup {Plus(m.first, k - 1)} ELSE holes[k]]

(***************************************************************************)
(* Ingress of a packet with a LACK: the registers take the LACK, whatever  *)
(* they held, and a loss notification sets one bit per lost packet, in as  *)
(* many registers as there are.                                            *)
(***************************************************************************)
SetHoles(m) ==
    [k \in 1 .. NumHoles |->
        IF m.loss /\ (k = 1 \/ m.hole >= k)
        THEN holes[k] \cup {Plus(m.first, k - 1)}
        ELSE holes[k]]

RecordLeadingAck ==
    /\ toTx # <<>>
    /\ leadingAck' = Head(toTx).lack
    /\ holes' = SetHoles(Head(toTx))
    /\ toTx' = Tail(toTx)
    /\ UNCHANGED <<sent, regSeqNo, regEra, dummyNotifyCount, txBuffer, lost,
                   retransmitted, toRx, lossesLeft>>

IsHole(s) == \E k \in 1 .. NumHoles : s \in holes[k]

\* The copy is not after the recorded LACK, era corrected.
Acknowledged(c) == AtOrBefore(c.seq, c.era, leadingAck.seq, leadingAck.era)

\* Mutant of ResetHoles: the bits are read and not reset.
KeepHoles(s) == holes

\* check_reset_holes_k, for all k.
ResetHoles(s) == [k \in 1 .. NumHoles |-> holes[k] \ {s}]

\* The buffered copy on its way out again, before it is copied.
Retransmission(c) ==
    [id |-> c.id, seq |-> c.seq, era |-> c.era, dummy |-> FALSE, copy |-> 0]

(***************************************************************************)
(* Ingress of a buffered copy the LACK has reached: all hole bits of its   *)
(* number are read and reset; if one was set the copy is retransmitted, at *)
(* the highest priority and past the egress, else it is dropped.  A copy   *)
(* the LACK has not reached goes round again, which changes nothing.       *)
(***************************************************************************)
ProcessBuffered(c) ==
    /\ c \in txBuffer
    /\ Acknowledged(c)
    /\ txBuffer' = txBuffer \ {c}
    /\ holes' = ResetHoles(c.seq)
    /\ \/ /\ IsHole(c.seq)
          /\ \E arriving \in 0 .. RetxCopies :
                CopiesLeave(Retransmission(c), arriving)
          /\ retransmitted' = retransmitted \cup {c.id}
       \/ /\ ~IsHole(c.seq)
          /\ UNCHANGED <<toRx, lossesLeft, retransmitted>>
    /\ UNCHANGED <<sent, regSeqNo, regEra, dummyNotifyCount, leadingAck, lost,
                   toTx>>

SenderNext ==
    \/ SendDummy
    \/ RecordLeadingAck
    \/ \E c \in txBuffer : ProcessBuffered(c)
============================================================================
