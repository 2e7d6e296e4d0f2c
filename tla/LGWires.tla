------------------------------ MODULE LGWires ------------------------------
(***************************************************************************)
(* The protected link between the two switches: a FIFO wire in each        *)
(* direction, the forward one corrupting packets.  A corrupted packet is   *)
(* dropped by the receiving MAC, so it is modelled as never being put on   *)
(* the wire; the wire stays FIFO.  The reverse direction carries LACKs and *)
(* loss notifications and is not corrupting (LinkGuardian protects one     *)
(* direction of the link).                                                 *)
(*                                                                         *)
(* Every message carries the index of its packet, "id".  It stands for     *)
(* the payload: no register or table of the switches holds it.              *)
(***************************************************************************)
EXTENDS LGSeqNo, Sequences, FiniteSets

CONSTANTS
    RetxCopies,     \* copies a retransmission sends: 1 unicast, N multicast
    MaxLoss,        \* bound: packets the forward wire may corrupt
    LossyIds        \* the packets whose first transmission it may corrupt

ASSUME WiresAssumption ==
    /\ RetxCopies \in Nat \ {0}
    /\ MaxLoss \in Nat
    /\ LossyIds \subseteq Nat

VARIABLES
    toRx,           \* forward wire: data, dummy and retransmitted packets
    toTx,           \* reverse wire: LACKs, alone or with a loss notification
    lossesLeft      \* corruptions the environment may still cause

wireVars == <<toRx, toTx, lossesLeft>>

(***************************************************************************)
(* A packet with the data header.  copy = 0 is the first transmission, the *)
(* header's reTx bit is copy > 0.                                          *)
(***************************************************************************)
Packet == [id : Nat, seq : SeqNo, era : Era, dummy : BOOLEAN,
           copy : 0 .. RetxCopies]

\* A leading ACK: the latest packet that reached the receiver.
Lack == [id : Int, seq : SeqNo, era : Era]

\* On the reverse wire a LACK may carry a loss notification: hole is the
\* header's hole_size, first its first_lost_seq_no (0 when there is none).
AckMessage == [lack : Lack, loss : BOOLEAN, first : SeqNo, hole : Nat]

WiresTypeOK ==
    /\ toRx \in Seq(Packet)
    /\ toTx \in Seq(AckMessage)
    /\ lossesLeft \in 0 .. MaxLoss

WiresInit ==
    /\ toRx = <<>>
    /\ toTx = <<>>
    /\ lossesLeft = MaxLoss

Corruptible(pkt) == pkt.dummy \/ pkt.id \in LossyIds

\* pkt leaves on the forward wire and arrives.
Arrives(pkt) ==
    /\ toRx' = Append(toRx, pkt)
    /\ UNCHANGED lossesLeft

\* pkt leaves on the forward wire and is corrupted.
Corrupted(pkt) ==
    /\ Corruptible(pkt)
    /\ lossesLeft > 0
    /\ lossesLeft' = lossesLeft - 1
    /\ UNCHANGED toRx

(***************************************************************************)
(* The RetxCopies copies of a retransmission leave back to back and        *)
(* "arriving" of them survive.                                             *)
(***************************************************************************)
CopiesLeave(pkt, arriving) ==
    /\ RetxCopies - arriving <= lossesLeft
    /\ lossesLeft' = lossesLeft - (RetxCopies - arriving)
    /\ toRx' = toRx \o [i \in 1 .. arriving |-> [pkt EXCEPT !.copy = i]]
============================================================================
