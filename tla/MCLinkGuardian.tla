-------------------------- MODULE MCLinkGuardian ---------------------------
(***************************************************************************)
(* Instances of LinkGuardian for TLC.                                      *)
(***************************************************************************)
EXTENDS LinkGuardian

\* Any packet may be lost.
MCAllIds == 0 .. NumPackets - 1

\* The first transmission of packet 0 arrives (see BootLoss).
MCLossyIds == 1 .. NumPackets - 1

\* ... and so does that of the last number of an era.
MCWrapSafeIds == {n \in MCLossyIds : SeqOf(n) # MaxSeqNo}

\* No time-out steps over the last number of an era (see TimeoutWrap).
MCMayTimeout == SeqNo \ {MaxSeqNo}

\* The link is at rest: all packets sent, nothing in any queue or buffer.
Quiet ==
    /\ sent = NumPackets
    /\ toRx = <<>> /\ toTx = <<>>
    /\ lackUpdates = <<>> /\ lossNotifications = <<>>
    /\ txBuffer = {} /\ rxBuffer = {}
    /\ UNCHANGED vars

MCSpec == Init /\ [][Next \/ Quiet]_vars
============================================================================
