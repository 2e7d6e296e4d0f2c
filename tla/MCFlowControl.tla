--------------------------- MODULE MCFlowControl ---------------------------
(***************************************************************************)
(* Instances of LGFlowControl for TLC.                                     *)
(***************************************************************************)
EXTENDS LGFlowControl

\* Packet 0 arrives (see BootLoss), as does the last number of an era.
MCLossyIds == {n \in 1 .. NumPackets - 1 : SeqOf(n) # MaxSeqNo}

MCNoTimeout == {}
============================================================================
