---------------------------- MODULE MCPackets ----------------------------
(***************************************************************************)
(* An instance of LGPackets, and one of the testbed the packets cross; one *)
(* of the two in a behaviour, the other stays as it starts.                *)
(*                                                                         *)
(* The hosts send what the switches restore, IPv4 frames, and the link     *)
(* runs in either mode.                                                    *)
(***************************************************************************)
EXTENDS LGPackets, Testbed

MCUserTypes == {"IPV4"}
MCModes == BOOLEAN

VARIABLE inTestbed
MCVars == <<inTestbed, packetVars, testbedVars>>

MCInit ==
    /\ inTestbed \in BOOLEAN
    /\ PacketsInit /\ TestbedInit
    /\ ~inTestbed => operator.speed = 10

MCNext ==
    /\ UNCHANGED inTestbed
    /\ \/ ~inTestbed /\ PacketsNext /\ UNCHANGED testbedVars
       \/ inTestbed /\ TestbedNext /\ UNCHANGED packetVars

MCSpec == MCInit /\ [][MCNext]_MCVars
=============================================================================
