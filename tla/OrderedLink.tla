---------------------------- MODULE OrderedLink ----------------------------
(***************************************************************************)
(* What a link protected in blocking mode promises its user: the packets   *)
(* given to it come out in the order they went in, each at most once; the  *)
(* link may give up on a packet, and then never delivers it.               *)
(***************************************************************************)
EXTENDS Naturals, Sequences, FiniteSets

VARIABLES
    accepted,   \* packets 0 .. accepted - 1 were given to the link
    output,     \* the packets it delivered, in order
    skipped     \* the packets it gave up on

vars == <<accepted, output, skipped>>

\* Everything before the next packet was delivered or skipped.
NextOut == Len(output) + Cardinality(skipped)

Init ==
    /\ accepted = 0
    /\ output = <<>>
    /\ skipped = {}

Accept ==
    /\ accepted' = accepted + 1
    /\ UNCHANGED <<output, skipped>>

Deliver ==
    /\ NextOut < accepted
    /\ output' = Append(output, NextOut)
    /\ UNCHANGED <<accepted, skipped>>

Skip ==
    /\ NextOut < accepted
    /\ skipped' = skipped \cup {NextOut}
    /\ UNCHANGED <<accepted, output>>

Next == Accept \/ Deliver \/ Skip

Spec == Init /\ [][Next]_vars

\* An accepted packet is not held for ever.
FairSpec == Spec /\ WF_vars(Deliver \/ Skip)
============================================================================
