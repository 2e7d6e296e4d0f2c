------------------------------ MODULE MCCorruptd ------------------------------
(***************************************************************************)
(* Instances of Corruptd for TLC.  A threshold of 4 frames, and loss rates *)
(* of 1/8 and 1/2 for 1e-6 and 1e-3.                                       *)
(***************************************************************************)
EXTENDS Corruptd

\* A busy link: every poll sees more frames than the threshold.
BusyTraffic ==
    [q \in Qualities |->
        CASE q = "healthy" -> {[all |-> 8, ok |-> 8]}
          [] q = "mild"    -> {[all |-> 8, ok |-> 7]}
          [] q = "severe"  -> {[all |-> 8, ok |-> 4]}]

\* A link with little traffic: the window holds several polls.
LightTraffic ==
    [q \in Qualities |->
        CASE q = "healthy" -> {[all |-> 4, ok |-> 4]}
          [] q = "mild"    -> {[all |-> 4, ok |-> 3]}
          [] q = "severe"  -> {[all |-> 2, ok |-> 1]}]

\* Corruption only gets worse.
Worse == [q \in Qualities |->
    CASE q = "healthy" -> {"mild", "severe"}
      [] q = "mild"    -> {"severe"}
      [] q = "severe"  -> {}]

\* The loss rate goes up and down.
Fluctuates == [q \in Qualities |-> Qualities \ {q}]

Never == {FALSE}
=============================================================================
