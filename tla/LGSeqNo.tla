------------------------------ MODULE LGSeqNo ------------------------------
(***************************************************************************)
(* The sequence numbers of LinkGuardian's header and the one comparison    *)
(* both switches make of them.                                             *)
(*                                                                         *)
(* A protected packet carries a 16-bit sequence number and a one-bit era   *)
(* that flips at each wrap.  Two numbers of different eras are compared    *)
(* after half the range is taken from both (table era_correction, then     *)
(* min).  HalfRange is SEQ_NUMBERS_HALF_RANGE (32768 in the code): TLC     *)
(* takes a small one so that the numbers wrap, the proofs take any.        *)
(***************************************************************************)
EXTENDS Integers

CONSTANT HalfRange

ASSUME HalfRangeAssumption == HalfRange \in Nat \ {0}

MaxSeqNumbers == 2 * HalfRange
MaxSeqNo      == MaxSeqNumbers - 1
SeqNo         == 0 .. MaxSeqNo
Era           == {0, 1}

\* Mutant of Inc: the register does not wrap.
IncNoWrap(s) == s + 1

\* Sixteen-bit addition of one and subtraction, on a range of 2 * HalfRange.
Inc(s) == IF s = MaxSeqNo THEN 0 ELSE s + 1
Sub(s, t) == IF t <= s THEN s - t ELSE s - t + MaxSeqNumbers

\* The sequence number k places after s.
Plus(s, k) == IF s + k > MaxSeqNo THEN s + k - MaxSeqNumbers ELSE s + k

Flip(e) == 1 - e

\* Mutant of Correction: eras are ignored.
NoCorrection(e, f) == 0

\* What the code takes from both numbers before it compares them.
Correction(e, f) == IF e = f THEN 0 ELSE HalfRange

(***************************************************************************)
(* <<s, e>> is not after <<t, f>>: what "min_val = first operand" decides, *)
(* for a buffered packet and the LACK at the sender, for the ack and a     *)
(* packet at the receiver.                                                 *)
(***************************************************************************)
AtOrBefore(s, e, t, f) ==
    Sub(s, Correction(e, f)) <= Sub(t, Correction(e, f))

(***************************************************************************)
(* The header of the n-th protected packet, n = 0, 1, 2, ...: what the     *)
(* registers are meant to count.  The properties use it, the program has   *)
(* no such number.                                                         *)
(***************************************************************************)
SeqOf(n) == n % MaxSeqNumbers
EraOf(n) == (n \div MaxSeqNumbers) % 2
============================================================================
