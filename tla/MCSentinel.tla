----------------------------- MODULE MCSentinel -----------------------------
(* One watch target of two addresses, a first movement on one of them and a *)
(* second on both; the faults, edits and stops of one behaviour are bounded *)
(* together, by what is used up at first.                                   *)
EXTENDS Sentinel, TLC

CONSTANTS m1, a1, a2, k1, k2

OneOwner == [a \in {a1, a2} |-> m1]
TwoMoves == <<{a1}, {a1, a2}>>

Used(f, e, s, t, k) == [faults |-> f, edits |-> e, stops |-> s, tip |-> t, streak |-> k]
\* What is left: a stop, or three refusals, or two with an edit, each with a
\* movement to come; or, with all movements there and two refusals behind,
\* two more and a stop; or two movements to come and nothing else, so that one
\* falls out of the window before it is read.
Mixes == {Used(3, 1, 1, 0, 0), Used(3, 1, 0, 1, 0), Used(0, 1, 1, 1, 0), Used(1, 0, 1, 1, 0), Used(1, 1, 0, 2, 2)}

=============================================================================
