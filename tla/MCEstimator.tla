---------------------------- MODULE MCEstimator ----------------------------
(***************************************************************************)
(* Words of 12 bits.  Bits of 20 cycles with jitter, a longer pulse, a     *)
(* glitch of 2 and, from two words, the zero width that a free entry of    *)
(* the table has; all collide but one, and the search wraps.               *)
(***************************************************************************)
EXTENDS Estimator

Word(width) == WordMax - width \div 2

MCRaws == {Word(0), WordMax \div 2, Word(2), Word(20), Word(22), Word(200)}
MCHash == [c \in Widths |-> IF c = 22 THEN 1 ELSE Slots - 2]

\* The code's curve is reached within a short session.
MCCompleteness == <<300, 500, 640, 740, 820, 870, 910, 940>>
=============================================================================
