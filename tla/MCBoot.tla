------------------------------- MODULE MCBoot -------------------------------
(* Instances of Boot for TLC: a chip of 2 blocks of 2 state machines and 12    *)
(* pins, and the probes and UARTs that make every resource run out or collide. *)
EXTENDS Boot, TLC

Probe(c, d, r) == [swclk |-> c, swdio |-> d, reset |-> r]
SomeProbes ==
  {Probe(0, 1, NoPin), Probe(2, 3, NoPin), Probe(4, 5, NoPin), Probe(6, 7, NoPin),
   Probe(2, 3, 8), Probe(2, 3, 1), Probe(4, 4, NoPin), Probe(4, 12, NoPin)}
SomeUarts ==
  {[tx |-> 8, rx |-> 9], [tx |-> 10, rx |-> 11], [tx |-> 8, rx |-> 11],
   [tx |-> 10, rx |-> 3]}
SomeProfiles == {0 .. 11, 0 .. 11 \ {4, 5}}
Table == 0 .. 11
Tx == 0 :> {8} @@ 1 :> {10}
Rx == 0 :> {9} @@ 1 :> {11, 3}
=============================================================================
