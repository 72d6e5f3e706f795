------------------------------ MODULE MCPioSwd ------------------------------
(***************************************************************************)
(* Blocks of up to two words, one WAIT retry, FIFOs of four entries as in  *)
(* the hardware, and a turn of two transfers; turnarounds of one and two   *)
(* clocks, idle cycles and data phase both off and on.                     *)
(***************************************************************************)
EXTENDS PioSwd

MCParams == {[trn |-> 2, idle |-> 0, phase |-> FALSE], [trn |-> 1, idle |-> 2, phase |-> TRUE]}
=============================================================================
