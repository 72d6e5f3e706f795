--------------------------- MODULE MCUartAutobaud ---------------------------
(* Instances of UartAutobaud for TLC. *)
EXTENDS UartAutobaud

CONSTANTS u1, u2, r1, r2

TwoUarts == {u1, u2}
TwoRates == {r1, r2}
=============================================================================
