------------------------------ MODULE MCFlash ------------------------------
(***************************************************************************)
(* Three sectors of four pages, with ranges longer than a chunk, that      *)
(* begin or end within a sector or share one, blocks out of order, of      *)
(* other chips and of none, the same block twice, two that contradict each *)
(* other, one without data, one beyond the flash, and nothing for the chip.*)
(***************************************************************************)
EXTENDS Flash

B(addr, data, family) == [addr |-> addr, data |-> data, family |-> family, main |-> TRUE]
Aside(addr, data) == [B(addr, data, "chip") EXCEPT !.main = FALSE]
File(blocks) == [bad |-> FALSE, blocks |-> blocks]

MCFiles ==
  {NoFile,
   File(<<B(0, <<3>>, "other"), Aside(0, <<1>>)>>),
   File(<<B(7, <<2>>, "chip"), B(1, <<2, 1>>, "none"), B(0, <<3>>, "other"),
          B(3, <<1, 2, 2>>, "chip")>>),
   File(<<B(4, <<1>>, "chip"), Aside(8, <<1>>), B(6, <<2, 1>>, "chip")>>),
   File(<<B(6, <<1>>, "chip"), B(6, <<1>>, "none"), B(7, <<2>>, "chip")>>),
   File(<<B(2, <<1, 2>>, "chip"), B(3, <<1>>, "chip")>>),
   File(<<B(11, <<1, 2>>, "chip")>>),
   File(<<B(2, <<1>>, "none"), B(9, <<>>, "chip")>>)}
=============================================================================
