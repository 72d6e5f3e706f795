---------------------------- MODULE MCCommands ----------------------------
(***************************************************************************)
(* Every command, with up to three items of every shape: sequences of one  *)
(* bit, one byte and one bit more, and of the 64 and 256 that are encoded  *)
(* as 0; reads and writes with and without a value or a mask.  The reply   *)
(* buffer holds two long sequences but not three.                          *)
(***************************************************************************)
EXTENDS Commands

Bits == {Item(in, n, FALSE) : in \in BOOLEAN, n \in {1, 8, 9, 64}}
Transfers == {Item(in, 0, m) : in \in BOOLEAN, m \in BOOLEAN}

D(c, arg, size, items) == [c |-> c, arg |-> arg, size |-> size, items |-> items]

Sized(size, names, args) == {D(c, a, size, <<>>) : c \in names, a \in args}

MCDescs ==
       Sized(0, {"DISCONNECT", "TRANSFER_ABORT", "RESET_TARGET", "SWO_STATUS"}, {0})
  \cup Sized(1, {"CONNECT", "SWD_CONFIGURE", "JTAG_IDCODE", "SWO_TRANSPORT", "SWO_MODE",
                 "SWO_CONTROL", "SWO_EXTENDED_STATUS"}, {0, 1, 3})
  \cup Sized(1, {"INFO"}, {1, 4, 240, 253, 254, 255})
  \cup Sized(2, {"HOST_STATUS", "DELAY", "SWO_DATA"}, {0, 1, 2})
  \cup Sized(4, {"SWJ_CLOCK", "SWO_BAUDRATE"}, {0})
  \cup Sized(5, {"TRANSFER_CONFIGURE", "WRITE_ABORT"}, {0})
  \cup Sized(6, {"SWJ_PINS"}, {0})
  \cup {D("SWJ_SEQUENCE", 0, 0, <<Item(FALSE, n, FALSE)>>) : n \in {1, 8, 9, 256}}
  \cup {D(c, 0, 0, items) : c \in {"SWD_SEQUENCE", "JTAG_SEQUENCE"}, items \in BoundedSeq(Bits, 3)}
  \cup {D("JTAG_CONFIGURE", 0, 0, [k \in 1..n |-> Item(FALSE, 1, FALSE)]) : n \in 0..2}
  \cup {D("TRANSFER", 0, 0, items) : items \in BoundedSeq(Transfers, 3)}
  \cup {D("TRANSFER_BLOCK", IF in THEN 2 ELSE 0, 0, [k \in 1..n |-> Item(in, 0, FALSE)]) :
          in \in BOOLEAN, n \in 0..5}
  \cup {D("OTHER", 0, 0, [k \in 1..n |-> Item(FALSE, 1, FALSE)]) : n \in 0..2}
=============================================================================
