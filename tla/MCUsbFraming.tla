---------------------------- MODULE MCUsbFraming ----------------------------
(* Instances of UsbFraming for TLC: packets of 2 bytes, buffers of 3 packets. *)
EXTENDS UsbFraming

BelowBuf == 0 .. BUF - 1
OnePacket == 1 .. MPS
Oversize == 1 .. BUF + MPS
=============================================================================
