----------------------------- MODULE UsbFraming -----------------------------
(***************************************************************************)
(* How one DAP request and its reply cross a bulk endpoint whose packets   *)
(* are smaller than the DAP packet: read_request reassembles a request     *)
(* from USB packets with the help of dap_async::request_len, and           *)
(* write_response cuts the reply into packets, with or without a           *)
(* zero-length packet at the end.  firmware/src/main.rs.                   *)
(*                                                                         *)
(* Bytes are counted, not represented: a packet is the part of its         *)
(* transfer from offset off, size bytes long.                              *)
(***************************************************************************)
EXTENDS Integers, Sequences

CONSTANTS
  MPS,           \* USB_MPS, bytes in a full packet
  BUF,           \* DAP_PACKET_SIZE, bytes in a request or reply buffer
  StdLens,       \* lengths of the standard requests the host sends
  StdReplies,    \* lengths of the replies to them (0: none, TransferAbort)
  VendorLens,    \* lengths of the vendor requests
  VendorReplies, \* lengths of the replies to them
  HostZlps,      \* whether hosts end an exact multiple with an empty packet
  MaxReq         \* bound: requests the host sends

ASSUME FramingAssumption ==
  /\ MPS \in Nat \ {0} /\ BUF \in Nat /\ BUF % MPS = 0 /\ BUF >= MPS
  /\ StdLens \subseteq Nat \ {0} /\ StdReplies \subseteq 0 .. BUF
  /\ VendorLens \subseteq 1 .. MPS /\ VendorReplies \subseteq 1 .. MPS
  /\ HostZlps \subseteq BOOLEAN /\ MaxReq \in Nat

Requests ==
  [vendor : {FALSE}, len : StdLens, rlen : StdReplies]
    \cup [vendor : {TRUE}, len : VendorLens, rlen : VendorReplies]

VARIABLES
  reqs,      \* the requests the host has sent so far
  host,      \* "idle", "waiting" for a reply
  wire,      \* packets of the OUT endpoint not yet read
  fw,        \* "read", "send": where serve_request is
  head,      \* read_request: the first packet in the buffer
  len,       \* read_request: bytes in the buffer
  served,    \* history: what was dispatched, as [id, off, len]
  reply,     \* write_response: id, packet sizes still to write, bytes left
  slot,      \* the IN endpoint: at most one packet
  rx,        \* bytes of the host's current IN transfer
  taken      \* history: the host's completed IN transfers

vars == <<reqs, host, wire, fw, head, len, served, reply, slot, rx, taken>>

\* The sizes of the packets that carry n bytes, zlp: with a zero-length packet
\* if n is an exact multiple of the packet.
Packets(n, zlp) ==
  [i \in 1 .. (n \div MPS) + (IF n % MPS # 0 \/ zlp THEN 1 ELSE 0)
     |-> IF i * MPS <= n THEN MPS ELSE n % MPS]

NoPacket == [id |-> 0, off |-> 0, size |-> 0]
NoReply == [id |-> 0, todo |-> <<>>]

Init ==
  /\ reqs = <<>> /\ host = "idle" /\ wire = <<>>
  /\ fw = "read" /\ head = NoPacket /\ len = 0
  /\ served = <<>> /\ reply = NoReply /\ slot = <<>> /\ rx = 0 /\ taken = <<>>

\* DAP_Info advertises one packet at a time, so the host sends a request when
\* it has the reply to the one before.
HostSend ==
  /\ host = "idle" /\ Len(reqs) < MaxReq
  /\ \E r \in Requests, z \in HostZlps :
       /\ reqs' = Append(reqs, r)
       /\ host' = IF r.rlen = 0 THEN "idle" ELSE "waiting"
       /\ LET sizes == Packets(r.len, z /\ ~r.vendor)
          IN wire' = wire \o [i \in DOMAIN sizes |->
                        [id |-> Len(reqs) + 1, off |-> (i - 1) * MPS, size |-> sizes[i]]]
  /\ UNCHANGED <<fw, head, len, served, reply, slot, rx, taken>>

-----------------------------------------------------------------------------
(* read_request.                                                            *)

\* request_len of the buffer that starts with packet h and holds n bytes.  A
\* standard request is self-describing: its length is known, and Complete, once
\* all of it is there.  In the middle of a request the bytes mean anything.
Framing(h, n) ==
  IF h.off # 0 THEN {"NeedMore", "Complete", "Unknown"}
  ELSE IF reqs[h.id].vendor THEN {"Unknown"}
  ELSE IF n >= reqs[h.id].len THEN {"Complete"} ELSE {"NeedMore"}

\* The length of the reply to what was dispatched; a fragment taken for a
\* request is answered like any command (DAP_ERROR, say).
ReplyLen(d) == IF d.off = 0 THEN reqs[d.id].rlen ELSE 2

\* Mutant: the zero-length packet is sent to vendor hosts too.
ZlpAlways(d) == TRUE

\* Vendor hosts read exactly one USB packet and get no zero-length packet.
ZlpAfter(d) == d.off # 0 \/ ~reqs[d.id].vendor

\* serve_request dispatches the request and has its reply.
Serve(d) ==
  /\ served' = Append(served, d)
  /\ IF ReplyLen(d) = 0
     THEN UNCHANGED <<fw, reply>>
     ELSE /\ fw' = "send"
          /\ reply' = [id |-> d.id, todo |-> Packets(ReplyLen(d), ZlpAfter(d))]

\* Mutant: what did not fit is dispatched as far as it was read.
ReadOverflowDispatch ==
  /\ fw = "read" /\ len + MPS > BUF
  /\ len' = 0 /\ head' = NoPacket
  /\ Serve([id |-> head.id, off |-> head.off, len |-> len])
  /\ UNCHANGED <<reqs, host, wire, slot, rx, taken>>

\* Mutant: only a short packet ends a request.
ReadPacketShortOnly ==
  /\ fw = "read" /\ len + MPS <= BUF /\ wire # <<>>
  /\ wire' = Tail(wire)
  /\ LET p == Head(wire)
         first == IF len = 0 THEN p ELSE head
         n == len + p.size
     IN \/ /\ p.size = MPS
           /\ head' = first /\ len' = n
           /\ UNCHANGED <<fw, served, reply>>
        \/ /\ p.size < MPS
           /\ head' = NoPacket /\ len' = 0
           /\ IF n = 0 THEN UNCHANGED <<fw, served, reply>>
              ELSE Serve([id |-> first.id, off |-> first.off, len |-> n])
  /\ UNCHANGED <<reqs, host, slot, rx, taken>>

\* Mutant: a full packet always ends the request.
ReadPacketNoReassembly ==
  /\ fw = "read" /\ wire # <<>>
  /\ wire' = Tail(wire)
  /\ head' = NoPacket /\ len' = 0
  /\ IF Head(wire).size = 0 THEN UNCHANGED <<fw, served, reply>>
     ELSE Serve([id |-> Head(wire).id, off |-> Head(wire).off,
                 len |-> Head(wire).size])
  /\ UNCHANGED <<reqs, host, slot, rx, taken>>

\* One packet: the request goes on if it is full and request_len wants more;
\* otherwise it ends, and an empty one is dropped.
ReadPacket ==
  /\ fw = "read" /\ len + MPS <= BUF /\ wire # <<>>
  /\ wire' = Tail(wire)
  /\ LET p == Head(wire)
         first == IF len = 0 THEN p ELSE head
         n == len + p.size
     IN \E f \in Framing(first, n) :
          \/ /\ p.size = MPS /\ f = "NeedMore"
             /\ head' = first /\ len' = n
             /\ UNCHANGED <<fw, served, reply>>
          \/ /\ p.size < MPS \/ f # "NeedMore"
             /\ head' = NoPacket /\ len' = 0
             /\ IF n = 0 THEN UNCHANGED <<fw, served, reply>>
                ELSE Serve([id |-> first.id, off |-> first.off, len |-> n])
  /\ UNCHANGED <<reqs, host, slot, rx, taken>>

\* The buffer is full and the request is not complete: dropped.
ReadOverflow ==
  /\ fw = "read" /\ len + MPS > BUF
  /\ len' = 0 /\ head' = NoPacket
  /\ UNCHANGED <<reqs, host, wire, fw, served, reply, slot, rx, taken>>

-----------------------------------------------------------------------------
(* write_response, and the host collecting the packets.                     *)

WritePacket ==
  /\ fw = "send" /\ slot = <<>>
  /\ slot' = <<[id |-> reply.id, size |-> Head(reply.todo)]>>
  /\ IF Len(reply.todo) = 1
     THEN fw' = "read" /\ reply' = NoReply
     ELSE reply' = [reply EXCEPT !.todo = Tail(@)] /\ UNCHANGED fw
  /\ UNCHANGED <<reqs, host, wire, head, len, served, rx, taken>>

\* What the host asks for in one IN transfer: the DAP packet, or one USB packet
\* on the configuration protocol.
ReadSize == IF reqs[Len(reqs)].vendor THEN MPS ELSE BUF

\* A transfer ends with a short packet or when it has all it asked for.
HostCollect ==
  /\ host = "waiting" /\ slot # <<>>
  /\ slot' = <<>>
  /\ LET n == rx + slot[1].size IN
       IF slot[1].size < MPS \/ n = ReadSize
       THEN /\ taken' = Append(taken, [id |-> slot[1].id, len |-> n,
                                       want |-> Len(reqs)])
            /\ rx' = 0 /\ host' = "idle"
       ELSE rx' = n /\ UNCHANGED <<taken, host>>
  /\ UNCHANGED <<reqs, wire, fw, head, len, served, reply>>

Next ==
  HostSend \/ ReadOverflow \/ ReadPacket \/ WritePacket \/ HostCollect

\* The firmware serves what is on the wire and the host reads what is armed;
\* the host need not send anything.
Spec == Init /\ [][Next]_vars
          /\ WF_vars(ReadOverflow \/ ReadPacket \/ WritePacket)
          /\ WF_vars(HostCollect)

-----------------------------------------------------------------------------
\* The host has sent no request longer than the firmware's buffer.
Conforming == \A i \in DOMAIN reqs : reqs[i].len <= BUF

\* While the host's requests fit, every command dispatched is exactly one
\* request, whole and alone: nothing is cut, merged or taken twice, whatever its
\* length is a multiple of.
Reassembled ==
  Conforming =>
  /\ \A i \in DOMAIN served :
       served[i].off = 0 /\ served[i].len = reqs[served[i].id].len
  /\ \A i, j \in DOMAIN served : i < j => served[i].id < served[j].id

\* Every IN transfer the host completes is the whole reply to the request it
\* waits for.
OneReplyPerTransfer ==
  Conforming =>
  \A i \in DOMAIN taken :
    taken[i].id = taken[i].want /\ taken[i].len = reqs[taken[i].want].rlen

\* Every request is answered: a request that is an exact multiple of the packet
\* does not wait for more, nor does the host at the end of such a reply.
EveryRequestAnswered == Conforming /\ host = "waiting" ~> host = "idle"

\* A command is executed whole or not at all, also when the host sends more than
\* the buffer holds: what was dropped is never taken for a shorter command.
NoPartialCommand ==
  \A i \in DOMAIN served :
    served[i].off = 0 => served[i].len = reqs[served[i].id].len
=============================================================================
