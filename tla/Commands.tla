------------------------------ MODULE Commands ------------------------------
(***************************************************************************)
(* One request from its bytes to its reply: request_len finds its end      *)
(* (dap-async/src/framing.rs) and process_command parses it again, byte by *)
(* byte (dap.rs, io.rs), while it drives the wire.  The two parsers share  *)
(* no code.  A third reading, the host's own, says what the bytes mean.    *)
(* Data bytes are all alike; what AP reads, retries and matches do inside  *)
(* a DAP_Transfer is in module Transfer.                                   *)
(***************************************************************************)
EXTENDS Integers, Sequences, SequencesExt

CONSTANTS Descs,       \* the commands hosts send
          Capacity     \* bytes of the reply buffer

VARIABLES desc,        \* the command as the host means it
          buf,         \* the bytes received of it
          phase,       \* "idle", "receive", "head", "items", "done"
          at,          \* bytes the processor has consumed
          left,        \* items of the command still to parse
          effects,     \* what the processor asked of the driver and its settings
          rlen,        \* bytes of reply written
          status,      \* "", or how the command ended
          short,       \* the processor ran out of request bytes
          failed       \* a transfer was not answered OK

commandVars == <<desc, buf, phase, at, left, effects, rlen, status, short, failed>>

(***************************************************************************)
(* The host: a command is a name, an argument and items, each a sequence   *)
(* of bits or a transfer, to (out) or from (in) the target.                *)
(***************************************************************************)
Item(in, n, m) == [in |-> in, n |-> n, m |-> m]

Filler(n) == [k \in 1..n |-> 85]

EncodeItem(c, x) ==
  LET bytes == (x.n + 7) \div 8
      word == IF x.in /\ ~x.m THEN <<>> ELSE Filler(4)
  IN  CASE c = "SWD_SEQUENCE" ->
             <<(x.n % 64) + (IF x.in THEN 128 ELSE 0)>> \o (IF x.in THEN <<>> ELSE Filler(bytes))
        [] c = "JTAG_SEQUENCE" -> <<(x.n % 64) + (IF x.in THEN 128 ELSE 0)>> \o Filler(bytes)
        [] c = "SWJ_SEQUENCE" -> <<x.n % 256>> \o Filler(bytes)
        [] c = "TRANSFER" ->
             <<(IF x.in THEN 2 ELSE 0) + (IF x.m THEN (IF x.in THEN 16 ELSE 32) ELSE 0)>> \o word
        [] c = "TRANSFER_BLOCK" -> word
        [] OTHER -> <<x.n>>

Counted == {"SWD_SEQUENCE", "JTAG_SEQUENCE", "JTAG_CONFIGURE"}

Flag(byte, mask) == (byte \div mask) % 2 = 1

\* All words of a block go one way; an empty block still names its request.
EncodeHead(d) ==
  CASE d.c \in Counted -> <<Len(d.items)>>
    [] d.c = "TRANSFER" -> <<0, Len(d.items)>>
    [] d.c = "TRANSFER_BLOCK" -> <<0, Len(d.items) % 256, Len(d.items) \div 256, d.arg>>
    [] d.c \in {"SWJ_SEQUENCE", "OTHER"} -> <<>>
    [] OTHER -> IF d.size = 0 THEN <<>> ELSE <<d.arg>> \o Filler(d.size - 1)

Encode(d) ==
  <<d.c>> \o EncodeHead(d) \o FlattenSeq([k \in 1..Len(d.items) |-> EncodeItem(d.c, d.items[k])])

(***************************************************************************)
(* request_len.  A length is positive; 0 asks for more bytes.              *)
(***************************************************************************)
NeedMore == 0
Unknown == -1

FixedLen ==
  [DISCONNECT |-> 1, TRANSFER_ABORT |-> 1, RESET_TARGET |-> 1, SWO_STATUS |-> 1,
   INFO |-> 2, CONNECT |-> 2, SWD_CONFIGURE |-> 2, JTAG_IDCODE |-> 2, SWO_TRANSPORT |-> 2,
   SWO_MODE |-> 2, SWO_CONTROL |-> 2, SWO_EXTENDED_STATUS |-> 2,
   HOST_STATUS |-> 3, DELAY |-> 3, SWO_DATA |-> 3, SWJ_CLOCK |-> 5, SWO_BAUDRATE |-> 5,
   TRANSFER_CONFIGURE |-> 6, WRITE_ABORT |-> 6, SWJ_PINS |-> 7]

Fixed(b, n) == IF Len(b) >= n THEN n ELSE NeedMore

DivCeil8(bits) == (bits + 7) \div 8

InfoBits(info) == IF info % 64 = 0 THEN 64 ELSE info % 64

Names == DOMAIN FixedLen \cup {"SWJ_SEQUENCE", "SWD_SEQUENCE", "JTAG_SEQUENCE", "JTAG_CONFIGURE",
                               "TRANSFER", "TRANSFER_BLOCK", "OTHER"}

\* What fits the fields of a command.  A sequence of 64 bits, or of 256, is
\* encoded as one of 0.
Encodable(d) ==
  /\ d \in [c : Names, arg : 0..255, size : Nat,
            items : Seq([in : BOOLEAN, n : 0..256, m : BOOLEAN])]
  /\ d.c \in DOMAIN FixedLen => d.size = FixedLen[d.c] - 1 /\ d.items = <<>>
  /\ d.c \in Counted \cup {"TRANSFER"} => Len(d.items) <= 255
  /\ d.c \in {"SWD_SEQUENCE", "JTAG_SEQUENCE"} =>
       \A k \in DOMAIN d.items : d.items[k].n \in 1..64 /\ ~d.items[k].m
  /\ d.c = "SWJ_SEQUENCE" =>
       Len(d.items) = 1 /\ d.items[1].n \in 1..256 /\ ~d.items[1].in /\ ~d.items[1].m
  /\ d.c = "TRANSFER_BLOCK" =>
       /\ Len(d.items) < 65536
       /\ \A k \in DOMAIN d.items : d.items[k].in = Flag(d.arg, 2) /\ ~d.items[k].m

\* The buffer has room for every reply of fixed length; the firmware's are larger.
ASSUME CommandsAssumption ==
  /\ Capacity \in Nat /\ Capacity >= 14
  /\ \A d \in Descs : Encodable(d)

\* Mutant: a read with value match is taken for one without its value.
ItemLenNoMatch(c, byte) ==
  IF c = "TRANSFER" THEN (IF Flag(byte, 2) THEN 1 ELSE 5)
  ELSE 1 + (IF c = "JTAG_SEQUENCE" \/ ~Flag(byte, 128) THEN DivCeil8(InfoBits(byte)) ELSE 0)

\* Mutant: an input sequence is taken to carry data, as on JTAG.
ItemLenAlways(c, byte) ==
  IF c = "TRANSFER" THEN (IF Flag(byte, 2) /\ ~Flag(byte, 16) THEN 1 ELSE 5)
  ELSE 1 + DivCeil8(InfoBits(byte))

ItemLen(c, byte) ==
  IF c = "TRANSFER" THEN (IF Flag(byte, 2) /\ ~Flag(byte, 16) THEN 1 ELSE 5)
  ELSE 1 + (IF c = "JTAG_SEQUENCE" \/ ~Flag(byte, 128) THEN DivCeil8(InfoBits(byte)) ELSE 0)

\* The position after `count` items from `from`; -1 once a byte is missing.
ItemsEnd(b, from, count) ==
  LET end[k \in 0..count] ==
        IF k = 0 THEN from
        ELSE LET p == end[k - 1]
             IN  IF p < 0 \/ p >= Len(b) THEN -1 ELSE p + ItemLen(b[1], b[p + 1])
  IN  end[count]

CountedLen(b, from) ==
  IF Len(b) < from THEN NeedMore
  ELSE LET end == ItemsEnd(b, from, b[from])
       IN  IF end < 0 THEN NeedMore ELSE Fixed(b, end)

SwjBits(byte) == IF byte = 0 THEN 256 ELSE byte

\* Commands whose length is in their head, of the given size.
HeadLen(b, head, size) == IF Len(b) < head THEN NeedMore ELSE Fixed(b, head + size)

RequestLen(b) ==
  IF b = <<>> THEN NeedMore
  ELSE LET c == b[1]
           byte(k) == IF k \in DOMAIN b THEN b[k] ELSE 0
       IN  CASE c \in DOMAIN FixedLen -> Fixed(b, FixedLen[c])
             [] c = "SWJ_SEQUENCE" -> HeadLen(b, 2, DivCeil8(SwjBits(byte(2))))
             [] c = "JTAG_CONFIGURE" -> HeadLen(b, 2, byte(2))
             [] c = "TRANSFER_BLOCK" ->
                  HeadLen(b, 5, IF Flag(byte(5), 2) THEN 0 ELSE 4 * (byte(3) + 256 * byte(4)))
             [] c = "TRANSFER" -> CountedLen(b, 3)
             [] c \in {"SWD_SEQUENCE", "JTAG_SEQUENCE"} -> CountedLen(b, 2)
             [] OTHER -> Unknown
-----------------------------------------------------------------------------
(***************************************************************************)
(* process_command.  Have is the bounds check of every accessor of         *)
(* Request, Byte what it reads; Lacking is a handler it ends early, which  *)
(* process_command answers with an error.                                  *)
(***************************************************************************)
Have(n) == at + n <= Len(buf)

Byte(k) == IF k \in DOMAIN buf THEN buf[k] ELSE 0

Effect(e, in, n) == <<[e |-> e, in |-> in, n |-> n]>>

Finish(n) == phase' = "done" /\ status' = "ok" /\ rlen' = n

Fail == phase' = "done" /\ status' = "error" /\ rlen' = 2 /\ UNCHANGED <<at, left, failed>>

Lacking == short' = TRUE /\ Fail /\ UNCHANGED effects

Refused == Fail /\ UNCHANGED <<effects, short>>

\* The fixed commands, as the reads of their payload in order and what each
\* handler does once it has them: settings are assigned one by one.
Get(n) == [n |-> n, e |-> ""]
Then(n, e) == [n |-> n, e |-> e]

\* Mutant: the settings of DAP_TransferConfigure are assigned out of order.
TransferConfigureSwapped == <<Then(1, "idle_cycles"), Then(2, "match_retries"), Then(2, "wait_retries")>>

TransferConfigure == <<Then(1, "idle_cycles"), Then(2, "wait_retries"), Then(2, "match_retries")>>

Script ==
  [INFO |-> <<Get(1)>>, CONNECT |-> <<Then(1, "connect")>>, DISCONNECT |-> <<Then(0, "disconnect")>>,
   HOST_STATUS |-> <<Get(1), Then(1, "host_status")>>, DELAY |-> <<Then(2, "delay")>>,
   TRANSFER_CONFIGURE |-> TransferConfigure, WRITE_ABORT |-> <<Get(1), Then(4, "transfer")>>,
   SWJ_PINS |-> <<Get(1), Get(1), Then(4, "swj_pins")>>, SWJ_CLOCK |-> <<Then(4, "set_clock")>>,
   SWD_CONFIGURE |-> <<Then(1, "turnaround")>>, SWO_TRANSPORT |-> <<Get(1)>>, RESET_TARGET |-> <<>>,
   SWO_BAUDRATE |-> <<>>, SWO_STATUS |-> <<>>, SWO_EXTENDED_STATUS |-> <<>>, SWO_DATA |-> <<>>]

\* A kind of status or a transport that the firmware does not know.
Rejects(c) == (c = "HOST_STATUS" /\ Byte(2) > 1) \/ (c = "SWO_TRANSPORT" /\ Byte(2) > 2)

\* DAP_Connect to a port that is not SWD answers 0 and touches nothing.
NoPort(c) == c = "CONNECT" /\ Byte(2) > 1

\* The version string is 5 bytes in this model.
FixedReply(c) ==
  CASE c = "RESET_TARGET" -> 3 [] c = "SWO_BAUDRATE" -> 5 [] c = "SWO_STATUS" -> 6
    [] c = "SWO_EXTENDED_STATUS" -> 14 [] c = "SWO_DATA" -> 4
    [] c = "INFO" -> (CASE Byte(2) = 4 -> 2 + 5 [] Byte(2) \in {240, 254} -> 3
                        [] Byte(2) = 253 -> 6 [] Byte(2) = 255 -> 4 [] OTHER -> 2)
    [] OTHER -> 2

Command(c) == phase = "head" /\ buf # <<>> /\ buf[1] = c /\ UNCHANGED <<desc, buf>>

\* No reply to an empty request or an abort, one byte to an unknown command,
\* and an error to what needs JTAG or SWO.
Immediate ==
  /\ phase = "head"
  /\ \/ buf = <<>> /\ status' = "none" /\ rlen' = 0
     \/ buf # <<>> /\ buf[1] = "TRANSFER_ABORT" /\ status' = "none" /\ rlen' = 0
     \/ buf # <<>> /\ buf[1] = "OTHER" /\ status' = "invalid" /\ rlen' = 1
     \/ /\ buf # <<>>
        /\ buf[1] \in {"JTAG_SEQUENCE", "JTAG_CONFIGURE", "JTAG_IDCODE", "SWO_MODE", "SWO_CONTROL"}
        /\ status' = "error" /\ rlen' = 2
  /\ phase' = "done"
  /\ UNCHANGED <<desc, buf, at, left, effects, short, failed>>

\* One read of a fixed command and what follows it; left counts them.
Simple ==
  \E c \in DOMAIN Script :
    /\ Command(c)
    /\ LET step == Script[c][left + 1]
           rejected == left + 1 = Len(Script[c]) /\ Rejects(c)
       IN  \/ left = Len(Script[c]) /\ Finish(FixedReply(c)) /\ UNCHANGED <<at, left, effects, short, failed>>
           \/ left < Len(Script[c]) /\ ~Have(step.n) /\ Lacking
           \/ left < Len(Script[c]) /\ Have(step.n) /\ rejected /\ Refused
           \/ /\ left < Len(Script[c]) /\ Have(step.n) /\ ~rejected
              /\ at' = at + step.n /\ left' = left + 1
              /\ effects' = effects \o (IF step.e = "" \/ NoPort(c) THEN <<>> ELSE Effect(step.e, FALSE, 0))
              /\ UNCHANGED <<phase, rlen, status, short, failed>>

SwjSequence ==
  /\ Command("SWJ_SEQUENCE")
  /\ LET bits == SwjBits(Byte(2))
         need == 1 + DivCeil8(bits)
     IN  \/ ~(Have(1) /\ Have(need)) /\ Lacking
         \/ /\ Have(1) /\ Have(need)
            /\ at' = at + need /\ effects' = Effect("sequence", FALSE, bits) /\ Finish(2)
            /\ UNCHANGED <<left, short, failed>>

\* The head of a counted command: n bytes, whose last says how many items.
CountedHead(c, n, reply) ==
  /\ Command(c)
  /\ \/ ~Have(n) /\ Lacking
     \/ /\ Have(n)
        /\ at' = at + n /\ left' = Byte(1 + n) /\ rlen' = rlen + reply /\ phase' = "items"
        /\ UNCHANGED <<effects, status, short, failed>>

SequenceHead == CountedHead("SWD_SEQUENCE", 1, 1)

TransferHead == CountedHead("TRANSFER", 2, 2)

NextItem(c) == phase = "items" /\ buf[1] = c /\ left > 0 /\ UNCHANGED <<desc, buf>>

\* Mutant: input sequences round their bits down to bytes.
SequenceBytesDown(bits) == bits \div 8

SequenceBytes(bits) == DivCeil8(bits)

SwdSequence ==
  /\ NextItem("SWD_SEQUENCE")
  /\ LET bits == InfoBits(Byte(at + 1))
         in == Flag(Byte(at + 1), 128)
         need == 1 + (IF in THEN 0 ELSE DivCeil8(bits))
         reply == IF in THEN SequenceBytes(bits) ELSE 0
     IN  \/ ~(Have(1) /\ Have(need)) /\ Lacking
         \/ Have(1) /\ Have(need) /\ rlen + reply > Capacity /\ Refused
         \/ /\ Have(1) /\ Have(need) /\ rlen + reply <= Capacity
            /\ at' = at + need /\ rlen' = rlen + reply /\ left' = left - 1
            /\ effects' = effects \o Effect("sequence", in, bits)
            /\ UNCHANGED <<phase, status, short, failed>>

\* One transfer with a DP register: plain reads add a word to the reply,
\* writes and reads with a value take one from the request, and a write of the
\* mask is no transfer.  Room for the word is found out after the transfer.
TransferItem ==
  /\ NextItem("TRANSFER")
  /\ LET rv == Byte(at + 1)
         in == Flag(rv, 2)
         word == ~in \/ Flag(rv, 16)
         mask == ~in /\ Flag(rv, 32)
         need == IF word THEN 5 ELSE 1
         reply == IF word THEN 0 ELSE 4
     IN  \/ ~(Have(1) /\ Have(need)) /\ Lacking
         \/ /\ Have(1) /\ Have(need)
            /\ effects' = effects \o Effect(IF mask THEN "mask" ELSE "transfer", in, 1)
            /\ UNCHANGED short
            /\ \/ rlen + reply > Capacity /\ Fail
               \/ /\ rlen + reply <= Capacity
                  /\ at' = at + need /\ left' = left - 1 /\ rlen' = rlen + reply
                  /\ UNCHANGED <<phase, status, failed>>
               \/ ~mask /\ at' = at + need /\ failed' = TRUE /\ Finish(rlen) /\ UNCHANGED left

\* A last write is checked with a read of RDBUFF, which may fail too.
ItemsDone ==
  /\ phase = "items" /\ left = 0
  /\ Finish(rlen)
  /\ failed' \in {FALSE, effects # <<>> /\ Last(effects).e = "transfer" /\ ~Last(effects).in}
  /\ UNCHANGED <<desc, buf, at, left, effects, short>>

\* Count, request byte and data; a block stops at the first word that fails.
TransferBlock ==
  /\ Command("TRANSFER_BLOCK")
  /\ LET total == Byte(3) + 256 * Byte(4)
         in == Flag(Byte(5), 2)
         need == IF total = 0 THEN 3 ELSE 4 + (IF in THEN 0 ELSE 4 * total)
         reply(got) == 4 + (IF in THEN 4 * got ELSE 0)
         ready == Have(3) /\ Have(need)
     IN  \/ ~ready /\ Lacking
         \/ ready /\ reply(total) > Capacity /\ Refused
         \/ ready /\ total = 0 /\ at' = at + 3 /\ Finish(4) /\ UNCHANGED <<left, effects, short, failed>>
         \/ /\ ready /\ total > 0 /\ reply(total) <= Capacity
            /\ at' = at + need
            /\ \E got \in 0..total :
                 Finish(reply(got)) /\ effects' = Effect("block", in, got) /\ failed' = (got < total)
            /\ UNCHANGED <<left, short>>
-----------------------------------------------------------------------------
NoDesc == [c |-> "", arg |-> 0, size |-> 0, items |-> <<>>]

CommandsInit ==
  /\ desc = NoDesc /\ buf = <<>> /\ phase = "idle" /\ at = 0 /\ left = 0 /\ effects = <<>>
  /\ rlen = 0 /\ status = "" /\ short = FALSE /\ failed = FALSE

HostSends(d) ==
  /\ phase = "idle"
  /\ desc' = d /\ phase' = "receive"
  /\ UNCHANGED <<buf, at, left, effects, rlen, status, short, failed>>

\* The next byte; behind the request comes the next one, unless it is unknown
\* and a short packet ends it.
Receive ==
  /\ phase = "receive" /\ RequestLen(buf) <= 0
  /\ LET bytes == Encode(desc)
     IN  /\ Len(buf) < Len(bytes) \/ RequestLen(buf) = NeedMore
         /\ buf' = Append(buf, IF Len(buf) < Len(bytes) THEN bytes[Len(buf) + 1] ELSE 85)
  /\ UNCHANGED <<desc, phase, at, left, effects, rlen, status, short, failed>>

\* The parser knows the end, or a short packet came first.
BeginCommand ==
  /\ phase = "receive" /\ phase' = "head"
  /\ at' = IF buf = <<>> THEN 0 ELSE 1
  /\ rlen' = at'
  /\ UNCHANGED <<desc, buf, left, effects, status, short, failed>>

Answer ==
  /\ phase = "done"
  /\ phase' = "idle" /\ desc' = NoDesc /\ buf' = <<>> /\ at' = 0 /\ left' = 0 /\ effects' = <<>>
  /\ rlen' = 0 /\ status' = "" /\ short' = FALSE /\ failed' = FALSE

Process ==
  \/ Immediate \/ Simple \/ SwjSequence \/ TransferBlock
  \/ SequenceHead \/ SwdSequence \/ TransferHead \/ TransferItem \/ ItemsDone

CommandsNext == (\E d \in Descs : HostSends(d)) \/ Receive \/ BeginCommand \/ Process \/ Answer

CommandsSpec == CommandsInit /\ [][CommandsNext]_commandVars
-----------------------------------------------------------------------------
WholeCommand == Len(buf) = Len(Encode(desc))

Variable == {"SWJ_SEQUENCE", "SWD_SEQUENCE", "TRANSFER", "TRANSFER_BLOCK"}

\* request_len finds the end of every standard request at its last byte, not
\* before, not after, and not elsewhere when the host's next bytes are behind it.
ParserExact ==
  phase = "receive" /\ desc.c # "OTHER" =>
    /\ Len(buf) <= Len(Encode(desc))
    /\ RequestLen(buf) > 0 <=> WholeCommand
    /\ WholeCommand => RequestLen(buf \o Filler(6)) = Len(buf)

\* What request_len calls complete, process_command finds complete: it never
\* runs out of bytes, and unless a transfer fails it leaves none.
CompleteIsEnough ==
  phase = "done" /\ RequestLen(buf) = Len(buf) =>
    /\ ~short
    /\ desc.c \in Variable /\ status = "ok" /\ ~failed =>
         at = Len(buf) \/ (desc.c = "TRANSFER_BLOCK" /\ desc.items = <<>>)

\* What the host means: its sequences and transfers in order, and the settings
\* of the fixed commands.
Fixed0 ==
  [HOST_STATUS |-> <<"host_status">>, DISCONNECT |-> <<"disconnect">>,
   TRANSFER_CONFIGURE |-> <<"idle_cycles", "wait_retries", "match_retries">>,
   WRITE_ABORT |-> <<"transfer">>, DELAY |-> <<"delay">>, SWJ_PINS |-> <<"swj_pins">>,
   SWJ_CLOCK |-> <<"set_clock">>, SWD_CONFIGURE |-> <<"turnaround">>,
   CONNECT |-> <<"connect">>]

Meant(d) ==
  LET n == Len(d.items)
      one(x) == CASE d.c = "TRANSFER" -> [e |-> IF x.m /\ ~x.in THEN "mask" ELSE "transfer",
                                          in |-> x.in, n |-> 1]
                  [] OTHER -> [e |-> "sequence", in |-> x.in, n |-> x.n]
  IN  CASE d.c \in {"SWD_SEQUENCE", "SWJ_SEQUENCE", "TRANSFER"} -> [k \in 1..n |-> one(d.items[k])]
        [] d.c = "TRANSFER_BLOCK" -> IF n = 0 THEN <<>> ELSE Effect("block", d.items[1].in, n)
        [] d.c \in DOMAIN Fixed0 /\ ~(d.c = "CONNECT" /\ d.arg > 1) ->
             [k \in 1..Len(Fixed0[d.c]) |-> [e |-> Fixed0[d.c][k], in |-> FALSE, n |-> 0]]
        [] OTHER -> <<>>

\* The driver is asked for what the host meant, in that order, of a request cut
\* short for a part of it, and an OK says that it was all of it.
EffectsAsMeant ==
  /\ ~failed => IsPrefix(effects, Meant(desc))
  /\ status = "ok" /\ ~failed => effects = Meant(desc)

\* An OK reply is as long as the host expects from its own request, with one
\* word or sequence for each that it asked for; a refusal is two bytes; and no
\* reply overruns the buffer.
MeantReply(d) ==
  LET n == Len(d.items)
      bytes == [k \in 1..n |-> IF ~d.items[k].in \/ d.items[k].m THEN 0
                               ELSE IF d.c = "SWD_SEQUENCE" THEN (d.items[k].n + 7) \div 8 ELSE 4]
  IN  Len(FlattenSeq([k \in 1..n |-> Filler(bytes[k])]))
        + (CASE d.c = "TRANSFER" -> 3 [] d.c = "TRANSFER_BLOCK" -> 4 [] OTHER -> 2)

ReplyAsMeant ==
  phase = "done" =>
    /\ rlen <= Capacity
    /\ status = "error" => rlen = 2
    /\ status = "ok" /\ desc.c \in Variable =>
         IF failed THEN rlen <= MeantReply(desc) ELSE rlen = MeantReply(desc)
=============================================================================
