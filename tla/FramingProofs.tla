--------------------------- MODULE FramingProofs ---------------------------
(***************************************************************************)
(* Requests and replies across the endpoint, for packets and buffers of    *)
(* every size and requests and replies of every length; and, below, the    *)
(* commands the requests are made of: the parser that finds where one ends *)
(* and the handlers that read it, for commands of every length.            *)
(***************************************************************************)
EXTENDS UsbFraming, Commands, SequenceLemmas, TLAPS

Packet == [id : Nat, off : Nat, size : 0..MPS]
Dispatch == [id : Nat, off : Nat, len : Nat]
Transfer == [id : Nat, len : Nat, want : Nat]

Typed ==
  /\ reqs \in Seq(Requests) /\ host \in {"idle", "waiting"}
  /\ wire \in Seq(Packet) /\ head \in Packet /\ len \in Nat
  /\ fw \in {"read", "send"} /\ served \in Seq(Dispatch)
  /\ reply \in [id : Nat, todo : Seq(0..MPS)]
  /\ slot \in Seq([id : Nat, size : 0..MPS]) /\ Len(slot) <= 1
  /\ rx \in Nat /\ taken \in Seq(Transfer)

-----------------------------------------------------------------------------
(* The requests on the wire.                                                *)

Sent == 1..Len(reqs)

\* A packet that is the last of its request, or the empty one behind it.
Ends(p) == p.off + p.size = reqs[p.id].len

\* A packet is full, or nothing comes after it.  One that begins within the
\* buffer fits in it.
Part(p) ==
  /\ p.id \in Sent /\ p.off + p.size <= reqs[p.id].len
  /\ p.size # MPS => Ends(p)
  /\ p.off = 0 => p.size > 0
  /\ reqs[p.id].vendor => p.off = 0
  /\ p.off < BUF => p.off + MPS <= BUF

\* A request goes on until its end, and the next one begins with its first byte.
Follows(p, q) ==
  \/ q.id = p.id /\ q.off = p.off + p.size
  \/ Ends(p) /\ q.off = 0 /\ p.id < q.id

\* Everything the host has sent, in order and to the end.
InOrder ==
  /\ \A i \in 1..Len(wire) : Part(wire[i])
  /\ \A i \in 1..Len(wire) : i < Len(wire) => Follows(wire[i], wire[i + 1])
  /\ \A i, j \in 1..Len(wire) : i < j =>
       \/ wire[i].id < wire[j].id
       \/ wire[i].id = wire[j].id /\ wire[i].off + wire[i].size <= wire[j].off
  /\ wire # <<>> => Ends(wire[Len(wire)])

\* A request that is partly in the buffer is the one that the wire goes on with.
Reading ==
  len > 0 =>
    /\ head.id \in Sent
    /\ head.off = 0 =>
         /\ ~reqs[head.id].vendor /\ len < reqs[head.id].len
         /\ wire # <<>> /\ wire[1].id = head.id /\ wire[1].off = len

ServedWhole ==
  \A i \in 1..Len(served) :
    served[i].id \in Sent /\ (served[i].off = 0 => served[i].len = reqs[served[i].id].len)

Whole == Typed /\ InOrder /\ Reading /\ ServedWhole /\ (fw = "send" => reply.todo # <<>>)

-----------------------------------------------------------------------------
(* While the host's requests fit.                                           *)

\* The last request that was dispatched.
LastRequest == IF served = <<>> THEN 0 ELSE served[Len(served)].id

\* What is left to read begins with a request that was not dispatched yet, but
\* for an empty packet behind the one that was.
Ahead ==
  /\ \A i \in 1..Len(wire) :
       LastRequest < wire[i].id \/ (LastRequest = wire[i].id /\ wire[i].size = 0)
  /\ len = 0 /\ wire # <<>> => wire[1].off = 0 \/ wire[1].size = 0
  /\ len > 0 => head.off = 0 /\ LastRequest < head.id

ServedOnce ==
  /\ \A i \in 1..Len(served) : served[i].off = 0 /\ served[i].id <= LastRequest
  /\ \A i, j \in 1..Len(served) : i < j => served[i].id < served[j].id

\* The host waits for the answer to its last request; those before had none.
Waited ==
  /\ \A i \in Sent : LastRequest < i => reqs[i].rlen = 0 \/ (host = "waiting" /\ i = Len(reqs))
  /\ host = "waiting" => reqs # <<>> /\ reqs[Len(reqs)].rlen > 0

\* b bytes of a reply of n bytes are written, and the packets of s are not.  A
\* reply of a configuration session is one packet, any other ends with a short one.
Remaining(s, b, n) ==
  /\ s # <<>>
  /\ \A i \in 1..Len(s) : i < Len(s) => s[i] = MPS
  /\ b + (Len(s) - 1) * MPS + s[Len(s)] = n
  /\ IF reqs[Len(reqs)].vendor THEN Len(s) = 1 /\ b = 0 ELSE s[Len(s)] < MPS

InSlot == IF slot = <<>> THEN 0 ELSE slot[1].size

\* The packets of one reply are on their way, and no other ones.
Replying ==
  /\ fw = "send" \/ slot # <<>> => host = "waiting" /\ LastRequest = Len(reqs)
  /\ fw = "send" =>
       /\ reply.id = Len(reqs)
       /\ Remaining(reply.todo, rx + InSlot, reqs[Len(reqs)].rlen)
       /\ slot # <<>> => slot[1] = [id |-> Len(reqs), size |-> MPS]
  /\ fw = "read" /\ slot # <<>> =>
       slot[1].id = Len(reqs) /\ Remaining(<<slot[1].size>>, rx, reqs[Len(reqs)].rlen)
  /\ rx > 0 => host = "waiting" /\ (fw = "send" \/ slot # <<>>)
  /\ host = "waiting" /\ LastRequest = Len(reqs) => fw = "send" \/ slot # <<>>
  /\ fw = "read" \/ len = 0

Taken ==
  \A i \in 1..Len(taken) :
    /\ taken[i].id = taken[i].want /\ taken[i].id \in Sent
    /\ taken[i].len = reqs[taken[i].id].rlen

Exchange == Conforming => Ahead /\ ServedOnce
Answered == Conforming => Waited /\ Replying /\ Taken

-----------------------------------------------------------------------------
(* Cutting bytes into packets.                                              *)

\* s is n bytes cut into full packets and what is left: maybe nothing, if they
\* are to end with an empty packet.
IsCut(s, n, zlp) ==
  /\ s \in Seq(0..MPS) /\ Len(s) > 0
  /\ \A i \in 1..Len(s) : i < Len(s) => s[i] = MPS
  /\ (Len(s) - 1) * MPS + s[Len(s)] = n
  /\ IF zlp THEN s[Len(s)] < MPS ELSE s[Len(s)] > 0

LEMMA Cut ==
  ASSUME NEW n \in Nat, NEW zlp \in BOOLEAN, zlp \/ n > 0
  PROVE  IsCut(Packets(n, zlp), n, zlp)
<1> DEFINE q == n \div MPS
           r == n % MPS
           c == q + (IF r # 0 \/ zlp THEN 1 ELSE 0)
           s == Packets(n, zlp)
<1>1. MPS \in Nat /\ MPS > 0
  BY FramingAssumption
<1>2. q \in Nat /\ r \in 0..(MPS - 1) /\ n = q * MPS + r
  BY <1>1, SMT
<1> HIDE DEF q, r
<1>3. c \in Nat /\ c > 0 /\ c \in {q, q + 1} /\ (c = q => r = 0 /\ ~zlp)
  BY <1>1, <1>2
<1>4. s = [i \in 1..c |-> IF i * MPS <= n THEN MPS ELSE r]
  BY DEF Packets, q, r
<1> HIDE DEF c, s
<1>5. \A i \in 1..c : s[i] = IF i * MPS <= n THEN MPS ELSE r
  BY <1>4
<1>6. \A i \in Nat : i <= q => i * MPS <= n
  <2> SUFFICES ASSUME NEW i \in Nat, i <= q PROVE i * MPS <= q * MPS
    BY <1>1, <1>2
  <2> QED BY <1>1, <1>2
<1>7. (q + 1) * MPS > n
  BY <1>1, <1>2
<1>8. s \in Seq(0..MPS) /\ Len(s) = c
  BY <1>1, <1>2, <1>3, <1>4
<1>9. \A i \in 1..c : i < c => s[i] = MPS
  BY <1>2, <1>3, <1>5, <1>6
<1>10. (c - 1) * MPS + s[c] = n /\ (IF zlp THEN s[c] < MPS ELSE s[c] > 0)
  <2>1. CASE c = q
    <3>1. s[c] = MPS
      BY <1>2, <1>3, <1>5, <1>6, <2>1
    <3> QED BY <1>1, <1>2, <1>3, <2>1, <3>1
  <2>2. CASE c = q + 1
    <3>1. s[c] = r
      BY <1>3, <1>5, <1>7, <2>2, <1>1, <1>2
    <3>2. zlp \/ r # 0
      BY <1>2, <2>2 DEF c
    <3> QED BY <1>1, <1>2, <2>2, <3>1, <3>2
  <2> QED BY <1>3, <2>1, <2>2
<1> QED BY <1>3, <1>8, <1>9, <1>10 DEF s, IsCut

\* A buffer holds a whole number of packets.
LEMMA Grid ==
  ASSUME NEW k \in Nat, k * MPS < BUF
  PROVE  k * MPS + MPS <= BUF
<1>1. MPS \in Nat /\ MPS > 0 /\ BUF \in Nat /\ BUF % MPS = 0
  BY FramingAssumption
<1>2. PICK m \in Nat : BUF = m * MPS
  <2>1. BUF = (BUF \div MPS) * MPS + (BUF % MPS) /\ BUF \div MPS \in Nat
    BY <1>1, SMT
  <2> QED BY <1>1, <2>1
<1>3. k < m
  <2> SUFFICES ASSUME m <= k PROVE FALSE
    OBVIOUS
  <2>1. m * MPS <= k * MPS
    BY <1>1
  <2> QED BY <1>1, <1>2, <2>1
<1> QED BY <1>1, <1>2, <1>3

LEMMA Times == ASSUME NEW i \in Int, NEW j \in Int, i <= j PROVE i * MPS <= j * MPS
  BY FramingAssumption

-----------------------------------------------------------------------------
(* The host sends a request.                                                *)

\* The packets of request number id, of n bytes.
Train(id, n, zlp) ==
  LET s == Packets(n, zlp)
  IN  [i \in DOMAIN s |-> [id |-> id, off |-> (i - 1) * MPS, size |-> s[i]]]

\* What there is to know of them.
IsTrain(t, id, n, zlp) ==
  /\ t \in Seq(Packet) /\ Len(t) > 0 /\ t[1].off = 0 /\ t[1].size > 0
  /\ \A i \in 1..Len(t) :
       /\ t[i].id = id /\ t[i].off + t[i].size <= n
       /\ t[i].size # MPS => t[i].off + t[i].size = n
       /\ t[i].off = 0 => t[i].size > 0
       /\ t[i].off < BUF => t[i].off + MPS <= BUF
       /\ i < Len(t) => t[i + 1].off = t[i].off + t[i].size
  /\ \A i, j \in 1..Len(t) : i < j => t[i].off + t[i].size <= t[j].off
  /\ t[Len(t)].off + t[Len(t)].size = n
  /\ n <= MPS /\ ~zlp => Len(t) = 1

LEMMA TrainParts ==
  ASSUME NEW id \in Nat, NEW n \in Nat \ {0}, NEW zlp \in BOOLEAN
  PROVE  IsTrain(Train(id, n, zlp), id, n, zlp)
<1>0. PICK t : t = Train(id, n, zlp)
  OBVIOUS
<1> DEFINE s == Packets(n, zlp)
<1>1. MPS \in Nat /\ MPS > 0 /\ BUF \in Nat
  BY FramingAssumption
<1>2. /\ s \in Seq(0..MPS) /\ Len(s) > 0
      /\ \A i \in 1..Len(s) : i < Len(s) => s[i] = MPS
      /\ (Len(s) - 1) * MPS + s[Len(s)] = n
      /\ IF zlp THEN s[Len(s)] < MPS ELSE s[Len(s)] > 0
  <2>1. IsCut(s, n, zlp)
    BY Cut
  <2> QED BY <2>1 DEF IsCut
<1>3. t = [i \in DOMAIN s |-> [id |-> id, off |-> (i - 1) * MPS, size |-> s[i]]]
  BY <1>0 DEF Train
<1> HIDE DEF s
<1>4. DOMAIN s = 1..Len(s) /\ Len(s) \in Nat /\ \A i \in 1..Len(s) : s[i] \in 0..MPS /\ s[i] \in Nat
  BY <1>1, <1>2
<1>5. \A i \in 1..Len(s) : (i - 1) * MPS \in Nat
  BY <1>1
<1>6. /\ t \in Seq(Packet) /\ Len(t) = Len(s)
      /\ \A i \in 1..Len(s) : t[i].id = id /\ t[i].off = (i - 1) * MPS /\ t[i].size = s[i]
  <2>1. \A i \in 1..Len(s) : t[i] = [id |-> id, off |-> (i - 1) * MPS, size |-> s[i]]
    BY <1>3, <1>4
  <2>2. ASSUME NEW i \in 1..Len(s) PROVE t[i] \in Packet
    <3>1. (i - 1) * MPS \in Nat /\ s[i] \in 0..MPS
      BY <1>4, <1>5
    <3>2. \A o \in Nat, z \in 0..MPS : [id |-> id, off |-> o, size |-> z] \in Packet
      BY DEF Packet
    <3> QED BY <2>1, <3>1, <3>2
  <2>3. Len(t) = Len(s) /\ DOMAIN t = 1..Len(s) /\ t = [i \in 1..Len(s) |-> t[i]]
    BY <1>3, <1>4
  <2>4. t \in Seq(Packet)
    BY <1>4, <2>2, <2>3
  <2>5. \A i \in 1..Len(s) : t[i].id = id /\ t[i].off = (i - 1) * MPS /\ t[i].size = s[i]
    <3> SUFFICES ASSUME NEW i \in 1..Len(s), NEW o, o = (i - 1) * MPS
                 PROVE  t[i].id = id /\ t[i].off = o /\ t[i].size = s[i]
      OBVIOUS
    <3>1. t[i] = [id |-> id, off |-> o, size |-> s[i]]
      BY <2>1, Zenon
    <3> QED BY <3>1
  <2> QED BY <2>3, <2>4, <2>5
<1>7. \A i \in 1..Len(s) : i < Len(s) => (i - 1) * MPS + MPS = i * MPS /\ i * MPS <= (Len(s) - 1) * MPS
  <2> SUFFICES ASSUME NEW i \in 1..Len(s), i < Len(s)
               PROVE  (i - 1) * MPS + MPS = i * MPS /\ i * MPS <= (Len(s) - 1) * MPS
    OBVIOUS
  <2> QED BY <1>1, <1>4, Times
<1>8. ASSUME NEW i \in 1..Len(s)
      PROVE  /\ t[i].id = id /\ t[i].off + t[i].size <= n
             /\ t[i].size # MPS => t[i].off + t[i].size = n
             /\ t[i].off = 0 => t[i].size > 0
             /\ t[i].off < BUF => t[i].off + MPS <= BUF
             /\ i < Len(s) => t[i + 1].off = t[i].off + t[i].size
  <2>1. t[i].id = id /\ t[i].off = (i - 1) * MPS /\ t[i].size = s[i]
    BY <1>6
  <2>2. t[i].off < BUF => t[i].off + MPS <= BUF
    BY <1>4, <2>1, Grid
  <2>3. CASE i < Len(s)
    <3>1. s[i] = MPS /\ (i - 1) * MPS + MPS = i * MPS /\ i * MPS <= (Len(s) - 1) * MPS
      BY <1>2, <1>7, <2>3
    <3>2. t[i + 1].off = i * MPS
      BY <1>4, <1>6, <2>3
    <3>3. (Len(s) - 1) * MPS \in Nat /\ s[Len(s)] \in Nat
      BY <1>2, <1>4, <1>5
    <3> QED BY <1>1, <1>2, <2>1, <2>2, <3>1, <3>2, <3>3
  <2>4. CASE i = Len(s)
    <3>1. (i - 1) * MPS + s[i] = n
      BY <1>2, <2>4
    <3>2. (i - 1) * MPS \in Nat /\ s[i] \in Nat /\ s[i] <= MPS
      BY <1>4, <1>5
    <3>3. t[i].off + t[i].size = n /\ (t[i].off = 0 => t[i].size > 0)
      BY <2>1, <3>1, <3>2
    <3>4. ~(i < Len(s))
      BY <1>4, <2>4
    <3>5. t[i].off + t[i].size <= n
      BY <3>3
    <3> QED BY <2>1, <2>2, <3>3, <3>4, <3>5
  <2>5. Len(s) \in Nat
    BY <1>4
  <2>6. i < Len(s) \/ i = Len(s)
    BY <2>5
  <2> QED BY <2>3, <2>4, <2>6
<1>9. ASSUME NEW i \in 1..Len(s), NEW j \in 1..Len(s), i < j PROVE t[i].off + t[i].size <= t[j].off
  <2>1. t[i].off + t[i].size = i * MPS
    <3>1. i < Len(s)
      BY <1>4, <1>9
    <3> QED BY <1>1, <1>2, <1>6, <1>7, <3>1
  <2>2. i * MPS <= (j - 1) * MPS
    BY <1>4, <1>9, Times
  <2> QED BY <1>6, <2>1, <2>2
<1>10. t[1].off = 0 /\ t[1].size > 0 /\ t[Len(s)].off + t[Len(s)].size = n
  BY <1>1, <1>2, <1>4, <1>6, <1>8
<1>11. n <= MPS /\ ~zlp => Len(s) = 1
  <2> SUFFICES ASSUME n <= MPS, ~zlp, Len(s) > 1 PROVE FALSE
    BY <1>2, <1>4
  <2>1. MPS <= (Len(s) - 1) * MPS /\ (Len(s) - 1) * MPS \in Nat
    BY <1>1, <1>4, <1>5, Times
  <2> QED BY <1>1, <1>2, <1>4, <2>1
<1> QED BY <1>0, <1>2, <1>6, <1>8, <1>9, <1>10, <1>11 DEF IsTrain

\* What a step of the host does to requests that were sent before it.
LEMMA Sending ==
  ASSUME Typed, HostSend
  PROVE  \E r \in Requests, z \in BOOLEAN :
           /\ reqs' = Append(reqs, r) /\ wire' = wire \o Train(Len(reqs) + 1, r.len, z)
           /\ host' = IF r.rlen = 0 THEN "idle" ELSE "waiting"
           /\ r.len \in Nat \ {0} /\ r.rlen \in Nat /\ (r.vendor => r.len <= MPS /\ ~z)
           /\ Sent' = Sent \cup {Len(reqs) + 1}
           /\ \A i \in Sent : reqs'[i] = reqs[i]
           /\ reqs'[Len(reqs) + 1] = r /\ Len(reqs') = Len(reqs) + 1
<1>1. PICK r \in Requests, z \in HostZlps :
        /\ reqs' = Append(reqs, r)
        /\ host' = IF r.rlen = 0 THEN "idle" ELSE "waiting"
        /\ wire' = wire \o Train(Len(reqs) + 1, r.len, z /\ ~r.vendor)
  BY DEF HostSend, Train
<1>2. PICK y \in BOOLEAN : y <=> z /\ ~r.vendor
  BY FramingAssumption
<1>3. y = (z /\ ~r.vendor)
  BY <1>2, FramingAssumption
<1>4. r.len \in Nat \ {0} /\ r.rlen \in Nat /\ (r.vendor => r.len <= MPS /\ ~y)
  <2>1. \/ r.vendor = FALSE /\ r.len \in StdLens /\ r.rlen \in StdReplies
        \/ r.vendor = TRUE /\ r.len \in VendorLens /\ r.rlen \in VendorReplies
    BY DEF Requests
  <2>2. MPS \in Nat /\ BUF \in Nat
    BY FramingAssumption
  <2>3. CASE r.vendor = FALSE /\ r.len \in StdLens /\ r.rlen \in StdReplies
    <3>1. r.rlen \in 0..BUF /\ r.len \in Nat \ {0}
      BY <2>3, FramingAssumption
    <3> QED BY <2>2, <2>3, <3>1
  <2>4. CASE r.vendor = TRUE /\ r.len \in VendorLens /\ r.rlen \in VendorReplies
    <3>1. r.rlen \in 1..MPS /\ r.len \in 1..MPS
      BY <2>4, FramingAssumption
    <3> QED BY <1>2, <2>2, <2>4, <3>1
  <2> QED BY <2>1, <2>3, <2>4
<1>5. wire' = wire \o Train(Len(reqs) + 1, r.len, y)
  BY <1>1, <1>3
<1>6. reqs \in Seq(Requests) /\ Len(reqs) \in Nat
  BY DEF Typed
<1>7. /\ Sent' = Sent \cup {Len(reqs) + 1} /\ \A i \in Sent : reqs'[i] = reqs[i]
      /\ reqs'[Len(reqs) + 1] = r /\ Len(reqs') = Len(reqs) + 1
  BY <1>1, <1>6 DEF Sent
<1> QED BY <1>1, <1>4, <1>5, <1>7

\* Requests are not changed once they are sent.
Kept == Sent \subseteq Sent' /\ \A i \in Sent : reqs'[i] = reqs[i]

LEMMA PartKept == ASSUME Kept, NEW p, Part(p) PROVE Part(p)' /\ (Ends(p)' <=> Ends(p))
BY DEF Kept, Part, Ends

LEMMA Appended ==
  ASSUME NEW S, NEW s \in Seq(S), NEW t \in Seq(S)
  PROVE  /\ s \o t \in Seq(S) /\ Len(s \o t) = Len(s) + Len(t) /\ Len(s) \in Nat /\ Len(t) \in Nat
         /\ \A i \in 1..Len(s) : (s \o t)[i] = s[i]
         /\ \A i \in 1..Len(t) : (s \o t)[Len(s) + i] = t[i]
         /\ \A k \in 1..Len(s \o t) :
              k \in 1..Len(s) \/ (k - Len(s) \in 1..Len(t) /\ (s \o t)[k] = t[k - Len(s)])
OBVIOUS

LEMMA WholeSend == Whole /\ HostSend => Whole' /\ Kept
<1> SUFFICES ASSUME Whole, HostSend PROVE Whole' /\ Kept
  OBVIOUS
<1>1. PICK r \in Requests, z \in BOOLEAN :
        /\ reqs' = Append(reqs, r) /\ wire' = wire \o Train(Len(reqs) + 1, r.len, z)
        /\ host' = IF r.rlen = 0 THEN "idle" ELSE "waiting"
        /\ r.len \in Nat \ {0} /\ r.rlen \in Nat /\ (r.vendor => r.len <= MPS /\ ~z)
        /\ Sent' = Sent \cup {Len(reqs) + 1}
        /\ \A i \in Sent : reqs'[i] = reqs[i]
        /\ reqs'[Len(reqs) + 1] = r /\ Len(reqs') = Len(reqs) + 1
  BY Sending DEF Whole
<1>2. PICK id, n, t : id = Len(reqs) + 1 /\ n = r.len /\ t = Train(id, n, z)
  OBVIOUS
<1>3. Len(reqs) \in Nat /\ id \in Nat /\ n \in Nat \ {0}
  BY <1>1, <1>2 DEF Whole, Typed
<1>4. Kept /\ id \in Sent'
  BY <1>1, <1>2 DEF Kept
<1>5. IsTrain(t, id, n, z)
  BY <1>2, <1>3, TrainParts, Zenon
<1>6. PICK v : v = wire' /\ v = wire \o t /\ wire \in Seq(Packet)
  BY <1>1, <1>2 DEF Whole, Typed
<1>7. /\ v \in Seq(Packet) /\ Len(v) = Len(wire) + Len(t) /\ Len(wire) \in Nat /\ Len(t) \in Nat
      /\ \A i \in 1..Len(wire) : v[i] = wire[i]
      /\ \A i \in 1..Len(t) : v[Len(wire) + i] = t[i]
      /\ \A k \in 1..Len(v) :
           k \in 1..Len(wire) \/ (k - Len(wire) \in 1..Len(t) /\ v[k] = t[k - Len(wire)])
  BY <1>5, <1>6, Appended DEF IsTrain
<1>8. \A i \in 1..Len(wire) : Part(wire[i]) /\ wire[i].id \in Sent /\ wire[i].id < id
  BY <1>2, <1>3 DEF Whole, InOrder, Part, Sent
<1>9. \A i \in 1..Len(t) : Part(t[i])'
  <2> SUFFICES ASSUME NEW i \in 1..Len(t), NEW p, p = t[i] PROVE Part(p)'
    OBVIOUS
  <2>1. /\ p.id = id /\ p.off + p.size <= n /\ (p.size # MPS => p.off + p.size = n)
        /\ (p.off = 0 => p.size > 0) /\ (p.off < BUF => p.off + MPS <= BUF)
    BY <1>5 DEF IsTrain
  <2>2. reqs'[p.id].len = n /\ (reqs'[p.id].vendor => n <= MPS /\ ~z) /\ p.id \in Sent'
    BY <1>1, <1>2, <1>4, <2>1
  <2>3. reqs'[p.id].vendor => p.off = 0
    <3> SUFFICES ASSUME n <= MPS, ~z PROVE p.off = 0
      BY <2>2
    <3>1. Len(t) = 1
      BY <1>5 DEF IsTrain
    <3>2. i = 1
      BY <3>1
    <3> QED BY <1>5, <3>2 DEF IsTrain
  <2> QED BY <2>1, <2>2, <2>3 DEF Part, Ends
<1>10. \A k \in 1..Len(v) : Part(v[k])'
  <2>1. \A p : Part(p) => Part(p)'
    BY <1>4, PartKept
  <2> QED BY <1>7, <1>8, <1>9, <2>1
<1>11. \A k \in 1..Len(v) : v[k].id \in Sent' /\ (Ends(v[k])' <=> IF k \in 1..Len(wire) THEN Ends(wire[k]) ELSE v[k].off + v[k].size = n)
  <2> SUFFICES ASSUME NEW k \in 1..Len(v)
               PROVE  v[k].id \in Sent' /\ (Ends(v[k])' <=> IF k \in 1..Len(wire) THEN Ends(wire[k]) ELSE v[k].off + v[k].size = n)
    OBVIOUS
  <2>1. CASE k \in 1..Len(wire)
    BY <1>4, <1>7, <1>8, <2>1, PartKept DEF Kept
  <2>2. CASE k \notin 1..Len(wire)
    <3>1. v[k].id = id
      BY SMTT(30), <1>5, <1>7, <2>2 DEF IsTrain
    <3> QED BY <1>1, <1>2, <1>4, <2>2, <3>1 DEF Ends
  <2> QED BY <2>1, <2>2
<1>12. \A k \in 1..Len(v) : k < Len(v) => Follows(v[k], v[k + 1])'
  <2> SUFFICES ASSUME NEW k \in 1..Len(v), k < Len(v), NEW p, NEW q, p = v[k], q = v[k + 1]
               PROVE  Follows(p, q)'
    OBVIOUS
  <2>1. Ends(p)' <=> IF k \in 1..Len(wire) THEN Ends(p) ELSE p.off + p.size = n
    BY <1>7, <1>11
  <2>2. CASE k \in 1..Len(wire) /\ k + 1 \in 1..Len(wire)
    BY <1>7, <2>1, <2>2 DEF Whole, InOrder, Follows
  <2>3. CASE k = Len(wire)
    <3>1. wire # <<>> /\ p = wire[k] /\ q = t[1]
      BY <1>5, <1>7, <2>3 DEF IsTrain
    <3>2. Ends(p)' /\ p.id < id /\ q.id = id /\ q.off = 0
      BY <1>5, <1>7, <1>8, <2>1, <2>3, <3>1 DEF Whole, InOrder, IsTrain
    <3> QED BY <3>2 DEF Follows
  <2>4. CASE k - Len(wire) \in 1..Len(t)
    <3>1. PICK i, j : i = k - Len(wire) /\ j = (k + 1) - Len(wire)
      OBVIOUS
    <3>2. i \in 1..Len(t) /\ i < Len(t) /\ j = i + 1 /\ j \in 1..Len(t)
      BY <1>7, <2>4, <3>1
    <3>3. k \notin 1..Len(wire) /\ k + 1 \notin 1..Len(wire) /\ k + 1 \in 1..Len(v)
      BY <1>7, <2>4, <3>1, <3>2
    <3>4. p = t[i] /\ q = t[j]
      BY <1>7, <3>1, <3>3
    <3> QED BY <1>5, <3>2, <3>4 DEF IsTrain, Follows
  <2> QED BY <1>7, <2>2, <2>3, <2>4
<1>13. \A i, j \in 1..Len(v) : i < j =>
         \/ v[i].id < v[j].id
         \/ v[i].id = v[j].id /\ v[i].off + v[i].size <= v[j].off
  <2> SUFFICES ASSUME NEW i \in 1..Len(v), NEW j \in 1..Len(v), i < j
               PROVE  \/ v[i].id < v[j].id
                      \/ v[i].id = v[j].id /\ v[i].off + v[i].size <= v[j].off
    OBVIOUS
  <2>1. CASE i \in 1..Len(wire) /\ j \in 1..Len(wire)
    BY <1>7, <2>1 DEF Whole, InOrder
  <2>2. CASE i \in 1..Len(wire) /\ j \notin 1..Len(wire)
    <3>1. v[i].id < id /\ v[j].id = id
      BY SMTT(30), <1>5, <1>7, <1>8, <2>2 DEF IsTrain
    <3> QED BY <3>1
  <2>3. CASE i \notin 1..Len(wire)
    <3>1. PICK a, b : a = i - Len(wire) /\ b = j - Len(wire)
      OBVIOUS
    <3>2. i \notin 1..Len(wire) /\ j \notin 1..Len(wire)
      BY <1>7, <2>3
    <3>3. a \in 1..Len(t) /\ b \in 1..Len(t) /\ v[i] = t[a] /\ v[j] = t[b]
      BY <1>7, <3>1, <3>2
    <3>4. a < b
      BY <1>7, <3>1
    <3> QED BY <1>5, <3>3, <3>4 DEF IsTrain
  <2> QED BY <2>1, <2>2, <2>3
<1>14. v # <<>> /\ Ends(v[Len(v)])' /\ v[1] = (IF wire = <<>> THEN t[1] ELSE wire[1])
  <2>1. Len(v) - Len(wire) \in 1..Len(t) /\ Len(v) \in 1..Len(v) /\ Len(v) \notin 1..Len(wire)
    BY <1>5, <1>7 DEF IsTrain
  <2>2. v[Len(v)] = t[Len(t)]
    BY <1>7, <2>1
  <2>3. Ends(v[Len(v)])'
    BY <1>5, <1>11, <2>1, <2>2 DEF IsTrain
  <2>4. v[1] = (IF wire = <<>> THEN t[1] ELSE wire[1])
    BY <1>5, <1>6, <1>7 DEF IsTrain
  <2> QED BY <1>7, <2>1, <2>3, <2>4
<1>15. InOrder'
  BY <1>6, <1>10, <1>12, <1>13, <1>14 DEF InOrder
<1>16. Reading' /\ ServedWhole' /\ (fw' = "send" => reply'.todo # <<>>)
  <2>1. UNCHANGED <<len, head, served, fw, reply>>
    BY DEF HostSend
  <2>2. Reading'
    <3>1. len > 0 => head.id \in Sent
      BY DEF Whole, Reading
    <3>2. len > 0 /\ head.off = 0 => ~reqs[head.id].vendor /\ len < reqs[head.id].len /\ v[1].id = head.id /\ v[1].off = len
      BY <1>14 DEF Whole, Reading
    <3> QED BY <1>4, <1>6, <1>14, <2>1, <3>1, <3>2 DEF Reading, Kept
  <2>3. ServedWhole'
    BY <1>4, <2>1 DEF Whole, ServedWhole, Kept
  <2> QED BY <2>1, <2>2, <2>3 DEF Whole
<1>17. Typed'
  <2>1. reqs' \in Seq(Requests)
    BY <1>1 DEF Whole, Typed
  <2> QED BY <1>1, <1>6, <1>7, <2>1 DEF Whole, Typed, HostSend
<1> QED BY <1>4, <1>15, <1>16, <1>17 DEF Whole

-----------------------------------------------------------------------------
(* The firmware reads a packet.                                             *)

LEMMA Rest ==
  ASSUME NEW S, NEW s \in Seq(S), s # <<>>
  PROVE  /\ Tail(s) \in Seq(S) /\ Len(s) \in Nat /\ Len(Tail(s)) = Len(s) - 1
         /\ \A i \in 1..Len(Tail(s)) : Tail(s)[i] = s[i + 1] /\ i + 1 \in 1..Len(s)
         /\ Head(s) = s[1] /\ Head(s) \in S /\ 1 \in 1..Len(s)
         /\ Len(s) # 1 => Tail(s) # <<>>
<1>1. Len(s) \in Nat /\ Len(s) > 0 /\ Tail(s) \in Seq(S) /\ Len(Tail(s)) = Len(s) - 1
  OBVIOUS
<1>2. /\ \A i \in 1..Len(Tail(s)) : Tail(s)[i] = s[i + 1] /\ i + 1 \in 1..Len(s)
      /\ Head(s) = s[1] /\ Head(s) \in S /\ 1 \in 1..Len(s)
  BY <1>1
<1>3. Len(s) # 1 => Len(Tail(s)) # Len(<<>>)
  BY <1>1
<1> QED BY <1>1, <1>2, <1>3

LEMMA Pushed ==
  ASSUME NEW S, NEW s \in Seq(S), NEW e
  PROVE  /\ Len(s) \in Nat /\ Len(Append(s, e)) = Len(s) + 1 /\ Append(s, e) # <<>>
         /\ \A i \in 1..Len(s) : Append(s, e)[i] = s[i]
         /\ Append(s, e)[Len(s) + 1] = e
OBVIOUS

LEMMA Ending == ASSUME NEW S, NEW s \in Seq(S), Len(s) > 0 PROVE Len(s) \in Nat /\ s[Len(s)] \in S
OBVIOUS

LEMMA RequestFields == \A r \in Requests : r.len \in Nat /\ r.rlen \in Nat /\ (r.vendor => r.len <= MPS)
<1> SUFFICES ASSUME NEW r \in Requests PROVE r.len \in Nat /\ r.rlen \in Nat /\ (r.vendor => r.len <= MPS)
  OBVIOUS
<1>1. \/ r.vendor = FALSE /\ r.len \in StdLens /\ r.rlen \in StdReplies
      \/ r.vendor = TRUE /\ r.len \in VendorLens /\ r.rlen \in VendorReplies
  BY DEF Requests
<1>2. r.len \in Nat \ {0} \/ r.len \in 1..MPS
  BY <1>1, FramingAssumption
<1>3. r.rlen \in 0..BUF \/ r.rlen \in 1..MPS
  BY <1>1, FramingAssumption
<1>4. r.vendor => r.len \in 1..MPS
  BY <1>1, FramingAssumption
<1> QED BY <1>2, <1>3, <1>4, FramingAssumption

LEMMA InOrderRead ==
  ASSUME wire \in Seq(Packet), InOrder, wire # <<>>, wire' = Tail(wire), UNCHANGED reqs
  PROVE  InOrder'
<1>1. PICK v : v = wire' /\ v = Tail(wire)
  OBVIOUS
<1>2. /\ v \in Seq(Packet) /\ Len(wire) \in Nat /\ Len(v) = Len(wire) - 1
      /\ \A i \in 1..Len(v) : v[i] = wire[i + 1] /\ i + 1 \in 1..Len(wire)
  BY <1>1, Rest
<1>3. \A p : (Part(p)' <=> Part(p)) /\ (Ends(p)' <=> Ends(p))
  BY DEF Part, Ends, Sent
<1>4. \A p, q : Follows(p, q)' <=> Follows(p, q)
  BY <1>3 DEF Follows
<1>5. /\ \A i \in 1..Len(v) : Part(v[i])'
      /\ \A i \in 1..Len(v) : i < Len(v) => Follows(v[i], v[i + 1])'
  <2>1. \A i \in 1..Len(v) : Part(v[i])'
    BY <1>2, <1>3 DEF InOrder
  <2>2. ASSUME NEW i \in 1..Len(v), i < Len(v) PROVE Follows(v[i], v[i + 1])'
    <3>1. i + 1 \in 1..Len(v) /\ v[i] = wire[i + 1] /\ v[i + 1] = wire[(i + 1) + 1] /\ i + 1 < Len(wire)
          /\ i + 1 \in 1..Len(wire)
      BY <1>2, <2>2
    <3>2. Follows(v[i], v[i + 1])
      BY <3>1 DEF InOrder
    <3> QED BY <1>4, <3>2
  <2> QED BY <2>1, <2>2
<1>6. \A i, j \in 1..Len(v) : i < j =>
        \/ v[i].id < v[j].id
        \/ v[i].id = v[j].id /\ v[i].off + v[i].size <= v[j].off
  <2> SUFFICES ASSUME NEW i \in 1..Len(v), NEW j \in 1..Len(v), i < j
               PROVE  \/ v[i].id < v[j].id
                      \/ v[i].id = v[j].id /\ v[i].off + v[i].size <= v[j].off
    OBVIOUS
  <2>1. i + 1 \in 1..Len(wire) /\ j + 1 \in 1..Len(wire) /\ i + 1 < j + 1
    BY <1>2
  <2>2. v[i] = wire[i + 1] /\ v[j] = wire[j + 1]
    BY <1>2
  <2> QED BY <2>1, <2>2 DEF InOrder
<1>7. v # <<>> => Ends(v[Len(v)])'
  <2> SUFFICES ASSUME v # <<>> PROVE Ends(v[Len(v)])'
    OBVIOUS
  <2>1. Len(v) \in 1..Len(v) /\ Len(v) + 1 = Len(wire)
    BY <1>2
  <2>2. v[Len(v)] = wire[Len(wire)]
    BY <1>2, <2>1
  <2> QED BY <1>3, <2>2 DEF InOrder
<1> QED BY <1>1, <1>5, <1>6, <1>7 DEF InOrder

\* The request f, of which n bytes are in the buffer, goes on.
More(f, n) ==
  /\ wire[1].size = MPS /\ n > 0
  /\ f.off = 0 => ~reqs[f.id].vendor /\ n < reqs[f.id].len
  /\ head' = f /\ len' = n /\ UNCHANGED <<fw, served, reply>>

\* It ends: if it is read from its first byte on, where the host's request ends.
Enough(f, n) ==
  /\ f.off = 0 => n > 0 /\ n = reqs[f.id].len
  /\ head' = NoPacket /\ len' = 0
  /\ IF n = 0 THEN UNCHANGED <<fw, served, reply>>
     ELSE Serve([id |-> f.id, off |-> f.off, len |-> n])

LEMMA Reads ==
  ASSUME Whole, ReadPacket
  PROVE  \E f \in Packet, n \in Nat :
           /\ fw = "read" /\ wire # <<>> /\ wire' = Tail(wire) /\ UNCHANGED <<reqs, host, slot, rx, taken>>
           /\ wire[1] \in Packet /\ Part(wire[1])
           /\ f = (IF len = 0 THEN wire[1] ELSE head) /\ n = len + wire[1].size /\ f.id \in Sent
           /\ f.off = 0 => f.id = wire[1].id /\ wire[1].off + wire[1].size = n
           /\ More(f, n) \/ Enough(f, n)
<1>1. wire # <<>> /\ wire \in Seq(Packet) /\ head \in Packet /\ len \in Nat /\ reqs \in Seq(Requests)
  BY DEF ReadPacket, Whole, Typed
<1>2. PICK p : p = Head(wire) /\ p = wire[1] /\ p \in Packet /\ Part(p) /\ p.size \in 0..MPS /\ p.off \in Nat
  <2>1. Head(wire) = wire[1] /\ 1 \in 1..Len(wire)
    BY <1>1, Rest
  <2>2. wire[1] \in Packet /\ Part(wire[1])
    BY <1>1, <2>1 DEF Whole, InOrder
  <2>3. wire[1].size \in 0..MPS /\ wire[1].off \in Nat
    BY <2>2 DEF Packet
  <2> QED BY <2>1, <2>2, <2>3
<1>3. PICK f, n : f = (IF len = 0 THEN p ELSE head) /\ n = len + p.size
  OBVIOUS
<1>4. f \in Packet /\ n \in Nat /\ MPS \in Nat /\ MPS > 0 /\ f.id \in Sent
  <2>1. MPS \in Nat /\ MPS > 0 /\ p.size \in Nat
    BY <1>2, FramingAssumption
  <2>2. len = 0 \/ len > 0
    BY <1>1
  <2>3. p.id \in Sent /\ (len > 0 => head.id \in Sent)
    BY <1>2 DEF Part, Whole, Reading
  <2>4. f \in Packet /\ f.id \in Sent
    BY <1>1, <1>2, <1>3, <2>2, <2>3
  <2>5. n \in Nat
    BY <1>1, <1>3, <2>1
  <2> QED BY <2>1, <2>4, <2>5
<1>5. f.off = 0 => f.id = p.id /\ p.off + p.size = n /\ n > 0
  BY <1>1, <1>2, <1>3 DEF Whole, Reading, Part
<1>6. PICK k \in Framing(f, n) :
        \/ /\ p.size = MPS /\ k = "NeedMore"
           /\ head' = f /\ len' = n
           /\ UNCHANGED <<fw, served, reply>>
        \/ /\ p.size < MPS \/ k # "NeedMore"
           /\ head' = NoPacket /\ len' = 0
           /\ IF n = 0 THEN UNCHANGED <<fw, served, reply>>
              ELSE Serve([id |-> f.id, off |-> f.off, len |-> n])
  BY <1>2, <1>3 DEF ReadPacket
<1>7. reqs[f.id].len \in Nat /\ (reqs[f.id].vendor => reqs[f.id].len <= MPS)
  BY <1>1, <1>4, RequestFields DEF Sent
<1>8. CASE /\ p.size = MPS /\ k = "NeedMore" /\ head' = f /\ len' = n /\ UNCHANGED <<fw, served, reply>>
  <2>1. f.off = 0 => ~reqs[f.id].vendor /\ n < reqs[f.id].len
    BY <1>4, <1>6, <1>7, <1>8 DEF Framing
  <2>2. More(f, n)
    BY <1>1, <1>2, <1>3, <1>4, <1>8, <2>1 DEF More
  <2> QED BY <1>1, <1>2, <1>3, <1>4, <1>5, <2>2 DEF ReadPacket
<1>9. CASE /\ p.size < MPS \/ k # "NeedMore"
           /\ head' = NoPacket /\ len' = 0
           /\ IF n = 0 THEN UNCHANGED <<fw, served, reply>>
              ELSE Serve([id |-> f.id, off |-> f.off, len |-> n])
  <2>1. ASSUME f.off = 0 PROVE n = reqs[f.id].len
    <3>1. n <= reqs[f.id].len /\ (p.size < MPS => n = reqs[f.id].len)
      BY <1>2, <1>4, <1>5, <2>1 DEF Part, Ends
    <3>2. CASE k # "NeedMore" /\ ~reqs[f.id].vendor
      BY <1>4, <1>6, <1>7, <2>1, <3>1, <3>2 DEF Framing
    <3>3. CASE reqs[f.id].vendor /\ p.size = MPS
      BY <1>2, <1>4, <1>5, <1>7, <2>1, <3>1, <3>3
    <3> QED BY <1>2, <1>4, <1>9, <3>1, <3>2, <3>3
  <2>2. Enough(f, n)
    BY <1>5, <1>9, <2>1 DEF Enough
  <2> QED BY <1>1, <1>2, <1>3, <1>4, <1>5, <2>2 DEF ReadPacket
<1> QED BY <1>6, <1>8, <1>9

\* What is dispatched, and the packets of its reply.
LEMMA Served ==
  ASSUME Whole, NEW d \in Dispatch, d.id \in Sent, Serve(d), fw = "read"
  PROVE  /\ served' = Append(served, d) /\ served' \in Seq(Dispatch)
         /\ fw' \in {"read", "send"} /\ reply' \in [id : Nat, todo : Seq(0..MPS)]
         /\ fw' = "send" => reply'.todo # <<>>
<1>1. served \in Seq(Dispatch) /\ reply \in [id : Nat, todo : Seq(0..MPS)] /\ reqs \in Seq(Requests)
  BY DEF Whole, Typed
<1>2. ReplyLen(d) \in Nat /\ d.id \in Nat
  BY <1>1, RequestFields DEF ReplyLen, Sent, Dispatch
<1>3. CASE ReplyLen(d) = 0
  BY <1>1, <1>3 DEF Serve
<1>4. CASE ReplyLen(d) # 0
  <2>1. PICK s : s = Packets(ReplyLen(d), ZlpAfter(d))
    OBVIOUS
  <2>2. s \in Seq(0..MPS) /\ Len(s) > 0
    <3>1. ZlpAfter(d) \in BOOLEAN /\ ReplyLen(d) > 0
      BY <1>2, <1>4 DEF ZlpAfter
    <3>2. IsCut(s, ReplyLen(d), ZlpAfter(d))
      BY <1>2, <2>1, <3>1, Cut, Zenon
    <3> QED BY <3>2 DEF IsCut
  <2>3. reply' = [id |-> d.id, todo |-> s] /\ fw' = "send"
    BY <1>4, <2>1 DEF Serve
  <2>4. s # <<>>
    BY <2>2
  <2> QED BY <1>1, <1>2, <2>2, <2>3, <2>4 DEF Serve
<1> QED BY <1>3, <1>4

LEMMA WholeRead == Whole /\ ReadPacket => Whole'
<1> SUFFICES ASSUME Whole, ReadPacket PROVE Whole'
  OBVIOUS
<1>1. PICK f \in Packet, n \in Nat :
        /\ fw = "read" /\ wire # <<>> /\ wire' = Tail(wire) /\ UNCHANGED <<reqs, host, slot, rx, taken>>
        /\ wire[1] \in Packet /\ Part(wire[1])
        /\ f = (IF len = 0 THEN wire[1] ELSE head) /\ n = len + wire[1].size /\ f.id \in Sent
        /\ f.off = 0 => f.id = wire[1].id /\ wire[1].off + wire[1].size = n
        /\ More(f, n) \/ Enough(f, n)
  BY Reads
<1>2. Typed /\ InOrder /\ ServedWhole /\ wire \in Seq(Packet) /\ wire' \in Seq(Packet) /\ InOrder'
  <2>1. Typed /\ InOrder /\ ServedWhole /\ wire \in Seq(Packet)
    BY DEF Whole, Typed
  <2>2. wire' \in Seq(Packet)
    BY <1>1, <2>1, Rest
  <2> QED BY <1>1, <2>1, <2>2, InOrderRead
<1>3. Sent' = Sent
  BY <1>1 DEF Sent
<1>4. CASE More(f, n)
  <2>1. head' = f /\ len' = n /\ UNCHANGED <<fw, served, reply>>
    BY <1>4 DEF More
  <2>2. ASSUME f.off = 0
        PROVE  /\ ~reqs[f.id].vendor /\ n < reqs[f.id].len
               /\ wire' # <<>> /\ wire'[1].id = f.id /\ wire'[1].off = n
    <3>1. ~reqs[f.id].vendor /\ n < reqs[f.id].len
      BY <1>4, <2>2 DEF More
    <3>2. PICK p : p = wire[1]
      OBVIOUS
    <3>3. ~Ends(p) /\ p.off + p.size = n /\ p.id = f.id
      BY <1>1, <2>2, <3>1, <3>2 DEF Ends
    <3>4. Len(wire) # 1
      BY <1>1, <1>2, <3>2, <3>3 DEF InOrder
    <3>5. Len(wire) \in Nat /\ Len(wire) > 1 /\ wire' # <<>> /\ wire'[1] = wire[2] /\ 1 \in 1..Len(wire)
      <4>1. /\ Len(wire) \in Nat /\ 1 \in 1..Len(wire) /\ Len(wire') = Len(wire) - 1
            /\ \A i \in 1..Len(wire') : wire'[i] = wire[i + 1]
        BY <1>1, <1>2, Rest
      <4> QED BY <3>4, <4>1
    <3>6. Follows(p, wire[2])
      <4>1. Follows(wire[1], wire[1 + 1])
        BY <1>2, <3>5 DEF InOrder
      <4> QED BY <3>2, <4>1
    <3> QED BY <3>1, <3>3, <3>5, <3>6 DEF Follows
  <2>3. Reading'
    BY <1>1, <1>3, <2>1, <2>2 DEF Reading
  <2>4. ServedWhole'
    BY <1>1, <1>2, <1>3, <2>1 DEF ServedWhole
  <2>5. Typed'
    BY <1>1, <1>2, <2>1 DEF Typed
  <2> QED BY <1>1, <1>2, <2>1, <2>3, <2>4, <2>5 DEF Whole
<1>5. CASE Enough(f, n)
  <2>1. head' = NoPacket /\ len' = 0 /\ head' \in Packet
    BY <1>5, FramingAssumption DEF Enough, NoPacket, Packet
  <2>2. Reading'
    BY <2>1 DEF Reading
  <2>3. CASE n = 0
    <3>1. UNCHANGED <<fw, served, reply>>
      BY <1>5, <2>3 DEF Enough
    <3>2. ServedWhole'
      BY <1>1, <1>2, <1>3, <3>1 DEF ServedWhole
    <3>3. Typed'
      BY <1>1, <1>2, <2>1, <3>1 DEF Typed
    <3> QED BY <1>1, <1>2, <2>2, <3>1, <3>2, <3>3 DEF Whole
  <2>4. CASE n # 0
    <3>1. PICK d : d = [id |-> f.id, off |-> f.off, len |-> n]
      OBVIOUS
    <3>2. d \in Dispatch /\ d.id = f.id /\ d.off = f.off /\ d.len = n /\ Serve(d)
      BY <1>5, <2>4, <3>1 DEF Enough, Packet, Dispatch
    <3>3. /\ served' = Append(served, d) /\ served' \in Seq(Dispatch)
          /\ fw' \in {"read", "send"} /\ reply' \in [id : Nat, todo : Seq(0..MPS)]
          /\ fw' = "send" => reply'.todo # <<>>
      BY <1>1, <3>2, Served
    <3>4. d.id \in Sent /\ (d.off = 0 => d.len = reqs[d.id].len)
      BY <1>1, <1>5, <3>2 DEF Enough
    <3>5. ServedWhole'
      <4>1. served \in Seq(Dispatch)
        BY <1>2 DEF Typed
      <4>2. \A i \in 1..Len(served') : served'[i] = d \/ (i \in 1..Len(served) /\ served'[i] = served[i])
        BY <3>3, <4>1
      <4> QED BY <1>1, <1>2, <1>3, <3>4, <4>2 DEF ServedWhole
    <3>6. Typed'
      BY <1>1, <1>2, <2>1, <3>3 DEF Typed
    <3> QED BY <1>2, <2>2, <3>3, <3>5, <3>6 DEF Whole
  <2> QED BY <2>3, <2>4
<1> QED BY <1>1, <1>4, <1>5

\* The other steps leave the wire alone.
LEMMA WholeRest ==
  ASSUME Whole, ReadOverflow \/ WritePacket \/ HostCollect \/ UNCHANGED vars
  PROVE  Whole'
<1>1. UNCHANGED <<len, head>> \/ (len' = 0 /\ head' = NoPacket)
  BY DEF ReadOverflow, WritePacket, HostCollect, vars
<1>2. UNCHANGED <<reqs, wire, served>>
  BY DEF ReadOverflow, WritePacket, HostCollect, vars
<1>3. InOrder' /\ ServedWhole'
  <2>1. InOrder /\ ServedWhole
    BY DEF Whole
  <2>2. \A p : (Part(p)' <=> Part(p)) /\ (Ends(p)' <=> Ends(p))
    BY <1>2 DEF Part, Ends, Sent
  <2>3. \A p, q : Follows(p, q)' <=> Follows(p, q)
    BY <2>2 DEF Follows
  <2>4. ServedWhole'
    BY <1>2, <2>1 DEF ServedWhole, Sent
  <2>5. PICK v : v = wire
    OBVIOUS
  <2>6. InOrder'
    BY <1>2, <2>1, <2>2, <2>3, <2>5 DEF InOrder
  <2> QED BY <2>4, <2>6
<1>4. Reading'
  BY <1>1, <1>2 DEF Whole, Reading, Sent
<1>5. Typed' /\ (fw' = "send" => reply'.todo # <<>>)
  <2>1. CASE UNCHANGED vars
    BY <2>1 DEF Whole, Typed, vars
  <2>2. CASE ReadOverflow
    <3>1. head' \in Packet
      BY <2>2, FramingAssumption DEF ReadOverflow, NoPacket, Packet
    <3> QED BY <2>2, <3>1 DEF ReadOverflow, Whole, Typed
  <2>3. CASE WritePacket
    <3>1. reply.todo \in Seq(0..MPS) /\ reply.id \in Nat /\ reply.todo # <<>>
      BY <2>3 DEF WritePacket, Whole, Typed
    <3>2. slot' \in Seq([id : Nat, size : 0..MPS]) /\ Len(slot') <= 1
      <4>1. Head(reply.todo) \in 0..MPS
        BY <3>1, Rest
      <4>2. slot' = <<[id |-> reply.id, size |-> Head(reply.todo)]>>
        BY <2>3 DEF WritePacket
      <4> QED BY <3>1, <4>1, <4>2
    <3>3. CASE Len(reply.todo) = 1
      <4>1. fw' = "read" /\ reply' = NoReply
        BY <2>3, <3>3 DEF WritePacket
      <4>2. reply' \in [id : Nat, todo : Seq(0..MPS)]
        BY <4>1 DEF NoReply
      <4> QED BY <2>3, <3>2, <4>1, <4>2 DEF WritePacket, Whole, Typed
    <3>4. CASE Len(reply.todo) # 1
      <4>1. fw' = fw /\ reply' = [reply EXCEPT !.todo = Tail(@)]
        BY <2>3, <3>4 DEF WritePacket
      <4>2. Tail(reply.todo) \in Seq(0..MPS) /\ Tail(reply.todo) # <<>>
        BY <3>1, <3>4, Rest
      <4>3. reply' \in [id : Nat, todo : Seq(0..MPS)] /\ reply'.todo # <<>>
        BY <4>1, <4>2 DEF Whole, Typed
      <4> QED BY <2>3, <3>2, <4>1, <4>3 DEF WritePacket, Whole, Typed
    <3> QED BY <3>3, <3>4
  <2>4. CASE HostCollect
    <3>1. PICK p : p = slot[1] /\ p \in [id : Nat, size : 0..MPS] /\ p.id \in Nat /\ p.size \in Nat
      <4>1. slot[1] \in [id : Nat, size : 0..MPS]
        <5>1. slot \in Seq([id : Nat, size : 0..MPS]) /\ slot # <<>>
          BY <2>4 DEF HostCollect, Whole, Typed
        <5>2. Head(slot) = slot[1] /\ Head(slot) \in [id : Nat, size : 0..MPS]
          BY <5>1, Rest
        <5> QED BY <5>2
      <4> QED BY <4>1, FramingAssumption
    <3>2. rx + p.size \in Nat /\ Len(reqs) \in Nat
      BY <3>1 DEF Whole, Typed
    <3>3. [id |-> p.id, len |-> rx + p.size, want |-> Len(reqs)] \in Transfer
      BY <3>1, <3>2 DEF Transfer
    <3>4. taken' \in Seq(Transfer) /\ rx' \in Nat /\ host' \in {"idle", "waiting"} /\ slot' = <<>>
      <4>1. taken \in Seq(Transfer) /\ host \in {"idle", "waiting"}
        BY DEF Whole, Typed
      <4>2. \/ /\ taken' = Append(taken, [id |-> p.id, len |-> rx + p.size, want |-> Len(reqs)])
               /\ rx' = 0 /\ host' = "idle"
            \/ rx' = rx + p.size /\ UNCHANGED <<taken, host>>
        BY <2>4, <3>1 DEF HostCollect
      <4>3. slot' = <<>>
        BY <2>4 DEF HostCollect
      <4> QED BY SMTT(30), <3>2, <3>3, <4>1, <4>2, <4>3
    <3> QED BY <2>4, <3>4 DEF HostCollect, Whole, Typed
  <2> QED BY <2>1, <2>2, <2>3, <2>4
<1> QED BY <1>3, <1>4, <1>5 DEF Whole

LEMMA WholeInit == Init => Whole
<1> SUFFICES ASSUME Init PROVE Whole
  OBVIOUS
<1>1. head \in Packet /\ reply \in [id : Nat, todo : Seq(0..MPS)]
  BY FramingAssumption DEF Init, NoPacket, Packet, NoReply
<1>2. Typed
  BY <1>1 DEF Init, Typed
<1> QED BY <1>2 DEF Init, Whole, InOrder, Reading, ServedWhole

LEMMA WholeStep == Whole /\ [Next]_vars => Whole'
BY WholeSend, WholeRead, WholeRest DEF Next

\* A command is dispatched whole or not at all, whatever its length and however
\* its end falls on the packets: what did not fit the buffer is never taken for
\* a shorter command (read_request).
THEOREM CommandsAreWhole == Spec => []NoPartialCommand
<1>1. Whole => NoPartialCommand
  <2> SUFFICES ASSUME Whole PROVE NoPartialCommand
    OBVIOUS
  <2>1. DOMAIN served = 1..Len(served)
    BY DEF Whole, Typed
  <2> QED BY <2>1 DEF Whole, ServedWhole, NoPartialCommand
<1> QED BY <1>1, WholeInit, WholeStep, PTL DEF Spec

-----------------------------------------------------------------------------
(* Requests that fit the buffer.                                            *)

\* What was sent before a step fits if all that is sent after it does.
LEMMA ConformingBack ==
  ASSUME Whole, [Next]_vars, Conforming'
  PROVE  Conforming
<1>1. reqs \in Seq(Requests) /\ reqs' \in Seq(Requests) /\ Kept
  <2>1. Whole'
    BY WholeStep
  <2>2. Kept
    BY WholeSend DEF Next, ReadOverflow, ReadPacket, WritePacket, HostCollect, vars, Kept, Sent
  <2> QED BY <2>1, <2>2 DEF Whole, Typed
<1>2. DOMAIN reqs = Sent /\ DOMAIN reqs' = Sent'
  BY <1>1 DEF Sent
<1> QED BY <1>1, <1>2 DEF Conforming, Kept

LEMMA LastSent == Whole => LastRequest = 0 \/ LastRequest \in Sent
<1> SUFFICES ASSUME Whole, served # <<>> PROVE served[Len(served)].id \in Sent
  BY DEF LastRequest
<1>1. Len(served) \in 1..Len(served)
  BY DEF Whole, Typed
<1> QED BY <1>1 DEF Whole, ServedWhole

\* The buffer is never full while a request that fits is being read.
LEMMA NoOverflow ==
  ASSUME Whole, Exchange, Conforming, fw = "read"
  PROVE  len + MPS <= BUF
<1>1. len \in Nat /\ MPS \in Nat /\ BUF \in Nat /\ MPS <= BUF /\ wire \in Seq(Packet)
  BY FramingAssumption DEF Whole, Typed
<1>2. CASE len = 0
  BY <1>1, <1>2
<1>3. CASE len > 0
  <2>1. /\ len < reqs[head.id].len /\ head.id \in Sent
        /\ wire # <<>> /\ wire[1].id = head.id /\ wire[1].off = len
    BY <1>3 DEF Whole, Reading, Exchange, Ahead
  <2>2. 1 \in 1..Len(wire)
    BY <1>1, <2>1, Rest
  <2>3. Part(wire[1])
    BY <2>2 DEF Whole, InOrder
  <2>4. reqs[head.id].len \in Nat /\ reqs[head.id].len <= BUF
    BY <2>1, RequestFields DEF Whole, Typed, Sent, Conforming
  <2> QED BY <1>1, <2>1, <2>3, <2>4 DEF Part
<1> QED BY <1>1, <1>2, <1>3

LEMMA ExchangeSend ==
  ASSUME Whole, Exchange, HostSend, Conforming, Conforming'
  PROVE  Exchange'
<1>1. Ahead /\ ServedOnce /\ UNCHANGED <<served, len, head>>
  BY DEF Exchange, HostSend
<1>2. PICK r \in Requests, z \in BOOLEAN :
        /\ wire' = wire \o Train(Len(reqs) + 1, r.len, z)
        /\ r.len \in Nat \ {0}
  BY Sending DEF Whole
<1>3. PICK t, id, n : id = Len(reqs) + 1 /\ n = r.len /\ t = Train(id, n, z)
  OBVIOUS
<1>4. id \in Nat /\ n \in Nat \ {0} /\ wire \in Seq(Packet) /\ wire' = wire \o t /\ Len(reqs) \in Nat
  BY <1>2, <1>3 DEF Whole, Typed
<1>5. IsTrain(t, id, n, z)
  BY <1>3, <1>4, TrainParts, Zenon
<1>6. /\ Len(wire) \in Nat /\ Len(t) \in Nat
      /\ \A i \in 1..Len(wire) : wire'[i] = wire[i]
      /\ \A k \in 1..Len(wire') :
           k \in 1..Len(wire) \/ (k - Len(wire) \in 1..Len(t) /\ wire'[k] = t[k - Len(wire)])
      /\ Len(t) > 0 /\ \A i \in 1..Len(t) : t[i].id = id /\ t[1].off = 0
  <2>1. t \in Seq(Packet) /\ Len(t) > 0 /\ \A i \in 1..Len(t) : t[i].id = id /\ t[1].off = 0
    BY <1>5 DEF IsTrain
  <2> QED BY <1>4, <2>1, Appended
<1>7. LastRequest < id /\ LastRequest' = LastRequest
  <2>1. LastRequest' = LastRequest
    BY <1>1 DEF LastRequest
  <2> QED BY <1>3, <1>4, <2>1, LastSent DEF Sent
<1>8. \A k \in 1..Len(wire') : LastRequest' < wire'[k].id \/ (LastRequest' = wire'[k].id /\ wire'[k].size = 0)
  BY <1>1, <1>6, <1>7 DEF Ahead
<1>9. wire'[1] = (IF wire = <<>> THEN t[1] ELSE wire[1])
  BY <1>4, <1>5, <1>6 DEF IsTrain
<1>10. Ahead'
  BY <1>1, <1>6, <1>7, <1>8, <1>9 DEF Ahead
<1>11. ServedOnce'
  BY <1>1, <1>7 DEF ServedOnce
<1> QED BY <1>10, <1>11 DEF Exchange

LEMMA ExchangeRead ==
  ASSUME Whole, Exchange, ReadPacket, Conforming
  PROVE  Exchange'
<1>1. Ahead /\ ServedOnce
  BY DEF Exchange
<1>2. PICK f \in Packet, n \in Nat :
        /\ fw = "read" /\ wire # <<>> /\ wire' = Tail(wire) /\ UNCHANGED <<reqs, host, slot, rx, taken>>
        /\ wire[1] \in Packet /\ Part(wire[1])
        /\ f = (IF len = 0 THEN wire[1] ELSE head) /\ n = len + wire[1].size /\ f.id \in Sent
        /\ f.off = 0 => f.id = wire[1].id /\ wire[1].off + wire[1].size = n
        /\ More(f, n) \/ Enough(f, n)
  BY Reads
<1>3. wire \in Seq(Packet) /\ served \in Seq(Dispatch) /\ len \in Nat /\ wire[1].size \in Nat /\ wire[1].off \in Nat
      /\ MPS \in Nat /\ MPS > 0
  BY SMTT(30), <1>2, FramingAssumption DEF Whole, Typed, Packet
<1>4. /\ Len(wire) \in Nat /\ 1 \in 1..Len(wire) /\ Len(wire') = Len(wire) - 1
      /\ \A i \in 1..Len(wire') : wire'[i] = wire[i + 1] /\ i + 1 \in 1..Len(wire)
      /\ wire' \in Seq(Packet)
  BY <1>2, <1>3, Rest
<1>5. n > 0 => f.off = 0 /\ LastRequest < f.id
  BY <1>1, <1>2, <1>3, <1>4 DEF Ahead
<1>6. ASSUME Ends(wire[1]), wire' # <<>> PROVE wire'[1].off = 0 \/ wire'[1].size = 0
  <2>1. 1 < Len(wire) /\ wire'[1] = wire[1 + 1] /\ 1 + 1 \in 1..Len(wire)
    <3>1. 1 \in 1..Len(wire')
      BY <1>4, <1>6, Rest
    <3> QED BY <1>4, <3>1
  <2>2. PICK p, q : p = wire[1] /\ q = wire[1 + 1]
    OBVIOUS
  <2>3. Follows(p, q) /\ Part(q) /\ q.off \in Nat /\ q.size \in Nat
    <3>1. q \in Packet
      BY <1>3, <2>1, <2>2
    <3>2. q.off \in Nat /\ q.size \in Nat
      BY <3>1, FramingAssumption DEF Packet
    <3> QED BY <1>4, <2>1, <2>2, <3>2 DEF Whole, InOrder
  <2>4. Ends(p) /\ reqs[p.id].len \in Nat
    BY SMTT(30), <1>2, <1>6, <2>2, RequestFields DEF Part, Whole, Typed, Sent
  <2>5. q.off = 0 \/ q.size = 0
    BY <2>3, <2>4 DEF Follows, Part, Ends
  <2> QED BY <2>1, <2>2, <2>5
<1>7. CASE More(f, n)
  <2>1. head' = f /\ len' = n /\ n > 0 /\ UNCHANGED served
    BY <1>7 DEF More
  <2>2. LastRequest' = LastRequest
    BY <2>1 DEF LastRequest
  <2>3. Ahead'
    BY <1>1, <1>4, <1>5, <2>1, <2>2 DEF Ahead
  <2>4. ServedOnce'
    BY <1>1, <2>1, <2>2 DEF ServedOnce
  <2> QED BY <2>3, <2>4 DEF Exchange
<1>8. CASE Enough(f, n) /\ n = 0
  <2>1. len' = 0 /\ UNCHANGED served
    BY <1>8 DEF Enough
  <2>2. LastRequest' = LastRequest
    BY <2>1 DEF LastRequest
  <2>3. Ends(wire[1])
    BY <1>2, <1>3, <1>8 DEF Part
  <2>4. Ahead'
    BY <1>1, <1>4, <1>6, <2>1, <2>2, <2>3 DEF Ahead
  <2>5. ServedOnce'
    BY <1>1, <2>1, <2>2 DEF ServedOnce
  <2> QED BY <2>4, <2>5 DEF Exchange
<1>9. CASE Enough(f, n) /\ n > 0
  <2>1. PICK d : d = [id |-> f.id, off |-> f.off, len |-> n]
    OBVIOUS
  <2>2. d.id = f.id /\ d.off = 0 /\ served' = Append(served, d) /\ len' = 0
    BY <1>5, <1>9, <2>1 DEF Enough, Serve
  <2>3. f.id = wire[1].id /\ Ends(wire[1])
    BY <1>2, <1>5, <1>9 DEF Enough, Ends
  <2>4. /\ Len(served) \in Nat /\ Len(served') = Len(served) + 1 /\ served'[Len(served')] = d /\ served' # <<>>
        /\ \A i \in 1..Len(served') :
             (i \in 1..Len(served) /\ served'[i] = served[i]) \/ (i = Len(served) + 1 /\ served'[i] = d)
    <3>1. /\ Len(served) \in Nat /\ Len(served') = Len(served) + 1 /\ served' # <<>>
          /\ \A i \in 1..Len(served) : served'[i] = served[i]
          /\ served'[Len(served) + 1] = d
      BY <1>3, <2>2, Pushed
    <3>2. served'[Len(served')] = d
      BY <3>1
    <3>3. ASSUME NEW i \in 1..Len(served')
          PROVE  (i \in 1..Len(served) /\ served'[i] = served[i]) \/ (i = Len(served) + 1 /\ served'[i] = d)
      <4>1. i \in 1..Len(served) \/ i = Len(served) + 1
        BY <3>1
      <4> QED BY <3>1, <4>1
    <3> QED BY <3>1, <3>2, <3>3
  <2>5. LastRequest' = f.id /\ LastRequest < f.id /\ f.id \in Nat
    BY <1>2, <1>5, <1>9, <2>2, <2>4 DEF LastRequest, Packet
  <2>6. \A i \in 1..Len(wire') : LastRequest' < wire'[i].id \/ (LastRequest' = wire'[i].id /\ wire'[i].size = 0)
    <3> SUFFICES ASSUME NEW i \in 1..Len(wire'), NEW p, NEW q, p = wire[1], q = wire'[i]
                 PROVE  LastRequest' < q.id \/ (LastRequest' = q.id /\ q.size = 0)
      OBVIOUS
    <3>1. q = wire[i + 1] /\ i + 1 \in 1..Len(wire) /\ 1 < i + 1
      BY <1>4
    <3>2. q \in Packet /\ Part(q)
      BY <1>3, <3>1 DEF Whole, InOrder
    <3>3. p.id < q.id \/ (p.id = q.id /\ p.off + p.size <= q.off)
      <4>1. \A i1, j1 \in 1..Len(wire) : i1 < j1 =>
              wire[i1].id < wire[j1].id \/ (wire[i1].id = wire[j1].id /\ wire[i1].off + wire[i1].size <= wire[j1].off)
        BY DEF Whole, InOrder
      <4>2. PICK a, b : a = 1 /\ b = i + 1
        OBVIOUS
      <4>3. a \in 1..Len(wire) /\ b \in 1..Len(wire) /\ a < b /\ p = wire[a] /\ q = wire[b]
        BY <1>4, <3>1, <4>2
      <4> HIDE <4>2
      <4> QED BY <4>1, <4>3
    <3>4. q.off \in Nat /\ q.size \in Nat /\ reqs[p.id].len \in Nat
      <4>1. q.off \in Nat /\ q.size \in Nat
        BY <3>2, FramingAssumption DEF Packet
      <4>2. reqs[p.id].len \in Nat
        BY <1>2, RequestFields DEF Part, Whole, Typed, Sent
      <4> QED BY <4>1, <4>2
    <3> QED BY SMTT(30), <2>3, <2>5, <3>2, <3>3, <3>4 DEF Part, Ends
  <2>7. Ahead'
    BY <1>6, <2>2, <2>3, <2>6 DEF Ahead
  <2>8. ServedOnce'
    <3>1. \A i \in 1..Len(served) : served[i].off = 0 /\ served[i].id <= LastRequest /\ served[i].id \in Nat
      <4>1. \A i \in 1..Len(served) : served[i] \in Dispatch
        BY <1>3
      <4> QED BY <1>1, <4>1 DEF ServedOnce, Dispatch
    <3>2. LastRequest \in Nat
      BY LastSent DEF Sent
    <3>3. \A i \in 1..Len(served') : served'[i].off = 0 /\ served'[i].id <= LastRequest'
      BY <2>2, <2>4, <2>5, <3>1, <3>2
    <3>4. ASSUME NEW i \in 1..Len(served'), NEW j \in 1..Len(served'), i < j
          PROVE  served'[i].id < served'[j].id
      <4>1. i \in 1..Len(served) /\ served'[i] = served[i]
        BY <2>4, <3>4
      <4>2. CASE j \in 1..Len(served)
        BY <1>1, <2>4, <3>4, <4>1, <4>2 DEF ServedOnce
      <4>3. CASE j = Len(served) + 1
        BY <2>2, <2>4, <2>5, <3>1, <3>2, <4>1, <4>3
      <4> QED BY <2>4, <4>2, <4>3
    <3> QED BY <3>3, <3>4 DEF ServedOnce
  <2> QED BY <2>7, <2>8 DEF Exchange
<1> QED BY <1>2, <1>7, <1>8, <1>9

\* Nothing else dispatches a command or moves the wire on.
LEMMA ExchangeRest ==
  ASSUME Whole, Exchange, Conforming, ReadOverflow \/ WritePacket \/ HostCollect \/ UNCHANGED vars
  PROVE  Exchange'
<1>1. UNCHANGED <<wire, served, len, head>>
  <2>1. ~ReadOverflow
    <3>1. BUF \in Nat /\ MPS \in Nat /\ len \in Nat
      BY FramingAssumption DEF Whole, Typed
    <3>2. ReadOverflow => len + MPS > BUF /\ fw = "read"
      BY DEF ReadOverflow
    <3> QED BY <3>1, <3>2, NoOverflow
  <2> QED BY <2>1 DEF WritePacket, HostCollect, vars
<1>2. LastRequest' = LastRequest
  BY <1>1 DEF LastRequest
<1> QED BY <1>1, <1>2 DEF Exchange, Ahead, ServedOnce

LEMMA ExchangeStep == Whole /\ Exchange /\ [Next]_vars => Exchange'
<1> SUFFICES ASSUME Whole, Exchange, [Next]_vars, Conforming' PROVE Exchange'
  BY DEF Exchange
<1>1. Conforming
  BY ConformingBack
<1> QED BY <1>1, ExchangeSend, ExchangeRead, ExchangeRest DEF Next

LEMMA ExchangeInit == Init => Exchange
BY DEF Init, Exchange, Ahead, ServedOnce

\* While the host's requests fit the buffer, each command dispatched is one
\* request, whole and alone, and none is dispatched twice: read_request takes a
\* request for complete where it ends, however its length falls on the packets,
\* and an empty packet behind it is not a request.
THEOREM RequestsAreReassembled == Spec => []Reassembled
<1>1. Whole /\ Exchange => Reassembled
  <2> SUFFICES ASSUME Whole, Exchange, Conforming PROVE Reassembled
    BY DEF Reassembled
  <2>1. DOMAIN served = 1..Len(served)
    BY DEF Whole, Typed
  <2> QED BY <2>1 DEF Whole, ServedWhole, Exchange, ServedOnce, Reassembled
<1>2. Init => Whole /\ Exchange
  BY WholeInit, ExchangeInit
<1>3. Whole /\ Exchange /\ [Next]_vars => Whole' /\ Exchange'
  BY WholeStep, ExchangeStep
<1> QED BY <1>1, <1>2, <1>3, PTL DEF Spec

-----------------------------------------------------------------------------
(* The replies.                                                             *)

\* A reply of a configuration session is one packet, and any other ends with a
\* short one.
LEMMA ReplyCut ==
  ASSUME NEW n \in Nat, NEW zlp \in BOOLEAN, NEW s, IsCut(s, n, zlp), zlp \/ n <= MPS
  PROVE  IF zlp THEN s[Len(s)] < MPS ELSE Len(s) = 1
<1>1. MPS \in Nat /\ MPS > 0
  BY FramingAssumption
<1>2. s \in Seq(0..MPS) /\ Len(s) \in Nat /\ Len(s) > 0 /\ s[Len(s)] \in 0..MPS
  <2>1. s \in Seq(0..MPS) /\ Len(s) > 0
    BY DEF IsCut
  <2> QED BY <2>1, Ending
<1>3. CASE zlp
  BY <1>3 DEF IsCut
<1>4. CASE ~zlp
  <2> SUFFICES ASSUME Len(s) > 1 PROVE FALSE
    BY SMTT(30), <1>2, <1>4
  <2>1. PICK m : m = (Len(s) - 1) * MPS
    OBVIOUS
  <2>2. m >= MPS
    <3>1. 1 * MPS <= (Len(s) - 1) * MPS
      BY <1>2, Times
    <3> QED BY <1>1, <2>1, <3>1
  <2>3. m + s[Len(s)] = n /\ s[Len(s)] > 0 /\ n <= MPS
    BY <1>4, <2>1 DEF IsCut
  <2>4. m \in Nat
    BY <1>1, <1>2, <2>1
  <2> QED BY <1>1, <1>2, <2>2, <2>3, <2>4
<1> QED BY <1>3, <1>4

\* What a reader can use of the invariant in one step.
LEMMA AnsweredFacts ==
  ASSUME Whole, Exchange, Answered, Conforming
  PROVE  /\ Waited /\ Replying /\ Taken /\ Ahead /\ ServedOnce
         /\ reqs \in Seq(Requests) /\ Len(reqs) \in Nat /\ LastRequest \in Nat /\ LastRequest <= Len(reqs)
         /\ rx \in Nat /\ MPS \in Nat /\ MPS > 0 /\ BUF \in Nat
         /\ slot # <<>> => slot[1] \in [id : Nat, size : 0..MPS] /\ slot[1].size \in Nat
         /\ host = "idle" => fw = "read" /\ slot = <<>> /\ rx = 0
         /\ LastRequest < Len(reqs) => fw = "read" /\ slot = <<>> /\ rx = 0
<1>1. Waited /\ Replying /\ Taken /\ Ahead /\ ServedOnce
  BY DEF Answered, Exchange
<1>2. reqs \in Seq(Requests) /\ rx \in Nat /\ Len(reqs) \in Nat
  BY DEF Whole, Typed
<1>3. MPS \in Nat /\ MPS > 0 /\ BUF \in Nat
  BY FramingAssumption
<1>4. LastRequest \in Nat /\ LastRequest <= Len(reqs)
  BY <1>2, LastSent DEF Sent
<1>5. slot # <<>> => slot[1] \in [id : Nat, size : 0..MPS] /\ slot[1].size \in Nat
  <2> SUFFICES ASSUME slot # <<>> PROVE slot[1] \in [id : Nat, size : 0..MPS] /\ slot[1].size \in Nat
    OBVIOUS
  <2>1. slot \in Seq([id : Nat, size : 0..MPS])
    BY DEF Whole, Typed
  <2>2. Head(slot) = slot[1] /\ Head(slot) \in [id : Nat, size : 0..MPS]
    BY <2>1, Rest
  <2>3. \A x \in [id : Nat, size : 0..MPS] : x.size \in Nat
    BY <1>3
  <2> QED BY <2>2, <2>3
<1>6. fw = "read" \/ fw = "send"
  BY DEF Whole, Typed
<1>7. rx = 0 \/ rx > 0
  BY <1>2
<1>8. host = "idle" => fw = "read" /\ slot = <<>> /\ rx = 0
  BY <1>1, <1>6, <1>7 DEF Replying
<1>9. LastRequest < Len(reqs) => fw = "read" /\ slot = <<>> /\ rx = 0
  <2>1. LastRequest < Len(reqs) => LastRequest # Len(reqs)
    BY <1>2, <1>4
  <2> QED BY <1>1, <1>6, <1>7, <2>1 DEF Replying
<1> QED BY <1>1, <1>2, <1>3, <1>4, <1>5, <1>8, <1>9

LEMMA AnsweredSend ==
  ASSUME Whole, Exchange, Answered, Conforming, HostSend
  PROVE  Waited' /\ Replying' /\ Taken'
<1>1. /\ Waited /\ Taken /\ Len(reqs) \in Nat /\ LastRequest \in Nat /\ LastRequest <= Len(reqs)
      /\ fw = "read" /\ slot = <<>> /\ rx = 0
  BY AnsweredFacts DEF HostSend
<1>2. PICK r \in Requests :
        /\ host' = IF r.rlen = 0 THEN "idle" ELSE "waiting"
        /\ r.rlen \in Nat /\ Sent' = Sent \cup {Len(reqs) + 1}
        /\ \A i \in Sent : reqs'[i] = reqs[i]
        /\ reqs'[Len(reqs) + 1] = r /\ Len(reqs') = Len(reqs) + 1
  BY Sending DEF Whole
<1>3. UNCHANGED <<fw, len, served, reply, slot, rx, taken>>
  BY DEF HostSend
<1>4. LastRequest' = LastRequest
  BY <1>3 DEF LastRequest
<1>5. Waited'
  <2>1. ASSUME NEW i \in Sent', LastRequest' < i
        PROVE  reqs'[i].rlen = 0 \/ (host' = "waiting" /\ i = Len(reqs'))
    <3>1. CASE i \in Sent
      BY <1>1, <1>2, <1>4, <2>1, <3>1 DEF Waited, HostSend
    <3>2. CASE i = Len(reqs) + 1
      BY <1>2, <3>2
    <3> QED BY <1>2, <3>1, <3>2
  <2>2. host' = "waiting" => reqs' # <<>> /\ reqs'[Len(reqs')].rlen > 0
    <3>1. reqs' # <<>>
      BY <1>1, <1>2
    <3> QED BY <1>2, <3>1
  <2> QED BY <2>1, <2>2 DEF Waited
<1>6. Replying'
  <2>1. fw' = "read" /\ slot' = <<>> /\ rx' = 0 /\ LastRequest' # Len(reqs')
    BY <1>1, <1>2, <1>3, <1>4
  <2> QED BY <2>1 DEF Replying
<1>7. Taken'
  BY <1>1, <1>2, <1>3 DEF Taken
<1> QED BY <1>5, <1>6, <1>7

LEMMA AnsweredRead ==
  ASSUME Whole, Exchange, Answered, Conforming, ReadPacket
  PROVE  Waited' /\ Replying' /\ Taken'
<1>1. /\ Waited /\ Replying /\ Taken /\ Len(reqs) \in Nat /\ LastRequest \in Nat /\ LastRequest <= Len(reqs)
      /\ reqs \in Seq(Requests)
      /\ LastRequest < Len(reqs) => fw = "read" /\ slot = <<>> /\ rx = 0
  BY AnsweredFacts
<1>2. PICK f \in Packet, n \in Nat :
        /\ fw = "read" /\ wire # <<>> /\ wire' = Tail(wire) /\ UNCHANGED <<reqs, host, slot, rx, taken>>
        /\ f = (IF len = 0 THEN wire[1] ELSE head) /\ n = len + wire[1].size /\ f.id \in Sent
        /\ More(f, n) \/ Enough(f, n)
  BY Reads
<1>3. Sent' = Sent /\ Taken' /\ \A s, b, m : Remaining(s, b, m)' <=> Remaining(s, b, m)
  BY <1>1, <1>2 DEF Taken, Sent, Remaining
<1>4. CASE served' = served /\ fw' = fw /\ reply' = reply
  <2>1. LastRequest' = LastRequest /\ InSlot' = InSlot
    BY <1>2, <1>4 DEF LastRequest, InSlot
  <2>2. Waited'
    BY <1>1, <1>2, <1>3, <2>1 DEF Waited
  <2>3. Replying'
    <3>1. UNCHANGED <<reqs, host, fw, reply, slot, rx>> /\ fw = "read"
      BY <1>2, <1>4
    <3> QED BY <1>1, <2>1, <3>1 DEF Replying, Remaining
  <2> QED BY <1>3, <2>2, <2>3
<1>5. CASE Enough(f, n) /\ n # 0
  <2>1. PICK d : d = [id |-> f.id, off |-> f.off, len |-> n]
    OBVIOUS
  <2>2. f.off = 0 /\ LastRequest < f.id /\ wire[1].size \in Nat /\ len \in Nat
    <3>1. wire \in Seq(Packet) /\ len \in Nat
      BY DEF Whole, Typed
    <3>2. 1 \in 1..Len(wire) /\ wire[1] \in Packet
      BY <1>2, <3>1, Rest
    <3>3. wire[1].size \in Nat /\ f.off \in Nat
      BY <1>2, <3>2, FramingAssumption DEF Packet
    <3>4. Ahead
      BY AnsweredFacts
    <3> QED BY <1>2, <1>5, <3>1, <3>2, <3>3, <3>4 DEF Ahead
  <2>3. /\ d.id = f.id /\ d.off = 0 /\ Serve(d) /\ served' = Append(served, d) /\ len' = 0
        /\ d.id \in Sent /\ d.id \in Nat /\ d.id <= Len(reqs) /\ LastRequest < d.id
    BY <1>1, <1>2, <1>5, <2>1, <2>2 DEF Enough, Serve, Sent
  <2>4. LastRequest' = d.id
    <3>1. Len(served) \in Nat /\ Len(served') = Len(served) + 1 /\ served' # <<>> /\ served'[Len(served) + 1] = d
      <4>1. served \in Seq(Dispatch)
        BY DEF Whole, Typed
      <4> QED BY <2>3, <4>1, Pushed
    <3> QED BY <3>1 DEF LastRequest
  <2>5. slot = <<>> /\ rx = 0 /\ LastRequest < Len(reqs)
    BY <1>1, <2>3
  <2>6. Waited'
    BY <1>1, <1>2, <1>3, <2>3, <2>4 DEF Waited, Sent
  <2>7. PICK m : m = reqs[d.id].rlen /\ m \in Nat /\ ReplyLen(d) = m /\ (reqs[d.id].vendor => m <= MPS)
    <3>1. reqs[d.id] \in Requests
      BY <1>1, <2>3 DEF Sent
    <3>2. reqs[d.id].vendor => reqs[d.id].rlen \in 1..MPS
      BY <3>1, FramingAssumption DEF Requests
    <3> QED BY <2>3, <3>1, <3>2, RequestFields, FramingAssumption DEF ReplyLen
  <2>8. CASE m = 0
    <3>1. fw' = "read" /\ slot' = <<>> /\ rx' = 0
      BY <1>2, <2>3, <2>5, <2>7, <2>8 DEF Serve
    <3>2. ~(host' = "waiting" /\ LastRequest' = Len(reqs'))
      <4> SUFFICES ASSUME host' = "waiting", LastRequest' = Len(reqs') PROVE FALSE
        OBVIOUS
      <4>1. host = "waiting" /\ d.id = Len(reqs)
        BY <1>2, <2>4
      <4>2. reqs[Len(reqs)].rlen > 0 /\ reqs[Len(reqs)].rlen = 0
        BY <1>1, <2>7, <2>8, <4>1 DEF Waited
      <4> QED BY <4>2
    <3>3. Replying'
      BY <3>1, <3>2 DEF Replying
    <3> QED BY <1>3, <2>6, <3>3
  <2>9. CASE m > 0
    <3>1. host = "waiting" /\ d.id = Len(reqs)
      BY <1>1, <2>3, <2>7, <2>9 DEF Waited
    <3>2. PICK z \in BOOLEAN : z <=> ~reqs[d.id].vendor
      OBVIOUS
    <3>3. z = ZlpAfter(d)
      BY <2>3, <3>2 DEF ZlpAfter
    <3>4. PICK s : s = Packets(m, z) /\ fw' = "send" /\ reply' = [id |-> d.id, todo |-> s]
      BY <2>3, <2>7, <2>9, <3>3 DEF Serve
    <3>5. IsCut(s, m, z)
      BY <2>7, <2>9, <3>4, Cut, Zenon
    <3>6. z \/ m <= MPS
      BY <2>7, <3>2
    <3>7. IF z THEN s[Len(s)] < MPS ELSE Len(s) = 1
      BY <2>7, <3>5, <3>6, ReplyCut, Zenon
    <3>8. Remaining(s, 0, m)
      <4>1. /\ s \in Seq(0..MPS) /\ Len(s) > 0 /\ (Len(s) - 1) * MPS + s[Len(s)] = m
            /\ \A i \in 1..Len(s) : i < Len(s) => s[i] = MPS
        BY <3>5 DEF IsCut
      <4>2. 0 + (Len(s) - 1) * MPS + s[Len(s)] = m /\ s # <<>>
        <5>1. Len(s) \in Nat /\ MPS \in Nat /\ s[Len(s)] \in Nat
          BY <4>1, Ending, FramingAssumption
        <5>2. PICK k : k = (Len(s) - 1) * MPS
          OBVIOUS
        <5>3. k \in Int
          BY <5>1, <5>2
        <5>4. 0 + k = k
          BY <5>3
        <5> QED BY <4>1, <5>2, <5>4
      <4>3. IF reqs[Len(reqs)].vendor THEN Len(s) = 1 ELSE s[Len(s)] < MPS
        BY <3>1, <3>2, <3>7
      <4> QED BY <4>1, <4>2, <4>3 DEF Remaining
    <3>9. InSlot' = 0 /\ rx' = 0 /\ slot' = <<>> /\ reply'.id = Len(reqs') /\ reply'.todo = s
          /\ reqs'[Len(reqs')].rlen = m /\ host' = "waiting" /\ LastRequest' = Len(reqs') /\ len' = 0
      BY <1>2, <2>3, <2>4, <2>5, <2>7, <3>1, <3>4 DEF InSlot
    <3>10. Replying'
      BY <1>3, <3>4, <3>8, <3>9 DEF Replying
    <3> QED BY <1>3, <2>6, <3>10
  <2> QED BY <2>7, <2>8, <2>9
<1>6. More(f, n) \/ (Enough(f, n) /\ n = 0) => served' = served /\ fw' = fw /\ reply' = reply
  BY DEF More, Enough
<1> QED BY <1>2, <1>4, <1>5, <1>6

\* What remains of a reply when its first packet is in the endpoint.
LEMMA OneLess ==
  ASSUME NEW s \in Seq(0..MPS), NEW b \in Nat, NEW m \in Nat, Remaining(s, b, m), Len(s) # 1
  PROVE  Head(s) = MPS /\ Remaining(Tail(s), b + MPS, m)
<1>1. MPS \in Nat /\ s # <<>> /\ Len(s) \in Nat
  BY FramingAssumption DEF Remaining
<1>2. PICK t : t = Tail(s)
  OBVIOUS
<1>3. /\ t \in Seq(0..MPS) /\ Len(t) = Len(s) - 1 /\ t # <<>> /\ Head(s) = s[1] /\ 1 \in 1..Len(s)
      /\ \A i \in 1..Len(t) : t[i] = s[i + 1] /\ i + 1 \in 1..Len(s)
  BY <1>1, <1>2, Rest
<1>4. Len(t) \in 1..Len(t) /\ t[Len(t)] = s[Len(s)] /\ s[Len(s)] \in Nat
  <2>1. Len(t) \in 1..Len(t)
    BY <1>1, <1>3, Rest
  <2>2. t[Len(t)] = s[Len(t) + 1] /\ Len(t) + 1 = Len(s)
    BY SMTT(30), <1>1, <1>3, <2>1
  <2>3. s[Len(s)] \in Nat
    BY <1>1, <2>1, <2>2, Ending
  <2> QED BY <2>1, <2>2, <2>3
<1>5. Head(s) = MPS
  BY <1>1, <1>3, <1>4 DEF Remaining
<1>6. \A i \in 1..Len(t) : i < Len(t) => t[i] = MPS
  <2> SUFFICES ASSUME NEW i \in 1..Len(t), i < Len(t) PROVE t[i] = MPS
    OBVIOUS
  <2>1. PICK k : k = i + 1
    OBVIOUS
  <2>2. k \in 1..Len(s) /\ t[i] = s[k]
    BY <1>3, <2>1
  <2>3. k < Len(s)
    BY <1>1, <1>3, <2>1
  <2> QED BY <2>2, <2>3 DEF Remaining
<1>7. (b + MPS) + (Len(t) - 1) * MPS + t[Len(t)] = m
  <2>1. PICK k, h : k = (Len(s) - 1) * MPS /\ h = (Len(t) - 1) * MPS
    OBVIOUS
  <2>2. h + MPS = k /\ h \in Int
    BY <1>1, <1>3, <2>1
  <2>3. b + k + s[Len(s)] = m
    BY <2>1 DEF Remaining
  <2> QED BY SMTT(30), <1>1, <1>4, <2>1, <2>2, <2>3
<1>8. ~reqs[Len(reqs)].vendor /\ t[Len(t)] < MPS
  BY <1>4 DEF Remaining
<1> QED BY <1>2, <1>3, <1>5, <1>6, <1>7, <1>8 DEF Remaining

\* A packet moves from the buffer to the endpoint.
LEMMA AnsweredWrite ==
  ASSUME Whole, Exchange, Answered, Conforming, WritePacket
  PROVE  Waited' /\ Replying' /\ Taken'
<1>1. /\ Waited /\ Replying /\ Taken /\ Len(reqs) \in Nat /\ reqs \in Seq(Requests)
      /\ rx \in Nat /\ MPS \in Nat /\ MPS > 0
  BY AnsweredFacts
<1>2. fw = "send" /\ slot = <<>> /\ UNCHANGED <<reqs, host, len, served, rx, taken>>
  BY DEF WritePacket
<1>3. PICK m : m = reqs[Len(reqs)].rlen
  OBVIOUS
<1>4. PICK s : s = reply.todo /\ s \in Seq(0..MPS) /\ s # <<>>
  BY <1>2 DEF Whole, Typed
<1>5. /\ host = "waiting" /\ LastRequest = Len(reqs) /\ reply.id = Len(reqs) /\ Remaining(s, rx, m)
  <2>1. InSlot = 0 /\ rx + 0 = rx
    BY <1>1, <1>2 DEF InSlot
  <2> QED BY <1>1, <1>2, <1>3, <1>4, <2>1 DEF Replying
<1>6. m \in Nat
  <2>1. Len(reqs) \in 1..Len(reqs)
    BY <1>1, <1>5 DEF Waited
  <2> QED BY <1>1, <1>3, <2>1, RequestFields
<1>7. slot' = <<[id |-> Len(reqs), size |-> Head(s)]>> /\ slot' # <<>> /\ Head(s) = s[1]
  BY <1>4, <1>5, Rest DEF WritePacket
<1>8. slot'[1].id = Len(reqs) /\ slot'[1].size = Head(s) /\ InSlot' = Head(s)
  BY <1>7 DEF InSlot
<1>9. LastRequest' = LastRequest /\ Waited' /\ Taken' /\ \A x, b, k : Remaining(x, b, k)' <=> Remaining(x, b, k)
  <2>1. LastRequest' = LastRequest
    BY <1>2 DEF LastRequest
  <2> QED BY <1>1, <1>2, <2>1 DEF Waited, Taken, Sent, Remaining
<1>10. CASE Len(s) = 1
  <2>1. fw' = "read"
    BY <1>4, <1>10 DEF WritePacket
  <2>2. Remaining(<<slot'[1].size>>, rx', m)
    <3>1. PICK h : h = Head(s) /\ h = s[1]
      BY <1>7
    <3>2. <<h>> # <<>> /\ Len(<<h>>) = 1 /\ <<h>>[1] = h
      OBVIOUS
    <3>3. Remaining(<<h>>, rx, m)
      BY <1>5, <1>10, <3>1, <3>2 DEF Remaining
    <3> QED BY <1>2, <1>8, <3>1, <3>3
  <2>3. Replying'
    <3>1. host' = "waiting" /\ LastRequest' = Len(reqs') /\ reqs' = reqs
      BY <1>2, <1>5, <1>9
    <3> QED BY <1>3, <1>7, <1>8, <1>9, <2>1, <2>2, <3>1 DEF Replying
  <2> QED BY <1>9, <2>3
<1>11. CASE Len(s) # 1
  <2>1. fw' = fw /\ reply' = [reply EXCEPT !.todo = Tail(@)]
    BY <1>4, <1>11 DEF WritePacket
  <2>2. reply'.id = Len(reqs) /\ reply'.todo = Tail(s)
    BY <1>4, <1>5, <2>1 DEF Whole, Typed
  <2>3. Head(s) = MPS /\ Remaining(Tail(s), rx + MPS, m)
    BY <1>1, <1>4, <1>5, <1>6, <1>11, OneLess
  <2>4. slot'[1] = [id |-> Len(reqs), size |-> MPS]
    BY <1>7, <2>3
  <2>5. Replying'
    <3>1. host' = "waiting" /\ LastRequest' = Len(reqs') /\ reqs' = reqs /\ rx' = rx /\ fw' = "send" /\ len' = len
      BY <1>2, <1>5, <1>9, <2>1
    <3>2. Remaining(reply'.todo, rx' + InSlot', m)
      BY <1>8, <2>2, <2>3, <3>1
    <3>3. Remaining(reply.todo, rx + InSlot, reqs[Len(reqs)].rlen)'
      BY <1>3, <3>1, <3>2 DEF Remaining
    <3>4. len' = 0
      BY <1>1, <1>2, <3>1 DEF Replying
    <3> QED BY <2>2, <2>4, <3>1, <3>3, <3>4 DEF Replying
  <2> QED BY <1>9, <2>5
<1> QED BY <1>10, <1>11

\* The host takes a packet: more of its reply is to come, or that was the end.
LEMMA AnsweredCollect ==
  ASSUME Whole, Exchange, Answered, Conforming, HostCollect, BUF \notin StdReplies
  PROVE  Waited' /\ Replying' /\ Taken'
<1>1. /\ Waited /\ Replying /\ Taken /\ Len(reqs) \in Nat /\ reqs \in Seq(Requests)
      /\ rx \in Nat /\ MPS \in Nat /\ MPS > 0 /\ BUF \in Nat
      /\ slot # <<>> => slot[1] \in [id : Nat, size : 0..MPS] /\ slot[1].size \in Nat
  BY AnsweredFacts
<1>2. /\ host = "waiting" /\ slot # <<>> /\ slot' = <<>>
      /\ UNCHANGED <<reqs, wire, fw, head, len, served, reply>>
  BY DEF HostCollect
<1>3. Len(reqs) \in Sent /\ LastRequest = Len(reqs)
  <2>1. reqs # <<>>
    BY <1>1, <1>2 DEF Waited
  <2>2. Len(reqs) > 0
    BY <1>1, <2>1
  <2> QED BY <1>1, <1>2, <2>2 DEF Sent, Replying
<1>4. PICK m : m = reqs[Len(reqs)].rlen /\ m \in Nat
  BY <1>1, <1>3, RequestFields DEF Sent
<1>5. PICK p : p = slot[1] /\ p.size \in 0..MPS /\ p.size \in Nat
  BY <1>1, <1>2
<1>6. PICK n : n = rx + p.size /\ n \in Nat
  BY <1>1, <1>5
<1>7. /\ (p.size < MPS \/ n = ReadSize) =>
            /\ taken' = Append(taken, [id |-> p.id, len |-> n, want |-> Len(reqs)])
            /\ rx' = 0 /\ host' = "idle"
      /\ ~(p.size < MPS \/ n = ReadSize) => rx' = n /\ UNCHANGED <<taken, host>>
  BY <1>5, <1>6 DEF HostCollect
<1>8. LastRequest' = LastRequest /\ Sent' = Sent /\ InSlot' = 0
  BY <1>2 DEF LastRequest, Sent, InSlot
<1>9. CASE fw = "send"
  <2>1. p.size = MPS /\ InSlot = MPS /\ reply.id = Len(reqs) /\ Remaining(reply.todo, rx + MPS, m) /\ len = 0
    BY <1>1, <1>2, <1>4, <1>5, <1>9 DEF Replying, InSlot
  <2>2. PICK s : s = reply.todo /\ s \in Seq(0..MPS) /\ s # <<>>
    BY <1>9 DEF Whole, Typed
  <2>3. n < BUF /\ ~reqs[Len(reqs)].vendor
    <3>1. ~reqs[Len(reqs)].vendor
      <4>1. rx + MPS # 0
        BY <1>1
      <4> QED BY <2>1, <4>1 DEF Remaining
    <3>2. m # BUF /\ m <= BUF
      <4>1. m \in StdReplies
        <5>1. reqs[Len(reqs)] \in Requests
          BY <1>1, <1>3 DEF Sent
        <5> QED BY <1>4, <3>1, <5>1 DEF Requests
      <4>2. StdReplies \subseteq 0..BUF
        BY FramingAssumption
      <4>3. m \in 0..BUF
        BY <4>1, <4>2
      <4> QED BY <1>1, <4>1, <4>3
    <3>3. n <= m
      <4>1. Len(s) \in Nat /\ Len(s) > 0 /\ s[Len(s)] \in Nat
        <5>1. Len(s) \in Nat /\ Len(s) > 0
          BY <2>2
        <5> QED BY <1>1, <2>2, <5>1, Ending
      <4>2. PICK k : k = (Len(s) - 1) * MPS
        OBVIOUS
      <4>3. k \in Int /\ k >= 0
        <5>1. 0 * MPS <= (Len(s) - 1) * MPS
          BY <4>1, Times
        <5> QED BY <1>1, <4>1, <4>2, <5>1
      <4>4. (rx + MPS) + k + s[Len(s)] = m
        BY <2>1, <2>2, <4>2 DEF Remaining
      <4> QED BY <1>1, <1>4, <1>6, <2>1, <4>1, <4>3, <4>4
    <3> QED BY <1>1, <1>4, <1>6, <3>1, <3>2, <3>3
  <2>4. rx' = n /\ UNCHANGED <<taken, host>>
    <3>1. n # ReadSize
      BY <1>1, <1>6, <2>3 DEF ReadSize
    <3>2. ~(p.size < MPS)
      BY <1>1, <2>1
    <3> QED BY <1>7, <3>1, <3>2
  <2>5. Waited' /\ Taken'
    BY <1>1, <1>2, <1>8, <2>4 DEF Waited, Taken
  <2>6. Replying'
    <3>1. n + 0 = rx + MPS
      BY <1>1, <1>6, <2>1
    <3>2. Remaining(reply'.todo, rx' + InSlot', m)
      BY <1>2, <1>8, <2>1, <2>4, <3>1
    <3>3. Remaining(reply.todo, rx + InSlot, reqs[Len(reqs)].rlen)'
      BY <1>2, <1>4, <3>2 DEF Remaining
    <3>4. fw' = "send" /\ host' = "waiting" /\ LastRequest' = Len(reqs') /\ reply'.id = Len(reqs') /\ len' = 0
      BY <1>2, <1>3, <1>8, <1>9, <2>1, <2>4
    <3> QED BY <1>2, <3>3, <3>4 DEF Replying
  <2> QED BY <2>5, <2>6
<1>10. CASE fw = "read"
  <2>1. p.id = Len(reqs) /\ Remaining(<<p.size>>, rx, m)
    BY <1>1, <1>2, <1>4, <1>5, <1>10 DEF Replying
  <2>2. PICK z : z = p.size
    OBVIOUS
  <2>3. <<z>> # <<>> /\ Len(<<z>>) = 1 /\ <<z>>[1] = z
    OBVIOUS
  <2>4. rx + (1 - 1) * MPS + z = m /\ IF reqs[Len(reqs)].vendor THEN rx = 0 ELSE z < MPS
    BY <2>1, <2>2, <2>3 DEF Remaining
  <2>5. n = m
    <3>1. (1 - 1) * MPS = 0
      BY <1>1
    <3> QED BY <1>1, <1>5, <1>6, <2>2, <2>4, <3>1
  <2>6. p.size < MPS \/ n = ReadSize
    BY <1>1, <1>5, <1>6, <2>2, <2>4 DEF ReadSize
  <2>7. /\ taken' = Append(taken, [id |-> Len(reqs), len |-> m, want |-> Len(reqs)])
        /\ rx' = 0 /\ host' = "idle"
    BY <1>7, <2>1, <2>5, <2>6
  <2>8. Waited'
    BY <1>1, <1>2, <1>3, <1>8, <2>7 DEF Waited, Sent
  <2>9. Replying'
    BY <1>2, <1>10, <2>7 DEF Replying
  <2>10. Taken'
    <3>1. PICK x : x = [id |-> Len(reqs), len |-> m, want |-> Len(reqs)]
      OBVIOUS
    <3>2. x.id = Len(reqs) /\ x.want = Len(reqs) /\ x.len = m
      BY <3>1
    <3>3. /\ Len(taken) \in Nat /\ Len(taken') = Len(taken) + 1 /\ taken'[Len(taken) + 1] = x
          /\ \A i \in 1..Len(taken) : taken'[i] = taken[i]
      <4>1. taken \in Seq(Transfer)
        BY DEF Whole, Typed
      <4> QED BY <2>7, <3>1, <4>1, Pushed
    <3>4. ASSUME NEW i \in 1..Len(taken')
          PROVE  /\ taken'[i].id = taken'[i].want /\ taken'[i].id \in Sent
                 /\ taken'[i].len = reqs[taken'[i].id].rlen
      <4>1. i \in 1..Len(taken) \/ i = Len(taken) + 1
        BY <3>3
      <4>2. CASE i \in 1..Len(taken)
        BY <1>1, <3>3, <4>2 DEF Taken
      <4>3. CASE i = Len(taken) + 1
        BY <1>3, <1>4, <3>2, <3>3, <4>3
      <4> QED BY <4>1, <4>2, <4>3
    <3> QED BY <1>2, <1>8, <3>4 DEF Taken
  <2> QED BY <2>8, <2>9, <2>10
<1> QED BY <1>9, <1>10 DEF Whole, Typed

LEMMA AnsweredStep ==
  ASSUME BUF \notin StdReplies
  PROVE  Whole /\ Exchange /\ Answered /\ [Next]_vars => Answered'
<1> SUFFICES ASSUME Whole, Exchange, Answered, [Next]_vars, Conforming' PROVE Waited' /\ Replying' /\ Taken'
  BY DEF Answered
<1>1. Conforming
  BY ConformingBack
<1>2. CASE UNCHANGED vars
  <2>1. Waited /\ Replying /\ Taken
    BY AnsweredFacts, <1>1
  <2>2. LastRequest' = LastRequest /\ InSlot' = InSlot
    BY <1>2 DEF vars, LastRequest, InSlot
  <2> QED BY <1>2, <2>1, <2>2 DEF vars, Waited, Replying, Taken, Sent, Remaining
<1>3. ~ReadOverflow
  <2>1. ReadOverflow => len + MPS > BUF /\ fw = "read"
    BY DEF ReadOverflow
  <2>2. BUF \in Nat /\ MPS \in Nat /\ len \in Nat
    BY FramingAssumption DEF Whole, Typed
  <2> QED BY <1>1, <2>1, <2>2, NoOverflow
<1> QED BY <1>1, <1>2, <1>3, AnsweredSend, AnsweredRead, AnsweredWrite, AnsweredCollect DEF Next

LEMMA AnsweredInit == Init => Answered
BY DEF Init, Answered, Waited, Replying, Taken, Sent

\* While the host's requests fit the buffer, every IN transfer it completes is
\* the whole reply to the request it waits for, and not the end of an earlier
\* one.  A reply that fills the DAP packet is left out: the host stops reading
\* when it has it, and the empty packet that write_response sends behind it stays
\* for the next transfer.
THEOREM RepliesMatch == ASSUME BUF \notin StdReplies PROVE Spec => []OneReplyPerTransfer
<1>1. Whole /\ Answered => OneReplyPerTransfer
  <2> SUFFICES ASSUME Whole, Answered, Conforming PROVE OneReplyPerTransfer
    BY DEF OneReplyPerTransfer
  <2>1. DOMAIN taken = 1..Len(taken)
    BY DEF Whole, Typed
  <2> QED BY <2>1 DEF Answered, Taken, OneReplyPerTransfer
<1>2. Init => Whole /\ Exchange /\ Answered
  BY WholeInit, ExchangeInit, AnsweredInit
<1>3. Whole /\ Exchange /\ Answered /\ [Next]_vars => Whole' /\ Exchange' /\ Answered'
  BY WholeStep, ExchangeStep, AnsweredStep
<1> QED BY <1>1, <1>2, <1>3, PTL DEF Spec

-----------------------------------------------------------------------------
(***************************************************************************)
(* The commands.                                                           *)
(***************************************************************************)

\* A command's name, and data bytes.
Token == Names \cup Nat

Shape == [in : BOOLEAN, n : 0..256, m : BOOLEAN]

ItemBytes(d, k) == EncodeItem(d.c, d.items[k])

\* Where each item of a command is in its bytes.
Laid(d, pos) ==
  LET n == Len(d.items)
  IN  /\ pos \in [1..(n + 1) -> Nat]
      /\ pos[1] = 1 + Len(EncodeHead(d))
      /\ pos[n + 1] = Len(Encode(d))
      /\ \A k \in 1..n : pos[k + 1] = pos[k] + Len(ItemBytes(d, k))
      /\ \A k \in 1..n : Len(ItemBytes(d, k)) > 0 => Encode(d)[pos[k] + 1] = ItemBytes(d, k)[1]

Place(d) == CHOOSE pos : Laid(d, pos)

\* The bytes of reply that the k-th item is owed, and how they add up.
Pay(d, k) ==
  IF ~d.items[k].in \/ d.items[k].m THEN 0
  ELSE IF d.c = "SWD_SEQUENCE" THEN (d.items[k].n + 7) \div 8 ELSE 4

Paid(d, sum) ==
  LET n == Len(d.items)
  IN  /\ sum \in [1..(n + 1) -> Nat] /\ sum[1] = 0
      /\ \A k \in 1..n : sum[k + 1] = sum[k] + Pay(d, k)
      /\ MeantReply(d) = sum[n + 1] + (CASE d.c = "TRANSFER" -> 3 [] d.c = "TRANSFER_BLOCK" -> 4 [] OTHER -> 2)

Due(d) == CHOOSE sum : Paid(d, sum)

Kind == [e : {"connect", "disconnect", "host_status", "delay", "idle_cycles", "match_retries",
              "wait_retries", "transfer", "swj_pins", "set_clock", "turnaround", "sequence",
              "mask", "block"},
         in : BOOLEAN, n : Nat]

\* b begins as the bytes e, or is the beginning of them.
Agrees(b, e) == b \in Seq(Token) /\ \A k \in 1..Len(b) : k <= Len(e) => b[k] = e[k]

\* The bytes that the first k steps of a fixed command read, with its name.
ReadUpTo(c, k) ==
  1 + (IF k >= 1 THEN Script[c][1].n ELSE 0) + (IF k >= 2 THEN Script[c][2].n ELSE 0)
    + (IF k >= 3 THEN Script[c][3].n ELSE 0)

\* What they ask of the driver: the settings of DAP_TransferConfigure are
\* assigned one by one, everything else comes last.
AskedUpTo(d, k) ==
  IF d.c = "TRANSFER_CONFIGURE" THEN [j \in 1..k |-> Meant(d)[j]]
  ELSE IF k = Len(Script[d.c]) THEN Meant(d) ELSE <<>>

-----------------------------------------------------------------------------
(* The inductive invariant.                                                 *)

ParseTyped ==
  /\ phase \in {"idle", "receive", "head", "items", "done"}
  /\ at \in Nat /\ left \in Nat /\ rlen \in Nat
  /\ effects \in Seq(Kind) /\ short \in BOOLEAN /\ failed \in BOOLEAN

\* The bytes received are the first ones of the command.
Received ==
  /\ phase = "idle" => desc = NoDesc /\ buf = <<>>
  /\ phase # "idle" => desc \in Descs /\ Agrees(buf, Encode(desc)) /\ Len(buf) <= Len(Encode(desc))

Running == phase # "done" => status = "" /\ ~short /\ ~failed

Fresh == phase \in {"idle", "receive"} => at = 0 /\ left = 0 /\ rlen = 0 /\ effects = <<>>

\* Between the steps of a fixed command, or before any other.
AtHead ==
  phase = "head" =>
    /\ desc.c \notin DOMAIN Script \/ buf = <<>> =>
         left = 0 /\ effects = <<>> /\ at = IF buf = <<>> THEN 0 ELSE 1
    /\ desc.c \in DOMAIN Script /\ buf # <<>> =>
         /\ left <= Len(Script[desc.c])
         /\ at = ReadUpTo(desc.c, left) /\ at <= Len(buf) /\ effects = AskedUpTo(desc, left)
    /\ rlen = IF buf = <<>> THEN 0 ELSE 1

\* Between two items: position, effects and reply are those of the items before.
AtItems ==
  phase = "items" =>
    LET k == Len(desc.items) - left
    IN  /\ desc.c \in {"SWD_SEQUENCE", "TRANSFER"} /\ left <= Len(desc.items)
        /\ at = Place(desc)[k + 1] /\ at <= Len(buf)
        /\ rlen = Due(desc)[k + 1] + (IF desc.c = "TRANSFER" THEN 3 ELSE 2) /\ rlen <= Capacity
        /\ Len(effects) = k /\ \A j \in 1..k : effects[j] = Meant(desc)[j]

Settled == phase = "done" => CompleteIsEnough /\ EffectsAsMeant /\ ReplyAsMeant

ParseInv == ParseTyped /\ Received /\ Running /\ Fresh /\ AtHead /\ AtItems /\ Settled

-----------------------------------------------------------------------------
(* Commands and their bytes.                                                *)

LEMMA DescOf ==
  ASSUME NEW d \in Descs
  PROVE  /\ Encodable(d) /\ d.c \in Names /\ d.arg \in 0..255 /\ d.size \in Nat
         /\ d.items \in Seq(Shape) /\ Len(d.items) \in Nat
         /\ \A k \in 1..Len(d.items) : d.items[k] \in Shape
<1>1. Encodable(d)
  BY CommandsAssumption
<1>2. d \in [c : Names, arg : 0..255, size : Nat, items : Seq(Shape)]
  BY <1>1 DEF Encodable, Shape
<1>3. d.c \in Names /\ d.arg \in 0..255 /\ d.size \in Nat /\ d.items \in Seq(Shape)
  BY <1>2
<1> QED BY <1>1, <1>3

\* What the fields of a command may be.
LEMMA Fitting ==
  ASSUME NEW d \in Descs
  PROVE  /\ d.c \in DOMAIN FixedLen => d.size = FixedLen[d.c] - 1 /\ d.items = <<>>
         /\ d.c \in {"SWD_SEQUENCE", "JTAG_SEQUENCE", "JTAG_CONFIGURE", "TRANSFER"} => Len(d.items) <= 255
         /\ d.c \in {"SWD_SEQUENCE", "JTAG_SEQUENCE"} =>
              \A k \in 1..Len(d.items) : d.items[k].n \in 1..64 /\ ~d.items[k].m
         /\ d.c = "SWJ_SEQUENCE" =>
              Len(d.items) = 1 /\ d.items[1].n \in 1..256 /\ ~d.items[1].in /\ ~d.items[1].m
         /\ d.c = "TRANSFER_BLOCK" =>
              /\ Len(d.items) < 65536
              /\ \A k \in 1..Len(d.items) : d.items[k].in = Flag(d.arg, 2) /\ ~d.items[k].m
<1>1. Encodable(d) /\ DOMAIN d.items = 1..Len(d.items)
  BY DescOf
<1>2. d.c \in DOMAIN FixedLen => d.size = FixedLen[d.c] - 1 /\ d.items = <<>>
  BY <1>1 DEF Encodable
<1>3. d.c \in {"SWD_SEQUENCE", "JTAG_SEQUENCE", "JTAG_CONFIGURE", "TRANSFER"} => Len(d.items) <= 255
  BY <1>1 DEF Encodable, Counted
<1>4. d.c \in {"SWD_SEQUENCE", "JTAG_SEQUENCE"} =>
              \A k \in 1..Len(d.items) : d.items[k].n \in 1..64 /\ ~d.items[k].m
  BY <1>1 DEF Encodable
<1>5. d.c = "SWJ_SEQUENCE" =>
              Len(d.items) = 1 /\ d.items[1].n \in 1..256 /\ ~d.items[1].in /\ ~d.items[1].m
  BY <1>1 DEF Encodable
<1>6. d.c = "TRANSFER_BLOCK" =>
              /\ Len(d.items) < 65536
              /\ \A k \in 1..Len(d.items) : d.items[k].in = Flag(d.arg, 2) /\ ~d.items[k].m
  BY <1>1 DEF Encodable
<1> QED BY <1>2, <1>3, <1>4, <1>5, <1>6

LEMMA FittingSwj ==
  ASSUME NEW d \in Descs, d.c = "SWJ_SEQUENCE"
  PROVE  Len(d.items) = 1 /\ d.items[1].n \in 1..256 /\ ~d.items[1].in /\ ~d.items[1].m
BY Fitting

LEMMA FittingSequence ==
  ASSUME NEW d \in Descs, d.c \in {"SWD_SEQUENCE", "JTAG_SEQUENCE"}, NEW k \in 1..Len(d.items)
  PROVE  d.items[k].n \in 1..64 /\ ~d.items[k].m
BY Fitting

LEMMA Fills == ASSUME NEW n \in Nat PROVE Filler(n) \in Seq(Nat) /\ Len(Filler(n)) = n
BY DEF Filler

LEMMA NamesAre ==
  \A c \in DOMAIN FixedLen :
       /\ FixedLen[c] \in 1..7
       /\ c \notin {"SWJ_SEQUENCE", "SWD_SEQUENCE", "JTAG_SEQUENCE", "JTAG_CONFIGURE",
                    "TRANSFER", "TRANSFER_BLOCK", "OTHER"}
<1>1. \A c \in DOMAIN FixedLen : FixedLen[c] \in 1..7
  BY DEF FixedLen
<1>3. \A c \in DOMAIN FixedLen :
         c \notin {"SWJ_SEQUENCE", "SWD_SEQUENCE", "JTAG_SEQUENCE", "JTAG_CONFIGURE",
                  "TRANSFER", "TRANSFER_BLOCK", "OTHER"}
  BY DEF FixedLen
<1> QED BY <1>1, <1>3

LEMMA CeilOf ==
  ASSUME NEW n \in 0..256
  PROVE  (n + 7) \div 8 \in 0..32 /\ DivCeil8(n) = (n + 7) \div 8 /\ (n > 0 => DivCeil8(n) >= 1)
BY DEF DivCeil8

LEMMA Prefixed ==
  ASSUME NEW b \in Nat, NEW f \in Seq(Nat)
  PROVE  /\ <<b>> \o f \in Seq(Nat) /\ Len(<<b>> \o f) = 1 + Len(f) /\ (<<b>> \o f)[1] = b
         /\ Len(f) \in Nat
OBVIOUS

\* The byte in front of a sequence says how many bits it has, and its direction.
LEMMA InfoByte ==
  ASSUME NEW n \in 1..64, NEW b \in {n % 64, (n % 64) + 128}
  PROVE  b \in 0..255 /\ InfoBits(b) = n /\ (Flag(b, 128) <=> b >= 128)
<1>1. n % 64 \in 0..63 /\ (n % 64 = 0 <=> n = 64) /\ (n < 64 => n % 64 = n)
  OBVIOUS
<1>2. b % 64 = n % 64
  BY <1>1
<1>3. b < 128 => b \div 128 = 0
  BY <1>1
<1>4. b >= 128 => b \div 128 = 1
  BY <1>1
<1>5. Flag(b, 128) <=> b >= 128
  BY <1>1, <1>3, <1>4 DEF Flag
<1> QED BY <1>1, <1>2, <1>5 DEF InfoBits

LEMMA SequenceItem ==
  ASSUME NEW c \in {"SWD_SEQUENCE", "JTAG_SEQUENCE"}, NEW x \in Shape, x.n \in 1..64, ~x.m,
         NEW e, e = EncodeItem(c, x)
  PROVE  /\ e \in Seq(Nat) /\ Len(e) > 0 /\ e[1] \in 0..255
         /\ Len(e) = ItemLen(c, e[1])
         /\ InfoBits(e[1]) = x.n /\ (Flag(e[1], 128) <=> x.in)
<1> PICK n, b : n = x.n /\ b = (x.n % 64) + (IF x.in THEN 128 ELSE 0)
  OBVIOUS
<1>1. n \in 1..64 /\ x.in \in BOOLEAN /\ b \in {n % 64, (n % 64) + 128} /\ n % 64 \in 0..63
      /\ (x.in <=> b >= 128) /\ b \in Nat
  BY DEF Shape
<1>2. b \in 0..255 /\ InfoBits(b) = n /\ (Flag(b, 128) <=> b >= 128)
  BY <1>1, InfoByte
<1>3. (n + 7) \div 8 \in Nat /\ DivCeil8(n) = (n + 7) \div 8
  BY <1>1, CeilOf
<1> PICK f : f = Filler((n + 7) \div 8)
  OBVIOUS
<1>4. f \in Seq(Nat) /\ Len(f) = (n + 7) \div 8
  BY <1>3, Fills
<1>5. CASE c = "JTAG_SEQUENCE" \/ ~x.in
  <2>1. e = <<b>> \o f
    BY <1>5, Zenon DEF EncodeItem
  <2>2. e \in Seq(Nat) /\ Len(e) = 1 + (n + 7) \div 8 /\ e[1] = b
    BY <1>1, <1>3, <1>4, <2>1
  <2>3. ItemLen(c, b) = 1 + DivCeil8(InfoBits(b))
    BY <1>1, <1>2, <1>5 DEF ItemLen
  <2> QED BY <1>1, <1>2, <1>3, <2>2, <2>3
<1>6. CASE c = "SWD_SEQUENCE" /\ x.in
  <2>1. e = <<b>> \o <<>>
    BY <1>6 DEF EncodeItem
  <2>2. e \in Seq(Nat) /\ Len(e) = 1 /\ e[1] = b
    BY <1>1, <2>1
  <2>3. ItemLen(c, b) = 1
    BY <1>1, <1>2, <1>6 DEF ItemLen
  <2> QED BY <1>1, <1>2, <2>2, <2>3
<1> QED BY <1>1, <1>5, <1>6

LEMMA TransferBits ==
  /\ ~Flag(0, 2) /\ ~Flag(0, 32) /\ ~Flag(32, 2) /\ Flag(32, 32)
  /\ Flag(2, 2) /\ ~Flag(2, 16) /\ Flag(18, 2) /\ Flag(18, 16)
BY DEF Flag

LEMMA Coded ==
  ASSUME NEW b \in {0, 2, 18, 32}, NEW f \in Seq(Nat), Len(f) = IF b = 2 THEN 0 ELSE 4,
         NEW e, e = <<b>> \o f
  PROVE  e \in Seq(Nat) /\ Len(e) > 0 /\ e[1] = b /\ Len(e) = ItemLen("TRANSFER", b)
<1>0. b \in Nat
  OBVIOUS
<1>1. e \in Seq(Nat) /\ Len(e) = 1 + Len(f) /\ e[1] = b
  BY <1>0, Prefixed, Zenon
<1>2. ItemLen("TRANSFER", b) = IF b = 2 THEN 1 ELSE 5
  BY TransferBits DEF ItemLen
<1> QED BY <1>1, <1>2

LEMMA TransferPart ==
  ASSUME NEW x \in Shape, NEW e, e = EncodeItem("TRANSFER", x)
  PROVE  /\ e \in Seq(Nat) /\ Len(e) > 0 /\ e[1] \in 0..255
         /\ Len(e) = ItemLen("TRANSFER", e[1])
         /\ Flag(e[1], 2) <=> x.in
         /\ x.in => (Flag(e[1], 16) <=> x.m)
         /\ ~x.in => (Flag(e[1], 32) <=> x.m)
<1>1. x.in \in BOOLEAN /\ x.m \in BOOLEAN
  BY DEF Shape
<1>2. Filler(4) \in Seq(Nat) /\ Len(Filler(4)) = 4 /\ <<>> \in Seq(Nat) /\ Len(<<>>) = 0
  BY Fills, EmptySeq
<1>3. CASE x.in /\ ~x.m
  <2>0. PICK b, f : b = 2 /\ f = <<>>
    OBVIOUS
  <2>1. e = <<b>> \o f
    BY <1>3, <2>0 DEF EncodeItem
  <2>2. b \in {0, 2, 18, 32} /\ f \in Seq(Nat) /\ Len(f) = IF b = 2 THEN 0 ELSE 4
    BY <1>2, <2>0
  <2>3. e \in Seq(Nat) /\ Len(e) > 0 /\ e[1] = b /\ Len(e) = ItemLen("TRANSFER", b)
    BY <2>1, <2>2, Coded, Zenon
  <2>4. b \in 0..255 /\ Flag(b, 2) = TRUE /\ Flag(b, 16) = FALSE
    BY <2>0, TransferBits
  <2> QED BY <1>3, <2>3, <2>4
<1>4. CASE x.in /\ x.m
  <2>0. PICK b, f : b = 18 /\ f = Filler(4)
    OBVIOUS
  <2>1. e = <<b>> \o f
    BY <1>4, <2>0 DEF EncodeItem
  <2>2. b \in {0, 2, 18, 32} /\ f \in Seq(Nat) /\ Len(f) = IF b = 2 THEN 0 ELSE 4
    BY <1>2, <2>0
  <2>3. e \in Seq(Nat) /\ Len(e) > 0 /\ e[1] = b /\ Len(e) = ItemLen("TRANSFER", b)
    BY <2>1, <2>2, Coded, Zenon
  <2>4. b \in 0..255 /\ Flag(b, 2) = TRUE /\ Flag(b, 16) = TRUE
    BY <2>0, TransferBits
  <2> QED BY <1>4, <2>3, <2>4
<1>5. CASE ~x.in /\ ~x.m
  <2>0. PICK b, f : b = 0 /\ f = Filler(4)
    OBVIOUS
  <2>1. e = <<b>> \o f
    BY <1>5, <2>0 DEF EncodeItem
  <2>2. b \in {0, 2, 18, 32} /\ f \in Seq(Nat) /\ Len(f) = IF b = 2 THEN 0 ELSE 4
    BY <1>2, <2>0
  <2>3. e \in Seq(Nat) /\ Len(e) > 0 /\ e[1] = b /\ Len(e) = ItemLen("TRANSFER", b)
    BY <2>1, <2>2, Coded, Zenon
  <2>4. b \in 0..255 /\ Flag(b, 2) = FALSE /\ Flag(b, 32) = FALSE
    BY <2>0, TransferBits
  <2> QED BY <1>5, <2>3, <2>4
<1>6. CASE ~x.in /\ x.m
  <2>0. PICK b, f : b = 32 /\ f = Filler(4)
    OBVIOUS
  <2>1. e = <<b>> \o f
    BY <1>6, <2>0 DEF EncodeItem
  <2>2. b \in {0, 2, 18, 32} /\ f \in Seq(Nat) /\ Len(f) = IF b = 2 THEN 0 ELSE 4
    BY <1>2, <2>0
  <2>3. e \in Seq(Nat) /\ Len(e) > 0 /\ e[1] = b /\ Len(e) = ItemLen("TRANSFER", b)
    BY <2>1, <2>2, Coded, Zenon
  <2>4. b \in 0..255 /\ Flag(b, 2) = FALSE /\ Flag(b, 32) = TRUE
    BY <2>0, TransferBits
  <2> QED BY <1>6, <2>3, <2>4
<1> QED BY <1>1, <1>3, <1>4, <1>5, <1>6

LEMMA SwjPart ==
  ASSUME NEW x \in Shape, x.n \in 1..256, NEW e, e = EncodeItem("SWJ_SEQUENCE", x)
  PROVE  /\ e \in Seq(Nat) /\ Len(e) = 1 + DivCeil8(x.n)
         /\ e[1] \in 0..255 /\ SwjBits(e[1]) = x.n
<1>0. PICK n : n = x.n
  OBVIOUS
<1>1. PICK b : b = n % 256
  OBVIOUS
<1>2. n \in 1..256 /\ b \in 0..255 /\ (n = 256 => b = 0) /\ (n < 256 => b = n)
  BY <1>0, <1>1
<1>3. (n + 7) \div 8 \in Nat /\ DivCeil8(n) = (n + 7) \div 8
  BY <1>2, CeilOf
<1>4. PICK f : f = Filler((n + 7) \div 8)
  OBVIOUS
<1>5. f \in Seq(Nat) /\ Len(f) = DivCeil8(n)
  BY <1>3, <1>4, Fills
<1>6. e = <<b>> \o f
  BY <1>0, <1>1, <1>4 DEF EncodeItem
<1>7. b \in Nat
  BY <1>2
<1>8. e \in Seq(Nat) /\ Len(e) = 1 + Len(f) /\ e[1] = b
  BY <1>5, <1>6, <1>7, Prefixed
<1>9. SwjBits(b) = n
  BY <1>2 DEF SwjBits
<1> QED BY <1>0, <1>2, <1>5, <1>8, <1>9

LEMMA BytePart ==
  ASSUME NEW c \in {"JTAG_CONFIGURE", "OTHER"}, NEW x \in Shape, NEW e, e = EncodeItem(c, x)
  PROVE  e \in Seq(Nat) /\ Len(e) = 1
<1>1. x.n \in Nat
  BY DEF Shape
<1>2. e = <<x.n>>
  BY DEF EncodeItem
<1> QED BY <1>1, <1>2

LEMMA BlockPart ==
  ASSUME NEW x \in Shape, ~x.m, NEW e, e = EncodeItem("TRANSFER_BLOCK", x)
  PROVE  e \in Seq(Nat) /\ Len(e) = IF x.in THEN 0 ELSE 4
<1>1. Filler(4) \in Seq(Nat) /\ Len(Filler(4)) = 4 /\ <<>> \in Seq(Nat) /\ Len(<<>>) = 0
  BY Fills, EmptySeq
<1>2. CASE x.in
  BY <1>1, <1>2 DEF EncodeItem
<1>3. CASE ~x.in
  BY <1>1, <1>3 DEF EncodeItem
<1> QED BY <1>2, <1>3

\* The items of the commands that have some.
LEMMA PartOf ==
  ASSUME NEW d \in Descs, NEW k \in 1..Len(d.items)
  PROVE  ItemBytes(d, k) \in Seq(Nat) /\ Len(ItemBytes(d, k)) \in Nat
<1>1. PICK x, e : x = d.items[k] /\ e = ItemBytes(d, k)
  OBVIOUS
<1>2. d.c \in Names /\ x \in Shape /\ e = EncodeItem(d.c, x)
  BY <1>1, DescOf DEF ItemBytes
<1>3. d.c \notin DOMAIN FixedLen
  <2> SUFFICES ASSUME d.c \in DOMAIN FixedLen PROVE FALSE
    OBVIOUS
  <2>1. d.items = <<>>
    BY Fitting
  <2> QED BY <2>1
<1>4. CASE d.c \in {"SWD_SEQUENCE", "JTAG_SEQUENCE"}
  <2>1. x.n \in 1..64 /\ ~x.m
    BY <1>1, <1>4, Fitting
  <2>2. e \in Seq(Nat)
    BY <1>2, <1>4, <2>1, SequenceItem
  <2> QED BY <1>1, <2>2
<1>5. CASE d.c = "TRANSFER"
  BY <1>1, <1>2, <1>5, TransferPart
<1>6. CASE d.c = "SWJ_SEQUENCE"
  <2>1. Len(d.items) = 1 /\ d.items[1].n \in 1..256
    BY <1>6, Fitting
  <2>2. x.n \in 1..256
    BY <1>1, <2>1
  <2>3. e = EncodeItem("SWJ_SEQUENCE", x)
    BY <1>2, <1>6
  <2>4. e \in Seq(Nat)
    BY <1>2, <2>2, <2>3, SwjPart
  <2> QED BY <1>1, <2>4
<1>7. CASE d.c \in {"JTAG_CONFIGURE", "OTHER"}
  BY <1>1, <1>2, <1>7, BytePart
<1>8. CASE d.c = "TRANSFER_BLOCK"
  <2>1. ~x.m
    BY <1>1, <1>8, Fitting
  <2> QED BY <1>1, <1>2, <1>8, <2>1, BlockPart
<1> QED BY <1>2, <1>3, <1>4, <1>5, <1>6, <1>7, <1>8 DEF Names

LEMMA HeadOf ==
  ASSUME NEW d \in Descs, NEW h, h = EncodeHead(d)
  PROVE  /\ h \in Seq(Nat) /\ Len(h) \in Nat
         /\ d.c \in Counted => Len(h) = 1 /\ h[1] = Len(d.items)
         /\ d.c = "TRANSFER" => Len(h) = 2 /\ h[2] = Len(d.items)
         /\ d.c = "TRANSFER_BLOCK" =>
              /\ Len(h) = 4 /\ h[2] \in 0..255 /\ h[3] \in 0..255 /\ h[4] = d.arg
              /\ h[2] + 256 * h[3] = Len(d.items)
         /\ d.c = "SWJ_SEQUENCE" => Len(h) = 0
         /\ d.c \in DOMAIN FixedLen => Len(h) = FixedLen[d.c] - 1 /\ (Len(h) > 0 => h[1] = d.arg)
<1>1. PICK n : n = Len(d.items)
  OBVIOUS
<1>20. d.c \in Names /\ d.size \in Nat
  BY DescOf
<1>21. n \in Nat
  BY <1>1, DescOf
<1>23. d.arg \in 0..255
  BY DescOf
<1>22. d.arg \in Nat
  BY <1>23
<1>2. d.c \in Names /\ n \in Nat /\ d.arg \in Nat /\ d.size \in Nat
  BY <1>20, <1>21, <1>22
<1>3. CASE d.c \in Counted
  <2>1. h = <<n>>
    BY <1>1, <1>3 DEF EncodeHead, Counted
  <2> QED BY <1>1, <1>2, <1>3, <2>1, NamesAre DEF Counted
<1>4. CASE d.c = "TRANSFER"
  <2>1. h = <<0, n>>
    BY <1>1, <1>4 DEF EncodeHead, Counted
  <2> QED BY <1>1, <1>2, <1>4, <2>1, NamesAre DEF Counted
<1>5. CASE d.c = "TRANSFER_BLOCK"
  <2>1. PICK lo, hi, a : lo = n % 256 /\ hi = n \div 256 /\ a = d.arg
    OBVIOUS
  <2>2. n < 65536
    BY <1>1, <1>5, Fitting
  <2>3. lo \in 0..255 /\ hi \in 0..255 /\ lo + 256 * hi = n /\ a \in Nat
    BY <1>2, <2>1, <2>2
  <2>4. h = <<0, lo, hi, a>>
    BY <1>1, <1>5, <2>1 DEF EncodeHead, Counted
  <2>5. h \in Seq(Nat) /\ Len(h) = 4 /\ h[2] = lo /\ h[3] = hi /\ h[4] = a
    BY <2>3, <2>4
  <2>6. d.c \notin Counted /\ d.c \notin DOMAIN FixedLen
    BY <1>5, NamesAre DEF Counted
  <2>7. h \in Seq(Nat) /\ Len(h) \in Nat
    BY <2>5
  <2>8. Len(h) = 4 /\ h[2] \in 0..255 /\ h[3] \in 0..255 /\ h[4] = d.arg
        /\ h[2] + 256 * h[3] = Len(d.items)
    BY <1>1, <2>1, <2>3, <2>5
  <2> QED BY <1>5, <2>6, <2>7, <2>8
<1>6. CASE d.c \in {"SWJ_SEQUENCE", "OTHER"}
  <2>1. h = <<>>
    BY <1>6 DEF EncodeHead, Counted
  <2>2. h \in Seq(Nat) /\ Len(h) = 0
    BY <2>1, EmptySeq
  <2> QED BY <1>6, <2>2, NamesAre DEF Counted
<1>7. CASE d.c \in DOMAIN FixedLen
  <2>1. d.size = FixedLen[d.c] - 1
    BY <1>7, Fitting
  <2>2. d.c \notin Counted /\ d.c # "TRANSFER" /\ d.c # "TRANSFER_BLOCK" /\ d.c # "SWJ_SEQUENCE" /\ d.c # "OTHER"
    BY <1>7, NamesAre DEF Counted
  <2>3. CASE d.size = 0
    <3>1. h = <<>>
      BY <2>2, <2>3 DEF EncodeHead
    <3>2. h \in Seq(Nat) /\ Len(h) = 0
      BY <3>1, EmptySeq
    <3>3. Len(h) = FixedLen[d.c] - 1
      BY <1>7, <2>1, <2>3, <3>2
    <3>4. ~(Len(h) > 0) /\ Len(h) \in Nat
      BY <3>2
    <3> QED BY <2>2, <3>2, <3>3, <3>4, Zenon
  <2>4. CASE d.size # 0
    <3>1. PICK f, a : f = Filler(d.size - 1) /\ a = d.arg
      OBVIOUS
    <3>2. d.size - 1 \in Nat
      BY <1>2, <2>4
    <3>3. f \in Seq(Nat) /\ Len(f) = d.size - 1 /\ a \in Nat
      BY <1>2, <3>1, <3>2, Fills
    <3>4. h = <<a>> \o f
      BY <2>2, <2>4, <3>1, Zenon DEF EncodeHead
    <3>5. h \in Seq(Nat) /\ Len(h) = 1 + Len(f) /\ h[1] = a
      BY <3>3, <3>4, Prefixed
    <3> QED BY <1>2, <2>1, <2>2, <3>1, <3>3, <3>5
  <2> QED BY <2>3, <2>4
<1> QED BY <1>2, <1>3, <1>4, <1>5, <1>6, <1>7 DEF Names, Counted

\* The bytes of a command: its name, its head and its items.
LEMMA BytesOf ==
  ASSUME NEW d \in Descs
  PROVE  /\ Encode(d) \in Seq(Token) /\ Len(Encode(d)) \in Nat
         /\ Len(Encode(d)) >= 1 + Len(EncodeHead(d)) /\ Len(EncodeHead(d)) \in Nat
         /\ Encode(d)[1] = d.c
         /\ \A j \in 1..Len(EncodeHead(d)) : Encode(d)[1 + j] = EncodeHead(d)[j]
         /\ \E pos : Laid(d, pos)
<1>0. PICK ss : ss = [k \in 1..Len(d.items) |-> ItemBytes(d, k)]
  OBVIOUS
<1>1. PICK n, c, h, flat : n = Len(d.items) /\ c = <<d.c>> /\ h = EncodeHead(d) /\ flat = FlattenSeq(ss)
  OBVIOUS
<1>2. n \in Nat /\ \A k \in 1..n : ItemBytes(d, k) \in Seq(Nat) /\ Len(ItemBytes(d, k)) \in Nat
  BY <1>1, DescOf, PartOf
<1>3. ss \in Seq(Seq(Nat)) /\ Len(ss) = n /\ \A k \in 1..n : ss[k] = ItemBytes(d, k)
  <2>1. ss \in [1..n -> Seq(Nat)]
    BY <1>0, <1>1, <1>2
  <2> QED BY <1>0, <1>1, <1>2, <2>1
<1>4. flat \in Seq(Nat) /\ \E end : Bounds(ss, end)
  BY <1>1, <1>3, BoundsOf
<1>5. PICK end : Bounds(ss, end)
  BY <1>4
<1>6. /\ end \in [1..(n + 1) -> Nat] /\ end[1] = 0 /\ Len(flat) = end[n + 1]
      /\ \A k \in 1..n : end[k + 1] = end[k] + Len(ItemBytes(d, k))
      /\ \A k \in 1..n : \A l \in 1..Len(ItemBytes(d, k)) :
           end[k] + l \in 1..Len(flat) /\ flat[end[k] + l] = ItemBytes(d, k)[l]
  <2>1. /\ end \in [1..(n + 1) -> Nat] /\ end[1] = 0 /\ Len(flat) = end[n + 1]
        /\ \A k \in 1..n : end[k + 1] = end[k] + Len(ss[k])
        /\ \A k \in 1..n : \A l \in 1..Len(ss[k]) :
             end[k] + l \in 1..Len(flat) /\ flat[end[k] + l] = ss[k][l]
    BY <1>1, <1>3, <1>5, Zenon DEF Bounds
  <2> QED BY <1>3, <2>1
<1>7. h \in Seq(Nat)
  BY <1>1, HeadOf
<1>8. c \in Seq(Token) /\ h \in Seq(Token) /\ flat \in Seq(Token)
  <2>1. d.c \in Token
    BY DescOf DEF Token
  <2>2. c \in Seq(Token)
    BY <1>1, <2>1
  <2>3. \A s \in Seq(Nat) : s \in Seq(Token)
    <3> SUFFICES ASSUME NEW s \in Seq(Nat) PROVE s \in Seq(Token)
      OBVIOUS
    <3>1. Len(s) \in Nat /\ s \in [1..Len(s) -> Nat]
      OBVIOUS
    <3>2. s \in [1..Len(s) -> Token]
      BY <3>1 DEF Token
    <3> QED BY <3>1, <3>2
  <2> QED BY <1>4, <1>7, <2>2, <2>3
<1>9. PICK g : g = c \o h
  OBVIOUS
<1>10. /\ g \in Seq(Token) /\ Len(g) = Len(c) + Len(h) /\ Len(h) \in Nat
       /\ \A i \in 1..Len(c) : g[i] = c[i]
       /\ \A i \in 1..Len(h) : g[Len(c) + i] = h[i]
  BY <1>8, <1>9, Concatenated
<1>11. PICK e : e = g \o flat
  OBVIOUS
<1>12. /\ e \in Seq(Token) /\ Len(e) = Len(g) + Len(flat) /\ Len(flat) \in Nat
       /\ \A i \in 1..Len(g) : e[i] = g[i]
       /\ \A i \in 1..Len(flat) : e[Len(g) + i] = flat[i]
  <2>1. g \in Seq(Token) /\ flat \in Seq(Token)
    BY <1>8, <1>10
  <2> QED BY <1>11, <2>1, Concatenated
<1>13. Len(c) = 1 /\ c[1] = d.c
  BY <1>1
<1>14. PICK m, f : m = Len(h) /\ f = Len(flat)
  OBVIOUS
<1>15. m \in Nat /\ f \in Nat /\ Len(g) = 1 + m /\ Len(e) = 1 + m + f
  BY <1>10, <1>12, <1>13, <1>14
<1>16. e[1] = d.c
  BY <1>10, <1>12, <1>13, <1>15
<1>17. \A j \in 1..m : e[1 + j] = h[j]
  <2> SUFFICES ASSUME NEW j \in 1..m PROVE e[1 + j] = h[j]
    OBVIOUS
  <2>1. g[1 + j] = h[j]
    BY <1>10, <1>13, <1>14
  <2>2. 1 + j \in 1..Len(g)
    BY <1>15
  <2> QED BY <1>12, <2>1, <2>2
<1>18. e = Encode(d)
  <2>1. Encode(d) = (<<d.c>> \o EncodeHead(d)) \o FlattenSeq([k \in 1..Len(d.items) |-> EncodeItem(d.c, d.items[k])])
    BY DEF Encode
  <2> QED BY <1>0, <1>1, <1>9, <1>11, <2>1 DEF ItemBytes
<1>19. PICK pos : pos = [k \in 1..(n + 1) |-> 1 + m + end[k]]
  OBVIOUS
<1>20. /\ pos \in [1..(n + 1) -> Nat]
       /\ pos[1] = 1 + m /\ pos[n + 1] = 1 + m + f
  BY <1>2, <1>6, <1>14, <1>15, <1>19
<1>21. ASSUME NEW k \in 1..n
       PROVE  /\ pos[k + 1] = pos[k] + Len(ItemBytes(d, k))
              /\ Len(ItemBytes(d, k)) > 0 => e[pos[k] + 1] = ItemBytes(d, k)[1]
  <2>1. k \in 1..(n + 1) /\ k + 1 \in 1..(n + 1)
    BY <1>2
  <2>2. PICK a, b, w : a = end[k] /\ b = end[k + 1] /\ w = Len(ItemBytes(d, k))
    OBVIOUS
  <2>3. a \in Nat /\ b \in Nat /\ w \in Nat /\ b = a + w
    BY <1>2, <1>6, <2>1, <2>2
  <2>4. pos[k] = 1 + m + a /\ pos[k + 1] = 1 + m + b
    BY <1>19, <2>1, <2>2
  <2>5. ASSUME w > 0 PROVE e[pos[k] + 1] = ItemBytes(d, k)[1]
    <3>1. 1 \in 1..w
      BY <2>3, <2>5
    <3>2. flat[a + 1] = ItemBytes(d, k)[1]
      BY <1>6, <2>2, <3>1
    <3>3. a + 1 \in 1..f
      BY <1>6, <1>14, <2>2, <3>1
    <3>4. e[Len(g) + (a + 1)] = flat[a + 1]
      BY <1>12, <1>14, <3>3
    <3>5. Len(g) + (a + 1) = pos[k] + 1
      BY <1>15, <2>3, <2>4
    <3> QED BY <3>2, <3>4, <3>5
  <2> QED BY <1>15, <2>2, <2>3, <2>4, <2>5
<1>22. Laid(d, pos)
  <2>1. Len(e) = pos[n + 1] /\ pos[1] = 1 + Len(EncodeHead(d))
    BY <1>1, <1>14, <1>15, <1>20
  <2> QED BY <1>1, <1>18, <1>20, <1>21, <2>1 DEF Laid
<1> QED BY <1>1, <1>12, <1>14, <1>15, <1>16, <1>17, <1>18, <1>22
-----------------------------------------------------------------------------
(* request_len.                                                             *)

\* The end of the items, where pos[k] bytes are before the k-th: it is known as
\* soon as the last one has begun.
LEMMA ItemsEndOf ==
  ASSUME NEW b \in Seq(Token), NEW n \in Nat, NEW pos \in [1..(n + 1) -> Nat],
         \A k \in 1..n : pos[k] < pos[k + 1],
         \A k \in 1..n : pos[k] < Len(b) => pos[k + 1] = pos[k] + ItemLen(b[1], b[pos[k] + 1])
  PROVE  ItemsEnd(b, pos[1], n) = IF n = 0 THEN pos[1] ELSE IF pos[n] < Len(b) THEN pos[n + 1] ELSE -1
<1> DEFINE Step(p) == IF p < 0 \/ p >= Len(b) THEN -1 ELSE p + ItemLen(b[1], b[p + 1])
<1> DEFINE G(m, f) == f = [k \in 0..m |-> IF k = 0 THEN pos[1] ELSE Step(f[k - 1])]
<1>0. Len(b) \in Nat /\ 1 \in 1..(n + 1) /\ pos[1] \in Nat
  OBVIOUS
<1>1. PICK S : S = {m \in Nat : \E f : G(m, f)}
  OBVIOUS
<1> HIDE DEF Step
<1>2. ASSUME NEW k \in Nat, NEW f, G(k, f) PROVE \E g : G(k + 1, g)
  <2>1. PICK g : g = [i \in 0..(k + 1) |-> IF i <= k THEN f[i] ELSE Step(f[k])]
    OBVIOUS
  <2>2. ASSUME NEW i \in 0..(k + 1) PROVE g[i] = IF i = 0 THEN pos[1] ELSE Step(g[i - 1])
    <3>1. CASE i = 0
      <4>1. 0 \in 0..k /\ 0 \in 0..(k + 1) /\ 0 <= k
        OBVIOUS
      <4>2. f[0] = pos[1]
        BY <1>2, <4>1
      <4> QED BY <2>1, <3>1, <4>1, <4>2
    <3>2. CASE i # 0 /\ i <= k
      <4>1. i \in 0..k /\ i - 1 \in 0..k /\ i - 1 \in 0..(k + 1) /\ i - 1 <= k
        BY <3>2
      <4>2. f[i] = Step(f[i - 1])
        BY <1>2, <3>2, <4>1
      <4> QED BY <2>1, <3>2, <4>1, <4>2
    <3>3. CASE i = k + 1
      <4>1. i - 1 = k /\ i # 0 /\ ~(i <= k) /\ k <= k /\ k \in 0..(k + 1)
        BY <3>3
      <4> QED BY <2>1, <4>1
    <3> QED BY <3>1, <3>2, <3>3
  <2>3. G(k + 1, g)
    BY <2>1, <2>2
  <2> HIDE DEF G
  <2> QED BY <2>3
<1>3. n \in S
  <2>1. G(0, [k \in 0..0 |-> pos[1]])
    <3>1. \A k \in 0..0 : k = 0
      OBVIOUS
    <3> QED BY <3>1
  <2> HIDE DEF G
  <2>2. 0 \in S
    BY <1>1, <2>1
  <2>3. \A k \in Nat : k \in S => k + 1 \in S
    BY <1>1, <1>2
  <2>4. 1 \in S
    BY <2>2, <2>3
  <2>5. \A k \in 1..n : k < n /\ k \in S => k + 1 \in S
    BY <2>3
  <2>6. \A k \in 1..n : k \in S
    BY <2>4, <2>5, UpTo
  <2> QED BY <2>2, <2>6
<1>4. PICK f : G(n, f)
  <2> HIDE DEF G
  <2> QED BY <1>1, <1>3
<1>5. PICK end : end = CHOOSE f2 : G(n, f2)
  OBVIOUS
<1>6. G(n, end)
  <2> HIDE DEF G
  <2> QED BY <1>4, <1>5
<1>7. ItemsEnd(b, pos[1], n) = end[n]
  BY <1>5 DEF ItemsEnd, Step
<1>8. end[0] = pos[1] /\ \A k \in 1..n : end[k] = Step(end[k - 1])
  <2>1. 0 \in 0..n /\ \A k \in 1..n : k \in 0..n /\ k # 0
    OBVIOUS
  <2> QED BY <1>6, <2>1
<1> HIDE DEF G
<1>9. PICK B : B = {k \in Nat : end[k] = IF pos[k] < Len(b) THEN pos[k + 1] ELSE -1}
  OBVIOUS
<1>10. ASSUME NEW k \in 1..n, end[k - 1] = pos[k] PROVE k \in B
  <2>1. pos[k] \in Nat /\ k \in Nat
    OBVIOUS
  <2>2. end[k] = Step(pos[k])
    BY <1>8, <1>10
  <2>3. CASE pos[k] < Len(b)
    <3>1. end[k] = pos[k] + ItemLen(b[1], b[pos[k] + 1])
      BY <1>0, <2>1, <2>2, <2>3 DEF Step
    <3> QED BY <1>9, <2>1, <2>3, <3>1
  <2>4. CASE ~(pos[k] < Len(b))
    <3>1. end[k] = -1
      BY <1>0, <2>1, <2>2, <2>4 DEF Step
    <3> QED BY <1>9, <2>1, <2>4, <3>1
  <2> QED BY <2>3, <2>4
<1>11. n >= 1 => 1 \in B
  <2>1. 1 - 1 = 0
    OBVIOUS
  <2> QED BY <1>8, <1>10, <2>1
<1>12. ASSUME NEW k \in 1..n, k < n, k \in B PROVE k + 1 \in B
  <2>1. k + 1 \in 1..n /\ (k + 1) - 1 = k /\ k + 1 \in Nat /\ k \in 1..(n + 1) /\ k + 1 \in 1..(n + 1)
    BY <1>12
  <2>2. pos[k] \in Nat /\ pos[k + 1] \in Nat /\ pos[k] < pos[k + 1]
    BY <2>1
  <2>3. CASE pos[k] < Len(b)
    <3>1. end[k] = pos[k + 1]
      BY <1>9, <1>12, <2>3
    <3> QED BY <1>10, <2>1, <3>1
  <2>4. CASE ~(pos[k] < Len(b))
    <3>1. end[k] = -1
      BY <1>9, <1>12, <2>4
    <3>2. end[k + 1] = -1
      BY <1>0, <1>8, <2>1, <3>1 DEF Step
    <3>3. ~(pos[k + 1] < Len(b))
      BY <1>0, <2>2, <2>4
    <3> QED BY <1>9, <2>1, <3>2, <3>3
  <2> QED BY <2>3, <2>4
<1>13. \A k \in 1..n : k \in B
  BY <1>11, <1>12, UpTo
<1>14. n # 0 => end[n] = IF pos[n] < Len(b) THEN pos[n + 1] ELSE -1
  <2>1. n # 0 => n \in 1..n
    OBVIOUS
  <2> QED BY <1>9, <1>13, <2>1
<1> QED BY <1>7, <1>8, <1>14
\* What is known of b's k-th byte.
Bt(b, k) == IF k \in DOMAIN b THEN b[k] ELSE 0

\* request_len by command.
LEMMA LengthBy ==
  ASSUME NEW b \in Seq(Token), b # <<>>
  PROVE  /\ b[1] \in DOMAIN FixedLen => RequestLen(b) = Fixed(b, FixedLen[b[1]])
         /\ b[1] = "SWJ_SEQUENCE" => RequestLen(b) = HeadLen(b, 2, DivCeil8(SwjBits(Bt(b, 2))))
         /\ b[1] = "JTAG_CONFIGURE" => RequestLen(b) = HeadLen(b, 2, Bt(b, 2))
         /\ b[1] = "TRANSFER_BLOCK" =>
              RequestLen(b) = HeadLen(b, 5, IF Flag(Bt(b, 5), 2) THEN 0 ELSE 4 * (Bt(b, 3) + 256 * Bt(b, 4)))
         /\ b[1] = "TRANSFER" => RequestLen(b) = CountedLen(b, 3)
         /\ b[1] \in {"SWD_SEQUENCE", "JTAG_SEQUENCE"} => RequestLen(b) = CountedLen(b, 2)
         /\ b[1] = "OTHER" => RequestLen(b) = -1
<1>1. CASE b[1] \in DOMAIN FixedLen
  <2>1. RequestLen(b) = Fixed(b, FixedLen[b[1]])
    BY <1>1, NamesAre DEF RequestLen
  <2> QED BY <1>1, <2>1, NamesAre
<1>2. CASE b[1] = "SWJ_SEQUENCE"
  BY <1>2, NamesAre DEF RequestLen, Bt
<1>3. CASE b[1] = "JTAG_CONFIGURE"
  BY <1>3, NamesAre DEF RequestLen, Bt
<1>4. CASE b[1] = "TRANSFER_BLOCK"
  BY <1>4, NamesAre DEF RequestLen, Bt
<1>5. CASE b[1] = "TRANSFER"
  BY <1>5, NamesAre DEF RequestLen
<1>6. CASE b[1] \in {"SWD_SEQUENCE", "JTAG_SEQUENCE"}
  BY <1>6, NamesAre DEF RequestLen
<1>7. CASE b[1] = "OTHER"
  BY <1>7, NamesAre DEF RequestLen, Unknown
<1> QED BY <1>1, <1>2, <1>3, <1>4, <1>5, <1>6, <1>7

LEMMA AgreesOf ==
  ASSUME NEW d \in Descs, NEW b, Agrees(b, Encode(d)), b # <<>>
  PROVE  /\ b \in Seq(Token) /\ Len(b) \in Nat /\ Len(b) >= 1 /\ b[1] = d.c
         /\ \A j \in 1..Len(EncodeHead(d)) : 1 + j <= Len(b) => b[1 + j] = EncodeHead(d)[j] /\ Bt(b, 1 + j) = b[1 + j]
<1>1. b \in Seq(Token) /\ Len(b) \in Nat /\ Len(b) >= 1 /\ DOMAIN b = 1..Len(b)
  BY DEF Agrees
<1>2. PICK e : e = Encode(d)
  OBVIOUS
<1>3. Len(e) \in Nat /\ Len(e) >= 1 + Len(EncodeHead(d)) /\ Len(EncodeHead(d)) \in Nat /\ e[1] = d.c
      /\ \A j \in 1..Len(EncodeHead(d)) : e[1 + j] = EncodeHead(d)[j]
  BY <1>2, BytesOf
<1>4. \A k \in 1..Len(b) : k <= Len(e) => b[k] = e[k]
  BY <1>2 DEF Agrees
<1>5. b[1] = d.c
  BY <1>1, <1>3, <1>4
<1>6. ASSUME NEW j \in 1..Len(EncodeHead(d)), 1 + j <= Len(b)
      PROVE  b[1 + j] = EncodeHead(d)[j] /\ Bt(b, 1 + j) = b[1 + j]
  <2>1. 1 + j \in 1..Len(b) /\ 1 + j <= Len(e)
    BY <1>1, <1>3, <1>6
  <2> QED BY <1>1, <1>3, <1>4, <2>1 DEF Bt
<1> QED BY <1>1, <1>5, <1>6
LEMMA LaidOf ==
  ASSUME NEW d \in Descs, NEW pos, Laid(d, pos)
  PROVE  /\ Len(d.items) \in Nat /\ pos \in [1..(Len(d.items) + 1) -> Nat]
         /\ pos[1] = 1 + Len(EncodeHead(d)) /\ pos[Len(d.items) + 1] = Len(Encode(d))
         /\ \A k \in 1..Len(d.items) : pos[k + 1] = pos[k] + Len(ItemBytes(d, k))
         /\ \A k \in 1..Len(d.items) : Len(ItemBytes(d, k)) > 0 => Encode(d)[pos[k] + 1] = ItemBytes(d, k)[1]
BY DescOf DEF Laid

\* Items that are all as long.
LEMMA Even ==
  ASSUME NEW n \in Nat, NEW w \in {0, 1, 4}, NEW pos \in [1..(n + 1) -> Nat],
         \A k \in 1..n : pos[k + 1] = pos[k] + w
  PROVE  pos[n + 1] = pos[1] + w * n
<1>1. PICK S : S = {k \in Nat : pos[k] = pos[1] + w * (k - 1)}
  OBVIOUS
<1>2. 1 \in S
  <2>1. 1 \in 1..(n + 1) /\ pos[1] \in Nat
    OBVIOUS
  <2>2. pos[1] = pos[1] + w * (1 - 1)
    BY <2>1
  <2> QED BY <1>1, <2>2
<1>3. ASSUME NEW k \in 1..(n + 1), k < n + 1, k \in S PROVE k + 1 \in S
  <2>1. k \in 1..n /\ k \in Nat /\ k + 1 \in Nat /\ (k + 1) - 1 = k
    BY <1>3
  <2>2. PICK a, x, y : a = pos[1] /\ x = pos[k] /\ y = pos[k + 1]
    OBVIOUS
  <2>3. a \in Nat /\ x \in Nat /\ y \in Nat /\ y = x + w
    BY <2>1, <2>2
  <2>4. x = a + w * (k - 1)
    BY <1>1, <1>3, <2>2
  <2>5. y = a + w * k
    <3>1. CASE w = 0
      BY <2>1, <2>3, <2>4, <3>1
    <3>2. CASE w = 1
      BY <2>1, <2>3, <2>4, <3>2
    <3>3. CASE w = 4
      BY <2>1, <2>3, <2>4, <3>3
    <3> QED BY <3>1, <3>2, <3>3
  <2> QED BY <1>1, <2>1, <2>2, <2>5
<1>4. \A k \in 1..(n + 1) : k \in S
  <2>1. PICK m : m = n + 1 /\ m \in Nat
    OBVIOUS
  <2>2. \A k \in 1..m : k < m /\ k \in S => k + 1 \in S
    BY <1>3, <2>1
  <2>3. \A k \in 1..m : k \in S
    BY <1>2, <2>1, <2>2, UpTo
  <2> QED BY <2>1, <2>3
<1>5. n + 1 \in S /\ (n + 1) - 1 = n
  BY <1>4
<1> QED BY <1>1, <1>5

\* How long a command is.
LEMMA LengthOf ==
  ASSUME NEW d \in Descs
  PROVE  /\ d.c \in DOMAIN FixedLen => Len(Encode(d)) = FixedLen[d.c]
         /\ d.c = "SWJ_SEQUENCE" =>
              Len(Encode(d)) = 2 + DivCeil8(d.items[1].n) /\ SwjBits(Encode(d)[2]) = d.items[1].n
         /\ d.c = "JTAG_CONFIGURE" => Len(Encode(d)) = 2 + Len(d.items)
         /\ d.c = "TRANSFER_BLOCK" => Len(Encode(d)) = 5 + (IF Flag(d.arg, 2) THEN 0 ELSE 4 * Len(d.items))
<1>1. PICK pos : Laid(d, pos)
  BY BytesOf
<1>0. PICK n, l : n = Len(d.items) /\ l = Len(Encode(d))
  OBVIOUS
<1>2. /\ n \in Nat /\ pos \in [1..(n + 1) -> Nat]
      /\ pos[1] = 1 + Len(EncodeHead(d)) /\ pos[n + 1] = l
      /\ \A k \in 1..n : pos[k + 1] = pos[k] + Len(ItemBytes(d, k))
      /\ \A k \in 1..n : Len(ItemBytes(d, k)) > 0 => Encode(d)[pos[k] + 1] = ItemBytes(d, k)[1]
  <2>1. /\ n \in Nat /\ pos \in [1..(n + 1) -> Nat]
        /\ pos[1] = 1 + Len(EncodeHead(d)) /\ pos[n + 1] = Len(Encode(d))
        /\ \A k \in 1..n : pos[k + 1] = pos[k] + Len(ItemBytes(d, k))
        /\ \A k \in 1..n : Len(ItemBytes(d, k)) > 0 => Encode(d)[pos[k] + 1] = ItemBytes(d, k)[1]
    BY <1>0, <1>1, LaidOf
  <2> QED BY <1>0, <2>1
<1>3. \A k \in 1..n : d.items[k] \in Shape
  BY <1>0, DescOf
<1>8. pos[1] = 1 + Len(EncodeHead(d)) /\ pos[n + 1] = l /\ n \in Nat /\ pos[1] \in Nat
  <2>1. 1 \in 1..(n + 1)
    BY <1>2
  <2> QED BY <1>2, <2>1
<1>4. CASE d.c \in DOMAIN FixedLen
  <2>1. n = 0
    BY <1>0, <1>4, Fitting
  <2>2. Len(EncodeHead(d)) = FixedLen[d.c] - 1 /\ FixedLen[d.c] \in 1..7
    BY <1>4, HeadOf, NamesAre
  <2>3. pos[1] = l
    BY <1>2, <2>1
  <2>4. l = FixedLen[d.c]
    BY <1>2, <2>2, <2>3
  <2> QED BY <1>0, <1>4, <2>4, NamesAre
<1>5. CASE d.c = "SWJ_SEQUENCE"
  <2>10. Len(d.items) = 1 /\ d.items[1].n \in 1..256
    BY <1>5, FittingSwj
  <2>1. n = 1 /\ d.items[1].n \in 1..256
    BY <1>0, <2>10
  <2>2. 1 \in 1..n /\ d.items[1] \in Shape
    BY <1>3, <2>1
  <2>3. PICK e : e = EncodeItem("SWJ_SEQUENCE", d.items[1])
    OBVIOUS
  <2>4. Len(e) = 1 + DivCeil8(d.items[1].n) /\ SwjBits(e[1]) = d.items[1].n
    BY <2>1, <2>2, <2>3, SwjPart
  <2>5. e = ItemBytes(d, 1)
    BY <1>5, <2>3 DEF ItemBytes
  <2>6. Len(EncodeHead(d)) = 0
    BY <1>5, HeadOf
  <2>7. pos[1] = 1 /\ l = pos[1] + Len(e) /\ (Len(e) > 0 => Encode(d)[1 + 1] = e[1])
    BY <1>2, <2>1, <2>2, <2>5, <2>6
  <2>8. DivCeil8(d.items[1].n) \in Nat
    <3>1. \A m \in 1..256 : m \in 0..256
      OBVIOUS
    <3>2. d.items[1].n \in 0..256
      BY <2>1, <3>1, Zenon
    <3>3. \A m \in 0..256 : DivCeil8(m) \in Nat
      BY CeilOf
    <3> QED BY <3>2, <3>3, Zenon
  <2>9. l = 2 + DivCeil8(d.items[1].n) /\ Encode(d)[2] = e[1]
    BY <2>4, <2>7, <2>8
  <2> QED BY <1>0, <1>5, <2>4, <2>9, NamesAre
<1>6. CASE d.c = "JTAG_CONFIGURE"
  <2>1. Len(EncodeHead(d)) = 1
    BY <1>6, HeadOf DEF Counted
  <2>2. \A k \in 1..n : Len(ItemBytes(d, k)) = 1
    BY <1>3, <1>6, BytePart DEF ItemBytes
  <2>3. \A k \in 1..n : pos[k + 1] = pos[k] + 1
    BY <1>2, <2>2
  <2>4. pos[n + 1] = pos[1] + 1 * n
    BY <1>2, <2>3, Even
  <2>5. l = 2 + n
    BY <1>8, <2>1, <2>4
  <2> QED BY <1>0, <1>6, <2>5, NamesAre
<1>7. CASE d.c = "TRANSFER_BLOCK"
  <2>1. Len(EncodeHead(d)) = 4
    BY <1>7, HeadOf
  <2>2. PICK w : w = IF Flag(d.arg, 2) THEN 0 ELSE 4
    OBVIOUS
  <2>3. ASSUME NEW k \in 1..n PROVE Len(ItemBytes(d, k)) = w
    <3>1. PICK x : x = d.items[k]
      OBVIOUS
    <3>2. x \in Shape /\ ~x.m /\ x.in = Flag(d.arg, 2)
      BY <1>0, <1>3, <1>7, <3>1, Fitting
    <3>3. PICK e : e = EncodeItem("TRANSFER_BLOCK", x)
      OBVIOUS
    <3>4. Len(e) = IF x.in THEN 0 ELSE 4
      BY <3>2, <3>3, BlockPart
    <3>5. e = ItemBytes(d, k)
      BY <1>7, <3>1, <3>3 DEF ItemBytes
    <3> QED BY <2>2, <3>2, <3>4, <3>5
  <2>4. w \in {0, 1, 4}
    BY <2>2
  <2>5. \A k \in 1..n : pos[k + 1] = pos[k] + w
    BY <1>2, <2>3
  <2>6. pos[n + 1] = pos[1] + w * n
    BY <1>2, <2>4, <2>5, Even
  <2>7. l = 5 + (IF Flag(d.arg, 2) THEN 0 ELSE 4 * n)
    <3>1. CASE Flag(d.arg, 2)
      BY <1>8, <2>1, <2>2, <2>6, <3>1
    <3>2. CASE ~Flag(d.arg, 2)
      BY <1>8, <2>1, <2>2, <2>6, <3>2
    <3> QED BY <3>1, <3>2
  <2> QED BY <1>0, <1>7, <2>7, NamesAre
<1> QED BY <1>4, <1>5, <1>6, <1>7
Itemised == {"SWD_SEQUENCE", "JTAG_SEQUENCE", "TRANSFER"}

\* Every item of these commands begins with a byte that says how long it is.
LEMMA ItemsOf ==
  ASSUME NEW d \in Descs, d.c \in Itemised, NEW pos, Laid(d, pos), NEW k \in 1..Len(d.items)
  PROVE  /\ pos[k] \in Nat /\ pos[k + 1] \in Nat /\ pos[k] < pos[k + 1] /\ pos[k + 1] <= Len(Encode(d))
         /\ Encode(d)[pos[k] + 1] = ItemBytes(d, k)[1] /\ ItemBytes(d, k)[1] \in 0..255
         /\ pos[k + 1] = pos[k] + ItemLen(d.c, ItemBytes(d, k)[1])
<1>1. PICK n, l : n = Len(d.items) /\ l = Len(Encode(d))
  OBVIOUS
<1>2. /\ n \in Nat /\ pos \in [1..(n + 1) -> Nat] /\ pos[n + 1] = l
      /\ \A j \in 1..n : pos[j + 1] = pos[j] + Len(ItemBytes(d, j))
      /\ \A j \in 1..n : Len(ItemBytes(d, j)) > 0 => Encode(d)[pos[j] + 1] = ItemBytes(d, j)[1]
  BY <1>1, LaidOf
<1>3. \A j \in 1..n : Len(ItemBytes(d, j)) \in Nat
  BY <1>1, PartOf
<1>4. \A j \in 1..(n + 1) : pos[j] <= l
  <2>a. n \in Nat
    BY <1>2
  <2>b. \A i \in Nat : i + 1 \in Nat /\ (i + 1) - 1 = i /\ i + 1 \in 1..(i + 1)
    OBVIOUS
  <2>1. PICK m : m = n + 1 /\ m \in Nat /\ m - 1 = n /\ m \in 1..m
    BY <2>a, <2>b, Zenon
  <2>2. \A j \in 1..(m - 1) : pos[j] <= pos[j + 1]
    <3> SUFFICES ASSUME NEW j \in 1..n PROVE pos[j] <= pos[j + 1]
      BY <2>1
    <3>1. j \in 1..(n + 1) /\ j + 1 \in 1..(n + 1)
      BY <1>2
    <3> QED BY <1>2, <1>3, <3>1
  <2>3. \A j \in 1..m : pos[j] <= pos[m]
    BY <1>2, <2>1, <2>2, Rising
  <2> QED BY <1>2, <2>1, <2>3
<1>5. k \in 1..n /\ k \in 1..(n + 1) /\ k + 1 \in 1..(n + 1) /\ k \in Nat
  BY <1>1, <1>2
<1>6. PICK x, e : x = d.items[k] /\ e = ItemBytes(d, k)
  OBVIOUS
<1>7. x \in Shape /\ e = EncodeItem(d.c, x)
  BY <1>1, <1>6, DescOf DEF ItemBytes
<1>8. Len(e) > 0 /\ e[1] \in 0..255 /\ Len(e) = ItemLen(d.c, e[1]) /\ Len(e) \in Nat
  <2>1. CASE d.c \in {"SWD_SEQUENCE", "JTAG_SEQUENCE"}
    <3>1. x.n \in 1..64 /\ ~x.m
      BY <1>6, <2>1, FittingSequence
    <3>2. Len(e) > 0 /\ e[1] \in 0..255 /\ Len(e) = ItemLen(d.c, e[1]) /\ e \in Seq(Nat)
      <4>1. PICK c : c = d.c
        OBVIOUS
      <4>2. c \in {"SWD_SEQUENCE", "JTAG_SEQUENCE"} /\ e = EncodeItem(c, x) /\ x \in Shape
        BY <1>7, <2>1, <4>1
      <4>3. Len(e) > 0 /\ e[1] \in 0..255 /\ Len(e) = ItemLen(c, e[1]) /\ e \in Seq(Nat)
        BY <3>1, <4>2, SequenceItem
      <4> QED BY <4>1, <4>3
    <3> QED BY <3>2
  <2>2. CASE d.c = "TRANSFER"
    <3>1. e = EncodeItem("TRANSFER", x)
      BY <1>7, <2>2
    <3>2. e \in Seq(Nat) /\ Len(e) > 0 /\ e[1] \in 0..255 /\ Len(e) = ItemLen("TRANSFER", e[1])
      BY <1>7, <3>1, TransferPart
    <3> QED BY <2>2, <3>2
  <2> QED BY <2>1, <2>2 DEF Itemised
<1>9. pos[k + 1] = pos[k] + Len(e) /\ Encode(d)[pos[k] + 1] = e[1]
  BY <1>2, <1>5, <1>6, <1>8
<1>10. pos[k] \in Nat /\ pos[k + 1] \in Nat /\ pos[k + 1] <= l
  BY <1>2, <1>4, <1>5
<1> QED BY <1>1, <1>6, <1>8, <1>9, <1>10
\* request_len on some bytes of a command, or on all of them and more.
LEMMA ParserOf ==
  ASSUME NEW d \in Descs, d.c # "OTHER", NEW b, Agrees(b, Encode(d))
  PROVE  RequestLen(b) = IF Len(b) >= Len(Encode(d)) THEN Len(Encode(d)) ELSE 0
<1>1. PICK e, l, n, h : e = Encode(d) /\ l = Len(Encode(d)) /\ n = Len(d.items) /\ h = EncodeHead(d)
  OBVIOUS
<1>2. l \in Nat /\ l >= 1 + Len(h) /\ Len(h) \in Nat /\ n \in Nat
  BY <1>1, BytesOf, DescOf
<1>3. CASE b = <<>>
  <2>1. RequestLen(b) = 0 /\ Len(b) = 0
    BY <1>3 DEF RequestLen, NeedMore
  <2> QED BY <1>1, <1>2, <2>1
<1>4. CASE b # <<>>
  <2>1. b \in Seq(Token) /\ Len(b) \in Nat /\ Len(b) >= 1 /\ b[1] = d.c
    BY <1>4, AgreesOf
  <2>2. \A j \in 1..Len(h) : 1 + j <= Len(b) => b[1 + j] = h[j] /\ Bt(b, 1 + j) = h[j]
    BY <1>1, <1>4, AgreesOf
  <2>3. \A k \in 1..Len(b) : k <= l => b[k] = e[k]
    BY <1>1 DEF Agrees
  <2>4. \A m \in Nat : Fixed(b, m) = IF Len(b) >= m THEN m ELSE 0
    BY DEF Fixed, NeedMore
  <2>5. CASE d.c \in DOMAIN FixedLen
    <3>1. RequestLen(b) = Fixed(b, FixedLen[d.c])
      BY <1>4, <2>1, <2>5, LengthBy
    <3>2. l = FixedLen[d.c]
      BY <1>1, <2>5, LengthOf
    <3> QED BY <1>1, <1>2, <2>4, <3>1, <3>2
  <2>6. CASE d.c = "SWJ_SEQUENCE"
    <3>1. PICK w : w = DivCeil8(d.items[1].n)
      OBVIOUS
    <3>2. l = 2 + w /\ SwjBits(e[2]) = d.items[1].n
      BY <1>1, <2>6, <3>1, LengthOf
    <3>3. RequestLen(b) = HeadLen(b, 2, DivCeil8(SwjBits(Bt(b, 2))))
      BY <1>4, <2>1, <2>6, LengthBy
    <3>6. w \in Nat
      <4>1. \A m \in 1..256 : m \in 0..256
        OBVIOUS
      <4>2. d.items[1].n \in 0..256
        BY <2>6, <4>1, FittingSwj, Zenon
      <4>3. \A m \in 0..256 : DivCeil8(m) \in Nat
        BY CeilOf
      <4> QED BY <3>1, <4>2, <4>3, Zenon
    <3>4. CASE Len(b) < 2
      <4>1. RequestLen(b) = 0
        BY <3>3, <3>4 DEF HeadLen, NeedMore
      <4> QED BY <1>1, <2>1, <3>2, <3>4, <3>6, <4>1
    <3>5. CASE Len(b) >= 2
      <4>1. 2 \in 1..Len(b) /\ 2 <= l /\ DOMAIN b = 1..Len(b)
        BY <2>1, <3>2, <3>5, <3>6
      <4>2. Bt(b, 2) = e[2]
        BY <2>3, <4>1 DEF Bt
      <4>3. RequestLen(b) = Fixed(b, 2 + w)
        BY <2>1, <3>1, <3>2, <3>3, <3>5, <4>2 DEF HeadLen
      <4> QED BY <1>1, <1>2, <2>4, <3>2, <3>6, <4>3
    <3> QED BY <2>1, <3>4, <3>5
  <2>7. CASE d.c = "JTAG_CONFIGURE"
    <3>1. l = 2 + n /\ Len(h) = 1 /\ h[1] = n
      BY <1>1, <2>7, LengthOf, HeadOf DEF Counted
    <3>2. RequestLen(b) = HeadLen(b, 2, Bt(b, 2))
      BY <1>4, <2>1, <2>7, LengthBy
    <3>3. CASE Len(b) < 2
      <4>1. RequestLen(b) = 0
        BY <3>2, <3>3 DEF HeadLen, NeedMore
      <4> QED BY <1>1, <1>2, <2>1, <3>1, <3>3, <4>1
    <3>4. CASE Len(b) >= 2
      <4>1. 1 \in 1..Len(h) /\ 1 + 1 <= Len(b) /\ 1 + 1 = 2
        BY <2>1, <3>1, <3>4
      <4>2. Bt(b, 2) = n
        BY <2>2, <3>1, <4>1
      <4>3. RequestLen(b) = Fixed(b, 2 + n)
        BY <2>1, <3>2, <3>4, <4>2 DEF HeadLen
      <4> QED BY <1>1, <1>2, <2>4, <3>1, <4>3
    <3> QED BY <2>1, <3>3, <3>4
  <2>8. CASE d.c = "TRANSFER_BLOCK"
    <3>1. l = 5 + (IF Flag(d.arg, 2) THEN 0 ELSE 4 * n)
      BY <1>1, <2>8, LengthOf
    <3>2. Len(h) = 4 /\ h[2] + 256 * h[3] = n /\ h[4] = d.arg
      BY <1>1, <2>8, HeadOf
    <3>3. RequestLen(b) = HeadLen(b, 5, IF Flag(Bt(b, 5), 2) THEN 0 ELSE 4 * (Bt(b, 3) + 256 * Bt(b, 4)))
      BY <1>4, <2>1, <2>8, LengthBy
    <3>4. PICK w : w = IF Flag(d.arg, 2) THEN 0 ELSE 4 * n
      OBVIOUS
    <3>5. w \in Nat /\ l = 5 + w
      BY <1>2, <3>1, <3>4
    <3>6. CASE Len(b) < 5
      <4>1. RequestLen(b) = 0
        BY <3>3, <3>6 DEF HeadLen, NeedMore
      <4> QED BY <1>1, <2>1, <3>5, <3>6, <4>1
    <3>7. CASE Len(b) >= 5
      <4>1. /\ 2 \in 1..Len(h) /\ 1 + 2 <= Len(b) /\ 1 + 2 = 3
            /\ 3 \in 1..Len(h) /\ 1 + 3 <= Len(b) /\ 1 + 3 = 4
            /\ 4 \in 1..Len(h) /\ 1 + 4 <= Len(b) /\ 1 + 4 = 5
        BY <2>1, <3>2, <3>7
      <4>2. Bt(b, 3) = h[2] /\ Bt(b, 4) = h[3] /\ Bt(b, 5) = d.arg
        BY <2>2, <3>2, <4>1
      <4>3. RequestLen(b) = HeadLen(b, 5, w)
        BY <3>2, <3>3, <3>4, <4>2
      <4>4. RequestLen(b) = Fixed(b, 5 + w)
        BY <2>1, <3>7, <4>3 DEF HeadLen
      <4> QED BY <1>1, <1>2, <2>4, <3>5, <4>4
    <3> QED BY <2>1, <3>6, <3>7
  <2>9. CASE d.c \in Itemised
    <3>1. PICK pos : Laid(d, pos)
      BY BytesOf
    <3>2. pos \in [1..(n + 1) -> Nat] /\ pos[1] = 1 + Len(h) /\ pos[n + 1] = l
      BY <1>1, <3>1, LaidOf
    <3>3. \A k \in 1..n :
            /\ pos[k] \in Nat /\ pos[k + 1] \in Nat /\ pos[k] < pos[k + 1] /\ pos[k + 1] <= l
            /\ pos[k + 1] = pos[k] + ItemLen(d.c, e[pos[k] + 1])
      BY <1>1, <2>9, <3>1, ItemsOf
    <3>4. PICK m : m = pos[1]
      OBVIOUS
    <3>5. m \in Nat /\ m = 1 + Len(h) /\ RequestLen(b) = CountedLen(b, m) /\ Len(h) >= 1 /\ h[Len(h)] = n
      <4>1. CASE d.c = "TRANSFER"
        <5>1. Len(h) = 2 /\ h[2] = n
          BY <1>1, <4>1, HeadOf
        <5>2. RequestLen(b) = CountedLen(b, 3)
          BY <1>4, <2>1, <4>1, LengthBy
        <5> QED BY <3>2, <3>4, <5>1, <5>2
      <4>2. CASE d.c \in {"SWD_SEQUENCE", "JTAG_SEQUENCE"}
        <5>1. Len(h) = 1 /\ h[1] = n
          BY <1>1, <4>2, HeadOf DEF Counted
        <5>2. RequestLen(b) = CountedLen(b, 2)
          BY <1>4, <2>1, <4>2, LengthBy
        <5> QED BY <3>2, <3>4, <5>1, <5>2
      <4> QED BY <2>9, <4>1, <4>2 DEF Itemised
    <3>6. CASE Len(b) < m
      <4>1. RequestLen(b) = 0
        BY <3>5, <3>6 DEF CountedLen, NeedMore
      <4> QED BY <1>1, <1>2, <2>1, <3>5, <3>6, <4>1
    <3>7. CASE Len(b) >= m
      <4>1. b[m] = n
        <5>1. Len(h) \in 1..Len(h) /\ 1 + Len(h) <= Len(b)
          BY <1>2, <2>1, <3>5, <3>7
        <5> QED BY <2>2, <3>5, <5>1
      <4>2. \A k \in 1..n : pos[k] < Len(b) => pos[k + 1] = pos[k] + ItemLen(b[1], b[pos[k] + 1])
        <5> SUFFICES ASSUME NEW k \in 1..n, pos[k] < Len(b)
                     PROVE  pos[k + 1] = pos[k] + ItemLen(b[1], b[pos[k] + 1])
          OBVIOUS
        <5>1. PICK p : p = pos[k]
          OBVIOUS
        <5>2. p \in Nat /\ p < l
          BY <1>2, <3>3, <5>1
        <5>3. p + 1 \in 1..Len(b) /\ p + 1 <= l
          BY <1>2, <2>1, <5>1, <5>2
        <5>4. b[p + 1] = e[p + 1]
          BY <2>3, <5>3
        <5> QED BY <2>1, <3>3, <5>1, <5>4
      <4>3. ItemsEnd(b, pos[1], n) = IF n = 0 THEN pos[1] ELSE IF pos[n] < Len(b) THEN pos[n + 1] ELSE -1
        <5>1. \A k \in 1..n : pos[k] < pos[k + 1]
          BY <3>3
        <5> QED BY <1>2, <2>1, <3>2, <4>2, <5>1, ItemsEndOf
      <4>4. PICK end : end = ItemsEnd(b, m, n)
        OBVIOUS
      <4>5. RequestLen(b) = IF end < 0 THEN 0 ELSE Fixed(b, end)
        BY <2>1, <3>5, <3>7, <4>1, <4>4 DEF CountedLen, NeedMore
      <4>6. CASE n = 0
        <5>1. end = l
          BY <3>2, <3>4, <4>3, <4>4, <4>6
        <5> QED BY <1>1, <1>2, <2>4, <4>5, <5>1
      <4>7. CASE n # 0
        <5>1. n \in 1..n
          BY <1>2, <4>7
        <5>2. pos[n] \in Nat /\ pos[n] < l
          BY <1>2, <3>2, <3>3, <5>1
        <5>3. CASE pos[n] < Len(b)
          <6>1. end = l
            BY <3>2, <3>4, <4>3, <4>4, <4>7, <5>3
          <6> QED BY <1>1, <1>2, <2>4, <4>5, <6>1
        <5>4. CASE ~(pos[n] < Len(b))
          <6>1. end = -1
            BY <3>4, <4>3, <4>4, <4>7, <5>4
          <6>2. Len(b) < l
            BY <1>2, <2>1, <5>2, <5>4
          <6> QED BY <1>1, <1>2, <2>1, <4>5, <6>1, <6>2
        <5> QED BY <5>3, <5>4
      <4> QED BY <4>6, <4>7
    <3> QED BY <2>1, <3>5, <3>6, <3>7
  <2> QED BY <2>5, <2>6, <2>7, <2>8, <2>9, DescOf DEF Names, Itemised
<1> QED BY <1>3, <1>4

-----------------------------------------------------------------------------
(* What is known of a command.                                              *)

LEMMA PlaceOf == ASSUME NEW d \in Descs PROVE Laid(d, Place(d))
BY BytesOf DEF Place

\* What the items are owed adds up to the reply.
LEMMA PaidOf == ASSUME NEW d \in Descs PROVE \E sum : Paid(d, sum)
<1>0. PICK n : n = Len(d.items)
  OBVIOUS
<1>1. n \in Nat /\ \A k \in 1..n : d.items[k] \in Shape
  BY <1>0, DescOf
<1>2. PICK bytes : bytes = [k \in 1..n |-> Pay(d, k)]
  OBVIOUS
<1>3. \A k \in 1..n : Pay(d, k) \in Nat
  <2> SUFFICES ASSUME NEW k \in 1..n PROVE Pay(d, k) \in Nat
    OBVIOUS
  <2>0. PICK m : m = d.items[k].n
    OBVIOUS
  <2>1. m \in 0..256
    <3>1. d.items[k] \in Shape
      BY <1>1
    <3> QED BY <2>0, <3>1 DEF Shape
  <2>2. (m + 7) \div 8 \in Nat
    BY <2>1
  <2> QED BY <2>0, <2>2 DEF Pay
<1>4. PICK ss : ss = [k \in 1..n |-> Filler(bytes[k])]
  OBVIOUS
<1>5. \A k \in 1..n : ss[k] \in Seq(Nat) /\ Len(ss[k]) = Pay(d, k)
  <2> SUFFICES ASSUME NEW k \in 1..n PROVE ss[k] \in Seq(Nat) /\ Len(ss[k]) = Pay(d, k)
    OBVIOUS
  <2>1. PICK w : w = Pay(d, k)
    OBVIOUS
  <2>2. w \in Nat /\ ss[k] = Filler(w)
    BY <1>2, <1>3, <1>4, <2>1
  <2> QED BY <2>1, <2>2, Fills
<1>6. ss \in Seq(Seq(Nat)) /\ Len(ss) = n
  <2>1. ss \in [1..n -> Seq(Nat)]
    BY <1>4, <1>5
  <2> QED BY <1>1, <1>4, <2>1
<1>7. PICK sum : Bounds(ss, sum)
  BY <1>6, BoundsOf
<1>8. /\ sum \in [1..(n + 1) -> Nat] /\ sum[1] = 0
      /\ \A k \in 1..n : sum[k + 1] = sum[k] + Pay(d, k)
      /\ Len(FlattenSeq(ss)) = sum[n + 1]
  <2>1. /\ sum \in [1..(n + 1) -> Nat] /\ sum[1] = 0
        /\ \A k \in 1..n : sum[k + 1] = sum[k] + Len(ss[k])
        /\ Len(FlattenSeq(ss)) = sum[n + 1]
    BY <1>6, <1>7 DEF Bounds
  <2> QED BY <1>5, <2>1
<1>9. MeantReply(d) = Len(FlattenSeq(ss)) + (CASE d.c = "TRANSFER" -> 3 [] d.c = "TRANSFER_BLOCK" -> 4 [] OTHER -> 2)
  <2>1. bytes = [k \in 1..n |-> IF ~d.items[k].in \/ d.items[k].m THEN 0
                               ELSE IF d.c = "SWD_SEQUENCE" THEN (d.items[k].n + 7) \div 8 ELSE 4]
    BY <1>2 DEF Pay
  <2> QED BY <1>0, <1>4, <2>1, Zenon DEF MeantReply
<1>10. Paid(d, sum)
  BY <1>0, <1>8, <1>9 DEF Paid
<1> QED BY <1>10

LEMMA DueOf == ASSUME NEW d \in Descs PROVE Paid(d, Due(d))
BY PaidOf DEF Due

\* What the host means, as a sequence.
LEMMA MeantOf ==
  ASSUME NEW d \in Descs
  PROVE  /\ d.c \in {"SWD_SEQUENCE", "SWJ_SEQUENCE"} =>
              /\ Meant(d) \in Seq(Kind) /\ Len(Meant(d)) = Len(d.items)
              /\ \A k \in 1..Len(d.items) :
                   Meant(d)[k] = [e |-> "sequence", in |-> d.items[k].in, n |-> d.items[k].n]
         /\ d.c = "TRANSFER" =>
              /\ Meant(d) \in Seq(Kind) /\ Len(Meant(d)) = Len(d.items)
              /\ \A k \in 1..Len(d.items) :
                   Meant(d)[k] = [e |-> IF d.items[k].m /\ ~d.items[k].in THEN "mask" ELSE "transfer",
                                  in |-> d.items[k].in, n |-> 1]
<1>0. PICK n : n = Len(d.items)
  OBVIOUS
<1>1. n \in Nat /\ \A k \in 1..n : d.items[k] \in Shape
  BY <1>0, DescOf
<1>2. \A k \in 1..n : d.items[k].in \in BOOLEAN /\ d.items[k].n \in Nat
  <2> SUFFICES ASSUME NEW k \in 1..n PROVE d.items[k].in \in BOOLEAN /\ d.items[k].n \in Nat
    OBVIOUS
  <2>1. d.items[k] \in Shape
    BY <1>1
  <2> QED BY <2>1 DEF Shape
<1>3. CASE d.c \in {"SWD_SEQUENCE", "SWJ_SEQUENCE"}
  <2>1. PICK s : s = [k \in 1..n |-> [e |-> "sequence", in |-> d.items[k].in, n |-> d.items[k].n]]
    OBVIOUS
  <2>2. Meant(d) = s
    <3>1. d.c \notin DOMAIN Fixed0 /\ d.c # "TRANSFER" /\ d.c # "TRANSFER_BLOCK"
      BY <1>3 DEF Fixed0
    <3> QED BY <1>0, <1>3, <2>1, <3>1 DEF Meant
  <2>3. s \in [1..n -> Kind]
    BY <1>2, <2>1 DEF Kind
  <2>4. s \in Seq(Kind) /\ Len(s) = n
    BY <1>1, <2>1, <2>3
  <2> QED BY <1>0, <1>3, <2>1, <2>2, <2>4
<1>4. CASE d.c = "TRANSFER"
  <2>1. PICK s : s = [k \in 1..n |-> [e |-> IF d.items[k].m /\ ~d.items[k].in THEN "mask" ELSE "transfer",
                                      in |-> d.items[k].in, n |-> 1]]
    OBVIOUS
  <2>2. Meant(d) = s
    <3>1. d.c \notin DOMAIN Fixed0 /\ d.c # "SWD_SEQUENCE" /\ d.c # "TRANSFER_BLOCK"
      BY <1>4 DEF Fixed0
    <3> QED BY <1>0, <1>4, <2>1, <3>1 DEF Meant
  <2>3. s \in [1..n -> Kind]
    BY <1>2, <2>1 DEF Kind
  <2>4. s \in Seq(Kind) /\ Len(s) = n
    BY <1>1, <2>1, <2>3
  <2> QED BY <1>0, <1>4, <2>1, <2>2, <2>4
<1> QED BY <1>3, <1>4

\* The steps of the fixed commands.
LEMMA ScriptIs ==
  /\ DOMAIN Script = {"INFO", "CONNECT", "DISCONNECT", "HOST_STATUS", "DELAY", "TRANSFER_CONFIGURE",
       "WRITE_ABORT", "SWJ_PINS", "SWJ_CLOCK", "SWD_CONFIGURE", "SWO_TRANSPORT", "RESET_TARGET",
       "SWO_BAUDRATE", "SWO_STATUS", "SWO_EXTENDED_STATUS", "SWO_DATA"}
  /\ Script["INFO"] = <<[n |-> 1, e |-> ""]>>
  /\ Script["CONNECT"] = <<[n |-> 1, e |-> "connect"]>>
  /\ Script["DISCONNECT"] = <<[n |-> 0, e |-> "disconnect"]>>
  /\ Script["HOST_STATUS"] = <<[n |-> 1, e |-> ""], [n |-> 1, e |-> "host_status"]>>
  /\ Script["DELAY"] = <<[n |-> 2, e |-> "delay"]>>
  /\ Script["TRANSFER_CONFIGURE"] = <<[n |-> 1, e |-> "idle_cycles"], [n |-> 2, e |-> "wait_retries"], [n |-> 2, e |-> "match_retries"]>>
  /\ Script["WRITE_ABORT"] = <<[n |-> 1, e |-> ""], [n |-> 4, e |-> "transfer"]>>
  /\ Script["SWJ_PINS"] = <<[n |-> 1, e |-> ""], [n |-> 1, e |-> ""], [n |-> 4, e |-> "swj_pins"]>>
  /\ Script["SWJ_CLOCK"] = <<[n |-> 4, e |-> "set_clock"]>>
  /\ Script["SWD_CONFIGURE"] = <<[n |-> 1, e |-> "turnaround"]>>
  /\ Script["SWO_TRANSPORT"] = <<[n |-> 1, e |-> ""]>>
  /\ Script["RESET_TARGET"] = <<>>
  /\ Script["SWO_BAUDRATE"] = <<>>
  /\ Script["SWO_STATUS"] = <<>>
  /\ Script["SWO_EXTENDED_STATUS"] = <<>>
  /\ Script["SWO_DATA"] = <<>>
<1>1. DOMAIN Script = {"INFO", "CONNECT", "DISCONNECT", "HOST_STATUS", "DELAY", "TRANSFER_CONFIGURE",
       "WRITE_ABORT", "SWJ_PINS", "SWJ_CLOCK", "SWD_CONFIGURE", "SWO_TRANSPORT", "RESET_TARGET",
       "SWO_BAUDRATE", "SWO_STATUS", "SWO_EXTENDED_STATUS", "SWO_DATA"}
  BY DEF Script
<1>2. Script["INFO"] = <<[n |-> 1, e |-> ""]>>
  BY DEF Script, TransferConfigure, Get, Then
<1>3. Script["CONNECT"] = <<[n |-> 1, e |-> "connect"]>>
  BY DEF Script, TransferConfigure, Get, Then
<1>4. Script["DISCONNECT"] = <<[n |-> 0, e |-> "disconnect"]>>
  BY DEF Script, TransferConfigure, Get, Then
<1>5. Script["HOST_STATUS"] = <<[n |-> 1, e |-> ""], [n |-> 1, e |-> "host_status"]>>
  BY DEF Script, TransferConfigure, Get, Then
<1>6. Script["DELAY"] = <<[n |-> 2, e |-> "delay"]>>
  BY DEF Script, TransferConfigure, Get, Then
<1>7. Script["TRANSFER_CONFIGURE"] = <<[n |-> 1, e |-> "idle_cycles"], [n |-> 2, e |-> "wait_retries"], [n |-> 2, e |-> "match_retries"]>>
  BY DEF Script, TransferConfigure, Get, Then
<1>8. Script["WRITE_ABORT"] = <<[n |-> 1, e |-> ""], [n |-> 4, e |-> "transfer"]>>
  BY DEF Script, TransferConfigure, Get, Then
<1>9. Script["SWJ_PINS"] = <<[n |-> 1, e |-> ""], [n |-> 1, e |-> ""], [n |-> 4, e |-> "swj_pins"]>>
  BY DEF Script, TransferConfigure, Get, Then
<1>10. Script["SWJ_CLOCK"] = <<[n |-> 4, e |-> "set_clock"]>>
  BY DEF Script, TransferConfigure, Get, Then
<1>11. Script["SWD_CONFIGURE"] = <<[n |-> 1, e |-> "turnaround"]>>
  BY DEF Script, TransferConfigure, Get, Then
<1>12. Script["SWO_TRANSPORT"] = <<[n |-> 1, e |-> ""]>>
  BY DEF Script, TransferConfigure, Get, Then
<1>13. Script["RESET_TARGET"] = <<>>
  BY DEF Script, TransferConfigure, Get, Then
<1>14. Script["SWO_BAUDRATE"] = <<>>
  BY DEF Script, TransferConfigure, Get, Then
<1>15. Script["SWO_STATUS"] = <<>>
  BY DEF Script, TransferConfigure, Get, Then
<1>16. Script["SWO_EXTENDED_STATUS"] = <<>>
  BY DEF Script, TransferConfigure, Get, Then
<1>17. Script["SWO_DATA"] = <<>>
  BY DEF Script, TransferConfigure, Get, Then
<1> QED BY <1>1, <1>2, <1>3, <1>4, <1>5, <1>6, <1>7, <1>8, <1>9, <1>10, <1>11, <1>12, <1>13, <1>14, <1>15, <1>16, <1>17

\* Reads of one byte, and then one that completes the command.
Steps(c, k, r) ==
  /\ Len(Script[c]) = k
  /\ \A j \in 1..k : Script[c][j] = IF j = k THEN r ELSE Get(1)
  /\ r.n \in Nat /\ r.e = IF c \in DOMAIN Fixed0 THEN Fixed0[c][1] ELSE ""
  /\ k > 0 => k + r.n = FixedLen[c]

LEMMA StepsOf ==
  ASSUME NEW c \in DOMAIN Script, c # "TRANSFER_CONFIGURE"
  PROVE  \E k \in 0..3 : \E r : Steps(c, k, r) /\ (c \in DOMAIN Fixed0 => k > 0)
<1>1. CASE c = "INFO"
  <2>1. PICK r : r = [n |-> 1, e |-> ""]
    OBVIOUS
  <2>2. PICK q : q = Get(1)
    OBVIOUS
  <2>3. Script[c] = <<r>>
    BY <1>1, <2>2, <2>1, ScriptIs DEF Get
  <2>4. FixedLen["INFO"] = 2
    BY DEF FixedLen
  <2>5. "INFO" \notin DOMAIN Fixed0
    BY DEF Fixed0
  <2>6. r.n = 1
    BY <2>1
  <2>7. r.e = ""
    BY <2>1
  <2>8. r.e = IF c \in DOMAIN Fixed0 THEN Fixed0[c][1] ELSE ""
    BY <1>1, <2>5, <2>7, Zenon
  <2>9. r.n \in Nat
    BY <2>6
  <2>10. Len(Script[c]) = 1 /\ \A j \in 1..1 : Script[c][j] = IF j = 1 THEN r ELSE q
    BY <2>3
  <2>11. 1 > 0 => 1 + r.n = FixedLen[c]
    BY <1>1, <2>4, <2>6
  <2>12. Steps(c, 1, r)
    BY <2>2, <2>8, <2>10, <2>11, <2>9, Zenon DEF Steps
  <2> QED BY <1>1, <2>5, <2>12
<1>2. CASE c = "CONNECT"
  <2>1. PICK r : r = [n |-> 1, e |-> "connect"]
    OBVIOUS
  <2>2. PICK q : q = Get(1)
    OBVIOUS
  <2>3. Script[c] = <<r>>
    BY <1>2, <2>2, <2>1, ScriptIs DEF Get
  <2>4. FixedLen["CONNECT"] = 2
    BY DEF FixedLen
  <2>5. "CONNECT" \in DOMAIN Fixed0 /\ Fixed0["CONNECT"][1] = "connect"
    BY DEF Fixed0
  <2>6. r.n = 1
    BY <2>1
  <2>7. r.e = "connect"
    BY <2>1
  <2>8. r.e = IF c \in DOMAIN Fixed0 THEN Fixed0[c][1] ELSE ""
    BY <1>2, <2>5, <2>7, Zenon
  <2>9. r.n \in Nat
    BY <2>6
  <2>10. Len(Script[c]) = 1 /\ \A j \in 1..1 : Script[c][j] = IF j = 1 THEN r ELSE q
    BY <2>3
  <2>11. 1 > 0 => 1 + r.n = FixedLen[c]
    BY <1>2, <2>4, <2>6
  <2>12. Steps(c, 1, r)
    BY <2>2, <2>8, <2>10, <2>11, <2>9, Zenon DEF Steps
  <2> QED BY <1>2, <2>5, <2>12
<1>3. CASE c = "DISCONNECT"
  <2>1. PICK r : r = [n |-> 0, e |-> "disconnect"]
    OBVIOUS
  <2>2. PICK q : q = Get(1)
    OBVIOUS
  <2>3. Script[c] = <<r>>
    BY <1>3, <2>2, <2>1, ScriptIs DEF Get
  <2>4. FixedLen["DISCONNECT"] = 1
    BY DEF FixedLen
  <2>5. "DISCONNECT" \in DOMAIN Fixed0 /\ Fixed0["DISCONNECT"][1] = "disconnect"
    BY DEF Fixed0
  <2>6. r.n = 0
    BY <2>1
  <2>7. r.e = "disconnect"
    BY <2>1
  <2>8. r.e = IF c \in DOMAIN Fixed0 THEN Fixed0[c][1] ELSE ""
    BY <1>3, <2>5, <2>7, Zenon
  <2>9. r.n \in Nat
    BY <2>6
  <2>10. Len(Script[c]) = 1 /\ \A j \in 1..1 : Script[c][j] = IF j = 1 THEN r ELSE q
    BY <2>3
  <2>11. 1 > 0 => 1 + r.n = FixedLen[c]
    BY <1>3, <2>4, <2>6
  <2>12. Steps(c, 1, r)
    BY <2>2, <2>8, <2>10, <2>11, <2>9, Zenon DEF Steps
  <2> QED BY <1>3, <2>5, <2>12
<1>4. CASE c = "HOST_STATUS"
  <2>1. PICK r : r = [n |-> 1, e |-> "host_status"]
    OBVIOUS
  <2>2. PICK q : q = Get(1)
    OBVIOUS
  <2>3. Script[c] = <<q, r>>
    BY <1>4, <2>2, <2>1, ScriptIs DEF Get
  <2>4. FixedLen["HOST_STATUS"] = 3
    BY DEF FixedLen
  <2>5. "HOST_STATUS" \in DOMAIN Fixed0 /\ Fixed0["HOST_STATUS"][1] = "host_status"
    BY DEF Fixed0
  <2>6. r.n = 1
    BY <2>1
  <2>7. r.e = "host_status"
    BY <2>1
  <2>8. r.e = IF c \in DOMAIN Fixed0 THEN Fixed0[c][1] ELSE ""
    BY <1>4, <2>5, <2>7, Zenon
  <2>9. r.n \in Nat
    BY <2>6
  <2>10. Len(Script[c]) = 2 /\ \A j \in 1..2 : Script[c][j] = IF j = 2 THEN r ELSE q
    BY <2>3
  <2>11. 2 > 0 => 2 + r.n = FixedLen[c]
    BY <1>4, <2>4, <2>6
  <2>12. Steps(c, 2, r)
    BY <2>2, <2>8, <2>10, <2>11, <2>9, Zenon DEF Steps
  <2> QED BY <1>4, <2>5, <2>12
<1>5. CASE c = "DELAY"
  <2>1. PICK r : r = [n |-> 2, e |-> "delay"]
    OBVIOUS
  <2>2. PICK q : q = Get(1)
    OBVIOUS
  <2>3. Script[c] = <<r>>
    BY <1>5, <2>2, <2>1, ScriptIs DEF Get
  <2>4. FixedLen["DELAY"] = 3
    BY DEF FixedLen
  <2>5. "DELAY" \in DOMAIN Fixed0 /\ Fixed0["DELAY"][1] = "delay"
    BY DEF Fixed0
  <2>6. r.n = 2
    BY <2>1
  <2>7. r.e = "delay"
    BY <2>1
  <2>8. r.e = IF c \in DOMAIN Fixed0 THEN Fixed0[c][1] ELSE ""
    BY <1>5, <2>5, <2>7, Zenon
  <2>9. r.n \in Nat
    BY <2>6
  <2>10. Len(Script[c]) = 1 /\ \A j \in 1..1 : Script[c][j] = IF j = 1 THEN r ELSE q
    BY <2>3
  <2>11. 1 > 0 => 1 + r.n = FixedLen[c]
    BY <1>5, <2>4, <2>6
  <2>12. Steps(c, 1, r)
    BY <2>2, <2>8, <2>10, <2>11, <2>9, Zenon DEF Steps
  <2> QED BY <1>5, <2>5, <2>12
<1>6. CASE c = "WRITE_ABORT"
  <2>1. PICK r : r = [n |-> 4, e |-> "transfer"]
    OBVIOUS
  <2>2. PICK q : q = Get(1)
    OBVIOUS
  <2>3. Script[c] = <<q, r>>
    BY <1>6, <2>2, <2>1, ScriptIs DEF Get
  <2>4. FixedLen["WRITE_ABORT"] = 6
    BY DEF FixedLen
  <2>5. "WRITE_ABORT" \in DOMAIN Fixed0 /\ Fixed0["WRITE_ABORT"][1] = "transfer"
    BY DEF Fixed0
  <2>6. r.n = 4
    BY <2>1
  <2>7. r.e = "transfer"
    BY <2>1
  <2>8. r.e = IF c \in DOMAIN Fixed0 THEN Fixed0[c][1] ELSE ""
    BY <1>6, <2>5, <2>7, Zenon
  <2>9. r.n \in Nat
    BY <2>6
  <2>10. Len(Script[c]) = 2 /\ \A j \in 1..2 : Script[c][j] = IF j = 2 THEN r ELSE q
    BY <2>3
  <2>11. 2 > 0 => 2 + r.n = FixedLen[c]
    BY <1>6, <2>4, <2>6
  <2>12. Steps(c, 2, r)
    BY <2>2, <2>8, <2>10, <2>11, <2>9, Zenon DEF Steps
  <2> QED BY <1>6, <2>5, <2>12
<1>7. CASE c = "SWJ_PINS"
  <2>1. PICK r : r = [n |-> 4, e |-> "swj_pins"]
    OBVIOUS
  <2>2. PICK q : q = Get(1)
    OBVIOUS
  <2>3. Script[c] = <<q, q, r>>
    BY <1>7, <2>2, <2>1, ScriptIs DEF Get
  <2>4. FixedLen["SWJ_PINS"] = 7
    BY DEF FixedLen
  <2>5. "SWJ_PINS" \in DOMAIN Fixed0 /\ Fixed0["SWJ_PINS"][1] = "swj_pins"
    BY DEF Fixed0
  <2>6. r.n = 4
    BY <2>1
  <2>7. r.e = "swj_pins"
    BY <2>1
  <2>8. r.e = IF c \in DOMAIN Fixed0 THEN Fixed0[c][1] ELSE ""
    BY <1>7, <2>5, <2>7, Zenon
  <2>9. r.n \in Nat
    BY <2>6
  <2>10. Len(Script[c]) = 3 /\ \A j \in 1..3 : Script[c][j] = IF j = 3 THEN r ELSE q
    BY <2>3
  <2>11. 3 > 0 => 3 + r.n = FixedLen[c]
    BY <1>7, <2>4, <2>6
  <2>12. Steps(c, 3, r)
    BY <2>2, <2>8, <2>10, <2>11, <2>9, Zenon DEF Steps
  <2> QED BY <1>7, <2>5, <2>12
<1>8. CASE c = "SWJ_CLOCK"
  <2>1. PICK r : r = [n |-> 4, e |-> "set_clock"]
    OBVIOUS
  <2>2. PICK q : q = Get(1)
    OBVIOUS
  <2>3. Script[c] = <<r>>
    BY <1>8, <2>2, <2>1, ScriptIs DEF Get
  <2>4. FixedLen["SWJ_CLOCK"] = 5
    BY DEF FixedLen
  <2>5. "SWJ_CLOCK" \in DOMAIN Fixed0 /\ Fixed0["SWJ_CLOCK"][1] = "set_clock"
    BY DEF Fixed0
  <2>6. r.n = 4
    BY <2>1
  <2>7. r.e = "set_clock"
    BY <2>1
  <2>8. r.e = IF c \in DOMAIN Fixed0 THEN Fixed0[c][1] ELSE ""
    BY <1>8, <2>5, <2>7, Zenon
  <2>9. r.n \in Nat
    BY <2>6
  <2>10. Len(Script[c]) = 1 /\ \A j \in 1..1 : Script[c][j] = IF j = 1 THEN r ELSE q
    BY <2>3
  <2>11. 1 > 0 => 1 + r.n = FixedLen[c]
    BY <1>8, <2>4, <2>6
  <2>12. Steps(c, 1, r)
    BY <2>2, <2>8, <2>10, <2>11, <2>9, Zenon DEF Steps
  <2> QED BY <1>8, <2>5, <2>12
<1>9. CASE c = "SWD_CONFIGURE"
  <2>1. PICK r : r = [n |-> 1, e |-> "turnaround"]
    OBVIOUS
  <2>2. PICK q : q = Get(1)
    OBVIOUS
  <2>3. Script[c] = <<r>>
    BY <1>9, <2>2, <2>1, ScriptIs DEF Get
  <2>4. FixedLen["SWD_CONFIGURE"] = 2
    BY DEF FixedLen
  <2>5. "SWD_CONFIGURE" \in DOMAIN Fixed0 /\ Fixed0["SWD_CONFIGURE"][1] = "turnaround"
    BY DEF Fixed0
  <2>6. r.n = 1
    BY <2>1
  <2>7. r.e = "turnaround"
    BY <2>1
  <2>8. r.e = IF c \in DOMAIN Fixed0 THEN Fixed0[c][1] ELSE ""
    BY <1>9, <2>5, <2>7, Zenon
  <2>9. r.n \in Nat
    BY <2>6
  <2>10. Len(Script[c]) = 1 /\ \A j \in 1..1 : Script[c][j] = IF j = 1 THEN r ELSE q
    BY <2>3
  <2>11. 1 > 0 => 1 + r.n = FixedLen[c]
    BY <1>9, <2>4, <2>6
  <2>12. Steps(c, 1, r)
    BY <2>2, <2>8, <2>10, <2>11, <2>9, Zenon DEF Steps
  <2> QED BY <1>9, <2>5, <2>12
<1>10. CASE c = "SWO_TRANSPORT"
  <2>1. PICK r : r = [n |-> 1, e |-> ""]
    OBVIOUS
  <2>2. PICK q : q = Get(1)
    OBVIOUS
  <2>3. Script[c] = <<r>>
    BY <1>10, <2>2, <2>1, ScriptIs DEF Get
  <2>4. FixedLen["SWO_TRANSPORT"] = 2
    BY DEF FixedLen
  <2>5. "SWO_TRANSPORT" \notin DOMAIN Fixed0
    BY DEF Fixed0
  <2>6. r.n = 1
    BY <2>1
  <2>7. r.e = ""
    BY <2>1
  <2>8. r.e = IF c \in DOMAIN Fixed0 THEN Fixed0[c][1] ELSE ""
    BY <1>10, <2>5, <2>7, Zenon
  <2>9. r.n \in Nat
    BY <2>6
  <2>10. Len(Script[c]) = 1 /\ \A j \in 1..1 : Script[c][j] = IF j = 1 THEN r ELSE q
    BY <2>3
  <2>11. 1 > 0 => 1 + r.n = FixedLen[c]
    BY <1>10, <2>4, <2>6
  <2>12. Steps(c, 1, r)
    BY <2>2, <2>8, <2>10, <2>11, <2>9, Zenon DEF Steps
  <2> QED BY <1>10, <2>5, <2>12
<1>11. CASE c = "RESET_TARGET"
  <2>1. PICK r : r = [n |-> 0, e |-> ""]
    OBVIOUS
  <2>2. PICK q : q = Get(1)
    OBVIOUS
  <2>3. Script[c] = <<>>
    BY <1>11, <2>2, <2>1, ScriptIs DEF Get
  <2>4. FixedLen["RESET_TARGET"] = 1
    BY DEF FixedLen
  <2>5. "RESET_TARGET" \notin DOMAIN Fixed0
    BY DEF Fixed0
  <2>6. r.n = 0
    BY <2>1
  <2>7. r.e = ""
    BY <2>1
  <2>8. r.e = IF c \in DOMAIN Fixed0 THEN Fixed0[c][1] ELSE ""
    BY <1>11, <2>5, <2>7, Zenon
  <2>9. r.n \in Nat
    BY <2>6
  <2>10. Len(Script[c]) = 0 /\ \A j \in 1..0 : Script[c][j] = IF j = 0 THEN r ELSE q
    BY <2>3
  <2>11. 0 > 0 => 0 + r.n = FixedLen[c]
    BY <1>11, <2>4, <2>6
  <2>12. Steps(c, 0, r)
    BY <2>2, <2>8, <2>10, <2>11, <2>9, Zenon DEF Steps
  <2> QED BY <1>11, <2>5, <2>12
<1>12. CASE c = "SWO_BAUDRATE"
  <2>1. PICK r : r = [n |-> 0, e |-> ""]
    OBVIOUS
  <2>2. PICK q : q = Get(1)
    OBVIOUS
  <2>3. Script[c] = <<>>
    BY <1>12, <2>2, <2>1, ScriptIs DEF Get
  <2>4. FixedLen["SWO_BAUDRATE"] = 5
    BY DEF FixedLen
  <2>5. "SWO_BAUDRATE" \notin DOMAIN Fixed0
    BY DEF Fixed0
  <2>6. r.n = 0
    BY <2>1
  <2>7. r.e = ""
    BY <2>1
  <2>8. r.e = IF c \in DOMAIN Fixed0 THEN Fixed0[c][1] ELSE ""
    BY <1>12, <2>5, <2>7, Zenon
  <2>9. r.n \in Nat
    BY <2>6
  <2>10. Len(Script[c]) = 0 /\ \A j \in 1..0 : Script[c][j] = IF j = 0 THEN r ELSE q
    BY <2>3
  <2>11. 0 > 0 => 0 + r.n = FixedLen[c]
    BY <1>12, <2>4, <2>6
  <2>12. Steps(c, 0, r)
    BY <2>2, <2>8, <2>10, <2>11, <2>9, Zenon DEF Steps
  <2> QED BY <1>12, <2>5, <2>12
<1>13. CASE c = "SWO_STATUS"
  <2>1. PICK r : r = [n |-> 0, e |-> ""]
    OBVIOUS
  <2>2. PICK q : q = Get(1)
    OBVIOUS
  <2>3. Script[c] = <<>>
    BY <1>13, <2>2, <2>1, ScriptIs DEF Get
  <2>4. FixedLen["SWO_STATUS"] = 1
    BY DEF FixedLen
  <2>5. "SWO_STATUS" \notin DOMAIN Fixed0
    BY DEF Fixed0
  <2>6. r.n = 0
    BY <2>1
  <2>7. r.e = ""
    BY <2>1
  <2>8. r.e = IF c \in DOMAIN Fixed0 THEN Fixed0[c][1] ELSE ""
    BY <1>13, <2>5, <2>7, Zenon
  <2>9. r.n \in Nat
    BY <2>6
  <2>10. Len(Script[c]) = 0 /\ \A j \in 1..0 : Script[c][j] = IF j = 0 THEN r ELSE q
    BY <2>3
  <2>11. 0 > 0 => 0 + r.n = FixedLen[c]
    BY <1>13, <2>4, <2>6
  <2>12. Steps(c, 0, r)
    BY <2>2, <2>8, <2>10, <2>11, <2>9, Zenon DEF Steps
  <2> QED BY <1>13, <2>5, <2>12
<1>14. CASE c = "SWO_EXTENDED_STATUS"
  <2>1. PICK r : r = [n |-> 0, e |-> ""]
    OBVIOUS
  <2>2. PICK q : q = Get(1)
    OBVIOUS
  <2>3. Script[c] = <<>>
    BY <1>14, <2>2, <2>1, ScriptIs DEF Get
  <2>4. FixedLen["SWO_EXTENDED_STATUS"] = 2
    BY DEF FixedLen
  <2>5. "SWO_EXTENDED_STATUS" \notin DOMAIN Fixed0
    BY DEF Fixed0
  <2>6. r.n = 0
    BY <2>1
  <2>7. r.e = ""
    BY <2>1
  <2>8. r.e = IF c \in DOMAIN Fixed0 THEN Fixed0[c][1] ELSE ""
    BY <1>14, <2>5, <2>7, Zenon
  <2>9. r.n \in Nat
    BY <2>6
  <2>10. Len(Script[c]) = 0 /\ \A j \in 1..0 : Script[c][j] = IF j = 0 THEN r ELSE q
    BY <2>3
  <2>11. 0 > 0 => 0 + r.n = FixedLen[c]
    BY <1>14, <2>4, <2>6
  <2>12. Steps(c, 0, r)
    BY <2>2, <2>8, <2>10, <2>11, <2>9, Zenon DEF Steps
  <2> QED BY <1>14, <2>5, <2>12
<1>15. CASE c = "SWO_DATA"
  <2>1. PICK r : r = [n |-> 0, e |-> ""]
    OBVIOUS
  <2>2. PICK q : q = Get(1)
    OBVIOUS
  <2>3. Script[c] = <<>>
    BY <1>15, <2>2, <2>1, ScriptIs DEF Get
  <2>4. FixedLen["SWO_DATA"] = 3
    BY DEF FixedLen
  <2>5. "SWO_DATA" \notin DOMAIN Fixed0
    BY DEF Fixed0
  <2>6. r.n = 0
    BY <2>1
  <2>7. r.e = ""
    BY <2>1
  <2>8. r.e = IF c \in DOMAIN Fixed0 THEN Fixed0[c][1] ELSE ""
    BY <1>15, <2>5, <2>7, Zenon
  <2>9. r.n \in Nat
    BY <2>6
  <2>10. Len(Script[c]) = 0 /\ \A j \in 1..0 : Script[c][j] = IF j = 0 THEN r ELSE q
    BY <2>3
  <2>11. 0 > 0 => 0 + r.n = FixedLen[c]
    BY <1>15, <2>4, <2>6
  <2>12. Steps(c, 0, r)
    BY <2>2, <2>8, <2>10, <2>11, <2>9, Zenon DEF Steps
  <2> QED BY <1>15, <2>5, <2>12
<1> QED BY ScriptIs, <1>1, <1>2, <1>3, <1>4, <1>5, <1>6, <1>7, <1>8, <1>9, <1>10, <1>11, <1>12, <1>13, <1>14, <1>15

\* The commands that ask one thing of the driver.
LEMMA Asks ==
  /\ DOMAIN Fixed0 \ {"TRANSFER_CONFIGURE"} =
       {"HOST_STATUS", "DISCONNECT", "WRITE_ABORT", "DELAY", "SWJ_PINS", "SWJ_CLOCK", "SWD_CONFIGURE", "CONNECT"}
  /\ Fixed0["HOST_STATUS"][1] = "host_status"
  /\ Fixed0["DISCONNECT"][1] = "disconnect"
  /\ Fixed0["WRITE_ABORT"][1] = "transfer"
  /\ Fixed0["DELAY"][1] = "delay"
  /\ Fixed0["SWJ_PINS"][1] = "swj_pins"
  /\ Fixed0["SWJ_CLOCK"][1] = "set_clock"
  /\ Fixed0["SWD_CONFIGURE"][1] = "turnaround"
  /\ Fixed0["CONNECT"][1] = "connect"
BY DEF Fixed0

LEMMA NeverEmpty ==
  \A c \in DOMAIN Fixed0 \ {"TRANSFER_CONFIGURE"} :
    Len(Fixed0[c]) = 1 /\ Fixed0[c][1] # "" /\ [e |-> Fixed0[c][1], in |-> FALSE, n |-> 0] \in Kind
<1>1. \A c \in DOMAIN Fixed0 \ {"TRANSFER_CONFIGURE"} : Fixed0[c][1] # ""
  BY Asks, Zenon
<1>2. \A c \in DOMAIN Fixed0 \ {"TRANSFER_CONFIGURE"} : Len(Fixed0[c]) = 1
  BY DEF Fixed0
<1>3. \A c \in DOMAIN Fixed0 \ {"TRANSFER_CONFIGURE"} :
        [e |-> Fixed0[c][1], in |-> FALSE, n |-> 0] \in Kind
  BY DEF Fixed0, Kind
<1> QED BY <1>1, <1>2, <1>3

\* What the host means by a fixed command.
LEMMA MeantFixed ==
  ASSUME NEW d \in Descs, d.c \in DOMAIN Script
  PROVE  Meant(d) = IF d.c \in DOMAIN Fixed0 /\ ~(d.c = "CONNECT" /\ d.arg > 1)
                    THEN [k \in 1..Len(Fixed0[d.c]) |-> [e |-> Fixed0[d.c][k], in |-> FALSE, n |-> 0]]
                    ELSE <<>>
<1>1. d.c \notin {"SWD_SEQUENCE", "SWJ_SEQUENCE", "TRANSFER"} /\ d.c # "TRANSFER_BLOCK"
  BY DEF Script
<1>2. CASE d.c \in DOMAIN Fixed0 /\ ~(d.c = "CONNECT" /\ d.arg > 1)
  BY <1>1, <1>2 DEF Meant
<1>3. CASE ~(d.c \in DOMAIN Fixed0 /\ ~(d.c = "CONNECT" /\ d.arg > 1))
  BY <1>1, <1>3 DEF Meant
<1> QED BY <1>2, <1>3

-----------------------------------------------------------------------------
(* Beginnings of a sequence.                                                *)

LEMMA PrefixBy ==
  ASSUME NEW T, NEW s \in Seq(T), NEW t \in Seq(T), Len(s) <= Len(t), \A j \in 1..Len(s) : s[j] = t[j]
  PROVE  IsPrefix(s, t)
BY DEF IsPrefix

LEMMA Beginning ==
  ASSUME NEW T, NEW s \in Seq(T), NEW l \in 0..Len(s), NEW b, b = [j \in 1..l |-> s[j]]
  PROVE  b \in Seq(T) /\ Len(b) = l /\ IsPrefix(b, s) /\ (l = 0 => b = <<>>) /\ (l = Len(s) => b = s)
<1>1. b \in Seq(T) /\ Len(b) = l
  OBVIOUS
<1>2. Len(b) <= Len(s) /\ \A j \in 1..Len(b) : b[j] = s[j]
  BY <1>1
<1>3. IsPrefix(b, s)
  BY <1>1, <1>2, PrefixBy, Zenon
<1> QED BY <1>1, <1>3

LEMMA Lengthened ==
  ASSUME NEW T, NEW s \in Seq(T), NEW l \in Nat, l < Len(s)
  PROVE  [j \in 1..(l + 1) |-> s[j]] = [j \in 1..l |-> s[j]] \o <<s[l + 1]>>
OBVIOUS

LEMMA ScriptAppended ==
  ASSUME NEW T, NEW s \in Seq(T), NEW x \in T
  PROVE  /\ s \o <<x>> \in Seq(T) /\ Len(s \o <<x>>) = Len(s) + 1
         /\ \A j \in 1..Len(s) : (s \o <<x>>)[j] = s[j]
         /\ (s \o <<x>>)[Len(s) + 1] = x
OBVIOUS

LEMMA SamePrefix ==
  ASSUME NEW T, NEW s \in Seq(T)
  PROVE  IsPrefix(s, s) /\ IsPrefix(<<>>, s) /\ s \o <<>> = s
<1>1. <<>> \in Seq(T) /\ Len(<<>>) <= Len(s) /\ \A j \in 1..Len(<<>>) : <<>>[j] = s[j]
  OBVIOUS
<1>2. s \in Seq(T) /\ Len(s) <= Len(s) /\ s \o <<>> = s
  OBVIOUS
<1>3. IsPrefix(<<>>, s)
  BY <1>1, PrefixBy, Zenon
<1>4. IsPrefix(s, s)
  BY <1>2, PrefixBy, Zenon
<1> QED BY <1>2, <1>3, <1>4

-----------------------------------------------------------------------------
(* The fixed commands: what each step reads, and asks for.                  *)

LEMMA ReadBy ==
  ASSUME NEW c, NEW k \in 0..3, Len(Script[c]) = k, NEW l \in 0..(k - 1),
         \A j \in 1..k : Script[c][j].n \in Nat
  PROVE  /\ ReadUpTo(c, l) \in Nat /\ Script[c][l + 1].n \in Nat
         /\ ReadUpTo(c, l + 1) = ReadUpTo(c, l) + Script[c][l + 1].n
         /\ ReadUpTo(c, l + 1) <= ReadUpTo(c, k)
<1>1. PICK x, y, z : x = Script[c][1].n /\ y = Script[c][2].n /\ z = Script[c][3].n
  OBVIOUS
<1>2. (k >= 1 => x \in Nat) /\ (k >= 2 => y \in Nat) /\ (k >= 3 => z \in Nat)
  BY <1>1
<1>3. \A m \in Nat : ReadUpTo(c, m) = 1 + (IF m >= 1 THEN x ELSE 0) + (IF m >= 2 THEN y ELSE 0) + (IF m >= 3 THEN z ELSE 0)
  BY <1>1 DEF ReadUpTo
<1>4. CASE l = 0
  BY <1>1, <1>2, <1>3, <1>4
<1>5. CASE l = 1
  BY <1>1, <1>2, <1>3, <1>5
<1>6. CASE l = 2
  BY <1>1, <1>2, <1>3, <1>6
<1> QED BY <1>4, <1>5, <1>6

LEMMA ConfigureIs ==
  /\ Script["TRANSFER_CONFIGURE"][1].n = 1 /\ Script["TRANSFER_CONFIGURE"][2].n = 2
  /\ Script["TRANSFER_CONFIGURE"][3].n = 2 /\ Len(Script["TRANSFER_CONFIGURE"]) = 3
  /\ Script["TRANSFER_CONFIGURE"][1].e = "idle_cycles" /\ Script["TRANSFER_CONFIGURE"][2].e = "wait_retries"
  /\ Script["TRANSFER_CONFIGURE"][3].e = "match_retries"
  /\ FixedLen["TRANSFER_CONFIGURE"] = 6
<1>1. Script["TRANSFER_CONFIGURE"]
        = <<[n |-> 1, e |-> "idle_cycles"], [n |-> 2, e |-> "wait_retries"], [n |-> 2, e |-> "match_retries"]>>
  BY ScriptIs
<1>2. FixedLen["TRANSFER_CONFIGURE"] = 6
  BY DEF FixedLen
<1> QED BY <1>1, <1>2

LEMMA ReadOf ==
  ASSUME NEW c \in DOMAIN Script
  PROVE  /\ c \in DOMAIN FixedLen /\ Len(Script[c]) \in 0..3 /\ ReadUpTo(c, 0) = 1
         /\ \A l \in 0..(Len(Script[c]) - 1) :
              /\ ReadUpTo(c, l) \in Nat /\ Script[c][l + 1].n \in Nat
              /\ ReadUpTo(c, l + 1) = ReadUpTo(c, l) + Script[c][l + 1].n
              /\ ReadUpTo(c, l + 1) <= FixedLen[c]
<1>1. c \in DOMAIN FixedLen
  BY DEF Script, FixedLen
<1>2. FixedLen[c] \in 1..7
  BY <1>1, NamesAre
<1>3. ReadUpTo(c, 0) = 1
  BY DEF ReadUpTo
<1>4. \E k \in 0..3 : Len(Script[c]) = k /\ (\A j \in 1..k : Script[c][j].n \in Nat) /\ (k > 0 => ReadUpTo(c, k) = FixedLen[c])
  <2>1. CASE c = "TRANSFER_CONFIGURE"
    <3>1. ReadUpTo(c, 3) = 6
      BY <2>1, ConfigureIs DEF ReadUpTo
    <3> QED BY <2>1, <3>1, ConfigureIs
  <2>2. CASE c # "TRANSFER_CONFIGURE"
    <3>a. PICK k \in 0..3 : \E r : Steps(c, k, r)
      BY <2>2, StepsOf
    <3>1. PICK r : Steps(c, k, r)
      BY <3>a
    <3>2. Len(Script[c]) = k /\ r.n \in Nat /\ (k > 0 => k + r.n = FixedLen[c])
          /\ \A j \in 1..k : Script[c][j].n = IF j = k THEN r.n ELSE 1
      <4>1. Len(Script[c]) = k /\ r.n \in Nat /\ (k > 0 => k + r.n = FixedLen[c])
        BY <3>1, Zenon DEF Steps
      <4>2. \A j \in 1..k : Script[c][j].n = IF j = k THEN r.n ELSE Get(1).n
        BY <3>1, Zenon DEF Steps
      <4>3. Get(1).n = 1
        BY DEF Get
      <4> QED BY <4>1, <4>2, <4>3
    <3>3. k > 0 => ReadUpTo(c, k) = k + r.n
      BY <3>2 DEF ReadUpTo
    <3> QED BY <3>2, <3>3
  <2> QED BY <2>1, <2>2
<1>5. PICK k \in 0..3 : Len(Script[c]) = k /\ (\A j \in 1..k : Script[c][j].n \in Nat) /\ (k > 0 => ReadUpTo(c, k) = FixedLen[c])
  BY <1>4
<1>6. \A l \in 0..(k - 1) :
              /\ ReadUpTo(c, l) \in Nat /\ Script[c][l + 1].n \in Nat
              /\ ReadUpTo(c, l + 1) = ReadUpTo(c, l) + Script[c][l + 1].n
              /\ ReadUpTo(c, l + 1) <= FixedLen[c]
  <2> SUFFICES ASSUME NEW l \in 0..(k - 1)
               PROVE  /\ ReadUpTo(c, l) \in Nat /\ Script[c][l + 1].n \in Nat
                      /\ ReadUpTo(c, l + 1) = ReadUpTo(c, l) + Script[c][l + 1].n
                      /\ ReadUpTo(c, l + 1) <= FixedLen[c]
    OBVIOUS
  <2>1. /\ ReadUpTo(c, l) \in Nat /\ Script[c][l + 1].n \in Nat
        /\ ReadUpTo(c, l + 1) = ReadUpTo(c, l) + Script[c][l + 1].n
        /\ ReadUpTo(c, l + 1) <= ReadUpTo(c, k)
    BY <1>5, ReadBy
  <2>2. k > 0
    OBVIOUS
  <2> QED BY <1>5, <2>1, <2>2
<1> QED BY <1>1, <1>3, <1>5, <1>6

\* The step asks nothing.
Silent(d, r) == r.e = "" \/ (d.c = "CONNECT" /\ d.arg > 1)

LEMMA MeantOnce ==
  ASSUME NEW d \in Descs, d.c \in DOMAIN Script, d.c # "TRANSFER_CONFIGURE",
         NEW k \in 0..3, NEW r, Steps(d.c, k, r), d.c \in DOMAIN Fixed0 => k > 0
  PROVE  /\ Meant(d) = IF k = 0 \/ Silent(d, r) THEN <<>> ELSE Effect(r.e, FALSE, 0)
         /\ Meant(d) \in Seq(Kind)
<1>1. CASE d.c \in DOMAIN Fixed0 /\ ~(d.c = "CONNECT" /\ d.arg > 1)
  <2>1. r.e = Fixed0[d.c][1]
    BY <1>1, Zenon DEF Steps
  <2>2. Len(Fixed0[d.c]) = 1 /\ [e |-> Fixed0[d.c][1], in |-> FALSE, n |-> 0] \in Kind
    <3>1. PICK c \in DOMAIN Fixed0 \ {"TRANSFER_CONFIGURE"} : c = d.c
      BY <1>1
    <3> QED BY <3>1, NeverEmpty, Zenon
  <2>3. r.e # ""
    <3>1. PICK c \in DOMAIN Fixed0 \ {"TRANSFER_CONFIGURE"} : c = d.c
      BY <1>1
    <3> QED BY <2>1, <3>1, NeverEmpty, Zenon
  <2>4. Meant(d) = [j \in 1..Len(Fixed0[d.c]) |-> [e |-> Fixed0[d.c][j], in |-> FALSE, n |-> 0]]
    BY <1>1, MeantFixed, Zenon
  <2>5. Meant(d) = <<[e |-> Fixed0[d.c][1], in |-> FALSE, n |-> 0]>>
    <3>1. PICK g : g = [e |-> Fixed0[d.c][1], in |-> FALSE, n |-> 0]
      OBVIOUS
    <3>2. Meant(d) = [j \in 1..1 |-> g]
      <4>1. \A j \in 1..1 : j = 1
        OBVIOUS
      <4> QED BY <2>2, <2>4, <3>1, <4>1, Zenon
    <3>3. [j \in 1..1 |-> g] = <<g>>
      OBVIOUS
    <3> QED BY <3>1, <3>2, <3>3
  <2>6. Meant(d) = Effect(r.e, FALSE, 0) /\ Meant(d) \in Seq(Kind)
    BY <2>1, <2>2, <2>5 DEF Effect
  <2>7. k # 0
    BY <1>1
  <2> QED BY <1>1, <2>3, <2>6, <2>7, Zenon DEF Silent
<1>2. CASE ~(d.c \in DOMAIN Fixed0 /\ ~(d.c = "CONNECT" /\ d.arg > 1))
  <2>1. Meant(d) = <<>>
    BY <1>2, MeantFixed, Zenon
  <2>2. Silent(d, r)
    BY <1>2, Zenon DEF Silent, Steps
  <2>3. <<>> \in Seq(Kind)
    OBVIOUS
  <2> QED BY <2>1, <2>2, <2>3, Zenon
<1> QED BY <1>1, <1>2

LEMMA MeantConfigure ==
  ASSUME NEW d \in Descs, d.c = "TRANSFER_CONFIGURE"
  PROVE  /\ Meant(d) \in Seq(Kind) /\ Len(Meant(d)) = 3
         /\ \A j \in 1..3 : Meant(d)[j] = [e |-> Script[d.c][j].e, in |-> FALSE, n |-> 0]
<1>1. PICK f : f = Fixed0["TRANSFER_CONFIGURE"]
  OBVIOUS
<1>2. Len(f) = 3 /\ f[1] = "idle_cycles" /\ f[2] = "wait_retries" /\ f[3] = "match_retries"
  BY <1>1 DEF Fixed0
<1>3. Meant(d) = [j \in 1..3 |-> [e |-> f[j], in |-> FALSE, n |-> 0]]
  <2>1. d.c \in DOMAIN Fixed0 /\ d.c # "CONNECT"
    BY DEF Fixed0
  <2>2. d.c \in DOMAIN Script
    BY ScriptIs
  <2> QED BY <1>1, <1>2, <2>1, <2>2, MeantFixed, Zenon
<1>4. \A j \in 1..3 : f[j] = Script[d.c][j].e
  BY <1>2, ConfigureIs
<1>5. \A j \in 1..3 : [e |-> f[j], in |-> FALSE, n |-> 0] \in Kind
  BY <1>2 DEF Kind
<1>6. PICK m : m = [j \in 1..3 |-> [e |-> f[j], in |-> FALSE, n |-> 0]]
  OBVIOUS
<1>7. m \in [1..3 -> Kind]
  BY <1>5, <1>6
<1>8. m \in Seq(Kind) /\ Len(m) = 3
  BY <1>6, <1>7
<1> QED BY <1>3, <1>4, <1>6, <1>8

LEMMA AskedOf ==
  ASSUME NEW d \in Descs, d.c \in DOMAIN Script
  PROVE  /\ Meant(d) \in Seq(Kind) /\ AskedUpTo(d, 0) = <<>> /\ AskedUpTo(d, Len(Script[d.c])) = Meant(d)
         /\ \A l \in 0..Len(Script[d.c]) : AskedUpTo(d, l) \in Seq(Kind) /\ IsPrefix(AskedUpTo(d, l), Meant(d))
         /\ \A l \in 0..(Len(Script[d.c]) - 1) :
              AskedUpTo(d, l + 1) = AskedUpTo(d, l) \o (IF Silent(d, Script[d.c][l + 1]) THEN <<>>
                                                        ELSE Effect(Script[d.c][l + 1].e, FALSE, 0))
<1>1. CASE d.c = "TRANSFER_CONFIGURE"
  <2>1. Len(Script[d.c]) = 3
    BY <1>1, ConfigureIs
  <2>2. PICK m : m = Meant(d)
    OBVIOUS
  <2>3. m \in Seq(Kind) /\ Len(m) = 3 /\ \A j \in 1..3 : m[j] = [e |-> Script[d.c][j].e, in |-> FALSE, n |-> 0]
    BY <1>1, <2>2, MeantConfigure
  <2>4. \A l : AskedUpTo(d, l) = [j \in 1..l |-> m[j]]
    BY <1>1, <2>2, Zenon DEF AskedUpTo
  <2>5. \A l \in 0..3 : AskedUpTo(d, l) \in Seq(Kind) /\ IsPrefix(AskedUpTo(d, l), m)
                        /\ (l = 0 => AskedUpTo(d, l) = <<>>) /\ (l = 3 => AskedUpTo(d, l) = m)
    <3>1. ASSUME NEW s \in Seq(Kind), Len(s) = 3, NEW l \in 0..3, NEW b, b = [j \in 1..l |-> s[j]]
          PROVE  b \in Seq(Kind) /\ IsPrefix(b, s) /\ (l = 0 => b = <<>>) /\ (l = 3 => b = s)
      <4>1. l \in 0..Len(s)
        BY <3>1
      <4> QED BY <3>1, <4>1, Beginning
    <3> QED BY <2>3, <2>4, <3>1, Zenon
  <2>6. ASSUME NEW l \in 0..2
        PROVE  AskedUpTo(d, l + 1) = AskedUpTo(d, l) \o (IF Silent(d, Script[d.c][l + 1]) THEN <<>>
                                                         ELSE Effect(Script[d.c][l + 1].e, FALSE, 0))
    <3>1. l \in Nat /\ l < Len(m) /\ l + 1 \in {1, 2, 3}
      BY <2>3
    <3>2. AskedUpTo(d, l + 1) = AskedUpTo(d, l) \o <<m[l + 1]>>
      <4>1. [j \in 1..(l + 1) |-> m[j]] = [j \in 1..l |-> m[j]] \o <<m[l + 1]>>
        BY <2>3, <3>1, Lengthened, Zenon
      <4> QED BY <2>4, <4>1, Zenon
    <3>3. m[l + 1] = [e |-> Script[d.c][l + 1].e, in |-> FALSE, n |-> 0]
      <4>1. l + 1 \in 1..3
        OBVIOUS
      <4> QED BY <2>3, <4>1, Zenon
    <3>4. ~Silent(d, Script[d.c][l + 1])
      <4>1. d.c # "CONNECT"
        BY <1>1, Zenon
      <4>2. Script[d.c][1].e # "" /\ Script[d.c][2].e # "" /\ Script[d.c][3].e # ""
        <5>1. Script[d.c][1].e = "idle_cycles" /\ Script[d.c][2].e = "wait_retries" /\ Script[d.c][3].e = "match_retries"
          BY <1>1, ConfigureIs
        <5> QED BY <5>1, Zenon
      <4>3. Script[d.c][l + 1].e # ""
        BY <3>1, <4>2, Zenon
      <4> QED BY <4>1, <4>3, Zenon DEF Silent
    <3> QED BY <3>2, <3>3, <3>4, Zenon DEF Effect
  <2>7. \A l \in 0..(3 - 1) : l \in 0..2
    OBVIOUS
  <2>8. 0 \in 0..3 /\ 3 \in 0..3
    OBVIOUS
  <2> QED BY <2>1, <2>2, <2>3, <2>5, <2>6, <2>7, <2>8, Zenon
<1>2. CASE d.c # "TRANSFER_CONFIGURE"
  <2>a. PICK k \in 0..3 : \E r : Steps(d.c, k, r) /\ (d.c \in DOMAIN Fixed0 => k > 0)
    BY <1>2, StepsOf
  <2>1. PICK r : Steps(d.c, k, r) /\ (d.c \in DOMAIN Fixed0 => k > 0)
    BY <2>a
  <2>2. Len(Script[d.c]) = k /\ \A j \in 1..k : Script[d.c][j] = IF j = k THEN r ELSE Get(1)
    BY <2>1, Zenon DEF Steps
  <2>3. /\ Meant(d) = IF k = 0 \/ Silent(d, r) THEN <<>> ELSE Effect(r.e, FALSE, 0)
        /\ Meant(d) \in Seq(Kind)
    BY <1>2, <2>1, MeantOnce
  <2>4. PICK m : m = Meant(d)
    OBVIOUS
  <2>5. \A l : AskedUpTo(d, l) = IF l = k THEN m ELSE <<>>
    BY <1>2, <2>2, <2>4, Zenon DEF AskedUpTo
  <2>6. m \in Seq(Kind) /\ IsPrefix(m, m) /\ IsPrefix(<<>>, m) /\ <<>> \in Seq(Kind) /\ <<>> \o m = m /\ <<>> \o <<>> = <<>>
    <3>1. m \in Seq(Kind) /\ <<>> \in Seq(Kind) /\ <<>> \o m = m /\ <<>> \o <<>> = <<>>
      <4>1. m \in Seq(Kind)
        BY <2>3, <2>4, Zenon
      <4>2. ASSUME NEW s \in Seq(Kind) PROVE <<>> \in Seq(Kind) /\ <<>> \o s = s
        OBVIOUS
      <4> QED BY <4>1, <4>2, Zenon
    <3> QED BY <3>1, SamePrefix
  <2>7. AskedUpTo(d, 0) = <<>> /\ AskedUpTo(d, k) = m
    BY <2>3, <2>4, <2>5, Zenon
  <2>8. \A l : AskedUpTo(d, l) \in Seq(Kind) /\ IsPrefix(AskedUpTo(d, l), m)
    BY <2>5, <2>6, Zenon
  <2>9. ASSUME NEW l \in 0..(k - 1)
        PROVE  AskedUpTo(d, l + 1) = AskedUpTo(d, l) \o (IF Silent(d, Script[d.c][l + 1]) THEN <<>>
                                                         ELSE Effect(Script[d.c][l + 1].e, FALSE, 0))
    <3>1. l # k /\ k # 0 /\ l + 1 \in 1..k
      OBVIOUS
    <3>2. AskedUpTo(d, l) = <<>>
      BY <2>5, <3>1, Zenon
    <3>3. CASE l + 1 = k
      <4>1. Script[d.c][l + 1] = r
        BY <2>2, <3>1, <3>3, Zenon
      <4>2. AskedUpTo(d, l + 1) = IF Silent(d, r) THEN <<>> ELSE Effect(r.e, FALSE, 0)
        BY <2>3, <2>4, <2>5, <3>1, <3>3, Zenon
      <4>3. AskedUpTo(d, l + 1) = <<>> \o AskedUpTo(d, l + 1)
        BY <2>5, <2>6, <3>3, Zenon
      <4> QED BY <3>2, <4>1, <4>2, <4>3, Zenon
    <3>4. CASE l + 1 # k
      <4>1. Script[d.c][l + 1] = Get(1)
        BY <2>2, <3>1, <3>4, Zenon
      <4>2. Get(1).e = ""
        BY DEF Get
      <4>3. Silent(d, Script[d.c][l + 1])
        BY <4>1, <4>2, Zenon DEF Silent
      <4>4. AskedUpTo(d, l + 1) = <<>>
        BY <2>5, <3>4, Zenon
      <4> QED BY <2>6, <3>2, <4>3, <4>4, Zenon
    <3> QED BY <3>3, <3>4
  <2> QED BY <2>2, <2>3, <2>4, <2>7, <2>8, <2>9, Zenon
<1> QED BY <1>1, <1>2

LEMMA MeantBlock ==
  ASSUME NEW d \in Descs, d.c = "TRANSFER_BLOCK"
  PROVE  /\ Meant(d) = IF Len(d.items) = 0 THEN <<>> ELSE Effect("block", Flag(d.arg, 2), Len(d.items))
         /\ Meant(d) \in Seq(Kind)
<1>1. PICK n : n = Len(d.items)
  OBVIOUS
<1>2. n \in Nat
  BY <1>1, DescOf
<1>3. Meant(d) = IF n = 0 THEN <<>> ELSE Effect("block", d.items[1].in, n)
  <2>1. d.c \notin {"SWD_SEQUENCE", "SWJ_SEQUENCE", "TRANSFER"} /\ d.c \notin DOMAIN Fixed0
    BY DEF Fixed0
  <2> QED BY <1>1, <2>1 DEF Meant
<1>4. CASE n = 0
  <2>1. <<>> \in Seq(Kind)
    OBVIOUS
  <2> QED BY <1>1, <1>3, <1>4, <2>1, Zenon
<1>5. CASE n # 0
  <2>1. 1 \in 1..n
    BY <1>2, <1>5
  <2>2. d.items[1].in = Flag(d.arg, 2)
    BY <1>1, <2>1, Fitting
  <2>3. d.items[1] \in Shape
    BY <1>1, <2>1, DescOf
  <2>4. d.items[1].in \in BOOLEAN
    BY <2>3 DEF Shape
  <2>5. [e |-> "block", in |-> d.items[1].in, n |-> n] \in Kind
    BY <1>2, <2>4 DEF Kind
  <2>6. Effect("block", d.items[1].in, n) \in Seq(Kind)
    BY <2>5 DEF Effect
  <2> QED BY <1>1, <1>3, <1>5, <2>2, <2>6, Zenon
<1> QED BY <1>4, <1>5

LEMMA MeantTyped == ASSUME NEW d \in Descs PROVE Meant(d) \in Seq(Kind)
<1>1. CASE d.c \in {"SWD_SEQUENCE", "SWJ_SEQUENCE"}
  BY <1>1, MeantOf
<1>2. CASE d.c = "TRANSFER"
  BY <1>2, MeantOf
<1>3. CASE d.c = "TRANSFER_BLOCK"
  BY <1>3, MeantBlock
<1>4. CASE d.c \in DOMAIN Script
  BY <1>4, AskedOf
<1>5. CASE /\ d.c \notin {"SWD_SEQUENCE", "SWJ_SEQUENCE", "TRANSFER"} /\ d.c # "TRANSFER_BLOCK"
           /\ d.c \notin DOMAIN Script
  <2>1. d.c \notin DOMAIN Fixed0
    BY <1>5, ScriptIs DEF Fixed0
  <2>2. Meant(d) = <<>>
    BY <1>5, <2>1 DEF Meant
  <2> QED BY <2>2
<1> QED BY <1>1, <1>2, <1>3, <1>4, <1>5

-----------------------------------------------------------------------------
(* States of the command under way.                                         *)

LEMMA WholeOf ==
  ASSUME desc \in Descs, Agrees(buf, Encode(desc)), Len(buf) <= Len(Encode(desc)),
         buf # <<>>, RequestLen(buf) = Len(buf)
  PROVE  desc.c # "OTHER" /\ Len(buf) = Len(Encode(desc))
<1>1. buf \in Seq(Token) /\ Len(buf) \in Nat /\ Len(buf) >= 1 /\ buf[1] = desc.c
  BY AgreesOf
<1>2. desc.c # "OTHER"
  <2> SUFFICES ASSUME desc.c = "OTHER" PROVE FALSE
    OBVIOUS
  <2>1. RequestLen(buf) = -1
    BY <1>1, LengthBy
  <2> QED BY <1>1, <2>1
<1>3. RequestLen(buf) = IF Len(buf) >= Len(Encode(desc)) THEN Len(Encode(desc)) ELSE 0
  BY <1>2, ParserOf
<1> QED BY <1>1, <1>2, <1>3, BytesOf

LEMMA SoFar == ASSUME ParseInv, phase # "done" PROVE EffectsAsMeant
<1>1. status # "ok"
  BY Zenon DEF ParseInv, Running
<1>2. IsPrefix(effects, Meant(desc))
  <2>1. CASE phase = "idle"
    <3>1. effects = <<>>
      BY <2>1, Zenon DEF ParseInv, Fresh
    <3>2. Meant(desc) = <<>>
      <4>1. desc.c = ""
        <5>1. desc = NoDesc
          BY <2>1, Zenon DEF ParseInv, Received
        <5>2. NoDesc.c = ""
          BY DEF NoDesc
        <5> QED BY <5>1, <5>2, Zenon
      <4>2. desc.c # "SWD_SEQUENCE" /\ desc.c # "SWJ_SEQUENCE" /\ desc.c # "TRANSFER" /\ desc.c # "TRANSFER_BLOCK"
        BY <4>1, Zenon
      <4>3. desc.c \notin DOMAIN Fixed0
        BY <4>1, Asks, Zenon
      <4> QED BY <4>2, <4>3 DEF Meant
    <3>3. <<>> \in Seq(Kind)
      OBVIOUS
    <3> QED BY <3>1, <3>2, <3>3, SamePrefix, Zenon
  <2>2. CASE phase # "idle"
    <3>1. desc \in Descs
      BY <2>2, Zenon DEF ParseInv, Received
    <3>2. Meant(desc) \in Seq(Kind) /\ effects \in Seq(Kind)
      BY <3>1, MeantTyped, Zenon DEF ParseInv, ParseTyped
    <3>3. CASE effects = <<>>
      BY <3>2, <3>3, SamePrefix, Zenon
    <3>4. CASE phase = "head" /\ effects # <<>>
      <4>1. desc.c \in DOMAIN Script /\ left <= Len(Script[desc.c]) /\ effects = AskedUpTo(desc, left)
        BY <3>4, Zenon DEF ParseInv, AtHead
      <4>2. left \in 0..Len(Script[desc.c])
        <5>1. left \in Nat
          BY Zenon DEF ParseInv, ParseTyped
        <5> QED BY <4>1, <5>1, ReadOf
      <4> QED BY <3>1, <4>1, <4>2, AskedOf, Zenon
    <3>5. CASE phase = "items"
      <4>1. PICK k : k = Len(desc.items) - left
        OBVIOUS
      <4>2. /\ desc.c \in {"SWD_SEQUENCE", "TRANSFER"} /\ left <= Len(desc.items)
            /\ Len(effects) = k /\ \A j \in 1..k : effects[j] = Meant(desc)[j]
        BY <3>5, <4>1, Zenon DEF ParseInv, AtItems
      <4>3. left \in Nat
        BY Zenon DEF ParseInv, ParseTyped
      <4>4. Len(desc.items) \in Nat /\ Len(Meant(desc)) = Len(desc.items)
        BY <3>1, <4>2, DescOf, MeantOf
      <4>5. Len(effects) <= Len(Meant(desc))
        BY <4>1, <4>2, <4>3, <4>4
      <4> QED BY <3>2, <4>2, <4>5, PrefixBy, Zenon
    <3>6. CASE phase = "receive"
      BY <3>3, <3>6, Zenon DEF ParseInv, Fresh
    <3>7. phase \in {"receive", "head", "items"}
      <4>1. phase \in {"idle", "receive", "head", "items", "done"}
        BY Zenon DEF ParseInv, ParseTyped
      <4> QED BY <2>2, <4>1
    <3> QED BY <3>3, <3>4, <3>5, <3>6, <3>7
  <2> QED BY <2>1, <2>2
<1> QED BY <1>1, <1>2, Zenon DEF EffectsAsMeant

\* A command that ends.
LEMMA Finishes ==
  ASSUME ParseInv, phase # "idle", phase' = "done", desc' = desc, buf' = buf,
         ParseTyped', CompleteIsEnough', EffectsAsMeant', ReplyAsMeant'
  PROVE  ParseInv'
<1>1. Received'
  BY DEF ParseInv, Received
<1>2. Running' /\ Fresh' /\ AtHead' /\ AtItems'
  BY DEF Running, Fresh, AtHead, AtItems
<1>3. Settled'
  BY DEF Settled
<1> QED BY <1>1, <1>2, <1>3 DEF ParseInv

LEMMA GivesUp ==
  ASSUME ParseInv, phase \in {"head", "items"}, buf # <<>>, desc' = desc, buf' = buf, Fail, effects' = effects,
         short' \in BOOLEAN, short' => RequestLen(buf) # Len(buf)
  PROVE  ParseInv'
<1>1. phase # "idle" /\ phase # "done"
  OBVIOUS
<1>2. EffectsAsMeant
  BY <1>1, SoFar
<1>3. phase' = "done" /\ status' = "error" /\ rlen' = 2 /\ at' = at /\ left' = left /\ failed' = failed
  BY DEF Fail
<1>4. ParseTyped'
  <2>1. at \in Nat /\ left \in Nat /\ effects \in Seq(Kind) /\ failed \in BOOLEAN
    BY Zenon DEF ParseInv, ParseTyped
  <2> QED BY <1>3, <2>1 DEF ParseTyped
<1>5. CompleteIsEnough'
  BY <1>3 DEF CompleteIsEnough
<1>6. EffectsAsMeant'
  BY <1>2, <1>3 DEF EffectsAsMeant
<1>7. ReplyAsMeant'
  BY <1>3, CommandsAssumption DEF ReplyAsMeant
<1> QED BY <1>1, <1>3, <1>4, <1>5, <1>6, <1>7, Finishes

\* What is known while a command is under way.
LEMMA UnderWay ==
  ASSUME ParseInv, phase # "idle"
  PROVE  /\ desc \in Descs /\ Agrees(buf, Encode(desc)) /\ Len(buf) <= Len(Encode(desc))
         /\ buf \in Seq(Token) /\ Len(buf) \in Nat
         /\ (buf # <<>> => Len(buf) >= 1 /\ buf[1] = desc.c)
         /\ (buf # <<>> /\ RequestLen(buf) = Len(buf) => desc.c # "OTHER" /\ Len(buf) = Len(Encode(desc)))
<1>1. desc \in Descs /\ Agrees(buf, Encode(desc)) /\ Len(buf) <= Len(Encode(desc))
  BY Zenon DEF ParseInv, Received
<1>2. buf \in Seq(Token) /\ Len(buf) \in Nat
  BY <1>1 DEF Agrees
<1>3. buf # <<>> => Len(buf) >= 1 /\ buf[1] = desc.c
  BY <1>1, AgreesOf
<1>4. buf # <<>> /\ RequestLen(buf) = Len(buf) => desc.c # "OTHER" /\ Len(buf) = Len(Encode(desc))
  BY <1>1, WholeOf, Zenon
<1> QED BY <1>1, <1>2, <1>3, <1>4

LEMMA TypesOf ==
  ASSUME ParseInv
  PROVE  /\ at \in Nat /\ left \in Nat /\ rlen \in Nat
         /\ effects \in Seq(Kind) /\ short \in BOOLEAN /\ failed \in BOOLEAN
         /\ phase # "done" => ~short /\ ~failed
BY Zenon DEF ParseInv, ParseTyped, Running

LEMMA InitParse == CommandsInit => ParseInv
<1> SUFFICES ASSUME CommandsInit PROVE ParseInv
  OBVIOUS
<1>1. phase = "idle" /\ at = 0 /\ left = 0 /\ effects = <<>> /\ rlen = 0 /\ short = FALSE /\ failed = FALSE
      /\ desc = NoDesc /\ buf = <<>>
  BY Zenon DEF CommandsInit
<1>2. status = ""
  BY Zenon DEF CommandsInit
<1>3. ParseTyped
  <2>1. <<>> \in Seq(Kind) /\ 0 \in Nat /\ FALSE \in BOOLEAN
    OBVIOUS
  <2>2. phase \in {"idle", "receive", "head", "items", "done"}
    BY <1>1, Zenon
  <2> QED BY <1>1, <2>1, <2>2, Zenon DEF ParseTyped
<1>4. Received
  BY <1>1 DEF Received
<1>5. Running
  BY <1>1, <1>2, Zenon DEF Running
<1>6. Fresh /\ AtHead /\ AtItems /\ Settled
  BY <1>1 DEF Fresh, AtHead, AtItems, Settled
<1> QED BY <1>3, <1>4, <1>5, <1>6 DEF ParseInv

LEMMA AnswerParse == ASSUME Answer PROVE ParseInv'
<1>1. phase' = "idle" /\ at' = 0 /\ left' = 0 /\ effects' = <<>> /\ rlen' = 0 /\ short' = FALSE /\ failed' = FALSE
      /\ desc' = NoDesc /\ buf' = <<>>
  BY Zenon DEF Answer
<1>2. status' = ""
  BY Zenon DEF Answer
<1>3. ParseTyped'
  <2>1. <<>> \in Seq(Kind) /\ 0 \in Nat /\ FALSE \in BOOLEAN
    OBVIOUS
  <2>2. phase' \in {"idle", "receive", "head", "items", "done"}
    BY <1>1, Zenon
  <2> QED BY <1>1, <2>1, <2>2, Zenon DEF ParseTyped
<1>4. Received'
  BY <1>1 DEF Received, NoDesc
<1>5. Running'
  BY <1>1, <1>2, Zenon DEF Running
<1>6. Fresh' /\ AtHead' /\ AtItems' /\ Settled'
  BY <1>1 DEF Fresh, AtHead, AtItems, Settled
<1> QED BY <1>3, <1>4, <1>5, <1>6 DEF ParseInv

LEMMA SendsParse == ASSUME ParseInv, NEW d \in Descs, HostSends(d) PROVE ParseInv'
<1>1. phase = "idle" /\ phase' = "receive" /\ desc' = d /\ UNCHANGED <<buf, at, left, effects, rlen, status, short, failed>>
  BY Zenon DEF HostSends
<1>2. buf = <<>> /\ at = 0 /\ left = 0 /\ rlen = 0 /\ effects = <<>>
  BY <1>1, Zenon DEF ParseInv, Received, Fresh
<1>3. ParseTyped'
  BY <1>1, <1>2, TypesOf DEF ParseTyped
<1>4. Received'
  <2>1. Len(Encode(d)) \in Nat
    BY BytesOf
  <2>2. Agrees(<<>>, Encode(d)) /\ Len(<<>>) <= Len(Encode(d))
    BY <2>1 DEF Agrees
  <2> QED BY <1>1, <1>2, <2>2 DEF Received
<1>5. Running'
  <2>1. status = "" /\ ~short /\ ~failed
    BY <1>1, Zenon DEF ParseInv, Running
  <2> QED BY <1>1, <2>1, Zenon DEF Running
<1>6. Fresh' /\ AtHead' /\ AtItems' /\ Settled'
  BY <1>1, <1>2 DEF Fresh, AtHead, AtItems, Settled
<1> QED BY <1>3, <1>4, <1>5, <1>6 DEF ParseInv

LEMMA ReceiveParse == ASSUME ParseInv, Receive PROVE ParseInv'
<1>1. PICK e, l, b : e = Encode(desc) /\ l = Len(Encode(desc)) /\ b = Len(buf)
  OBVIOUS
<1>2. phase = "receive" /\ UNCHANGED <<desc, phase, at, left, effects, rlen, status, short, failed>>
  BY Zenon DEF Receive
<1>3. /\ desc \in Descs /\ Agrees(buf, e) /\ b <= l /\ buf \in Seq(Token) /\ b \in Nat
      /\ (buf # <<>> => b >= 1 /\ buf[1] = desc.c)
  BY <1>1, <1>2, UnderWay
<1>4. l \in Nat /\ l >= 1 /\ e \in Seq(Token)
  BY <1>1, <1>3, BytesOf
<1>5. b < l
  <2>1. b < l \/ RequestLen(buf) = 0
    BY <1>1 DEF Receive, NeedMore
  <2>2. CASE buf = <<>>
    <3>1. b = 0
      BY <1>1, <2>2
    <3> QED BY <1>4, <3>1
  <2>3. CASE buf # <<>> /\ desc.c = "OTHER"
    <3>1. RequestLen(buf) = -1
      BY <1>3, <2>3, LengthBy
    <3> QED BY <2>1, <3>1
  <2>4. CASE desc.c # "OTHER"
    <3>1. RequestLen(buf) = IF b >= l THEN l ELSE 0
      BY <1>1, <1>3, <2>4, ParserOf
    <3> QED BY <1>3, <1>4, <2>1, <3>1
  <2> QED BY <2>2, <2>3, <2>4
<1>6. buf' = Append(buf, e[b + 1])
  BY <1>1, <1>5 DEF Receive
<1>7. e[b + 1] \in Token
  BY <1>1, <1>3, <1>4, <1>5
<1>8. buf' \in Seq(Token) /\ Len(buf') = b + 1 /\ \A k \in 1..(b + 1) : buf'[k] = IF k = b + 1 THEN e[b + 1] ELSE buf[k]
  BY <1>1, <1>3, <1>6, <1>7
<1>9. Agrees(buf', e) /\ Len(buf') <= l
  <2>1. \A k \in 1..Len(buf') : k <= Len(e) => buf'[k] = e[k]
    <3> SUFFICES ASSUME NEW k \in 1..(b + 1), k <= Len(e) PROVE buf'[k] = e[k]
      BY <1>8
    <3>1. k # b + 1 => k \in 1..Len(buf)
      BY <1>1, <1>3
    <3>2. k # b + 1 => buf[k] = e[k]
      BY <1>3, <3>1 DEF Agrees
    <3> QED BY <1>8, <3>2
  <2> QED BY <1>3, <1>4, <1>5, <1>8, <2>1 DEF Agrees
<1>10. Received'
  BY <1>1, <1>2, <1>3, <1>9 DEF Received
<1>11. ParseTyped' /\ Running' /\ Fresh'
  <2>1. ParseTyped /\ Running /\ Fresh
    BY Zenon DEF ParseInv
  <2> QED BY <1>2, <2>1, Zenon DEF ParseTyped, Running, Fresh
<1>12. AtHead' /\ AtItems' /\ Settled'
  BY <1>2 DEF AtHead, AtItems, Settled
<1> QED BY <1>10, <1>11, <1>12 DEF ParseInv

LEMMA BeginParse == ASSUME ParseInv, BeginCommand PROVE ParseInv'
<1>1. /\ phase = "receive" /\ phase' = "head" /\ at' = (IF buf = <<>> THEN 0 ELSE 1) /\ rlen' = at'
      /\ UNCHANGED <<desc, buf, left, effects, status, short, failed>>
  BY Zenon DEF BeginCommand
<1>2. at = 0 /\ left = 0 /\ rlen = 0 /\ effects = <<>>
  BY <1>1, Zenon DEF ParseInv, Fresh
<1>3. ParseTyped'
  BY <1>1, <1>2, TypesOf DEF ParseTyped
<1>4. Received' /\ Running'
  <2>1. Received /\ Running
    BY Zenon DEF ParseInv
  <2>2. phase # "idle" /\ phase # "done" /\ phase' # "idle" /\ phase' # "done"
    BY <1>1
  <2> QED BY <1>1, <2>1, <2>2, Zenon DEF Received, Running
<1>5. AtHead'
  <2>1. ASSUME desc.c \in DOMAIN Script, buf # <<>>
        PROVE  left <= Len(Script[desc.c]) /\ 1 = ReadUpTo(desc.c, left) /\ 1 <= Len(buf) /\ effects = AskedUpTo(desc, left)
    <3>1. desc \in Descs /\ Len(buf) >= 1
      BY <1>1, <2>1, UnderWay
    <3>2. Len(Script[desc.c]) \in 0..3 /\ ReadUpTo(desc.c, 0) = 1
      BY <2>1, ReadOf
    <3>3. AskedUpTo(desc, 0) = <<>>
      BY <2>1, <3>1, AskedOf
    <3> QED BY <1>2, <3>1, <3>2, <3>3
  <2> QED BY <1>1, <1>2, <2>1 DEF AtHead
<1>6. Fresh' /\ AtItems' /\ Settled'
  BY <1>1 DEF Fresh, AtItems, Settled
<1> QED BY <1>3, <1>4, <1>5, <1>6 DEF ParseInv

LEMMA ImmediateParse == ASSUME ParseInv, Immediate PROVE ParseInv'
<1>1. phase = "head" /\ phase' = "done" /\ UNCHANGED <<desc, buf, at, left, effects, short, failed>>
  BY Zenon DEF Immediate
<1>2. EffectsAsMeant
  BY <1>1, SoFar
<1>3. status' \in {"none", "invalid", "error"} /\ rlen' \in {0, 1, 2} /\ (status' = "error" => rlen' = 2)
  BY DEF Immediate
<1>4. ParseTyped'
  BY <1>1, <1>3, TypesOf DEF ParseTyped
<1>5. CompleteIsEnough'
  BY <1>1, <1>3, TypesOf DEF CompleteIsEnough
<1>6. EffectsAsMeant'
  BY <1>1, <1>2, <1>3 DEF EffectsAsMeant
<1>7. ReplyAsMeant'
  BY <1>1, <1>3, CommandsAssumption DEF ReplyAsMeant
<1> QED BY <1>1, <1>4, <1>5, <1>6, <1>7, Finishes

LEMMA BytesAre == \A k : Byte(k) = Bt(buf, k)
BY DEF Byte, Bt

LEMMA ReplyOf == ASSUME NEW c PROVE FixedReply(c) \in 0..14
<1>1. PICK b : b = Byte(2)
  OBVIOUS
<1>2. (CASE b = 4 -> 2 + 5 [] b \in {240, 254} -> 3 [] b = 253 -> 6 [] b = 255 -> 4 [] OTHER -> 2) \in 0..14
  OBVIOUS
<1> QED BY <1>1, <1>2 DEF FixedReply

LEMMA ConnectArg ==
  ASSUME ParseInv, phase # "idle", buf # <<>>, desc.c = "CONNECT", Len(buf) >= 2
  PROVE  Byte(2) = desc.arg
<1>1. desc \in Descs /\ Agrees(buf, Encode(desc))
  BY UnderWay
<1>2. FixedLen["CONNECT"] = 2 /\ "CONNECT" \in DOMAIN FixedLen
  BY DEF FixedLen
<1>3. Len(EncodeHead(desc)) = 1 /\ EncodeHead(desc)[1] = desc.arg
  <2>1. FixedLen[desc.c] = 2 /\ desc.c \in DOMAIN FixedLen
    BY <1>2, Zenon
  <2>2. PICK h : h = EncodeHead(desc)
    OBVIOUS
  <2>3. Len(h) = FixedLen[desc.c] - 1 /\ (Len(h) > 0 => h[1] = desc.arg)
    BY <1>1, <2>1, <2>2, HeadOf
  <2> QED BY <2>1, <2>2, <2>3
<1>4. 1 \in 1..Len(EncodeHead(desc)) /\ 1 + 1 <= Len(buf) /\ 1 + 1 = 2
  BY <1>3
<1>5. buf[2] = desc.arg /\ Bt(buf, 2) = buf[2]
  BY <1>1, <1>3, <1>4, AgreesOf
<1> QED BY <1>5, BytesAre

LEMMA SimpleParse == ASSUME ParseInv, Simple PROVE ParseInv'
<1>1. PICK c \in DOMAIN Script : 
        /\ Command(c)
        /\ LET step == Script[c][left + 1]
               rejected == left + 1 = Len(Script[c]) /\ Rejects(c)
           IN  \/ left = Len(Script[c]) /\ Finish(FixedReply(c)) /\ UNCHANGED <<at, left, effects, short, failed>>
               \/ left < Len(Script[c]) /\ ~Have(step.n) /\ Lacking
               \/ left < Len(Script[c]) /\ Have(step.n) /\ rejected /\ Refused
               \/ /\ left < Len(Script[c]) /\ Have(step.n) /\ ~rejected
                  /\ at' = at + step.n /\ left' = left + 1
                  /\ effects' = effects \o (IF step.e = "" \/ NoPort(c) THEN <<>> ELSE Effect(step.e, FALSE, 0))
                  /\ UNCHANGED <<phase, rlen, status, short, failed>>
  BY Zenon DEF Simple
<1>2. phase = "head" /\ buf # <<>> /\ buf[1] = c /\ desc' = desc /\ buf' = buf
  BY <1>1, Zenon DEF Command
<1>3. /\ desc \in Descs /\ desc.c = c /\ Len(buf) \in Nat /\ Len(buf) >= 1
      /\ (RequestLen(buf) = Len(buf) => Len(buf) = Len(Encode(desc)))
  BY <1>2, UnderWay
<1>4. left <= Len(Script[c]) /\ at = ReadUpTo(c, left) /\ at <= Len(buf) /\ effects = AskedUpTo(desc, left)
      /\ rlen = 1
  BY <1>2, <1>3, Zenon DEF ParseInv, AtHead
<1>5. /\ at \in Nat /\ left \in Nat /\ effects \in Seq(Kind) /\ ~short /\ ~failed
  BY <1>2, TypesOf
<1>6. /\ c \in DOMAIN FixedLen /\ Len(Script[c]) \in 0..3
      /\ left < Len(Script[c]) =>
           /\ Script[c][left + 1].n \in Nat
           /\ ReadUpTo(c, left + 1) = ReadUpTo(c, left) + Script[c][left + 1].n
           /\ ReadUpTo(c, left + 1) <= FixedLen[c] /\ ReadUpTo(c, left + 1) \in Nat
  <2>1. /\ c \in DOMAIN FixedLen /\ Len(Script[c]) \in 0..3
        /\ \A l \in 0..(Len(Script[c]) - 1) :
              /\ ReadUpTo(c, l) \in Nat /\ Script[c][l + 1].n \in Nat
              /\ ReadUpTo(c, l + 1) = ReadUpTo(c, l) + Script[c][l + 1].n
              /\ ReadUpTo(c, l + 1) <= FixedLen[c]
    BY ReadOf
  <2>2. left < Len(Script[c]) => left \in 0..(Len(Script[c]) - 1)
    BY <1>5, <2>1
  <2> QED BY <2>1, <2>2
<1>7. PICK step : step = Script[c][left + 1]
  OBVIOUS
<1>8. left < Len(Script[c]) /\ RequestLen(buf) = Len(buf) => Have(step.n)
  <2> SUFFICES ASSUME left < Len(Script[c]), RequestLen(buf) = Len(buf) PROVE Have(step.n)
    OBVIOUS
  <2>1. Len(buf) = FixedLen[c]
    BY <1>3, <1>6, LengthOf
  <2>2. ReadUpTo(c, left + 1) = at + step.n /\ ReadUpTo(c, left + 1) <= FixedLen[c]
    BY <1>4, <1>6, <1>7
  <2> QED BY <2>1, <2>2 DEF Have
<1>9. CASE left = Len(Script[c]) /\ Finish(FixedReply(c)) /\ UNCHANGED <<at, left, effects, short, failed>>
  <2>1. phase' = "done" /\ status' = "ok" /\ rlen' = FixedReply(c)
    BY <1>9 DEF Finish
  <2>2. rlen' \in 0..14
    BY <2>1, ReplyOf
  <2>3. ParseTyped'
    <3>1. at' = at /\ left' = left /\ effects' = effects /\ short' = short /\ failed' = failed
      BY <1>9, Zenon
    <3>2. rlen' \in Nat /\ phase' \in {"idle", "receive", "head", "items", "done"}
      BY <2>1, <2>2
    <3> QED BY <1>5, <3>1, <3>2, TypesOf, Zenon DEF ParseTyped
  <2>4. c \notin Variable
    BY ScriptIs DEF Variable
  <2>5. CompleteIsEnough'
    BY <1>2, <1>3, <1>5, <1>9, <2>4 DEF CompleteIsEnough
  <2>6. EffectsAsMeant'
    <3>1. effects = Meant(desc) /\ Meant(desc) \in Seq(Kind)
      BY <1>3, <1>4, <1>9, AskedOf
    <3>2. IsPrefix(effects, Meant(desc))
      BY <3>1, SamePrefix, Zenon
    <3> QED BY <1>2, <1>9, <3>1, <3>2 DEF EffectsAsMeant
  <2>7. ReplyAsMeant'
    BY <1>2, <1>3, <2>1, <2>2, <2>4, CommandsAssumption DEF ReplyAsMeant
  <2> QED BY <1>2, <2>1, <2>3, <2>5, <2>6, <2>7, Finishes
<1>10. CASE left < Len(Script[c]) /\ ~Have(step.n) /\ Lacking
  <2>1. short' \in BOOLEAN /\ Fail /\ effects' = effects
    BY <1>10 DEF Lacking
  <2>2. RequestLen(buf) # Len(buf)
    BY <1>8, <1>10
  <2> QED BY <1>2, <2>1, <2>2, GivesUp
<1>11. CASE Refused
  <2>1. short' = FALSE /\ Fail /\ effects' = effects
    BY <1>5, <1>11 DEF Refused
  <2> QED BY <1>2, <2>1, GivesUp
<1>12. CASE /\ left < Len(Script[c]) /\ Have(step.n)
            /\ at' = at + step.n /\ left' = left + 1
            /\ effects' = effects \o (IF step.e = "" \/ NoPort(c) THEN <<>> ELSE Effect(step.e, FALSE, 0))
            /\ UNCHANGED <<phase, rlen, status, short, failed>>
  <2>11. left < Len(Script[c]) /\ Have(step.n) /\ at' = at + step.n /\ left' = left + 1
    BY <1>12, Zenon
  <2>1. at' = ReadUpTo(c, left + 1) /\ at' <= Len(buf) /\ at' \in Nat /\ left' <= Len(Script[c]) /\ left' \in Nat
    <3>1. ReadUpTo(c, left + 1) = at + step.n /\ ReadUpTo(c, left + 1) \in Nat
      BY <1>4, <1>6, <1>7, <2>11
    <3>2. at' = at + step.n /\ left' = left + 1 /\ at + step.n <= Len(buf)
      BY <2>11, Zenon DEF Have
    <3> QED BY <1>5, <1>6, <2>11, <3>1, <3>2
  <2>2. NoPort(c) <=> c = "CONNECT" /\ desc.arg > 1
    <3>1. ASSUME c = "CONNECT" PROVE Byte(2) = desc.arg
      <4>1. Len(Script["CONNECT"]) = 1 /\ Script["CONNECT"][1].n = 1
        <5>1. Script["CONNECT"] = <<[n |-> 1, e |-> "connect"]>>
          BY ScriptIs, Zenon
        <5> QED BY <5>1
      <4>2. left = 0
        BY <1>5, <2>11, <3>1, <4>1
      <4>3. at = 1
        BY <1>4, <3>1, <4>2, ReadOf
      <4>4. Len(buf) >= 2
        <5>1. step.n = 1
          BY <1>7, <3>1, <4>1, <4>2
        <5> QED BY <1>3, <2>11, <4>3, <5>1 DEF Have
      <4> QED BY <1>2, <1>3, <3>1, <4>4, ConnectArg
    <3> QED BY <3>1 DEF NoPort
  <2>3. left \in 0..(Len(Script[c]) - 1)
    BY <1>5, <1>6, <2>11
  <2>4. effects' = AskedUpTo(desc, left + 1)
    <3>1. AskedUpTo(desc, left + 1) = AskedUpTo(desc, left) \o (IF Silent(desc, step) THEN <<>> ELSE Effect(step.e, FALSE, 0))
      BY <1>3, <1>7, <2>3, AskedOf, Zenon
    <3>2. Silent(desc, step) <=> step.e = "" \/ NoPort(c)
      BY <1>3, <2>2, Zenon DEF Silent
    <3> QED BY <1>4, <1>12, <3>1, <3>2, Zenon
  <2>5. effects' \in Seq(Kind)
    <3>1. left + 1 \in 0..Len(Script[c])
      BY <1>6, <2>3
    <3> QED BY <1>3, <2>4, <3>1, AskedOf, Zenon
  <2>6. ParseTyped'
    <3>1. phase' = "head" /\ rlen' \in Nat /\ short' \in BOOLEAN /\ failed' \in BOOLEAN
      <4>1. short' = short /\ failed' = failed /\ phase' = phase /\ rlen' = rlen
        BY <1>12, Zenon
      <4>2. phase' = "head" /\ rlen' = 1
        BY <1>2, <1>4, <4>1, Zenon
      <4>3. rlen' \in Nat
        BY <4>2
      <4>4. short \in BOOLEAN /\ failed \in BOOLEAN
        BY TypesOf
      <4> QED BY <4>1, <4>2, <4>3, <4>4, Zenon
    <3> QED BY <2>1, <2>5, <3>1 DEF ParseTyped
  <2>7. Received' /\ Running'
    <3>1. Received /\ Running
      BY Zenon DEF ParseInv
    <3> QED BY <1>2, <1>12, <3>1, Zenon DEF Received, Running
  <2>8. phase' = "head" /\ rlen' = 1 /\ left' = left + 1
    BY <1>2, <1>4, <1>12, Zenon
  <2>9. AtHead'
    BY <1>2, <1>3, <2>1, <2>4, <2>8 DEF AtHead
  <2>10. Fresh' /\ AtItems' /\ Settled'
    BY <2>8 DEF Fresh, AtItems, Settled
  <2> QED BY <2>6, <2>7, <2>9, <2>10 DEF ParseInv
<1> QED BY <1>1, <1>7, <1>9, <1>10, <1>11, <1>12, Zenon

\* Any other command is at its beginning.
LEMMA HeadState ==
  ASSUME ParseInv, phase = "head", buf # <<>>, desc.c \notin DOMAIN Script
  PROVE  at = 1 /\ left = 0 /\ effects = <<>> /\ rlen = 1
BY Zenon DEF ParseInv, AtHead

LEMMA SwjIs ==
  ASSUME ParseInv, phase = "head", buf # <<>>, desc.c = "SWJ_SEQUENCE"
  PROVE  \E n \in 1..256 :
           /\ n = desc.items[1].n /\ DivCeil8(n) \in Nat /\ Len(Encode(desc)) = 2 + DivCeil8(n)
           /\ (Len(buf) >= 2 => SwjBits(Byte(2)) = n)
           /\ Meant(desc) = Effect("sequence", FALSE, n) /\ MeantReply(desc) = 2
<1>1. desc \in Descs /\ Agrees(buf, Encode(desc)) /\ Len(buf) \in Nat
  BY UnderWay
<1>2. Len(desc.items) = 1 /\ desc.items[1].n \in 1..256 /\ ~desc.items[1].in /\ ~desc.items[1].m
  BY <1>1, FittingSwj
<1>3. PICK n \in 1..256 : n = desc.items[1].n
  BY <1>2
<1>4. DivCeil8(n) \in Nat
  <2>1. n \in 0..256
    OBVIOUS
  <2>2. (n + 7) \div 8 \in 0..32 /\ DivCeil8(n) = (n + 7) \div 8
    BY <2>1, CeilOf, Zenon
  <2> QED BY <2>2
<1>5. Len(Encode(desc)) = 2 + DivCeil8(n) /\ SwjBits(Encode(desc)[2]) = n
  BY <1>1, <1>3, LengthOf
<1>6. ASSUME Len(buf) >= 2 PROVE SwjBits(Byte(2)) = n
  <2>1. 2 \in 1..Len(buf) /\ 2 <= Len(Encode(desc)) /\ 2 \in DOMAIN buf
    BY <1>1, <1>4, <1>5, <1>6 DEF Agrees
  <2>2. buf[2] = Encode(desc)[2]
    BY <1>1, <2>1, Zenon DEF Agrees
  <2> QED BY <1>5, <2>1, <2>2, Zenon DEF Byte
<1>7. Meant(desc) = Effect("sequence", FALSE, n)
  <2>1. /\ Meant(desc) \in Seq(Kind) /\ Len(Meant(desc)) = 1
        /\ Meant(desc)[1] = [e |-> "sequence", in |-> desc.items[1].in, n |-> desc.items[1].n]
    <3>1. 1 \in 1..1
      OBVIOUS
    <3> QED BY <1>1, <1>2, <3>1, MeantOf
  <2>2. desc.items[1].in = FALSE
    <3>1. desc.items[1] \in Shape
      BY <1>1, <1>2, DescOf
    <3>2. desc.items[1].in \in BOOLEAN
      BY <3>1 DEF Shape
    <3> QED BY <1>2, <3>2
  <2>3. PICK m : m = Meant(desc)
    OBVIOUS
  <2>4. m = <<m[1]>>
    BY <2>1, <2>3
  <2> QED BY <1>3, <2>1, <2>2, <2>3, <2>4, Zenon DEF Effect
<1>8. MeantReply(desc) = 2
  <2>1. PICK sum : Paid(desc, sum)
    BY <1>1, PaidOf
  <2>2. /\ sum[1] = 0 /\ sum[1 + 1] = sum[1] + Pay(desc, 1) /\ MeantReply(desc) = sum[1 + 1] + 2
    <3>1. /\ sum[1] = 0 /\ \A k \in 1..Len(desc.items) : sum[k + 1] = sum[k] + Pay(desc, k)
          /\ MeantReply(desc) = sum[Len(desc.items) + 1] + (CASE desc.c = "TRANSFER" -> 3 [] desc.c = "TRANSFER_BLOCK" -> 4 [] OTHER -> 2)
      BY <2>1, Zenon DEF Paid
    <3>2. (CASE desc.c = "TRANSFER" -> 3 [] desc.c = "TRANSFER_BLOCK" -> 4 [] OTHER -> 2) = 2
      OBVIOUS
    <3>3. 1 \in 1..Len(desc.items)
      BY <1>2
    <3> QED BY <1>2, <3>1, <3>2, <3>3, Zenon
  <2>3. Pay(desc, 1) = 0
    BY <1>2 DEF Pay
  <2> QED BY <2>2, <2>3
<1> QED BY <1>3, <1>4, <1>5, <1>6, <1>7, <1>8

LEMMA SwjParse == ASSUME ParseInv, SwjSequence PROVE ParseInv'
<1>1. phase = "head" /\ buf # <<>> /\ buf[1] = "SWJ_SEQUENCE" /\ desc' = desc /\ buf' = buf
  BY Zenon DEF SwjSequence, Command
<1>2. /\ desc \in Descs /\ desc.c = "SWJ_SEQUENCE" /\ Len(buf) \in Nat /\ Len(buf) >= 1
      /\ Len(buf) <= Len(Encode(desc))
      /\ (RequestLen(buf) = Len(buf) => Len(buf) = Len(Encode(desc)))
  BY <1>1, UnderWay
<1>3. at = 1 /\ left = 0 /\ effects = <<>>
  <2>1. desc.c \notin DOMAIN Script
    BY <1>2, ScriptIs, Zenon
  <2> QED BY <1>1, <2>1, HeadState
<1>4. ~short /\ ~failed
  BY <1>1, TypesOf
<1>5. PICK n \in 1..256 :
           /\ n = desc.items[1].n /\ DivCeil8(n) \in Nat /\ Len(Encode(desc)) = 2 + DivCeil8(n)
           /\ (Len(buf) >= 2 => SwjBits(Byte(2)) = n)
           /\ Meant(desc) = Effect("sequence", FALSE, n) /\ MeantReply(desc) = 2
  BY <1>1, <1>2, SwjIs
<1>6. PICK need : need = 1 + DivCeil8(SwjBits(Byte(2)))
  OBVIOUS
<1>7. \/ ~(Have(1) /\ Have(need)) /\ Lacking
      \/ /\ Have(1) /\ Have(need)
         /\ at' = at + need /\ effects' = Effect("sequence", FALSE, SwjBits(Byte(2))) /\ Finish(2)
         /\ UNCHANGED <<left, short, failed>>
  BY <1>6, Zenon DEF SwjSequence
<1>8. Have(1) <=> Len(buf) >= 2
  BY <1>2, <1>3 DEF Have
<1>9. Have(1) => need = 1 + DivCeil8(n)
  BY <1>5, <1>6, <1>8
<1>10. CASE ~(Have(1) /\ Have(need)) /\ Lacking
  <2>1. short' \in BOOLEAN /\ Fail /\ effects' = effects
    BY <1>10 DEF Lacking
  <2>2. RequestLen(buf) # Len(buf)
    <3> SUFFICES ASSUME RequestLen(buf) = Len(buf) PROVE FALSE
      OBVIOUS
    <3>1. Len(buf) = 2 + DivCeil8(n) /\ DivCeil8(n) \in Nat
      BY <1>2, <1>5
    <3>2. Have(1)
      BY <1>8, <3>1
    <3>3. Have(need)
      BY <1>3, <1>9, <3>1, <3>2 DEF Have
    <3> QED BY <1>10, <3>2, <3>3
  <2> QED BY <1>1, <2>1, <2>2, GivesUp
<1>11. CASE /\ Have(1) /\ Have(need)
            /\ at' = at + need /\ effects' = Effect("sequence", FALSE, SwjBits(Byte(2))) /\ Finish(2)
            /\ UNCHANGED <<left, short, failed>>
  <2>1. phase' = "done" /\ status' = "ok" /\ rlen' = 2 /\ left' = 0 /\ short' = FALSE /\ failed' = FALSE
    BY <1>3, <1>4, <1>11 DEF Finish
  <2>2. at' = Len(buf)
    <3>1. at' = 1 + need /\ need = 1 + DivCeil8(n) /\ 1 + need <= Len(buf)
      BY <1>3, <1>9, <1>11 DEF Have
    <3> QED BY <1>2, <1>5, <3>1
  <2>3. effects' = Meant(desc) /\ Meant(desc) \in Seq(Kind)
    BY <1>2, <1>5, <1>8, <1>11, MeantTyped, Zenon
  <2>4. ParseTyped'
    <3>1. at' \in Nat /\ left' \in Nat /\ rlen' \in Nat /\ phase' \in {"idle", "receive", "head", "items", "done"}
          /\ short' \in BOOLEAN /\ failed' \in BOOLEAN
      BY <1>2, <2>1, <2>2
    <3> QED BY <2>3, <3>1, Zenon DEF ParseTyped
  <2>5. CompleteIsEnough'
    BY <1>1, <2>1, <2>2 DEF CompleteIsEnough
  <2>6. EffectsAsMeant'
    <3>1. IsPrefix(Meant(desc), Meant(desc))
      BY <2>3, SamePrefix, Zenon
    <3> QED BY <1>1, <2>3, <3>1, Zenon DEF EffectsAsMeant
  <2>7. ReplyAsMeant'
    BY <1>1, <1>5, <2>1, CommandsAssumption DEF ReplyAsMeant
  <2> QED BY <1>1, <2>1, <2>4, <2>5, <2>6, <2>7, Finishes
<1> QED BY <1>7, <1>10, <1>11

LEMMA BlockReply ==
  ASSUME NEW d \in Descs, d.c = "TRANSFER_BLOCK"
  PROVE  MeantReply(d) = 4 + (IF Flag(d.arg, 2) THEN 4 * Len(d.items) ELSE 0)
<1>1. PICK n : n = Len(d.items)
  OBVIOUS
<1>2. n \in Nat
  BY <1>1, DescOf
<1>3. PICK sum : Paid(d, sum)
  BY PaidOf
<1>4. PICK w : w = IF Flag(d.arg, 2) THEN 4 ELSE 0
  OBVIOUS
<1>5. \A k \in 1..n : Pay(d, k) = w
  <2> SUFFICES ASSUME NEW k \in 1..n PROVE Pay(d, k) = w
    OBVIOUS
  <2>1. d.items[k].in = Flag(d.arg, 2) /\ ~d.items[k].m
    BY <1>1, Fitting
  <2> QED BY <1>4, <2>1 DEF Pay
<1>6. /\ sum \in [1..(n + 1) -> Nat] /\ sum[1] = 0 /\ MeantReply(d) = sum[n + 1] + 4
      /\ \A k \in 1..n : sum[k + 1] = sum[k] + w
  <2>1. /\ sum \in [1..(n + 1) -> Nat] /\ sum[1] = 0
        /\ \A k \in 1..n : sum[k + 1] = sum[k] + Pay(d, k)
        /\ MeantReply(d) = sum[n + 1] + (CASE d.c = "TRANSFER" -> 3 [] d.c = "TRANSFER_BLOCK" -> 4 [] OTHER -> 2)
    BY <1>1, <1>3, Zenon DEF Paid
  <2>2. (CASE d.c = "TRANSFER" -> 3 [] d.c = "TRANSFER_BLOCK" -> 4 [] OTHER -> 2) = 4
    OBVIOUS
  <2> QED BY <1>5, <2>1, <2>2, Zenon
<1>7. sum[n + 1] = sum[1] + w * n
  <2>1. w \in {0, 1, 4}
    BY <1>4
  <2> QED BY <1>2, <1>6, <2>1, Even
<1>8. w * n = IF Flag(d.arg, 2) THEN 4 * n ELSE 0
  BY <1>2, <1>4
<1> QED BY <1>1, <1>2, <1>6, <1>7, <1>8

LEMMA BlockIs ==
  ASSUME ParseInv, phase = "head", buf # <<>>, desc.c = "TRANSFER_BLOCK"
  PROVE  /\ Len(buf) >= 4 => Byte(3) + 256 * Byte(4) = Len(desc.items)
         /\ Len(buf) >= 5 => Byte(5) = desc.arg
         /\ Len(Encode(desc)) = 5 + (IF Flag(desc.arg, 2) THEN 0 ELSE 4 * Len(desc.items))
<1>1. desc \in Descs /\ Agrees(buf, Encode(desc)) /\ Len(buf) \in Nat
  BY UnderWay
<1>2. PICK h : h = EncodeHead(desc)
  OBVIOUS
<1>3. Len(h) = 4 /\ h[2] + 256 * h[3] = Len(desc.items) /\ h[4] = desc.arg
  BY <1>1, <1>2, HeadOf
<1>4. \A j \in 1..4 : 1 + j <= Len(buf) => Byte(1 + j) = h[j]
  <2>1. \A j \in 1..Len(h) : 1 + j <= Len(buf) => Bt(buf, 1 + j) = h[j]
    BY <1>1, <1>2, AgreesOf
  <2> QED BY <1>3, <2>1, BytesAre, Zenon
<1>5. ASSUME Len(buf) >= 4 PROVE Byte(3) + 256 * Byte(4) = Len(desc.items)
  <2>1. 2 \in 1..4 /\ 1 + 2 <= Len(buf) /\ 1 + 2 = 3 /\ 3 \in 1..4 /\ 1 + 3 <= Len(buf) /\ 1 + 3 = 4
    BY <1>1, <1>5
  <2>2. Byte(3) = h[2] /\ Byte(4) = h[3]
    BY <1>4, <2>1
  <2> QED BY <1>3, <2>2
<1>6. ASSUME Len(buf) >= 5 PROVE Byte(5) = desc.arg
  <2>1. 4 \in 1..4 /\ 1 + 4 <= Len(buf) /\ 1 + 4 = 5
    BY <1>1, <1>6
  <2> QED BY <1>3, <1>4, <2>1
<1>7. Len(Encode(desc)) = 5 + (IF Flag(desc.arg, 2) THEN 0 ELSE 4 * Len(desc.items))
  BY <1>1, LengthOf
<1> QED BY <1>5, <1>6, <1>7

LEMMA BlockParse == ASSUME ParseInv, TransferBlock PROVE ParseInv'
<1>1. phase = "head" /\ buf # <<>> /\ buf[1] = "TRANSFER_BLOCK" /\ desc' = desc /\ buf' = buf
  BY Zenon DEF TransferBlock, Command
<1>2. /\ desc \in Descs /\ desc.c = "TRANSFER_BLOCK" /\ Len(buf) \in Nat /\ Len(buf) >= 1
      /\ Len(buf) <= Len(Encode(desc))
      /\ (RequestLen(buf) = Len(buf) => Len(buf) = Len(Encode(desc)))
  BY <1>1, UnderWay
<1>3. at = 1 /\ left = 0 /\ effects = <<>>
  <2>1. desc.c \notin DOMAIN Script
    BY <1>2, ScriptIs, Zenon
  <2> QED BY <1>1, <2>1, HeadState
<1>4. ~short /\ ~failed
  BY <1>1, TypesOf
<1>5. PICK n, out, l : n = Len(desc.items) /\ out = ~Flag(desc.arg, 2) /\ l = Len(buf)
  OBVIOUS
<1>6. /\ l >= 4 => Byte(3) + 256 * Byte(4) = n
      /\ l >= 5 => (Flag(Byte(5), 2) <=> ~out)
      /\ Len(Encode(desc)) = 5 + (IF out THEN 4 * n ELSE 0)
      /\ MeantReply(desc) = 4 + (IF out THEN 0 ELSE 4 * n)
      /\ n \in Nat /\ l \in Nat /\ out \in BOOLEAN
  <2>1. /\ l >= 4 => Byte(3) + 256 * Byte(4) = n
        /\ l >= 5 => Byte(5) = desc.arg
        /\ Len(Encode(desc)) = 5 + (IF Flag(desc.arg, 2) THEN 0 ELSE 4 * n)
    BY <1>1, <1>2, <1>5, BlockIs
  <2>2. MeantReply(desc) = 4 + (IF Flag(desc.arg, 2) THEN 4 * n ELSE 0)
    BY <1>2, <1>5, BlockReply
  <2>3. n \in Nat /\ l \in Nat
    BY <1>2, <1>5, DescOf
  <2> QED BY <1>5, <2>1, <2>2, <2>3
<1>7. PICK total, in : total = Byte(3) + 256 * Byte(4) /\ in = Flag(Byte(5), 2)
  OBVIOUS
<1>17. in \in BOOLEAN
  BY <1>7 DEF Flag
<1>8. PICK need : need = IF total = 0 THEN 3 ELSE 4 + (IF in THEN 0 ELSE 4 * total)
  OBVIOUS
<1> DEFINE replyLen(got) == 4 + (IF in THEN 4 * got ELSE 0)
<1> HIDE DEF replyLen
<1>9. LET ready == Have(3) /\ Have(need)
      IN  \/ ~ready /\ Lacking
          \/ ready /\ replyLen(total) > Capacity /\ Refused
          \/ ready /\ total = 0 /\ at' = at + 3 /\ Finish(4) /\ UNCHANGED <<left, effects, short, failed>>
          \/ /\ ready /\ total > 0 /\ replyLen(total) <= Capacity
             /\ at' = at + need
             /\ \E got \in 0..total :
                  Finish(replyLen(got)) /\ effects' = Effect("block", in, got) /\ failed' = (got < total)
             /\ UNCHANGED <<left, short>>
  BY <1>7, <1>8, ZenonT(40) DEF TransferBlock, replyLen
<1>10. (Have(3) <=> l >= 4) /\ (Have(need) <=> 1 + need <= l)
  <2>1. Have(3) <=> 1 + 3 <= l
    BY <1>3, <1>5, Zenon DEF Have
  <2>2. Have(need) <=> 1 + need <= l
    BY <1>3, <1>5, Zenon DEF Have
  <2> QED BY <1>6, <2>1, <2>2
<1>11. Have(3) => total = n
  BY <1>6, <1>7, <1>10
<1>12. Have(3) /\ Have(need) /\ total > 0 => in = ~out /\ need = 4 + (IF out THEN 4 * n ELSE 0)
  <2> SUFFICES ASSUME Have(3), Have(need), total > 0 PROVE in = ~out /\ need = 4 + (IF out THEN 4 * n ELSE 0)
    OBVIOUS
  <2>1. total = n /\ l >= 5
    BY <1>6, <1>8, <1>10, <1>11
  <2>2. in <=> ~out
    BY <1>6, <1>7, <2>1, Zenon
  <2>3. in = ~out
    BY <1>6, <1>17, <2>2
  <2>4. total # 0
    BY <2>1
  <2>5. need = 4 + (IF out THEN 4 * n ELSE 0)
    <3>1. need = 4 + (IF in THEN 0 ELSE 4 * n)
      BY <1>8, <2>1, <2>4, Zenon
    <3> QED BY <1>6, <2>3, <3>1
  <2> QED BY <2>3, <2>5
<1>13. CASE ~(Have(3) /\ Have(need)) /\ Lacking
  <2>1. short' \in BOOLEAN /\ Fail /\ effects' = effects
    BY <1>13 DEF Lacking
  <2>2. RequestLen(buf) # Len(buf)
    <3> SUFFICES ASSUME RequestLen(buf) = Len(buf) PROVE FALSE
      OBVIOUS
    <3>1. l = 5 + (IF out THEN 4 * n ELSE 0)
      BY <1>2, <1>5, <1>6
    <3>2. l >= 5 /\ Have(3) /\ total = n /\ in = ~out
      <4>1. l >= 5
        BY <1>6, <3>1
      <4>2. Have(3)
        BY <1>6, <1>10, <4>1
      <4>3. in <=> ~out
        BY <1>6, <1>7, <4>1, Zenon
      <4>4. in = ~out
        BY <1>6, <1>17, <4>3
      <4> QED BY <1>11, <4>1, <4>2, <4>4
    <3>3. 1 + need <= l
      <4>1. CASE n = 0
        <5>1. need = 3
          BY <1>8, <3>2, <4>1
        <5> QED BY <1>6, <3>2, <5>1
      <4>2. CASE n # 0
        <5>1. need = 4 + (IF in THEN 0 ELSE 4 * n)
          BY <1>8, <3>2, <4>2
        <5>2. CASE out
          BY <1>6, <3>1, <3>2, <5>1, <5>2
        <5>3. CASE ~out
          <6>1. l = 5
            BY <1>6, <3>1, <5>3
          <6>2. in
            BY <1>6, <3>2, <5>3, Zenon
          <6>3. need = 4
            BY <5>1, <6>2
          <6> QED BY <6>1, <6>3
        <5> QED BY <5>2, <5>3
      <4> QED BY <4>1, <4>2
    <3> QED BY <1>10, <1>13, <3>2, <3>3
  <2> QED BY <1>1, <2>1, <2>2, GivesUp
<1>14. CASE Refused
  <2>1. short' = FALSE /\ Fail /\ effects' = effects
    BY <1>4, <1>14 DEF Refused
  <2> QED BY <1>1, <2>1, GivesUp
<1>15. CASE /\ Have(3) /\ Have(need) /\ total = 0
            /\ at' = at + 3 /\ Finish(4) /\ UNCHANGED <<left, effects, short, failed>>
  <2>1. /\ phase' = "done" /\ status' = "ok" /\ rlen' = 4 /\ left' = 0 /\ at' = 4 /\ effects' = <<>>
        /\ short' = FALSE /\ failed' = FALSE
    BY <1>3, <1>4, <1>15 DEF Finish
  <2>2. n = 0
    BY <1>11, <1>15
  <2>3. desc.items = <<>> /\ Meant(desc) = <<>> /\ <<>> \in Seq(Kind)
    <3>1. desc.items \in Seq(Shape) /\ Len(desc.items) = 0
      BY <1>2, <1>5, <2>2, DescOf
    <3>2. desc.items = <<>>
      BY <3>1
    <3>3. Meant(desc) = <<>>
      BY <1>2, <3>1, MeantBlock
    <3> QED BY <3>2, <3>3
  <2>4. ParseTyped'
    BY <2>1, <2>3 DEF ParseTyped
  <2>5. CompleteIsEnough'
    BY <1>1, <1>2, <2>1, <2>3 DEF CompleteIsEnough
  <2>6. EffectsAsMeant'
    <3>1. IsPrefix(<<>>, Meant(desc))
      BY <2>3, SamePrefix, Zenon
    <3> QED BY <1>1, <2>1, <2>3, <3>1, Zenon DEF EffectsAsMeant
  <2>7. ReplyAsMeant'
    <3>1. MeantReply(desc) = 4
      BY <1>6, <2>2
    <3> QED BY <1>1, <2>1, <3>1, CommandsAssumption DEF ReplyAsMeant
  <2> QED BY <1>1, <2>1, <2>4, <2>5, <2>6, <2>7, Finishes
<1>16. CASE /\ Have(3) /\ Have(need) /\ total > 0 /\ replyLen(total) <= Capacity
            /\ at' = at + need
            /\ \E got \in 0..total :
                 Finish(replyLen(got)) /\ effects' = Effect("block", in, got) /\ failed' = (got < total)
            /\ UNCHANGED <<left, short>>
  <2>1. PICK got \in 0..total : Finish(replyLen(got)) /\ effects' = Effect("block", in, got) /\ failed' = (got < total)
    BY <1>16
  <2>2. total = n /\ in = ~out /\ need = 4 + (IF out THEN 4 * n ELSE 0) /\ n > 0
    BY <1>11, <1>12, <1>16
  <2>3. got \in Nat /\ got <= n
    BY <1>6, <2>2
  <2>4. \A m : replyLen(m) = 4 + (IF out THEN 0 ELSE 4 * m)
    BY <1>6, <2>2 DEF replyLen
  <2>5. PICK r : r = replyLen(got)
    OBVIOUS
  <2>6. r \in Nat /\ r <= MeantReply(desc) /\ r <= Capacity /\ (got = n => r = MeantReply(desc))
    <3>1. r = 4 + (IF out THEN 0 ELSE 4 * got) /\ replyLen(n) = 4 + (IF out THEN 0 ELSE 4 * n)
      BY <2>4, <2>5
    <3>2. r \in Nat /\ r <= replyLen(n) /\ replyLen(n) \in Nat /\ (got = n => r = replyLen(n))
      BY <1>6, <2>3, <3>1
    <3>3. replyLen(n) <= Capacity /\ replyLen(n) = MeantReply(desc)
      BY <1>6, <1>16, <2>2, <3>1
    <3> QED BY <3>2, <3>3, CommandsAssumption
  <2>7. phase' = "done" /\ status' = "ok" /\ rlen' = r /\ left' = 0 /\ short' = FALSE /\ at' = 1 + need
    BY <1>3, <1>4, <1>16, <2>1, <2>5 DEF Finish
  <2>8. failed' = (got < n) /\ (~failed' => got = n) /\ failed' \in BOOLEAN
    <3>1. failed' = (got < n)
      BY <2>1, <2>2, Zenon
    <3>2. ~(got < n) => got = n
      BY <1>6, <2>3
    <3>3. (got < n) \in BOOLEAN
      OBVIOUS
    <3> QED BY <3>1, <3>2, <3>3, Zenon
  <2>9. at' = l
    BY <1>2, <1>5, <1>6, <1>10, <1>16, <2>2, <2>7
  <2>10. effects' \in Seq(Kind) /\ effects' = Effect("block", ~out, got)
    <3>1. effects' = Effect("block", ~out, got)
      BY <2>1, <2>2, Zenon
    <3>2. [e |-> "block", in |-> ~out, n |-> got] \in Kind
      BY <2>3 DEF Kind
    <3>3. Effect("block", ~out, got) \in Seq(Kind)
      BY <3>2 DEF Effect
    <3> QED BY <3>1, <3>3, Zenon
  <2>11. ParseTyped'
    <3>1. at' \in Nat /\ left' \in Nat /\ rlen' \in Nat /\ phase' \in {"idle", "receive", "head", "items", "done"}
          /\ short' \in BOOLEAN
      BY <1>6, <2>6, <2>7, <2>9
    <3> QED BY <2>8, <2>10, <3>1, Zenon DEF ParseTyped
  <2>12. CompleteIsEnough'
    BY <1>1, <1>5, <2>7, <2>9 DEF CompleteIsEnough
  <2>13. EffectsAsMeant'
    <3>1. Meant(desc) \in Seq(Kind) /\ Meant(desc) = Effect("block", ~out, n)
      <4>1. /\ Meant(desc) = IF n = 0 THEN <<>> ELSE Effect("block", Flag(desc.arg, 2), n)
            /\ Meant(desc) \in Seq(Kind)
        BY <1>2, <1>5, MeantBlock
      <4>2. n # 0
        BY <2>2
      <4>3. Flag(desc.arg, 2) = ~out
        BY <1>5 DEF Flag
      <4> QED BY <4>1, <4>2, <4>3, Zenon
    <3>2. ~failed' => effects' = Meant(desc)
      BY <2>8, <2>10, <3>1, Zenon
    <3>3. IsPrefix(Meant(desc), Meant(desc))
      BY <3>1, SamePrefix, Zenon
    <3> QED BY <1>1, <3>2, <3>3, Zenon DEF EffectsAsMeant
  <2>14. ReplyAsMeant'
    <3>1. failed' => rlen' <= MeantReply(desc)
      BY <2>6, <2>7
    <3>2. ~failed' => rlen' = MeantReply(desc)
      BY <2>6, <2>7, <2>8
    <3>3. rlen' <= Capacity
      BY <2>6, <2>7
    <3> QED BY <1>1, <2>7, <3>1, <3>2, <3>3 DEF ReplyAsMeant
  <2> QED BY <1>1, <2>7, <2>11, <2>12, <2>13, <2>14, Finishes
<1> QED BY <1>9, <1>13, <1>14, <1>15, <1>16

-----------------------------------------------------------------------------
(* The items of DAP_SWD_Sequence and DAP_Transfer.                          *)

LEMMA PayOf == ASSUME NEW d \in Descs, NEW k \in 1..Len(d.items) PROVE Pay(d, k) \in Nat
<1>0. PICK m : m = d.items[k].n
  OBVIOUS
<1>1. m \in 0..256
  <2>1. d.items[k] \in Shape
    BY DescOf
  <2> QED BY <1>0, <2>1 DEF Shape
<1>2. (m + 7) \div 8 \in Nat
  BY <1>1
<1> QED BY <1>0, <1>2 DEF Pay

LEMMA DueIs ==
  ASSUME NEW d \in Descs
  PROVE  /\ Due(d) \in [1..(Len(d.items) + 1) -> Nat] /\ Due(d)[1] = 0
         /\ \A k \in 1..Len(d.items) : Due(d)[k + 1] = Due(d)[k] + Pay(d, k)
         /\ \A k \in 1..(Len(d.items) + 1) : Due(d)[k] <= Due(d)[Len(d.items) + 1]
         /\ d.c = "TRANSFER" => MeantReply(d) = Due(d)[Len(d.items) + 1] + 3
         /\ d.c = "SWD_SEQUENCE" => MeantReply(d) = Due(d)[Len(d.items) + 1] + 2
<1>1. PICK n, sum : n = Len(d.items) /\ sum = Due(d)
  OBVIOUS
<1>2. n \in Nat
  BY <1>1, DescOf
<1>3. /\ sum \in [1..(n + 1) -> Nat] /\ sum[1] = 0
      /\ \A k \in 1..n : sum[k + 1] = sum[k] + Pay(d, k)
      /\ MeantReply(d) = sum[n + 1] + (CASE d.c = "TRANSFER" -> 3 [] d.c = "TRANSFER_BLOCK" -> 4 [] OTHER -> 2)
  <2>1. Paid(d, sum)
    BY <1>1, DueOf
  <2> QED BY <1>1, <2>1, Zenon DEF Paid
<1>4. \A k \in 1..(n + 1) : sum[k] <= sum[n + 1]
  <2>1. PICK m : m = n + 1
    OBVIOUS
  <2>2. m \in Nat /\ sum \in [1..m -> Nat] /\ m \in 1..m
    BY <1>2, <1>3, <2>1
  <2>3. \A k \in 1..(m - 1) : sum[k] <= sum[k + 1]
    <3> SUFFICES ASSUME NEW k \in 1..(m - 1) PROVE sum[k] <= sum[k + 1]
      OBVIOUS
    <3>1. k \in 1..n /\ k \in 1..m
      BY <1>2, <2>1
    <3>2. Pay(d, k) \in Nat /\ sum[k] \in Nat /\ sum[k + 1] = sum[k] + Pay(d, k)
      BY <1>1, <1>3, <2>2, <3>1, PayOf
    <3> QED BY <3>2
  <2>4. \A k \in 1..m : \A j \in 1..k : sum[j] <= sum[k]
    BY <2>2, <2>3, Rising
  <2>5. \A k \in 1..m : sum[k] <= sum[m]
    BY <2>2, <2>4
  <2> QED BY <2>1, <2>5
<1>5. d.c = "TRANSFER" => MeantReply(d) = sum[n + 1] + 3
  BY <1>3
<1>6. d.c = "SWD_SEQUENCE" => MeantReply(d) = sum[n + 1] + 2
  BY <1>3
<1> QED BY <1>1, <1>3, <1>4, <1>5, <1>6, Zenon

\* The k-th item is next, at the given place; b is its first byte.
Upcoming(k, b) ==
  /\ k \in 1..Len(desc.items) /\ k = Len(desc.items) - left + 1 /\ Len(desc.items) \in Nat
  /\ b \in 0..255 /\ b = ItemBytes(desc, k)[1]
  /\ Place(desc)[k + 1] = at + ItemLen(desc.c, b) /\ at + ItemLen(desc.c, b) \in Nat
  /\ Have(1) => Byte(at + 1) = b
  /\ RequestLen(buf) = Len(buf) => Have(1) /\ Have(ItemLen(desc.c, b))
  /\ rlen = Due(desc)[k] + (IF desc.c = "TRANSFER" THEN 3 ELSE 2) /\ rlen <= Capacity
  /\ Len(effects) = k - 1 /\ \A j \in 1..(k - 1) : effects[j] = Meant(desc)[j]

LEMMA ItemState ==
  ASSUME ParseInv, phase = "items"
  PROVE  /\ desc \in Descs /\ desc.c \in {"SWD_SEQUENCE", "TRANSFER"} /\ left <= Len(desc.items)
         /\ at = Place(desc)[Len(desc.items) - left + 1] /\ at <= Len(buf)
         /\ rlen = Due(desc)[Len(desc.items) - left + 1] + (IF desc.c = "TRANSFER" THEN 3 ELSE 2)
         /\ rlen <= Capacity
         /\ Len(effects) = Len(desc.items) - left
         /\ \A j \in 1..(Len(desc.items) - left) : effects[j] = Meant(desc)[j]
         /\ buf # <<>> /\ buf[1] = desc.c /\ Len(buf) \in Nat /\ Len(buf) <= Len(Encode(desc))
         /\ Len(desc.items) \in Nat /\ left \in Nat /\ at \in Nat
<1>1. /\ desc \in Descs /\ Len(buf) \in Nat /\ Len(buf) <= Len(Encode(desc)) /\ (buf # <<>> => buf[1] = desc.c)
  BY UnderWay
<1>2. /\ desc.c \in {"SWD_SEQUENCE", "TRANSFER"} /\ left <= Len(desc.items)
      /\ at = Place(desc)[Len(desc.items) - left + 1] /\ at <= Len(buf)
      /\ rlen = Due(desc)[Len(desc.items) - left + 1] + (IF desc.c = "TRANSFER" THEN 3 ELSE 2)
      /\ rlen <= Capacity
      /\ Len(effects) = Len(desc.items) - left
      /\ \A j \in 1..(Len(desc.items) - left) : effects[j] = Meant(desc)[j]
  BY Zenon DEF ParseInv, AtItems
<1>3. Len(desc.items) \in Nat /\ left \in Nat /\ at \in Nat
  BY <1>1, DescOf, TypesOf
<1>4. buf # <<>>
  <2> SUFFICES ASSUME buf = <<>> PROVE FALSE
    OBVIOUS
  <2>1. PICK n, k, pos : n = Len(desc.items) /\ k = Len(desc.items) - left + 1 /\ pos = Place(desc)
    OBVIOUS
  <2>2. k \in 1..(n + 1) /\ n \in Nat
    BY <1>2, <1>3, <2>1
  <2>3. Laid(desc, pos)
    BY <1>1, <2>1, PlaceOf
  <2>4. pos \in [1..(n + 1) -> Nat] /\ pos[1] = 1 + Len(EncodeHead(desc)) /\ Len(EncodeHead(desc)) \in Nat
        /\ \A j \in 1..n : pos[j] < pos[j + 1]
    <3>1. desc.c \in Itemised
      BY <1>2 DEF Itemised
    <3>2. \A j \in 1..n : pos[j] < pos[j + 1]
      BY <1>1, <2>1, <2>3, <3>1, ItemsOf
    <3> QED BY <1>1, <2>1, <2>3, <3>2, LaidOf, BytesOf
  <2>5. \A i \in 1..(n + 1) : \A j \in 1..i : pos[j] <= pos[i]
    <3>1. PICK m : m = n + 1
      OBVIOUS
    <3>2. m \in Nat /\ pos \in [1..m -> Nat]
      BY <2>2, <2>4, <3>1
    <3>3. \A j \in 1..(m - 1) : pos[j] <= pos[j + 1]
      <4> SUFFICES ASSUME NEW j \in 1..(m - 1) PROVE pos[j] <= pos[j + 1]
        OBVIOUS
      <4>1. j \in 1..n /\ pos[j] \in Nat /\ pos[j + 1] \in Nat
        BY <2>2, <2>4, <3>1
      <4> QED BY <2>4, <4>1
    <3> QED BY <3>1, <3>2, <3>3, Rising
  <2>6. pos[1] <= pos[k]
    <3>1. 1 \in 1..k
      BY <2>2
    <3> QED BY <2>2, <2>5, <3>1
  <2>7. at = pos[k] /\ at <= 0
    <3>1. Len(buf) = 0
      OBVIOUS
    <3> QED BY <1>2, <2>1, <3>1
  <2> QED BY <1>3, <2>4, <2>6, <2>7
<1> QED BY <1>1, <1>2, <1>3, <1>4

LEMMA NextOf ==
  ASSUME ParseInv, phase = "items", left > 0
  PROVE  \E k, b : Upcoming(k, b)
<1>1. PICK n, k, pos, l : n = Len(desc.items) /\ k = n - left + 1 /\ pos = Place(desc) /\ l = Len(buf)
  OBVIOUS
<1>2. /\ desc \in Descs /\ desc.c \in {"SWD_SEQUENCE", "TRANSFER"} /\ left <= n
      /\ at = pos[k] /\ at <= l
      /\ rlen = Due(desc)[k] + (IF desc.c = "TRANSFER" THEN 3 ELSE 2) /\ rlen <= Capacity
      /\ Len(effects) = n - left /\ \A j \in 1..(n - left) : effects[j] = Meant(desc)[j]
      /\ buf # <<>> /\ buf[1] = desc.c /\ l \in Nat /\ l <= Len(Encode(desc))
      /\ n \in Nat /\ left \in Nat /\ at \in Nat
  BY <1>1, ItemState
<1>3. k \in 1..n /\ k - 1 = n - left
  BY <1>1, <1>2
<1>4. Laid(desc, pos)
  BY <1>1, <1>2, PlaceOf
<1>5. PICK b : b = ItemBytes(desc, k)[1]
  OBVIOUS
<1>6. /\ pos[k] \in Nat /\ pos[k + 1] \in Nat /\ pos[k] < pos[k + 1] /\ pos[k + 1] <= Len(Encode(desc))
      /\ Encode(desc)[pos[k] + 1] = b /\ b \in 0..255
      /\ pos[k + 1] = pos[k] + ItemLen(desc.c, b)
  <2>1. desc.c \in Itemised
    BY <1>2 DEF Itemised
  <2> QED BY <1>1, <1>2, <1>3, <1>4, <1>5, <2>1, ItemsOf
<1>7. pos[k + 1] = at + ItemLen(desc.c, b) /\ at + ItemLen(desc.c, b) \in Nat
  BY <1>2, <1>6
<1>8. ASSUME Have(1) PROVE Byte(at + 1) = b
  <2>1. at + 1 \in 1..Len(buf) /\ at + 1 <= Len(Encode(desc)) /\ at + 1 \in DOMAIN buf
    <3>1. DOMAIN buf = 1..Len(buf)
      BY UnderWay
    <3> QED BY <1>1, <1>2, <1>8, <3>1 DEF Have
  <2>2. buf[at + 1] = Encode(desc)[at + 1]
    <3>1. Agrees(buf, Encode(desc))
      BY UnderWay
    <3> QED BY <2>1, <3>1, Zenon DEF Agrees
  <2> QED BY <1>2, <1>6, <2>1, <2>2, Zenon DEF Byte
<1>9. ASSUME RequestLen(buf) = Len(buf) PROVE Have(1) /\ Have(ItemLen(desc.c, b))
  <2>1. l = Len(Encode(desc))
    BY <1>1, <1>2, <1>9, UnderWay
  <2>2. at + 1 <= l /\ at + ItemLen(desc.c, b) <= l
    BY <1>2, <1>6, <1>7, <2>1
  <2> QED BY <1>1, <2>2, Zenon DEF Have
<1>10. Upcoming(k, b)
  BY <1>1, <1>2, <1>3, <1>5, <1>6, <1>7, <1>8, <1>9, Zenon DEF Upcoming
<1> QED BY <1>10

LEMMA HeadParse ==
  ASSUME ParseInv, NEW c \in {"SWD_SEQUENCE", "TRANSFER"},
         CountedHead(c, IF c = "TRANSFER" THEN 2 ELSE 1, IF c = "TRANSFER" THEN 2 ELSE 1)
  PROVE  ParseInv'
<1>1. PICK m : m = IF c = "TRANSFER" THEN 2 ELSE 1
  OBVIOUS
<1>2. /\ phase = "head" /\ buf # <<>> /\ buf[1] = c /\ desc' = desc /\ buf' = buf
      /\ \/ ~Have(m) /\ Lacking
         \/ /\ Have(m)
            /\ at' = at + m /\ left' = Byte(1 + m) /\ rlen' = rlen + m /\ phase' = "items"
            /\ UNCHANGED <<effects, status, short, failed>>
  BY <1>1, Zenon DEF CountedHead, Command
<1>3. /\ desc \in Descs /\ Agrees(buf, Encode(desc)) /\ desc.c = c /\ Len(buf) \in Nat /\ Len(buf) >= 1
      /\ Len(buf) <= Len(Encode(desc))
      /\ (RequestLen(buf) = Len(buf) => Len(buf) = Len(Encode(desc)))
  BY <1>2, UnderWay
<1>4. at = 1 /\ left = 0 /\ effects = <<>> /\ rlen = 1
  <2>1. desc.c \notin DOMAIN Script
    BY <1>3, ScriptIs, Zenon
  <2> QED BY <1>2, <2>1, HeadState
<1>5. ~short /\ ~failed
  BY <1>2, TypesOf
<1>6. PICK n, h : n = Len(desc.items) /\ h = EncodeHead(desc)
  OBVIOUS
<1>7. Len(h) = m /\ h[m] = n /\ n \in Nat /\ m \in {1, 2}
  <2>1. n \in Nat
    BY <1>3, <1>6, DescOf
  <2>2. CASE c = "TRANSFER"
    BY <1>1, <1>3, <1>6, <2>1, <2>2, HeadOf
  <2>3. CASE c = "SWD_SEQUENCE"
    <3>1. desc.c \in Counted
      BY <1>3, <2>3 DEF Counted
    <3> QED BY <1>1, <1>3, <1>6, <2>1, <2>3, <3>1, HeadOf
  <2> QED BY <2>2, <2>3
<1>8. CASE ~Have(m) /\ Lacking
  <2>1. short' \in BOOLEAN /\ Fail /\ effects' = effects
    BY <1>8 DEF Lacking
  <2>2. RequestLen(buf) # Len(buf)
    <3> SUFFICES ASSUME RequestLen(buf) = Len(buf) PROVE FALSE
      OBVIOUS
    <3>1. Len(buf) >= 1 + m
      BY <1>3, <1>6, <1>7, BytesOf
    <3>2. Have(m)
      BY <1>4, <3>1 DEF Have
    <3> QED BY <1>8, <3>2
  <2> QED BY <1>2, <2>1, <2>2, GivesUp
<1>9. CASE /\ Have(m)
           /\ at' = at + m /\ left' = Byte(1 + m) /\ rlen' = rlen + m /\ phase' = "items"
           /\ UNCHANGED <<effects, status, short, failed>>
  <2>1. at' = 1 + m /\ 1 + m <= Len(buf) /\ rlen' = 1 + m
    BY <1>4, <1>9 DEF Have
  <2>2. left' = n
    <3>1. m \in 1..Len(EncodeHead(desc)) /\ 1 + m <= Len(buf)
      BY <1>6, <1>7, <2>1
    <3>2. Bt(buf, 1 + m) = h[m]
      <4>1. \A j \in 1..Len(EncodeHead(desc)) : 1 + j <= Len(buf) => Bt(buf, 1 + j) = EncodeHead(desc)[j]
        BY <1>2, <1>3, AgreesOf
      <4> QED BY <1>6, <3>1, <4>1, Zenon
    <3> QED BY <1>7, <1>9, <3>2, BytesAre, Zenon
  <2>3. ParseTyped'
    <3>1. at' \in Nat /\ left' \in Nat /\ rlen' \in Nat /\ <<>> \in Seq(Kind)
      BY <1>7, <2>1, <2>2
    <3>2. phase' \in {"idle", "receive", "head", "items", "done"} /\ short' = short /\ failed' = failed
          /\ effects' = <<>>
      BY <1>4, <1>9
    <3> QED BY <3>1, <3>2, TypesOf, Zenon DEF ParseTyped
  <2>4. Received' /\ Running'
    <3>1. Received /\ Running
      BY Zenon DEF ParseInv
    <3>2. phase' # "idle" /\ phase # "idle" /\ phase # "done"
      BY <1>2, <1>9
    <3> QED BY <1>2, <1>9, <3>1, <3>2, Zenon DEF Received, Running
  <2>5. AtItems'
    <3>1. PICK k, pos, due : k = Len(desc.items) - left' /\ pos = Place(desc) /\ due = Due(desc)
      OBVIOUS
    <3>2. k = 0
      BY <1>6, <1>7, <2>2, <3>1
    <3>3. pos[1] = 1 + m
      <4>1. Laid(desc, pos)
        BY <1>3, <3>1, PlaceOf
      <4> QED BY <1>3, <1>6, <1>7, <4>1, LaidOf
    <3>4. due[1] = 0
      BY <1>3, <3>1, DueIs
    <3>5. /\ desc.c \in {"SWD_SEQUENCE", "TRANSFER"} /\ left' <= Len(desc.items)
          /\ at' = pos[k + 1] /\ at' <= Len(buf)
          /\ rlen' = due[k + 1] + (IF desc.c = "TRANSFER" THEN 3 ELSE 2) /\ rlen' <= Capacity
          /\ Len(effects') = k /\ \A j \in 1..k : effects'[j] = Meant(desc)[j]
      <4>1. k + 1 = 1 /\ Len(<<>>) = 0 /\ 1..k = {}
        BY <3>2
      <4>2. left' <= Len(desc.items)
        BY <1>6, <1>7, <2>2
      <4>3. rlen' = due[1] + (IF desc.c = "TRANSFER" THEN 3 ELSE 2)
        BY <1>1, <1>3, <2>1, <3>4
      <4>4. rlen' <= Capacity
        BY <1>7, <2>1, CommandsAssumption
      <4>5. effects' = <<>>
        BY <1>4, <1>9
      <4>6. desc.c \in {"SWD_SEQUENCE", "TRANSFER"}
        BY <1>3
      <4> QED BY <2>1, <3>2, <3>3, <4>1, <4>2, <4>3, <4>4, <4>5, <4>6
    <3> QED BY <1>2, <3>1, <3>5 DEF AtItems
  <2>6. AtHead' /\ Fresh' /\ Settled'
    BY <1>9 DEF AtHead, Fresh, Settled
  <2> QED BY <2>3, <2>4, <2>5, <2>6 DEF ParseInv
<1> QED BY <1>2, <1>8, <1>9

\* The effects with the next one are still the beginning of what is meant.
LEMMA EffectOf ==
  ASSUME ParseInv, phase = "items", NEW k, NEW b, Upcoming(k, b)
  PROVE  /\ effects \o <<Meant(desc)[k]>> \in Seq(Kind) /\ Len(effects \o <<Meant(desc)[k]>>) = k
         /\ \A j \in 1..k : (effects \o <<Meant(desc)[k]>>)[j] = Meant(desc)[j]
         /\ IsPrefix(effects \o <<Meant(desc)[k]>>, Meant(desc))
<1>1. desc \in Descs /\ desc.c \in {"SWD_SEQUENCE", "TRANSFER"} /\ effects \in Seq(Kind)
  BY ItemState, TypesOf
<1>2. k \in 1..Len(desc.items) /\ Len(desc.items) \in Nat
      /\ Len(effects) = k - 1 /\ \A j \in 1..(k - 1) : effects[j] = Meant(desc)[j]
  BY Zenon DEF Upcoming
<1>3. PICK m : m = Meant(desc)
  OBVIOUS
<1>4. m \in Seq(Kind) /\ Len(m) = Len(desc.items)
  BY <1>1, <1>3, MeantOf
<1>5. m[k] \in Kind
  BY <1>2, <1>4
<1>6. PICK s : s = effects \o <<m[k]>>
  OBVIOUS
<1>7. /\ s \in Seq(Kind) /\ Len(s) = Len(effects) + 1
      /\ \A j \in 1..Len(effects) : s[j] = effects[j]
      /\ s[Len(effects) + 1] = m[k]
  BY <1>1, <1>5, <1>6, ScriptAppended
<1>8. Len(s) = k /\ s[k] = m[k] /\ \A j \in 1..(k - 1) : s[j] = m[j]
  BY <1>2, <1>3, <1>7
<1>9. \A j \in 1..k : s[j] = m[j]
  <2> SUFFICES ASSUME NEW j \in 1..k PROVE s[j] = m[j]
    OBVIOUS
  <2>1. j = k \/ j \in 1..(k - 1)
    BY <1>2
  <2> QED BY <1>8, <2>1, Zenon
<1>10. IsPrefix(s, m)
  <2>1. Len(s) <= Len(m) /\ \A j \in 1..Len(s) : s[j] = m[j]
    BY <1>2, <1>4, <1>8, <1>9
  <2> QED BY <1>4, <1>7, <2>1, PrefixBy, Zenon
<1> QED BY <1>3, <1>6, <1>7, <1>8, <1>9, <1>10, Zenon

LEMMA Advances ==
  ASSUME ParseInv, phase = "items", NEW k, NEW b, Upcoming(k, b),
         at' = at + ItemLen(desc.c, b), Have(ItemLen(desc.c, b)), left' = left - 1, left > 0,
         rlen' = rlen + Pay(desc, k), rlen' <= Capacity,
         effects' = effects \o <<Meant(desc)[k]>>,
         phase' = phase, status' = status, short' = short, failed' = failed, desc' = desc, buf' = buf
  PROVE  ParseInv'
<1>1. /\ desc \in Descs /\ desc.c \in {"SWD_SEQUENCE", "TRANSFER"} /\ left <= Len(desc.items)
      /\ Len(desc.items) \in Nat /\ left \in Nat /\ at \in Nat /\ Len(buf) \in Nat
  BY ItemState
<1>2. PICK n, pos, due : n = Len(desc.items) /\ pos = Place(desc) /\ due = Due(desc)
  OBVIOUS
<1>3. /\ k \in 1..n /\ k = n - left + 1
      /\ pos[k + 1] = at + ItemLen(desc.c, b) /\ at + ItemLen(desc.c, b) \in Nat
      /\ rlen = due[k] + (IF desc.c = "TRANSFER" THEN 3 ELSE 2)
  BY <1>2, Zenon DEF Upcoming
<1>4. at' = pos[k + 1] /\ at' \in Nat /\ at' <= Len(buf)
  BY <1>3 DEF Have
<1>5. due[k + 1] = due[k] + Pay(desc, k) /\ due[k] \in Nat /\ due[k + 1] \in Nat /\ Pay(desc, k) \in Nat
  <2>1. due \in [1..(n + 1) -> Nat] /\ \A j \in 1..n : due[j + 1] = due[j] + Pay(desc, j)
    BY <1>1, <1>2, DueIs
  <2>2. k \in 1..(n + 1) /\ k + 1 \in 1..(n + 1)
    <3>1. n \in Nat /\ k \in 1..n
      BY <1>1, <1>2, <1>3, Zenon
    <3> QED BY <3>1
  <2>3. Pay(desc, k) \in Nat
    BY <1>1, <1>2, <1>3, PayOf
  <2> QED BY <1>3, <2>1, <2>2, <2>3
<1>6. rlen' = due[k + 1] + (IF desc.c = "TRANSFER" THEN 3 ELSE 2) /\ rlen' \in Nat
  <2>1. PICK w : w = IF desc.c = "TRANSFER" THEN 3 ELSE 2
    OBVIOUS
  <2>2. w \in Nat
    BY <2>1
  <2>3. rlen = due[k] + w /\ rlen' = rlen + Pay(desc, k)
    BY <1>3, <2>1, Zenon
  <2>4. rlen' = due[k + 1] + w /\ rlen' \in Nat
    BY <1>5, <2>2, <2>3
  <2> QED BY <2>1, <2>4, Zenon
<1>7. n - left' = k /\ left' \in Nat /\ left' <= n
  BY <1>1, <1>2, <1>3
<1>8. effects' \in Seq(Kind) /\ Len(effects') = k /\ \A j \in 1..k : effects'[j] = Meant(desc)[j]
  BY EffectOf, Zenon
<1>9. ParseTyped'
  <2>1. phase' \in {"idle", "receive", "head", "items", "done"}
    OBVIOUS
  <2> QED BY <1>4, <1>6, <1>7, <1>8, <2>1, TypesOf, Zenon DEF ParseTyped
<1>10. Received' /\ Running'
  <2>1. Received /\ Running
    BY Zenon DEF ParseInv
  <2> QED BY <2>1, Zenon DEF Received, Running
<1>11. AtItems'
  BY <1>1, <1>2, <1>4, <1>6, <1>7, <1>8, Zenon DEF AtItems
<1>12. AtHead' /\ Fresh' /\ Settled'
  BY DEF AtHead, Fresh, Settled
<1> QED BY <1>9, <1>10, <1>11, <1>12 DEF ParseInv

LEMMA SwdParse == ASSUME ParseInv, SwdSequence PROVE ParseInv'
<1>1. phase = "items" /\ buf[1] = "SWD_SEQUENCE" /\ left > 0 /\ desc' = desc /\ buf' = buf
  BY Zenon DEF SwdSequence, NextItem
<1>2. desc \in Descs /\ desc.c = "SWD_SEQUENCE" /\ buf # <<>> /\ at \in Nat
  BY <1>1, ItemState
<1>3. PICK k, b : Upcoming(k, b)
  BY <1>1, NextOf
<1>4. k \in 1..Len(desc.items) /\ b \in 0..255 /\ b = ItemBytes(desc, k)[1] /\ (Have(1) => Byte(at + 1) = b)
      /\ (RequestLen(buf) = Len(buf) => Have(1) /\ Have(ItemLen(desc.c, b)))
      /\ rlen = Due(desc)[k] + (IF desc.c = "TRANSFER" THEN 3 ELSE 2)
  BY <1>3, Zenon DEF Upcoming
<1>5. ~short /\ ~failed /\ rlen \in Nat
  BY <1>1, TypesOf
<1>6. PICK n : n = desc.items[k].n
  OBVIOUS
<1>7. /\ n \in 1..64 /\ ~desc.items[k].m /\ desc.items[k].in \in BOOLEAN
      /\ InfoBits(b) = n /\ (Flag(b, 128) <=> desc.items[k].in)
  <2>1. desc.items[k] \in Shape
    BY <1>2, <1>4, DescOf
  <2>2. desc.items[k].n \in 1..64 /\ ~desc.items[k].m
    BY <1>2, <1>4, FittingSequence
  <2>3. PICK e : e = EncodeItem("SWD_SEQUENCE", desc.items[k])
    OBVIOUS
  <2>4. InfoBits(e[1]) = desc.items[k].n /\ (Flag(e[1], 128) <=> desc.items[k].in)
    BY <2>1, <2>2, <2>3, SequenceItem
  <2>5. b = e[1]
    BY <1>2, <1>4, <2>3, Zenon DEF ItemBytes
  <2>6. desc.items[k].in \in BOOLEAN
    BY <2>1 DEF Shape
  <2> QED BY <1>6, <2>2, <2>4, <2>5, <2>6, Zenon
<1>8. PICK bits, in : bits = InfoBits(Byte(at + 1)) /\ in = Flag(Byte(at + 1), 128)
  OBVIOUS
<1>9. PICK need, replyLen : /\ need = 1 + (IF in THEN 0 ELSE DivCeil8(bits))
                            /\ replyLen = IF in THEN SequenceBytes(bits) ELSE 0
  OBVIOUS
<1>10. \/ ~(Have(1) /\ Have(need)) /\ Lacking
       \/ Have(1) /\ Have(need) /\ rlen + replyLen > Capacity /\ Refused
       \/ /\ Have(1) /\ Have(need) /\ rlen + replyLen <= Capacity
          /\ at' = at + need /\ rlen' = rlen + replyLen /\ left' = left - 1
          /\ effects' = effects \o Effect("sequence", in, bits)
          /\ UNCHANGED <<phase, status, short, failed>>
  BY <1>8, <1>9, Zenon DEF SwdSequence
<1>11. ASSUME Have(1)
       PROVE  need = ItemLen(desc.c, b) /\ replyLen = Pay(desc, k) /\ <<Meant(desc)[k]>> = Effect("sequence", in, bits)
  <2>1. bits = n /\ (in <=> desc.items[k].in)
    BY <1>4, <1>7, <1>8, <1>11, Zenon
  <2>2. in \in BOOLEAN
    BY <1>8 DEF Flag
  <2>3. in = desc.items[k].in
    BY <1>7, <2>1, <2>2
  <2>4. need = 1 + (IF ~Flag(b, 128) THEN DivCeil8(InfoBits(b)) ELSE 0)
    <3>1. CASE in
      <4>1. need = 1 + 0
        BY <1>9, <3>1, Zenon
      <4>2. Flag(b, 128)
        BY <1>7, <2>1, <3>1, Zenon
      <4> QED BY <4>1, <4>2
    <3>2. CASE ~in
      <4>1. need = 1 + DivCeil8(bits)
        BY <1>9, <3>2, Zenon
      <4>2. ~Flag(b, 128)
        BY <1>7, <2>1, <3>2, Zenon
      <4> QED BY <1>7, <2>1, <4>1, <4>2, Zenon
    <3> QED BY <3>1, <3>2
  <2>5. need = ItemLen(desc.c, b)
    BY <1>2, <2>4 DEF ItemLen
  <2>6. replyLen = Pay(desc, k)
    <3>1. Pay(desc, k) = IF ~desc.items[k].in THEN 0 ELSE (n + 7) \div 8
      BY <1>2, <1>6, <1>7 DEF Pay
    <3>2. SequenceBytes(bits) = (n + 7) \div 8
      BY <2>1 DEF SequenceBytes, DivCeil8
    <3> QED BY <1>9, <2>1, <3>1, <3>2, Zenon
  <2>7. Meant(desc)[k] = [e |-> "sequence", in |-> desc.items[k].in, n |-> n]
    BY <1>2, <1>4, <1>6, MeantOf
  <2>8. <<Meant(desc)[k]>> = Effect("sequence", in, bits)
    BY <2>1, <2>3, <2>7, Zenon DEF Effect
  <2> QED BY <2>5, <2>6, <2>8
<1>12. CASE ~(Have(1) /\ Have(need)) /\ Lacking
  <2>1. short' \in BOOLEAN /\ Fail /\ effects' = effects
    BY <1>12 DEF Lacking
  <2>2. RequestLen(buf) # Len(buf)
    BY <1>4, <1>11, <1>12
  <2> QED BY <1>1, <1>2, <2>1, <2>2, GivesUp
<1>13. CASE Refused
  <2>1. short' = FALSE /\ Fail /\ effects' = effects
    BY <1>5, <1>13 DEF Refused
  <2> QED BY <1>1, <1>2, <2>1, GivesUp
<1>14. CASE /\ Have(1) /\ Have(need) /\ rlen + replyLen <= Capacity
            /\ at' = at + need /\ rlen' = rlen + replyLen /\ left' = left - 1
            /\ effects' = effects \o Effect("sequence", in, bits)
            /\ UNCHANGED <<phase, status, short, failed>>
  <2>1. need = ItemLen(desc.c, b) /\ replyLen = Pay(desc, k) /\ <<Meant(desc)[k]>> = Effect("sequence", in, bits)
    BY <1>11, <1>14
  <2>2. /\ at' = at + ItemLen(desc.c, b) /\ Have(ItemLen(desc.c, b)) /\ left' = left - 1
        /\ rlen' = rlen + Pay(desc, k) /\ rlen' <= Capacity /\ effects' = effects \o <<Meant(desc)[k]>>
        /\ phase' = phase /\ status' = status /\ short' = short /\ failed' = failed
    BY <1>14, <2>1, Zenon
  <2> QED BY <1>1, <1>3, <2>2, Advances
<1> QED BY <1>10, <1>12, <1>13, <1>14

LEMMA TransferParse == ASSUME ParseInv, TransferItem PROVE ParseInv'
<1>1. phase = "items" /\ buf[1] = "TRANSFER" /\ left > 0 /\ desc' = desc /\ buf' = buf
  BY Zenon DEF TransferItem, NextItem
<1>2. desc \in Descs /\ desc.c = "TRANSFER" /\ buf # <<>> /\ at \in Nat
  BY <1>1, ItemState
<1>3. PICK k, b : Upcoming(k, b)
  BY <1>1, NextOf
<1>4. k \in 1..Len(desc.items) /\ b \in 0..255 /\ b = ItemBytes(desc, k)[1] /\ (Have(1) => Byte(at + 1) = b)
      /\ (RequestLen(buf) = Len(buf) => Have(1) /\ Have(ItemLen(desc.c, b)))
      /\ rlen = Due(desc)[k] + (IF desc.c = "TRANSFER" THEN 3 ELSE 2) /\ rlen <= Capacity
  BY <1>3, Zenon DEF Upcoming
<1>5. ~short /\ ~failed /\ rlen \in Nat /\ left \in Nat
  BY <1>1, TypesOf
<1>6. PICK x : x = desc.items[k]
  OBVIOUS
<1>7. /\ x.in \in BOOLEAN /\ x.m \in BOOLEAN
      /\ (Flag(b, 2) <=> x.in) /\ (x.in => (Flag(b, 16) <=> x.m)) /\ (~x.in => (Flag(b, 32) <=> x.m))
  <2>1. x \in Shape
    BY <1>2, <1>4, <1>6, DescOf
  <2>2. PICK e : e = EncodeItem("TRANSFER", x)
    OBVIOUS
  <2>3. (Flag(e[1], 2) <=> x.in) /\ (x.in => (Flag(e[1], 16) <=> x.m)) /\ (~x.in => (Flag(e[1], 32) <=> x.m))
    BY <2>1, <2>2, TransferPart
  <2>4. b = e[1]
    BY <1>2, <1>4, <1>6, <2>2, Zenon DEF ItemBytes
  <2>5. x.in \in BOOLEAN /\ x.m \in BOOLEAN
    BY <2>1 DEF Shape
  <2> QED BY <2>3, <2>4, <2>5, Zenon
<1>8. PICK rv, in : rv = Byte(at + 1) /\ in = Flag(Byte(at + 1), 2)
  OBVIOUS
<1>9. PICK word, mask : word = (~in \/ Flag(rv, 16)) /\ mask = (~in /\ Flag(rv, 32))
  OBVIOUS
<1>10. PICK need, replyLen : need = (IF word THEN 5 ELSE 1) /\ replyLen = IF word THEN 0 ELSE 4
  OBVIOUS
<1>11. \/ ~(Have(1) /\ Have(need)) /\ Lacking
       \/ /\ Have(1) /\ Have(need)
          /\ effects' = effects \o Effect(IF mask THEN "mask" ELSE "transfer", in, 1)
          /\ UNCHANGED short
          /\ \/ rlen + replyLen > Capacity /\ Fail
             \/ /\ rlen + replyLen <= Capacity
                /\ at' = at + need /\ left' = left - 1 /\ rlen' = rlen + replyLen
                /\ UNCHANGED <<phase, status, failed>>
             \/ ~mask /\ at' = at + need /\ failed' = TRUE /\ Finish(rlen) /\ UNCHANGED left
  BY <1>8, <1>9, <1>10, Zenon DEF TransferItem
<1>12. ASSUME Have(1)
       PROVE  /\ need = ItemLen(desc.c, b) /\ replyLen = Pay(desc, k)
              /\ <<Meant(desc)[k]>> = Effect(IF mask THEN "mask" ELSE "transfer", in, 1)
  <2>1. rv = b /\ (in <=> x.in) /\ (word <=> ~x.in \/ x.m) /\ (mask <=> x.m /\ ~x.in)
    <3>1. rv = b /\ (in <=> Flag(b, 2)) /\ (word <=> ~in \/ Flag(b, 16)) /\ (mask <=> ~in /\ Flag(b, 32))
      BY <1>4, <1>8, <1>9, <1>12, Zenon
    <3> QED BY <1>7, <3>1, Zenon
  <2>2. in \in BOOLEAN
    BY <1>8 DEF Flag
  <2>3. in = x.in
    BY <1>7, <2>1, <2>2
  <2>4. ItemLen("TRANSFER", b) = IF Flag(b, 2) /\ ~Flag(b, 16) THEN 1 ELSE 5
    BY DEF ItemLen
  <2>5. need = ItemLen(desc.c, b)
    <3>1. CASE word
      <4>1. ~(Flag(b, 2) /\ ~Flag(b, 16))
        BY <1>7, <2>1, <3>1, Zenon
      <4> QED BY <1>2, <1>10, <2>4, <3>1, <4>1, Zenon
    <3>2. CASE ~word
      <4>1. Flag(b, 2) /\ ~Flag(b, 16)
        BY <1>7, <2>1, <3>2, Zenon
      <4> QED BY <1>2, <1>10, <2>4, <3>2, <4>1, Zenon
    <3> QED BY <3>1, <3>2
  <2>6. replyLen = Pay(desc, k)
    <3>1. Pay(desc, k) = IF ~x.in \/ x.m THEN 0 ELSE 4
      BY <1>2, <1>6 DEF Pay
    <3> QED BY <1>10, <2>1, <3>1, Zenon
  <2>7. Meant(desc)[k] = [e |-> IF x.m /\ ~x.in THEN "mask" ELSE "transfer", in |-> x.in, n |-> 1]
    BY <1>2, <1>4, <1>6, MeantOf
  <2>8. <<Meant(desc)[k]>> = Effect(IF mask THEN "mask" ELSE "transfer", in, 1)
    <3>1. (IF mask THEN "mask" ELSE "transfer") = (IF x.m /\ ~x.in THEN "mask" ELSE "transfer")
      BY <2>1, Zenon
    <3> QED BY <2>3, <2>7, <3>1, Zenon DEF Effect
  <2> QED BY <2>5, <2>6, <2>8
<1>13. CASE ~(Have(1) /\ Have(need)) /\ Lacking
  <2>1. short' \in BOOLEAN /\ Fail /\ effects' = effects
    BY <1>13 DEF Lacking
  <2>2. RequestLen(buf) # Len(buf)
    BY <1>4, <1>12, <1>13
  <2> QED BY <1>1, <1>2, <2>1, <2>2, GivesUp
<1>14. CASE /\ Have(1) /\ Have(need)
            /\ effects' = effects \o Effect(IF mask THEN "mask" ELSE "transfer", in, 1)
            /\ UNCHANGED short
            /\ \/ rlen + replyLen > Capacity /\ Fail
               \/ /\ rlen + replyLen <= Capacity
                  /\ at' = at + need /\ left' = left - 1 /\ rlen' = rlen + replyLen
                  /\ UNCHANGED <<phase, status, failed>>
               \/ ~mask /\ at' = at + need /\ failed' = TRUE /\ Finish(rlen) /\ UNCHANGED left
  <2>1. need = ItemLen(desc.c, b) /\ replyLen = Pay(desc, k) /\ effects' = effects \o <<Meant(desc)[k]>> /\ short' = short
        /\ Have(need)
    BY <1>12, <1>14, Zenon
  <2>2. effects' \in Seq(Kind) /\ IsPrefix(effects', Meant(desc))
    BY <1>1, <1>3, <2>1, EffectOf, Zenon
  <2>3. CASE Fail
    <3>1. phase' = "done" /\ status' = "error" /\ rlen' = 2 /\ at' = at /\ left' = left /\ failed' = failed
      BY <2>3 DEF Fail
    <3>2. ParseTyped'
      <4>1. phase' \in {"idle", "receive", "head", "items", "done"} /\ rlen' \in Nat
        BY <3>1
      <4> QED BY <2>1, <2>2, <3>1, <4>1, TypesOf, Zenon DEF ParseTyped
    <3>3. CompleteIsEnough'
      BY <1>5, <2>1, <3>1 DEF CompleteIsEnough
    <3>4. EffectsAsMeant'
      <4>1. status' # "ok"
        BY <3>1
      <4> QED BY <1>1, <2>2, <4>1, Zenon DEF EffectsAsMeant
    <3>5. ReplyAsMeant'
      BY <3>1, CommandsAssumption DEF ReplyAsMeant
    <3> QED BY <1>1, <3>1, <3>2, <3>3, <3>4, <3>5, Finishes
  <2>4. CASE /\ rlen + replyLen <= Capacity
             /\ at' = at + need /\ left' = left - 1 /\ rlen' = rlen + replyLen
             /\ UNCHANGED <<phase, status, failed>>
    <3>1. /\ at' = at + ItemLen(desc.c, b) /\ Have(ItemLen(desc.c, b)) /\ left' = left - 1
          /\ rlen' = rlen + Pay(desc, k) /\ rlen' <= Capacity /\ effects' = effects \o <<Meant(desc)[k]>>
          /\ phase' = phase /\ status' = status /\ short' = short /\ failed' = failed
      BY <2>1, <2>4, Zenon
    <3> QED BY <1>1, <1>3, <3>1, Advances
  <2>5. CASE ~mask /\ at' = at + need /\ failed' = TRUE /\ Finish(rlen) /\ UNCHANGED left
    <3>1. phase' = "done" /\ status' = "ok" /\ rlen' = rlen /\ at' = at + need /\ left' = left /\ failed'
      BY <2>5 DEF Finish
    <3>2. rlen <= MeantReply(desc)
      <4>1. PICK due, n : due = Due(desc) /\ n = Len(desc.items)
        OBVIOUS
      <4>2. /\ due \in [1..(n + 1) -> Nat] /\ \A j \in 1..(n + 1) : due[j] <= due[n + 1]
            /\ MeantReply(desc) = due[n + 1] + 3
        BY <1>2, <4>1, DueIs
      <4>3. n \in Nat /\ k \in 1..(n + 1) /\ n + 1 \in 1..(n + 1)
        BY <1>2, <1>4, <4>1, DescOf
      <4>4. rlen = due[k] + 3
        BY <1>2, <1>4, <4>1
      <4>5. due[k] \in Nat /\ due[n + 1] \in Nat /\ due[k] <= due[n + 1]
        BY <4>2, <4>3
      <4> QED BY <4>2, <4>4, <4>5
    <3>3. ParseTyped'
      <4>1. phase' \in {"idle", "receive", "head", "items", "done"} /\ at' \in Nat /\ rlen' \in Nat /\ failed' \in BOOLEAN
        <5>1. failed' \in BOOLEAN
          BY <2>5
        <5> QED BY <1>2, <1>5, <1>10, <3>1, <5>1
      <4> QED BY <2>1, <2>2, <3>1, <4>1, TypesOf, Zenon DEF ParseTyped
    <3>4. CompleteIsEnough'
      BY <1>5, <2>1, <3>1 DEF CompleteIsEnough
    <3>5. EffectsAsMeant'
      BY <3>1, Zenon DEF EffectsAsMeant
    <3>6. ReplyAsMeant'
      BY <1>1, <1>4, <3>1, <3>2 DEF ReplyAsMeant
    <3> QED BY <1>1, <3>1, <3>3, <3>4, <3>5, <3>6, Finishes
  <2> QED BY <1>14, <2>3, <2>4, <2>5
<1> QED BY <1>11, <1>13, <1>14

LEMMA DoneParse == ASSUME ParseInv, ItemsDone PROVE ParseInv'
<1>1. phase = "items" /\ left = 0 /\ UNCHANGED <<desc, buf, at, left, effects, short>>
      /\ phase' = "done" /\ status' = "ok" /\ rlen' = rlen
  BY Zenon DEF ItemsDone, Finish
<1>2. failed' \in BOOLEAN
  BY DEF ItemsDone
<1>3. ~short /\ effects \in Seq(Kind) /\ rlen \in Nat /\ at \in Nat
  BY <1>1, TypesOf
<1>4. PICK n, pos, due : n = Len(desc.items) /\ pos = Place(desc) /\ due = Due(desc)
  OBVIOUS
<1>5. /\ desc \in Descs /\ desc.c \in {"SWD_SEQUENCE", "TRANSFER"} /\ n \in Nat
      /\ at = pos[n - left + 1] /\ at <= Len(buf)
      /\ rlen = due[n - left + 1] + (IF desc.c = "TRANSFER" THEN 3 ELSE 2) /\ rlen <= Capacity
      /\ Len(effects) = n - left /\ \A j \in 1..(n - left) : effects[j] = Meant(desc)[j]
      /\ Len(buf) \in Nat /\ Len(buf) <= Len(Encode(desc))
  BY <1>1, <1>4, ItemState
<1>6. n - left = n
  BY <1>1, <1>5
<1>7. at = Len(buf)
  <2>1. Laid(desc, pos)
    BY <1>4, <1>5, PlaceOf
  <2>2. pos[n + 1] = Len(Encode(desc))
    BY <1>4, <1>5, <2>1, LaidOf
  <2> QED BY <1>3, <1>5, <1>6, <2>2
<1>8. rlen = MeantReply(desc)
  BY <1>4, <1>5, <1>6, DueIs
<1>9. effects = Meant(desc)
  <2>1. PICK m : m = Meant(desc)
    OBVIOUS
  <2>2. m \in Seq(Kind) /\ Len(m) = n
    BY <1>4, <1>5, <2>1, MeantOf
  <2>3. Len(effects) = n /\ \A j \in 1..n : effects[j] = m[j]
    BY <1>5, <1>6, <2>1
  <2>4. effects = m
    BY <1>3, <2>2, <2>3
  <2> QED BY <2>1, <2>4
<1>10. ParseTyped'
  <2>1. phase' \in {"idle", "receive", "head", "items", "done"}
    BY <1>1
  <2> QED BY <1>1, <1>2, <2>1, TypesOf, Zenon DEF ParseTyped
<1>11. CompleteIsEnough'
  BY <1>1, <1>3, <1>7 DEF CompleteIsEnough
<1>12. EffectsAsMeant'
  <2>1. IsPrefix(effects, Meant(desc))
    BY <1>3, <1>9, SamePrefix, Zenon
  <2> QED BY <1>1, <1>9, <2>1, Zenon DEF EffectsAsMeant
<1>13. ReplyAsMeant'
  BY <1>1, <1>3, <1>5, <1>8 DEF ReplyAsMeant
<1> QED BY <1>1, <1>10, <1>11, <1>12, <1>13, Finishes

-----------------------------------------------------------------------------
(* What the specification guarantees.                                       *)

\* Every state agrees with the layout of the command under way: what was received
\* is the beginning of its bytes, and the position, the effects and the reply of
\* its handler are those of the steps or of the items behind it.
THEOREM ParseInvariant == CommandsSpec => []ParseInv
<1>1. CommandsInit => ParseInv
  BY InitParse
<1>2. ParseInv /\ [CommandsNext]_commandVars => ParseInv'
  <2> SUFFICES ASSUME ParseInv, [CommandsNext]_commandVars PROVE ParseInv'
    OBVIOUS
  <2>1. CASE \E d \in Descs : HostSends(d)
    BY <2>1, SendsParse
  <2>2. CASE Receive
    BY <2>2, ReceiveParse
  <2>3. CASE BeginCommand
    BY <2>3, BeginParse
  <2>4. CASE Process
    <3>1. CASE Immediate
      BY <3>1, ImmediateParse
    <3>2. CASE Simple
      BY <3>2, SimpleParse
    <3>3. CASE SwjSequence
      BY <3>3, SwjParse
    <3>4. CASE TransferBlock
      BY <3>4, BlockParse
    <3>5. CASE SequenceHead
      <4>1. PICK c \in {"SWD_SEQUENCE", "TRANSFER"} : c = "SWD_SEQUENCE"
        OBVIOUS
      <4>2. c # "TRANSFER"
        BY <4>1
      <4>3. CountedHead(c, IF c = "TRANSFER" THEN 2 ELSE 1, IF c = "TRANSFER" THEN 2 ELSE 1)
        BY <3>5, <4>1, <4>2, Zenon DEF SequenceHead
      <4> QED BY <4>3, HeadParse, Zenon
    <3>6. CASE SwdSequence
      BY <3>6, SwdParse
    <3>7. CASE TransferHead
      <4>1. PICK c \in {"SWD_SEQUENCE", "TRANSFER"} : c = "TRANSFER"
        OBVIOUS
      <4>2. CountedHead(c, IF c = "TRANSFER" THEN 2 ELSE 1, IF c = "TRANSFER" THEN 2 ELSE 1)
        BY <3>7, <4>1, Zenon DEF TransferHead
      <4> QED BY <4>2, HeadParse, Zenon
    <3>8. CASE TransferItem
      BY <3>8, TransferParse
    <3>9. CASE ItemsDone
      BY <3>9, DoneParse
    <3> QED BY <2>4, <3>1, <3>2, <3>3, <3>4, <3>5, <3>6, <3>7, <3>8, <3>9 DEF Process
  <2>5. CASE Answer
    BY <2>5, AnswerParse
  <2>6. CASE UNCHANGED commandVars
    <3>1. ParseTyped' /\ Received' /\ Running' /\ Fresh'
      BY <2>6, Zenon DEF commandVars, ParseInv, ParseTyped, Received, Running, Fresh
    <3>2. AtHead' /\ AtItems'
      BY <2>6, Zenon DEF commandVars, ParseInv, AtHead, AtItems
    <3>3. Settled'
      BY <2>6, Zenon DEF commandVars, ParseInv, Settled, CompleteIsEnough, EffectsAsMeant, ReplyAsMeant
    <3> QED BY <3>1, <3>2, <3>3 DEF ParseInv
  <2> QED BY <2>1, <2>2, <2>3, <2>4, <2>5, <2>6 DEF CommandsNext
<1> QED BY <1>1, <1>2, PTL DEF CommandsSpec

\* request_len, on the bytes received so far and on all of them with others behind.
LEMMA ExactOf == ASSUME ParseInv PROVE ParserExact
<1> SUFFICES ASSUME phase = "receive", desc.c # "OTHER"
             PROVE  /\ Len(buf) <= Len(Encode(desc))
                    /\ RequestLen(buf) > 0 <=> WholeCommand
                    /\ WholeCommand => RequestLen(buf \o Filler(6)) = Len(buf)
  BY DEF ParserExact
<1>1. PICK l, b : l = Len(Encode(desc)) /\ b = Len(buf)
  OBVIOUS
<1>2. desc \in Descs /\ Agrees(buf, Encode(desc)) /\ b <= l /\ buf \in Seq(Token) /\ b \in Nat
  BY <1>1, UnderWay
<1>3. l \in Nat /\ l >= 1
  BY <1>1, <1>2, BytesOf
<1>4. RequestLen(buf) = IF b >= l THEN l ELSE 0
  BY <1>1, <1>2, ParserOf
<1>5. RequestLen(buf) > 0 <=> WholeCommand
  BY <1>1, <1>2, <1>3, <1>4 DEF WholeCommand
<1>6. ASSUME WholeCommand PROVE RequestLen(buf \o Filler(6)) = Len(buf)
  <2>1. PICK f, s : f = Filler(6) /\ s = buf \o Filler(6)
    OBVIOUS
  <2>2. f \in Seq(Token) /\ Len(f) = 6
    <3>1. 85 \in Token
      <4>1. 85 \in Nat
        OBVIOUS
      <4> QED BY <4>1, Zenon DEF Token
    <3>2. ASSUME NEW T, NEW x \in T PROVE [k \in 1..6 |-> x] \in Seq(T) /\ Len([k \in 1..6 |-> x]) = 6
      OBVIOUS
    <3> QED BY <2>1, <3>1, <3>2, Zenon DEF Filler
  <2>3. s \in Seq(Token) /\ Len(s) = b + 6 /\ \A i \in 1..b : s[i] = buf[i]
    <3>1. \A i \in 1..Len(buf) : (buf \o f)[i] = buf[i]
      BY <1>2, <2>2, Concatenated
    <3>2. buf \o f \in Seq(Token) /\ Len(buf \o f) = Len(buf) + Len(f)
      BY <1>2, <2>2, Concatenated
    <3> QED BY <1>1, <2>1, <2>2, <3>1, <3>2
  <2>4. b = l
    BY <1>1, <1>6 DEF WholeCommand
  <2>5. \A i \in 1..Len(s) : i <= Len(Encode(desc)) => s[i] = Encode(desc)[i]
    <3> SUFFICES ASSUME NEW i \in 1..Len(s), i <= Len(Encode(desc)) PROVE s[i] = Encode(desc)[i]
      OBVIOUS
    <3>1. i \in 1..Len(buf) /\ i \in 1..b
      BY <1>1, <1>2, <2>3, <2>4
    <3>2. buf[i] = Encode(desc)[i]
      BY <1>2, <3>1, Zenon DEF Agrees
    <3> QED BY <2>3, <3>1, <3>2, Zenon
  <2>6. Agrees(s, Encode(desc))
    BY <2>3, <2>5 DEF Agrees
  <2>7. RequestLen(s) = IF Len(s) >= l THEN l ELSE 0
    BY <1>1, <1>2, <2>6, ParserOf
  <2> QED BY <1>1, <1>2, <1>3, <2>1, <2>3, <2>4, <2>7
<1> QED BY <1>1, <1>2, <1>5, <1>6

\* The reader stops at the last byte of every command it knows, not one earlier
\* or later, whatever stands in the buffer behind it, for commands with any number
\* of items of any kind.
THEOREM ParserAgrees == CommandsSpec => []ParserExact
BY ParseInvariant, ExactOf, PTL

\* A handler never runs out of bytes on a command that request_len found complete,
\* and one that does a command of variable length reads it to its end, but for a
\* block of no words: the two parsers agree.
THEOREM NeverShort == CommandsSpec => []CompleteIsEnough
<1>1. ParseInv => CompleteIsEnough
  BY Zenon DEF ParseInv, Settled, CompleteIsEnough
<1> QED BY <1>1, ParseInvariant, PTL

\* Unless a transfer fails, what a handler asks of the SWD driver is at every step
\* the beginning of what the host encoded, item by item and in order, and an OK
\* says that it was all of it.
THEOREM AskedAsMeant == CommandsSpec => []EffectsAsMeant
<1>1. ParseInv => EffectsAsMeant
  <2> SUFFICES ASSUME ParseInv PROVE EffectsAsMeant
    OBVIOUS
  <2>1. CASE phase # "done"
    BY <2>1, SoFar
  <2>2. CASE phase = "done"
    BY <2>2, Zenon DEF ParseInv, Settled
  <2> QED BY <2>1, <2>2
<1> QED BY <1>1, ParseInvariant, PTL

\* The OK reply to a command of variable length has the length the host works out
\* from that command, a refusal has two bytes, and no reply outgrows its buffer.
THEOREM RepliesAsMeant == CommandsSpec => []ReplyAsMeant
<1>1. ParseInv => ReplyAsMeant
  BY Zenon DEF ParseInv, Settled, ReplyAsMeant
<1> QED BY <1>1, ParseInvariant, PTL
=============================================================================
