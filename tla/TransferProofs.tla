--------------------------- MODULE TransferProofs ---------------------------
(***************************************************************************)
(* Proofs about Transfer for commands of every length, any number of       *)
(* retries and any room in the reply.                                      *)
(***************************************************************************)
EXTENDS Transfer, TLAPS, SequenceTheorems

BlockPlace == {"blockPost", "blockRead", "blockWrite", "blockFlush"}
LoopPlace == Wire \ BlockPlace

Words == [op : Nat, part : {1, 2}]
Typed ==
  /\ ops \in Seq(Op) /\ block \in BOOLEAN
  /\ pc \in Wire \cup {"fetch", "done"}
  /\ count \in Nat /\ count <= Len(ops)
  /\ postRead \in BOOLEAN /\ checkWrite \in BOOLEAN /\ buffered \in BOOLEAN
  /\ words \in Seq(Words) /\ pend \in Nat
  /\ block => \A n \in 1..Len(ops) : /\ ops[n].kind = ops[1].kind /\ ~ops[n].stamp
                                      /\ ops[n].kind \in Read \cup {"write"}

\* Where the code is says what it does, and to which transfer.
Placed ==
  /\ pc \in LoopPlace => ~block
  /\ pc \in BlockPlace => block
  /\ pc \in Wire \ {"final", "blockFlush"} => count < Len(ops)
  /\ pc \in {"final", "blockFlush"} => count = Len(ops)
  /\ pc = "fetch" => ~block \/ count = 0
  /\ pc = "collect" => postRead
  /\ pc \in Wire \ {"collect", "final"} => ~postRead
  /\ block => ~postRead
  /\ pc = "post" => op.kind = "apRead"
  /\ pc = "read" => op.kind = "dpRead"
  /\ pc = "write" => op.kind = "write"
  /\ pc \in {"match", "postMatch"} => op.kind \in {"apMatch", "dpMatch"}
  /\ pc = "blockPost" => op.kind = "apRead"
  /\ pc = "blockRead" => op.kind \in Read
  /\ pc = "blockWrite" => op.kind = "write"

\* A write the target may still fault is followed by a transfer that tells.
Checked ==
  buffered => \/ pc = "done" /\ status # "ok"
              \/ pc # "done" /\ ~block /\ checkWrite
              \/ pc \in {"blockWrite", "blockFlush"}

\* The fetch at the end of a command sees the write it has to check.
Seen == pc = "fetch" /\ status # "ok" => ~buffered

WInv == Typed /\ Placed /\ Checked /\ Seen

LEMMA OpKind ==
  ASSUME Typed, NEW n \in 1..Len(ops)
  PROVE  ops[n].kind \in AllKinds
<1>1. ops[n] \in Op
  BY DEF Typed
<1> QED BY <1>1, TransferAssumption DEF Op

LEMMA BeginKinds ==
  ASSUME Typed, count < Len(ops)
  PROVE  \/ Begin = "error"
         \/ Begin = "postMatch" /\ op.kind = "apMatch"
         \/ Begin = "match" /\ op.kind = "dpMatch"
         \/ Begin = "post" /\ op.kind = "apRead"
         \/ Begin = "read" /\ op.kind = "dpRead"
         \/ Begin = "mask" /\ op.kind = "mask"
         \/ Begin = "write" /\ op.kind = "write"
<1>1. count + 1 \in 1..Len(ops)
  BY DEF Typed
<1>2. op.kind \in AllKinds
  BY <1>1, OpKind DEF op
<1> QED BY <1>2 DEF Begin, AllKinds

LEMMA Initially == Init => WInv
<1> SUFFICES ASSUME Init PROVE WInv
  OBVIOUS
<1>1. PICK n \in Nat : ops \in [1..n -> Op]
  BY TransferAssumption DEF Init
<1>2. ops \in Seq(Op)
  BY <1>1
<1>3. Len(ops) \in Nat
  BY <1>2
<1>4. Typed
  <2>1. ASSUME block, NEW k \in 1..Len(ops)
        PROVE  /\ ops[k].kind = ops[1].kind /\ ~ops[k].stamp
               /\ ops[k].kind \in Read \cup {"write"}
    <3>1. k \in DOMAIN ops /\ 1 \in DOMAIN ops
      BY <1>2, <1>3
    <3>2. ops[k] = ops[1]
      BY <2>1, <3>1 DEF Init
    <3>3. ops[k].kind \in Read \cup {"write"} /\ ~ops[k].stamp
      BY <2>1, <3>1, Zenon DEF Init
    <3> QED BY <3>2, <3>3
  <2>2. /\ pc = "fetch" /\ count = 0 /\ postRead = FALSE /\ checkWrite = FALSE
        /\ words = <<>> /\ pend = 0 /\ buffered = FALSE /\ block \in BOOLEAN
    BY Zenon DEF Init, NoTransfer
  <2>3. /\ pc \in Wire \cup {"fetch", "done"} /\ count \in Nat /\ count <= Len(ops)
        /\ postRead \in BOOLEAN /\ checkWrite \in BOOLEAN /\ buffered \in BOOLEAN
        /\ words \in Seq(Words) /\ pend \in Nat
    <3>1. <<>> \in Seq(Words) /\ 0 \in Nat /\ 0 <= Len(ops)
      BY <1>3
    <3> QED BY <2>2, <3>1, Zenon
  <2> QED BY <1>2, <2>1, <2>2, <2>3, Zenon DEF Typed
<1> QED BY <1>4 DEF Init, WInv, Placed, Checked, Seen, LoopPlace, BlockPlace, Wire

\* What Go does, as one of three ways on.
LEMMA Ways ==
  ASSUME Typed, NEW ws \in Seq(Words), NEW st, NEW next \in Wire \cup {"fetch", "mask", "error"},
         Go(ws, next, st)
  PROVE  /\ words' \in Seq(Words)
         /\ \/ pc' = "done" /\ status' = "error" /\ words' = words /\ count' = count
            \/ /\ pc' = "fetch" /\ status' = "ok" /\ words' = words \o ws
               /\ count' = count + 1 /\ next \in {"fetch", "mask"}
            \/ /\ pc' = next /\ status' = st /\ words' = words \o ws
               /\ count' = count /\ next \in Wire
<1>1. words \in Seq(Words) /\ words \o ws \in Seq(Words)
  BY DEF Typed
<1> QED BY <1>1 DEF Go

LEMMA WordsTyped ==
  ASSUME NEW n \in Nat
  PROVE  /\ Data(n) \in Words /\ Stamp(n) \in Words
         /\ <<>> \in Seq(Words) /\ <<Data(n)>> \in Seq(Words) /\ StampOf(n) \in Seq(Words)
<1>1. Data(n) \in Words /\ Stamp(n) \in Words
  BY DEF Data, Stamp, Words
<1> QED BY <1>1 DEF StampOf

LEMMA TypedKeeps ==
  ASSUME Typed, UNCHANGED <<block, ops>>, pc' \in Wire \cup {"fetch", "done"},
         count' \in Nat, count' <= Len(ops), postRead' \in BOOLEAN, checkWrite' \in BOOLEAN,
         buffered' \in BOOLEAN, words' \in Seq(Words), pend' \in Nat
  PROVE  Typed'
BY DEF Typed

LEMMA Buffers ==
  ASSUME NEW from, NEW p, Acked(from, p)
  PROVE  /\ buffered' \in BOOLEAN
         /\ from # "write" /\ from # "blockWrite" => ~buffered'
<1> DEFINE wrote == from \in {"write", "blockWrite"}
<1>1. buffered' = wrote
  BY DEF Acked
<1>2. wrote \in BOOLEAN /\ (wrote => from = "write" \/ from = "blockWrite")
  OBVIOUS
<1> HIDE DEF wrote
<1> QED BY <1>1, <1>2, Zenon

LEMMA FetchKeeps == WInv /\ Fetch => WInv'
<1> SUFFICES ASSUME WInv, Fetch PROVE WInv'
  OBVIOUS
<1>0. /\ pc = "fetch" /\ ~block
      /\ UNCHANGED <<block, ops, postRead, checkWrite, pend, buffered>>
  BY DEF Fetch, command
<1>1. CASE /\ count = Len(ops) /\ UNCHANGED <<count, status, words>>
           /\ pc' = IF status = "ok" /\ (postRead \/ checkWrite) THEN "final" ELSE "done"
  <2>1. Typed'
    BY <1>0, <1>1 DEF WInv, Typed, Wire
  <2>2. Placed'
    BY <1>0, <1>1 DEF WInv, Placed, Wire, LoopPlace, BlockPlace
  <2>3. Checked' /\ Seen'
    BY <1>0, <1>1 DEF WInv, Checked, Seen
  <2> QED BY <2>1, <2>2, <2>3 DEF WInv
<1>2. ASSUME count < Len(ops), NEW next \in {CollectFirst, "error"}, Go(<<>>, next, status)
      PROVE  WInv'
  <2>0. Typed
    BY DEF WInv
  <2>1. \/ next = "collect" /\ postRead
        \/ next = "error"
        \/ ~postRead /\ next = "postMatch" /\ op.kind = "apMatch"
        \/ ~postRead /\ next = "match" /\ op.kind = "dpMatch"
        \/ ~postRead /\ next = "post" /\ op.kind = "apRead"
        \/ ~postRead /\ next = "read" /\ op.kind = "dpRead"
        \/ ~postRead /\ next = "mask"
        \/ ~postRead /\ next = "write" /\ op.kind = "write"
    BY <1>2, <2>0, BeginKinds DEF CollectFirst
  <2>2. <<>> \in Seq(Words) /\ next \in Wire \cup {"fetch", "mask", "error"}
    BY <2>1 DEF Wire
  <2>3. /\ words' \in Seq(Words)
        /\ \/ pc' = "done" /\ status' = "error" /\ count' = count
           \/ pc' = "fetch" /\ status' = "ok" /\ count' = count + 1
           \/ pc' = next /\ status' = status /\ count' = count /\ next \in Wire
    BY <1>2, <2>0, <2>2, Ways
  <2>4. Typed'
    BY <1>0, <1>2, <2>0, <2>3 DEF Typed
  <2>5. Placed'
    BY <1>0, <1>2, <2>1, <2>3 DEF WInv, Placed, Wire, LoopPlace, BlockPlace, op
  <2>6. Checked' /\ Seen'
    BY <1>0, <2>3 DEF WInv, Checked, Seen, Wire
  <2> QED BY <2>4, <2>5, <2>6 DEF WInv
<1> QED BY <1>1, <1>2 DEF Fetch

LEMMA FetchBlockKeeps == WInv /\ FetchBlock => WInv'
<1> SUFFICES ASSUME WInv, FetchBlock PROVE WInv'
  OBVIOUS
<1>0. /\ pc = "fetch" /\ block /\ count = 0 /\ ~postRead /\ Typed
      /\ UNCHANGED <<block, ops, postRead, checkWrite, pend, buffered>>
  BY DEF FetchBlock, command, WInv, Placed
<1>1. ~buffered
  BY <1>0 DEF WInv, Checked
<1>2. CASE ops = <<>> /\ pc' = "done" /\ UNCHANGED <<status, words, count>>
  <2>1. Typed'
    BY <1>0, <1>2 DEF Typed
  <2>2. Placed'
    BY <1>0, <1>2 DEF Placed, Wire, LoopPlace, BlockPlace
  <2> QED BY <1>0, <1>1, <1>2, <2>1, <2>2 DEF WInv, Checked, Seen
<1>3. ASSUME ops # <<>>, NEW next, Go(<<>>, next, status),
             \/ next = "error"
             \/ next = "blockWrite" /\ op.kind = "write"
             \/ next = "blockPost" /\ op.kind = "apRead"
             \/ next = "blockRead" /\ op.kind = "dpRead"
      PROVE  WInv'
  <2>1. count < Len(ops)
    BY <1>0, <1>3 DEF Typed
  <2>2. <<>> \in Seq(Words) /\ next \in Wire \cup {"fetch", "mask", "error"}
    BY <1>3 DEF Wire
  <2>3. /\ words' \in Seq(Words)
        /\ \/ pc' = "done" /\ status' = "error" /\ count' = count
           \/ pc' = next /\ status' = status /\ count' = count /\ next \in Wire
    BY <1>0, <1>3, <2>2, Ways
  <2>4. Typed'
    BY <1>0, <2>3 DEF Typed
  <2>5. Placed'
    BY <1>0, <1>3, <2>1, <2>3 DEF Placed, Wire, LoopPlace, BlockPlace, op, Read
  <2>6. Checked' /\ Seen'
    BY <1>0, <1>1, <2>3 DEF Checked, Seen, Wire
  <2> QED BY <2>4, <2>5, <2>6 DEF WInv
<1>4. ops # <<>> => op.kind \in Read \cup {"write"}
  BY <1>0 DEF Typed, op
<1> QED BY <1>0, <1>2, <1>3, <1>4 DEF FetchBlock, Read

\* A retry changes nothing that matters, and a failure ends the command.
LEMMA WaitFailKeep == WInv /\ (Wait \/ Fail) => WInv'
<1> SUFFICES ASSUME WInv, Wait \/ Fail PROVE WInv'
  OBVIOUS
<1>0. UNCHANGED <<block, ops, count, postRead, checkWrite, words, pend, buffered>>
  BY DEF Wait, Fail, command
<1>1. CASE Wait
  BY <1>0, <1>1 DEF Wait, WInv, Typed, Placed, Checked, Seen, op
<1>2. CASE Fail
  <2>1. pc' = "done" /\ status' # "ok"
    BY <1>2 DEF Fail
  <2> QED BY <1>0, <2>1 DEF WInv, Typed, Placed, Checked, Seen, Wire, LoopPlace, BlockPlace
<1> QED BY <1>1, <1>2

\* A wire transfer of the loop is answered and goes on as Go says.
LEMMA LoopKeeps ==
  ASSUME WInv, NEW from \in LoopPlace, NEW p \in Nat, Acked(from, p),
         NEW ws \in Seq(Words), NEW next, Go(ws, next, "ok"),
         postRead' \in BOOLEAN, checkWrite' \in BOOLEAN, count < Len(ops),
         from = "write" => checkWrite',
         \/ next = "fetch" \/ next = "error" \/ next = "mask"
         \/ next = "match" /\ op.kind \in {"apMatch", "dpMatch"} /\ ~postRead'
         \/ next = "postMatch" /\ op.kind = "apMatch" /\ ~postRead'
         \/ next = "post" /\ op.kind = "apRead" /\ ~postRead'
         \/ next = "read" /\ op.kind = "dpRead" /\ ~postRead'
         \/ next = "write" /\ op.kind = "write" /\ ~postRead'
  PROVE  WInv'
<1>0. /\ Typed /\ pc = from /\ ~block /\ pend' = p
      /\ UNCHANGED <<block, ops>> /\ buffered' = (from \in {"write", "blockWrite"})
  BY DEF Acked, WInv, Placed, command
<1>1. next \in Wire \cup {"fetch", "mask", "error"}
  BY DEF Wire
<1>2. /\ words' \in Seq(Words)
      /\ \/ pc' = "done" /\ status' = "error" /\ count' = count
         \/ pc' = "fetch" /\ status' = "ok" /\ count' = count + 1
         \/ pc' = next /\ status' = "ok" /\ count' = count /\ next \in Wire
  BY <1>0, <1>1, Ways
<1>3. Typed'
  BY <1>0, <1>1, <1>2 DEF Typed
<1>4. Placed'
  BY <1>0, <1>2 DEF Placed, Wire, LoopPlace, BlockPlace, op
<1>5. buffered' => checkWrite'
  BY <1>0 DEF LoopPlace, BlockPlace
<1>6. Checked' /\ Seen'
  BY <1>0, <1>2, <1>5 DEF Checked, Seen, Wire
<1> QED BY <1>3, <1>4, <1>6 DEF WInv

LEMMA CollectKeeps == WInv /\ Collect => WInv'
<1> SUFFICES ASSUME WInv, Collect PROVE WInv'
  OBVIOUS
<1>0. /\ Typed /\ pc = "collect" /\ count < Len(ops) /\ postRead
      /\ "collect" \in LoopPlace
  BY DEF Collect, Acked, WInv, Placed, Wire, LoopPlace, BlockPlace
<1>1. /\ pend \in Nat /\ count \in Nat /\ count + 1 \in Nat
      /\ <<Data(pend)>> \in Seq(Words) /\ StampOf(count + 1) \in Seq(Words)
      /\ <<Data(pend)>> \o StampOf(count + 1) \in Seq(Words)
  <2>1. pend \in Nat /\ count \in Nat /\ count + 1 \in Nat
    BY <1>0 DEF Typed
  <2> QED BY <2>1, WordsTyped
<1>2. CASE op.kind = "apRead"
  <2>1. /\ Acked("collect", count + 1)
        /\ Go(<<Data(pend)>> \o StampOf(count + 1), "fetch", "ok")
        /\ checkWrite' = FALSE /\ postRead' = postRead
    BY <1>2 DEF Collect
  <2>2. checkWrite' \in BOOLEAN /\ postRead' \in BOOLEAN
    BY <1>0, <2>1 DEF Typed
  <2> QED BY <1>0, <1>1, <2>1, <2>2, LoopKeeps
<1>3. CASE op.kind # "apRead"
  <2>1. /\ Acked("collect", pend) /\ Go(<<Data(pend)>>, Begin, "ok")
        /\ postRead' = FALSE /\ checkWrite' = checkWrite
    BY <1>3 DEF Collect
  <2>2. checkWrite' \in BOOLEAN /\ postRead' \in BOOLEAN
    BY <1>0, <2>1 DEF Typed
  <2>3. \/ Begin = "error" \/ Begin = "mask"
        \/ Begin = "match" /\ op.kind \in {"apMatch", "dpMatch"} /\ ~postRead'
        \/ Begin = "postMatch" /\ op.kind = "apMatch" /\ ~postRead'
        \/ Begin = "post" /\ op.kind = "apRead" /\ ~postRead'
        \/ Begin = "read" /\ op.kind = "dpRead" /\ ~postRead'
        \/ Begin = "write" /\ op.kind = "write" /\ ~postRead'
    BY <1>0, <2>1, BeginKinds
  <2> QED BY <1>0, <1>1, <2>1, <2>2, <2>3, LoopKeeps
<1> QED BY <1>2, <1>3

LEMMA MatchesKeep == WInv /\ (PostMatch \/ Match) => WInv'
<1> SUFFICES ASSUME WInv, PostMatch \/ Match PROVE WInv'
  OBVIOUS
<1>0. Typed
  BY DEF WInv
<1>1. CASE PostMatch
  <2>1. /\ Acked("postMatch", NoTransfer) /\ Go(<<>>, "match", "ok")
        /\ postRead' = postRead /\ checkWrite' = checkWrite
    BY <1>1 DEF PostMatch
  <2>2. /\ "postMatch" \in LoopPlace /\ count < Len(ops) /\ ~postRead
        /\ op.kind \in {"apMatch", "dpMatch"}
        /\ NoTransfer \in Nat /\ <<>> \in Seq(Words)
        /\ checkWrite' \in BOOLEAN /\ postRead' \in BOOLEAN
    BY <1>0, <2>1 DEF Acked, WInv, Placed, Typed, Wire, LoopPlace, BlockPlace, NoTransfer
  <2> QED BY <2>1, <2>2, LoopKeeps
<1>2. CASE Match
  <2>1. Acked("match", NoTransfer) /\ postRead' = postRead
    BY <1>2 DEF Match
  <2>2. /\ "match" \in LoopPlace /\ count < Len(ops) /\ ~postRead
        /\ op.kind \in {"apMatch", "dpMatch"}
        /\ NoTransfer \in Nat /\ <<>> \in Seq(Words)
        /\ postRead' \in BOOLEAN
    BY <1>0, <2>1 DEF Acked, WInv, Placed, Typed, Wire, LoopPlace, BlockPlace, NoTransfer
  <2>3. CASE Go(<<>>, "fetch", "ok") /\ checkWrite' = FALSE
    BY <2>1, <2>2, <2>3, LoopKeeps
  <2>4. ASSUME UNCHANGED <<count, words, checkWrite>>,
               \/ UNCHANGED <<pc, status>>
               \/ pc' = "done" /\ status' = "mismatch"
        PROVE  WInv'
    <3>1. /\ UNCHANGED <<block, ops>> /\ pc = "match" /\ pend' = 0
          /\ buffered' \in BOOLEAN /\ ~buffered'
      BY <2>1, Buffers DEF Acked, command, NoTransfer
    <3>2. Typed'
      <4>1. /\ pc' \in Wire \cup {"fetch", "done"} /\ postRead' \in BOOLEAN
            /\ checkWrite' \in BOOLEAN /\ words' \in Seq(Words)
            /\ count' \in Nat /\ count' <= Len(ops)
        BY <1>0, <2>1, <2>4 DEF Typed
      <4> QED BY <1>0, <3>1, <4>1, TypedKeeps
    <3>3. Placed'
      BY <2>1, <2>2, <2>4, <3>1 DEF WInv, Placed, Wire, LoopPlace, BlockPlace, op
    <3> QED BY <3>1, <3>2, <3>3 DEF WInv, Checked, Seen
  <2> QED BY <1>2, <2>3, <2>4 DEF Match
<1> QED BY <1>1, <1>2

LEMMA SingleKeeps == WInv /\ (Post \/ DpRead \/ Write) => WInv'
<1> SUFFICES ASSUME WInv, Post \/ DpRead \/ Write PROVE WInv'
  OBVIOUS
<1>0. Typed
  BY DEF WInv
<1>1. /\ count \in Nat /\ count + 1 \in Nat /\ NoTransfer \in Nat
      /\ StampOf(count + 1) \in Seq(Words)
      /\ StampOf(count + 1) \o <<Data(count + 1)>> \in Seq(Words)
  <2>1. count \in Nat /\ count + 1 \in Nat
    BY <1>0 DEF Typed
  <2> QED BY <2>1, WordsTyped DEF NoTransfer
<1>2. CASE Post
  <2>1. /\ Acked("post", count + 1) /\ Go(StampOf(count + 1), "fetch", "ok")
        /\ postRead' = TRUE /\ checkWrite' = FALSE
    BY <1>2 DEF Post
  <2>2. "post" \in LoopPlace /\ count < Len(ops)
    BY <2>1 DEF Acked, WInv, Placed, Wire, LoopPlace, BlockPlace
  <2> QED BY <1>1, <2>1, <2>2, LoopKeeps
<1>3. CASE DpRead
  <2>1. /\ Acked("read", NoTransfer)
        /\ Go(StampOf(count + 1) \o <<Data(count + 1)>>, "fetch", "ok")
        /\ postRead' \in BOOLEAN /\ checkWrite' = FALSE
    BY <1>0, <1>3 DEF DpRead, Typed
  <2>2. "read" \in LoopPlace /\ count < Len(ops)
    BY <2>1 DEF Acked, WInv, Placed, Wire, LoopPlace, BlockPlace
  <2> QED BY <1>1, <2>1, <2>2, LoopKeeps
<1>4. CASE Write
  <2>1. /\ Acked("write", NoTransfer) /\ Go(StampOf(count + 1), "fetch", "ok")
        /\ postRead' \in BOOLEAN /\ checkWrite' = TRUE
    BY <1>0, <1>4 DEF Write, Typed
  <2>2. "write" \in LoopPlace /\ count < Len(ops)
    BY <2>1 DEF Acked, WInv, Placed, Wire, LoopPlace, BlockPlace
  <2> QED BY <1>1, <2>1, <2>2, LoopKeeps
<1> QED BY <1>2, <1>3, <1>4

\* The last transfer of a command: the RDBUFF read after it leaves nothing
\* buffered.
LEMMA LastKeeps == WInv /\ (Final \/ BlockFlush) => WInv'
<1> SUFFICES ASSUME WInv, Final \/ BlockFlush PROVE WInv'
  OBVIOUS
<1>0. Typed /\ pend \in Nat /\ <<Data(pend)>> \in Seq(Words) /\ <<>> \in Seq(Words)
  <2>1. Typed /\ pend \in Nat
    BY DEF WInv, Typed
  <2> QED BY <2>1, WordsTyped
<1>1. /\ pc' = "done" /\ buffered' \in BOOLEAN /\ ~buffered' /\ pend' = pend
      /\ UNCHANGED <<block, ops, count, postRead, checkWrite>>
      /\ pc = "final" \/ pc = "blockFlush"
  <2>1. CASE Final
    BY <2>1, Buffers DEF Final, Acked, command
  <2>2. CASE BlockFlush
    BY <2>2, Buffers DEF BlockFlush, Acked, command
  <2> QED BY <2>1, <2>2
<1>2. words' \in Seq(Words)
  <2>1. words \in Seq(Words)
    BY <1>0 DEF Typed
  <2>2. CASE Final
    BY <1>0, <2>1, <2>2 DEF Final
  <2> QED BY <2>1, <2>2 DEF BlockFlush
<1>3. Typed'
  <2>1. /\ count' \in Nat /\ count' <= Len(ops) /\ postRead' \in BOOLEAN
        /\ checkWrite' \in BOOLEAN
    BY <1>0, <1>1 DEF Typed
  <2> QED BY <1>0, <1>1, <1>2, <2>1, TypedKeeps
<1>4. block => ~postRead
  BY DEF WInv, Placed
<1>5. Placed'
  BY <1>1, <1>4 DEF Placed, Wire, LoopPlace, BlockPlace
<1> QED BY <1>1, <1>3, <1>5 DEF WInv, Checked, Seen

LEMMA BlockKeeps == WInv /\ (BlockPost \/ BlockRead \/ BlockWrite) => WInv'
<1> SUFFICES ASSUME WInv, BlockPost \/ BlockRead \/ BlockWrite PROVE WInv'
  OBVIOUS
<1>0. /\ Typed /\ block /\ count < Len(ops) /\ ~postRead /\ op.kind \in Read \cup {"write"}
      /\ UNCHANGED <<block, ops, postRead, checkWrite>>
  BY DEF BlockPost, BlockRead, BlockWrite, Acked, command, WInv, Placed, Wire, BlockPlace, Read
<1>1. /\ count \in Nat /\ pend \in Nat /\ words \in Seq(Words) /\ Len(ops) \in Nat
      /\ <<>> \in Seq(Words)
      /\ \A n \in Nat : Data(n) \in Words
  <2>1. /\ count \in Nat /\ pend \in Nat /\ words \in Seq(Words) /\ Len(ops) \in Nat
        /\ <<>> \in Seq(Words)
    BY <1>0 DEF Typed
  <2> QED BY <2>1, WordsTyped
\* Every transfer of the block is of the same kind.
<1>2. count + 1 < Len(ops) => ops[count + 2].kind = op.kind
  BY <1>0, <1>1 DEF Typed, op
<1>3. CASE BlockPost
  <2>1. /\ pc = "blockPost" /\ pend' = 1 /\ Go(<<>>, "blockRead", "ok")
        /\ buffered' \in BOOLEAN /\ ~buffered'
        /\ op.kind = "apRead"
    BY <1>3, Buffers DEF BlockPost, Acked, WInv, Placed
  <2>2. "blockRead" \in Wire \cup {"fetch", "mask", "error"}
    BY DEF Wire
  <2>3. /\ words' \in Seq(Words) /\ count' = count
        /\ \/ pc' = "done" \/ pc' = "blockRead"
    BY <1>0, <1>1, <2>1, <2>2, Ways
  <2>4. Typed'
    <3>1. /\ pc' \in Wire \cup {"fetch", "done"} /\ postRead' \in BOOLEAN
          /\ checkWrite' \in BOOLEAN /\ count' \in Nat /\ count' <= Len(ops)
      BY <1>0, <1>1, <2>3 DEF Typed, Wire
    <3> QED BY <1>0, <2>1, <2>3, <3>1, TypedKeeps
  <2>5. Placed'
    BY <1>0, <2>1, <2>3 DEF Placed, Wire, LoopPlace, BlockPlace, op, Read
  <2> QED BY <2>1, <2>3, <2>4, <2>5 DEF WInv, Checked, Seen
<1>4. CASE BlockRead
  <2>1. /\ pc = "blockRead" /\ buffered' \in BOOLEAN /\ ~buffered' /\ op.kind \in Read
        /\ count' = count + 1
        /\ pc' = IF count + 1 = Len(ops) THEN "done" ELSE "blockRead"
    BY <1>4, Buffers DEF BlockRead, Acked, WInv, Placed
  <2>2. pend' \in Nat
    BY <1>1, <1>4 DEF BlockRead, Acked, NoTransfer
  <2>3. words' \in Seq(Words)
    <3>1. words' = Append(words, Data(IF op.kind = "apRead" THEN pend ELSE count + 1))
      BY <1>4 DEF BlockRead
    <3>2. (IF op.kind = "apRead" THEN pend ELSE count + 1) \in Nat
      BY <1>1
    <3>3. Data(IF op.kind = "apRead" THEN pend ELSE count + 1) \in Words
      BY <1>1, <3>2
    <3> QED BY <1>1, <3>1, <3>3
  <2>4. Typed'
    <3>1. /\ pc' \in Wire \cup {"fetch", "done"} /\ postRead' \in BOOLEAN
          /\ checkWrite' \in BOOLEAN /\ count' \in Nat /\ count' <= Len(ops)
      BY <1>0, <1>1, <2>1 DEF Typed, Wire
    <3> QED BY <1>0, <2>1, <2>2, <2>3, <3>1, TypedKeeps
  <2>5. Placed'
    BY <1>0, <1>1, <1>2, <2>1 DEF Placed, Wire, LoopPlace, BlockPlace, op
  <2> QED BY <2>1, <2>4, <2>5 DEF WInv, Checked, Seen
<1>5. CASE BlockWrite
  <2>1. /\ pc = "blockWrite" /\ op.kind = "write" /\ pend' = 0
        /\ count' = count + 1 /\ words' = words /\ buffered' \in BOOLEAN
        /\ pc' = IF count + 1 = Len(ops) THEN "blockFlush" ELSE "blockWrite"
    BY <1>5 DEF BlockWrite, Acked, WInv, Placed, NoTransfer
  <2>2. Typed'
    BY <1>0, <1>1, <2>1 DEF Typed, Wire
  <2>3. Placed'
    BY <1>0, <1>1, <1>2, <2>1 DEF Placed, Wire, LoopPlace, BlockPlace, op
  <2> QED BY <2>1, <2>2, <2>3 DEF WInv, Checked, Seen
<1> QED BY <1>3, <1>4, <1>5

LEMMA WKeeps == WInv /\ [Next]_vars => WInv'
<1> SUFFICES ASSUME WInv, [Next]_vars PROVE WInv'
  OBVIOUS
<1>1. CASE UNCHANGED vars
  BY <1>1 DEF vars, WInv, Typed, Placed, Checked, Seen, op
<1> QED BY <1>1, FetchKeeps, FetchBlockKeeps, WaitFailKeep, CollectKeeps, MatchesKeep,
           SingleKeeps, LastKeeps, BlockKeeps DEF Next

LEMMA Inductive == Spec => []WInv
BY WKeeps, Initially, PTL DEF Spec

\* Status OK is not reported while a write sits in the target unchecked, for
\* commands of every length: check_write is set by a write, survives to the end
\* of the command unless another transfer tells, and the end reads RDBUFF.
THEOREM WritesAreTaken == Spec => []WritesTaken
<1>1. WInv => WritesTaken
  BY DEF WInv, Checked, WritesTaken, Replied, Done
<1> QED BY <1>1, Inductive, PTL

-----------------------------------------------------------------------------
(* The words of a reply: which transfer each is the result of, and which of *)
(* them are missing.                                                        *)

Key(w) == 2 * w.op + w.part
Sorted(s) == \A i, j \in 1..Len(s) : i < j => Key(s[i]) < Key(s[j])
In(s) == {s[i] : i \in 1..Len(s)}

\* The words the first n transfers owe the host.
Owes(n) ==
  {Data(m) : m \in {k \in 1..n : ops[k].kind \in Read}}
    \cup {Stamp(m) : m \in {k \in 1..n :
                              ops[k].stamp /\ ops[k].kind \in Read \cup {"write"}}}

\* s holds them all, in order, but for the data of the last when it is posted.
Piece(s, n, posted) ==
  /\ Sorted(s)
  /\ In(s) = Owes(n) \ (IF posted THEN {Data(n)} ELSE {})

Told ==
  IF pc # "done" THEN Piece(words, count, postRead)
  ELSE /\ Sorted(words) /\ In(words) \subseteq Owes(count)
       /\ status # "error" => Piece(words, count, postRead /\ status # "ok")

\* What the target holds is the data of the read that was posted last.
Held ==
  /\ pc # "done" /\ postRead => pend = count /\ count >= 1 /\ ops[count].kind = "apRead"
  /\ pc = "blockPost" => count = 0
  /\ pc = "blockRead" /\ op.kind = "apRead" => pend = count + 1

Finished == pc = "done" /\ status = "ok" => count = Len(ops)

OInv == WInv /\ Told /\ Held /\ Finished

LEMMA Concat ==
  ASSUME NEW s \in Seq(Words), NEW t \in Seq(Words)
  PROVE  /\ s \o t \in Seq(Words)
         /\ In(s \o t) = In(s) \cup In(t)
         /\ (/\ Sorted(s) /\ Sorted(t)
             /\ \A v \in In(s), w \in In(t) : Key(v) < Key(w))
            => Sorted(s \o t)
<1>1. /\ s \o t \in Seq(Words) /\ Len(s \o t) = Len(s) + Len(t)
      /\ Len(s) \in Nat /\ Len(t) \in Nat
      /\ \A i \in 1..Len(s) : (s \o t)[i] = s[i]
      /\ \A i \in 1..Len(s) + Len(t) : i > Len(s) => (s \o t)[i] = t[i - Len(s)]
  OBVIOUS
<1>2. In(s \o t) = In(s) \cup In(t)
  <2>1. ASSUME NEW i \in 1..Len(s \o t) PROVE (s \o t)[i] \in In(s) \cup In(t)
    BY <1>1 DEF In
  <2>2. ASSUME NEW i \in 1..Len(s) PROVE s[i] \in In(s \o t)
    <3>1. i \in 1..Len(s \o t) /\ (s \o t)[i] = s[i]
      BY <1>1
    <3> QED BY <3>1 DEF In
  <2>3. ASSUME NEW i \in 1..Len(t) PROVE t[i] \in In(s \o t)
    <3>1. Len(s) + i \in 1..Len(s \o t) /\ (s \o t)[Len(s) + i] = t[i]
      BY <1>1
    <3> QED BY <3>1 DEF In
  <2> QED BY <2>1, <2>2, <2>3 DEF In
<1>3. ASSUME Sorted(s), Sorted(t), \A v \in In(s), w \in In(t) : Key(v) < Key(w),
             NEW i \in 1..Len(s \o t), NEW j \in 1..Len(s \o t), i < j
      PROVE  Key((s \o t)[i]) < Key((s \o t)[j])
  <2>1. CASE j <= Len(s)
    BY <1>1, <1>3, <2>1 DEF Sorted
  <2>2. CASE i > Len(s)
    <3>1. /\ i - Len(s) \in 1..Len(t) /\ j - Len(s) \in 1..Len(t) /\ i - Len(s) < j - Len(s)
          /\ (s \o t)[i] = t[i - Len(s)] /\ (s \o t)[j] = t[j - Len(s)]
      BY <1>1, <1>3, <2>2
    <3> QED BY <1>3, <3>1 DEF Sorted
  <2>3. CASE i <= Len(s) /\ j > Len(s)
    <3>1. /\ i \in 1..Len(s) /\ j - Len(s) \in 1..Len(t)
          /\ (s \o t)[i] = s[i] /\ (s \o t)[j] = t[j - Len(s)]
      BY <1>1, <2>3
    <3>2. s[i] \in In(s) /\ t[j - Len(s)] \in In(t)
      BY <3>1 DEF In
    <3> QED BY <1>3, <3>1, <3>2
  <2> QED BY <1>1, <2>1, <2>2, <2>3
<1>4. (/\ Sorted(s) /\ Sorted(t)
       /\ \A v \in In(s), w \in In(t) : Key(v) < Key(w)) => Sorted(s \o t)
  BY <1>3 DEF Sorted
<1> QED BY <1>1, <1>2, <1>4

LEMMA Singletons ==
  ASSUME NEW w \in Words
  PROVE  In(<<w>>) = {w} /\ Sorted(<<w>>) /\ <<w>> \in Seq(Words)
BY DEF In, Sorted

LEMMA Empty == In(<<>>) = {} /\ Sorted(<<>>) /\ <<>> \in Seq(Words)
BY DEF In, Sorted

LEMMA Keys ==
  ASSUME NEW n \in Nat
  PROVE  /\ Data(n) \in Words /\ Stamp(n) \in Words
         /\ Key(Data(n)) = 2 * n + 2 /\ Key(Stamp(n)) = 2 * n + 1
BY DEF Data, Stamp, Words, Key

LEMMA OwesKeys ==
  ASSUME NEW n \in Nat, NEW x \in Owes(n)
  PROVE  /\ x \in Words /\ Key(x) \in Nat /\ Key(x) <= 2 * n + 2
         /\ x # Data(n) => Key(x) <= 2 * n + 1
<1>1. CASE \E m \in 1..n : x = Data(m)
  <2>1. PICK m \in 1..n : x = Data(m)
    BY <1>1
  <2>2. m \in Nat /\ m <= n /\ x \in Words /\ Key(x) = 2 * m + 2
    BY <2>1, Keys
  <2>3. x # Data(n) => m # n
    BY <2>1
  <2> QED BY <2>2, <2>3
<1>2. CASE \E m \in 1..n : x = Stamp(m)
  <2>1. PICK m \in 1..n : x = Stamp(m)
    BY <1>2
  <2>2. m \in Nat /\ m <= n /\ x \in Words /\ Key(x) = 2 * m + 1
    BY <2>1, Keys
  <2> QED BY <2>2
<1> QED BY <1>1, <1>2 DEF Owes

LEMMA OwesNext ==
  ASSUME Typed, count < Len(ops), NEW x
  PROVE  x \in Owes(count + 1) <=>
           \/ x \in Owes(count)
           \/ x = Data(count + 1) /\ op.kind \in Read
           \/ x = Stamp(count + 1) /\ op.stamp /\ op.kind \in Read \cup {"write"}
<1>1. count \in Nat /\ 1..count + 1 = 1..count \cup {count + 1}
  BY DEF Typed
<1> QED BY <1>1 DEF Owes, op

\* The next transfer's words put behind those of the first count.
LEMMA Grow ==
  ASSUME Typed, count < Len(ops), NEW s \in Seq(Words), Piece(s, count, FALSE),
         NEW t \in Seq(Words), Sorted(t), NEW p \in BOOLEAN,
         p => op.kind \in Read,
         \A x : x \in In(t) <=>
           \/ x = Data(count + 1) /\ op.kind \in Read /\ ~p
           \/ x = Stamp(count + 1) /\ op.stamp /\ op.kind \in Read \cup {"write"}
  PROVE  Piece(s \o t, count + 1, p)
<1>1. count \in Nat /\ count + 1 \in Nat
  BY DEF Typed
<1>2. Sorted(s) /\ In(s) = Owes(count)
  BY DEF Piece
<1>3. /\ Key(Data(count + 1)) = 2 * (count + 1) + 2
      /\ Key(Stamp(count + 1)) = 2 * (count + 1) + 1
  BY <1>1, Keys
<1>4. \A v \in Owes(count) : Key(v) \in Nat /\ Key(v) <= 2 * count + 2
  BY <1>1, OwesKeys
<1>5. \A v \in In(s), w \in In(t) : Key(v) < Key(w)
  <2>1. \A w \in In(t) : Key(w) = 2 * (count + 1) + 2 \/ Key(w) = 2 * (count + 1) + 1
    BY <1>3
  <2> QED BY <1>1, <1>2, <1>4, <2>1
<1>6. Sorted(s \o t) /\ In(s \o t) = Owes(count) \cup In(t)
  BY <1>2, <1>5, Concat
<1>7. Data(count + 1) \notin Owes(count) /\ Data(count + 1) # Stamp(count + 1)
  BY <1>1, <1>3, <1>4
<1>8. ASSUME NEW x
      PROVE  x \in In(s \o t) <=> x \in Owes(count + 1) \ (IF p THEN {Data(count + 1)} ELSE {})
  <2>1. x \in Owes(count + 1) <=>
          \/ x \in Owes(count)
          \/ x = Data(count + 1) /\ op.kind \in Read
          \/ x = Stamp(count + 1) /\ op.stamp /\ op.kind \in Read \cup {"write"}
    BY OwesNext
  <2>2. CASE p
    BY <1>6, <1>7, <2>1, <2>2
  <2>3. CASE ~p
    BY <1>6, <2>1, <2>3
  <2> QED BY <2>2, <2>3
<1> QED BY <1>6, <1>8 DEF Piece

\* The data of the read posted last, put behind all the others.
LEMMA Collected ==
  ASSUME Typed, words \in Seq(Words), Piece(words, count, TRUE),
         count >= 1, ops[count].kind \in Read
  PROVE  /\ <<Data(count)>> \in Seq(Words)
         /\ words \o <<Data(count)>> \in Seq(Words)
         /\ Piece(words \o <<Data(count)>>, count, FALSE)
<1>1. /\ count \in Nat /\ Data(count) \in Words /\ <<Data(count)>> \in Seq(Words)
      /\ Key(Data(count)) = 2 * count + 2
      /\ In(<<Data(count)>>) = {Data(count)} /\ Sorted(<<Data(count)>>)
  <2>1. count \in Nat
    BY DEF Typed
  <2>2. Data(count) \in Words /\ Key(Data(count)) = 2 * count + 2
    BY <2>1, Keys
  <2> QED BY <2>1, <2>2, Singletons
<1>2. Data(count) \in Owes(count)
  BY <1>1 DEF Owes
<1>3. Sorted(words) /\ In(words) = Owes(count) \ {Data(count)}
  BY DEF Piece
<1>4. \A v \in In(words), w \in In(<<Data(count)>>) : Key(v) < Key(w)
  <2>1. \A v \in Owes(count) : v # Data(count) => Key(v) \in Nat /\ Key(v) <= 2 * count + 1
    BY <1>1, OwesKeys
  <2> QED BY <1>1, <1>3, <2>1
<1>5. /\ words \o <<Data(count)>> \in Seq(Words) /\ Sorted(words \o <<Data(count)>>)
      /\ In(words \o <<Data(count)>>) = In(words) \cup {Data(count)}
  BY <1>1, <1>3, <1>4, Concat
<1> QED BY <1>1, <1>2, <1>3, <1>5 DEF Piece

\* What each kind of transfer puts in the reply.
LEMMA Posted ==
  ASSUME Typed, count < Len(ops), NEW s \in Seq(Words), Piece(s, count, FALSE),
         op.kind = "apRead"
  PROVE  Piece(s \o StampOf(count + 1), count + 1, TRUE)
<1>1. count + 1 \in Nat /\ Stamp(count + 1) \in Words
  BY Keys DEF Typed
<1>2. CASE op.stamp
  <2>1. StampOf(count + 1) = <<Stamp(count + 1)>>
    BY <1>2 DEF StampOf, op
  <2> QED BY <1>1, <1>2, <2>1, Singletons, Grow DEF Read
<1>3. CASE ~op.stamp
  <2>1. StampOf(count + 1) = <<>>
    BY <1>3 DEF StampOf, op
  <2> QED BY <1>3, <2>1, Empty, Grow DEF Read
<1> QED BY <1>2, <1>3

LEMMA Written ==
  ASSUME Typed, count < Len(ops), NEW s \in Seq(Words), Piece(s, count, FALSE),
         op.kind = "write"
  PROVE  Piece(s \o StampOf(count + 1), count + 1, FALSE)
<1>1. count + 1 \in Nat /\ Stamp(count + 1) \in Words
  BY Keys DEF Typed
<1>2. CASE op.stamp
  <2>1. StampOf(count + 1) = <<Stamp(count + 1)>>
    BY <1>2 DEF StampOf, op
  <2> QED BY <1>1, <1>2, <2>1, Singletons, Grow DEF Read
<1>3. CASE ~op.stamp
  <2>1. StampOf(count + 1) = <<>>
    BY <1>3 DEF StampOf, op
  <2> QED BY <1>3, <2>1, Empty, Grow DEF Read
<1> QED BY <1>2, <1>3

LEMMA ReadAlone ==
  ASSUME Typed, count < Len(ops), NEW s \in Seq(Words), Piece(s, count, FALSE),
         op.kind \in Read
  PROVE  /\ Piece(s \o (StampOf(count + 1) \o <<Data(count + 1)>>), count + 1, FALSE)
         /\ ~op.stamp => Piece(s \o <<Data(count + 1)>>, count + 1, FALSE)
<1>1. /\ count + 1 \in Nat /\ Stamp(count + 1) \in Words /\ Data(count + 1) \in Words
      /\ Key(Stamp(count + 1)) = 2 * (count + 1) + 1
      /\ Key(Data(count + 1)) = 2 * (count + 1) + 2
  <2>1. count + 1 \in Nat
    BY DEF Typed
  <2> QED BY <2>1, Keys
<1>2. /\ In(<<Data(count + 1)>>) = {Data(count + 1)} /\ Sorted(<<Data(count + 1)>>)
      /\ <<Data(count + 1)>> \in Seq(Words)
      /\ In(<<Stamp(count + 1)>>) = {Stamp(count + 1)} /\ Sorted(<<Stamp(count + 1)>>)
      /\ <<Stamp(count + 1)>> \in Seq(Words)
  BY <1>1, Singletons
<1>3. CASE op.stamp
  <2>1. StampOf(count + 1) = <<Stamp(count + 1)>>
    BY <1>3 DEF StampOf, op
  <2> DEFINE t == <<Stamp(count + 1)>> \o <<Data(count + 1)>>
  <2>2. /\ t \in Seq(Words) /\ Sorted(t)
        /\ In(t) = {Stamp(count + 1)} \cup {Data(count + 1)}
    <3>1. \A v \in In(<<Stamp(count + 1)>>), w \in In(<<Data(count + 1)>>) : Key(v) < Key(w)
      BY <1>1, <1>2
    <3> QED BY <1>2, <3>1, Concat
  <2> HIDE DEF t
  <2>3. Piece(s \o t, count + 1, FALSE)
    BY <1>3, <2>2, Grow
  <2> QED BY <1>3, <2>1, <2>3 DEF t
<1>4. CASE ~op.stamp
  <2>1. StampOf(count + 1) = <<>>
    BY <1>4 DEF StampOf, op
  <2>2. <<>> \o <<Data(count + 1)>> = <<Data(count + 1)>>
    BY <1>2, ConcatEmptySeq
  <2>3. Piece(s \o <<Data(count + 1)>>, count + 1, FALSE)
    BY <1>2, <1>4, Grow
  <2> QED BY <2>1, <2>2, <2>3
<1> QED BY <1>3, <1>4

LEMMA Silent ==
  ASSUME Typed, count < Len(ops), NEW s \in Seq(Words), Piece(s, count, FALSE),
         \/ op.kind \notin Read \cup {"write"}
         \/ op.kind = "write" /\ ~op.stamp
  PROVE  Piece(s, count + 1, FALSE)
<1>1. s \o <<>> = s
  BY ConcatEmptySeq
<1>2. op.kind \notin Read
  BY DEF Read
<1>3. Piece(s \o <<>>, count + 1, FALSE)
  BY <1>2, Empty, Grow
<1> QED BY <1>1, <1>3

LEMMA OInitially == Init => OInv
<1> SUFFICES ASSUME Init PROVE OInv
  OBVIOUS
<1>1. WInv
  BY Initially
<1>2. pc = "fetch" /\ count = 0 /\ postRead = FALSE /\ words = <<>>
  BY Zenon DEF Init
<1>3. Owes(0) = {}
  BY DEF Owes
<1>4. Piece(words, count, postRead)
  BY <1>2, <1>3, Empty DEF Piece
<1> QED BY <1>1, <1>2, <1>4 DEF OInv, Told, Held, Finished

\* The code goes on to the next wire transfer, and the reply stays in step.
LEMMA GoTells ==
  ASSUME OInv, pc # "done", UNCHANGED <<block, ops>>, postRead' \in BOOLEAN,
         NEW ws \in Seq(Words), NEW st,
         NEW next \in Wire \cup {"fetch", "mask", "error"}, Go(ws, next, st),
         next \in {"fetch", "mask"} =>
           /\ Piece(words \o ws, count + 1, postRead')
           /\ postRead' => pend' = count + 1 /\ op.kind = "apRead",
         next \in Wire =>
           /\ Piece(words \o ws, count, postRead')
           /\ postRead' => pend' = count /\ count >= 1 /\ ops[count].kind = "apRead",
         next = "blockPost" => count = 0,
         next = "blockRead" /\ op.kind = "apRead" => pend' = count + 1
  PROVE  Told' /\ Held' /\ Finished'
<1>1. Typed /\ count \in Nat
  BY DEF OInv, WInv, Typed
<1>2. CASE pc' = "done" /\ status' = "error" /\ words' = words /\ count' = count
  <2>1. Sorted(words) /\ In(words) \subseteq Owes(count)
    BY DEF OInv, Told, Piece
  <2> QED BY <1>2, <2>1 DEF Told, Held, Finished, Sorted, In, Owes, Data, Stamp
<1>3. CASE /\ pc' = "fetch" /\ words' = words \o ws
           /\ count' = count + 1 /\ next \in {"fetch", "mask"}
  <2>1. Piece(words', count', postRead')
    BY <1>3
  <2>2. Told'
    BY <1>3, <2>1 DEF Told, Piece, Owes, Data, Stamp
  <2> QED BY <1>1, <1>3, <2>2 DEF Held, Finished, op
<1>4. CASE /\ pc' = next /\ words' = words \o ws /\ count' = count /\ next \in Wire
  <2>1. Piece(words', count', postRead')
    BY <1>4
  <2>2. pc' # "done"
    BY <1>4 DEF Wire
  <2>3. Told'
    BY <2>1, <2>2 DEF Told, Piece, Owes, Data, Stamp
  <2> QED BY <1>1, <1>4, <2>2, <2>3 DEF Held, Finished, op
<1> QED BY <1>1, <1>2, <1>3, <1>4, Ways

LEMMA FetchTells == OInv /\ Fetch => Told' /\ Held' /\ Finished'
<1> SUFFICES ASSUME OInv, Fetch PROVE Told' /\ Held' /\ Finished'
  OBVIOUS
<1>0. /\ pc = "fetch" /\ ~block /\ Typed /\ Piece(words, count, postRead)
      /\ postRead \in BOOLEAN /\ words \in Seq(Words)
      /\ UNCHANGED <<block, ops, postRead, pend>>
  BY DEF Fetch, command, OInv, WInv, Typed, Told
<1>1. CASE /\ count = Len(ops) /\ UNCHANGED <<count, status, words>>
           /\ pc' = IF status = "ok" /\ (postRead \/ checkWrite) THEN "final" ELSE "done"
  <2>1. Piece(words, count, postRead)'
    BY <1>0, <1>1 DEF Piece, Owes, Data, Stamp
  <2>2. pc' = "done" /\ status' = "ok" => ~postRead
    BY <1>1
  <2>3. Told'
    <3>1. Sorted(words)' /\ (In(words) \subseteq Owes(count))'
      BY <2>1 DEF Piece
    <3>2. CASE pc' = "done" /\ status' = "ok"
      <4>1. ~postRead /\ ~postRead'
        BY <1>0, <2>2, <3>2
      <4>2. Piece(words, count, FALSE)'
        BY <2>1, <4>1 DEF Piece
      <4> QED BY <3>1, <3>2, <4>1, <4>2 DEF Told, Piece
    <3>3. CASE pc' = "done" /\ status' # "ok"
      BY <2>1, <3>1, <3>3 DEF Told, Piece
    <3>4. CASE pc' # "done"
      BY <2>1, <3>4 DEF Told
    <3> QED BY <3>2, <3>3, <3>4
  <2> QED BY <1>0, <1>1, <2>3 DEF OInv, Held, Finished, op
<1>2. ASSUME count < Len(ops), NEW next \in {CollectFirst, "error"}, Go(<<>>, next, status)
      PROVE  Told' /\ Held' /\ Finished'
  <2>1. \/ next \in {"collect", "error"}
        \/ ~postRead /\ next \in {"postMatch", "match", "post", "read", "write"}
        \/ ~postRead /\ next = "mask" /\ op.kind = "mask"
    BY <1>0, <1>2, BeginKinds DEF CollectFirst
  <2>2. <<>> \in Seq(Words) /\ next \in Wire \cup {"fetch", "mask", "error"}
    BY <2>1 DEF Wire
  <2>3. words \o <<>> = words
    BY <1>0, ConcatEmptySeq
  <2>4. next \in {"fetch", "mask"} => ~postRead /\ Piece(words \o <<>>, count + 1, postRead')
    <3>1. ASSUME next \in {"fetch", "mask"}
          PROVE  ~postRead /\ op.kind = "mask" /\ postRead = FALSE
      BY <1>0, <2>1, <3>1
    <3>2. ASSUME next \in {"fetch", "mask"} PROVE Piece(words, count + 1, FALSE)
      BY <1>0, <1>2, <3>1, <3>2, Silent DEF Read
    <3> QED BY <1>0, <2>3, <3>1, <3>2
  <2>5. next \in Wire => Piece(words \o <<>>, count, postRead')
    BY <1>0, <2>3
  <2>6. postRead => pend' = count /\ count >= 1 /\ ops[count].kind = "apRead"
    BY <1>0 DEF OInv, Held
  <2>7. next # "blockPost" /\ next # "blockRead"
    BY <2>1
  <2> QED BY <1>0, <1>2, <2>2, <2>4, <2>5, <2>6, <2>7, GoTells
<1> QED BY <1>1, <1>2 DEF Fetch

LEMMA FetchBlockTells == OInv /\ FetchBlock => Told' /\ Held' /\ Finished'
<1> SUFFICES ASSUME OInv, FetchBlock PROVE Told' /\ Held' /\ Finished'
  OBVIOUS
<1>0. /\ pc = "fetch" /\ block /\ count = 0 /\ ~postRead /\ Typed
      /\ Piece(words, count, postRead) /\ postRead \in BOOLEAN /\ words \in Seq(Words)
      /\ UNCHANGED <<block, ops, postRead, pend>>
  BY DEF FetchBlock, command, OInv, WInv, Placed, Typed, Told
<1>1. CASE ops = <<>> /\ pc' = "done" /\ UNCHANGED <<status, words, count>>
  <2>1. (Piece(words, count, FALSE) /\ In(words) \subseteq Owes(count) /\ Sorted(words))'
    BY <1>0, <1>1 DEF Piece, Owes, Data, Stamp
  <2>2. Told'
    BY <1>0, <1>1, <2>1 DEF Told, Piece
  <2> QED BY <1>0, <1>1, <2>2 DEF Held, Finished
<1>2. ASSUME ops # <<>>, NEW next, Go(<<>>, next, status),
             \/ next = "error" \/ next = "blockWrite" \/ next = "blockPost"
             \/ next = "blockRead" /\ op.kind = "dpRead"
      PROVE  Told' /\ Held' /\ Finished'
  <2>1. <<>> \in Seq(Words) /\ next \in Wire \cup {"fetch", "mask", "error"}
        /\ next \notin {"fetch", "mask"}
    BY <1>2 DEF Wire
  <2>2. words \o <<>> = words
    BY <1>0, ConcatEmptySeq
  <2>3. next \in Wire => Piece(words \o <<>>, count, postRead')
    BY <1>0, <2>2
  <2>4. next = "blockRead" => op.kind # "apRead"
    BY <1>2
  <2> QED BY <1>0, <1>2, <2>1, <2>3, <2>4, GoTells
<1>3. op.kind \in Read \cup {"write"} \/ ops = <<>>
  BY <1>0 DEF Typed, op
<1> QED BY <1>0, <1>1, <1>2, <1>3 DEF FetchBlock, Read

\* A retry changes nothing, and a failed transfer leaves the words as they are.
LEMMA WaitFailTells == OInv /\ (Wait \/ Fail) => Told' /\ Held' /\ Finished'
<1> SUFFICES ASSUME OInv, Wait \/ Fail PROVE Told' /\ Held' /\ Finished'
  OBVIOUS
<1>0. /\ pc # "done" /\ Piece(words, count, postRead)
      /\ UNCHANGED <<block, ops, count, postRead, words, pend>>
  BY DEF Wait, Fail, command, OInv, Told, Wire
<1>1. Piece(words, count, postRead)'
  BY <1>0 DEF Piece, Owes, Data, Stamp
<1>2. CASE Wait
  BY <1>0, <1>1, <1>2 DEF Wait, OInv, Told, Held, Finished, op
<1>3. CASE Fail
  <2>1. pc' = "done" /\ status' # "ok" /\ status' # "error"
    BY <1>3 DEF Fail
  <2>2. Told'
    BY <1>1, <2>1 DEF Told, Piece
  <2> QED BY <2>1, <2>2 DEF Held, Finished
<1> QED BY <1>2, <1>3

LEMMA CollectTells == OInv /\ Collect => Told' /\ Held' /\ Finished'
<1> SUFFICES ASSUME OInv, Collect PROVE Told' /\ Held' /\ Finished'
  OBVIOUS
<1>0. /\ Typed /\ count \in Nat /\ count < Len(ops) /\ words \in Seq(Words)
      /\ pc = "collect" /\ pc # "done" /\ postRead = TRUE /\ UNCHANGED <<block, ops>>
      /\ pend = count /\ count >= 1 /\ ops[count].kind = "apRead"
      /\ Piece(words, count, TRUE)
  <2>1. pc = "collect" /\ UNCHANGED <<block, ops>>
    BY DEF Collect, Acked, command
  <2>2. Typed /\ postRead = TRUE /\ count < Len(ops)
    BY <2>1 DEF OInv, WInv, Typed, Placed, Wire
  <2> QED BY <2>1, <2>2 DEF OInv, Told, Held, Typed
<1>1. /\ <<Data(count)>> \in Seq(Words) /\ words \o <<Data(count)>> \in Seq(Words)
      /\ Piece(words \o <<Data(count)>>, count, FALSE)
  BY <1>0, Collected DEF Read
<1>2. StampOf(count + 1) \in Seq(Words)
  BY <1>0, WordsTyped
<1>3. CASE op.kind = "apRead"
  <2> DEFINE ws == <<Data(count)>> \o StampOf(count + 1)
  <2>1. /\ Go(ws, "fetch", "ok") /\ postRead' = TRUE /\ pend' = count + 1
    BY <1>0, <1>3 DEF Collect, Acked
  <2>2. ws \in Seq(Words) /\ words \o ws = (words \o <<Data(count)>>) \o StampOf(count + 1)
    BY SMTT(30), <1>0, <1>1, <1>2, ConcatAssociative, Concat
  <2> HIDE DEF ws
  <2>3. Piece(words \o ws, count + 1, TRUE)
    BY <1>0, <1>1, <1>3, <2>2, Posted
  <2>4. "fetch" \notin Wire /\ "fetch" # "blockPost" /\ "fetch" # "blockRead"
    BY DEF Wire
  <2> QED BY <1>0, <1>3, <2>1, <2>2, <2>3, <2>4, GoTells
<1>4. CASE op.kind # "apRead"
  <2>1. Go(<<Data(count)>>, Begin, "ok") /\ postRead' = FALSE
    BY <1>0, <1>4 DEF Collect
  <2>2. \/ Begin \in {"error", "postMatch", "match", "post", "read", "write"}
        \/ Begin = "mask" /\ op.kind = "mask"
    BY <1>0, BeginKinds
  <2>3. Begin \in Wire \cup {"fetch", "mask", "error"} /\ Begin # "blockPost" /\ Begin # "blockRead"
    BY <2>2 DEF Wire
  <2>4. Begin \in {"fetch", "mask"} => op.kind = "mask"
    BY <2>2
  <2>5. op.kind = "mask" => Piece(words \o <<Data(count)>>, count + 1, FALSE)
    BY <1>0, <1>1, Silent DEF Read
  <2> QED BY <1>0, <1>1, <2>1, <2>3, <2>4, <2>5, GoTells
<1> QED BY <1>3, <1>4

LEMMA MatchesTell == OInv /\ (PostMatch \/ Match) => Told' /\ Held' /\ Finished'
<1> SUFFICES ASSUME OInv, PostMatch \/ Match PROVE Told' /\ Held' /\ Finished'
  OBVIOUS
<1>0. /\ Typed /\ count \in Nat /\ count < Len(ops) /\ words \in Seq(Words)
      /\ pc \in {"postMatch", "match"} /\ pc # "done"
      /\ UNCHANGED <<block, ops, postRead>> /\ postRead = FALSE
      /\ op.kind \in {"apMatch", "dpMatch"} /\ Piece(words, count, FALSE)
  <2>1. pc \in {"postMatch", "match"} /\ UNCHANGED <<block, ops, postRead>>
    BY DEF PostMatch, Match, Acked, command
  <2>2. /\ Typed /\ postRead = FALSE /\ count < Len(ops) /\ op.kind \in {"apMatch", "dpMatch"}
    BY <2>1 DEF OInv, WInv, Typed, Placed, Wire
  <2> QED BY <2>1, <2>2 DEF OInv, Told, Typed
<1>1. words \o <<>> = words /\ <<>> \in Seq(Words)
  BY <1>0, ConcatEmptySeq
<1>2. CASE PostMatch
  <2>1. Go(<<>>, "match", "ok") /\ "match" \in Wire
    BY <1>2 DEF PostMatch, Wire
  <2> QED BY <1>0, <1>1, <2>1, GoTells
<1>3. CASE Go(<<>>, "fetch", "ok")
  <2>1. Piece(words \o <<>>, count + 1, FALSE)
    BY <1>0, <1>1, Silent DEF Read
  <2>2. "fetch" \notin Wire /\ "fetch" # "blockPost" /\ "fetch" # "blockRead"
    BY DEF Wire
  <2> QED BY <1>0, <1>1, <1>3, <2>1, <2>2, GoTells
<1>4. ASSUME UNCHANGED <<count, words>>,
             \/ UNCHANGED <<pc, status>>
             \/ pc' = "done" /\ status' = "mismatch"
      PROVE  Told' /\ Held' /\ Finished'
  <2>1. Piece(words, count, FALSE)'
    BY <1>0, <1>4 DEF Piece, Owes, Data, Stamp
  <2>2. Told'
    BY <1>0, <1>4, <2>1 DEF Told, Piece
  <2> QED BY <1>0, <1>4, <2>2 DEF Held, Finished
<1> QED BY <1>2, <1>3, <1>4 DEF Match

LEMMA SingleTells == OInv /\ (Post \/ DpRead \/ Write) => Told' /\ Held' /\ Finished'
<1> SUFFICES ASSUME OInv, Post \/ DpRead \/ Write PROVE Told' /\ Held' /\ Finished'
  OBVIOUS
<1>0. /\ Typed /\ count \in Nat /\ count < Len(ops) /\ words \in Seq(Words)
      /\ pc \in {"post", "read", "write"} /\ pc # "done"
      /\ UNCHANGED <<block, ops>> /\ postRead = FALSE
      /\ Piece(words, count, FALSE)
      /\ pc = "post" => op.kind = "apRead"
      /\ pc = "read" => op.kind = "dpRead"
      /\ pc = "write" => op.kind = "write"
  <2>1. pc \in {"post", "read", "write"} /\ UNCHANGED <<block, ops>>
    BY DEF Post, DpRead, Write, Acked, command
  <2>2. /\ Typed /\ postRead = FALSE /\ count < Len(ops)
    BY <2>1 DEF OInv, WInv, Typed, Placed, Wire
  <2> QED BY <2>1, <2>2 DEF OInv, WInv, Placed, Told, Typed
<1>1. /\ StampOf(count + 1) \in Seq(Words)
      /\ StampOf(count + 1) \o <<Data(count + 1)>> \in Seq(Words)
  BY <1>0, WordsTyped
<1>2. /\ "fetch" \notin Wire /\ "fetch" # "blockPost" /\ "fetch" # "blockRead"
  BY DEF Wire
<1>3. CASE Post
  <2>1. Go(StampOf(count + 1), "fetch", "ok") /\ postRead' = TRUE /\ pend' = count + 1
        /\ op.kind = "apRead"
    BY <1>0, <1>3 DEF Post, Acked
  <2>2. Piece(words \o StampOf(count + 1), count + 1, TRUE)
    BY <1>0, <2>1, Posted
  <2> QED BY <1>0, <1>1, <1>2, <2>1, <2>2, GoTells
<1>4. CASE DpRead
  <2>1. /\ Go(StampOf(count + 1) \o <<Data(count + 1)>>, "fetch", "ok") /\ postRead' = FALSE
        /\ op.kind = "dpRead"
    BY <1>0, <1>4 DEF DpRead, Acked
  <2>2. Piece(words \o (StampOf(count + 1) \o <<Data(count + 1)>>), count + 1, FALSE)
    BY <1>0, <2>1, ReadAlone DEF Read
  <2> QED BY <1>0, <1>1, <1>2, <2>1, <2>2, GoTells
<1>5. CASE Write
  <2>1. Go(StampOf(count + 1), "fetch", "ok") /\ postRead' = FALSE /\ op.kind = "write"
    BY <1>0, <1>5 DEF Write, Acked
  <2>2. Piece(words \o StampOf(count + 1), count + 1, FALSE)
    BY <1>0, <2>1, Written
  <2> QED BY <1>0, <1>1, <1>2, <2>1, <2>2, GoTells
<1> QED BY <1>3, <1>4, <1>5

\* The last read posted is collected, so the reply is whole.
LEMMA LastTells == OInv /\ (Final \/ BlockFlush) => Told' /\ Held' /\ Finished'
<1> SUFFICES ASSUME OInv, Final \/ BlockFlush PROVE Told' /\ Held' /\ Finished'
  OBVIOUS
<1>0. /\ Typed /\ count = Len(ops) /\ words \in Seq(Words) /\ postRead \in BOOLEAN
      /\ pc # "done" /\ pc' = "done" /\ UNCHANGED <<block, ops, count, postRead>>
      /\ Piece(words, count, postRead)
  <2>1. pc = "final" \/ pc = "blockFlush"
    BY DEF Final, BlockFlush, Acked
  <2>2. pc' = "done" /\ UNCHANGED <<block, ops, count, postRead>>
    BY DEF Final, BlockFlush, Acked, command
  <2> QED BY <2>1, <2>2 DEF OInv, WInv, Placed, Typed, Told
<1>1. ASSUME Piece(words', count, FALSE), status' = "ok"
      PROVE  Told' /\ Held' /\ Finished'
  <2>1. Told'
    BY <1>0, <1>1 DEF Told, Piece, Owes, Data, Stamp
  <2> QED BY <1>0, <2>1 DEF Held, Finished
<1>2. CASE Final
  <2>1. CASE postRead
    <3>1. pend = count /\ count >= 1 /\ ops[count].kind = "apRead" /\ Piece(words, count, TRUE)
      BY <1>0, <2>1 DEF OInv, Held, Piece
    <3>2. Piece(words \o <<Data(count)>>, count, FALSE)
      BY <1>0, <3>1, Collected DEF Read
    <3>3. \/ words' = words \o <<Data(count)>> /\ status' = "ok"
          \/ words' = words /\ status' = "error"
      BY <1>2, <2>1, <3>1 DEF Final
    <3>4. CASE words' = words /\ status' = "error"
      BY <1>0, <3>4 DEF Told, Held, Finished, Piece, Sorted, In, Owes, Data, Stamp
    <3> QED BY <1>1, <3>2, <3>3, <3>4
  <2>2. CASE ~postRead
    <3>1. Piece(words, count, FALSE) /\ words \o <<>> = words
      BY <1>0, <2>2, ConcatEmptySeq DEF Piece
    <3>2. words' = words /\ status' \in {"ok", "error"}
      BY <1>2, <2>2, <3>1 DEF Final
    <3>3. CASE status' = "error"
      BY <1>0, <3>2, <3>3 DEF Told, Held, Finished, Piece, Sorted, In, Owes, Data, Stamp
    <3> QED BY <1>1, <3>1, <3>2, <3>3
  <2> QED BY <2>1, <2>2
<1>3. CASE BlockFlush
  <2>1. postRead = FALSE /\ words' = words /\ status' = "ok"
    <3>1. pc = "blockFlush" /\ words' = words /\ status' = "ok"
      BY <1>3 DEF BlockFlush, Acked
    <3>2. ~postRead
      BY <3>1 DEF OInv, WInv, Placed, Wire
    <3> QED BY <1>0, <3>1, <3>2
  <2> QED BY <1>0, <1>1, <2>1
<1> QED BY <1>2, <1>3

LEMMA BlockTells ==
  OInv /\ (BlockPost \/ BlockRead \/ BlockWrite) => Told' /\ Held' /\ Finished'
<1> SUFFICES ASSUME OInv, BlockPost \/ BlockRead \/ BlockWrite
             PROVE  Told' /\ Held' /\ Finished'
  OBVIOUS
<1>0. /\ Typed /\ block /\ count \in Nat /\ count < Len(ops) /\ words \in Seq(Words)
      /\ pc # "done" /\ UNCHANGED <<block, ops, postRead>> /\ postRead = FALSE
      /\ Piece(words, count, FALSE)
  <2>1. pc \in {"blockPost", "blockRead", "blockWrite"} /\ UNCHANGED <<block, ops, postRead>>
    BY DEF BlockPost, BlockRead, BlockWrite, Acked, command
  <2>2. block /\ ~postRead /\ count < Len(ops)
    BY <2>1 DEF OInv, WInv, Placed, Wire, BlockPlace
  <2> QED BY <2>1, <2>2 DEF OInv, WInv, Told, Typed
<1>1. ~op.stamp
  BY <1>0 DEF Typed, op
<1>2. CASE BlockPost
  <2>1. /\ count = 0 /\ Go(<<>>, "blockRead", "ok") /\ pend' = 1
    BY <1>2 DEF BlockPost, Acked, OInv, Held
  <2>2. words \o <<>> = words /\ <<>> \in Seq(Words) /\ "blockRead" \in Wire
    BY <1>0, ConcatEmptySeq DEF Wire
  <2>3. /\ pend' = count + 1 /\ "blockRead" \notin {"fetch", "mask"}
        /\ Piece(words \o <<>>, count, postRead') /\ ~postRead'
    <3>1. pend' = count + 1 /\ "blockRead" \notin {"fetch", "mask"}
      BY <1>0, <2>1
    <3>2. postRead' = FALSE
      BY <1>0, Zenon
    <3> QED BY <1>0, <2>2, <3>1, <3>2, Zenon
  <2> QED BY <1>0, <2>1, <2>2, <2>3, GoTells
\* The words grow by one transfer and the command goes on or ends with them.
<1>3. ASSUME Piece(words', count + 1, FALSE), count' = count + 1, status' = "ok",
             \/ pc' = "done" /\ count + 1 = Len(ops)
             \/ pc' \in {"blockWrite", "blockFlush"}
             \/ pc' = "blockRead" /\ (op.kind' = "apRead" => pend' = count + 2)
      PROVE  Told' /\ Held' /\ Finished'
  <2>1. Told'
    BY <1>0, <1>3 DEF Told, Piece, Owes, Data, Stamp
  <2>2. Held'
    BY <1>0, <1>3 DEF Held
  <2> QED BY <1>0, <1>3, <2>1, <2>2 DEF Finished
<1>4. CASE BlockRead
  <2>1. /\ op.kind \in Read /\ pc = "blockRead" /\ count' = count + 1 /\ status' = "ok"
        /\ pc' = IF count + 1 = Len(ops) THEN "done" ELSE "blockRead"
        /\ words' = Append(words, Data(IF op.kind = "apRead" THEN pend ELSE count + 1))
        /\ pend' = IF op.kind = "apRead" /\ count + 1 < Len(ops) THEN count + 2 ELSE NoTransfer
    BY <1>4 DEF BlockRead, Acked, OInv, WInv, Placed
  <2>2. op.kind = "apRead" => pend = count + 1
    BY <2>1 DEF OInv, Held
  <2>3. words' = words \o <<Data(count + 1)>>
    <3>0. (IF op.kind = "apRead" THEN pend ELSE count + 1) = count + 1
      BY <2>2
    <3>1. words' = Append(words, Data(count + 1)) /\ Data(count + 1) \in Words
      BY <1>0, <2>1, <3>0, Keys
    <3> QED BY <1>0, <3>1
  <2>4. Piece(words', count + 1, FALSE)
    BY <1>0, <1>1, <2>1, <2>3, ReadAlone
  <2>5. count + 1 < Len(ops) => op.kind' = op.kind
    BY <1>0, <2>1 DEF Typed, op
  <2>6. Len(ops) \in Nat
    BY <1>0 DEF Typed
  <2>7. CASE count + 1 = Len(ops)
    BY <1>3, <2>1, <2>4, <2>7
  <2>8. CASE count + 1 # Len(ops)
    <3>1. count + 1 < Len(ops)
      BY <1>0, <2>6, <2>8
    <3>2. pc' = "blockRead" /\ (op.kind' = "apRead" => pend' = count + 2)
      BY <2>1, <2>5, <2>8, <3>1
    <3> QED BY <1>3, <2>1, <2>4, <3>2
  <2> QED BY <2>7, <2>8
<1>5. CASE BlockWrite
  <2>1. /\ op.kind = "write" /\ count' = count + 1 /\ status' = "ok" /\ words' = words
        /\ pc' \in {"blockWrite", "blockFlush"}
    BY <1>5 DEF BlockWrite, Acked, OInv, WInv, Placed
  <2>2. Piece(words, count + 1, FALSE)
    BY <1>0, <1>1, <2>1, Silent
  <2> QED BY <1>3, <2>1, <2>2
<1> QED BY <1>2, <1>4, <1>5

LEMMA Tells == Spec => []OInv
<1>1. OInv /\ [Next]_vars => OInv'
  <2> SUFFICES ASSUME OInv, [Next]_vars PROVE OInv'
    OBVIOUS
  <2>1. WInv'
    BY WKeeps DEF OInv
  <2>2. Told' /\ Held' /\ Finished'
    <3>1. CASE UNCHANGED vars
      BY <3>1 DEF vars, OInv, Told, Held, Finished, Piece, Sorted, In, Owes, op, Data, Stamp
    <3> QED BY <3>1, FetchTells, FetchBlockTells, WaitFailTells, CollectTells, MatchesTell,
               SingleTells, LastTells, BlockTells DEF Next
  <2> QED BY <2>1, <2>2 DEF OInv
<1> QED BY <1>1, OInitially, PTL DEF Spec

\* Every word of a reply is the result of one of its own transfers, in the place
\* the host reads it: posting the AP reads never shifts the data by one, over
\* commands of every length and every mix of reads, writes and matches.
THEOREM RepliesInOrder == Spec => []WordsInOrder
<1>1. OInv => WordsInOrder
  <2> SUFFICES ASSUME OInv PROVE WordsInOrder
    OBVIOUS
  <2>1. words \in Seq(Words) /\ DOMAIN words = 1..Len(words)
    BY DEF OInv, WInv, Typed
  <2>2. Sorted(words) /\ In(words) \subseteq Owes(count)
    BY DEF OInv, Told, Piece
  <2> QED BY <2>1, <2>2 DEF WordsInOrder, Given, Owed, Owes, In, Sorted, Key
<1> QED BY <1>1, Tells, PTL

\* A reply that says OK has the words of every transfer, and one that says WAIT,
\* FAULT or mismatch lacks at most the data of the last transfer it counts.
THEOREM RepliesAreComplete == Spec => []ReplyComplete
<1>1. OInv => ReplyComplete
  <2> SUFFICES ASSUME OInv, Replied PROVE
        /\ status = "ok" => count = Len(ops) /\ Given = Owed
        /\ block => Given = Owed
        /\ Owed \ Given \subseteq {Data(count)}
    BY DEF ReplyComplete
  <2>1. words \in Seq(Words) /\ DOMAIN words = 1..Len(words) /\ (block => ~postRead)
    BY DEF OInv, WInv, Typed, Placed
  <2>2. Given = In(words) /\ Owed = Owes(count)
    BY <2>1 DEF Given, In, Owed, Owes
  <2>3. pc = "done" /\ status # "error"
    BY DEF Replied, Done
  <2>4. In(words) = Owes(count) \ (IF postRead /\ status # "ok" THEN {Data(count)} ELSE {})
    BY <2>3 DEF OInv, Told, Piece
  <2>5. status = "ok" => count = Len(ops)
    BY <2>3 DEF OInv, Finished
  <2> QED BY <2>1, <2>2, <2>4, <2>5
<1> QED BY <1>1, Tells, PTL
=============================================================================
