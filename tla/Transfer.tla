------------------------------ MODULE Transfer ------------------------------
(***************************************************************************)
(* DAP_Transfer and DAP_TransferBlock: the pipeline of posted AP reads and *)
(* buffered writes, the WAIT and match retries, and the reply, against a   *)
(* target whose debug port answers an AP read with the result of the one   *)
(* before it.  dap-async/src/dap.rs and swd.rs.                            *)
(*                                                                         *)
(* A command is a sequence of transfers; data is a tag that says of which  *)
(* transfer it is the result.  Between two wire transfers the code runs    *)
(* alone, so each action ends at the next one.                             *)
(***************************************************************************)
EXTENDS Integers, Sequences

CONSTANTS
  Kinds,         \* the kinds of transfer hosts put in a command
  Stamps,        \* whether they ask for timestamps
  MaxOps,        \* bound: transfers in a command
  WaitRetries,   \* wait_retries
  MatchRetries,  \* match_retries
  RespWords      \* words that fit in a reply

AllKinds == {"apRead", "dpRead", "apMatch", "dpMatch", "write", "mask"}
Read == {"apRead", "dpRead"}

ASSUME TransferAssumption ==
  /\ Kinds \subseteq AllKinds /\ Stamps \subseteq BOOLEAN
  /\ MaxOps \in Nat /\ WaitRetries \in Nat /\ MatchRetries \in Nat
  /\ RespWords \in Nat

Op == [kind : Kinds, stamp : Stamps]
NoTransfer == 0   \* the tag of data left over from before the command

VARIABLES
  block,        \* DAP_TransferBlock rather than DAP_Transfer
  ops,          \* the transfers the command announces
  have,         \* how many of them its packet holds in full
  pc,           \* the wire transfer awaited, "fetch" between two, or "done"
  retry,        \* WAIT retries left for it
  matchRetry,   \* match_retry
  count,        \* transfers done
  status,       \* the last ACK, or "mismatch"; "error": the reply is DAP_ERROR
  postRead,     \* post_read
  checkWrite,   \* check_write
  words,        \* the data and timestamps in the reply
  pend,         \* target: what RDBUFF holds
  buffered      \* target: the last transfer was a write, not known complete

command == <<block, ops, have>>
vars == <<block, ops, have, pc, retry, matchRetry, count, status, postRead,
          checkWrite, words, pend, buffered>>

Wire == {"collect", "postMatch", "match", "post", "read", "write", "final",
         "blockPost", "blockRead", "blockWrite", "blockFlush"}

op == ops[count + 1]
Data(n) == [op |-> n, part |-> 2]
Stamp(n) == [op |-> n, part |-> 1]
StampOf(n) == IF ops[n].stamp THEN <<Stamp(n)>> ELSE <<>>

Init ==
  /\ block \in BOOLEAN
  /\ ops \in UNION {[1 .. n -> Op] : n \in 0 .. MaxOps}
  /\ block => /\ \A i, j \in DOMAIN ops : ops[i] = ops[j]
              /\ \A i \in DOMAIN ops : ops[i].kind \in Read \cup {"write"}
                                       /\ ~ops[i].stamp
  /\ have \in 0 .. Len(ops)
  /\ pc = "fetch" /\ count = 0 /\ status = "none"
  /\ retry = WaitRetries /\ matchRetry = MatchRetries
  /\ postRead = FALSE /\ checkWrite = FALSE
  /\ words = <<>> /\ pend = NoTransfer /\ buffered = FALSE

-----------------------------------------------------------------------------
\* The code between two wire transfers: it puts ws in the reply, and goes to
\* next: another wire transfer of this one, "fetch" when it is done, "mask" for
\* MATCH_MASK, which writes no register, "error" for a ? in the handler.  Then
\* the reply is DAP_ERROR, whatever has run.
Go(ws, next, st) ==
  LET fits == Len(words) + Len(ws) <= RespWords IN
  \/ /\ ~fits \/ next = "error"
     /\ pc' = "done" /\ status' = "error"
     /\ UNCHANGED <<words, count>>
  \/ /\ fits /\ next \in {"fetch", "mask"}
     /\ pc' = "fetch" /\ status' = "ok" /\ count' = count + 1
     /\ words' = words \o ws
  \/ /\ fits /\ next \in Wire
     /\ pc' = next /\ status' = st
     /\ words' = words \o ws
     /\ UNCHANGED count

\* What op starts with once no posted read is outstanding.  A match value or
\* write data missing from the packet is noticed here.
Begin ==
  CASE count >= have -> "error"
    [] op.kind = "apMatch" -> "postMatch"
    [] op.kind = "dpMatch" -> "match"
    [] op.kind = "apRead" -> "post"
    [] op.kind = "dpRead" -> "read"
    [] op.kind \in {"mask", "write"} -> op.kind

\* Mutant: a posted read is not collected before a write.
CollectFirstUnlessWrite ==
  IF postRead /\ op.kind # "write" THEN "collect" ELSE Begin

CollectFirst == IF postRead THEN "collect" ELSE Begin

\* The head of the loop of DAP_Transfer, and its end when nothing remains.  The
\* packet may stop before a transfer's first byte or, unless it is a read, after.
Fetch ==
  /\ pc = "fetch" /\ ~block
  /\ \/ /\ count = Len(ops)
        /\ pc' = IF status = "ok" /\ (postRead \/ checkWrite) THEN "final" ELSE "done"
        /\ UNCHANGED <<count, status, words>>
     \/ /\ count < Len(ops)
        /\ \/ have <= count /\ Go(<<>>, "error", status)
           \/ /\ have > count \/ op.kind \notin Read
              /\ Go(<<>>, CollectFirst, status)
  /\ matchRetry' = MatchRetries
  /\ UNCHANGED <<command, retry, postRead, checkWrite, pend, buffered>>

\* The start of DAP_TransferBlock: the reply's words are reserved, or the data
\* taken, before anything runs.
FetchBlock ==
  /\ pc = "fetch" /\ block
  /\ IF ops = <<>> THEN pc' = "done" /\ UNCHANGED <<status, words, count>>
     ELSE Go(<<>>,
             CASE op.kind = "write" -> IF have < Len(ops) THEN "error" ELSE "blockWrite"
               [] have = 0 \/ Len(ops) > RespWords -> "error"
               [] op.kind = "apRead" -> "blockPost"
               [] op.kind = "dpRead" -> "blockRead",
             status)
  /\ UNCHANGED <<command, retry, matchRetry, postRead, checkWrite, pend, buffered>>

-----------------------------------------------------------------------------
(* The wire transfers (Driver::transfer_retry; the target is external).     *)

\* WAIT, with retries left.
Wait ==
  /\ pc \in Wire /\ retry > 0
  /\ retry' = retry - 1
  /\ UNCHANGED <<command, pc, matchRetry, count, status, postRead, checkWrite,
                 words, pend, buffered>>

\* Any ACK but OK ends the command; the transfer is not counted.
Fail ==
  /\ pc \in Wire
  /\ status' \in {"fault"} \cup (IF retry = 0 THEN {"wait"} ELSE {})
  /\ pc' = "done"
  /\ UNCHANGED <<command, retry, matchRetry, count, postRead, checkWrite, words,
                 pend, buffered>>

\* The wire transfer was answered OK.  The target's RDBUFF now holds p; nothing
\* is assumed of it after a transfer that is not an AP read.
Acked(from, p) ==
  /\ pc = from
  /\ retry' = WaitRetries
  /\ pend' = p
  /\ buffered' = (from \in {"write", "blockWrite"})
  /\ UNCHANGED command

\* The data of the posted read: a plain AP read collects it and is posted in its
\* turn, anything else goes through RDBUFF and begins after it.
Collect ==
  /\ Acked("collect", IF op.kind = "apRead" THEN count + 1 ELSE pend)
  /\ IF op.kind = "apRead"
     THEN /\ Go(<<Data(pend)>> \o StampOf(count + 1), "fetch", "ok")
          /\ checkWrite' = FALSE /\ UNCHANGED postRead
     ELSE /\ Go(<<Data(pend)>>, Begin, "ok")
          /\ postRead' = FALSE /\ UNCHANGED checkWrite
  /\ UNCHANGED matchRetry

PostMatch ==
  /\ Acked("postMatch", NoTransfer)
  /\ Go(<<>>, "match", "ok")
  /\ UNCHANGED <<matchRetry, postRead, checkWrite>>

\* Mutant: a mismatch posts the AP read again, and the retry is not counted.
MatchForever ==
  /\ Acked("match", NoTransfer)
  /\ \/ Go(<<>>, "fetch", "ok") /\ checkWrite' = FALSE
     \/ pc' = "postMatch" /\ UNCHANGED <<count, status, words, checkWrite>>
  /\ UNCHANGED <<matchRetry, postRead>>

\* The value read matches, or does not: read it again, or report the mismatch.
Match ==
  /\ Acked("match", NoTransfer)
  /\ \/ Go(<<>>, "fetch", "ok") /\ checkWrite' = FALSE /\ UNCHANGED matchRetry
     \/ /\ matchRetry > 0
        /\ matchRetry' = matchRetry - 1
        /\ UNCHANGED <<pc, count, status, words, checkWrite>>
     \/ /\ matchRetry = 0
        /\ pc' = "done" /\ status' = "mismatch"
        /\ UNCHANGED <<matchRetry, count, words, checkWrite>>
  /\ UNCHANGED postRead

Post ==
  /\ Acked("post", count + 1)
  /\ Go(StampOf(count + 1), "fetch", "ok")
  /\ postRead' = TRUE /\ checkWrite' = FALSE
  /\ UNCHANGED matchRetry

DpRead ==
  /\ Acked("read", NoTransfer)
  /\ Go(StampOf(count + 1) \o <<Data(count + 1)>>, "fetch", "ok")
  /\ checkWrite' = FALSE
  /\ UNCHANGED <<matchRetry, postRead>>

\* Mutant: a write is not remembered as unchecked.
WriteUnchecked ==
  /\ Acked("write", NoTransfer)
  /\ Go(StampOf(count + 1), "fetch", "ok")
  /\ UNCHANGED <<matchRetry, postRead, checkWrite>>

Write ==
  /\ Acked("write", NoTransfer)
  /\ Go(StampOf(count + 1), "fetch", "ok")
  /\ checkWrite' = TRUE
  /\ UNCHANGED <<matchRetry, postRead>>

\* The RDBUFF read at the end: it collects the last posted read, or checks the
\* last write.
Final ==
  /\ Acked("final", pend)
  /\ LET ws == IF postRead THEN <<Data(pend)>> ELSE <<>>
         fits == Len(words) + Len(ws) <= RespWords
     IN /\ words' = IF fits THEN words \o ws ELSE words
        /\ status' = IF fits THEN "ok" ELSE "error"
  /\ pc' = "done"
  /\ UNCHANGED <<matchRetry, count, postRead, checkWrite>>

BlockPost ==
  /\ Acked("blockPost", 1)
  /\ Go(<<>>, "blockRead", "ok")
  /\ UNCHANGED <<matchRetry, postRead, checkWrite>>

\* Mutant: the last word is collected with one more AP read, and the word before
\* it is counted twice.
BlockReadMiscount ==
  /\ Acked("blockRead", IF op.kind = "apRead" THEN count + 2 ELSE NoTransfer)
  /\ words' = Append(words, Data(IF op.kind = "apRead" /\ count > 0 THEN pend - 1
                                 ELSE count + 1))
  /\ count' = count + 1 /\ status' = "ok"
  /\ pc' = IF count + 1 = Len(ops) THEN "done" ELSE "blockRead"
  /\ UNCHANGED <<matchRetry, postRead, checkWrite>>

\* One word of a read block: an AP read brings the word before it and the last
\* one comes from RDBUFF.
BlockRead ==
  /\ Acked("blockRead", IF op.kind = "apRead" /\ count + 1 < Len(ops) THEN count + 2
                        ELSE NoTransfer)
  /\ words' = Append(words, Data(IF op.kind = "apRead" THEN pend ELSE count + 1))
  /\ count' = count + 1 /\ status' = "ok"
  /\ pc' = IF count + 1 = Len(ops) THEN "done" ELSE "blockRead"
  /\ UNCHANGED <<matchRetry, postRead, checkWrite>>

BlockWrite ==
  /\ Acked("blockWrite", NoTransfer)
  /\ count' = count + 1 /\ status' = "ok"
  /\ pc' = IF count + 1 = Len(ops) THEN "blockFlush" ELSE "blockWrite"
  /\ UNCHANGED <<matchRetry, postRead, checkWrite, words>>

\* The last write completes with an RDBUFF read.
BlockFlush ==
  /\ Acked("blockFlush", pend)
  /\ pc' = "done" /\ status' = "ok"
  /\ UNCHANGED <<matchRetry, count, postRead, checkWrite, words>>

Next ==
  \/ Fetch \/ FetchBlock \/ Wait \/ Fail
  \/ Collect \/ PostMatch \/ Match \/ Post \/ DpRead \/ Write \/ Final
  \/ BlockPost \/ BlockRead \/ BlockWrite \/ BlockFlush

\* The worker is alone on its target, and every wire transfer is answered.
Spec == Init /\ [][Next]_vars /\ WF_vars(Next)

-----------------------------------------------------------------------------
Done == pc = "done"
Replied == Done /\ status # "error"

\* The words the counted transfers owe the host.
Owed ==
  {Data(n) : n \in {m \in 1 .. count : ops[m].kind \in Read}}
    \cup {Stamp(n) : n \in {m \in 1 .. count :
                              ops[m].stamp /\ ops[m].kind \in Read \cup {"write"}}}
Given == {words[i] : i \in DOMAIN words}

\* The reply's words are the results of its own transfers, each in its place and
\* none twice: posting never shifts the data by one, nor returns what an earlier
\* command left in the target.
WordsInOrder ==
  /\ Given \subseteq Owed
  /\ \A i, j \in DOMAIN words : i < j =>
       2 * words[i].op + words[i].part < 2 * words[j].op + words[j].part

\* A reply with status OK has every transfer's words; one with another status
\* lacks at most the data of the last transfer counted, and none in a block.
ReplyComplete ==
  Replied =>
    /\ status = "ok" => count = Len(ops) /\ Given = Owed
    /\ block => Given = Owed
    /\ Owed \ Given \subseteq {Data(count)}

\* Status OK means that the target has taken the writes too: a write that only
\* faults later is never reported as done.
WritesTaken == Replied /\ status = "ok" => ~buffered

\* Every command ends, whatever the target answers: the WAIT and match retries
\* do not go on for ever.
CommandEnds == <>Done
=============================================================================
