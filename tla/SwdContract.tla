---------------------------- MODULE SwdContract ----------------------------
(***************************************************************************)
(* What the command processor expects of a driver: the default bodies of   *)
(* transfer_retry, read_block and write_block in the trait Driver, where   *)
(* one wire transfer is one step.  A read that the target accepts returns  *)
(* the number of transfers it has accepted in this call, so that a word    *)
(* says which transfer it came from.                                       *)
(***************************************************************************)
EXTENDS Integers, Sequences

CONSTANTS MaxWords,      \* words of a block
          MaxRetries     \* WAIT retries a host may configure

VARIABLES call,      \* the call in service, or NoCall
          next,      \* next word of a block, -1 while an AP read is posted
          retry,     \* WAIT retries left for the current transfer
          words,     \* data stored so far
          result     \* what the last call returned

cvars == <<call, next, retry, words, result>>

NoCall == [op |-> "none", rnw |-> FALSE, ap |-> FALSE, n |-> 0, retries |-> 0]

\* `transfer` is a "single" call without retries.
Calls ==
  [op : {"single"}, rnw : BOOLEAN, ap : {FALSE}, n : {1}, retries : 0..MaxRetries]
    \cup [op : {"read"}, rnw : {TRUE}, ap : BOOLEAN, n : 0..MaxWords, retries : 0..MaxRetries]
    \cup [op : {"write"}, rnw : {FALSE}, ap : {FALSE}, n : 0..MaxWords, retries : 0..MaxRetries]

\* "BAD" is any ACK that is not one, "ERROR" a read with bad parity.
Acks == {"OK", "WAIT", "FAULT", "BAD", "ERROR"}

Result(n, a, ws) == [n |-> n, ack |-> a, words |-> ws]

Init ==
  /\ call = NoCall /\ next = 0 /\ retry = 0 /\ words = <<>>
  /\ result = Result(0, "none", <<>>)

\* A block of no words returns (0, 0) without touching the wire.
Begin(c) ==
  /\ call = NoCall
  /\ result' = Result(0, "none", <<>>)
  /\ UNCHANGED words
  /\ IF c.n = 0
     THEN UNCHANGED <<call, next, retry>>
     ELSE /\ call' = c
          /\ next' = IF c.ap THEN -1 ELSE 0
          /\ retry' = c.retries

Return(n, a, ws) ==
  /\ result' = Result(n, a, ws)
  /\ call' = NoCall /\ next' = 0 /\ retry' = 0 /\ words' = <<>>

Done == IF next = -1 THEN 0 ELSE next

\* The data of the current transfer, if the target accepts it.
Datum == next + (IF call.ap THEN 2 ELSE 1)

Again == retry > 0 /\ retry' = retry - 1 /\ UNCHANGED <<call, next, words, result>>

Failed(a) == a # "OK" /\ Return(Done, a, words)

Posted == next = -1 /\ next' = 0 /\ UNCHANGED <<call, words, result>>

Stored ==
  LET ws == Append(words, Datum)
  IN  /\ call.rnw /\ next >= 0
      /\ \/ next + 1 = call.n /\ Return(call.n, "OK", ws)
         \/ /\ next + 1 < call.n
            /\ next' = next + 1 /\ words' = ws
            /\ UNCHANGED <<call, result>>

Written ==
  /\ ~call.rnw
  /\ \/ next < call.n /\ call.op = "write" /\ next' = next + 1 /\ UNCHANGED <<call, words, result>>
     \/ next = call.n /\ Return(call.n, "OK", words)
     \/ call.op = "single" /\ Return(call.n, "OK", words)

Answered(a) ==
  \/ Failed(a)
  \/ a = "OK" /\ (Posted \/ Stored \/ Written)

Attempt(a) ==
  /\ call # NoCall
  /\ \/ a = "WAIT" /\ Again
     \/ /\ ~(a = "WAIT" /\ retry > 0)
        /\ Answered(a)
        /\ retry' = IF call' = NoCall THEN 0 ELSE call.retries

Next == (\E c \in Calls : Begin(c)) \/ (\E a \in Acks : Attempt(a))

Spec == Init /\ [][Next]_cvars
=============================================================================
