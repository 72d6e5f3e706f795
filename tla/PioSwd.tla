------------------------------- MODULE PioSwd -------------------------------
(***************************************************************************)
(* One probe: the driver PioSwd (firmware/src/dap.rs), the PIO program     *)
(* that shifts its commands (firmware/src/swd.rs), and a target.  The      *)
(* driver and the state machine share two FIFOs and nothing else.  A run   *)
(* of bits clocked by one command is one step of the wire; the target      *)
(* counts its position in the frame and drives, listens or turns around    *)
(* accordingly.                                                            *)
(***************************************************************************)
EXTENDS Integers, Sequences

CONSTANTS MaxWords,      \* words of a block
          MaxRetries,    \* WAIT retries a host may configure
          Depth,         \* entries of each FIFO
          YieldEvery,    \* transfers between two yields to other lanes
          Params         \* transfer parameters a host may configure

ASSUME PioAssumption ==
  /\ Depth \in Nat \ {0} /\ YieldEvery \in Nat \ {0}
  /\ Params \subseteq [trn : 1..4, idle : 0..255, phase : BOOLEAN]
  /\ MaxWords \in Nat /\ MaxRetries \in Nat

VARIABLES call,      \* the driver's method in progress, or NoCall
          next,      \* next word or chunk, -1 while an AP read is posted
          retry,     \* WAIT retries left for the current transfer
          words,     \* data stored so far
          result,    \* what the last call on the wire returned
          params,    \* turnaround, idle cycles and data phase, host and target alike
          stage,     \* the current future: a stage of a transfer or of a cold path
          ack,       \* the ACK of the transfer in its data stage
          plan,      \* FIFO operations still to do
          out,       \* words the plan has pulled
          task,      \* "running", or "yielded" to the executor
          run,       \* the driver's count of transfers since its last turn
          hog,       \* transfers since it yielded or was alone (history)
          lanes,     \* ACTIVE_LANES as this lane sees it, 1 or more than 1
          tx, rx,    \* the FIFOs
          sm,        \* the state machine: routine, direction, bits, shifted word
          txstall,   \* the sticky flag "stalled on pull"
          tgt,       \* the target: where it is in a frame
          nreset     \* TRUE while the probe asserts nRESET

block == <<call, next, retry, words, result>>
xfer == <<stage, ack, plan, out>>
turn == <<task, run, hog>>
fifos == <<tx, rx>>
wire == <<sm, txstall, tgt>>
vars == <<block, xfer, turn, fifos, wire, params, lanes, nreset>>

NoCall == [op |-> "none", rnw |-> FALSE, ap |-> FALSE, n |-> 0, retries |-> 0]

OnWire == call.op \in {"single", "read", "write"}

\* The cold paths are no business of the contract.
Contract == INSTANCE SwdContract WITH
  call <- IF OnWire THEN call ELSE NoCall,
  next <- IF OnWire THEN next ELSE 0

(***************************************************************************)
(* FIFO entries and plans.                                                 *)
(***************************************************************************)
Entry(k, r, drive, n, v, i) == [k |-> k, r |-> r, drive |-> drive, n |-> n, v |-> v, i |-> i]

WriteCmd(n) == Entry("cmd", "write", TRUE, n, "", 0)
ReadCmd(n) == Entry("cmd", "read", FALSE, n, "", 0)
\* `turnaround` is an alias of `write`: it takes a data word like any write.
HizCmd(n) == Entry("cmd", "write", FALSE, n, "", 0)
DirCmd(drive) == Entry("cmd", "skip", drive, 1, "", 0)
Bits(v, i) == Entry("data", "", FALSE, 0, v, i)
Pull == Entry("pull", "", FALSE, 0, "", 0)

Trn == params.trn

PlanRequest(rnw) ==
  <<WriteCmd(8), Bits("packet", IF rnw THEN 1 ELSE 0), ReadCmd(Trn + 3), Pull>>

\* Mutant: the released clocks are queued without their data word.
HizNoData == IF Trn > 0 THEN <<HizCmd(Trn)>> ELSE <<>>

Hiz == IF Trn > 0 THEN <<HizCmd(Trn), Bits("zero", 0)>> ELSE <<>>

Idle == IF params.idle > 0 THEN <<WriteCmd(params.idle), Bits("zero", 0)>> ELSE <<>>

WriteWord(v, i) == <<WriteCmd(32), Bits(v, i), WriteCmd(1), Bits("zero", 0)>>

DataOK(rnw, i) ==
  IF rnw THEN <<ReadCmd(32), ReadCmd(1)>> \o Hiz \o Idle \o <<Pull, Pull>>
         ELSE Hiz \o WriteWord("word", i) \o Idle

DataRefused(rnw) ==
     (IF params.phase /\ rnw THEN <<ReadCmd(33), Pull>> ELSE <<>>)
  \o Hiz
  \o (IF params.phase /\ ~rnw THEN WriteWord("zero", 0) ELSE <<>>)

\* Mutant: the data phase of a refused write comes before the turnaround.
PlanDataNoTurn(a, rnw, i) ==
  CASE a = "OK" -> IF rnw THEN DataOK(rnw, i) ELSE WriteWord("word", i) \o Hiz \o Idle
    [] a \in {"WAIT", "FAULT"} -> DataRefused(rnw)
    [] OTHER -> <<ReadCmd(Trn + 33), Pull>>

PlanData(a, rnw, i) ==
  CASE a = "OK" -> DataOK(rnw, i)
    [] a \in {"WAIT", "FAULT"} -> DataRefused(rnw)
    [] OTHER -> <<ReadCmd(Trn + 33), Pull>>

(***************************************************************************)
(* The target's view of a frame, by clocks since the request began.        *)
(***************************************************************************)
Silent == [mode |-> "idle", pos |-> 0, rnw |-> FALSE, ans |-> "none", cnt |-> 0]

HasData == tgt.ans = "OK" \/ params.phase

FrameLen == 11 + 2 * Trn + (IF HasData THEN 33 ELSE 0)

DataFrom == 11 + Trn + (IF tgt.rnw THEN 0 ELSE Trn)

InData(q) == HasData /\ q \in DataFrom..(DataFrom + 32)

TargetDrives(q) ==
  tgt.mode = "frame" /\ (q \in (8 + Trn)..(10 + Trn) \/ (tgt.rnw /\ InData(q)))

\* What the target makes of sm.n clocks while the host sends v.
Clock(v, i) ==
  CASE tgt.mode = "idle" /\ v = "packet" ->
         \/ \E a \in {"OK", "WAIT", "FAULT"} :
              tgt' = [tgt EXCEPT !.mode = "frame", !.pos = 8, !.rnw = (i = 1), !.ans = a,
                                 !.cnt = IF a = "OK" THEN @ + 1 ELSE @]
         \/ tgt' = [tgt EXCEPT !.mode = "lost"]
    [] tgt.mode = "frame" ->
         LET pos == tgt.pos + sm.n
         IN  tgt' = IF pos < FrameLen THEN [tgt EXCEPT !.pos = pos]
                    ELSE [Silent EXCEPT !.mode = IF pos = FrameLen THEN "idle" ELSE "lost",
                                        !.cnt = tgt.cnt]
    [] tgt.mode \in {"idle", "lost"} /\ v = "bits" ->
         \E m \in {"idle", "lost"} : tgt' = [tgt EXCEPT !.mode = m]
    [] tgt.mode = "idle" /\ v = "zero" /\ sm.drive -> UNCHANGED tgt
    [] OTHER -> tgt' = [tgt EXCEPT !.mode = "lost"]

(***************************************************************************)
(* The PIO program.                                                        *)
(***************************************************************************)
Word(part, a, d) == [part |-> part, ack |-> a, data |-> d]

NoWord == Word("none", "BAD", 0)

\* What the clocks of a read command shift in: noise may hide an ACK or spoil
\* a parity bit, and bits from anywhere else are junk.
Sampled ==
  IF tgt.mode # "frame" THEN {Word("junk", "BAD", 0)}
  ELSE IF tgt.pos = 8 /\ sm.n = Trn + 3
       THEN {Word("ack", tgt.ans, 0), Word("ack", "BAD", 0)}
  ELSE IF tgt.rnw /\ HasData /\ tgt.pos = DataFrom /\ sm.n = 32
       THEN {Word("data", "BAD", tgt.cnt)}
  ELSE IF tgt.rnw /\ HasData /\ tgt.pos = DataFrom + 32 /\ sm.n = 1
       THEN {Word("parity", "OK", 0), Word("parity", "ERROR", 0)}
  ELSE {Word("junk", "BAD", 0)}

SmCommand ==
  /\ sm.pc = "cmd" /\ tx # <<>> /\ Head(tx).k = "cmd"
  /\ sm' = [sm EXCEPT !.pc = IF Head(tx).r = "skip" THEN "cmd" ELSE Head(tx).r,
                      !.drive = Head(tx).drive,
                      !.n = IF Head(tx).r = "skip" THEN 0 ELSE Head(tx).n]
  /\ tx' = Tail(tx)
  /\ UNCHANGED <<rx, txstall, tgt>>

SmWrite ==
  /\ sm.pc = "write" /\ tx # <<>> /\ Head(tx).k = "data"
  /\ Clock(Head(tx).v, Head(tx).i)
  /\ sm' = [sm EXCEPT !.pc = "cmd", !.n = 0]
  /\ tx' = Tail(tx)
  /\ UNCHANGED <<rx, txstall>>

SmRead ==
  /\ sm.pc = "read"
  /\ Clock("none", 0)
  /\ \E w \in Sampled : sm' = [sm EXCEPT !.pc = "push", !.isr = w]
  /\ UNCHANGED <<fifos, txstall>>

SmPush ==
  /\ sm.pc = "push" /\ Len(rx) < Depth
  /\ rx' = Append(rx, sm.isr)
  /\ sm' = [sm EXCEPT !.pc = "cmd", !.n = 0, !.isr = NoWord]
  /\ UNCHANGED <<tx, txstall, tgt>>

SmStall ==
  /\ sm.pc \in {"cmd", "write"} /\ tx = <<>> /\ ~txstall
  /\ txstall' = TRUE
  /\ UNCHANGED <<fifos, sm, tgt>>

Sm ==
  /\ SmCommand \/ SmWrite \/ SmRead \/ SmPush \/ SmStall
  /\ UNCHANGED <<block, xfer, turn, params, lanes, nreset>>
-----------------------------------------------------------------------------
(***************************************************************************)
(* Running a plan.  A blocked operation is retried for a budget that       *)
(* depends on the clock, then the task yields; the budget is not counted.  *)
(***************************************************************************)
Polled == task = "running" /\ call # NoCall

Push ==
  /\ Polled /\ plan # <<>> /\ Head(plan).k # "pull" /\ Len(tx) < Depth
  /\ tx' = Append(tx, Head(plan)) /\ plan' = Tail(plan)
  /\ UNCHANGED <<block, stage, ack, out, turn, rx, wire, lanes, nreset>>

PullWord ==
  /\ Polled /\ plan # <<>> /\ Head(plan).k = "pull" /\ rx # <<>>
  /\ out' = Append(out, Head(rx)) /\ rx' = Tail(rx) /\ plan' = Tail(plan)
  /\ UNCHANGED <<block, stage, ack, turn, tx, wire, lanes, nreset>>

Blocked ==
  /\ Polled /\ plan # <<>>
  /\ IF Head(plan).k = "pull" THEN rx = <<>> ELSE Len(tx) = Depth
  /\ task' = "yielded" /\ hog' = 0
  /\ UNCHANGED <<block, xfer, run, fifos, wire, lanes, nreset>>

Resume ==
  /\ task = "yielded" /\ task' = "running"
  /\ UNCHANGED <<block, xfer, run, hog, fifos, wire, lanes, nreset>>

(***************************************************************************)
(* TransferState::poll, and on top of it the retries and the blocks.       *)
(***************************************************************************)
RdBuff == call.op = "write" /\ next = call.n

Rnw == call.rnw \/ RdBuff

AtStart == Polled /\ OnWire /\ stage = "Start"

\* Mutant: a lane may run one transfer more than YIELD_EVERY.
TurnOverLate == run > YieldEvery

TurnOver == run >= YieldEvery

\* Mutant: a turn that is over stays over.
YieldTurnKeep ==
  /\ AtStart /\ TurnOver /\ lanes > 1
  /\ hog' = 0 /\ task' = "yielded"
  /\ UNCHANGED <<block, xfer, run, fifos, wire, lanes, nreset>>

YieldTurn ==
  /\ AtStart /\ TurnOver /\ lanes > 1
  /\ run' = 0 /\ hog' = 0 /\ task' = "yielded"
  /\ UNCHANGED <<block, xfer, fifos, wire, lanes, nreset>>

Request ==
  /\ AtStart /\ (TurnOver => lanes = 1)
  /\ run' = IF TurnOver THEN 0 ELSE run
  /\ plan' = PlanRequest(Rnw) /\ out' = <<>> /\ stage' = "Request"
  /\ UNCHANGED <<block, ack, task, hog, fifos, wire, lanes, nreset>>

\* Shifted right by the turnaround, the word holds the ACK in its low bits.
RequestDone ==
  /\ Polled /\ stage = "Request" /\ plan = <<>>
  /\ ack' = out[1].ack
  /\ plan' = PlanData(ack', Rnw, IF call.op = "write" THEN next + 1 ELSE 0) /\ out' = <<>> /\ stage' = "Data"
  /\ UNCHANGED <<block, turn, fifos, wire, lanes, nreset>>

Leave(n, a, ws) ==
  /\ result' = Contract!Result(n, a, ws)
  /\ call' = NoCall /\ next' = 0 /\ retry' = 0 /\ words' = <<>>

\* Mutant: the retry budget of a block is for all of its words.
RefillNever == retry' = IF call' = NoCall THEN 0 ELSE retry

Refill == retry' = IF call' = NoCall THEN 0 ELSE call.retries

\* The word after this one, or the end of a block read.
ReadReady(a, d) ==
  /\ call.op = "read"
  /\ \/ a # "OK" /\ Leave(IF next = -1 THEN 0 ELSE next, a, words)
     \/ a = "OK" /\ next = -1 /\ next' = 0 /\ UNCHANGED <<call, words, result>>
     \/ a = "OK" /\ next + 1 = call.n /\ Leave(call.n, "OK", Append(words, d))
     \/ /\ a = "OK" /\ next \in 0..(call.n - 2)
        /\ next' = next + 1 /\ words' = Append(words, d)
        /\ UNCHANGED <<call, result>>

\* Mutant: the trailing RDBUFF read is left out.
WriteReadyEarly(a) ==
  /\ call.op = "write"
  /\ \/ (a # "OK" \/ next + 1 = call.n) /\ Leave(call.n, a, words)
     \/ a = "OK" /\ next + 1 < call.n /\ next' = next + 1 /\ UNCHANGED <<call, words, result>>

WriteReady(a) ==
  /\ call.op = "write"
  /\ \/ (a # "OK" \/ RdBuff) /\ Leave(next, a, words)
     \/ a = "OK" /\ ~RdBuff /\ next' = next + 1 /\ UNCHANGED <<call, words, result>>

SingleReady(a, d) ==
  /\ call.op = "single"
  /\ LET ok == a = "OK"
     IN  Leave(IF ok THEN 1 ELSE 0, a, IF ok /\ call.rnw THEN <<d>> ELSE <<>>)

Ready(a, d) ==
  \/ /\ a = "WAIT" /\ retry > 0
     /\ retry' = retry - 1
     /\ UNCHANGED <<call, next, words, result>>
  \/ /\ ~(a = "WAIT" /\ retry > 0)
     /\ SingleReady(a, d) \/ ReadReady(a, d) \/ WriteReady(a)
     /\ Refill

DataDone ==
  /\ Polled /\ stage = "Data" /\ plan = <<>>
  /\ IF ack = "OK" /\ Rnw THEN Ready(out[2].ack, out[1].data) ELSE Ready(ack, 0)
  /\ run' = run + 1 /\ hog' = IF lanes > 1 THEN hog + 1 ELSE 0
  /\ stage' = "Start" /\ out' = <<>> /\ ack' = "none"
  /\ UNCHANGED <<plan, task, fifos, wire, lanes, nreset>>

(***************************************************************************)
(* The cold paths: sequences, direction changes, nRESET.                   *)
(***************************************************************************)
ColdCalls ==
  [op : {"write_sequence", "read_sequence"}, rnw : {FALSE}, ap : {FALSE}, n : 1..2, retries : {0}]
    \cup [op : {"connect", "disconnect", "assert", "release"}, rnw : {FALSE}, ap : {FALSE}, n : {1}, retries : {0}]

InSequence == call.op \in {"write_sequence", "read_sequence"}
InSetDir == call.op \in {"connect", "disconnect"}
InPins == call.op \in {"assert", "release"}

Chunk ==
  /\ Polled /\ InSequence /\ stage = "Start" /\ next < call.n
  /\ plan' = IF call.op = "write_sequence"
             THEN <<WriteCmd(8), Bits("bits", 0)>> ELSE <<ReadCmd(8), Pull>>
  /\ out' = <<>> /\ stage' = "Exec"
  /\ UNCHANGED <<block, ack, turn, fifos, wire, lanes, nreset>>

ChunkDone ==
  /\ Polled /\ InSequence /\ stage = "Exec" /\ plan = <<>>
  /\ stage' = "Start" /\ out' = <<>>
  /\ IF next + 1 = call.n
     THEN call' = NoCall /\ next' = 0
     ELSE next' = next + 1 /\ UNCHANGED call
  /\ UNCHANGED <<retry, words, result, ack, plan, turn, fifos, wire, lanes, nreset>>

SetDir ==
  /\ Polled /\ InSetDir /\ stage = "Start"
  /\ plan' = <<DirCmd(call.op = "connect")>> /\ out' = <<>> /\ stage' = "Exec"
  /\ UNCHANGED <<block, ack, turn, fifos, wire, lanes, nreset>>

DropStale ==
  /\ Polled /\ InSetDir /\ stage = "Exec" /\ plan = <<>>
  /\ txstall' = FALSE /\ stage' = "Stalled"
  /\ UNCHANGED <<block, ack, plan, out, turn, fifos, sm, tgt, lanes, nreset>>

AwaitStall ==
  /\ Polled /\ stage = "Stalled"
  /\ \/ /\ txstall
        /\ txstall' = FALSE /\ stage' = "Start" /\ call' = NoCall
        /\ nreset' = IF call.op = "disconnect" THEN FALSE ELSE nreset
        /\ UNCHANGED <<task, hog>>
     \/ /\ ~txstall
        /\ task' = "yielded" /\ hog' = 0
        /\ UNCHANGED <<txstall, stage, call, nreset>>
  /\ UNCHANGED <<next, retry, words, result, ack, plan, out, run, fifos, sm, tgt, lanes>>

\* The line follows nRESET, or the deadline passes: either way the call ends.
SetReset ==
  /\ Polled /\ InPins
  /\ nreset' = (call.op = "assert") /\ call' = NoCall
  /\ UNCHANGED <<next, retry, words, result, xfer, turn, fifos, wire, lanes>>

-----------------------------------------------------------------------------
Init ==
  /\ params \in Params
  /\ call = NoCall /\ next = 0 /\ retry = 0 /\ words = <<>>
  /\ result = Contract!Result(0, "none", <<>>)
  /\ stage = "Start" /\ ack = "none" /\ plan = <<>> /\ out = <<>>
  /\ task = "running" /\ run = 0 /\ hog = 0 /\ lanes = 1
  /\ tx = <<>> /\ rx = <<>> /\ txstall = FALSE /\ tgt = Silent /\ nreset = FALSE
  /\ sm = [pc |-> "cmd", drive |-> TRUE, n |-> 0, isr |-> NoWord]

\* A call of the command processor; cnt counts accepted transfers per call.
Begin(c) ==
  /\ call = NoCall /\ task = "running"
  /\ result' = Contract!Result(0, "none", <<>>)
  /\ UNCHANGED words
  /\ IF c.n = 0
     THEN UNCHANGED <<call, next, retry, tgt>>
     ELSE /\ call' = c
          /\ next' = IF c.ap THEN -1 ELSE 0
          /\ retry' = c.retries
          /\ tgt' = [tgt EXCEPT !.cnt = 0]
  /\ UNCHANGED <<xfer, turn, fifos, sm, txstall, lanes, nreset>>

\* All lanes share one core and one executor.
OtherLanes ==
  /\ task = "yielded" \/ call = NoCall
  /\ lanes' \in {1, 2} \ {lanes}
  /\ hog' = IF lanes' = 1 THEN 0 ELSE hog
  /\ UNCHANGED <<block, xfer, task, run, fifos, wire, nreset>>

Poll ==
  \/ Push \/ PullWord \/ Blocked
  \/ YieldTurn \/ Request \/ RequestDone \/ DataDone
  \/ Chunk \/ ChunkDone \/ SetDir \/ DropStale \/ AwaitStall \/ SetReset

Next ==
  \/ (Poll \/ Resume \/ OtherLanes) /\ UNCHANGED params
  \/ (\E c \in Contract!Calls \cup ColdCalls : Begin(c)) /\ UNCHANGED params
  \/ Sm

Fairness ==
  /\ WF_vars(Poll /\ UNCHANGED params) /\ WF_vars(Resume /\ UNCHANGED params)
  /\ WF_vars(Sm)

Spec == Init /\ [][Next]_vars /\ Fairness
-----------------------------------------------------------------------------
\* The program takes every entry for what the driver queued it as: no command
\* is shifted out as data and no data is executed as a command.
StreamAligned ==
  tx # <<>> => Head(tx).k = (IF sm.pc = "write" THEN "data" ELSE "cmd")
               \/ sm.pc \in {"read", "push"}

\* Between two transfers, and whatever the last ACK was, no word of an old
\* transfer is in the receive FIFO or on its way there.
NoStaleWord ==
  stage = "Start" =>
    /\ rx = <<>> /\ sm.pc \notin {"read", "push"}
    /\ \A k \in 1..Len(tx) : tx[k].r # "read"

\* A request, and a sequence that could reset the line, starts where the
\* target awaits one, after every ACK and with or without a data phase.
FramesInSync ==
  sm.pc = "write" /\ tx # <<>> /\ Head(tx).v \in {"packet", "bits"} => tgt.mode # "frame"

\* Host and target never drive SWDIO at the same time, and a word goes out
\* only to a target that accepted its request and listens for that word.
LineExclusive ==
  /\ sm.pc \in {"write", "read"} /\ sm.drive =>
       \A q \in tgt.pos..(tgt.pos + sm.n - 1) : ~TargetDrives(q)
  /\ sm.pc = "write" /\ tx # <<>> /\ Head(tx).v = "word" =>
       /\ tgt.mode = "frame" /\ tgt.ans = "OK" /\ ~tgt.rnw
       /\ tgt.pos = DataFrom /\ sm.drive /\ sm.n = 32
       /\ Head(tx).i # 0 => Head(tx).i = tgt.cnt

\* A method returns when what it promises has happened on the wire: connect and
\* disconnect when all that was queued is clocked and SWDIO has its direction,
\* write_block with OK when the target took all words and checked the last.
ReturnsSettled ==
  [][call' = NoCall =>
       /\ InSetDir => tx = <<>> /\ sm.pc = "cmd" /\ sm.drive = (call.op = "connect")
       /\ call.op = "write" /\ result'.ack = "OK" =>
            /\ tgt.cnt = call.n + 1
            /\ \A k \in 1..Len(tx) : tx[k].v # "word"]_vars

\* While others are active a lane runs at most YIELD_EVERY transfers before
\* it gives them a turn.
TurnsBounded == hog <= YieldEvery

\* Driver and program stay in step through the FIFOs.
FifosInStep == StreamAligned /\ NoStaleWord

\* Driver and target stay in step on the wire.
WireInStep == FramesInSync /\ LineExclusive

\* Every method of the driver returns: no plan waits for a FIFO that waits
\* for the plan, and no turn or retry goes on for ever.
CallEnds == (call # NoCall) ~> (call = NoCall)

\* The hand-written futures do what the trait's default bodies say.
ImplementsContract == Contract!Spec
=============================================================================
