------------------------------- MODULE Flash -------------------------------
(***************************************************************************)
(* The web page's Flash tab (webui/site/js): a UF2 file is parsed and      *)
(* filtered (uf2.js), erased, written and verified through PICOBOOT        *)
(* (picoboot.js), and the outcome shown (flash.js), while the board may be *)
(* unplugged, stall, lose bits or be connected to again.  The bootrom is   *)
(* external.  Addresses count pages of flash.                              *)
(***************************************************************************)
EXTENDS Integers, Sequences, SequencesExt

CONSTANTS Files,      \* the files a user picks
          Size,       \* pages of flash
          SECTOR, WRITE_CHUNK,
          MaxClicks,  \* bound: presses of the Flash button
          MaxFaults   \* bound: what goes wrong with the board or its connection

\* No file is picked, or one that does not parse.
NoFile == [bad |-> TRUE, blocks |-> <<>>]

Block == [addr : Nat, data : Seq(Nat), family : STRING, main : BOOLEAN]

\* A flash is made of whole sectors.
ASSUME FlashAssumption ==
  /\ {Size, SECTOR, WRITE_CHUNK} \subseteq Nat \ {0} /\ Size % SECTOR = 0
  /\ NoFile \in Files /\ \A f \in Files : f.bad \in BOOLEAN /\ f.blocks \in Seq(Block)

VARIABLES file,      \* fileBuffer
          boot,      \* the page has an open Picoboot
          enabled,   \* the Flash button
          status,    \* "", "done", "failed": how the last flash ended
          pc,        \* its handler: "idle", "select", "run", "finish", "closing"
          image,     \* the blocks it flashes
          plan, step,\* its commands, and the one being issued
          wire,      \* of that command: "idle", "sent", "executed", "stalled"
          cut,       \* the handler's device was closed or is gone
          attached, xip, rebooting, flash, \* the board, in BOOTSEL mode
          clicks, faults,
          excuse     \* history: something went wrong during this flash

page == <<file, boot, enabled, status, clicks>>
job == <<pc, image, plan, step>>
board == <<attached, xip, rebooting, flash>>
vars == <<page, job, wire, cut, board, faults, excuse>>

Erased == 0
Junk == 99
Old == 9
-----------------------------------------------------------------------------
(***************************************************************************)
(* parseUf2 skips blocks that are not for the main flash; filterFamily     *)
(* keeps those of the chip and those of no family.                         *)
(***************************************************************************)
\* The numbers of a set in ascending order, and the elements of s at such positions.
Ascending(S) == [k \in 1..Cardinality(S) |-> CHOOSE a \in S : Cardinality({b \in S : b <= a}) = k]
At(s, positions) == [k \in 1..Cardinality(positions) |-> s[Ascending(positions)[k]]]

ParseUf2(f) == At(f.blocks, {k \in DOMAIN f.blocks : f.blocks[k].main})

FilterFamily(blocks) == At(blocks, {k \in DOMAIN blocks : blocks[k].family \in {"chip", "none"}})

\* The blocks by address, those with the same address in their order.
Sorted(blocks) ==
  LET upTo(i) == {j \in DOMAIN blocks : blocks[j].addr < blocks[i].addr
                                        \/ (blocks[j].addr = blocks[i].addr /\ j <= i)}
  IN  [k \in 1..Len(blocks) |-> blocks[CHOOSE i \in DOMAIN blocks : Cardinality(upTo(i)) = k]]

\* The first block of a range does not begin where the block before it ends.
First(s) == {k \in DOMAIN s : k = 1 \/ s[k - 1].addr + Len(s[k - 1].data) # s[k].addr}

\* The range that begins with the k-th block, up to the first block of the next.
RangeFrom(s, k) ==
  LET past == Min({j \in First(s) : j > k} \cup {Len(s) + 1})
  IN  [addr |-> s[k].addr, data |-> FlattenSeq([j \in 1..(past - k) |-> s[k + j - 1].data])]

Coalesce(blocks) ==
  LET s == Sorted(blocks)
  IN  [n \in 1..Cardinality(First(s)) |-> RangeFrom(s, Ascending(First(s))[n])]

Command(op, addr, data) == [op |-> op, addr |-> addr, data |-> data]

\* Mutant: a sector too many at the end of a range that fills its last one.
SectorsTooMany(range) ==
  {a \in ((range.addr \div SECTOR) * SECTOR)..(range.addr + Len(range.data)) : a % SECTOR = 0}

\* From the sector that the range begins in; also of one without pages, if it
\* begins inside a sector.
Sectors(range) ==
  {a \in ((range.addr \div SECTOR) * SECTOR)..(range.addr + Len(range.data) - 1) : a % SECTOR = 0}

Chunks(op, range) ==
  LET n == Len(range.data)
      end(k) == IF k * WRITE_CHUNK < n THEN k * WRITE_CHUNK ELSE n
  IN  [k \in 1..((n + WRITE_CHUNK - 1) \div WRITE_CHUNK) |->
         Command(op, range.addr + (k - 1) * WRITE_CHUNK,
                 SubSeq(range.data, (k - 1) * WRITE_CHUNK + 1, end(k)))]

\* Mutant: each range is erased when it is written, also what it shares a
\* sector with.
FlashRangesInTurn(ranges) ==
  LET erases(r) == [k \in 1..Cardinality(Sectors(r)) |->
                      Command("erase", Ascending(Sectors(r))[k], <<>>)]
      each(r) == erases(r) \o Chunks("write", r)
      all(f(_)) == FlattenSeq([k \in 1..Len(ranges) |-> f(ranges[k])])
  IN  <<Command("exclusive", 0, <<>>), Command("exitXip", 0, <<>>)>> \o all(each)
        \o <<Command("enterCmdXip", 0, <<>>)>> \o all(LAMBDA r : Chunks("read", r))
        \o <<Command("reboot", 0, <<>>)>>

\* Mutant: nothing is read back.
FlashRangesUnverified(ranges) ==
  LET sectors == UNION {Sectors(ranges[k]) : k \in DOMAIN ranges}
      erases == [k \in 1..Cardinality(sectors) |-> Command("erase", Ascending(sectors)[k], <<>>)]
  IN  <<Command("exclusive", 0, <<>>), Command("exitXip", 0, <<>>)>> \o erases
        \o FlattenSeq([k \in 1..Len(ranges) |-> Chunks("write", ranges[k])])
        \o <<Command("enterCmdXip", 0, <<>>), Command("reboot", 0, <<>>)>>

\* The commands of flashRanges: every sector once, then all writes, then all reads.
FlashRanges(ranges) ==
  LET sectors == UNION {Sectors(ranges[k]) : k \in DOMAIN ranges}
      erases == [k \in 1..Cardinality(sectors) |-> Command("erase", Ascending(sectors)[k], <<>>)]
      all(op) == FlattenSeq([k \in 1..Len(ranges) |-> Chunks(op, ranges[k])])
  IN  <<Command("exclusive", 0, <<>>), Command("exitXip", 0, <<>>)>> \o erases \o all("write")
        \o <<Command("enterCmdXip", 0, <<>>)>> \o all("read") \o <<Command("reboot", 0, <<>>)>>

\* What there is of each file for the chip, and the commands that flash it.
Blocks == [f \in Files |-> FilterFamily(ParseUf2(f))]
Ranges == [f \in Files |-> Coalesce(Blocks[f])]
Plans == [f \in Files |-> FlashRanges(Ranges[f])]
-----------------------------------------------------------------------------
Init ==
  /\ file = NoFile /\ boot = FALSE /\ enabled = FALSE /\ status = "" /\ clicks = 0
  /\ pc = "idle" /\ image = <<>> /\ plan = <<>> /\ step = 0
  /\ wire = "idle" /\ cut = FALSE
  /\ attached = TRUE /\ xip = TRUE /\ rebooting = FALSE /\ flash = [a \in 0..(Size - 1) |-> Old]
  /\ faults = 0 /\ excuse = FALSE

PickFile(f) ==
  /\ file' = IF f.bad THEN NoFile ELSE f
  /\ UNCHANGED <<boot, enabled, status, clicks, job, wire, cut, board, faults, excuse>>

-----------------------------------------------------------------------------
(***************************************************************************)
(* The board.  A command works page by page; an interrupted one has done   *)
(* some of them.  Programming cannot set bits back.                        *)
(***************************************************************************)
Now == plan[step]

Pages(c) == IF c.op = "erase" THEN SECTOR ELSE IF c.op = "write" THEN Len(c.data) ELSE 0

After(c, done) ==
  [a \in DOMAIN flash |->
     IF a \notin c.addr..(c.addr + done - 1) THEN flash[a]
     ELSE IF c.op = "erase" THEN Erased
     ELSE LET v == c.data[a - c.addr + 1] IN IF flash[a] \in {Erased, v} THEN v ELSE Junk]

Refuses(c) == (Pages(c) > 0 /\ xip) \/ c.addr + Pages(c) > Size

Fault == faults < MaxFaults /\ faults' = faults + 1 /\ excuse' = TRUE

\* What the board does of a command when its connection goes away.
Interrupted ==
  IF wire = "sent" /\ ~Refuses(Now) THEN \E k \in 0..Pages(Now) : flash' = After(Now, k)
  ELSE UNCHANGED flash

Execute ==
  /\ wire = "sent" /\ attached /\ ~cut
  /\ IF Refuses(Now) THEN wire' = "stalled" /\ UNCHANGED board
     ELSE /\ wire' = "executed"
          /\ flash' = After(Now, Pages(Now))
          /\ xip' = (IF Now.op = "exitXip" THEN FALSE ELSE IF Now.op = "enterCmdXip" THEN TRUE ELSE xip)
          /\ rebooting' = (Now.op = "reboot")
          /\ UNCHANGED attached
  /\ UNCHANGED <<page, job, cut, faults, excuse>>

Stall ==
  /\ wire = "sent" /\ attached /\ ~cut /\ Fault
  /\ wire' = "stalled"
  /\ UNCHANGED <<page, job, cut, board>>

\* A page does not take what is written to it.
WriteLost ==
  /\ wire = "sent" /\ attached /\ ~cut /\ Fault
  /\ Now.op = "write" /\ ~Refuses(Now)
  /\ wire' = "executed" /\ flash' = [After(Now, Pages(Now)) EXCEPT ![Now.addr] = Junk]
  /\ UNCHANGED <<page, job, cut, attached, xip, rebooting>>

\* The connection is gone for whoever uses it.
Cut == cut' = (pc \in {"run", "closing"}) /\ wire' = "idle"

Unplug ==
  /\ attached /\ Fault
  /\ attached' = FALSE /\ Interrupted /\ Cut
  /\ UNCHANGED <<page, job, xip, rebooting>>

\* The delay of the reboot has passed, maybe before its ack was read.
DropOff ==
  /\ attached /\ rebooting
  /\ attached' = FALSE /\ rebooting' = FALSE /\ Cut
  /\ excuse' = TRUE
  /\ UNCHANGED <<page, job, xip, flash, faults>>

\* The board is plugged in again with BOOTSEL held.
Replug ==
  /\ ~attached /\ ~boot
  /\ attached' = TRUE /\ xip' = TRUE /\ rebooting' = FALSE
  /\ UNCHANGED <<page, job, wire, cut, flash, faults, excuse>>
-----------------------------------------------------------------------------
(* flash.js: the connection.                                                *)

\* connectBootrom closes what is open, whoever is using it...
CloseOld ==
  /\ boot /\ Fault
  /\ boot' = FALSE /\ enabled' = FALSE /\ Interrupted /\ Cut
  /\ UNCHANGED <<file, status, clicks, job, attached, xip, rebooting>>

\* ...and opens the board.  A transfer of the old one has failed by then.
Open ==
  /\ ~boot /\ attached /\ ~rebooting /\ ~cut
  /\ boot' = TRUE /\ enabled' = TRUE
  /\ UNCHANGED <<file, status, clicks, job, wire, cut, board, faults, excuse>>

DisconnectEvent ==
  /\ boot /\ ~attached
  /\ boot' = FALSE /\ enabled' = FALSE
  /\ UNCHANGED <<file, status, clicks, job, wire, cut, board, faults, excuse>>
-----------------------------------------------------------------------------
(* flash.js: the handler of the Flash button, and Picoboot.cmd.             *)

Idle == pc' = "idle" /\ wire' = "idle" /\ cut' = FALSE /\ enabled' = boot

Failed == status' = "failed" /\ Idle

Click ==
  /\ pc = "idle" /\ enabled /\ boot /\ clicks < MaxClicks
  /\ clicks' = clicks + 1 /\ pc' = "select" /\ excuse' = ~attached
  /\ image' = <<>> /\ plan' = <<>> /\ step' = 0
  /\ UNCHANGED <<file, boot, enabled, status, wire, cut, board, faults>>

Select ==
  /\ pc = "select"
  /\ LET blocks == Blocks[file]
     IN  \/ (file.bad \/ ~boot \/ blocks = <<>>) /\ Failed /\ UNCHANGED <<image, plan, step>>
         \/ /\ ~file.bad /\ boot /\ blocks # <<>>
            /\ image' = blocks /\ plan' = Plans[file] /\ step' = 1
            /\ pc' = "run" /\ enabled' = FALSE /\ cut' = ~attached
            /\ UNCHANGED <<status, wire>>
  /\ UNCHANGED <<file, boot, clicks, board, faults, excuse>>

Send ==
  /\ pc = "run" /\ wire = "idle" /\ ~cut
  /\ wire' = "sent"
  /\ UNCHANGED <<page, job, cut, board, faults, excuse>>

Reads(c) == [k \in 1..Len(c.data) |-> IF xip THEN flash[c.addr + k - 1] ELSE Junk]

\* The ack; what was read must be what was written.
Ack ==
  /\ pc = "run" /\ wire = "executed" /\ ~cut
  /\ \/ /\ Now.op = "read" /\ Reads(Now) # Now.data
        /\ Failed /\ UNCHANGED step
     \/ /\ Now.op # "read" \/ Reads(Now) = Now.data
        /\ wire' = "idle" /\ step' = step + 1
        /\ status' = (IF Now.op \in {"erase", "write", "read"} THEN "flashing" ELSE status)
        /\ pc' = (IF step = Len(plan) THEN "finish" ELSE "run")
        /\ UNCHANGED <<enabled, cut>>
  /\ UNCHANGED <<file, boot, clicks, image, plan, board, faults, excuse>>

\* Mutant: a transfer that was cut off is not noticed.
ThrowStalledOnly ==
  /\ pc = "run" /\ wire = "stalled"
  /\ \/ Now.op # "reboot" /\ Failed
     \/ Now.op = "reboot" /\ pc' = "finish" /\ wire' = "idle" /\ cut' = FALSE /\ UNCHANGED <<enabled, status>>
  /\ UNCHANGED <<file, boot, clicks, image, plan, step, board, faults, excuse>>

\* A stall or a lost connection throws, but the error of the reboot is dropped.
Throw ==
  /\ pc = "run" /\ (wire = "stalled" \/ cut)
  /\ \/ Now.op # "reboot" /\ Failed
     \/ Now.op = "reboot" /\ pc' = "finish" /\ wire' = "idle" /\ cut' = FALSE /\ UNCHANGED <<enabled, status>>
  /\ UNCHANGED <<file, boot, clicks, image, plan, step, board, faults, excuse>>

\* "done" is shown, then boot.close() called: an error once the event took boot.
Finish ==
  /\ pc = "finish"
  /\ \/ ~boot /\ Failed
     \/ boot /\ status' = "done" /\ pc' = "closing" /\ UNCHANGED <<enabled, wire, cut>>
  /\ UNCHANGED <<file, boot, clicks, image, plan, step, board, faults, excuse>>

Closed ==
  /\ pc = "closing"
  /\ boot' = FALSE /\ pc' = "idle" /\ wire' = "idle" /\ cut' = FALSE /\ enabled' = FALSE
  /\ UNCHANGED <<file, status, clicks, image, plan, step, board, faults, excuse>>

Handler == Select \/ Send \/ Execute \/ Ack \/ Throw \/ Finish \/ Closed

Next ==
  \/ \E f \in Files : PickFile(f)
  \/ Click \/ Handler \/ CloseOld \/ Open \/ DisconnectEvent
  \/ Stall \/ WriteLost \/ Unplug \/ DropOff \/ Replug

\* Promises settle: a board that is attached answers, one that is not fails.
Spec == Init /\ [][Next]_vars /\ WF_vars(Handler)
-----------------------------------------------------------------------------
Cells(b) == b.addr..(b.addr + Len(b.data) - 1)

\* A block without pages still has a place.
Span(b) == Cells(b) \cup {b.addr}

Holds(blocks) ==
  \A k \in DOMAIN blocks : \A a \in Cells(blocks[k]) :
    a < Size /\ flash[a] = blocks[k].data[a - blocks[k].addr + 1]

\* "done" is shown only over a flash that holds every block of the file that is
\* for this chip, whatever the board lost, stalled or was cut off from.
DoneIsFlashed == status = "done" /\ pc \in {"idle", "closing"} => image # <<>> /\ Holds(image)

\* Blocks that fit the flash and do not contradict each other.
Sound(blocks) ==
  /\ \A k \in DOMAIN blocks : Span(blocks[k]) \subseteq 0..(Size - 1)
  /\ \A j, k \in DOMAIN blocks : \A a \in Cells(blocks[j]) \cap Cells(blocks[k]) :
       blocks[j].data[a - blocks[j].addr + 1] = blocks[k].data[a - blocks[k].addr + 1]

\* A flash of sound blocks fails only when something happened to the board or
\* its connection: the order of erasing, writing and reading suits every layout.
SoundFilesFlash ==
  pc = "idle" /\ status = "failed" /\ image # <<>> /\ Sound(image) => excuse

\* No step changes a sector that no block of the image lies or begins in.
OthersKept ==
  [][\A a \in DOMAIN flash : flash'[a] # flash[a] =>
       \E k \in DOMAIN image : \E c \in Span(image[k]) : c \div SECTOR = a \div SECTOR]_vars

\* The button's handler ends, and says how.
FlashEnds == pc # "idle" ~> pc = "idle" /\ status \in {"done", "failed"}
=============================================================================
