# rustprobe: a TLA+ model of the firmware and its host protocol

rustprobe turns an RP2040 or RP2350 into up to twelve CMSIS-DAP v2 debug probes
and two CDC-UART bridges on one USB device. This directory holds TLA+ modules
translated from the Rust sources, TLC configurations that check them on small
instances, and TLAPS proofs of the results that hold for every instance.

## 1. The system

| Component | State | Operations | Talks to |
|---|---|---|---|
| DAP lane I/O task (`firmware/src/main.rs`, core 0) | position in the request cycle; the lane's `LaneBufs` | wait for the endpoint, read, dispatch, await the worker, write, suspend, reboot | USB endpoints; `WORKER_REQ`/`WORKER_RESP`; `ConfigService` |
| SWD worker (`main.rs`, core 1) | position in its loop; `ACTIVE_LANES` | receive, `process_command`, reply, `suspend` | the channels; the DAP command processor |
| Request framing (`main.rs`, `dap-async/src/framing.rs`) | bytes in the buffer | `read_request`, `request_len`, `write_response`, zero-length packets | host transports |
| DAP command processor (`dap-async/src/dap.rs`, `swd.rs`) | match mask, retry counts, the pipeline of posted reads | one handler per CMSIS-DAP command | the `Driver` trait |
| PIO driver and engine (`firmware/src/dap.rs`, `swd.rs`) | plan, cursor, turn counter, FIFOs, direction, stall flag, nRESET | transfers, blocks, connect, disconnect, pins, sequences | the PIO state machine; the target; other lanes through `ACTIVE_LANES` |
| Validation and allocation (`probe-config`, `firmware/src/instances.rs`, `main`) | pin table, PIO slots, UARTs, endpoints | `validate`, `build_engines`, the UART claims | boot |
| Configuration service (`firmware/src/vendor.rs`) | staging buffer, board profile in RAM | vendor commands | every lane; the flash worker |
| Flash (`firmware/src/flash_config.rs`) | stored topology and profile; `COMMIT_LOCK`, `COMMIT_REQUEST`, `COMMIT_RESULT` | `commit`, `flash_worker`, the loads at boot | the configuration service |
| UART bridges (`firmware/src/uart_bridge.rs`) | the session flag, the baud rate, the direction being copied | copy, line coding, DTR | CDC class; autobaud engine |
| Autobaud (`firmware/src/autobaud.rs`, `autobaud-estimator`) | `CONTROL`, `RESULT`, active UART, estimator | start, stop, DMA block | all bridges |
| Estimator (`autobaud-estimator`) | hash table of widths, shortest signal, sum of one-bit periods | `push`, `reset`, the published rate | the autobaud task |
| Host sessions (`cli`, `webui/site/js/session.js`) | a session's step, staged offset | set topology, set profile, reboot | vendor commands |
| Web flashing (`webui/site/js/flash.js`, `picoboot.js`, `uf2.js`) | file, connection, the commands of a flash | parse, filter, erase, write, verify, reboot | the bootrom's PICOBOOT interface |

What is hard here:

- **Two cores, no copies.** `LaneBufs` hands out `&mut` to both cores; only the
  order of channel operations makes that sound.
- **Cancellation and the bus.** The bus may go down and up at every await; a task
  that awaits something other than an endpoint does not see it.
- **Framing.** Ends of requests and replies that are exact multiples of a packet.
- **Pipelined data.** AP reads return the result of the read before them, writes
  complete later, errors may come at each of these points.
- **Shared configuration.** One staging buffer and one result signal for all
  sessions, values validated before an await and stored after it, power cuts.
- **Last-value signals.** Bridges overwrite each other's `CONTROL` command, and
  estimates arrive after the session they belong to.
- **Two machines and two FIFOs.** The driver queues commands and data blindly and
  yields in the middle; the PIO program, and behind it the target, must agree with
  it on every clock, also after a refused or garbled transfer.
- **Parsers that share no code.** The host, `request_len` and the handlers each
  find the end of a command on their own.
- **A table without deletion.** The estimator's search ends at a free slot only.
- **A board that leaves.** Flashing can stall, lose writes or be unplugged at each
  command, and the last command makes the board drop off on purpose.
- **Panics at boot.** Allocation relies on validation for everything it claims.

`PROJECT.json` lists each of these hazards at its line with the properties that
cover it.

## 2. Modules

| Module | Models | Used by |
|---|---|---|
| `Lane` | the I/O task, the worker, channels, buffers, bus, reset | `MCLane`, `LaneProofs` |
| `LaneAbs` | what a probe interface promises; `Lane` implements it | (by `INSTANCE` in `Lane`) |
| `UsbFraming` | `read_request`, `write_response`, the host's transfers | `MCUsbFraming`, `FramingProofs` |
| `Commands` | `request_len`, `process_command` and its handlers over bytes | `MCCommands`, `FramingProofs` |
| `Transfer` | `DAP_Transfer`, `DAP_TransferBlock`, the retry loops | `MCTransfer`, `TransferProofs` |
| `SwdContract` | the default bodies of the `Driver` trait; `PioSwd` implements it | (by `INSTANCE` in `PioSwd`) |
| `PioSwd` | the driver's futures, the PIO program, the target's frames | `MCPioSwd`, `PioProofs` |
| `ConfigService` | vendor commands, flash worker, boot, host sessions | `MCConfigService`, `ConfigProofs` |
| `UartAutobaud` | bridges, `CONTROL`, `RESULT`, the capture task | `MCUartAutobaud`, `AutobaudProofs` |
| `Estimator` | `push`, the hash table and the published rate | `MCEstimator`, `AutobaudProofs` |
| `Boot` | `Topology::validate` and all claims made at boot | `MCBoot`, `ConfigProofs` |
| `Flash` | the web page's Flash tab and its PICOBOOT commands | `MCFlash`, `FlashProofs` |
| `SequenceLemmas` | (lemmas on sequences of sequences and their sums) | `FramingProofs`, `FlashProofs` |

How they fit together: a request reaches `UsbFraming` as packets, whose contract
for `request_len` is discharged in `Commands`; `Lane` hands it from core to core;
`Commands` says what a handler makes of its bytes, and `Transfer` what the two
transfer commands do wire transfer by wire transfer; `SwdContract` is the interface
between those and `PioSwd`, which is shown to implement it. `ConfigService` starts
where `Lane` dispatches a vendor command, and `Boot` is its reboot in detail.
`Estimator` is what `UartAutobaud` leaves to a choice.

`PROJECT.json` maps every definition to the lines it stands for. The modules also
contain mutants, introduced by a comment "Mutant:": a definition with a plausible
bug, used only to show that a property can fail. No specification refers to them.

### Lane
An await of `dap_io_task`, `serve_request` or `swd_worker` is a value of `io[l]` or
`w[l]`, and the code between two awaits is one action. A request is a record of
its number, its kind and the bus session it was sent in; a buffer holds the
request it was filled with, or the request whose reply it holds. `dirty[l]` is
the bus session whose command last drove the target: 0 once `Dap::suspend` ran.
What `process_command` does to the wire is in `Transfer`, what the vendor
handler does in `ConfigService`, and the packets of the endpoint in `UsbFraming`.
`WaitEnabled`, `ReadDown` and `WriteDown` are the endpoint errors; a receive from
the worker has none, which is why `BusUp` needs only tasks that wait on an
endpoint to have noticed the bus going down: they are woken and polled before
the host can configure the device again. A suspended bus is modelled as one
that is down. Pads and channels are gone after `Reset`; buffers keep their
contents as history only.

### LaneAbs
The same interface with no tasks, channels or buffers: requests come into service
one at a time and in order, each one for the engine runs exactly once while it is
in service, it is answered at most once, and nothing runs while a release of the
target is owed. `Lane` defines the mapping (`Open`, `Current`, `OnEngine`,
`OwedLanes`) and states `ImplementsLaneAbs`.

### UsbFraming
Packets carry the number of their transfer and an offset in place of bytes.
`request_len` enters by its contract: it is exact at the start of a standard
request, does not know vendor commands, and may say anything of bytes from the
middle of a request. The host collects with transfers of `DAP_PACKET_SIZE`, or of
one packet on the configuration protocol, which is how `probe-rs` and the
project's own tools read.

### Commands
A command is described as the host means it (`desc`: a name, an argument and its
items) and `Encode` gives its bytes; the run sends every prefix, and the command
followed by a second one. `RequestLen` is the loop of `framing.rs`; `Immediate`,
`Simple` (from the `Script` of fields each handler reads) and the actions of the
commands with items are `process_command` and its handlers, one loop iteration per
step, with the reply's length and every `?` that aborts. `effects` lists what the handler
asked of the driver and which settings it assigned, and is compared with what the
host meant. Data bytes are alike; the transfers here are of DP registers, as
posting, retries and matches are in `Transfer`. `DAP_Info` is answered by
`main.rs`'s `dap_info_response` before `Dap::info` is reached; the module has the
handler of `dap-async`. `CommandsAssumption` says what a command can be: one whose
numbers fit their fields (`Encodable`, where 64 bits of a sequence, or 256, are sent as
0), and a reply buffer with room for the replies of fixed length.

### Transfer
A command is a sequence of kinds of transfer, cut at an arbitrary point. The
target's `RDBUFF` is `pend`, the transfer whose result it holds; every OK transfer
moves it, and WAIT, FAULT, a mismatch or the end of the packet may come anywhere.
`Go` is the code between two wire transfers: it appends words to the reply and
turns a reply that does not fit, or a packet that ends early, into `DAP_ERROR`.

### SwdContract and PioSwd
`SwdContract` has one step per wire transfer; a word read is the number of
transfers the target accepted so far in the call, so it tells which transfer it
came from. `PioSwd` has the futures (`Start`, `Request`, `Data`, and the cold paths
`Exec` and `Stalled`), each with a plan of FIFO operations and a cursor: the
part of the plan that is still to do. A step of `Poll` is one FIFO operation, the end of
a plan, or a yield, after which `Resume` is the executor's next poll. The
program's routines (`cmd`, `write`, `read`, `push`) take one FIFO entry or one run of
clocks per step, and keep the direction, the shifted word and the sticky stall
flag. The target counts clocks: it knows where a frame it is in ends, and is lost
when the host stops following. What it answers is free; after a garbled ACK or an
unreadable sequence it may be lost. The spin budget is not counted (a wait may
yield at once or spin until the other side moved), a delay of nRESET is one step,
and `lanes`, the other lanes' activity, changes only while this one has yielded,
since they share its core.

### ConfigService
Topologies are sequences of chunks and profiles are sets of allowed chunks, which
is enough to tell apart valid and invalid topologies and mixtures of two. Sessions
follow `Session::set_topology`, `set_profile` and `reboot`. The staging mutex is
held by `Commit` until its result is taken; the other handlers hold it within one
action. A store is atomic and may fail (sequential-storage is external), and
`PowerCut` can happen in any state. Commands that only read are left out.

### UartAutobaud
`ControlChange`, `TakePacket`, `TakeBytes` and `TakeEstimate` are the four futures
of `select4` with its priority from first to last as guards; `ClosedChange` is the
wait of a port whose DTR is low. `CONTROL` holds the last command, `RESULT` the
last estimate and a flag per receiver. `fifo` and `fed` record which lines samples
are from, which is what a stale estimate would be made of.

### Estimator
`push` converts the timer's word to cycles with the code's wrapping arithmetic,
probes slot by slot (`Probe`) and judges the sample (`Judge`). Rates, the noise ratio
and the completeness curve are exact fractions; the code rounds them to `f32`. The
hash is a constant function, so that widths can be made to collide.

### Boot
Validation as five predicates over sequences of probes and UARTs, and boot as it
claims pins, state machines, endpoints, interfaces and UARTs from what is left;
every `expect` or `panic!` is a disjunct that ends in stage "panic".

### Flash
`ParseUf2`, `FilterFamily`, `Coalesce`, `Sectors`, `Chunks` and `FlashRanges` are the
functions of `uf2.js` and `picoboot.js`; the last gives the commands of a flash in
order. What the code loops over is written as sets of positions (`Ascending`, `At`,
`First`) and JavaScript's sort as ranks (`Sorted`), which TLAPS can reason about.
`parseUf2` accepts a block without data: if it begins inside a sector, `flashRanges`
erases that sector, so `Span` counts it as the file's own. `Send`, `Execute` and `Ack` are one command on the wire; `Throw` is the
rejection that `flash.js` shows. The board may stall, lose a write, drop off, be
unplugged or come back. Addresses count pages and data are values that differ.

## 3. Model checking

TLC runs of `PROJECT.json`, all with `-workers 2`. "Violated" runs check a
statement of the documentation or the comments that the code does not satisfy;
their findings quote it.

| Run | Bounds | Shows |
|---|---|---|
| `lane` | 2 lanes with 2 and 1 requests, 2 bus sessions, a pipelining host, a reset | the inductive invariant of the proofs, exclusive buffers, exact `ACTIVE_LANES`, the refinement of `LaneAbs`; the target is released after the bus goes down for good, every request handed over comes back |
| `lane_glitch` | 1 lane | violated: a down and up during a command sends no Suspend |
| `framing` | packets of 2, buffers of 6, requests up to 8, replies below 6 | whole requests, one reply per transfer, every request answered; of a request longer than the buffer, no part that passes for all of it |
| `commands` | every command with up to 3 items of every shape, every prefix, a 20-byte reply | the two parsers and the host agree; an incomplete command does only a beginning of itself and is answered with an error |
| `config` | 2 sessions, one of them of profiles too, 2 command sequences, 1 reset, buffer of 2 chunks, topologies up to 3 | an OK is about one's own store; RAM and flash profile agree; what a commit stores boots; every command is answered |
| `transfer` | 4 transfers of 6 kinds with and without timestamps, 1 WAIT and 1 match retry, replies of 4 words | words in order, complete replies, writes taken, every command ends |
| `pio` | blocks of 2 words, 1 retry, FIFOs of 4, a turn of 2, turnaround 2 without and turnaround 1 with idle cycles and data phase | driver, program and target stay in step after every ACK; no two drivers on SWDIO; turns; what a method promises is done when it returns; every call returns; the refinement of `SwdContract` |
| `uart` | 2 bridges, 2 rates, 6 host events, 1 data event | the engine runs only for a bridge that asks; estimates are one's own; a rate set on an open port is applied |
| `estimator` | 6 words (one with width 0, all but one colliding), 5 slots, 7 samples | exact counts, periods within a tenth of the shortest signal, `push` returns |
| `estimator_full` | the same with 4 slots, 5 samples | violated: a full table is searched for ever |
| `boot` | 2 blocks of 2 state machines, 12 pins, up to 4 probes and 2 UARTs | no panic, everything built |
| `flash` | 3 sectors of 4 pages, files of up to 3 blocks (unsorted, adjacent, overlapping, without data, for other chips), 2 presses, 2 faults | "done" is true; sound files fail only for a fault; other sectors are kept; the handler ends |

Met while modelling, and not the subject of a run:

- A reply of exactly `DAP_PACKET_SIZE` bytes completes the host's transfer, and the
  zero-length packet sent after it (`main.rs:645`) is then the whole answer of the
  next IN transfer. `framing` therefore has replies below the buffer's size.
- What follows the part of a request that does not fit the buffer is not
  discarded, as `main.rs:610-612` says, but reassembled and dispatched as a request
  of its own (the properties of `framing` about whole exchanges speak of requests
  that fit).
- One staging buffer serves all interfaces and its mutex is held for a command at
  a time (`vendor.rs:125`), so two sessions that write at once can be told OK for a
  topology that neither sent. `AckedIsStored` speaks of what was committed.
- `ConfigService::commit` validates under the profile in RAM and then waits for
  `COMMIT_LOCK`; a set-profile that holds it takes effect first, and the topology is
  stored all the same. `CommittedBoots` excludes this case: it speaks of a store
  that finds no session whose last write was a profile.
- With no topology in the flash `config_fault` is false, where
  `probe-config/src/protocol.rs:90-91` says "missing/invalid"; and the default
  topology is used without being validated under the loaded board profile.
- A posted AP read is counted when it is posted (`dap.rs:363`); if its collection
  fails it stays counted without its data, though `dap.rs:249-250` says that "the
  transfer count excludes the transfer that failed". `ReplyComplete` allows it.
- `autobaud::stop` names no UART (`uart_bridge.rs:153`), so a bridge may stop the
  session that another one has started since, which keeps its flag.
- A line coding set while DTR is low is consumed by the wait for DTR and never
  applied unless another control change follows (`uart_bridge.rs:110-113`).
- "A lane running alone never yields" (`firmware/src/dap.rs:32-34`): it does when
  it waits for a FIFO longer than the spin budget, and such a yield does not
  restart the count of `YIELD_EVERY`.
- `swj_pins` and `set_clock` act at once, while bits queued before may still be in
  the FIFO. A garbled ACK for a WAIT or FAULT without a data phase leaves the
  target out of step until a line reset, which the host must send.
- The estimator's `min_cycles` is never judged again: a glitch that was frequent
  when first seen stays the minimum, where `lib.rs:22-24` speaks of all samples.
- A flash whose board drops off before `boot.close()` is reported "failed" though
  complete (`flash.js:168`); a rejected reboot is reported "done"; the button is
  disabled only after the file was awaited (`flash.js:149` and `:160`), so a double
  press starts two flashes. The model has one handler.

Why the bounds are enough. Lanes share only `ACTIVE_LANES`, the bus and the reset,
so two show every interaction; two requests on one lane and two bus sessions put
an old request, a new one and a bus change side by side; a vendor request takes
the path of a reboot without the reset and is left out of the run. Framing depends
on lengths modulo the packet and on the distance to the end of the buffer, which a
packet of 2 and a buffer of 3 packets cover with all their multiples and
neighbours. `Commands` parses item by item with no memory but the position, so
three items have one before and one after; 1, 8, 9 and 64 bits are the edges of
the bit counts. `Transfer` remembers one posted read and one unchecked write, so
four transfers contain every sequence of three neighbours with one before or
after. `PioSwd` needs a first, a last and a posted word, a retry used and one
exhausted, and a FIFO shorter than the longest plan. Commands of the configuration
service touch one mutex, one lock and one signal: two sessions contend for each.
Five slots fill up to the last free one. Boot's chip and the flash are small in
every resource, so that each one runs out, or is shared, in some instance. Each
counter bound (`MaxReq`, `MaxSession`, `MaxQueue`, `MaxOps`, `MaxBoots`, `MaxLen`,
`MaxHost`, `MaxData`, `MaxTotal`, `MaxClicks`, `MaxFaults`) limits the environment
only, hence `CHECK_DEADLOCK FALSE` where it ends; sums in `Estimator` stay below
the word size.

Fairness. Both embassy executors poll each woken task, so every I/O task, worker,
bridge, handler, flash worker and the autobaud engine is weakly fair. In `Lane`
nothing is assumed of hosts or the bus. In `UsbFraming` the host reads what is
armed while it waits for a reply; in `UartAutobaud` a host reads the port it has
open (fairness of `ToHost`); in `ConfigService` sessions that have begun go on.
In `Transfer` the wire answers, which `PioSwd` shows of the driver. In `PioSwd` the
driver is polled while it runs and resumed when it has yielded, and the state
machine is clocked. `Estimator`'s `push` is one function call. In `Flash` promises
settle: a board that is attached answers, one that is not makes them fail.

No run uses symmetry: each checks liveness or refinement, or has ordered data.

## 4. What is proved

Eight modules of proofs, each for all values of the constants that the named
assumption of the module allows.

`LaneProofs` (any finite set of lanes, any kinds and bounds):

- `Typing`: `TypeOK`. `InOrder`: requests are taken in the order sent.
- `InStep`: `ChannelsInStep` is not inductive alone. `OneHolder` adds that the
  request is in one place at a time (the channel, the worker, or the reply
  channel) and that no Suspend sits in front of a Process. From there every
  action moves the one message along.
- `Exclusive`: `BufferExclusive` follows: a worker inside `process_command` implies
  that the I/O task awaits the reply, and there it holds no buffer. This is the
  argument in the "Safety" comments of `LaneBufs`.
- `AnswersRequest`: `Progress` carries how far the request in service has got,
  `Dispatched` its kind; both need `RequestsInOrder`, since "not answered before"
  means that numbers only grow.
- `Strengthening`: their conjunction `IInv`, which the run `lane` checks as well.
- `Implementation`: `Lane` implements `LaneAbs`; each action maps to one abstract
  step or a stutter under the invariant.
- `ActiveExact`: `ACTIVE_LANES` is the cardinality of the set of busy workers.

`TransferProofs` (commands of any length, any retries, any room):

- `WritesAreTaken`: `Checked` says that a write the target may still fault is
  followed by something that tells: `check_write` on the way to the final read, or
  the block's flush. `Placed` says, for each wire transfer awaited, which kind of
  transfer it serves; without it `Collect` before a write could clear the flag.
- `RepliesInOrder`, `RepliesAreComplete`: `Told` says that between two wire transfers
  the reply is exactly what the counted transfers owe, in order, but for the data
  of the last when `post_read` is set; `Held` that this is what the target holds.
  Then each collection puts the right word behind all others.

`PioProofs` (any FIFO depth, turnaround, idle count, data phase, turn, block length
and retries):

- `DriverAndProgramInStep`: every plan, taken entry by entry, has a word behind each
  write command and nowhere else, and as many pulls as reads that push, for every
  ACK. `Stream` then says this of FIFO and remaining plan as one sequence, and
  `Balanced` that words received, being shifted or asked for are those still to be
  pulled: between two transfers there are none.
- `LanesTakeTurns`: `TurnInv` relates the transfers since the last turn to the
  driver's own count, which FIFO yields do not reset.
- `HostAndTargetInStep` (`WireInStep`) and `ReturnsAreSettled`. A command is clocked
  long after the driver has queued it, so the state of the target says nothing of
  the plan as it stands. `Wire` relates them by *positions* in a frame (out of it,
  asked, acknowledged, so many clocks left): each entry of FIFO and plan leads from
  one position to the next, the first position is where the target is, the last
  where the driver's stage ends. Each plan is shown once, for every ACK and
  direction, to lead from the start of its stage to its end; after that an action
  moves an entry from the plan to the FIFO, or consumes it and moves the target.
- `Implementation`: `PioSwd` implements `SwdContract`. The abstract step is the
  conclusion of an exchange; each concrete action is shown to be that step for the
  ACK the target gave, which `Wire` says is the one the driver pulled, or a stutter.

`FramingProofs` (any packet and buffer size, any requests, hosts with and without
zero-length packets):

- `CommandsAreWhole`: `Whole` says that packets on the way and bytes in the buffer are
  consecutive pieces of the requests in their order, and that a request
  whose beginning is in the buffer is the one the wire goes on with. A request that
  does not fit is never in the buffer from its beginning to its end.
- `RequestsAreReassembled`: `Exchange` adds, for hosts whose requests fit the buffer,
  that at most an empty packet of the request served last is ahead of the next one.
- `RepliesMatch`: `Answered` adds that packets of a reply being sent, waiting in the
  endpoint and taken by the host make up the one reply awaited. Its hypothesis, that
  no standard reply fills a DAP packet exactly, is necessary: section 3 says
  what happens otherwise.

and of `Commands` (any commands whose numbers fit their fields, with any number of
items, and any reply buffer of 14 bytes or more):

- `ParserAgrees` (`ParserExact`): `Place` gives the position of each item in the bytes
  of its command; each is one item further than the last (`Laid`). `request_len`
  walks over the same positions, so on a beginning of these bytes it stops at the
  first item that is not all there, and on all of them at the last byte, whatever
  is behind it. The loops are folds and flattened sequences; the facts about them
  that need induction come from a least counterexample (`Smallest`, `UpTo`).
- `ParseInvariant`: the handlers parse the bytes a second time, and `ParseInv` says
  where they are: what was received is the beginning of the command (`Received`); a
  fixed command has read, and asked for, what its first steps are (`AtHead`); a command
  of items is at the position of the next item, its effects are those of the items
  before and its reply what they are owed (`AtItems`); and what has ended ended well
  (`Settled`). Position, effects and reply move together: none is inductive alone.
- `NeverShort` (`CompleteIsEnough`), `AskedAsMeant` (`EffectsAsMeant`) and
  `RepliesAsMeant` (`ReplyAsMeant`) follow: two parsers and one encoder that share no
  code agree on every command.

`ConfigProofs` (any sessions, topologies and profiles):

- `CommitsAreStored`, `RamAndFlashAgree`, `CommitsBoot` from one invariant: only the
  holder of `COMMIT_LOCK` is at the flash worker, the one queued request is its
  item, a result is for it, and what it is about to store is locked in the staging
  buffer and valid under the profile in RAM, unless some session wrote a profile.

and of `Boot`, from `BootAssumption` (the pin table holds every GPIO of the chip, the
two UARTs' pins are disjoint, the interface limit exceeds the endpoints by one), for
any number of blocks, probes and UARTs:

- `BootsWithoutPanic`: the invariant `BInv` says that pins, and the UART peripheral,
  of everything not yet built are still there. It needs from validation that pins are
  disjoint and that UARTs select distinct instances; the USB builder's limits follow
  from the endpoint budget.
- `BootBuildsAll` (`FullyBuilt`): engines take the state machines in the order of
  their numbers, counted block by block, so no two share one, and autobaud's number
  is behind them all.

`AutobaudProofs` (any UARTs and rates): `OnlyForAsking` and `OwnEstimate`; the invariant
adds that a set flag means that the magic rate was seen last, and that FIFO and
estimator hold samples of the measured line only.

and of `Estimator` (any table size, hash, widths and completeness curve):

- `TableIsExact`: the search for a width passes entries of other widths only, up to
  its own entry (`Found`), or the width is nowhere (`Absent`). Nothing is moved or
  freed, so a free slot that is taken blocks no search, and the count of each width
  is the number pushed, less the one still being inserted.
- `PeriodsFit`: a one-bit period is less than a tenth above the shortest signal, so
  the sum is; a new shortest signal resets it. It assumes a bound w on the widths such
  that a full session of them adds up to less than a word, which is how the comment
  at `autobaud-estimator/src/lib.rs:39` excludes an overflow of `bit_time_sum`.

`FlashProofs` (any files, any size of sectors and chunks, a flash of whole sectors):

- `PlansFlashTheirFiles`: `WellPlanned` says what a list of commands must be to flash
  the blocks of a file: the sectors that blocks lie or begin in erased, and no others;
  every page of every block written, and read, with its data, and nothing else; all
  erases before all writes before all reads; the reboot last. Filter,
  sort, coalesce, sectors and chunks are shown to give such a list for every file.
  Induction over data being out of reach, the recursive functions of the library are
  followed by a least counterexample (`Smallest`, `UpTo`): where a flattened sequence
  has the elements of its parts (`FlatAt`) needs nothing else.
- `DoneIsTrue` (`DoneIsFlashed`): `DoneInv` is `Typed`, `Following` (the handler is at
  its step of its file's plan; a bad sign on the wire is always remembered) and
  `Verified` (each read already acknowledged is what the flash still holds: reads
  come last and change nothing).
- `OtherSectors` (`OthersKept`) from the same invariant: a step changes the flash only
  by the command of a well-made plan.
- `SoundFilesAreFlashed` (`SoundFilesFlash`): `SoundInv` adds, for a file whose blocks
  fit the flash and do not contradict each other, and while nothing has gone wrong, that written pages hold their data
  (`Holding`), pages still to be written are erased once their sector is (`Writable`)
  and the board is in the mode that the next command needs (`Undisturbed`).

The stronger invariants (`WInv`, `Whole`, `Exchange`, `Answered`, `ParseInv`, `TableInv` and the
bounds of `PeriodsFit`) were checked by TLC on the instances of the runs before they
were proved.

Only model-checked: liveness under fairness (`lane`, `framing`, `config`, `transfer`,
`pio`, `uart`, `estimator`, `flash`), which the prover cannot treat. Every safety
invariant of a passing run is proved.

## 5. Not modelled, and why

- TOML and WASM conversions, the web editor and storage, statistics, the stress
  tool, scripts: no shared state or ordering that a model would explore.
- The reset interface beyond a reset at any moment: its control request only
  decodes two numbers. Its `try_lock` of the watchdog fails only while a reboot is
  already under way.
- Listing and choosing devices in the CLI and the web page; a host that gives up
  on a reply and finds it on its next read (`transport.rs:112`): the firmware
  cannot tell such a read from a new one.
- Bytes and electrical behaviour: data carries only where it came from, and noise
  may hide an ACK or spoil parity but never make one valid ACK of another.
- Rounding of rates to `f32` in the estimator.
- RP2350B's pin windows: a TODO in `Topology::validate` itself.

## 6. Plan

1. Host sessions: the CLI and the web page with a disconnection in the middle, and
   the second press of the Flash button.
2. A composition of `UsbFraming` and `Lane`, so that a bus reset meets a request
   that spans packets.
