-------------------------------- MODULE Lane --------------------------------
(***************************************************************************)
(* One DAP lane per probe: the core-0 I/O task (dap_io_task), the core-1   *)
(* SWD worker (swd_worker), the two depth-1 channels between them and the  *)
(* request and reply buffers they share without copying.  Every await of   *)
(* the two tasks is a value of their program counters; the code between    *)
(* two awaits is one action.  firmware/src/main.rs.                        *)
(***************************************************************************)
EXTENDS Integers, Sequences, FiniteSets

CONSTANTS
  Lanes,        \* the probes of the active topology
  Kinds,        \* the kinds of request the hosts send
  MaxReq,       \* bound: requests a host sends on each lane
  MaxSession,   \* bound: times the bus comes up
  MaxQueue      \* bound: requests a host has queued on an OUT endpoint

AllKinds == {"info", "vendor", "reboot", "process", "abort", "empty"}

ASSUME LaneAssumption ==
  /\ IsFiniteSet(Lanes)
  /\ Kinds \subseteq AllKinds
  /\ MaxReq \in [Lanes -> Nat] /\ MaxSession \in Nat /\ MaxQueue \in Nat

\* A request: its number on the lane, its kind, the bus session it was sent in.
Request == [id : Nat, kind : AllKinds, ses : Nat]
NoReq == [id |-> 0, kind |-> "empty", ses |-> 0]
Engine == {"process", "abort"}   \* the kinds handed to the worker

IoState == {"waitEnabled", "reading", "vendor", "sendReq", "awaitReply",
            "writing", "rebootWait", "sendSuspend"}
WorkerState == {"receive", "process", "reply", "suspend"}

VARIABLES
  link,      \* "up": the USB device is configured, every endpoint enabled
  session,   \* how many times the bus came up
  out,       \* out[l]: requests queued on the lane's OUT endpoint
  inEp,      \* inEp[l]: the reply armed on the IN endpoint (NoReq: none)
  sent,      \* sent[l]: number of the last request the host queued
  io, w,     \* the two tasks' program counters
  reqBuf,    \* LANE_BUFS[l].req: the request it holds
  respBuf,   \* LANE_BUFS[l].resp: the request whose reply it holds
  reqCh,     \* WORKER_REQ[l]: the message it holds
  respCh,    \* WORKER_RESP[l]: the kind of reply it holds
  wlen,      \* swd_worker's len: "silent" is 0, no response
  active,    \* ACTIVE_LANES
  dirty,     \* session whose command last drove the target (0: parked)
  ran,       \* history: number of the last request the engine executed
  replied    \* history: number of the last request answered to the host

bus == <<link, session, out, inEp, sent>>
engine == <<active, dirty, ran>>
vars == <<link, session, out, inEp, sent, io, w, reqBuf, respBuf, reqCh, respCh,
          wlen, active, dirty, ran, replied>>

up == link = "up"

Init ==
  /\ link = "down"
  /\ session = 0
  /\ out = [l \in Lanes |-> <<>>]
  /\ inEp = [l \in Lanes |-> NoReq]
  /\ sent = [l \in Lanes |-> 0]
  /\ io = [l \in Lanes |-> "waitEnabled"]
  /\ w = [l \in Lanes |-> "receive"]
  /\ reqBuf = [l \in Lanes |-> NoReq]
  /\ respBuf = [l \in Lanes |-> NoReq]
  /\ reqCh = [l \in Lanes |-> "none"]
  /\ respCh = [l \in Lanes |-> "none"]
  /\ wlen = [l \in Lanes |-> "silent"]
  /\ active = 0
  /\ dirty = [l \in Lanes |-> 0]
  /\ ran = [l \in Lanes |-> 0]
  /\ replied = [l \in Lanes |-> 0]

-----------------------------------------------------------------------------
(* The host and the USB device (embassy-usb, external).                     *)

\* The host configures the device.  A task that is waiting on an endpoint is
\* woken when it goes down and polled before the next configuration request
\* can be answered, so it has noticed; one that awaits something else has not.
BusUp ==
  /\ ~up /\ session < MaxSession
  /\ \A l \in Lanes : io[l] \notin {"reading", "writing"}
  /\ link' = "up"
  /\ session' = session + 1
  /\ UNCHANGED <<out, inEp, sent, io, w, reqBuf, respBuf, reqCh, respCh, wlen,
                 active, dirty, ran, replied>>

\* Bus reset, deconfiguration or suspend: the endpoints' packets are lost.
BusDown ==
  /\ up
  /\ link' = "down"
  /\ out' = [l \in Lanes |-> <<>>]
  /\ inEp' = [l \in Lanes |-> NoReq]
  /\ UNCHANGED <<session, sent, io, w, reqBuf, respBuf, reqCh, respCh, wlen,
                 active, dirty, ran, replied>>

\* A host may queue a request before the previous one is answered (an abort,
\* a pipelining debugger).
HostSend(l) ==
  /\ up /\ Len(out[l]) < MaxQueue /\ sent[l] < MaxReq[l]
  /\ sent' = [sent EXCEPT ![l] = @ + 1]
  /\ \E k \in Kinds :
       out' = [out EXCEPT ![l] =
                 Append(@, [id |-> sent[l] + 1, kind |-> k, ses |-> session])]
  /\ UNCHANGED <<link, session, inEp, io, w, reqBuf, respBuf, reqCh, respCh, wlen,
                 active, dirty, ran, replied>>

HostCollect(l) ==
  /\ inEp[l] # NoReq
  /\ inEp' = [inEp EXCEPT ![l] = NoReq]
  /\ UNCHANGED <<link, session, out, sent, io, w, reqBuf, respBuf, reqCh, respCh,
                 wlen, active, dirty, ran, replied>>

-----------------------------------------------------------------------------
(* dap_io_task and serve_request, on core 0.                                *)

IoGoto(l, from, to) ==
  /\ io[l] = from
  /\ io' = [io EXCEPT ![l] = to]

WaitEnabled(l) ==
  /\ up
  /\ IoGoto(l, "waitEnabled", "reading")
  /\ UNCHANGED <<bus, w, reqBuf, respBuf, reqCh, respCh, wlen, engine, replied>>

\* Where serve_request goes with a request of kind k.
Dispatch(k) ==
  CASE k = "info" -> "writing"
    [] k \in {"vendor", "reboot"} -> "vendor"
    [] k \in Engine -> "sendReq"

\* read_request returns a request: DAP_Info is answered without an await, an
\* empty or oversized request is not answered at all.
ReadRequest(l) ==
  /\ io[l] = "reading" /\ up /\ out[l] # <<>>
  /\ out' = [out EXCEPT ![l] = Tail(@)]
  /\ LET r == Head(out[l]) IN
       \/ /\ r.kind = "empty"
          /\ UNCHANGED <<io, reqBuf, respBuf>>
       \/ /\ r.kind # "empty"
          /\ io' = [io EXCEPT ![l] = Dispatch(r.kind)]
          /\ reqBuf' = [reqBuf EXCEPT ![l] = r]
          /\ respBuf' = IF r.kind = "info" THEN [respBuf EXCEPT ![l] = r]
                                           ELSE respBuf
  /\ UNCHANGED <<link, session, inEp, sent, w, reqCh, respCh, wlen, engine, replied>>

\* Mutant: a read error goes back to wait_enabled without the Suspend.
ReadDownNoSuspend(l) ==
  /\ ~up
  /\ IoGoto(l, "reading", "waitEnabled")
  /\ UNCHANGED <<bus, w, reqBuf, respBuf, reqCh, respCh, wlen, engine, replied>>

\* read_request fails: serve_request returns Err, dap_io_task leaves its loop.
ReadDown(l) ==
  /\ ~up
  /\ IoGoto(l, "reading", "sendSuspend")
  /\ UNCHANGED <<bus, w, reqBuf, respBuf, reqCh, respCh, wlen, engine, replied>>

\* ConfigService::handle returns; what it does is module ConfigService's.
VendorDone(l) ==
  /\ IoGoto(l, "vendor", "writing")
  /\ respBuf' = [respBuf EXCEPT ![l] = reqBuf[l]]
  /\ UNCHANGED <<bus, w, reqBuf, reqCh, respCh, wlen, engine, replied>>

SendProcess(l) ==
  /\ reqCh[l] = "none"
  /\ IoGoto(l, "sendReq", "awaitReply")
  /\ reqCh' = [reqCh EXCEPT ![l] = "process"]
  /\ UNCHANGED <<bus, w, reqBuf, respBuf, respCh, wlen, engine, replied>>

\* Mutant: the wait for the worker is abandoned when the endpoint dies.
ReceiveReplyOrGiveUp(l) ==
  /\ \/ /\ respCh[l] # "none"
        /\ respCh' = [respCh EXCEPT ![l] = "none"]
        /\ IoGoto(l, "awaitReply",
                  IF respCh[l] = "silent" THEN "reading" ELSE "writing")
     \/ /\ ~up
        /\ IoGoto(l, "awaitReply", "sendSuspend")
        /\ UNCHANGED respCh
  /\ UNCHANGED <<bus, w, reqBuf, respBuf, reqCh, wlen, engine, replied>>

\* The reply is collected whatever the endpoint does; length 0 sends nothing.
ReceiveReply(l) ==
  /\ respCh[l] # "none"
  /\ respCh' = [respCh EXCEPT ![l] = "none"]
  /\ IoGoto(l, "awaitReply", IF respCh[l] = "silent" THEN "reading" ELSE "writing")
  /\ UNCHANGED <<bus, w, reqBuf, respBuf, reqCh, wlen, engine, replied>>

\* write_response arms the reply once the host has collected the one before;
\* module UsbFraming splits it into packets.
WriteResponse(l) ==
  /\ io[l] = "writing" /\ up /\ inEp[l] = NoReq
  /\ inEp' = [inEp EXCEPT ![l] = respBuf[l]]
  /\ replied' = [replied EXCEPT ![l] = respBuf[l].id]
  /\ io' = [io EXCEPT ![l] =
              IF reqBuf[l].kind = "reboot" THEN "rebootWait" ELSE "reading"]
  /\ UNCHANGED <<link, session, out, sent, w, reqBuf, respBuf, reqCh, respCh, wlen,
                 engine>>

WriteDown(l) ==
  /\ ~up
  /\ IoGoto(l, "writing", "sendSuspend")
  /\ UNCHANGED <<bus, w, reqBuf, respBuf, reqCh, respCh, wlen, engine, replied>>

SendSuspend(l) ==
  /\ reqCh[l] = "none"
  /\ IoGoto(l, "sendSuspend", "waitEnabled")
  /\ reqCh' = [reqCh EXCEPT ![l] = "suspend"]
  /\ UNCHANGED <<bus, w, reqBuf, respBuf, respCh, wlen, engine, replied>>

\* CMD_REBOOT or CMD_BOOTSEL, 100 ms after the reply was armed: the chip
\* resets, with every lane's tasks, channels, endpoints and pins.  The buffers'
\* last contents are kept as history, nothing reads them before the next request.
Reset(l) ==
  /\ io[l] = "rebootWait"
  /\ link' = "down"
  /\ out' = [m \in Lanes |-> <<>>]
  /\ inEp' = [m \in Lanes |-> NoReq]
  /\ io' = [m \in Lanes |-> "waitEnabled"]
  /\ w' = [m \in Lanes |-> "receive"]
  /\ reqCh' = [m \in Lanes |-> "none"]
  /\ respCh' = [m \in Lanes |-> "none"]
  /\ wlen' = [m \in Lanes |-> "silent"]
  /\ active' = 0
  /\ dirty' = [m \in Lanes |-> 0]
  /\ UNCHANGED <<session, sent, reqBuf, respBuf, ran, replied>>

-----------------------------------------------------------------------------
(* swd_worker, on core 1.                                                   *)

WorkerSuspend(l) ==
  /\ w[l] = "receive" /\ reqCh[l] = "suspend"
  /\ reqCh' = [reqCh EXCEPT ![l] = "none"]
  /\ w' = [w EXCEPT ![l] = "suspend"]
  /\ UNCHANGED <<bus, io, reqBuf, respBuf, respCh, wlen, engine, replied>>

\* Dap::suspend is over: SWDIO parked, nRESET released.
WorkerParked(l) ==
  /\ w[l] = "suspend"
  /\ w' = [w EXCEPT ![l] = "receive"]
  /\ dirty' = [dirty EXCEPT ![l] = 0]
  /\ UNCHANGED <<bus, io, reqBuf, respBuf, reqCh, respCh, wlen, active, ran, replied>>

WorkerStart(l) ==
  /\ w[l] = "receive" /\ reqCh[l] = "process"
  /\ reqCh' = [reqCh EXCEPT ![l] = "none"]
  /\ w' = [w EXCEPT ![l] = "process"]
  /\ active' = active + 1
  /\ dirty' = [dirty EXCEPT ![l] = reqBuf[l].ses]
  /\ UNCHANGED <<bus, io, reqBuf, respBuf, respCh, wlen, ran, replied>>

\* Mutant: ACTIVE_LANES is not decremented on the no-response path, and no
\* WorkerReply is sent for it.
WorkerFinishSilentAbort(l) ==
  /\ w[l] = "process"
  /\ respBuf' = [respBuf EXCEPT ![l] = reqBuf[l]]
  /\ ran' = [ran EXCEPT ![l] = reqBuf[l].id]
  /\ wlen' = [wlen EXCEPT ![l] = IF reqBuf[l].kind = "abort" THEN "silent" ELSE "answer"]
  /\ w' = [w EXCEPT ![l] = IF reqBuf[l].kind = "abort" THEN "receive" ELSE "reply"]
  /\ active' = IF reqBuf[l].kind = "abort" THEN active ELSE active - 1
  /\ UNCHANGED <<bus, io, reqBuf, reqCh, respCh, dirty, replied>>

\* process_command has run the request in the buffer and written its reply.
WorkerFinish(l) ==
  /\ w[l] = "process"
  /\ respBuf' = [respBuf EXCEPT ![l] = reqBuf[l]]
  /\ ran' = [ran EXCEPT ![l] = reqBuf[l].id]
  /\ wlen' = [wlen EXCEPT ![l] = IF reqBuf[l].kind = "abort" THEN "silent" ELSE "answer"]
  /\ w' = [w EXCEPT ![l] = "reply"]
  /\ active' = active - 1
  /\ UNCHANGED <<bus, io, reqBuf, reqCh, respCh, dirty, replied>>

WorkerReply(l) ==
  /\ w[l] = "reply" /\ respCh[l] = "none"
  /\ respCh' = [respCh EXCEPT ![l] = wlen[l]]
  /\ w' = [w EXCEPT ![l] = "receive"]
  /\ UNCHANGED <<bus, io, reqBuf, respBuf, reqCh, wlen, engine, replied>>

-----------------------------------------------------------------------------
Host(l) == HostSend(l) \/ HostCollect(l)

Io(l) ==
  \/ WaitEnabled(l) \/ ReadRequest(l) \/ ReadDown(l) \/ VendorDone(l)
  \/ SendProcess(l) \/ ReceiveReply(l) \/ WriteResponse(l) \/ WriteDown(l)
  \/ SendSuspend(l) \/ Reset(l)

Worker(l) ==
  WorkerSuspend(l) \/ WorkerParked(l) \/ WorkerStart(l) \/ WorkerFinish(l)
  \/ WorkerReply(l)

Next == BusUp \/ BusDown \/ \E l \in Lanes : Host(l) \/ Io(l) \/ Worker(l)

\* Both cores' executors poll every woken task, the wire has bounded retries
\* and handle() returns: each task that can step eventually does.  Nothing is
\* assumed of the hosts or of the bus.
Fairness == \A l \in Lanes : WF_vars(Io(l)) /\ WF_vars(Worker(l))

Spec == Init /\ [][Next]_vars /\ Fairness

-----------------------------------------------------------------------------
(* Properties.                                                              *)

TypeOK ==
  /\ link \in {"up", "down"}
  /\ session \in Nat
  /\ out \in [Lanes -> Seq(Request)]
  /\ inEp \in [Lanes -> Request]
  /\ sent \in [Lanes -> Nat]
  /\ io \in [Lanes -> IoState]
  /\ w \in [Lanes -> WorkerState]
  /\ reqBuf \in [Lanes -> Request]
  /\ respBuf \in [Lanes -> Request]
  /\ reqCh \in [Lanes -> {"none", "process", "suspend"}]
  /\ respCh \in [Lanes -> {"none", "silent", "answer"}]
  /\ wlen \in [Lanes -> {"silent", "answer"}]
  /\ active \in Int
  /\ dirty \in [Lanes -> Nat]
  /\ ran \in [Lanes -> Nat]
  /\ replied \in [Lanes -> Nat]

\* The program points at which the I/O task reads or writes the lane's
\* buffers, and those at which it holds a request the worker has not answered.
IoHolds == {"reading", "vendor", "sendReq", "writing"}

\* The two cores never access a lane's buffers at once: while process_command
\* runs, the I/O task is waiting for its reply (the "Safety" comments of
\* LaneBufs, dap_io_task and swd_worker).
BufferExclusive ==
  \A l \in Lanes : w[l] = "process" => io[l] \notin IoHolds

\* The channels never go out of step: a reply, or a worker that is computing
\* one, is there exactly when the I/O task waits for it, for the one Process it
\* sent.  So no reply is left for a later request, and a sender never waits
\* behind a Process.
ChannelsInStep ==
  \A l \in Lanes :
    (io[l] = "awaitReply") <=>
      (reqCh[l] = "process" \/ w[l] \in {"process", "reply"}
         \/ respCh[l] # "none")

\* Whatever is sent to the host answers the request being served, and that
\* request alone: the reply buffer is the reply to the request buffer, and it
\* was not answered before.
ReplyAnswersRequest ==
  \A l \in Lanes : io[l] = "writing" =>
    /\ respBuf[l] = reqBuf[l]
    /\ replied[l] < reqBuf[l].id
    /\ reqBuf[l].kind \in Engine => ran[l] = reqBuf[l].id

\* The strengthening the proofs need: where the one request in service is, and
\* how far it has got.
Serving == {"vendor", "sendReq", "awaitReply", "writing"}

OneHolder ==
  \A l \in Lanes :
    /\ reqCh[l] = "process" => w[l] \notin {"process", "reply"}
    /\ reqCh[l] = "process" \/ w[l] \in {"process", "reply"} => respCh[l] = "none"
    /\ io[l] = "awaitReply" => reqCh[l] # "suspend"

Dispatched ==
  \A l \in Lanes :
    /\ io[l] = "vendor" => reqBuf[l].kind \in {"vendor", "reboot"}
    /\ io[l] \in {"sendReq", "awaitReply"} => reqBuf[l].kind \in Engine

Progress ==
  \A l \in Lanes :
    /\ w[l] = "reply" \/ respCh[l] # "none" =>
         respBuf[l] = reqBuf[l] /\ ran[l] = reqBuf[l].id
    /\ io[l] = "sendReq" \/ reqCh[l] = "process" \/ w[l] = "process" =>
         ran[l] < reqBuf[l].id
    /\ io[l] \in Serving => replied[l] < reqBuf[l].id
    /\ replied[l] <= reqBuf[l].id /\ ran[l] <= reqBuf[l].id

\* Requests reach the device in the order sent: queue q, from which the request
\* in the buffer b has been taken, of a host that has sent n requests.
Ordered(b, q, n) ==
  /\ b.id <= n
  /\ \A i \in 1 .. Len(q) : b.id < q[i].id /\ q[i].id <= n
  /\ \A i, j \in 1 .. Len(q) : i < j => q[i].id < q[j].id

RequestsInOrder == \A l \in Lanes : Ordered(reqBuf[l], out[l], sent[l])

IInv == /\ TypeOK /\ ChannelsInStep /\ OneHolder /\ Dispatched /\ Progress
        /\ RequestsInOrder /\ ReplyAnswersRequest

\* ACTIVE_LANES is the number of workers inside process_command, so a lane
\* that runs alone never yields and one that does not always does.
ActiveLanesExact == active = Cardinality({l \in Lanes : w[l] = "process"})

\* A command never starts on a target that was to be released: once the I/O
\* task has seen the interface go down, Dap::suspend runs before the next
\* session's first command.
Owed(l) == io[l] = "sendSuspend" \/ reqCh[l] = "suspend" \/ w[l] = "suspend"

Open == {l \in Lanes : io[l] \in Serving}
Current == [l \in Lanes |-> reqBuf[l].id]
OnEngine == {l \in Lanes : reqBuf[l].kind \in Engine}
OwedLanes == {l \in Lanes : Owed(l)}

Abs == INSTANCE LaneAbs WITH
  open <- Open, current <- Current, onEngine <- OnEngine, owed <- OwedLanes

\* The tasks, channels and buffers implement the abstract interface: in-order
\* service, exactly-once execution, at most one answer, release before reuse.
ImplementsLaneAbs == Abs!Spec

\* When the interface goes down for good the target ends up released, however
\* far the lane's command had got.
TargetReleased == \A l \in Lanes : <>[]~up => <>[](dirty[l] = 0)

\* A request handed to the worker always comes back, the ones without a
\* response included, and whatever the bus and the other lanes do.
WorkerAlwaysAnswers ==
  \A l \in Lanes : io[l] \in {"sendReq", "awaitReply"}
                     ~> io[l] \notin {"sendReq", "awaitReply"}

\* A command of a new session never starts on a target still driven for an
\* earlier one: "The interface went down: Dap::suspend".
SessionStartsReleased ==
  [][\A l \in Lanes : w[l] = "receive" /\ w'[l] = "process" =>
       dirty[l] \in {0, reqBuf[l].ses}]_vars
=============================================================================
