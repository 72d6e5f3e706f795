---------------------------- MODULE UartAutobaud ----------------------------
(***************************************************************************)
(* The CDC-ACM to UART bridges and the one autobaud engine they share:     *)
(* uart_bridge (one task per UART), autobaud::run, the CONTROL signal that *)
(* carries their commands (the last one wins) and the RESULT watch that    *)
(* carries its estimates to all of them.  All on core 0, so the code       *)
(* between two awaits is one action.                                       *)
(* firmware/src/uart_bridge.rs, autobaud.rs.                               *)
(***************************************************************************)
EXTENDS Integers

CONSTANTS
  Uarts,      \* the bridges of the active topology
  Rates,      \* baud rates hosts select
  Magic,      \* MAGIC_BAUD
  BootRate,   \* the rate of the topology, and embassy's after a bus reset
  None,       \* no UART
  MaxHost,    \* bound: line-coding, DTR and bus events
  MaxData     \* bound: packets and bytes that arrive

ASSUME UartAssumption ==
  /\ Magic \notin Rates /\ BootRate \notin Rates /\ BootRate # Magic
  /\ None \notin Uarts
  /\ MaxHost \in Nat /\ MaxData \in Nat

NoCommand == [do |-> "none", uart |-> None]
Start(u) == [do |-> "start", uart |-> u]
StopCommand == [do |-> "stop", uart |-> None]

VARIABLES
  usb,         \* "up" or "down"
  coding,      \* coding[u]: the line coding the host set last
  dtr,         \* dtr[u]: the port is open
  changed,     \* changed[u]: the class's control-changed flag
  packet,      \* packet[u]: an OUT packet is waiting
  rx,          \* rx[u]: the UART has received bytes
  at,          \* at[u]: where the bridge awaits
  seen,        \* history: seen[u], the line coding the bridge acted on last
  autobauding, \* autobauding[u]
  baudrate,    \* baudrate[u]: the UART's rate; from the host or an estimate
  ctl,         \* CONTROL
  eng,         \* autobaud::run's active: the UART measured, or None
  pin,         \* the UART whose RX the state machine samples, None: disabled
  fifo,        \* the UARTs the samples in its FIFO are from
  fed,         \* the UARTs the estimator's samples are from
  result,      \* RESULT: the UART of the last estimate, and where it is from
  unseen,      \* unseen[u]: its receiver has not seen it
  hostOps, dataOps

port == <<coding, dtr, changed, packet, rx, usb, hostOps, dataOps>>
bridge == <<at, seen, autobauding, baudrate>>
engine == <<eng, pin, fifo, fed>>
uartVars == <<port, bridge, engine, ctl, result, unseen>>

Place == {"connect", "closed", "select", "toTarget", "toHost"}
Setting(src, r) == [src |-> src, rate |-> r]

UartInit ==
  /\ usb = "down"
  /\ coding = [u \in Uarts |-> BootRate]
  /\ dtr = [u \in Uarts |-> FALSE]
  /\ changed = [u \in Uarts |-> FALSE]
  /\ packet = [u \in Uarts |-> FALSE]
  /\ rx = [u \in Uarts |-> FALSE]
  /\ at = [u \in Uarts |-> "connect"]
  /\ seen = [u \in Uarts |-> BootRate]
  /\ autobauding = [u \in Uarts |-> FALSE]
  /\ baudrate = [u \in Uarts |-> Setting("host", BootRate)]
  /\ ctl = NoCommand
  /\ eng = None /\ pin = None /\ fifo = {} /\ fed = {}
  /\ result = [uart |-> None, from |-> {}]
  /\ unseen = [u \in Uarts |-> FALSE]
  /\ hostOps = 0 /\ dataOps = 0

-----------------------------------------------------------------------------
(* The hosts, the targets and the USB device (external).                    *)

HostEvent == hostOps < MaxHost /\ hostOps' = hostOps + 1
DataEvent == dataOps < MaxData /\ dataOps' = dataOps + 1

BusUp ==
  /\ usb = "down" /\ usb' = "up" /\ HostEvent
  /\ UNCHANGED <<coding, dtr, changed, packet, rx, dataOps, bridge, engine, ctl,
                 result, unseen>>

\* A bus reset puts the class's control state back.
BusReset ==
  /\ usb = "up" /\ usb' = "down" /\ HostEvent
  /\ coding' = [u \in Uarts |-> BootRate]
  /\ dtr' = [u \in Uarts |-> FALSE]
  /\ changed' = [u \in Uarts |-> TRUE]
  /\ packet' = [u \in Uarts |-> FALSE]
  /\ UNCHANGED <<rx, dataOps, bridge, engine, ctl, result, unseen>>

SetLineCoding(u) ==
  /\ usb = "up" /\ HostEvent
  /\ \E r \in Rates \cup {Magic} : coding' = [coding EXCEPT ![u] = r]
  /\ changed' = [changed EXCEPT ![u] = TRUE]
  /\ UNCHANGED <<usb, dtr, packet, rx, dataOps, bridge, engine, ctl, result, unseen>>

SetControlLineState(u) ==
  /\ usb = "up" /\ HostEvent
  /\ dtr' = [dtr EXCEPT ![u] = ~@]
  /\ changed' = [changed EXCEPT ![u] = TRUE]
  /\ UNCHANGED <<usb, coding, packet, rx, dataOps, bridge, engine, ctl, result,
                 unseen>>

HostData(u) ==
  /\ usb = "up" /\ ~packet[u] /\ DataEvent
  /\ packet' = [packet EXCEPT ![u] = TRUE]
  /\ UNCHANGED <<usb, coding, dtr, changed, rx, hostOps, bridge, engine, ctl,
                 result, unseen>>

TargetData(u) ==
  /\ ~rx[u] /\ DataEvent
  /\ rx' = [rx EXCEPT ![u] = TRUE]
  /\ UNCHANGED <<usb, coding, dtr, changed, packet, hostOps, bridge, engine, ctl,
                 result, unseen>>

-----------------------------------------------------------------------------
(* uart_bridge.                                                             *)

Goto(u, place) == at' = [at EXCEPT ![u] = place]

\* The head of the 'connected loop: pump while DTR is up.
LoopHead(u) == Goto(u, IF dtr[u] THEN "select" ELSE "closed")

Connected(u) ==
  /\ at[u] = "connect" /\ usb = "up"
  /\ LoopHead(u)
  /\ UNCHANGED <<port, seen, autobauding, baudrate, engine, ctl, result, unseen>>

\* DTR is down: any control change is taken, and only DTR is looked at.
ClosedChange(u) ==
  /\ at[u] = "closed" /\ changed[u]
  /\ changed' = [changed EXCEPT ![u] = FALSE]
  /\ LoopHead(u)
  /\ UNCHANGED <<usb, coding, dtr, packet, rx, hostOps, dataOps, seen, autobauding,
                 baudrate, engine, ctl, result, unseen>>

\* select4 takes the first of its futures that is ready.
PacketReady(u) == usb = "down" \/ packet[u]

TakePacket(u) ==
  /\ at[u] = "select" /\ PacketReady(u)
  /\ packet' = [packet EXCEPT ![u] = FALSE]
  /\ Goto(u, IF usb = "down" THEN "connect" ELSE "toTarget")
  /\ UNCHANGED <<usb, coding, dtr, changed, rx, hostOps, dataOps, seen, autobauding,
                 baudrate, engine, ctl, result, unseen>>

\* write_all returns once the UART's buffer has taken the packet.
ToTarget(u) ==
  /\ at[u] = "toTarget"
  /\ LoopHead(u)
  /\ UNCHANGED <<port, seen, autobauding, baudrate, engine, ctl, result, unseen>>

\* Bytes from the target; a UART error drops them.
TakeBytes(u) ==
  /\ at[u] = "select" /\ ~PacketReady(u) /\ rx[u]
  /\ rx' = [rx EXCEPT ![u] = FALSE]
  /\ \/ Goto(u, "toHost")
     \/ LoopHead(u)
  /\ UNCHANGED <<usb, coding, dtr, changed, packet, hostOps, dataOps, seen,
                 autobauding, baudrate, engine, ctl, result, unseen>>

\* write_packet returns when the host has collected the packet before, or the
\* endpoint is disabled.
ToHost(u) ==
  /\ at[u] = "toHost"
  /\ IF usb = "down" THEN Goto(u, "connect") ELSE LoopHead(u)
  /\ UNCHANGED <<port, seen, autobauding, baudrate, engine, ctl, result, unseen>>

\* Mutant: the flag is cleared, but the engine is not told.
ControlChangeNoStop(u) ==
  /\ at[u] = "select" /\ ~PacketReady(u) /\ ~rx[u] /\ changed[u]
  /\ changed' = [changed EXCEPT ![u] = FALSE]
  /\ seen' = [seen EXCEPT ![u] = coding[u]]
  /\ IF coding[u] = Magic
     THEN /\ ctl' = Start(u)
          /\ autobauding' = [autobauding EXCEPT ![u] = TRUE]
          /\ UNCHANGED baudrate
     ELSE /\ autobauding' = [autobauding EXCEPT ![u] = FALSE]
          /\ baudrate' = [baudrate EXCEPT ![u] = Setting("host", coding[u])]
          /\ UNCHANGED ctl
  /\ LoopHead(u)
  /\ UNCHANGED <<usb, coding, dtr, packet, rx, hostOps, dataOps, engine, result,
                 unseen>>

\* Mutant: the rate that cancels a measurement is not applied.
ControlChangeCancelOnly(u) ==
  /\ at[u] = "select" /\ ~PacketReady(u) /\ ~rx[u] /\ changed[u]
  /\ changed' = [changed EXCEPT ![u] = FALSE]
  /\ seen' = [seen EXCEPT ![u] = coding[u]]
  /\ autobauding' = [autobauding EXCEPT ![u] = coding[u] = Magic]
  /\ \/ coding[u] = Magic /\ ctl' = Start(u) /\ UNCHANGED baudrate
     \/ coding[u] # Magic /\ autobauding[u] /\ ctl' = StopCommand /\ UNCHANGED baudrate
     \/ /\ coding[u] # Magic /\ ~autobauding[u] /\ UNCHANGED ctl
        /\ baudrate' = [baudrate EXCEPT ![u] = Setting("host", coding[u])]
  /\ LoopHead(u)
  /\ UNCHANGED <<usb, coding, dtr, packet, rx, hostOps, dataOps, engine, result,
                 unseen>>

\* A control change with the port open: the magic rate starts a measurement,
\* any other cancels the one this bridge asked for and is applied.
ControlChange(u) ==
  /\ at[u] = "select" /\ ~PacketReady(u) /\ ~rx[u] /\ changed[u]
  /\ changed' = [changed EXCEPT ![u] = FALSE]
  /\ seen' = [seen EXCEPT ![u] = coding[u]]
  /\ IF coding[u] = Magic
     THEN /\ ctl' = Start(u)
          /\ autobauding' = [autobauding EXCEPT ![u] = TRUE]
          /\ UNCHANGED baudrate
     ELSE /\ ctl' = IF autobauding[u] THEN StopCommand ELSE ctl
          /\ autobauding' = [autobauding EXCEPT ![u] = FALSE]
          /\ baudrate' = [baudrate EXCEPT ![u] = Setting("host", coding[u])]
  /\ LoopHead(u)
  /\ UNCHANGED <<usb, coding, dtr, packet, rx, hostOps, dataOps, engine, result,
                 unseen>>

\* An estimate is applied if it is for this bridge and was asked for.
TakeEstimate(u) ==
  /\ at[u] = "select" /\ ~PacketReady(u) /\ ~rx[u] /\ ~changed[u] /\ unseen[u]
  /\ unseen' = [unseen EXCEPT ![u] = FALSE]
  /\ baudrate' = IF autobauding[u] /\ result.uart = u
             THEN [baudrate EXCEPT ![u] = Setting("estimate", result.uart)] ELSE baudrate
  /\ LoopHead(u)
  /\ UNCHANGED <<port, seen, autobauding, engine, ctl, result>>

-----------------------------------------------------------------------------
(* autobaud::run.                                                           *)

\* Mutant: the estimator keeps the samples of the session before.
TakeStartNoReset ==
  /\ ctl.do = "start" /\ ctl' = NoCommand
  /\ eng' = ctl.uart /\ pin' = ctl.uart /\ fifo' = {}
  /\ UNCHANGED <<port, bridge, fed, result, unseen>>

\* A start, or a switch to another UART: the estimator and the FIFO are emptied
\* and the state machine sees the new pin.
TakeStart ==
  /\ ctl.do = "start" /\ ctl' = NoCommand
  /\ eng' = ctl.uart /\ pin' = ctl.uart /\ fifo' = {} /\ fed' = {}
  /\ UNCHANGED <<port, bridge, result, unseen>>

\* The state machine is disabled; what it pushed stays until the next start.
TakeStop ==
  /\ ctl.do = "stop" /\ ctl' = NoCommand
  /\ eng' = None /\ pin' = None
  /\ UNCHANGED <<port, bridge, fifo, fed, result, unseen>>

\* The state machine pushes samples of the line it looks at.
Sample ==
  /\ pin # None /\ pin \notin fifo
  /\ fifo' = fifo \cup {pin}
  /\ UNCHANGED <<port, bridge, eng, pin, fed, ctl, result, unseen>>

\* A DMA block goes to the estimator, which may publish an estimate.
Block ==
  /\ eng # None /\ fifo # {}
  /\ fed' = fed \cup fifo /\ fifo' = {}
  /\ \/ /\ result' = [uart |-> eng, from |-> fed \cup fifo]
        /\ unseen' = [u \in Uarts |-> TRUE]
     \/ UNCHANGED <<result, unseen>>
  /\ UNCHANGED <<port, bridge, eng, pin, ctl>>

-----------------------------------------------------------------------------
Bridge(u) ==
  \/ Connected(u) \/ ClosedChange(u) \/ TakePacket(u) \/ ToTarget(u)
  \/ TakeBytes(u) \/ ToHost(u) \/ ControlChange(u) \/ TakeEstimate(u)

Engine == TakeStart \/ TakeStop \/ Block

UartNext ==
  \/ BusUp \/ BusReset \/ Sample \/ Engine
  \/ \E u \in Uarts : \/ SetLineCoding(u) \/ SetControlLineState(u)
                      \/ HostData(u) \/ TargetData(u) \/ Bridge(u)

\* The core-0 executor polls every woken task.  That ToHost is fair says that a
\* host reads the port it has open.
UartSpec == UartInit /\ [][UartNext]_uartVars /\ WF_uartVars(Engine)
          /\ \A u \in Uarts : WF_uartVars(Bridge(u))

-----------------------------------------------------------------------------
TypeOK ==
  /\ at \in [Uarts -> Place] /\ autobauding \in [Uarts -> BOOLEAN]
  /\ coding \in [Uarts -> Rates \cup {Magic, BootRate}]
  /\ seen \in [Uarts -> Rates \cup {Magic, BootRate}]
  /\ baudrate \in [Uarts -> [src : {"host", "estimate"}, rate : Rates \cup {BootRate} \cup Uarts]]
  /\ ctl \in {NoCommand, StopCommand} \cup {Start(u) : u \in Uarts}
  /\ eng \in Uarts \cup {None} /\ pin = eng
  /\ fifo \subseteq Uarts /\ fed \subseteq Uarts
  /\ result \in [uart : Uarts \cup {None}, from : SUBSET Uarts]

\* The engine never measures for a bridge that no longer asks, but for the
\* moment until it takes the command: bridges that overwrite each other's
\* command in CONTROL do not leave it running.
EngineOnlyForAsking ==
  /\ eng # None /\ ctl = NoCommand => autobauding[eng]
  /\ ctl.do = "start" => autobauding[ctl.uart]

\* A UART runs at an estimated rate only if that is what its bridge asked for
\* last, at an estimate made for it and from samples of its own line.
EstimateIsOwn ==
  /\ \A u \in Uarts :
       baudrate[u].src = "estimate" => seen[u] = Magic /\ baudrate[u].rate = u
  /\ result.from \subseteq {result.uart}

\* A rate set while the bridge has the port open is applied, unless the host
\* sets another one or closes the port first.
LineCodingApplied ==
  \A u \in Uarts : \A r \in Rates :
    at[u] = "select" /\ changed[u] /\ coding[u] = r
      ~> baudrate[u] = Setting("host", r) \/ coding[u] # r \/ ~dtr[u]
=============================================================================
