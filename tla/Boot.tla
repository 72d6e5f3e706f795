-------------------------------- MODULE Boot --------------------------------
(***************************************************************************)
(* What a board profile and the chip allow a topology to be                *)
(* (Topology::validate), and the allocation of pins, state machines, UARTs *)
(* and USB endpoints that boot makes from a topology it takes to be valid: *)
(* build_engines, the USB builder and the UART claims, each of which       *)
(* panics where validation was to have prevented it.                       *)
(* probe-config/src/lib.rs, firmware/src/instances.rs, main.rs.            *)
(***************************************************************************)
EXTENDS Integers, Sequences, FiniteSets

CONSTANTS
  ProbeChoices, UartChoices,  \* the probes and UARTs topologies are made of
  Profiles,       \* the pins boards make assignable: available, not reserved
  MaxProbes,      \* bound: probes in a topology
  MaxUarts,       \* MAX_UARTS
  GpioCount, Blocks, Sms, Eps,   \* ChipLimits
  TablePins,      \* the pins of PinTable
  TxPins, RxPins, \* the pins of each UART, by instance 0 and 1
  MaxInterfaces,  \* EMBASSY_USB_MAX_INTERFACE_COUNT
  NoPin           \* a probe without nRESET

Instances == {0, 1}

ASSUME BootAssumption ==
  /\ ProbeChoices \subseteq [swclk : Nat, swdio : Nat, reset : Nat \cup {NoPin}]
  /\ UartChoices \subseteq [tx : Nat, rx : Nat]
  /\ NoPin \notin Nat
  /\ MaxProbes \in Nat /\ MaxUarts \in Nat /\ GpioCount \in Nat /\ Blocks \in Nat
  /\ Sms \in Nat \ {0} /\ Eps \in Nat
  /\ 0 .. GpioCount - 1 \subseteq TablePins
  /\ TxPins \in [Instances -> SUBSET Nat] /\ RxPins \in [Instances -> SUBSET Nat]
  /\ TxPins[0] \cap TxPins[1] = {} /\ RxPins[0] \cap RxPins[1] = {}
  /\ MaxInterfaces \in Nat /\ Eps + 1 <= MaxInterfaces

ProbePins(p) == {p.swclk, p.swdio, p.reset} \ {NoPin}
UartPins(u) == {u.tx, u.rx}

\* UartConfig::instance: {} when TX and RX are not of the same UART.
Instance(u) == {i \in Instances : u.tx \in TxPins[i] /\ u.rx \in RxPins[i]}

AutobaudSms(us) == IF us # <<>> THEN 1 ELSE 0

-----------------------------------------------------------------------------
(* Topology::validate.                                                      *)

\* Mutant: the state machine of autobaud is not counted.
FitsChipNoAutobaud(ps, us) ==
  /\ Len(ps) <= Blocks * Sms
  /\ Len(us) <= MaxUarts
  /\ Len(ps) + 2 * Len(us) <= Eps
  /\ Len(ps) + Len(us) <= Eps

\* State machines, UARTs and USB endpoints, IN and OUT.
FitsChip(ps, us) ==
  /\ Len(ps) + AutobaudSms(us) <= Blocks * Sms
  /\ Len(us) <= MaxUarts
  /\ Len(ps) + 2 * Len(us) <= Eps
  /\ Len(ps) + Len(us) <= Eps

\* Every pin exists and is assignable.
PinsAllowed(ps, us, prof) ==
  /\ \A i \in DOMAIN ps : ProbePins(ps[i]) \subseteq (0 .. GpioCount - 1) \cap prof
  /\ \A i \in DOMAIN us : UartPins(us[i]) \subseteq (0 .. GpioCount - 1) \cap prof

\* Mutant: the nRESET pins are not checked against the other probes'.
PinsOnceNoReset(ps, us) ==
  /\ \A i \in DOMAIN ps : ps[i].swclk # ps[i].swdio
  /\ \A i \in DOMAIN us : us[i].tx # us[i].rx
  /\ \A i, j \in DOMAIN ps : i # j =>
       {ps[i].swclk, ps[i].swdio} \cap {ps[j].swclk, ps[j].swdio} = {}
  /\ \A i, j \in DOMAIN us : i # j => UartPins(us[i]) \cap UartPins(us[j]) = {}
  /\ \A i \in DOMAIN ps, j \in DOMAIN us : ProbePins(ps[i]) \cap UartPins(us[j]) = {}

\* No pin is assigned twice.
PinsOnce(ps, us) ==
  /\ \A i \in DOMAIN ps : ps[i].swclk # ps[i].swdio /\ ps[i].reset \notin
                             {ps[i].swclk, ps[i].swdio}
  /\ \A i \in DOMAIN us : us[i].tx # us[i].rx
  /\ \A i, j \in DOMAIN ps : i # j => ProbePins(ps[i]) \cap ProbePins(ps[j]) = {}
  /\ \A i, j \in DOMAIN us : i # j => UartPins(us[i]) \cap UartPins(us[j]) = {}
  /\ \A i \in DOMAIN ps, j \in DOMAIN us : ProbePins(ps[i]) \cap UartPins(us[j]) = {}

\* Each UART's pins select one instance, and no two the same.
UartsLegal(us) ==
  /\ \A i \in DOMAIN us : Instance(us[i]) # {}
  /\ \A i, j \in DOMAIN us : i # j => Instance(us[i]) \cap Instance(us[j]) = {}

ValidTopology(ps, us, prof) ==
  FitsChip(ps, us) /\ PinsAllowed(ps, us, prof) /\ PinsOnce(ps, us) /\ UartsLegal(us)

-----------------------------------------------------------------------------
VARIABLES
  probes, uarts,   \* the topology boot runs, valid under the profile it loaded
  stage,           \* "engines", "autobaud", "usb", "uarts", "done" or "panic"
  free,            \* the pins PinTable still holds
  engines,         \* the slot, [block, sm], of each probe's engine
  autobaud,        \* the slots of the autobaud capture: at most one
  uartFree,        \* the UART peripherals not taken
  bridges          \* UARTs claimed

topo == <<probes, uarts>>
bootVars == <<probes, uarts, stage, free, engines, autobaud, uartFree, bridges>>

Slots == [block : 0 .. Blocks - 1, sm : 0 .. Sms - 1]
SlotOf(k) == [block |-> k \div Sms, sm |-> k % Sms]

BootInit ==
  /\ \E n \in 0 .. MaxProbes : probes \in [1 .. n -> ProbeChoices]
  /\ \E n \in 0 .. MaxUarts : uarts \in [1 .. n -> UartChoices]
  /\ \E prof \in Profiles : ValidTopology(probes, uarts, prof)
  /\ stage = "engines"
  /\ free = TablePins
  /\ engines = <<>> /\ autobaud = {}
  /\ uartFree = Instances /\ bridges = 0

Panic == stage' = "panic" /\ UNCHANGED <<topo, free, engines, autobaud, uartFree, bridges>>

\* block_engines, probe by probe: the slot's two or three pins are claimed.
Claimable(p) ==
  /\ ProbePins(p) \subseteq free
  /\ p.swclk # p.swdio /\ p.reset \notin {p.swclk, p.swdio}

NewEngine ==
  /\ stage = "engines"
  /\ LET k == Len(engines) IN
     \/ /\ k < Len(probes) /\ SlotOf(k).block < Blocks
        /\ ~Claimable(probes[k + 1])
        /\ Panic
     \/ /\ k < Len(probes) /\ SlotOf(k).block < Blocks
        /\ Claimable(probes[k + 1])
        /\ engines' = Append(engines, SlotOf(k))
        /\ free' = free \ ProbePins(probes[k + 1])
        /\ UNCHANGED <<topo, stage, autobaud, uartFree, bridges>>
     \/ /\ k = Len(probes) \/ SlotOf(k).block >= Blocks
        /\ stage' = "autobaud"
        /\ UNCHANGED <<topo, free, engines, autobaud, uartFree, bridges>>

\* The slot after the probes: the last state machine of the block they leave
\* partly filled, or the first one of a block of its own.
AutobaudSlot ==
  [block |-> Len(probes) \div Sms,
   sm |-> IF Len(probes) % Sms # 0 THEN Sms - 1 ELSE 0]

Autobaud ==
  /\ stage = "autobaud"
  /\ autobaud' = IF uarts # <<>> /\ AutobaudSlot.block < Blocks
                 THEN {AutobaudSlot} ELSE {}
  /\ stage' = "usb"
  /\ UNCHANGED <<topo, free, engines, uartFree, bridges>>

\* One interface and two endpoints a probe, two interfaces and three endpoints a
\* CDC port, and the reset interface; embassy-usb (external) panics when it has
\* no more of either.
UsbFits ==
  /\ Len(engines) + 2 * Len(uarts) <= Eps /\ Len(engines) + Len(uarts) <= Eps
  /\ Len(engines) + 2 * Len(uarts) + 1 <= MaxInterfaces

Usb ==
  /\ stage = "usb"
  /\ \/ ~UsbFits /\ Panic
     \/ /\ UsbFits
        /\ stage' = "uarts"
        /\ UNCHANGED <<topo, free, engines, autobaud, uartFree, bridges>>

\* The bridge's instance, its peripheral and its two pins are there to take.
UartClaimable(u) ==
  /\ Instance(u) # {} /\ Instance(u) \subseteq uartFree
  /\ UartPins(u) \subseteq free /\ u.tx # u.rx

NewBridge ==
  /\ stage = "uarts"
  /\ \/ /\ bridges < Len(uarts)
        /\ ~UartClaimable(uarts[bridges + 1])
        /\ Panic
     \/ /\ bridges < Len(uarts)
        /\ UartClaimable(uarts[bridges + 1])
        /\ free' = free \ UartPins(uarts[bridges + 1])
        /\ uartFree' = uartFree \ Instance(uarts[bridges + 1])
        /\ bridges' = bridges + 1
        /\ UNCHANGED <<topo, stage, engines, autobaud>>
     \/ /\ bridges = Len(uarts)
        /\ stage' = "done"
        /\ UNCHANGED <<topo, free, engines, autobaud, uartFree, bridges>>

BootNext == NewEngine \/ Autobaud \/ Usb \/ NewBridge

BootSpec == BootInit /\ [][BootNext]_bootVars

-----------------------------------------------------------------------------
\* "Validation prevents both": a topology that validation accepts never makes
\* boot panic, on any of its claims.  A panic here would brick the probe until
\* its flash is erased.
NoPanic == stage # "panic"

\* What boot builds is what the topology asks for: an engine for every probe on a
\* state machine of its own that exists, and, when there is a UART, one more for
\* autobaud that is none of theirs.
FullyBuilt ==
  stage \in {"usb", "uarts", "done"} =>
    /\ Len(engines) = Len(probes)
    /\ \A i \in DOMAIN engines : engines[i] \in Slots \ autobaud
    /\ \A i, j \in DOMAIN engines : i # j => engines[i] # engines[j]
    /\ autobaud \subseteq Slots
    /\ uarts # <<>> <=> autobaud # {}
=============================================================================
