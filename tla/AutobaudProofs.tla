--------------------------- MODULE AutobaudProofs ---------------------------
(***************************************************************************)
(* Proofs about autobaud, which UartAutobaud and Estimator share: for      *)
(* every set of UARTs and rates, who it measures and whose rate it sets;   *)
(* and for tables of every size, every hash and any widths, what the rate  *)
(* is computed from.                                                       *)
(***************************************************************************)
EXTENDS UartAutobaud, Estimator, TLAPS, WellFoundedInduction

\* A bridge whose flag is set was last told the magic rate.
FlagIsMagic == \A u \in Uarts : autobauding[u] => seen[u] = Magic

\* While the engine measures a UART, every sample in the state machine's FIFO
\* and in the estimator is of that UART's line.
OwnSamples == eng # None => fifo \cup fed \subseteq {eng}

IInv == TypeOK /\ EngineOnlyForAsking /\ FlagIsMagic /\ OwnSamples /\ EstimateIsOwn

LEMMA CommandFields ==
  /\ NoCommand.do = "none" /\ StopCommand.do = "stop"
  /\ \A u \in Uarts : Start(u).do = "start" /\ Start(u).uart = u
BY DEF NoCommand, StopCommand, Start

LEMMA Initially == UartInit => IInv
BY DEF UartInit, IInv, TypeOK, EngineOnlyForAsking, FlagIsMagic, OwnSamples, EstimateIsOwn,
       NoCommand, Place, Setting

\* A command that a bridge has sent names a bridge.
LEMMA StartNamesUart ==
  ASSUME TypeOK, ctl.do = "start"
  PROVE  ctl.uart \in Uarts /\ ctl = Start(ctl.uart)
BY CommandFields DEF TypeOK

\* What only the hosts, the bus and the pumping of bytes touch.
Core == <<seen, autobauding, baudrate, ctl, eng, pin, fifo, fed, result>>

LEMMA CoreUnchanged ==
  ASSUME IInv, UNCHANGED Core, at' \in [Uarts -> Place],
         coding' \in [Uarts -> Rates \cup {Magic, BootRate}]
  PROVE  IInv'
BY DEF Core, IInv, TypeOK, EngineOnlyForAsking, FlagIsMagic, OwnSamples, EstimateIsOwn

LEMMA LoopHeadPlace ==
  ASSUME TypeOK, NEW u \in Uarts, LoopHead(u)
  PROVE  at' \in [Uarts -> Place]
BY DEF TypeOK, LoopHead, Goto, Place

LEMMA Step == IInv /\ [UartNext]_uartVars => IInv'
<1> SUFFICES ASSUME IInv, [UartNext]_uartVars PROVE IInv'
  OBVIOUS
<1>0. TypeOK
  BY DEF IInv
<1>1. CASE BusUp \/ BusReset \/ UNCHANGED uartVars
  <2>1. UNCHANGED Core /\ UNCHANGED at
    BY <1>1 DEF BusUp, BusReset, uartVars, bridge, engine, Core
  <2>2. coding' \in [Uarts -> Rates \cup {Magic, BootRate}]
    BY <1>0, <1>1 DEF BusUp, BusReset, uartVars, port, TypeOK
  <2> QED BY <1>0, <2>1, <2>2, CoreUnchanged DEF TypeOK
<1>2. ASSUME NEW u \in Uarts,
             SetLineCoding(u) \/ SetControlLineState(u) \/ HostData(u) \/ TargetData(u)
      PROVE  IInv'
  <2>1. UNCHANGED Core /\ UNCHANGED at
    BY <1>2 DEF SetLineCoding, SetControlLineState, HostData, TargetData, bridge, engine, Core
  <2>2. coding' \in [Uarts -> Rates \cup {Magic, BootRate}]
    BY <1>0, <1>2 DEF SetLineCoding, SetControlLineState, HostData, TargetData, TypeOK
  <2> QED BY <1>0, <2>1, <2>2, CoreUnchanged DEF TypeOK
<1>3. ASSUME NEW u \in Uarts, Connected(u) \/ ClosedChange(u) \/ TakePacket(u)
                              \/ ToTarget(u) \/ TakeBytes(u) \/ ToHost(u)
      PROVE  IInv'
  <2>1. UNCHANGED Core /\ UNCHANGED coding
    BY <1>3 DEF Connected, ClosedChange, TakePacket, ToTarget, TakeBytes, ToHost, port, engine, Core
  <2>2. at' \in [Uarts -> Place]
    BY <1>0, <1>3, LoopHeadPlace
       DEF Connected, ClosedChange, TakePacket, ToTarget, TakeBytes, ToHost, Goto, Place, TypeOK
  <2> QED BY <1>0, <2>1, <2>2, CoreUnchanged DEF TypeOK
<1>4. ASSUME NEW u \in Uarts, ControlChange(u) PROVE IInv'
  <2>1. /\ seen' = [seen EXCEPT ![u] = coding[u]]
        /\ UNCHANGED <<coding, eng, pin, fifo, fed, result>>
        /\ at' \in [Uarts -> Place]
    BY <1>0, <1>4, LoopHeadPlace DEF ControlChange, engine
  <2>2. CASE coding[u] = Magic
    <3>1. /\ ctl' = Start(u) /\ autobauding' = [autobauding EXCEPT ![u] = TRUE]
          /\ UNCHANGED baudrate
      BY <1>4, <2>2 DEF ControlChange
    <3>2. TypeOK'
      BY <1>0, <2>1, <3>1 DEF TypeOK
    <3>3. EngineOnlyForAsking' /\ FlagIsMagic'
      BY <1>0, <2>1, <2>2, <3>1, CommandFields
         DEF TypeOK, IInv, EngineOnlyForAsking, FlagIsMagic
    <3>4. OwnSamples' /\ EstimateIsOwn'
      BY <1>0, <2>1, <2>2, <3>1 DEF TypeOK, IInv, OwnSamples, EstimateIsOwn
    <3> QED BY <3>2, <3>3, <3>4 DEF IInv
  <2>3. CASE coding[u] # Magic
    <3>1. /\ ctl' = IF autobauding[u] THEN StopCommand ELSE ctl
          /\ autobauding' = [autobauding EXCEPT ![u] = FALSE]
          /\ baudrate' = [baudrate EXCEPT ![u] = Setting("host", coding[u])]
      BY <1>4, <2>3 DEF ControlChange
    <3>2. TypeOK'
      BY <1>0, <2>1, <2>3, <3>1 DEF TypeOK, Setting
    <3>3. EngineOnlyForAsking'
      <4>1. CASE autobauding[u]
        BY <1>0, <2>1, <3>1, <4>1, CommandFields DEF EngineOnlyForAsking
      <4>2. CASE ~autobauding[u]
        <5>1. ctl' = ctl /\ \A v \in Uarts : autobauding[v] => autobauding'[v]
          BY <1>0, <3>1, <4>2 DEF TypeOK
        <5>2. ctl.do = "start" => ctl.uart \in Uarts
          BY <1>0, StartNamesUart
        <5> QED BY <1>0, <2>1, <5>1, <5>2 DEF IInv, TypeOK, EngineOnlyForAsking
      <4> QED BY <4>1, <4>2
    <3>4. FlagIsMagic'
      BY <1>0, <2>1, <3>1 DEF TypeOK, IInv, FlagIsMagic
    <3>5. OwnSamples' /\ EstimateIsOwn'
      BY <1>0, <2>1, <3>1 DEF TypeOK, IInv, OwnSamples, EstimateIsOwn, Setting
    <3> QED BY <3>2, <3>3, <3>4, <3>5 DEF IInv
  <2> QED BY <2>2, <2>3
<1>5. ASSUME NEW u \in Uarts, TakeEstimate(u) PROVE IInv'
  <2>1. UNCHANGED <<seen, coding, autobauding, ctl, eng, pin, fifo, fed, result>>
    BY <1>5 DEF TakeEstimate, port, engine
  <2>2. /\ baudrate' = IF autobauding[u] /\ result.uart = u
                   THEN [baudrate EXCEPT ![u] = Setting("estimate", result.uart)] ELSE baudrate
        /\ at' \in [Uarts -> Place]
    BY <1>0, <1>5, LoopHeadPlace DEF TakeEstimate
  <2>3. TypeOK'
    BY <1>0, <2>1, <2>2 DEF TypeOK, Setting
  <2>4. EstimateIsOwn'
    BY <1>0, <2>1, <2>2 DEF IInv, TypeOK, FlagIsMagic, EstimateIsOwn, Setting
  <2>5. (EngineOnlyForAsking /\ FlagIsMagic /\ OwnSamples)'
    BY <2>1 DEF IInv, EngineOnlyForAsking, FlagIsMagic, OwnSamples
  <2> QED BY <2>3, <2>4, <2>5 DEF IInv
<1>6. CASE TakeStart
  <2>1. /\ ctl.do = "start" /\ ctl' = NoCommand
        /\ eng' = ctl.uart /\ pin' = ctl.uart /\ fifo' = {} /\ fed' = {}
        /\ UNCHANGED <<at, coding, seen, autobauding, baudrate, result>>
    BY <1>6 DEF TakeStart, port, bridge
  <2>2. ctl.uart \in Uarts /\ autobauding[ctl.uart]
    BY <1>0, <2>1, StartNamesUart DEF IInv, EngineOnlyForAsking
  <2>3. TypeOK'
    BY <1>0, <2>1, <2>2 DEF TypeOK
  <2>4. EngineOnlyForAsking'
    BY <2>1, <2>2, CommandFields DEF EngineOnlyForAsking
  <2>5. (FlagIsMagic /\ OwnSamples /\ EstimateIsOwn)'
    BY <2>1 DEF IInv, FlagIsMagic, OwnSamples, EstimateIsOwn
  <2> QED BY <2>3, <2>4, <2>5 DEF IInv
<1>7. CASE TakeStop
  <2>1. /\ ctl' = NoCommand /\ eng' = None /\ pin' = None
        /\ UNCHANGED <<at, coding, seen, autobauding, baudrate, fifo, fed, result>>
    BY <1>7 DEF TakeStop, port, bridge
  <2>2. TypeOK'
    BY <1>0, <2>1 DEF TypeOK
  <2>3. EngineOnlyForAsking'
    BY <2>1, CommandFields DEF EngineOnlyForAsking
  <2>4. (FlagIsMagic /\ OwnSamples /\ EstimateIsOwn)'
    BY <2>1 DEF IInv, FlagIsMagic, OwnSamples, EstimateIsOwn
  <2> QED BY <2>2, <2>3, <2>4 DEF IInv
<1>8. CASE Sample
  <2>1. /\ pin # None /\ fifo' = fifo \cup {pin}
        /\ UNCHANGED <<at, coding, seen, autobauding, baudrate, ctl, eng, pin, fed, result>>
    BY <1>8 DEF Sample, port, bridge
  <2>2. TypeOK'
    BY <1>0, <2>1 DEF TypeOK
  <2>3. OwnSamples'
    BY <1>0, <2>1 DEF IInv, TypeOK, OwnSamples
  <2>4. (EngineOnlyForAsking /\ FlagIsMagic /\ EstimateIsOwn)'
    BY <2>1 DEF IInv, EngineOnlyForAsking, FlagIsMagic, EstimateIsOwn
  <2> QED BY <2>2, <2>3, <2>4 DEF IInv
<1>9. CASE Block
  <2>1. /\ eng # None /\ fed' = fed \cup fifo /\ fifo' = {}
        /\ \/ result' = [uart |-> eng, from |-> fed \cup fifo]
           \/ UNCHANGED result
        /\ UNCHANGED <<at, coding, seen, autobauding, baudrate, ctl, eng, pin>>
    BY <1>9 DEF Block, port, bridge
  <2>2. TypeOK'
    BY <1>0, <2>1 DEF TypeOK
  <2>3. OwnSamples' /\ EstimateIsOwn'
    BY <2>1 DEF IInv, OwnSamples, EstimateIsOwn
  <2>4. (EngineOnlyForAsking /\ FlagIsMagic)'
    BY <2>1 DEF IInv, EngineOnlyForAsking, FlagIsMagic
  <2> QED BY <2>2, <2>3, <2>4 DEF IInv
<1> QED
  BY <1>1, <1>2, <1>3, <1>4, <1>5, <1>6, <1>7, <1>8, <1>9 DEF UartNext, Bridge, Engine

\* The engine measures only for a bridge that asks, whatever commands overwrite
\* each other in CONTROL.
THEOREM OnlyForAsking == UartSpec => []EngineOnlyForAsking
<1>1. IInv => EngineOnlyForAsking
  BY DEF IInv
<1> QED BY <1>1, Initially, Step, PTL DEF UartSpec

\* No UART runs at a rate that was estimated for another one, or from another
\* one's samples, or that it has not asked for.
THEOREM OwnEstimate == UartSpec => []EstimateIsOwn
<1>1. IInv => EstimateIsOwn
  BY DEF IInv
<1> QED BY <1>1, Initially, Step, PTL DEF UartSpec

-----------------------------------------------------------------------------
(* The estimator: types.                                                    *)

Typed ==
  /\ table \in [0..(Slots - 1) -> [key : Nat, count : Nat]]
  /\ pushed \in [Widths -> Nat] /\ total \in Nat
  /\ pc \in {"idle", "probe", "judge"}
  /\ pc # "idle" => cycles \in Widths /\ idx \in 0..(Slots - 1) /\ total < MaxTotal

-----------------------------------------------------------------------------
(* The table.                                                               *)

\* The slot that the search for c comes to after k others.
At(c, k) == (Hash[c] + k) % Slots

\* The search for c passes k entries of other widths.
Passes(c, k) == \A j \in 0..(Slots - 1) : j < k => table[At(c, j)].key \notin {0, c}

\* How often c was inserted: all its samples but the one whose slot is sought.
Tally(c) == IF pc = "probe" /\ cycles = c THEN pushed[c] - 1 ELSE pushed[c]

\* The search for c ends at its count.
Found(c, n) ==
  \E k \in 0..(Slots - 1) : Passes(c, k) /\ table[At(c, k)] = [key |-> c, count |-> n]

Absent(c) == \A s \in 0..(Slots - 1) : table[s].key # c

\* An entry is never moved, nor is one before it freed.
Counted == \A c \in Widths \ {0} : IF Tally(c) = 0 THEN Absent(c) ELSE Found(c, Tally(c))

Probing ==
  pc = "probe" =>
    /\ pushed[cycles] > 0
    /\ \E k \in 0..(Slots - 1) : idx = At(cycles, k) /\ Passes(cycles, k)

TableInv == Typed /\ Counted /\ Probing

-----------------------------------------------------------------------------
(* The one-bit periods.                                                     *)

\* The sum is of that many periods, none of which is longer than w.
Periods(w) ==
  /\ min_cycles \in Nat /\ bit_time_sum \in Nat /\ bit_time_count \in Nat /\ outlier_count \in Nat
  /\ bit_time_count <= total /\ bit_time_sum <= bit_time_count * w
  /\ baud.num \in Nat /\ baud.den \in Nat
  /\ PeriodsInWindow
-----------------------------------------------------------------------------
(* Arithmetic of the table.                                                 *)

LEMMA Around ==
  ASSUME NEW a \in Nat, a < 2 * Slots
  PROVE  a % Slots = (IF a < Slots THEN a ELSE a - Slots)
<1>1. Slots \in Nat /\ Slots > 0
  BY EstimatorAssumption
<1>2. PICK q, r : q = a \div Slots /\ r = a % Slots
  OBVIOUS
<1>3. q \in Nat /\ r \in 0..(Slots - 1) /\ a = q * Slots + r
  BY <1>1, <1>2, SMT
<1>4. q = 0 \/ q = 1
  <2> SUFFICES ASSUME q >= 2 PROVE FALSE
    BY <1>3
  <2>1. q * Slots >= 2 * Slots
    BY <1>1, <1>3
  <2> QED BY <1>1, <1>3, <2>1
<1> QED BY <1>1, <1>2, <1>3, <1>4

LEMMA Ring ==
  ASSUME NEW c \in Widths, NEW k \in 0..(Slots - 1)
  PROVE  /\ At(c, k) \in 0..(Slots - 1) /\ At(c, 0) = Hash[c]
         /\ (At(c, k) + 1) % Slots = At(c, IF k + 1 < Slots THEN k + 1 ELSE 0)
<1>1. Slots \in Nat /\ Slots > 0 /\ Hash[c] \in 0..(Slots - 1)
  BY EstimatorAssumption
<1>2. PICK h : h = Hash[c]
  OBVIOUS
<1>3. \A a \in Nat : a < 2 * Slots => a % Slots = (IF a < Slots THEN a ELSE a - Slots)
  BY Around
<1>4. At(c, k) = IF h + k < Slots THEN h + k ELSE h + k - Slots
  BY <1>1, <1>2, <1>3 DEF At
<1>5. At(c, 0) = h
  BY <1>1, <1>2, <1>3 DEF At
<1>6. k + 1 < Slots => At(c, k + 1) = IF h + k + 1 < Slots THEN h + k + 1 ELSE h + k + 1 - Slots
  BY <1>1, <1>2, <1>3 DEF At
<1>7. At(c, k) \in 0..(Slots - 1)
  BY <1>1, <1>2, <1>4
<1>8. (At(c, k) + 1) % Slots = IF At(c, k) + 1 < Slots THEN At(c, k) + 1 ELSE 0
  <2>1. PICK a : a = At(c, k) + 1 /\ a \in Nat /\ a <= Slots
    BY <1>1, <1>7
  <2>2. a % Slots = IF a < Slots THEN a ELSE a - Slots
    BY <1>1, <1>3, <2>1
  <2> QED BY <1>1, <2>1, <2>2
<1>9. CASE k + 1 < Slots
  <2>1. PICK a, b : a = At(c, k) /\ b = At(c, k + 1)
    OBVIOUS
  <2>2. /\ a = (IF h + k < Slots THEN h + k ELSE h + k - Slots)
        /\ b = (IF h + k + 1 < Slots THEN h + k + 1 ELSE h + k + 1 - Slots)
        /\ (a + 1) % Slots = IF a + 1 < Slots THEN a + 1 ELSE 0
    BY <1>4, <1>6, <1>8, <1>9, <2>1
  <2>3. (a + 1) % Slots = b
    BY <1>1, <1>2, <1>9, <2>2
  <2> QED BY <1>2, <1>5, <1>7, <1>9, <2>1, <2>3
<1>10. CASE ~(k + 1 < Slots)
  <2>1. k = Slots - 1
    BY <1>1, <1>10
  <2>2. (At(c, k) + 1) % Slots = h
    BY <1>1, <1>2, <1>4, <1>8, <2>1
  <2> QED BY <1>2, <1>5, <1>7, <1>10, <2>2
<1> QED BY <1>2, <1>5, <1>7, <1>9, <1>10

LEMMA Least ==
  ASSUME NEW S, S \subseteq Nat, S # {}
  PROVE  Min(S) \in S /\ \A y \in S : Min(S) <= y
<1>1. PICK x \in S : \A y \in S : ~(<<y, x>> \in OpToRel(<, Nat))
  BY NatLessThanWellFounded, WFMin, ZenonT(60)
<1>2. \A y \in S : x <= y
  <2> SUFFICES ASSUME NEW y \in S, y < x PROVE FALSE
    OBVIOUS
  <2>1. <<y, x>> \in Nat \X Nat /\ <<y, x>>[1] < <<y, x>>[2]
    OBVIOUS
  <2>2. <<y, x>> \in OpToRel(<, Nat)
    BY <2>1, ZenonT(60) DEF OpToRel
  <2> QED BY <1>1, <2>2
<1> QED BY <1>2 DEF Min

LEMMA WidthsAreWords == WordMax \in Nat /\ Widths \subseteq 0..WordMax
<1>1. WordMax \in Nat
  BY EstimatorAssumption
<1>2. ASSUME NEW raw \in Raws PROVE RawToCycles(raw) \in 0..WordMax
  <2>1. raw \in 0..WordMax
    BY EstimatorAssumption
  <2>2. PICK a, m : a = (WordMax - raw) * 2 /\ m = WordMax + 1 /\ a \in Nat /\ m \in Nat /\ m > 0
    BY <1>1, <2>1
  <2>3. a % m \in 0..(m - 1)
    BY <2>2, SMT
  <2> QED BY <1>1, <2>2, <2>3 DEF RawToCycles
<1> QED BY <1>1, <1>2 DEF Widths

\* What get_count returns for a width, stored or not.
LEMMA Counts ==
  ASSUME Typed, NEW c \in Widths
  PROVE  /\ c = 0 \/ Absent(c) => GetCount(c) = 0
         /\ \A n \in Nat : c # 0 /\ Found(c, n) => GetCount(c) = n
<1>1. Slots \in Nat /\ \A k \in 0..(Slots - 1) : At(c, k) \in 0..(Slots - 1)
  BY EstimatorAssumption, Ring
<1>2. PICK S : S = {k \in 0..(Slots - 1) : table[At(c, k)].key \in {0, c}}
  OBVIOUS
<1>3. GetCount(c) = IF S = {} \/ table[At(c, Min(S))].key = 0 THEN 0 ELSE table[At(c, Min(S))].count
  BY <1>2 DEF GetCount, At
<1>4. S \subseteq Nat /\ S \subseteq 0..(Slots - 1)
  BY <1>1, <1>2
<1>5. S # {} => Min(S) \in S /\ \A y \in S : Min(S) <= y
  BY <1>4, Least
<1>6. ASSUME c = 0 \/ Absent(c), S # {} PROVE table[At(c, Min(S))].key = 0
  <2>1. PICK m : m = Min(S) /\ m \in 0..(Slots - 1) /\ table[At(c, m)].key \in {0, c}
    BY <1>2, <1>5, <1>6
  <2> QED BY <1>1, <1>6, <2>1 DEF Absent
<1>7. ASSUME NEW n \in Nat, c # 0, Found(c, n) PROVE GetCount(c) = n
  <2>1. PICK k \in 0..(Slots - 1) : Passes(c, k) /\ table[At(c, k)] = [key |-> c, count |-> n]
    BY <1>7 DEF Found
  <2>2. k \in S
    BY <1>2, <2>1
  <2>3. PICK m : m = Min(S) /\ m \in S /\ m <= k /\ m \in 0..(Slots - 1)
    BY <1>4, <1>5, <2>2
  <2>4. m = k
    BY <1>1, <1>2, <2>1, <2>3 DEF Passes
  <2> QED BY <1>3, <1>7, <2>1, <2>2, <2>3, <2>4
<1> QED BY <1>3, <1>6, <1>7

-----------------------------------------------------------------------------
(* The steps of push.                                                       *)

LEMMA TableInit == Init => TableInv
<1> SUFFICES ASSUME Init PROVE TableInv
  OBVIOUS
<1>1. /\ table = [s \in 0..(Slots - 1) |-> [key |-> 0, count |-> 0]]
      /\ pushed = [c \in Widths |-> 0]
      /\ pc = "idle" /\ total = 0
  BY DEF Init, New
<1>2. Typed
  BY <1>1 DEF Typed
<1>3. Counted
  BY <1>1 DEF Counted, Tally, Absent
<1> QED BY <1>1, <1>2, <1>3 DEF TableInv, Probing

LEMMA ResetKeeps == TableInv /\ Reset => TableInv'
<1> SUFFICES ASSUME TableInv, Reset PROVE TableInv'
  OBVIOUS
<1>1. /\ table' = [s \in 0..(Slots - 1) |-> [key |-> 0, count |-> 0]]
      /\ pushed' = [c \in Widths |-> 0]
      /\ pc' = "idle" /\ total' = 0
  BY DEF Reset, New
<1>2. Typed'
  BY <1>1 DEF Typed
<1>3. Counted'
  BY <1>1 DEF Counted, Tally, Absent
<1> QED BY <1>1, <1>2, <1>3 DEF TableInv, Probing

\* The search for a sample begins where its hash says.
LEMMA PushKeeps == ASSUME TableInv, NEW raw \in Raws, Push(raw) PROVE TableInv'
<1>1. PICK w \in Widths : w = RawToCycles(raw)
  BY DEF Widths
<1>2. /\ pc = "idle" /\ pc' = "probe" /\ cycles' = w /\ idx' = Hash[w] /\ total < MaxTotal
      /\ pushed' = [pushed EXCEPT ![w] = @ + 1] /\ UNCHANGED <<table, total>>
  BY <1>1 DEF Push
<1>3. Slots \in Nat /\ Slots > 0 /\ Hash[w] \in 0..(Slots - 1) /\ At(w, 0) = Hash[w]
  <2>1. Slots \in Nat /\ Slots > 0 /\ Hash[w] \in 0..(Slots - 1)
    BY EstimatorAssumption
  <2> QED BY <2>1, Ring
<1>4. /\ pushed' \in [Widths -> Nat] /\ pushed \in [Widths -> Nat] /\ pushed'[w] = pushed[w] + 1
      /\ \A c \in Widths : c # w => pushed'[c] = pushed[c]
  BY <1>2 DEF TableInv, Typed
<1>5. Typed'
  BY <1>2, <1>3, <1>4 DEF TableInv, Typed
<1>6. \A c \in Widths : Tally(c)' = Tally(c)
  BY <1>2, <1>4 DEF Tally
<1>7. \A c, n : (Absent(c)' <=> Absent(c)) /\ (Found(c, n)' <=> Found(c, n))
  BY <1>2 DEF Absent, Found, Passes
<1>8. Counted'
  BY <1>6, <1>7 DEF TableInv, Counted
<1>9. Probing'
  <2>1. 0 \in 0..(Slots - 1) /\ Passes(w, 0)'
    BY <1>3 DEF Passes
  <2> QED BY <1>2, <1>3, <1>4, <2>1 DEF Probing
<1> QED BY <1>5, <1>8, <1>9 DEF TableInv

LEMMA JudgeKeeps == TableInv /\ (Judge \/ UNCHANGED vars) => TableInv'
<1> SUFFICES ASSUME TableInv, Judge \/ UNCHANGED vars PROVE TableInv'
  OBVIOUS
<1>1. /\ UNCHANGED <<table, cycles, idx, pushed>> /\ total' \in Nat
      /\ (pc' = "idle" /\ pc = "judge") \/ UNCHANGED <<pc, total>>
  <2>1. total \in Nat
    BY DEF TableInv, Typed
  <2>2. Judge => total' = total + 1 /\ pc' = "idle" /\ pc = "judge" /\ UNCHANGED <<table, cycles, idx, pushed>>
    BY DEF Judge
  <2> QED BY <2>1, <2>2 DEF vars
<1>2. \A c : Tally(c)' = Tally(c)
  BY <1>1 DEF Tally
<1>3. \A c, n : (Absent(c)' <=> Absent(c)) /\ (Found(c, n)' <=> Found(c, n)) /\ (Passes(c, n)' <=> Passes(c, n))
  BY <1>1 DEF Absent, Found, Passes
<1>4. Counted'
  BY <1>2, <1>3 DEF TableInv, Counted
<1>5. Typed'
  BY <1>1 DEF TableInv, Typed
<1>6. Probing'
  BY <1>1, <1>3 DEF TableInv, Probing
<1> QED BY <1>4, <1>5, <1>6 DEF TableInv

\* The search goes on to the next slot.
LEMMA SearchKeeps ==
  ASSUME TableInv, pc = "probe", table[idx].key \notin {0, cycles},
         idx' = (idx + 1) % Slots, UNCHANGED <<pc, table, total, cycles, pushed>>
  PROVE  TableInv'
<1>1. cycles \in Widths /\ Slots \in Nat /\ Slots > 0
  BY EstimatorAssumption DEF TableInv, Typed
<1>2. PICK k \in 0..(Slots - 1) : idx = At(cycles, k) /\ Passes(cycles, k)
  BY DEF TableInv, Probing
<1>3. PICK m : m = IF k + 1 < Slots THEN k + 1 ELSE 0
  OBVIOUS
<1>4. m \in 0..(Slots - 1) /\ idx' = At(cycles, m)
  BY <1>1, <1>2, <1>3, Ring
<1>5. Passes(cycles, m)
  BY <1>1, <1>2, <1>3 DEF Passes
<1>6. idx' \in 0..(Slots - 1)
  BY <1>1, <1>4, Ring
<1>7. \A c : Tally(c)' = Tally(c)
  BY DEF Tally
<1>8. \A c, n : (Absent(c)' <=> Absent(c)) /\ (Found(c, n)' <=> Found(c, n)) /\ (Passes(c, n)' <=> Passes(c, n))
  BY DEF Absent, Found, Passes
<1>9. Counted'
  BY <1>7, <1>8 DEF TableInv, Counted
<1>10. Typed'
  BY <1>6 DEF TableInv, Typed
<1>11. Probing'
  BY <1>4, <1>5, <1>8 DEF TableInv, Probing
<1> QED BY <1>9, <1>10, <1>11 DEF TableInv

\* A width that is not in the table takes the free slot the search comes to.
LEMMA InsertKeeps ==
  ASSUME TableInv, pc = "probe", pc' = "judge", table[idx].key = 0,
         table' = [table EXCEPT ![idx] = [key |-> cycles, count |-> 1]],
         UNCHANGED <<total, cycles, idx, pushed>>
  PROVE  TableInv'
<1>1. /\ cycles \in Widths /\ cycles \in Nat /\ idx \in 0..(Slots - 1) /\ Slots \in Nat /\ Slots > 0
      /\ table \in [0..(Slots - 1) -> [key : Nat, count : Nat]] /\ pushed \in [Widths -> Nat]
      /\ pushed[cycles] > 0
  <2>1. cycles \in Widths /\ Slots \in Nat /\ Slots > 0
    BY EstimatorAssumption DEF TableInv, Typed
  <2>2. cycles \in Nat
    BY <2>1, WidthsAreWords
  <2> QED BY <2>1, <2>2 DEF TableInv, Typed, Probing
<1>2. PICK k \in 0..(Slots - 1) : idx = At(cycles, k) /\ Passes(cycles, k)
  BY DEF TableInv, Probing
<1>3. /\ table' \in [0..(Slots - 1) -> [key : Nat, count : Nat]]
      /\ table'[idx] = [key |-> cycles, count |-> 1]
      /\ \A s \in 0..(Slots - 1) : s # idx => table'[s] = table[s]
  BY <1>1
<1>4. Typed'
  BY <1>1, <1>3 DEF TableInv, Typed
<1>5. ASSUME NEW c \in Widths \ {0}, c # cycles
      PROVE  IF Tally(c)' = 0 THEN Absent(c)' ELSE Found(c, Tally(c))'
  <2>1. Tally(c)' = Tally(c) /\ Tally(c) = pushed[c]
    BY <1>5 DEF Tally
  <2>2. CASE Tally(c) = 0
    <3>1. Absent(c)
      BY <2>2 DEF TableInv, Counted
    <3>2. Absent(c)'
      BY <1>1, <1>3, <1>5, <3>1 DEF Absent
    <3> QED BY <2>1, <2>2, <3>2
  <2>3. CASE Tally(c) # 0
    <3>1. PICK j \in 0..(Slots - 1) : Passes(c, j) /\ table[At(c, j)] = [key |-> c, count |-> Tally(c)]
      BY <2>3 DEF TableInv, Counted, Found
    <3>2. \A i \in 0..(Slots - 1) : At(c, i) \in 0..(Slots - 1)
      BY Ring
    <3>3. Passes(c, j)'
      BY <1>3, <1>5, <3>1, <3>2 DEF Passes
    <3>4. table'[At(c, j)] = [key |-> c, count |-> Tally(c)]
      <4>1. table[At(c, j)].key # 0
        BY <1>5, <3>1
      <4> QED BY <1>3, <3>1, <3>2, <4>1
    <3>5. Found(c, Tally(c))'
      BY <2>1, <3>3, <3>4 DEF Found
    <3> QED BY <2>1, <2>3, <3>5
  <2> QED BY <2>2, <2>3
<1>6. ASSUME cycles # 0
      PROVE  IF Tally(cycles)' = 0 THEN Absent(cycles)' ELSE Found(cycles, Tally(cycles))'
  <2>1. Tally(cycles)' = pushed[cycles] /\ Tally(cycles) = pushed[cycles] - 1
    BY DEF Tally
  <2>2. Tally(cycles) = 0
    <3> SUFFICES ASSUME Tally(cycles) # 0 PROVE FALSE
      OBVIOUS
    <3>1. PICK j \in 0..(Slots - 1) : Passes(cycles, j) /\ table[At(cycles, j)] = [key |-> cycles, count |-> Tally(cycles)]
      BY <1>1, <1>6 DEF TableInv, Counted, Found
    <3>2. table[At(cycles, j)].key = cycles
      BY <3>1
    <3>3. ~(j < k)
      BY <1>1, <1>2, <3>2 DEF Passes
    <3>4. ~(k < j)
      BY <1>2, <3>1 DEF Passes
    <3>5. j = k
      BY <1>1, <3>3, <3>4
    <3> QED BY <1>2, <1>6, <3>2, <3>5
  <2>3. Tally(cycles)' = 1
    BY <1>1, <2>1, <2>2
  <2>4. Passes(cycles, k)'
    <3> SUFFICES ASSUME NEW j \in 0..(Slots - 1), j < k PROVE table'[At(cycles, j)].key \notin {0, cycles}
      BY DEF Passes
    <3>1. table[At(cycles, j)].key \notin {0, cycles} /\ At(cycles, j) \in 0..(Slots - 1)
      BY <1>1, <1>2, Ring DEF Passes
    <3> QED BY <1>3, <3>1
  <2>5. table'[At(cycles, k)] = [key |-> cycles, count |-> 1]
    BY <1>2, <1>3
  <2>6. Found(cycles, Tally(cycles))'
    BY <2>3, <2>4, <2>5 DEF Found
  <2> QED BY <2>3, <2>6
<1>7. Counted'
  BY <1>5, <1>6 DEF Counted
<1> QED BY <1>4, <1>7 DEF TableInv, Probing

\* A width that is in the table is found before a free slot, and counted there.
LEMMA CountKeeps ==
  ASSUME TableInv, pc = "probe", pc' = "judge", table[idx].key # 0, table[idx].key = cycles,
         table' = [table EXCEPT ![idx].count = @ + 1],
         UNCHANGED <<total, cycles, idx, pushed>>
  PROVE  TableInv'
<1>1. /\ cycles \in Widths \ {0} /\ idx \in 0..(Slots - 1) /\ Slots \in Nat /\ Slots > 0
      /\ table \in [0..(Slots - 1) -> [key : Nat, count : Nat]] /\ pushed \in [Widths -> Nat]
      /\ pushed[cycles] > 0
  <2>1. Slots \in Nat /\ Slots > 0
    BY EstimatorAssumption
  <2>2. Typed /\ Probing
    BY DEF TableInv
  <2>3. /\ table \in [0..(Slots - 1) -> [key : Nat, count : Nat]] /\ pushed \in [Widths -> Nat]
        /\ cycles \in Widths /\ idx \in 0..(Slots - 1) /\ pushed[cycles] > 0
    BY <2>2 DEF Typed, Probing
  <2> QED BY <2>1, <2>3
<1>2. PICK k \in 0..(Slots - 1) : idx = At(cycles, k) /\ Passes(cycles, k)
  BY DEF TableInv, Probing
<1>3. PICK e : e = table[idx] /\ e \in [key : Nat, count : Nat] /\ e.key = cycles /\ e.count \in Nat
  BY <1>1
<1>4. /\ table' \in [0..(Slots - 1) -> [key : Nat, count : Nat]]
      /\ table'[idx] = [key |-> cycles, count |-> e.count + 1] /\ table'[idx].key = cycles
      /\ \A s \in 0..(Slots - 1) : s # idx => table'[s] = table[s]
      /\ \A s \in 0..(Slots - 1) : table'[s].key = table[s].key
  <2>1. table'[idx] = [e EXCEPT !.count = @ + 1]
    BY <1>1, <1>3
  <2>2. [e EXCEPT !.count = @ + 1] = [key |-> cycles, count |-> e.count + 1]
    BY <1>3
  <2>3. [key |-> cycles, count |-> e.count + 1] \in [key : Nat, count : Nat]
    BY <1>3
  <2>4. \A s \in 0..(Slots - 1) : s # idx => table'[s] = table[s]
    BY <1>1
  <2>5. table' = [s \in 0..(Slots - 1) |-> table'[s]]
    BY <1>1
  <2>6. \A s \in 0..(Slots - 1) : table'[s] \in [key : Nat, count : Nat]
    BY <1>1, <2>1, <2>2, <2>3, <2>4
  <2>7. table'[idx].key = cycles
    BY <2>1, <2>2
  <2> QED BY <1>3, <2>1, <2>2, <2>4, <2>5, <2>6, <2>7
<1>5. Typed'
  BY <1>1, <1>4 DEF TableInv, Typed
<1>6. \A c \in Widths : \A j \in 0..(Slots - 1) : Passes(c, j)' <=> Passes(c, j)
  <2>1. \A c \in Widths : \A j \in 0..(Slots - 1) : table'[At(c, j)].key = table[At(c, j)].key
    BY <1>4, Ring
  <2> QED BY <2>1 DEF Passes
<1>7. ASSUME NEW c \in Widths \ {0}, c # cycles
      PROVE  IF Tally(c)' = 0 THEN Absent(c)' ELSE Found(c, Tally(c))'
  <2>1. Tally(c)' = Tally(c)
    BY <1>7 DEF Tally
  <2>2. CASE Tally(c) = 0
    BY <1>4, <2>1, <2>2 DEF TableInv, Counted, Absent
  <2>3. CASE Tally(c) # 0
    <3>1. PICK j \in 0..(Slots - 1) : Passes(c, j) /\ table[At(c, j)] = [key |-> c, count |-> Tally(c)]
      BY <2>3 DEF TableInv, Counted, Found
    <3>2. At(c, j) \in 0..(Slots - 1) /\ At(c, j) # idx
      <4>1. table[At(c, j)].key = c
        BY <3>1
      <4> QED BY <1>3, <1>7, <4>1, Ring
    <3>3. table'[At(c, j)] = [key |-> c, count |-> Tally(c)]
      BY <1>4, <3>1, <3>2
    <3>4. Found(c, Tally(c))'
      BY <1>6, <2>1, <3>1, <3>3 DEF Found
    <3> QED BY <2>1, <2>3, <3>4
  <2> QED BY <2>2, <2>3
<1>8. IF Tally(cycles)' = 0 THEN Absent(cycles)' ELSE Found(cycles, Tally(cycles))'
  <2>1. Tally(cycles)' = pushed[cycles] /\ Tally(cycles) = pushed[cycles] - 1
    BY DEF Tally
  <2>2. Tally(cycles) # 0
    BY <1>1, <1>3 DEF TableInv, Counted, Absent
  <2>3. PICK j \in 0..(Slots - 1) : Passes(cycles, j) /\ table[At(cycles, j)] = [key |-> cycles, count |-> Tally(cycles)]
    BY <1>1, <2>2 DEF TableInv, Counted, Found
  <2>4. table[At(cycles, j)].key = cycles
    BY <2>3
  <2>5. j = k
    <3>1. ~(j < k)
      BY <1>2, <2>4 DEF Passes
    <3>2. ~(k < j)
      BY <1>2, <1>3, <2>3 DEF Passes
    <3> QED BY <1>1, <3>1, <3>2
  <2>6. e.count = Tally(cycles)
    BY <1>2, <1>3, <2>3, <2>5
  <2>7. table'[At(cycles, k)] = [key |-> cycles, count |-> pushed[cycles]]
    <3>1. e.count + 1 = pushed[cycles]
      BY <1>1, <2>1, <2>6
    <3> QED BY <1>2, <1>4, <3>1
  <2>8. Found(cycles, Tally(cycles))'
    BY <1>1, <1>2, <1>6, <2>1, <2>7 DEF Found
  <2>9. Tally(cycles)' # 0
    BY <1>1, <2>1
  <2> QED BY <2>8, <2>9
<1>9. Counted'
  BY <1>7, <1>8 DEF Counted
<1> QED BY <1>5, <1>9 DEF TableInv, Probing

LEMMA TableStep == TableInv /\ [Next]_vars => TableInv'
<1> SUFFICES ASSUME TableInv, [Next]_vars PROVE TableInv'
  OBVIOUS
<1>1. CASE Probe
  <2>1. pc = "probe" /\ UNCHANGED <<total, cycles, pushed>>
    BY <1>1 DEF Probe
  <2>2. \/ /\ table[idx].key = 0 /\ pc' = "judge" /\ UNCHANGED idx
           /\ table' = [table EXCEPT ![idx] = [key |-> cycles, count |-> 1]]
        \/ /\ table[idx].key # 0 /\ table[idx].key = cycles /\ pc' = "judge" /\ UNCHANGED idx
           /\ table' = [table EXCEPT ![idx].count = @ + 1]
        \/ /\ table[idx].key \notin {0, cycles}
           /\ idx' = (idx + 1) % Slots /\ UNCHANGED <<pc, table>>
    BY <1>1 DEF Probe
  <2> QED BY <2>1, <2>2, InsertKeeps, CountKeeps, SearchKeeps
<1> QED BY <1>1, ResetKeeps, PushKeeps, JudgeKeeps DEF Next

\* The table is the bag of the widths pushed, whatever the hash does: insert and
\* get_count stop at the same entry, since none is moved or freed.
THEOREM TableIsExact == Spec => []CountsExact
<1>1. TableInv => CountsExact
  <2> SUFFICES ASSUME TableInv, pc = "idle", NEW c \in Widths
               PROVE  GetCount(c) = IF c = 0 THEN 0 ELSE pushed[c]
    BY DEF CountsExact
  <2>1. Typed /\ Tally(c) = pushed[c] /\ pushed[c] \in Nat
    BY DEF TableInv, Typed, Tally
  <2>2. CASE c = 0
    BY <2>1, <2>2, Counts
  <2>3. CASE c # 0
    BY <2>1, <2>3, Counts DEF TableInv, Counted
  <2> QED BY <2>2, <2>3
<1> QED BY <1>1, TableInit, TableStep, PTL DEF Spec

-----------------------------------------------------------------------------
(* The one-bit periods.                                                     *)

LEMMA More == ASSUME NEW k \in Nat, NEW a \in Nat, NEW b \in Nat, a <= b PROVE k * a <= k * b /\ a * k <= b * k
OBVIOUS

LEMMA Below == ASSUME NEW a \in Nat, NEW m \in Nat, a < m PROVE a % m = a
<1>1. PICK q, r : q = a \div m /\ r = a % m
  OBVIOUS
<1>2. q \in Nat /\ r \in 0..(m - 1) /\ a = q * m + r
  BY <1>1, SMT
<1>3. q = 0
  <2> SUFFICES ASSUME q >= 1 PROVE FALSE
    BY <1>2
  <2>1. q * m >= 1 * m
    BY <1>2
  <2> QED BY <1>2, <2>1
<1> QED BY <1>1, <1>2, <1>3

\* One more period of c cycles, within a tenth of the shortest, which is m: the
\* window holds of a count of n and a sum of s, of which x are outliers.
Window(m, n, s, x) == m * n <= s /\ 10 * (s - m * n) <= m * n /\ x <= n

LEMMA OneMore ==
  ASSUME NEW m \in Nat, NEW n \in Nat, NEW s \in Nat, NEW x \in Nat, NEW c \in Nat, NEW y \in {x, x + 1},
         Window(m, n, s, x), c >= m, 10 * (c - m) < m
  PROVE  Window(m, n + 1, s + c, y)
<1>1. PICK b : b = m * n /\ b \in Nat /\ m * (n + 1) = b + m
  OBVIOUS
<1>2. b <= s /\ 10 * (s - b) <= b /\ x <= n
  BY <1>1 DEF Window
<1>3. b + m <= s + c /\ 10 * ((s + c) - (b + m)) <= b + m /\ y <= n + 1
  BY <1>1, <1>2
<1> QED BY <1>1, <1>3 DEF Window

LEMMA WindowOf ==
  PeriodsInWindow <=> /\ Window(min_cycles, bit_time_count, bit_time_sum, outlier_count)
                      /\ baud.num * min_cycles <= Clock * baud.den
BY DEF PeriodsInWindow, Window

\* No width is longer than w cycles, and no sum of a session's periods is more
\* than a word.
Short(w) == (\A c \in Widths : c <= w) /\ MaxTotal * w <= WordMax

LEMMA PeriodsJudge ==
  ASSUME NEW w \in Nat, Short(w), TableInv, Periods(w), Judge
  PROVE  Periods(w)'
<1>1. /\ cycles \in Widths /\ cycles \in Nat /\ cycles <= w /\ total \in Nat /\ total < MaxTotal /\ total' = total + 1
      /\ WordMax \in Nat /\ MaxTotal \in Nat /\ Clock \in Nat
  <2>1. cycles \in Widths /\ total \in Nat /\ total < MaxTotal /\ total' = total + 1
    BY DEF Judge, TableInv, Typed
  <2>2. WordMax \in Nat /\ MaxTotal \in Nat /\ Clock \in Nat
    BY EstimatorAssumption
  <2> QED BY <2>1, <2>2, WidthsAreWords DEF Short
<1>2. /\ min_cycles \in Nat /\ bit_time_sum \in Nat /\ bit_time_count \in Nat /\ outlier_count \in Nat
      /\ bit_time_count <= total /\ bit_time_sum <= bit_time_count * w
      /\ baud.num \in Nat /\ baud.den \in Nat
      /\ Window(min_cycles, bit_time_count, bit_time_sum, outlier_count)
      /\ baud.num * min_cycles <= Clock * baud.den
  BY WindowOf DEF Periods
<1>3. \/ UNCHANGED <<acc, baud>>
      \/ cycles < min_cycles /\ NewMinimum
      \/ cycles >= min_cycles /\ NearMinimum /\ OneBit(total', max_cycles')
  BY DEF Judge
<1>4. CASE UNCHANGED <<acc, baud>>
  <2>1. UNCHANGED <<min_cycles, bit_time_sum, bit_time_count, outlier_count, baud>>
    BY <1>4 DEF acc
  <2>2. bit_time_count' <= total'
    BY <1>1, <1>2, <2>1
  <2> QED BY <2>1, <2>2 DEF Periods, PeriodsInWindow
<1>5. CASE cycles < min_cycles /\ NewMinimum
  <2>1. /\ min_cycles' = cycles /\ bit_time_sum' = 0 /\ bit_time_count' = 0 /\ outlier_count' = 0
        /\ baud' = baud
    BY <1>5 DEF NewMinimum
  <2>2. PICK n : n = baud.num /\ n \in Nat
    BY <1>2
  <2>3. n * cycles <= n * min_cycles
    BY <1>1, <1>2, <1>5, <2>2, More
  <2>4. PICK k, l, d : k = n * cycles /\ l = n * min_cycles /\ d = Clock * baud.den
    OBVIOUS
  <2>5. k \in Nat /\ l \in Nat /\ d \in Nat /\ k <= l /\ l <= d
    BY <1>1, <1>2, <2>2, <2>3, <2>4
  <2>6. baud'.num * min_cycles' <= Clock * baud'.den
    BY <2>1, <2>2, <2>4, <2>5
  <2>7. cycles * 0 = 0 /\ 0 * w = 0
    BY <1>1
  <2>8. Window(cycles, 0, 0, 0)
    BY <2>7 DEF Window
  <2>9. PeriodsInWindow'
    BY <2>1, <2>6, <2>8 DEF Window, PeriodsInWindow
  <2> QED BY <1>1, <1>2, <2>1, <2>7, <2>9 DEF Periods
<1>6. CASE cycles >= min_cycles /\ NearMinimum /\ OneBit(total', max_cycles')
  <2>1. PICK m, n, s, x : m = min_cycles /\ n = bit_time_count /\ s = bit_time_sum /\ x = outlier_count
    OBVIOUS
  <2>2. PICK y \in {x, x + 1} : outlier_count' = y
    BY <1>2, <1>6, <2>1 DEF OneBit
  <2>3. Window(m, n + 1, s + cycles, y)
    <3>1. /\ m \in Nat /\ n \in Nat /\ s \in Nat /\ x \in Nat /\ cycles \in Nat
          /\ Window(m, n, s, x)
      BY <1>1, <1>2, <2>1
    <3>2. cycles >= m /\ 10 * (cycles - m) < m
      BY <1>6, <2>1 DEF NearMinimum
    <3> QED BY <3>1, <3>2, OneMore
  <2>4. s + cycles <= (n + 1) * w
    <3>1. PICK c : c = n * w /\ c \in Nat /\ (n + 1) * w = c + w
      BY <1>2, <2>1
    <3> QED BY <1>1, <1>2, <2>1, <3>1
  <2>5. (n + 1) * w <= MaxTotal * w
    BY <1>1, <1>2, <2>1, More
  <2>6. bit_time_sum' = s + cycles
    <3>1. PICK a, k, l : a = s + cycles /\ k = (n + 1) * w /\ l = MaxTotal * w
      OBVIOUS
    <3>2. a \in Nat /\ k \in Nat /\ l \in Nat /\ a <= k /\ k <= l /\ l <= WordMax
      BY <1>1, <1>2, <2>1, <2>4, <2>5, <3>1 DEF Short
    <3>3. a % (WordMax + 1) = a
      BY <1>1, <3>2, Below
    <3> QED BY <1>6, <2>1, <3>1, <3>3 DEF OneBit
  <2>7. min_cycles' = m /\ bit_time_count' = n + 1
    BY <1>6, <2>1 DEF OneBit
  <2>8. PICK t : t = s + cycles /\ t \in Nat /\ bit_time_sum' = t
    BY <1>1, <1>2, <2>1, <2>6
  <2>9. baud' = Rate(Clock * (n + 1), t) \/ baud' = baud
    BY <1>6, <2>7, <2>8 DEF OneBit
  <2>10. baud'.num \in Nat /\ baud'.den \in Nat /\ baud'.num * m <= Clock * baud'.den
    <3>1. CASE baud' = baud
      BY <1>2, <2>1, <3>1
    <3>2. CASE baud' = Rate(Clock * (n + 1), t)
      <4>1. baud'.num = Clock * (n + 1) /\ baud'.den = t
        BY <3>2 DEF Rate
      <4>2. PICK b : b = m * (n + 1) /\ b \in Nat /\ b <= t
        BY <1>2, <2>1, <2>3, <2>8 DEF Window
      <4>3. Clock * b <= Clock * t
        BY <1>1, <2>8, <4>2, More
      <4>4. (Clock * (n + 1)) * m = Clock * b
        BY <1>1, <1>2, <2>1, <4>2
      <4>5. Clock * (n + 1) \in Nat
        BY <1>1, <1>2, <2>1
      <4> QED BY <2>8, <4>1, <4>3, <4>4, <4>5
    <3> QED BY <2>9, <3>1, <3>2
  <2>11. PeriodsInWindow'
    BY <2>2, <2>3, <2>7, <2>8, <2>10 DEF Window, PeriodsInWindow
  <2>12. bit_time_count' <= total' /\ bit_time_count' \in Nat /\ outlier_count' \in Nat
    BY <1>1, <1>2, <2>1, <2>2, <2>7
  <2> QED BY <1>2, <2>1, <2>4, <2>7, <2>8, <2>10, <2>11, <2>12 DEF Periods
<1> QED BY <1>3, <1>4, <1>5, <1>6

LEMMA PeriodsNew ==
  ASSUME NEW w \in Nat
  PROVE  (Init => Periods(w)) /\ (Reset => Periods(w)')
<1>1. WordMax \in Nat /\ Clock \in Nat
  BY EstimatorAssumption
<1>2. WordMax * 0 = 0 /\ 0 * w = 0 /\ 0 * WordMax = 0 /\ Clock * 1 = Clock
  BY <1>1
<1>3. Init => Periods(w)
  BY <1>1, <1>2 DEF Init, New, Rate, Periods, PeriodsInWindow
<1>4. Reset => Periods(w)'
  BY <1>1, <1>2 DEF Reset, New, Rate, Periods, PeriodsInWindow
<1> QED BY <1>3, <1>4

LEMMA PeriodsStep ==
  ASSUME NEW w \in Nat, Short(w)
  PROVE  TableInv /\ Periods(w) /\ [Next]_vars => Periods(w)'
<1> SUFFICES ASSUME TableInv, Periods(w), [Next]_vars PROVE Periods(w)'
  OBVIOUS
<1>1. CASE Probe \/ (\E raw \in Raws : Push(raw)) \/ UNCHANGED vars
  BY <1>1 DEF Probe, Push, vars, acc, Periods, PeriodsInWindow
<1> QED BY <1>1, PeriodsNew, PeriodsJudge DEF Next

\* The one-bit periods are within a tenth of the shortest signal, and no rate is
\* published that is faster than one bit per shortest signal, in a session whose
\* periods add up to less than a word, which is what the comment on bit_time_sum
\* takes for granted.
THEOREM PeriodsFit ==
  ASSUME NEW w \in Nat, \A c \in Widths : c <= w, MaxTotal * w <= WordMax
  PROVE  Spec => []PeriodsInWindow
<1>1. Short(w)
  BY DEF Short
<1>2. Periods(w) => PeriodsInWindow
  BY DEF Periods
<1>3. Init => TableInv /\ Periods(w)
  BY TableInit, PeriodsNew
<1>4. TableInv /\ Periods(w) /\ [Next]_vars => TableInv' /\ Periods(w)'
  BY <1>1, TableStep, PeriodsStep
<1> QED BY <1>2, <1>3, <1>4, PTL DEF Spec
=============================================================================
