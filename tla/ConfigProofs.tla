---------------------------- MODULE ConfigProofs ----------------------------
(***************************************************************************)
(* The configuration, from the store to the pins: what a session's commits *)
(* leave in flash, for every set of sessions and every profile, and what   *)
(* boot makes of a topology that validation accepts, for every chip, board *)
(* and topology.                                                           *)
(***************************************************************************)
EXTENDS ConfigService, Boot, TLAPS

Typed ==
  /\ at \in [Hosts -> Place]
  /\ item = [h \in Hosts |-> item[h]]
  /\ result \in {"none", "ok", "err"}
  /\ stagedBy \in Hosts \cup {Free} /\ commitBy \in Hosts \cup {Free}

Busy(h) == at[h] \in {"lockCommit", "sending", "awaiting"}

\* Only the holder of COMMIT_LOCK talks to the flash worker.
LockHeld == \A h \in Hosts : at[h] \in {"sending", "awaiting"} => commitBy = h

\* A queued request is the waiting holder's item, and is not answered yet.
RequestOwned ==
  request # <<>> => /\ commitBy \in Hosts /\ at[commitBy] = "awaiting"
                    /\ request = <<item[commitBy]>> /\ result = "none"

\* A result is for the waiting holder.
ResultOwned == result # "none" => commitBy \in Hosts /\ at[commitBy] = "awaiting"

\* What a handler is about to store: a profile that fits the chip, or the
\* topology in the staging buffer it keeps locked.
BusyItem ==
  \A h \in Hosts : Busy(h) =>
    \/ item[h].kind = "topology" /\ stagedBy = h
    \/ item[h].kind = "profile" /\ ProfileValid(item[h].val)

\* A topology to be stored is valid under the profile in RAM, unless some
\* session's last item is a profile.
BusyValid ==
  \A h \in Hosts : Busy(h) /\ item[h].kind = "topology" =>
    \/ Valid(item[h].val, profile)
    \/ \E g \in Hosts : item[g].kind = "profile"

IInv ==
  /\ Typed /\ LockHeld /\ RequestOwned /\ ResultOwned /\ BusyItem /\ BusyValid
  /\ AckedIsStored /\ RamProfileIsFlash

LEMMA Kinds == "topology" # "profile" /\ NoItem.kind # "profile"
BY DEF NoItem

LEMMA Initially == Init => IInv
BY ConfigAssumption
   DEF Init, IInv, Typed, LockHeld, RequestOwned, ResultOwned, BusyItem, BusyValid, Busy,
       AckedIsStored, RamProfileIsFlash, Place

LEMMA BootKeeps == IInv /\ Boot => IInv'
BY ConfigAssumption
   DEF Boot, flash, IInv, Typed, LockHeld, RequestOwned, ResultOwned, BusyItem, BusyValid, Busy,
       AckedIsStored, RamProfileIsFlash, Place

\* A session that is not at the flash worker moves on, and takes no new item.
LEMMA IdleMoveKeeps ==
  ASSUME IInv, NEW h \in Hosts, NEW p \in Place \ {"lockCommit", "sending", "awaiting"},
         at[h] \notin {"lockCommit", "sending", "awaiting"}, Goto(h, p),
         UNCHANGED <<flash, profile, stagedBy, commitBy, request, result, item>>
  PROVE  IInv'
BY ConfigAssumption
   DEF Goto, flash, IInv, Typed, LockHeld, RequestOwned, ResultOwned, BusyItem, BusyValid, Busy,
       AckedIsStored, RamProfileIsFlash, Place

\* A session takes an item to the flash worker.
LEMMA NewItemKeeps ==
  ASSUME IInv, NEW h \in Hosts, NEW i, Goto(h, "lockCommit"),
         at[h] \notin {"lockCommit", "sending", "awaiting"},
         item' = [item EXCEPT ![h] = i],
         UNCHANGED <<flash, profile, commitBy, request, result>>,
         \/ /\ i.kind = "profile" /\ ProfileValid(i.val)
            /\ UNCHANGED stagedBy
         \/ /\ i.kind = "topology" /\ Valid(i.val, profile)
            /\ stagedBy = Free /\ stagedBy' = h
  PROVE  IInv'
<1>1. Typed'
  BY DEF IInv, Typed, Goto, Place
<1>2. /\ \A g \in Hosts \ {h} : at'[g] = at[g] /\ item'[g] = item[g]
      /\ at'[h] = "lockCommit" /\ item'[h] = i
  BY DEF IInv, Typed, Goto
<1>3. LockHeld' /\ ResultOwned' /\ RequestOwned'
  BY <1>2 DEF IInv, LockHeld, ResultOwned, RequestOwned
<1>4. BusyItem'
  BY <1>2, ConfigAssumption DEF IInv, BusyItem, Busy, ProfileValid
<1>5. BusyValid'
  BY <1>2, ConfigAssumption, Kinds DEF IInv, BusyItem, BusyValid, Busy, Valid
<1>6. AckedIsStored' /\ RamProfileIsFlash'
  BY <1>2 DEF IInv, AckedIsStored, RamProfileIsFlash, flash, LoadedProfile
<1> QED BY <1>1, <1>3, <1>4, <1>5, <1>6 DEF IInv

LEMMA LockKeeps == ASSUME IInv, NEW h \in Hosts, LockCommit(h) PROVE IInv'
<1>1. /\ at[h] = "lockCommit" /\ commitBy = Free
      /\ commitBy' = h /\ result' = "none"
      /\ at' = [at EXCEPT ![h] = "sending"]
      /\ UNCHANGED <<flashTopo, flashProf, profile, stagedBy, request, item>>
  BY DEF LockCommit, Goto, flash
<1>2. request = <<>> /\ result = "none"
  BY <1>1, ConfigAssumption DEF IInv, RequestOwned, ResultOwned
<1>3. Typed' /\ LockHeld' /\ RequestOwned' /\ ResultOwned'
  BY <1>1, <1>2, ConfigAssumption
     DEF IInv, Typed, Place, LockHeld, RequestOwned, ResultOwned
<1>4. BusyItem' /\ BusyValid'
  BY <1>1 DEF IInv, Typed, BusyItem, BusyValid, Busy, Valid, ProfileValid
<1>5. AckedIsStored' /\ RamProfileIsFlash'
  BY <1>1, <1>2 DEF IInv, AckedIsStored, RamProfileIsFlash, LoadedProfile
<1> QED BY <1>3, <1>4, <1>5 DEF IInv

LEMMA SendKeeps == ASSUME IInv, NEW h \in Hosts, SendItem(h) PROVE IInv'
<1>1. /\ at[h] = "sending" /\ request' = <<item[h]>>
      /\ at' = [at EXCEPT ![h] = "awaiting"]
      /\ UNCHANGED <<flashTopo, flashProf, profile, stagedBy, commitBy, result, item>>
  BY DEF SendItem, Goto, flash
<1>2. commitBy = h /\ result = "none"
  BY <1>1 DEF IInv, LockHeld, ResultOwned
<1>3. Typed' /\ LockHeld' /\ RequestOwned' /\ ResultOwned'
  BY <1>1, <1>2 DEF IInv, Typed, Place, LockHeld, RequestOwned, ResultOwned
<1>4. BusyItem' /\ BusyValid'
  BY <1>1 DEF IInv, Typed, BusyItem, BusyValid, Busy, Valid, ProfileValid
<1>5. AckedIsStored' /\ RamProfileIsFlash'
  BY <1>1, <1>2 DEF IInv, AckedIsStored, RamProfileIsFlash, LoadedProfile
<1> QED BY <1>3, <1>4, <1>5 DEF IInv

LEMMA WorkerKeeps == IInv /\ FlashWorker => IInv'
<1> SUFFICES ASSUME IInv, FlashWorker PROVE IInv'
  OBVIOUS
<1>1. /\ request # <<>> /\ request' = <<>>
      /\ UNCHANGED <<profile, stagedBy, commitBy, at, item>>
      /\ result' \in {"ok", "err"}
  BY DEF FlashWorker, booted
<1>2. /\ commitBy \in Hosts /\ at[commitBy] = "awaiting" /\ result = "none"
      /\ request[1] = item[commitBy]
  BY <1>1 DEF IInv, RequestOwned
<1>3. profile = LoadedProfile(flashProf)
  BY <1>2 DEF IInv, RamProfileIsFlash
<1>4. /\ item[commitBy].kind \in {"topology", "profile"}
      /\ \A h \in Hosts : at[h] = "awaiting" => h = commitBy
  BY <1>2 DEF IInv, BusyItem, Busy, LockHeld
<1>5. \/ UNCHANGED <<flashTopo, flashProf>> /\ result' = "err"
      \/ /\ result' = "ok" /\ item[commitBy].kind = "topology"
         /\ flashTopo' = item[commitBy].val /\ flashProf' = flashProf
      \/ /\ result' = "ok" /\ item[commitBy].kind = "profile"
         /\ flashProf' = item[commitBy].val /\ flashTopo' = flashTopo
  BY <1>2, <1>4 DEF FlashWorker, flash
<1>6. Typed' /\ LockHeld' /\ RequestOwned' /\ ResultOwned' /\ BusyItem' /\ BusyValid'
  BY <1>1, <1>2 DEF IInv, Typed, LockHeld, RequestOwned, ResultOwned, BusyItem, BusyValid,
                    Busy, Valid, ProfileValid
<1>7. AckedIsStored'
  BY <1>1, <1>4, <1>5, Kinds DEF AckedIsStored
<1>8. RamProfileIsFlash'
  BY <1>1, <1>2, <1>3, <1>5 DEF RamProfileIsFlash, LoadedProfile, ProfileValid
<1> QED BY <1>6, <1>7, <1>8 DEF IInv

LEMMA TakeKeeps == ASSUME IInv, NEW h \in Hosts, TakeResult(h) PROVE IInv'
<1>1. /\ at[h] = "awaiting" /\ result # "none"
      /\ result' = "none" /\ commitBy' = Free
      /\ stagedBy' = IF stagedBy = h THEN Free ELSE stagedBy
      /\ profile' = IF result = "ok" /\ item[h].kind = "profile" THEN item[h].val ELSE profile
      /\ at' = [at EXCEPT ![h] = "idle"]
      /\ UNCHANGED <<flashTopo, flashProf, request, item>>
  BY DEF TakeResult, Goto, flash
<1>2. commitBy = h /\ request = <<>>
  BY <1>1 DEF IInv, LockHeld, RequestOwned
<1>3. /\ at'[h] = "idle"
      /\ \A g \in Hosts \ {h} : at'[g] = at[g] /\ at[g] \notin {"sending", "awaiting"}
  BY <1>1, <1>2 DEF IInv, Typed, LockHeld
<1>4. Typed' /\ LockHeld' /\ RequestOwned' /\ ResultOwned'
  BY <1>1, <1>2, <1>3, ConfigAssumption
     DEF IInv, Typed, Place, LockHeld, RequestOwned, ResultOwned
<1>5. BusyItem'
  BY <1>1, <1>3 DEF IInv, BusyItem, Busy, ProfileValid
<1>6. BusyValid'
  <2>1. CASE item[h].kind = "profile"
    BY <1>1, <2>1 DEF BusyValid
  <2>2. CASE item[h].kind # "profile"
    BY <1>1, <1>3, <2>2 DEF IInv, BusyValid, Busy, Valid
  <2> QED BY <2>1, <2>2
<1>7. AckedIsStored'
  BY <1>1 DEF AckedIsStored
<1>8. profile' = LoadedProfile(flashProf)
  <2>1. CASE result = "ok" /\ item[h].kind = "profile"
    <3>1. ProfileValid(item[h].val) /\ item[h].val = flashProf
      BY <1>1, <2>1, Kinds DEF IInv, BusyItem, Busy, AckedIsStored
    <3> QED BY <1>1, <2>1, <3>1 DEF LoadedProfile
  <2>2. CASE ~(result = "ok" /\ item[h].kind = "profile")
    BY <1>1, <1>2, <1>3, <2>2 DEF IInv, RamProfileIsFlash
  <2> QED BY <2>1, <2>2
<1>9. RamProfileIsFlash'
  BY <1>1, <1>8 DEF RamProfileIsFlash, LoadedProfile, ProfileValid
<1> QED BY <1>4, <1>5, <1>6, <1>7, <1>9 DEF IInv

LEMMA Step == IInv /\ [Next]_vars => IInv'
<1> SUFFICES ASSUME IInv, [Next]_vars PROVE IInv'
  OBVIOUS
<1>1. CASE UNCHANGED vars
  BY <1>1 DEF vars, IInv, Typed, LockHeld, RequestOwned, ResultOwned, BusyItem, BusyValid, Busy,
              AckedIsStored, RamProfileIsFlash, Valid, ProfileValid, LoadedProfile
<1>2. CASE FlashWorker
  BY <1>2, WorkerKeeps
<1>3. CASE PowerCut \/ \E h \in Hosts : Reboot(h)
  BY <1>3, BootKeeps DEF PowerCut, Reboot
<1>4. ASSUME NEW h \in Hosts, StartSet(h) \/ SetTopology(h) \/ AskReboot(h)
      PROVE  IInv'
  <2>1. PICK p \in {"staging", "idle", "commit", "rebootWait"} : Goto(h, p)
    BY <1>4 DEF StartSet, SetTopology, AskReboot
  <2>2. /\ at[h] \in {"idle", "staging"}
        /\ UNCHANGED <<flash, profile, stagedBy, commitBy, request, result, item>>
    BY <1>4 DEF StartSet, SetTopology, AskReboot
  <2> QED BY <2>1, <2>2, IdleMoveKeeps DEF Place
<1>5. ASSUME NEW h \in Hosts, Commit(h) PROVE IInv'
  <2>1. /\ at[h] = "commit" /\ stagedBy = Free
        /\ UNCHANGED <<flash, profile, commitBy, request, result>>
    BY <1>5 DEF Commit
  <2>2. CASE Goto(h, "idle") /\ UNCHANGED <<stagedBy, item>>
    BY <2>1, <2>2, IdleMoveKeeps DEF Place
  <2>3. CASE /\ Valid(staged, profile) /\ stagedBy' = h /\ Goto(h, "lockCommit")
             /\ item' = [item EXCEPT ![h] = [kind |-> "topology", val |-> staged]]
    BY <2>1, <2>3, NewItemKeeps
  <2> QED BY <1>5, <2>2, <2>3 DEF Commit
<1>6. ASSUME NEW h \in Hosts, SetProfile(h) PROVE IInv'
  <2>1. /\ at[h] = "idle"
        /\ UNCHANGED <<flash, profile, stagedBy, commitBy, request, result>>
    BY <1>6 DEF SetProfile
  <2>2. CASE UNCHANGED <<at, item>>
    BY <2>1, <2>2 DEF flash, IInv, Typed, LockHeld, RequestOwned, ResultOwned, BusyItem,
         BusyValid, Busy, AckedIsStored, RamProfileIsFlash, Valid, ProfileValid, LoadedProfile
  <2>3. ASSUME NEW p, ProfileValid(p), Goto(h, "lockCommit"),
               item' = [item EXCEPT ![h] = [kind |-> "profile", val |-> p]]
        PROVE  IInv'
    BY <2>1, <2>3, NewItemKeeps
  <2> QED BY <1>6, <2>2, <2>3 DEF SetProfile
<1>7. ASSUME NEW h \in Hosts, LockCommit(h) \/ SendItem(h) \/ TakeResult(h) PROVE IInv'
  BY <1>7, LockKeeps, SendKeeps, TakeKeeps
<1> QED BY <1>1, <1>2, <1>3, <1>4, <1>5, <1>6, <1>7 DEF Next, Handler

LEMMA Inductive == Spec => []IInv
BY Initially, Step, PTL DEF Spec

\* Every session that is about to be told its store succeeded finds its own
\* item in the flash (ConfigService::commit, flash_worker).
THEOREM CommitsAreStored == Spec => []AckedIsStored
<1>1. IInv => AckedIsStored
  BY DEF IInv
<1> QED BY <1>1, Inductive, PTL

\* Commits are validated against the profile boot will use, but for the moment
\* between a profile's store and its answer (ConfigService::set_profile).
THEOREM RamAndFlashAgree == Spec => []RamProfileIsFlash
<1>1. IInv => RamProfileIsFlash
  BY DEF IInv
<1> QED BY <1>1, Inductive, PTL

LEMMA StoredTopologyFits ==
  ASSUME IInv, [Next]_vars, flashTopo' # flashTopo, \A h \in Hosts : item[h].kind # "profile"
  PROVE  ~LoadedFault(flashTopo', flashProf')
<1>1. FlashWorker
  BY DEF vars, flash, Next, Handler, PowerCut, Boot, StartSet, SetProfile, AskReboot, SetTopology,
         Commit, LockCommit, SendItem, TakeResult, Reboot
<1>2. /\ request # <<>> /\ request[1].kind = "topology"
      /\ flashTopo' = request[1].val /\ flashProf' = flashProf
  BY <1>1 DEF FlashWorker, flash
<1>3. /\ commitBy \in Hosts /\ at[commitBy] = "awaiting" /\ result = "none"
      /\ request[1] = item[commitBy]
  BY <1>2 DEF IInv, RequestOwned
<1>4. profile = LoadedProfile(flashProf)
  BY <1>3 DEF IInv, RamProfileIsFlash
<1>5. Valid(flashTopo', profile)
  BY <1>2, <1>3 DEF IInv, BusyValid, Busy
<1> QED BY <1>2, <1>4, <1>5 DEF LoadedFault

\* What a commit stores never makes the next boot fall back to the default
\* topology, as long as no session's last item is a profile (session.rs, main.rs).
THEOREM CommitsBoot == Spec => CommittedBoots
<1>1. IInv /\ [Next]_vars => [StoreBoots]_vars
  BY StoredTopologyFits DEF StoreBoots
<1> QED BY <1>1, Inductive, PTL DEF Spec, CommittedBoots

-----------------------------------------------------------------------------
(* Boot.                                                                    *)

AnySlot == {SlotOf(k) : k \in Nat}

\* What validation says of the topology, as far as the claims rely on it.
Accepted ==
  /\ DOMAIN probes = 1 .. Len(probes) /\ Len(probes) \in Nat
  /\ DOMAIN uarts = 1 .. Len(uarts) /\ Len(uarts) \in Nat
  /\ FitsChip(probes, uarts) /\ PinsOnce(probes, uarts) /\ UartsLegal(uarts)

\* The pins of what is still to be built are all in the table.
EnginesLeft ==
  stage = "engines" =>
    \A i \in DOMAIN probes : i > Len(engines) => ProbePins(probes[i]) \subseteq free

BridgesLeft ==
  \A i \in DOMAIN uarts : i > bridges =>
    UartPins(uarts[i]) \subseteq free /\ Instance(uarts[i]) \subseteq uartFree

BInv ==
  /\ Accepted
  /\ engines \in Seq(AnySlot) /\ Len(engines) <= Len(probes)
  /\ bridges \in Nat
  /\ EnginesLeft /\ BridgesLeft
  /\ NoPanic

\* A topology valid under a profile has all its pins in the table.
LEMMA InitBInv == BootInit => BInv
<1> SUFFICES ASSUME BootInit PROVE BInv
  OBVIOUS
<1>1. PICK m \in 0 .. MaxProbes : probes \in [1 .. m -> ProbeChoices]
  BY DEF BootInit
<1>2. PICK n \in 0 .. MaxUarts : uarts \in [1 .. n -> UartChoices]
  BY DEF BootInit
<1>3. PICK prof \in Profiles : ValidTopology(probes, uarts, prof)
  BY DEF BootInit
<1>4. DOMAIN probes = 1 .. Len(probes) /\ Len(probes) \in Nat
  BY <1>1, BootAssumption DEF BootAssumption
<1>5. DOMAIN uarts = 1 .. Len(uarts) /\ Len(uarts) \in Nat
  BY <1>2, BootAssumption DEF BootAssumption
<1>6. Accepted
  BY <1>3, <1>4, <1>5 DEF Accepted, ValidTopology
<1>7. engines \in Seq(AnySlot) /\ Len(engines) <= Len(probes) /\ bridges \in Nat
  BY <1>4 DEF BootInit
<1>8. EnginesLeft
  BY <1>3, BootAssumption DEF EnginesLeft, BootInit, ValidTopology, PinsAllowed, BootAssumption
<1>9. BridgesLeft
  BY <1>3, BootAssumption
     DEF BridgesLeft, BootInit, ValidTopology, PinsAllowed, BootAssumption, Instance
<1>10. NoPanic
  BY DEF NoPanic, BootInit
<1> QED BY <1>6, <1>7, <1>8, <1>9, <1>10 DEF BInv

\* The next probe's pins can be claimed: no claim before took one of them.
LEMMA ProbeClaimable ==
  ASSUME BInv, stage = "engines", Len(engines) < Len(probes)
  PROVE  Claimable(probes[Len(engines) + 1])
<1> DEFINE k == Len(engines) + 1
<1>1. k \in DOMAIN probes /\ k > Len(engines)
  BY DEF BInv, Accepted
<1>2. ProbePins(probes[k]) \subseteq free
  BY <1>1 DEF BInv, EnginesLeft
<1>3. /\ probes[k].swclk # probes[k].swdio
      /\ probes[k].reset \notin {probes[k].swclk, probes[k].swdio}
  BY <1>1 DEF BInv, Accepted, PinsOnce
<1> QED BY <1>2, <1>3 DEF Claimable

\* The next UART's peripheral and pins can be claimed.
LEMMA NextUartClaimable ==
  ASSUME BInv, bridges < Len(uarts)
  PROVE  UartClaimable(uarts[bridges + 1])
<1> DEFINE k == bridges + 1
<1>1. k \in DOMAIN uarts /\ k > bridges
  BY DEF BInv, Accepted
<1>2. UartPins(uarts[k]) \subseteq free /\ Instance(uarts[k]) \subseteq uartFree
  BY <1>1 DEF BInv, BridgesLeft
<1>3. Instance(uarts[k]) # {} /\ uarts[k].tx # uarts[k].rx
  BY <1>1 DEF BInv, Accepted, UartsLegal, PinsOnce
<1> QED BY <1>2, <1>3 DEF UartClaimable

\* The interfaces and endpoints suffice.
LEMMA UsbSuffices ==
  ASSUME BInv
  PROVE  UsbFits
<1>1. Len(engines) \in Nat /\ Len(probes) \in Nat /\ Len(uarts) \in Nat
  BY DEF BInv, Accepted
<1>2. Len(engines) <= Len(probes)
  BY DEF BInv
<1>3. Len(probes) + 2 * Len(uarts) <= Eps /\ Len(probes) + Len(uarts) <= Eps
  BY DEF BInv, Accepted, FitsChip
<1> QED BY <1>1, <1>2, <1>3, BootAssumption DEF UsbFits, BootAssumption

\* An engine takes the pins of its own probe, which no later probe and no UART
\* shares.
LEMMA EngineStep ==
  ASSUME BInv, NewEngine
  PROVE  BInv'
<1>1. stage = "engines" /\ UNCHANGED <<topo, autobaud, uartFree, bridges>>
  BY DEF NewEngine, Panic
<1>2. Accepted' /\ bridges' \in Nat
  BY <1>1 DEF BInv, Accepted, FitsChip, PinsOnce, UartsLegal, topo
<1>3. Len(engines) \in Nat /\ Len(probes) \in Nat
  BY DEF BInv, Accepted
<1>4. CASE UNCHANGED <<free, engines>> /\ stage' = "autobaud"
  <2>1. EnginesLeft' /\ NoPanic'
    BY <1>4 DEF EnginesLeft, NoPanic
  <2>2. BridgesLeft'
    BY <1>1, <1>4 DEF BInv, BridgesLeft, topo
  <2> QED BY <1>1, <1>2, <1>4, <2>1, <2>2 DEF BInv, topo
<1>5. CASE /\ Len(engines) < Len(probes)
           /\ engines' = Append(engines, SlotOf(Len(engines)))
           /\ free' = free \ ProbePins(probes[Len(engines) + 1])
           /\ UNCHANGED stage
  <2> DEFINE k == Len(engines) + 1
  <2>1. SlotOf(Len(engines)) \in AnySlot
    BY <1>3 DEF AnySlot
  <2>2. engines' \in Seq(AnySlot) /\ Len(engines') = k
    BY <1>5, <2>1 DEF BInv
  <2>3. k \in DOMAIN probes /\ k <= Len(probes)
    BY <1>3, <1>5 DEF BInv, Accepted
  <2>4. EnginesLeft'
    <3> SUFFICES ASSUME NEW i \in DOMAIN probes, i > k
                 PROVE  ProbePins(probes[i]) \subseteq free'
      BY <1>1, <2>2 DEF EnginesLeft, topo
    <3>1. i \in Nat /\ i # k /\ i > Len(engines)
      BY <1>3 DEF BInv, Accepted
    <3>2. ProbePins(probes[i]) \cap ProbePins(probes[k]) = {}
      BY <2>3, <3>1 DEF BInv, Accepted, PinsOnce
    <3> QED BY <1>1, <1>5, <3>1, <3>2 DEF BInv, EnginesLeft
  <2>5. BridgesLeft'
    <3> SUFFICES ASSUME NEW i \in DOMAIN uarts, i > bridges
                 PROVE  /\ UartPins(uarts[i]) \subseteq free'
                        /\ Instance(uarts[i]) \subseteq uartFree
      BY <1>1 DEF BridgesLeft, topo
    <3>1. ProbePins(probes[k]) \cap UartPins(uarts[i]) = {}
      BY <2>3 DEF BInv, Accepted, PinsOnce
    <3> QED BY <1>5, <3>1 DEF BInv, BridgesLeft
  <2>6. NoPanic'
    BY <1>1, <1>5 DEF NoPanic
  <2> QED BY <1>1, <1>2, <2>2, <2>3, <2>4, <2>5, <2>6 DEF BInv, topo
<1>6. ~(Len(engines) < Len(probes) /\ ~Claimable(probes[Len(engines) + 1]))
  BY <1>1, ProbeClaimable
<1> QED BY <1>4, <1>5, <1>6 DEF NewEngine

\* A bridge takes its own pins and peripheral, which no later one shares.
LEMMA BridgeStep ==
  ASSUME BInv, NewBridge
  PROVE  BInv'
<1>1. stage = "uarts" /\ UNCHANGED <<topo, engines>>
  BY DEF NewBridge, Panic
<1>2. Accepted' /\ engines' \in Seq(AnySlot) /\ Len(engines') <= Len(probes')
  BY <1>1 DEF BInv, Accepted, FitsChip, PinsOnce, UartsLegal, topo
<1>3. bridges \in Nat /\ Len(uarts) \in Nat /\ DOMAIN uarts = 1 .. Len(uarts)
  BY DEF BInv, Accepted
<1>4. CASE UNCHANGED <<free, uartFree, bridges>> /\ stage' = "done"
  <2>1. EnginesLeft' /\ NoPanic' /\ BridgesLeft'
    BY <1>1, <1>4 DEF EnginesLeft, NoPanic, BInv, BridgesLeft, topo
  <2> QED BY <1>2, <1>3, <1>4, <2>1 DEF BInv
<1>5. CASE /\ bridges < Len(uarts)
           /\ free' = free \ UartPins(uarts[bridges + 1])
           /\ uartFree' = uartFree \ Instance(uarts[bridges + 1])
           /\ bridges' = bridges + 1
           /\ UNCHANGED stage
  <2> DEFINE k == bridges + 1
  <2>1. k \in DOMAIN uarts
    BY <1>3, <1>5
  <2>2. BridgesLeft'
    <3> SUFFICES ASSUME NEW i \in DOMAIN uarts, i > k
                 PROVE  /\ UartPins(uarts[i]) \subseteq free'
                        /\ Instance(uarts[i]) \subseteq uartFree'
      BY <1>1, <1>5 DEF BridgesLeft, topo
    <3>1. i # k /\ i > bridges
      BY <1>3
    <3>2. /\ UartPins(uarts[i]) \cap UartPins(uarts[k]) = {}
          /\ Instance(uarts[i]) \cap Instance(uarts[k]) = {}
      BY <2>1, <3>1 DEF BInv, Accepted, PinsOnce, UartsLegal
    <3> QED BY <1>5, <3>1, <3>2 DEF BInv, BridgesLeft
  <2>3. EnginesLeft' /\ NoPanic'
    BY <1>1, <1>5 DEF EnginesLeft, NoPanic
  <2> QED BY <1>2, <1>3, <1>5, <2>2, <2>3 DEF BInv
<1>6. ~(bridges < Len(uarts) /\ ~UartClaimable(uarts[bridges + 1]))
  BY NextUartClaimable
<1> QED BY <1>4, <1>5, <1>6 DEF NewBridge

\* Autobaud's slot and the USB descriptors claim no pin.
LEMMA OtherStep ==
  ASSUME BInv, Autobaud \/ Usb \/ UNCHANGED bootVars
  PROVE  BInv'
<1>1. /\ UNCHANGED <<topo, free, engines, uartFree, bridges>>
      /\ stage' \in {"usb", "uarts"} \/ stage' = stage
  <2>1. CASE Autobaud
    BY <2>1 DEF Autobaud
  <2>2. CASE Usb
    BY <2>2, UsbSuffices DEF Usb
  <2>3. CASE UNCHANGED bootVars
    BY <2>3 DEF bootVars, topo
  <2> QED BY <2>1, <2>2, <2>3
<1>2. Accepted' /\ BridgesLeft'
  BY <1>1 DEF BInv, Accepted, FitsChip, PinsOnce, UartsLegal, BridgesLeft, topo
<1>3. EnginesLeft' /\ NoPanic'
  BY <1>1 DEF BInv, EnginesLeft, NoPanic, topo
<1> QED BY <1>1, <1>2, <1>3 DEF BInv, topo

\* "Validation prevents both": boot claims every pin, UART, interface and
\* endpoint of a topology that validation accepts without a panic.
THEOREM BootsWithoutPanic == BootSpec => []NoPanic
<1>1. BInv /\ [BootNext]_bootVars => BInv'
  BY EngineStep, BridgeStep, OtherStep DEF BootNext
<1>2. BInv => NoPanic
  BY DEF BInv
<1> QED BY InitBInv, <1>1, <1>2, PTL DEF BootSpec

-----------------------------------------------------------------------------
(* What boot builds.                                                        *)

\* A slot of the chip, by its number.
IsSlot(s, k) == k = s.block * Sms + s.sm /\ s.block \in Nat /\ s.sm \in 0 .. Sms - 1

\* Engines fill the slots in their order, all of the topology's, and autobaud
\* has one behind them.
Built ==
  /\ \A i \in 1 .. Len(engines) : engines[i] = SlotOf(i - 1)
  /\ stage \in {"autobaud", "usb", "uarts", "done"} => Len(engines) = Len(probes)
  /\ stage \in {"usb", "uarts", "done"} => autobaud = IF uarts = <<>> THEN {} ELSE {AutobaudSlot}

LEMMA Times == ASSUME NEW a \in Int, NEW b \in Int, a >= b PROVE a * Sms >= b * Sms
BY BootAssumption

LEMMA Numbers ==
  ASSUME NEW k \in Nat
  PROVE  IsSlot(SlotOf(k), k) /\ DOMAIN SlotOf(k) = {"block", "sm"}
<1>1. Sms \in Nat /\ Sms > 0
  BY BootAssumption
<1>2. k \div Sms \in Nat /\ k % Sms \in 0 .. Sms - 1 /\ k = (k \div Sms) * Sms + (k % Sms)
  BY <1>1, SMT
<1> QED BY <1>2 DEF IsSlot, SlotOf

\* The slots of the chip are those with a number below Blocks * Sms.
LEMMA OnChip ==
  ASSUME NEW s, NEW k \in Nat, IsSlot(s, k), k < Blocks * Sms, s = [block |-> s.block, sm |-> s.sm]
  PROVE  s \in Slots
<1>1. Sms \in Nat /\ Sms > 0 /\ Blocks \in Nat
  BY BootAssumption
<1>2. PICK b, m : b = s.block /\ m = s.sm /\ b \in Nat /\ m \in 0 .. Sms - 1 /\ k = b * Sms + m
  BY DEF IsSlot
<1>3. b < Blocks
  <2> SUFFICES ASSUME b >= Blocks PROVE FALSE
    BY <1>1, <1>2
  <2>1. b * Sms >= Blocks * Sms
    BY <1>1, <1>2
  <2> QED BY <1>1, <1>2, <2>1
<1>4. b \in 0 .. Blocks - 1
  BY <1>1, <1>2, <1>3
<1>5. [block |-> b, sm |-> m] \in Slots
  BY <1>2, <1>4 DEF Slots
<1> QED BY <1>2, <1>5

\* The slot that follows the probes' is none of theirs.
LEMMA BehindEngines ==
  ASSUME BInv, uarts # <<>>
  PROVE  \E k \in Nat : /\ IsSlot(AutobaudSlot, k) /\ k >= Len(probes) /\ k < Blocks * Sms
                        /\ AutobaudSlot.block < Blocks
<1>1. Sms \in Nat /\ Sms > 0 /\ Blocks \in Nat
  BY BootAssumption
<1>2. Len(probes) \in Nat /\ Len(probes) + 1 <= Blocks * Sms
  BY <1>1 DEF BInv, Accepted, FitsChip, AutobaudSms
<1>3. PICK n, b, r : n = Len(probes) /\ b = n \div Sms /\ r = n % Sms
  OBVIOUS
<1>4. b \in Nat /\ r \in 0 .. Sms - 1 /\ n = b * Sms + r /\ n \in Nat
  BY <1>1, <1>2, <1>3, SMT
<1>5. PICK m : m = IF r # 0 THEN Sms - 1 ELSE 0
  OBVIOUS
<1>6. AutobaudSlot.block = b /\ AutobaudSlot.sm = m /\ m \in 0 .. Sms - 1 /\ m >= r
  BY <1>1, <1>3, <1>4, <1>5 DEF AutobaudSlot
<1>7. PICK c : c = b * Sms /\ c \in Nat
  BY <1>1, <1>4
<1>8. b < Blocks
  <2> SUFFICES ASSUME b >= Blocks PROVE FALSE
    BY <1>1, <1>4
  <2>1. b * Sms >= Blocks * Sms
    BY <1>1, <1>4, Times
  <2> QED BY <1>1, <1>2, <1>3, <1>4, <1>7, <2>1
<1>9. c + m < Blocks * Sms
  <2>1. b + 1 <= Blocks
    BY <1>1, <1>4, <1>8
  <2>2. Blocks * Sms >= (b + 1) * Sms
    BY <1>1, <1>4, <2>1, Times
  <2>3. (b + 1) * Sms = c + Sms
    BY <1>1, <1>4, <1>7
  <2> QED BY <1>1, <1>6, <1>7, <2>2, <2>3
<1>10. c + m \in Nat /\ c + m >= Len(probes) /\ IsSlot(AutobaudSlot, c + m)
  BY SMTT(30), <1>1, <1>3, <1>4, <1>6, <1>7 DEF IsSlot
<1> QED BY <1>6, <1>8, <1>9, <1>10

LEMMA InitBuilt == BootInit => Built
BY DEF BootInit, Built

LEMMA BuiltStep == BInv /\ Built /\ [BootNext]_bootVars => Built'
<1> SUFFICES ASSUME BInv, Built, [BootNext]_bootVars PROVE Built'
  OBVIOUS
<1>1. /\ engines \in Seq(AnySlot) /\ Len(engines) \in Nat /\ Len(probes) \in Nat
      /\ Len(engines) <= Len(probes) /\ Len(probes) <= Blocks * Sms
      /\ Sms \in Nat /\ Sms > 0 /\ Blocks \in Nat
  BY BootAssumption DEF BInv, Accepted, FitsChip, AutobaudSms
<1>2. CASE NewEngine
  <2>1. UNCHANGED <<probes, uarts, autobaud>> /\ stage = "engines"
    BY <1>2 DEF NewEngine, Panic, topo
  <2>2. CASE Panic
    BY <2>2, <2>1 DEF Panic, Built
  <2>3. CASE /\ engines' = Append(engines, SlotOf(Len(engines)))
             /\ Len(engines) < Len(probes) /\ UNCHANGED stage
    <3>1. /\ Len(engines') = Len(engines) + 1 /\ engines'[Len(engines) + 1] = SlotOf(Len(engines))
          /\ \A i \in 1 .. Len(engines) : engines'[i] = engines[i]
      BY <1>1, <2>3
    <3>2. ASSUME NEW i \in 1 .. Len(engines') PROVE engines'[i] = SlotOf(i - 1)
      <4>1. CASE i \in 1 .. Len(engines)
        BY <3>1, <4>1 DEF Built
      <4>2. CASE i = Len(engines) + 1
        <5>1. i - 1 = Len(engines)
          BY <1>1, <4>2
        <5> QED BY <3>1, <4>2, <5>1
      <4> QED BY <1>1, <3>1, <4>1, <4>2
    <3> QED BY <2>1, <2>3, <3>2 DEF Built
  <2>4. CASE /\ Len(engines) = Len(probes) \/ SlotOf(Len(engines)).block >= Blocks
             /\ stage' = "autobaud" /\ UNCHANGED engines
    <3>1. Len(engines) = Len(probes)
      <4> SUFFICES ASSUME Len(engines) < Len(probes) PROVE FALSE
        BY <1>1
      <4>1. PICK k, s : k = Len(engines) /\ s = SlotOf(k)
        OBVIOUS
      <4>2. IsSlot(s, k) /\ k \in Nat /\ k < Blocks * Sms
        BY <1>1, <4>1, Numbers
      <4>3. PICK b : b = s.block /\ b \in Nat /\ s.sm \in Nat /\ k = b * Sms + s.sm
        BY <1>1, <4>2 DEF IsSlot
      <4>4. b >= Blocks
        BY <1>1, <2>4, <4>1, <4>3
      <4>5. b * Sms >= Blocks * Sms
        BY <1>1, <4>3, <4>4, Times
      <4> QED BY <1>1, <4>2, <4>3, <4>5
    <3> QED BY <2>1, <2>4, <3>1 DEF Built
  <2> QED BY <1>2, <2>2, <2>3, <2>4 DEF NewEngine
<1>3. CASE Autobaud
  <2>1. /\ stage = "autobaud" /\ stage' = "usb" /\ UNCHANGED <<topo, engines>>
        /\ autobaud' = IF uarts # <<>> /\ AutobaudSlot.block < Blocks THEN {AutobaudSlot} ELSE {}
    BY <1>3 DEF Autobaud
  <2>2. uarts # <<>> => AutobaudSlot.block < Blocks
    BY BehindEngines
  <2>3. autobaud' = (IF uarts = <<>> THEN {} ELSE {AutobaudSlot}) /\ AutobaudSlot' = AutobaudSlot
    BY <2>1, <2>2 DEF AutobaudSlot, topo
  <2> QED BY <2>1, <2>3 DEF Built, topo
<1>4. CASE Usb \/ NewBridge \/ UNCHANGED bootVars
  <2>1. /\ UNCHANGED <<probes, uarts, engines, autobaud>> /\ AutobaudSlot' = AutobaudSlot
        /\ stage' = stage \/ stage' = "panic" \/ stage \in {"usb", "uarts", "done"}
    BY <1>4 DEF Usb, NewBridge, Panic, bootVars, topo, AutobaudSlot
  <2>2. stage' \in {"autobaud", "usb", "uarts", "done"} => stage' = stage \/ stage \in {"usb", "uarts", "done"}
    BY <2>1
  <2> QED BY <2>1, <2>2 DEF Built
<1> QED BY <1>2, <1>3, <1>4 DEF BootNext

\* Boot gives every probe an engine, on a state machine of its own that the chip
\* has, and autobaud, if there is a UART, one that is none of theirs.
THEOREM BootBuildsAll == BootSpec => []FullyBuilt
<1>1. BInv /\ Built => FullyBuilt
  <2> SUFFICES ASSUME BInv, Built, stage \in {"usb", "uarts", "done"}
               PROVE  /\ Len(engines) = Len(probes)
                      /\ \A i \in DOMAIN engines : engines[i] \in Slots \ autobaud
                      /\ \A i, j \in DOMAIN engines : i # j => engines[i] # engines[j]
                      /\ autobaud \subseteq Slots
                      /\ uarts # <<>> <=> autobaud # {}
    BY DEF FullyBuilt
  <2>1. /\ engines \in Seq(AnySlot) /\ DOMAIN engines = 1 .. Len(engines) /\ Len(engines) \in Nat
        /\ Len(engines) = Len(probes) /\ Len(probes) \in Nat /\ Len(probes) <= Blocks * Sms
        /\ autobaud = IF uarts = <<>> THEN {} ELSE {AutobaudSlot}
    <3>1. Sms \in Nat /\ Blocks \in Nat
      BY BootAssumption
    <3> QED BY <3>1 DEF BInv, Built, Accepted, FitsChip, AutobaudSms
  <2>2. \A i \in 1 .. Len(engines) : i - 1 \in Nat /\ i - 1 < Len(probes) /\ IsSlot(engines[i], i - 1)
    BY <2>1, Numbers DEF Built
  <2>3. ASSUME NEW i \in 1 .. Len(engines) PROVE engines[i] \in Slots
    <3>1. PICK k : k = i - 1 /\ k \in Nat /\ k < Len(probes)
      BY <2>2
    <3>2. engines[i] = SlotOf(k)
      BY <3>1 DEF Built
    <3>3. k < Blocks * Sms
      <4>1. Sms \in Nat /\ Blocks \in Nat
        BY BootAssumption
      <4> QED BY <2>1, <3>1, <4>1
    <3>4. SlotOf(k) = [block |-> SlotOf(k).block, sm |-> SlotOf(k).sm]
      BY DEF SlotOf
    <3> QED BY <3>1, <3>2, <3>3, <3>4, Numbers, OnChip
  <2>4. ASSUME NEW i \in 1 .. Len(engines), NEW j \in 1 .. Len(engines), engines[i] = engines[j] PROVE i = j
    <3>1. i - 1 = j - 1
      BY <2>2, <2>4 DEF IsSlot
    <3> QED BY <3>1
  <2>5. CASE uarts = <<>>
    BY <2>1, <2>3, <2>4, <2>5
  <2>6. CASE uarts # <<>>
    <3>1. PICK k \in Nat : IsSlot(AutobaudSlot, k) /\ k >= Len(probes) /\ k < Blocks * Sms
      BY <2>6, BehindEngines
    <3>2. AutobaudSlot \in Slots
      <4>1. AutobaudSlot = [block |-> AutobaudSlot.block, sm |-> AutobaudSlot.sm]
        BY DEF AutobaudSlot
      <4> QED BY <3>1, <4>1, OnChip
    <3>3. ASSUME NEW i \in 1 .. Len(engines) PROVE engines[i] # AutobaudSlot
      <4> SUFFICES ASSUME engines[i] = AutobaudSlot PROVE FALSE
        OBVIOUS
      <4>1. i - 1 = k
        BY <2>2, <3>1 DEF IsSlot
      <4> QED BY <2>1, <2>2, <3>1, <4>1
    <3> QED BY <2>1, <2>3, <2>4, <2>6, <3>2, <3>3
  <2> QED BY <2>5, <2>6
<1>2. BInv /\ [BootNext]_bootVars => BInv'
  BY EngineStep, BridgeStep, OtherStep DEF BootNext
<1> QED BY <1>1, <1>2, InitBInv, InitBuilt, BuiltStep, PTL DEF BootSpec
=============================================================================
