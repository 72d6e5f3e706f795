---------------------------- MODULE ConfigService ----------------------------
(***************************************************************************)
(* The configuration service behind the vendor commands of every DAP       *)
(* interface: one staging buffer shared by all sessions, the board profile *)
(* in RAM, and commits marshalled to the flash worker under COMMIT_LOCK;   *)
(* with the host sessions that drive it (cli/src/session.rs and its web    *)
(* twin), and the boot code that reads the flash back.                     *)
(* firmware/src/vendor.rs, flash_config.rs, main.rs.                       *)
(*                                                                         *)
(* A topology is the sequence of chunks that encode it, a board profile    *)
(* the set of chunks it allows: a topology is valid when all are allowed.  *)
(* All handlers run on the core-0 executor, so the code between two awaits *)
(* is one action.                                                          *)
(***************************************************************************)
EXTENDS Integers, Sequences

CONSTANTS
  Hosts,            \* the sessions, one per DAP interface
  SetHosts,         \* the sessions that write topologies
  ProfileHosts,     \* the sessions that write board profiles
  RebootHosts,      \* the sessions that reboot the probe
  Free,             \* the holder of an unlocked mutex
  Chunks,           \* contents of a chunk
  BufLen,           \* TOPOLOGY_BUF_LEN, in chunks
  MaxLen,           \* bound: chunks of the topologies sessions write
  ProfileData,      \* the profiles sessions write
  DefaultTopology,  \* default_topology()
  DefaultProfile,   \* BoardProfile::PICO
  MaxOps,           \* bound: commands sequences all sessions start
  MaxBoots          \* bound: resets

ASSUME ConfigAssumption ==
  /\ SetHosts \cup ProfileHosts \cup RebootHosts \subseteq Hosts
  /\ Free \notin Hosts
  /\ BufLen \in Nat /\ MaxLen \in Nat /\ MaxOps \in Nat /\ MaxBoots \in Nat
  /\ DefaultProfile \subseteq Chunks

Topologies(n) == UNION {[1 .. k -> Chunks] : k \in 1 .. n}
NoTopology == <<>>
NoProfile == {}

VARIABLES
  flashTopo, flashProf,   \* what the flash holds (NoTopology, NoProfile: absent)
  active,                 \* the topology the firmware booted with
  fault,                  \* FirmwareInfo::config_fault
  profile,                \* ConfigService::profile
  staged, stagedBy,       \* the staging buffer and the holder of its mutex
  commitBy,               \* the holder of COMMIT_LOCK
  request, result,        \* COMMIT_REQUEST (a queue of at most 1), COMMIT_RESULT
  at,                     \* at[h]: where the session's command sequence is
  want,                   \* want[h]: the topology the user asked for
  offset,                 \* offset[h]: chunks of it sent
  item,                   \* item[h]: what the handler hands to the flash worker
  ops, boots              \* counters for the bounds

flash == <<flashTopo, flashProf>>
booted == <<active, fault, boots>>
vars == <<flashTopo, flashProf, active, fault, profile, staged,
          stagedBy, commitBy, request, result, at, want, offset, item,
          ops, boots>>

Place == {"idle", "staging", "commit", "lockCommit", "sending", "awaiting",
          "rebootWait"}
NoItem == [kind |-> "none", val |-> {}]

-----------------------------------------------------------------------------
\* Topology::validate and BoardProfile::validate; module Boot has the rules.
Valid(t, p) == \A i \in DOMAIN t : t[i] \in p
ProfileValid(p) == p # NoProfile /\ p \subseteq Chunks

\* The profile boot uses: a stored one that does not fit the chip is ignored.
LoadedProfile(p) == IF ProfileValid(p) THEN p ELSE DefaultProfile

\* The topology boot runs, and the fault it reports: an absent topology is none.
LoadedTopology(t, p) ==
  IF t # NoTopology /\ Valid(t, LoadedProfile(p)) THEN t ELSE DefaultTopology
LoadedFault(t, p) == t # NoTopology /\ ~Valid(t, LoadedProfile(p))

\* What reset leaves of the RAM: boot starts from the flash alone.
Boot ==
  /\ profile' = LoadedProfile(flashProf)
  /\ active' = LoadedTopology(flashTopo, flashProf)
  /\ fault' = LoadedFault(flashTopo, flashProf)
  /\ staged' = <<>> /\ stagedBy' = Free /\ commitBy' = Free
  /\ request' = <<>> /\ result' = "none"
  /\ at' = [h \in Hosts |-> "idle"]
  /\ offset' = [h \in Hosts |-> 0]
  /\ item' = [h \in Hosts |-> NoItem]
  /\ boots' = boots + 1
  /\ UNCHANGED <<flash, want, ops>>

\* The flash may hold anything an earlier firmware or another board left there.
Init ==
  /\ flashTopo \in Topologies(MaxLen) \cup {NoTopology}
  /\ flashProf \in ProfileData \cup {NoProfile}
  /\ profile = LoadedProfile(flashProf)
  /\ active = LoadedTopology(flashTopo, flashProf)
  /\ fault = LoadedFault(flashTopo, flashProf)
  /\ staged = <<>> /\ stagedBy = Free /\ commitBy = Free
  /\ request = <<>> /\ result = "none"
  /\ at = [h \in Hosts |-> "idle"]
  /\ want = [h \in Hosts |-> NoTopology]
  /\ offset = [h \in Hosts |-> 0]
  /\ item = [h \in Hosts |-> NoItem]
  /\ ops = 0 /\ boots = 0

Goto(h, place) == at' = [at EXCEPT ![h] = place]

-----------------------------------------------------------------------------
(* Session::set_topology and ConfigService::set_topology, commit.           *)

StartSet(h) ==
  /\ at[h] = "idle" /\ h \in SetHosts /\ ops < MaxOps
  /\ ops' = ops + 1
  /\ \E t \in Topologies(MaxLen) : want' = [want EXCEPT ![h] = t]
  /\ offset' = [offset EXCEPT ![h] = 0]
  /\ Goto(h, "staging")
  /\ UNCHANGED <<flash, booted, profile, staged, stagedBy, commitBy, request,
                 result, item>>

\* One CMD_SET_TOPOLOGY and its reply: offset 0 restarts the buffer, any other
\* must continue it; an error status ends the session.
SetTopology(h) ==
  /\ at[h] = "staging" /\ stagedBy = Free
  /\ LET base == IF offset[h] = 0 THEN <<>> ELSE staged IN
     \/ /\ offset[h] # Len(base) \/ Len(base) + 1 > BufLen
        /\ staged' = base
        /\ Goto(h, "idle")
        /\ UNCHANGED offset
     \/ /\ offset[h] = Len(base) /\ Len(base) + 1 <= BufLen
        /\ staged' = Append(base, want[h][offset[h] + 1])
        /\ offset' = [offset EXCEPT ![h] = @ + 1]
        /\ Goto(h, IF offset[h] + 1 = Len(want[h]) THEN "commit" ELSE "staging")
  /\ UNCHANGED <<flash, booted, profile, stagedBy, commitBy, request, result,
                 want, item, ops>>

\* Mutant: the topology is not validated again before it is stored.
CommitUnchecked(h) ==
  /\ at[h] = "commit" /\ stagedBy = Free
  /\ \/ /\ Len(staged) # Len(want[h])
        /\ Goto(h, "idle")
        /\ UNCHANGED <<stagedBy, item>>
     \/ /\ Len(staged) = Len(want[h])
        /\ stagedBy' = h
        /\ item' = [item EXCEPT ![h] = [kind |-> "topology", val |-> staged]]
        /\ Goto(h, "lockCommit")
  /\ UNCHANGED <<flash, booted, profile, staged, commitBy, request, result, want,
                 offset, ops>>

\* CMD_COMMIT up to the flash commit: the buffer must hold the announced length,
\* decode, and be valid under the profile in RAM; its mutex stays locked.
Commit(h) ==
  /\ at[h] = "commit" /\ stagedBy = Free
  /\ LET ok == Len(staged) = Len(want[h]) /\ Valid(staged, profile) IN
     \/ /\ ~ok
        /\ Goto(h, "idle")
        /\ UNCHANGED <<stagedBy, item>>
     \/ /\ ok
        /\ stagedBy' = h
        /\ item' = [item EXCEPT ![h] = [kind |-> "topology", val |-> staged]]
        /\ Goto(h, "lockCommit")
  /\ UNCHANGED <<flash, booted, profile, staged, commitBy, request, result, want,
                 offset, ops>>

-----------------------------------------------------------------------------
(* CMD_SET_PROFILE, the flash commit, CMD_REBOOT.                           *)

\* Mutant: the profile in RAM is replaced before it is stored.
SetProfileRamFirst(h) ==
  /\ at[h] = "idle" /\ h \in ProfileHosts /\ ops < MaxOps
  /\ ops' = ops + 1
  /\ \E p \in ProfileData :
       IF ProfileValid(p)
       THEN /\ item' = [item EXCEPT ![h] = [kind |-> "profile", val |-> p]]
            /\ profile' = p
            /\ Goto(h, "lockCommit")
       ELSE UNCHANGED <<at, item, profile>>
  /\ UNCHANGED <<flash, booted, staged, stagedBy, commitBy, request, result,
                 want, offset>>

\* A profile that does not fit the chip is answered with an error at once.
SetProfile(h) ==
  /\ at[h] = "idle" /\ h \in ProfileHosts /\ ops < MaxOps
  /\ ops' = ops + 1
  /\ \E p \in ProfileData :
       IF ProfileValid(p)
       THEN /\ item' = [item EXCEPT ![h] = [kind |-> "profile", val |-> p]]
            /\ Goto(h, "lockCommit")
       ELSE UNCHANGED <<at, item>>
  /\ UNCHANGED <<flash, booted, profile, staged, stagedBy, commitBy, request,
                 result, want, offset>>

\* Mutant: commits are not serialised by COMMIT_LOCK.
LockCommitNoLock(h) ==
  /\ at[h] = "lockCommit"
  /\ commitBy' = h
  /\ result' = "none"
  /\ Goto(h, "sending")
  /\ UNCHANGED <<flash, booted, profile, staged, stagedBy, request, want, offset,
                 item, ops>>

LockCommit(h) ==
  /\ at[h] = "lockCommit" /\ commitBy = Free
  /\ commitBy' = h
  /\ result' = "none"
  /\ Goto(h, "sending")
  /\ UNCHANGED <<flash, booted, profile, staged, stagedBy, request, want, offset,
                 item, ops>>

SendItem(h) ==
  /\ at[h] = "sending" /\ request = <<>>
  /\ request' = <<item[h]>>
  /\ Goto(h, "awaiting")
  /\ UNCHANGED <<flash, booted, profile, staged, stagedBy, commitBy, result, want,
                 offset, item, ops>>

\* Mutant: a failed store signals nothing.
FlashWorkerSilent ==
  /\ request # <<>>
  /\ request' = <<>>
  /\ \/ /\ result' = "ok"
        /\ IF request[1].kind = "topology"
           THEN flashTopo' = request[1].val /\ UNCHANGED flashProf
           ELSE flashProf' = request[1].val /\ UNCHANGED flashTopo
     \/ UNCHANGED <<flash, result>>
  /\ UNCHANGED <<booted, profile, staged, stagedBy, commitBy, at, want, offset,
                 item, ops>>

\* The flash driver is blocking, so a store is one step of flash_worker.  A
\* failed one leaves the stored item (sequential-storage appends, external).
FlashWorker ==
  /\ request # <<>>
  /\ request' = <<>>
  /\ \/ /\ result' = "ok"
        /\ IF request[1].kind = "topology"
           THEN flashTopo' = request[1].val /\ UNCHANGED flashProf
           ELSE flashProf' = request[1].val /\ UNCHANGED flashTopo
     \/ result' = "err" /\ UNCHANGED flash
  /\ UNCHANGED <<booted, profile, staged, stagedBy, commitBy, at, want, offset,
                 item, ops>>

\* commit returns: COMMIT_LOCK and the staging buffer are released, a stored
\* profile takes effect, and the reply goes to the session.
TakeResult(h) ==
  /\ at[h] = "awaiting" /\ result # "none"
  /\ result' = "none"
  /\ commitBy' = Free
  /\ stagedBy' = IF stagedBy = h THEN Free ELSE stagedBy
  /\ profile' = IF result = "ok" /\ item[h].kind = "profile" THEN item[h].val
                                                             ELSE profile
  /\ Goto(h, "idle")
  /\ UNCHANGED <<flash, booted, staged, request, want, offset, item, ops>>

\* CMD_REBOOT is answered, and the reset follows 100 ms later.
AskReboot(h) ==
  /\ at[h] = "idle" /\ h \in RebootHosts /\ ops < MaxOps /\ boots < MaxBoots
  /\ ops' = ops + 1
  /\ Goto(h, "rebootWait")
  /\ UNCHANGED <<flash, booted, profile, staged, stagedBy, commitBy, request,
                 result, want, offset, item>>

Reboot(h) == at[h] = "rebootWait" /\ Boot

\* The probe is unplugged, or reset by the USB reset interface, at any moment.
PowerCut == boots < MaxBoots /\ Boot

-----------------------------------------------------------------------------
Handler(h) ==
  SetTopology(h) \/ Commit(h) \/ LockCommit(h) \/ SendItem(h) \/ TakeResult(h)
    \/ Reboot(h)

Next ==
  \/ FlashWorker \/ PowerCut
  \/ \E h \in Hosts : StartSet(h) \/ SetProfile(h) \/ AskReboot(h) \/ Handler(h)

\* The core-0 executor polls every woken task; sessions that have begun go on.
Spec == Init /\ [][Next]_vars /\ WF_vars(FlashWorker)
          /\ \A h \in Hosts : WF_vars(Handler(h))

-----------------------------------------------------------------------------
\* A commit or set-profile that is about to be answered OK has its own item in
\* the flash: no session is ever given the outcome of another one's store.
AckedIsStored ==
  \A h \in Hosts : at[h] = "awaiting" /\ result = "ok" =>
    item[h].val = IF item[h].kind = "topology" THEN flashTopo ELSE flashProf

\* The profile in RAM that commits are validated against is the one the flash
\* holds, but for the moment between a store and its answer: boot and the
\* running firmware agree on what is assignable.
RamProfileIsFlash ==
  \/ profile = LoadedProfile(flashProf)
  \/ \E h \in Hosts :
       at[h] = "awaiting" /\ item[h].kind = "profile" /\ result = "ok"

StoreBoots ==
  flashTopo' # flashTopo /\ (\A h \in Hosts : item[h].kind # "profile")
    => ~LoadedFault(flashTopo', flashProf')

\* A topology stored while no session's last write is a profile boots: what a
\* commit is allowed to store never makes the next boot fall back to the default.
CommittedBoots == [][StoreBoots]_vars

\* Every command is answered: the two mutexes, the depth-1 channel and the
\* result signal never leave a session waiting.
EveryCommandAnswered == \A h \in Hosts : at[h] # "idle" ~> at[h] = "idle"
=============================================================================
