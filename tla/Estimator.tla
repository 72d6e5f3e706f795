----------------------------- MODULE Estimator -----------------------------
(***************************************************************************)
(* The baud-rate estimator (autobaud-estimator/src/lib.rs): one push per   *)
(* sample, its probing of the hash table step by step.  Rates and ratios   *)
(* are exact here, where the code rounds them to 32-bit floats.            *)
(***************************************************************************)
EXTENDS Integers, Sequences, FiniteSetsExt

CONSTANTS Raws,         \* the words that the edge timer may push
          WordMax,      \* the largest word
          Slots,        \* HASH_TBL_SIZE
          Hash,         \* the slot where the search for a width begins
          FreqDen,      \* MIN_FREQUENCY is one in FreqDen
          Completeness, \* in per mille, of a number of samples: 1 - e^(-n/40)
          Clock,        \* of the edge timer, in Hz
          MaxTotal      \* bound: the samples of a session

RawToCycles(raw) == ((WordMax - raw) * 2) % (WordMax + 1)

Widths == {RawToCycles(raw) : raw \in Raws}

ASSUME EstimatorAssumption ==
  /\ Slots \in Nat \ {0} /\ FreqDen \in Nat \ {0} /\ Clock \in Nat \ {0} /\ MaxTotal \in Nat
  /\ WordMax \in Nat /\ Raws \subseteq 0..WordMax
  /\ Hash \in [Widths -> 0..(Slots - 1)]
  /\ Completeness \in Seq(0..1000) /\ Len(Completeness) >= MaxTotal

VARIABLES table, baud, min_cycles, max_cycles, total, bit_time_sum, bit_time_count, outlier_count,
          pc,           \* "idle", "probe" or "judge": where push is
          cycles, idx,  \* of the sample being pushed
          pushed        \* history: how often each width was pushed

acc == <<min_cycles, bit_time_sum, bit_time_count, outlier_count>>
vars == <<table, baud, acc, max_cycles, total, pc, cycles, idx, pushed>>

\* A rate is a fraction of Hz: 0 until one is published.
Rate(num, den) == [num |-> num, den |-> den]

New ==
  [table |-> [s \in 0..(Slots - 1) |-> [key |-> 0, count |-> 0]], baud |-> Rate(0, 1),
   pushed |-> [c \in Widths |-> 0]]

Init ==
  /\ table = New.table /\ baud = New.baud /\ pushed = New.pushed
  /\ min_cycles = WordMax /\ bit_time_sum = 0 /\ bit_time_count = 0 /\ outlier_count = 0
  /\ max_cycles = 0 /\ total = 0 /\ pc = "idle" /\ cycles = 0 /\ idx = 0

Reset ==
  /\ pc = "idle"
  /\ table' = New.table /\ baud' = New.baud /\ pushed' = New.pushed
  /\ min_cycles' = WordMax /\ bit_time_sum' = 0 /\ bit_time_count' = 0 /\ outlier_count' = 0
  /\ max_cycles' = 0 /\ total' = 0
  /\ UNCHANGED <<pc, cycles, idx>>

Push(raw) ==
  /\ pc = "idle" /\ total < MaxTotal
  /\ cycles' = RawToCycles(raw) /\ idx' = Hash[cycles'] /\ pc' = "probe"
  /\ pushed' = [pushed EXCEPT ![cycles'] = @ + 1]
  /\ UNCHANGED <<table, baud, acc, max_cycles, total>>

\* Mutant: an entry is written over one of another width.
ProbeFirst ==
  /\ pc = "probe"
  /\ pc' = "judge"
  /\ table' = [table EXCEPT ![idx] =
                 IF @.key = cycles THEN [@ EXCEPT !.count = @ + 1] ELSE [key |-> cycles, count |-> 1]]
  /\ UNCHANGED <<baud, acc, max_cycles, total, cycles, idx, pushed>>

\* Mutant: the search does not wrap at the end of the table.
ProbeNoWrap ==
  /\ pc = "probe"
  /\ \/ /\ table[idx].key = 0
        /\ table' = [table EXCEPT ![idx] = [key |-> cycles, count |-> 1]]
        /\ pc' = "judge" /\ UNCHANGED idx
     \/ /\ table[idx].key # 0 /\ table[idx].key = cycles
        /\ table' = [table EXCEPT ![idx].count = @ + 1]
        /\ pc' = "judge" /\ UNCHANGED idx
     \/ /\ table[idx].key \notin {0, cycles}
        /\ idx' = (IF idx + 1 < Slots THEN idx + 1 ELSE idx) /\ UNCHANGED <<pc, table>>
  /\ UNCHANGED <<baud, acc, max_cycles, total, cycles, pushed>>

\* insert: a free entry has the key 0.
Probe ==
  /\ pc = "probe"
  /\ \/ /\ table[idx].key = 0
        /\ table' = [table EXCEPT ![idx] = [key |-> cycles, count |-> 1]]
        /\ pc' = "judge" /\ UNCHANGED idx
     \/ /\ table[idx].key # 0 /\ table[idx].key = cycles
        /\ table' = [table EXCEPT ![idx].count = @ + 1]
        /\ pc' = "judge" /\ UNCHANGED idx
     \/ /\ table[idx].key \notin {0, cycles}
        /\ idx' = (idx + 1) % Slots /\ UNCHANGED <<pc, table>>
  /\ UNCHANGED <<baud, acc, max_cycles, total, cycles, pushed>>

\* get_count finds its key or a free entry: push asks for what it inserted.
GetCount(key) ==
  LET entry(k) == table[(Hash[key] + k) % Slots]
      stops == {k \in 0..(Slots - 1) : entry(k).key \in {0, key}}
      found == entry(Min(stops))
  IN  IF stops = {} \/ found.key = 0 THEN 0 ELSE found.count

BaudChanged(new) ==
  \/ new.num \div new.den > (baud.num * 1005) \div (baud.den * 1000)
  \/ new.num \div new.den < (baud.num * 995) \div (baud.den * 1000)

\* completeness * consistency > 0.6, with 2 * noise_ratio capped at 1.
Confident(n, count, outliers) ==
  Completeness[n] * (IF 2 * outliers > count THEN 0 ELSE count - 2 * outliers) > 600 * count

\* Mutant: the sum of the periods longer than the new minimum is kept.
NewMinimumKeepsSum ==
  /\ min_cycles' = cycles /\ bit_time_count' = 0 /\ outlier_count' = 0
  /\ UNCHANGED <<baud, bit_time_sum>>

\* The shortest width frequent enough to be signal starts the one-bit periods anew.
NewMinimum ==
  /\ min_cycles' = cycles /\ bit_time_sum' = 0 /\ bit_time_count' = 0 /\ outlier_count' = 0
  /\ UNCHANGED baud

NearMinimum == 10 * (cycles - min_cycles) < min_cycles

OneBit(n, longest) ==
  /\ bit_time_sum' = (bit_time_sum + cycles) % (WordMax + 1)
  /\ bit_time_count' = bit_time_count + 1
  /\ outlier_count' = outlier_count + (IF cycles < longest \div 9 THEN 1 ELSE 0)
  /\ LET new == Rate(Clock * bit_time_count', bit_time_sum')
     IN  baud' = IF BaudChanged(new) /\ Confident(n, bit_time_count', outlier_count') THEN new ELSE baud
  /\ UNCHANGED min_cycles

\* The rest of push, once the sample is in the table.
Judge ==
  /\ pc = "judge" /\ pc' = "idle"
  /\ total' = total + 1
  /\ max_cycles' = IF cycles > max_cycles THEN cycles ELSE max_cycles
  /\ LET signal == GetCount(cycles) * FreqDen >= total'
     IN  \/ ~signal /\ UNCHANGED <<acc, baud>>
         \/ signal /\ cycles < min_cycles /\ NewMinimum
         \/ signal /\ cycles >= min_cycles /\ NearMinimum /\ OneBit(total', max_cycles')
         \/ signal /\ cycles >= min_cycles /\ ~NearMinimum /\ UNCHANGED <<acc, baud>>
  /\ UNCHANGED <<table, cycles, idx, pushed>>

Next == Reset \/ (\E raw \in Raws : Push(raw)) \/ Probe \/ Judge

\* push runs to its end: it is one function call.
Spec == Init /\ [][Next]_vars /\ WF_vars(Probe \/ Judge)
-----------------------------------------------------------------------------
\* Whatever the hash does, and whether or not widths of zero were pushed, the
\* table is the bag of the widths: collisions never lose, merge or split one.
CountsExact ==
  pc = "idle" => \A c \in Widths : GetCount(c) = IF c = 0 THEN 0 ELSE pushed[c]

\* The one-bit periods are within a tenth of the shortest signal, so is their
\* average, and no rate is published faster than one bit per shortest signal.
PeriodsInWindow ==
  LET base == min_cycles * bit_time_count
  IN  /\ base <= bit_time_sum /\ 10 * (bit_time_sum - base) <= base
      /\ outlier_count <= bit_time_count
      /\ baud.num * min_cycles <= Clock * baud.den

\* Every push returns.
PushReturns == pc # "idle" ~> pc = "idle"
=============================================================================
