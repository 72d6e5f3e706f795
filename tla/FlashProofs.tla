---------------------------- MODULE FlashProofs ----------------------------
(***************************************************************************)
(* Proofs about Flash, for all files, flashes, sectors and chunks.  First  *)
(* what the operators make of a file: a plan that erases, writes and reads *)
(* what the file has for the chip, in this order, and no more.  Then what  *)
(* the flash holds while such a plan is carried out.                       *)
(***************************************************************************)
EXTENDS Flash, SequenceLemmas, FiniteSetTheorems

\* The block (or command) b has the value v for the page a.
Has(b, a, v) == a \in Cells(b) /\ v = b.data[a - b.addr + 1]

\* A command of a plan.
Planned == [op : {"exclusive", "exitXip", "erase", "write", "enterCmdXip", "read", "reboot"},
            addr : Nat, data : Seq(Nat)]

\* The phases of a flash.
Rank(op) ==
  IF op = "exclusive" THEN 1 ELSE IF op = "exitXip" THEN 2 ELSE IF op = "erase" THEN 3
  ELSE IF op = "write" THEN 4 ELSE IF op = "enterCmdXip" THEN 5 ELSE IF op = "read" THEN 6
  ELSE 7

InOrder(p) == \A i, j \in 1..Len(p) : i < j => Rank(p[i].op) <= Rank(p[j].op)

\* The commands op of p are about the pages of the blocks, with their values.
Only(p, op, blocks) ==
  \A j \in 1..Len(p) : p[j].op = op =>
    /\ p[j].data # <<>>
    /\ \A a, v : Has(p[j], a, v) => \E k \in DOMAIN blocks : Has(blocks[k], a, v)

\* They are about all of them.
All(p, op, blocks) ==
  \A k \in DOMAIN blocks : \A a, v : Has(blocks[k], a, v) => \E j \in 1..Len(p) : p[j].op = op /\ Has(p[j], a, v)

\* The pages a command to erase is about.
Sector(c) == c.addr..(c.addr + SECTOR - 1)

\* Every sector with a page of the blocks is erased, and only sectors that they
\* lie or begin in.
Erases(p, blocks) ==
  /\ \A j \in 1..Len(p) : p[j].op = "erase" =>
       /\ p[j].addr % SECTOR = 0
       /\ \E k \in DOMAIN blocks : \E c \in Span(blocks[k]) : c \in Sector(p[j])
  /\ \A k \in DOMAIN blocks : \A a \in Cells(blocks[k]) :
       \E j \in 1..Len(p) : p[j].op = "erase" /\ a \in Sector(p[j])

\* The plan erases, writes and reads what the blocks have, in this order.
WellPlanned(p, blocks) ==
  /\ p \in Seq(Planned) /\ InOrder(p) /\ Erases(p, blocks)
  /\ Only(p, "write", blocks) /\ All(p, "write", blocks)
  /\ Only(p, "read", blocks) /\ All(p, "read", blocks)
  /\ \A j \in 1..Len(p) : p[j].op \in {"exclusive", "exitXip", "enterCmdXip", "reboot"} => p[j].addr = 0
  /\ \E j \in 1..Len(p) : p[j].op = "exitXip"
  /\ \E j \in 1..Len(p) : p[j].op = "enterCmdXip"
  /\ Len(p) > 0 /\ \A j \in 1..Len(p) : p[j].op = "reboot" <=> j = Len(p)

-----------------------------------------------------------------------------
(* What the operators make of a file.                                       *)

\* The constants, as numbers.
LEMMA Numbers == Size \in Nat /\ Size > 0 /\ SECTOR \in Nat /\ SECTOR > 0 /\ Size % SECTOR = 0
                 /\ WRITE_CHUNK \in Nat /\ WRITE_CHUNK > 0 /\ NoFile \in Files
BY FlashAssumption

\* Sets U[a] of the elements of S up to a: their sizes count S.
LEMMA Ranked ==
  ASSUME NEW S, IsFiniteSet(S), NEW U \in [S -> SUBSET S], \A a \in S : a \in U[a],
         \A a, b \in S : a # b => (U[a] \subseteq U[b] /\ b \notin U[a]) \/ (U[b] \subseteq U[a] /\ a \notin U[b])
  PROVE  /\ Cardinality(S) \in Nat
         /\ \A a, b \in S : a # b /\ a \in U[b] => Cardinality(U[a]) < Cardinality(U[b])
         /\ \A k \in 1..Cardinality(S) : \E a \in S : Cardinality(U[a]) = k
         /\ \A a \in S : Cardinality(U[a]) \in 1..Cardinality(S)
         /\ \A a, b \in S : Cardinality(U[a]) = Cardinality(U[b]) => a = b
<1>1. Cardinality(S) \in Nat
  BY FS_CardinalityType
<1>2. ASSUME NEW a \in S PROVE IsFiniteSet(U[a]) /\ Cardinality(U[a]) \in 1..Cardinality(S)
  <2>1. U[a] \in SUBSET S
    OBVIOUS
  <2>2. IsFiniteSet(U[a]) /\ Cardinality(U[a]) <= Cardinality(S)
    BY <2>1, FS_Subset
  <2>3. Cardinality(U[a]) \in Nat /\ Cardinality(U[a]) # 0
    BY <2>2, FS_CardinalityType, FS_EmptySet
  <2> QED BY <1>1, <2>2, <2>3
<1>3. ASSUME NEW a \in S, NEW b \in S, a # b, a \in U[b] PROVE Cardinality(U[a]) < Cardinality(U[b])
  <2>1. U[a] \subseteq U[b] /\ b \notin U[a] /\ b \in U[b]
    BY <1>3
  <2>2. U[a] \in SUBSET U[b] /\ U[a] # U[b]
    BY <2>1
  <2>3. Cardinality(U[a]) <= Cardinality(U[b]) /\ Cardinality(U[a]) # Cardinality(U[b])
    BY <1>2, <2>2, FS_Subset
  <2> QED BY <1>1, <1>2, <2>3
<1>4. ASSUME NEW a \in S, NEW b \in S, Cardinality(U[a]) = Cardinality(U[b]) PROVE a = b
  <2>1. a # b => a \in U[b] \/ b \in U[a]
    OBVIOUS
  <2>2. Cardinality(U[a]) \in Nat
    BY <1>1, <1>2
  <2> QED BY <1>3, <1>4, <2>1, <2>2
<1>5. ASSUME NEW k \in 1..Cardinality(S) PROVE \E a \in S : Cardinality(U[a]) = k
  <2> DEFINE r == [a \in S |-> Cardinality(U[a])]
  <2>1. r \in Injection(S, 1..Cardinality(S))
    BY <1>2, <1>4 DEF Injection, IsInjective
  <2>2. IsFiniteSet(1..Cardinality(S)) /\ Cardinality(1..Cardinality(S)) = Cardinality(S)
    BY <1>1, FS_Interval
  <2>3. r \in Surjection(S, 1..Cardinality(S))
    BY <2>1, <2>2, FS_Injection
  <2> QED BY <2>3 DEF Surjection
<1> QED BY <1>1, <1>2, <1>3, <1>4, <1>5

\* Ascending lists a set, all of it and nothing else.
LEMMA AscendingOf ==
  ASSUME NEW S \in SUBSET Nat, IsFiniteSet(S)
  PROVE  /\ Cardinality(S) \in Nat
         /\ Ascending(S) \in [1..Cardinality(S) -> S]
         /\ \A a \in S : \E k \in 1..Cardinality(S) : Ascending(S)[k] = a
<1>0. PICK U : U = [a \in S |-> {b \in S : b <= a}]
  OBVIOUS
<1>1. U \in [S -> SUBSET S] /\ \A a \in S : a \in U[a]
  BY <1>0
<1>2. ASSUME NEW a \in S, NEW b \in S, a # b
      PROVE  (U[a] \subseteq U[b] /\ b \notin U[a]) \/ (U[b] \subseteq U[a] /\ a \notin U[b])
  <2>1. a \in Nat /\ b \in Nat /\ S \subseteq Nat /\ U[a] = {c \in S : c <= a} /\ U[b] = {c \in S : c <= b}
    BY <1>0
  <2>2. CASE a < b
    <3>1. \A c \in Nat : c <= a => c <= b
      BY <2>1, <2>2
    <3>2. ~(b <= a)
      BY <2>1, <2>2
    <3>3. U[a] \subseteq U[b] /\ b \notin U[a]
      BY <2>1, <3>1, <3>2, Zenon
    <3> QED BY <3>3
  <2>3. CASE b < a
    <3>1. \A c \in Nat : c <= b => c <= a
      BY <2>1, <2>3
    <3>2. ~(a <= b)
      BY <2>1, <2>3
    <3>3. U[b] \subseteq U[a] /\ a \notin U[b]
      BY <2>1, <3>1, <3>2, Zenon
    <3> QED BY <3>3
  <2> QED BY <1>2, <2>1, <2>2, <2>3
<1>3. /\ Cardinality(S) \in Nat
      /\ \A k \in 1..Cardinality(S) : \E a \in S : Cardinality(U[a]) = k
      /\ \A a \in S : Cardinality(U[a]) \in 1..Cardinality(S)
      /\ \A a, b \in S : Cardinality(U[a]) = Cardinality(U[b]) => a = b
  <2>1. \A a, b \in S : a # b => (U[a] \subseteq U[b] /\ b \notin U[a]) \/ (U[b] \subseteq U[a] /\ a \notin U[b])
    BY <1>2
  <2> QED BY <1>1, <2>1, Ranked, ZenonT(60)
<1>4. \A a \in S : U[a] = {b \in S : b <= a}
  BY <1>0
<1>5. ASSUME NEW k \in 1..Cardinality(S)
      PROVE  Ascending(S)[k] \in S /\ Cardinality(U[Ascending(S)[k]]) = k
  <2>1. Ascending(S)[k] = CHOOSE a \in S : Cardinality({b \in S : b <= a}) = k
    BY DEF Ascending
  <2>2. \E a \in S : Cardinality({b \in S : b <= a}) = k
    BY <1>3, <1>4
  <2>3. Ascending(S)[k] \in S /\ Cardinality({b \in S : b <= Ascending(S)[k]}) = k
    BY <2>1, <2>2
  <2> QED BY <1>4, <2>3
<1>6. ASSUME NEW a \in S PROVE \E k \in 1..Cardinality(S) : Ascending(S)[k] = a
  BY <1>3, <1>5
<1> QED BY <1>3, <1>5, <1>6 DEF Ascending

\* A choice of a sequence's elements is a sequence of the same.
LEMMA AtOf ==
  ASSUME NEW T, NEW s \in Seq(T), NEW P \in SUBSET DOMAIN s
  PROVE  At(s, P) \in Seq(T)
<1>1. DOMAIN s = 1..Len(s) /\ Len(s) \in Nat
  OBVIOUS
<1>2. IsFiniteSet(1..Len(s))
  BY <1>1, FS_Interval
<1>3. IsFiniteSet(P) /\ P \in SUBSET Nat
  BY <1>1, <1>2, FS_Subset
<1>4. Cardinality(P) \in Nat /\ Ascending(P) \in [1..Cardinality(P) -> P]
  BY <1>3, AscendingOf
<1>5. \A k \in 1..Cardinality(P) : s[Ascending(P)[k]] \in T
  BY <1>1, <1>4
<1> QED BY <1>4, <1>5 DEF At

\* What there is for the chip are blocks of the file.
LEMMA BlocksOf == \A f \in Files : Blocks[f] \in Seq(Block)
<1> SUFFICES ASSUME NEW f \in Files PROVE Blocks[f] \in Seq(Block)
  OBVIOUS
<1>1. f.blocks \in Seq(Block)
  BY FlashAssumption
<1>2. PICK s, P : s = f.blocks /\ P = {k \in DOMAIN f.blocks : f.blocks[k].main}
  OBVIOUS
<1>3. ParseUf2(f) = At(s, P) /\ P \in SUBSET DOMAIN s /\ s \in Seq(Block)
  BY <1>1, <1>2 DEF ParseUf2
<1>4. PICK t : t = ParseUf2(f) /\ t \in Seq(Block)
  BY <1>3, AtOf
<1>5. PICK Q : Q = {k \in DOMAIN t : t[k].family \in {"chip", "none"}}
  OBVIOUS
<1>6. FilterFamily(t) = At(t, Q) /\ Q \in SUBSET DOMAIN t
  BY <1>5 DEF FilterFamily
<1>7. At(t, Q) \in Seq(Block)
  BY <1>4, <1>6, AtOf
<1> QED BY <1>4, <1>6, <1>7 DEF Blocks

\* The fields of a block.
LEMMA BlockOf ==
  ASSUME NEW s \in Seq(Block), NEW m \in 1..Len(s)
  PROVE  s[m] \in Block /\ s[m].addr \in Nat /\ s[m].data \in Seq(Nat) /\ Len(s[m].data) \in Nat
<1>1. s[m] \in Block
  OBVIOUS
<1>2. s[m].addr \in Nat /\ s[m].data \in Seq(Nat)
  BY <1>1 DEF Block
<1> QED BY <1>1, <1>2

\* Sorting loses no block and makes none up.
LEMMA SortedOf ==
  ASSUME NEW blocks \in Seq(Block)
  PROVE  /\ Sorted(blocks) \in Seq(Block)
         /\ \A k \in DOMAIN Sorted(blocks) : \E i \in DOMAIN blocks : Sorted(blocks)[k] = blocks[i]
         /\ \A i \in DOMAIN blocks : \E k \in DOMAIN Sorted(blocks) : Sorted(blocks)[k] = blocks[i]
<1>1. PICK n, S : n = Len(blocks) /\ n \in Nat /\ S = DOMAIN blocks /\ S = 1..n
  OBVIOUS
<1>2. IsFiniteSet(S) /\ Cardinality(S) = n
  <2>0. n \in Nat
    BY <1>1
  <2>1. IsFiniteSet(1..n) /\ Cardinality(1..n) = n
    BY <2>0, FS_Interval
  <2> QED BY <1>1, <2>1
<1>3. PICK x : x = [i \in S |-> blocks[i].addr]
  OBVIOUS
<1>4. \A i \in S : x[i] = blocks[i].addr /\ x[i] \in Nat /\ i \in Nat /\ blocks[i] \in Block
  BY <1>1, <1>3, BlockOf
<1>5. PICK U : U = [i \in S |-> {j \in S : x[j] < x[i] \/ (x[j] = x[i] /\ j <= i)}]
  OBVIOUS
<1>6. U \in [S -> SUBSET S] /\ \A i \in S : i \in U[i]
  BY <1>4, <1>5
<1>7. ASSUME NEW a \in S, NEW b \in S, a # b, x[a] < x[b] \/ (x[a] = x[b] /\ a <= b)
      PROVE  U[a] \subseteq U[b] /\ b \notin U[a]
  <2>1. b \notin U[a]
    BY <1>4, <1>5, <1>7
  <2>2. ASSUME NEW c \in S, x[c] < x[a] \/ (x[c] = x[a] /\ c <= a) PROVE x[c] < x[b] \/ (x[c] = x[b] /\ c <= b)
    BY <1>4, <1>7, <2>2
  <2> QED BY <1>5, <2>1, <2>2
<1>8. \A a, b \in S : a # b => (U[a] \subseteq U[b] /\ b \notin U[a]) \/ (U[b] \subseteq U[a] /\ a \notin U[b])
  <2> SUFFICES ASSUME NEW a \in S, NEW b \in S, a # b
               PROVE  (U[a] \subseteq U[b] /\ b \notin U[a]) \/ (U[b] \subseteq U[a] /\ a \notin U[b])
    OBVIOUS
  <2>1. (x[a] < x[b] \/ (x[a] = x[b] /\ a <= b)) \/ (x[b] < x[a] \/ (x[b] = x[a] /\ b <= a))
    BY <1>4
  <2> QED BY <1>7, <2>1
<1>9. /\ Cardinality(S) \in Nat
      /\ \A a, b \in S : a # b /\ a \in U[b] => Cardinality(U[a]) < Cardinality(U[b])
      /\ \A k \in 1..Cardinality(S) : \E a \in S : Cardinality(U[a]) = k
      /\ \A a \in S : Cardinality(U[a]) \in 1..Cardinality(S)
      /\ \A a, b \in S : Cardinality(U[a]) = Cardinality(U[b]) => a = b
  BY <1>2, <1>6, <1>8, Ranked, ZenonT(60)
<1>10. PICK P : P = [k \in 1..n |-> CHOOSE i \in S : Cardinality(U[i]) = k]
  OBVIOUS
<1>11. \A k \in 1..n : P[k] \in S /\ Cardinality(U[P[k]]) = k
  BY <1>2, <1>9, <1>10
<1>12. Sorted(blocks) = [k \in 1..n |-> blocks[P[k]]]
  <2> DEFINE upTo(i) == {j \in DOMAIN blocks : blocks[j].addr < blocks[i].addr
                                               \/ (blocks[j].addr = blocks[i].addr /\ j <= i)}
  <2>1. \A i \in S : upTo(i) = U[i]
    BY <1>1, <1>3, <1>5
  <2>2. ASSUME NEW k \in 1..n
        PROVE  (CHOOSE i \in DOMAIN blocks : Cardinality(upTo(i)) = k) = P[k]
    <3>1. \A i \in S : (Cardinality(upTo(i)) = k) <=> (Cardinality(U[i]) = k)
      BY <2>1
    <3> HIDE DEF upTo
    <3>2. (CHOOSE i \in S : Cardinality(upTo(i)) = k) = (CHOOSE i \in S : Cardinality(U[i]) = k)
      BY <3>1
    <3> QED BY <1>1, <1>10, <3>2
  <2>3. Sorted(blocks) = [k \in 1..n |-> blocks[CHOOSE i \in DOMAIN blocks : Cardinality(upTo(i)) = k]]
    BY <1>1 DEF Sorted
  <2> HIDE DEF upTo
  <2> QED BY <2>2, <2>3
<1>13. Sorted(blocks) \in Seq(Block) /\ DOMAIN Sorted(blocks) = 1..n
  BY <1>1, <1>4, <1>11, <1>12
<1>14. ASSUME NEW i \in S PROVE \E k \in 1..n : P[k] = i
  BY <1>2, <1>9, <1>11
<1>15. \A k \in 1..n : Sorted(blocks)[k] = blocks[P[k]]
  BY <1>12
<1>16. \A k \in 1..n : \E i \in S : Sorted(blocks)[k] = blocks[i]
  BY <1>11, <1>15
<1>17. \A i \in S : \E k \in 1..n : Sorted(blocks)[k] = blocks[i]
  BY <1>14, <1>15
<1> QED BY <1>1, <1>13, <1>16, <1>17

\* A page and its position in a range that begins at o.
LEMMA Offset ==
  ASSUME NEW o \in Nat, NEW q \in Nat
  PROVE  /\ \A a \in o..(o + q - 1) : a - o + 1 \in 1..q /\ a = o + (a - o + 1) - 1
         /\ \A l \in 1..q : o + l - 1 \in o..(o + q - 1) /\ (o + l - 1) - o + 1 = l
OBVIOUS

\* The least element of a set of numbers.
LEMMA LeastOf ==
  ASSUME NEW S, S \subseteq Nat, S # {} PROVE Min(S) \in S /\ \A y \in S : Min(S) <= y
<1>1. \E x \in S : \A y \in S : x <= y
  BY Smallest
<1> QED BY <1>1 DEF Min

\* A range.
Part == [addr : Nat, data : Seq(Nat)]

\* The blocks from k to where the next range begins follow each other.
LEMMA RangeOf ==
  ASSUME NEW s \in Seq(Block), NEW k \in First(s)
  PROVE  /\ RangeFrom(s, k) \in Part /\ RangeFrom(s, k).addr = s[k].addr
         /\ \A a, v : Has(RangeFrom(s, k), a, v) => \E m \in DOMAIN s : Has(s[m], a, v)
         /\ \A m \in DOMAIN s : \A a, v :
              Has(s[m], a, v) /\ k <= m /\ (\A j \in First(s) : j > k => j > m) => Has(RangeFrom(s, k), a, v)
<1>0. Len(s) \in Nat /\ DOMAIN s = 1..Len(s) /\ First(s) \subseteq 1..Len(s) /\ k \in 1..Len(s)
  BY DEF First
<1>18. \A m \in 1..Len(s) : s[m].addr \in Nat /\ s[m].data \in Seq(Nat) /\ Len(s[m].data) \in Nat
  BY BlockOf
<1>1. PICK N : N = {j \in First(s) : j > k} \cup {Len(s) + 1}
  OBVIOUS
<1>2. PICK past : past = Min(N)
  OBVIOUS
<1>3. past \in N /\ \A j \in N : past <= j
  BY <1>0, <1>1, <1>2, LeastOf
<1>4. PICK n : n = past - k
  OBVIOUS
<1>5. n \in Nat /\ n >= 1 /\ k + n = past /\ past \in 1..(Len(s) + 1)
  BY <1>0, <1>1, <1>3, <1>4
<1>6. \A i \in 1..n : k + i - 1 \in 1..Len(s) /\ s[k + i - 1] \in Block
  <2>1. \A i \in 1..n : k + i - 1 \in 1..Len(s)
    BY <1>0, <1>5
  <2> QED BY <1>0, <2>1
<1>7. PICK ss : ss = [j \in 1..n |-> s[k + j - 1].data]
  OBVIOUS
<1>8. ss \in Seq(Seq(Nat)) /\ Len(ss) = n
  <2>1. \A j \in 1..n : s[k + j - 1].data \in Seq(Nat)
    BY <1>6 DEF Block
  <2> QED BY <1>5, <1>7, <2>1
<1>9. PICK F : F = FlattenSeq(ss)
  OBVIOUS
<1>10. RangeFrom(s, k) = [addr |-> s[k].addr, data |-> F]
  BY <1>1, <1>2, <1>4, <1>7, <1>9 DEF RangeFrom
<1>11. F \in Seq(Nat)
  BY <1>8, <1>9, FlatAt
<1>12. PICK off \in [1..n -> Nat] :
         /\ off[1] = 0
         /\ \A i \in 1..(n - 1) : off[i + 1] = off[i] + Len(ss[i])
         /\ \A i \in 1..n : \A l \in 1..Len(ss[i]) : off[i] + l \in 1..Len(F) /\ F[off[i] + l] = ss[i][l]
         /\ \A j \in 1..Len(F) : \E i \in 1..n : \E l \in 1..Len(ss[i]) : j = off[i] + l
  <2>1. PICK off : Offsets(ss, off)
    BY <1>8, FlatAt
  <2>2. off[1] = 0 /\ off \in [1..n -> Nat]
    BY <1>5, <1>8, <2>1 DEF Offsets
  <2>3. \A i \in 1..(n - 1) : off[i + 1] = off[i] + Len(ss[i])
    BY <1>8, <2>1 DEF Offsets
  <2>4. \A i \in 1..n : \A l \in 1..Len(ss[i]) : off[i] + l \in 1..Len(F) /\ F[off[i] + l] = ss[i][l]
    BY <1>8, <1>9, <2>1, Zenon DEF Offsets
  <2>5. \A j \in 1..Len(F) : \E i \in 1..n : \E l \in 1..Len(ss[i]) : j = off[i] + l
    BY <1>8, <1>9, <2>1, Zenon DEF Offsets
  <2> QED BY <2>2, <2>3, <2>4, <2>5, Zenon
<1>13. \A i \in 1..n : s[k + i - 1].addr = s[k].addr + off[i]
  <2>1. PICK A : A = {i \in Nat : s[k + i - 1].addr = s[k].addr + off[i]}
    OBVIOUS
  <2>2. 1 \in A
    <3>1. k + 1 - 1 = k /\ s[k].addr \in Nat /\ s[k].addr + 0 = s[k].addr
      BY <1>0, <1>18
    <3> QED BY <1>12, <2>1, <3>1
  <2>3. ASSUME NEW i \in 1..n, i < n, i \in A PROVE i + 1 \in A
    <3>1. i \in 1..(n - 1) /\ i + 1 \in Nat /\ k + (i + 1) - 1 = k + i /\ k + i \in 1..Len(s) /\ k + i # 1 /\ k + i > k
      BY <1>0, <1>5, <2>3
    <3>2. ~(past <= k + i)
      BY <1>0, <1>5, <2>3
    <3>3. k + i \notin First(s)
      BY <1>1, <1>3, <3>1, <3>2
    <3>4. s[k + i - 1].addr + Len(s[k + i - 1].data) = s[k + i].addr
      BY <1>0, <3>1, <3>3 DEF First
    <3>5. ss[i] = s[k + i - 1].data
      BY <1>7
    <3>6. s[k + i - 1].addr = s[k].addr + off[i]
      BY <2>1, <2>3
    <3>7. off[i + 1] = off[i] + Len(ss[i]) /\ off[i] \in Nat /\ Len(ss[i]) \in Nat
      <4>1. off[i + 1] = off[i] + Len(ss[i])
        BY <1>12, <3>1
      <4>2. off[i] \in Nat
        BY <1>12, <2>3
      <4>3. Len(ss[i]) \in Nat
        BY <1>6, <1>18, <2>3, <3>5
      <4> QED BY <4>1, <4>2, <4>3
    <3>8. s[k].addr \in Nat
      BY <1>0, <1>18
    <3>9. s[k + (i + 1) - 1].addr = s[k].addr + off[i + 1]
      <4>1. PICK x, y, z : x = s[k].addr /\ y = off[i] /\ z = Len(ss[i]) /\ x \in Nat /\ y \in Nat /\ z \in Nat
        BY <3>7, <3>8
      <4>2. s[k + i].addr = (x + y) + z /\ off[i + 1] = y + z
        BY <3>4, <3>5, <3>6, <3>7, <4>1
      <4> QED BY <3>1, <4>1, <4>2
    <3> QED BY <2>1, <3>1, <3>9
  <2>4. \A i \in 1..n : i \in A
    BY <1>5, <2>2, <2>3, UpTo
  <2> QED BY <2>1, <2>4
<1>14. RangeFrom(s, k) \in Part
  <2>1. s[k].addr \in Nat
    BY <1>0, <1>18
  <2> QED BY <1>10, <1>11, <2>1 DEF Part
<1>15. PICK r, o : r = RangeFrom(s, k) /\ o = s[k].addr /\ r.addr = o /\ r.data = F /\ o \in Nat /\ Len(F) \in Nat
  BY <1>0, <1>18, <1>10, <1>11
<1>19. \A i \in 1..n : off[i] \in Nat /\ ss[i] = s[k + i - 1].data /\ Len(ss[i]) \in Nat
  BY <1>6, <1>7, <1>18, <1>12
<1>16. ASSUME NEW a, NEW v, Has(r, a, v) PROVE \E m \in DOMAIN s : Has(s[m], a, v)
  <2>1. a \in o..(o + Len(F) - 1) /\ v = F[a - o + 1]
    BY <1>15, <1>16 DEF Has, Cells
  <2>2. PICK j : j = a - o + 1
    OBVIOUS
  <2>3. j \in 1..Len(F) /\ a = o + j - 1
    <3>1. o \in Nat /\ Len(F) \in Nat
      BY <1>15
    <3> QED BY <2>1, <2>2, <3>1, Offset
  <2>4. PICK i \in 1..n : \E l \in 1..Len(ss[i]) : j = off[i] + l
    BY <1>12, <2>3
  <2>5. PICK l \in 1..Len(ss[i]) : j = off[i] + l
    BY <2>4
  <2>6. v = ss[i][l]
    BY <1>12, <2>1, <2>2, <2>5
  <2>7. PICK p, q : p = off[i] /\ q = Len(ss[i]) /\ p \in Nat /\ q \in Nat
    BY <1>19
  <2>8. PICK m : m = k + i - 1
    OBVIOUS
  <2>9. m \in DOMAIN s /\ s[m].addr = o + p /\ s[m].data = ss[i]
    BY <1>0, <1>6, <1>13, <1>15, <1>19, <2>7, <2>8
  <2>10. a = (o + p) + l - 1 /\ l \in 1..q /\ o + p \in Nat /\ o \in Nat
    <3>1. o \in Nat /\ l \in 1..q /\ a = o + (p + l) - 1
      BY <1>15, <2>3, <2>5, <2>7
    <3> QED BY <2>7, <3>1
  <2>11. a \in (o + p)..((o + p) + q - 1) /\ a - (o + p) + 1 = l
    <3>1. PICK t : t = o + p
      OBVIOUS
    <3>2. t \in Nat /\ q \in Nat /\ l \in 1..q /\ a = t + l - 1
      BY <2>7, <2>10, <3>1
    <3>3. a \in t..(t + q - 1) /\ a - t + 1 = l
      BY <3>2, Offset
    <3> QED BY <3>1, <3>3
  <2> QED BY <2>6, <2>7, <2>9, <2>11 DEF Has, Cells
<1>17. ASSUME NEW m \in DOMAIN s, NEW a, NEW v, Has(s[m], a, v), k <= m, \A j \in First(s) : j > k => j > m
       PROVE  Has(r, a, v)
  <2>1. m < past
    BY <1>0, <1>1, <1>3, <1>17
  <2>2. PICK i : i = m - k + 1
    OBVIOUS
  <2>3. i \in 1..n /\ m = k + i - 1
    BY <1>0, <1>5, <1>17, <2>1, <2>2
  <2>4. PICK p, q : p = off[i] /\ q = Len(ss[i]) /\ p \in Nat /\ q \in Nat
    BY <1>19, <2>3
  <2>5. s[m].addr = o + p /\ s[m].data = ss[i]
    BY <1>13, <1>15, <1>19, <2>3, <2>4
  <2>6. a \in (o + p)..((o + p) + q - 1) /\ v = ss[i][a - (o + p) + 1]
    BY <1>17, <2>4, <2>5 DEF Has, Cells
  <2>7. PICK l : l = a - (o + p) + 1
    OBVIOUS
  <2>8. l \in 1..q /\ a = (o + p) + l - 1 /\ o + p \in Nat /\ o \in Nat
    <3>1. PICK t : t = o + p
      OBVIOUS
    <3>2. o \in Nat /\ t \in Nat
      BY <1>15, <2>4, <3>1
    <3>3. a \in t..(t + q - 1) /\ l = a - t + 1 /\ q \in Nat
      BY <2>4, <2>6, <2>7, <3>1
    <3>4. l \in 1..q /\ a = t + l - 1
      BY <3>2, <3>3, Offset
    <3> QED BY <3>1, <3>2, <3>4
  <2>9. p + l \in 1..Len(F) /\ F[p + l] = v
    BY <1>12, <2>3, <2>4, <2>6, <2>7, <2>8
  <2>10. a - o + 1 = p + l /\ a \in o..(o + Len(F) - 1)
    <3>1. PICK e : e = p + l
      OBVIOUS
    <3>2. e \in 1..Len(F) /\ Len(F) \in Nat
      BY <1>15, <2>9, <3>1
    <3>4. o \in Nat /\ p \in Nat /\ l \in Nat /\ a = (o + p) + l - 1
      BY <2>4, <2>8
    <3>3. a = o + e - 1
      BY <3>1, <3>4
    <3>5. e = a - o + 1
      BY <3>2, <3>3, <3>4
    <3>6. a \in o..(o + Len(F) - 1)
      BY <3>2, <3>3, <3>4, Offset
    <3> QED BY <3>1, <3>5, <3>6
  <2> QED BY <1>15, <2>9, <2>10 DEF Has, Cells
<1> QED BY <1>14, <1>15, <1>16, <1>17

\* The ranges hold what the blocks hold.
LEMMA CoalesceOf ==
  ASSUME NEW blocks \in Seq(Block)
  PROVE  /\ Coalesce(blocks) \in Seq(Part)
         /\ \A r \in DOMAIN Coalesce(blocks) : \E k \in DOMAIN blocks : Coalesce(blocks)[r].addr = blocks[k].addr
         /\ \A r \in DOMAIN Coalesce(blocks) : \A a, v :
              Has(Coalesce(blocks)[r], a, v) => \E k \in DOMAIN blocks : Has(blocks[k], a, v)
         /\ \A k \in DOMAIN blocks : \A a, v :
              Has(blocks[k], a, v) => \E r \in DOMAIN Coalesce(blocks) : Has(Coalesce(blocks)[r], a, v)
<1>1. PICK s : s = Sorted(blocks)
  OBVIOUS
<1>2. /\ s \in Seq(Block) /\ Len(s) \in Nat /\ DOMAIN s = 1..Len(s)
      /\ \A k \in DOMAIN s : \E i \in DOMAIN blocks : s[k] = blocks[i]
      /\ \A i \in DOMAIN blocks : \E k \in DOMAIN s : s[k] = blocks[i]
  BY <1>1, SortedOf
<1>3. PICK S : S = First(s)
  OBVIOUS
<1>4. S \in SUBSET Nat /\ IsFiniteSet(S) /\ S \subseteq 1..Len(s)
  <2>1. S \subseteq 1..Len(s)
    BY <1>2, <1>3 DEF First
  <2>2. IsFiniteSet(1..Len(s))
    BY <1>2, FS_Interval
  <2>3. S \in SUBSET (1..Len(s)) /\ S \in SUBSET Nat
    BY <1>2, <2>1
  <2>4. IsFiniteSet(S)
    BY <2>2, <2>3, FS_Subset
  <2> QED BY <2>1, <2>3, <2>4
<1>5. PICK n, A : n = Cardinality(S) /\ A = Ascending(S)
  OBVIOUS
<1>6. n \in Nat /\ A \in [1..n -> S] /\ \A a \in S : \E k \in 1..n : A[k] = a
  BY <1>4, <1>5, AscendingOf
<1>7. Coalesce(blocks) = [k \in 1..n |-> RangeFrom(s, A[k])]
  BY <1>1, <1>3, <1>5 DEF Coalesce
<1>8. \A k \in S : /\ RangeFrom(s, k) \in Part /\ RangeFrom(s, k).addr = s[k].addr
                   /\ \A a, v : Has(RangeFrom(s, k), a, v) => \E m \in DOMAIN s : Has(s[m], a, v)
                   /\ \A m \in DOMAIN s : \A a, v :
                        Has(s[m], a, v) /\ k <= m /\ (\A j \in First(s) : j > k => j > m) => Has(RangeFrom(s, k), a, v)
  BY <1>2, <1>3, RangeOf
<1>9. Coalesce(blocks) \in Seq(Part) /\ DOMAIN Coalesce(blocks) = 1..n
  BY <1>6, <1>7, <1>8
<1>10. ASSUME NEW r \in 1..n, NEW a, NEW v, Has(Coalesce(blocks)[r], a, v)
       PROVE  \E k \in DOMAIN blocks : Has(blocks[k], a, v)
  <2>1. Has(RangeFrom(s, A[r]), a, v) /\ A[r] \in S
    BY <1>6, <1>7, <1>10
  <2>2. PICK m \in DOMAIN s : Has(s[m], a, v)
    BY <1>8, <2>1
  <2> QED BY <1>2, <2>2
<1>11. ASSUME NEW i \in DOMAIN blocks, NEW a, NEW v, Has(blocks[i], a, v)
       PROVE  \E r \in 1..n : Has(Coalesce(blocks)[r], a, v)
  <2>1. PICK m \in 1..Len(s) : Has(s[m], a, v)
    BY <1>2, <1>11
  <2>2. PICK D : D = {d \in Nat : \E k \in S : k + d = m}
    OBVIOUS
  <2>3. D \subseteq Nat /\ D # {}
    <3>1. 1 \in S /\ m - 1 \in Nat /\ 1 + (m - 1) = m
      BY <1>2, <1>3, <2>1 DEF First
    <3> QED BY <2>2, <3>1
  <2>4. PICK d \in D : \A e \in D : d <= e
    BY <2>3, Smallest
  <2>5. PICK k \in S : k + d = m /\ d \in Nat
    BY <2>2, <2>4
  <2>6. k \in Nat /\ m \in Nat /\ k <= m
    BY <1>4, <2>5
  <2>7. ASSUME NEW j \in First(s), j > k, ~(j > m) PROVE FALSE
    <3>1. j \in S /\ j \in Nat /\ m - j \in Nat /\ j + (m - j) = m
      BY <1>3, <1>4, <2>6, <2>7
    <3>2. m - j \in D
      BY <2>2, <3>1
    <3>3. d <= m - j
      BY <2>4, <3>2
    <3> QED BY <2>5, <2>6, <2>7, <3>1, <3>3
  <2>8. Has(RangeFrom(s, k), a, v)
    BY <1>2, <1>8, <2>1, <2>6, <2>7
  <2>9. PICK r \in 1..n : A[r] = k
    BY <1>6, <2>5
  <2> QED BY <1>7, <2>8, <2>9
<1>12. ASSUME NEW r \in 1..n PROVE \E k \in DOMAIN blocks : Coalesce(blocks)[r].addr = blocks[k].addr
  <2>1. Coalesce(blocks)[r].addr = s[A[r]].addr /\ A[r] \in DOMAIN s
    BY <1>2, <1>4, <1>6, <1>7, <1>8
  <2> QED BY <1>2, <2>1
<1> QED BY <1>9, <1>10, <1>11, <1>12

\* A page's position in a range and in the part of it from lo to hi.
LEMMA SliceAt ==
  ASSUME NEW o \in Nat, NEW lo \in Nat, NEW hi \in Nat, NEW n \in Nat, lo < hi, hi <= n
  PROVE  /\ \A a \in (o + lo)..(o + lo + (hi - lo) - 1) :
              a - (o + lo) + 1 \in 1..(hi - lo) /\ lo + (a - (o + lo) + 1) = a - o + 1 /\ a \in o..(o + n - 1)
         /\ \A a \in o..(o + n - 1) : a >= o + lo /\ a < o + hi =>
              /\ a - (o + lo) + 1 \in 1..(hi - lo) /\ lo + (a - (o + lo) + 1) = a - o + 1
              /\ a \in (o + lo)..(o + lo + (hi - lo) - 1)
OBVIOUS

\* c is the command op about the pages of the range r from lo to hi.
Slice(c, op, r, lo, hi) ==
  /\ op = "write" \/ op = "read"
  /\ lo \in Nat /\ hi \in Nat /\ lo < hi /\ hi <= Len(r.data)
  /\ c = Command(op, r.addr + lo, SubSeq(r.data, lo + 1, hi))

\* A command about part of a range has the values of the part.
LEMMA SliceOf ==
  ASSUME NEW r \in Part, NEW op, NEW lo, NEW hi, NEW c, Slice(c, op, r, lo, hi)
  PROVE  /\ c \in Planned /\ c.op = op /\ c.data # <<>>
         /\ \A a, v : Has(c, a, v) => Has(r, a, v)
         /\ \A a, v : Has(r, a, v) /\ a >= r.addr + lo /\ a < r.addr + hi => Has(c, a, v)
<1>14. /\ op = "write" \/ op = "read"
      /\ lo \in Nat /\ hi \in Nat /\ lo < hi /\ hi <= Len(r.data)
      /\ c = Command(op, r.addr + lo, SubSeq(r.data, lo + 1, hi))
  BY DEF Slice
<1> USE <1>14
<1>1. PICK o, d : o = r.addr /\ d = r.data /\ o \in Nat /\ d \in Seq(Nat) /\ Len(d) \in Nat /\ hi <= Len(d)
  BY DEF Part
<1>2. PICK e : e = SubSeq(d, lo + 1, hi)
  OBVIOUS
<1>3. \A i \in (lo + 1)..hi : d[i] \in Nat
  <2>1. \A i \in (lo + 1)..hi : i \in 1..Len(d)
    BY <1>1
  <2>2. \A i \in 1..Len(d) : d[i] \in Nat
    BY <1>1
  <2> QED BY <2>1, <2>2
<1>4. e \in Seq(Nat) /\ Len(e) = hi - lo /\ \A i \in 1..(hi - lo) : e[i] = d[lo + i]
  <2>1. lo + 1 \in Int /\ hi \in Int
    OBVIOUS
  <2>2. /\ e \in Seq(Nat)
        /\ Len(e) = IF lo + 1 <= hi THEN hi - (lo + 1) + 1 ELSE 0
        /\ \A i \in 1..(hi - (lo + 1) + 1) : e[i] = d[lo + 1 + i - 1]
    BY <1>2, <1>3, <2>1, SubSeqProperties
  <2> QED BY <2>2
<1>6. c = [op |-> op, addr |-> o + lo, data |-> e]
  BY <1>1, <1>2 DEF Command
<1>7. c.op = op /\ c.addr = o + lo /\ c.data = e
  BY <1>6
<1>8. c \in Planned
  <2>1. o + lo \in Nat
    BY <1>1
  <2> QED BY <1>4, <1>6, <2>1 DEF Planned
<1>9. c.data # <<>>
  BY <1>4, <1>7
<1>12. PICK n : n = Len(d) /\ n \in Nat /\ hi <= n
  BY <1>1
<1>13. /\ \A a \in (o + lo)..(o + lo + (hi - lo) - 1) :
            a - (o + lo) + 1 \in 1..(hi - lo) /\ lo + (a - (o + lo) + 1) = a - o + 1 /\ a \in o..(o + n - 1)
       /\ \A a \in o..(o + n - 1) : a >= o + lo /\ a < o + hi =>
            /\ a - (o + lo) + 1 \in 1..(hi - lo) /\ lo + (a - (o + lo) + 1) = a - o + 1
            /\ a \in (o + lo)..(o + lo + (hi - lo) - 1)
  <2>1. o \in Nat /\ lo \in Nat /\ hi \in Nat /\ n \in Nat /\ lo < hi /\ hi <= n
    BY <1>1, <1>12
  <2> HIDE <1>1
  <2> QED BY <2>1, SliceAt
<1>10. ASSUME NEW a, NEW v, Has(c, a, v) PROVE Has(r, a, v)
  <2>1. a \in (o + lo)..(o + lo + (hi - lo) - 1) /\ v = e[a - (o + lo) + 1]
    BY <1>4, <1>7, <1>10 DEF Has, Cells
  <2>2. PICK i : i = a - (o + lo) + 1
    OBVIOUS
  <2>3. i \in 1..(hi - lo) /\ lo + i = a - o + 1 /\ a \in o..(o + n - 1)
    BY <1>13, <2>1, <2>2, Zenon
  <2>4. v = d[a - o + 1]
    BY <1>4, <2>1, <2>2, <2>3
  <2> QED BY <1>1, <1>12, <2>3, <2>4 DEF Has, Cells
<1>11. ASSUME NEW a, NEW v, Has(r, a, v), a >= o + lo, a < o + hi PROVE Has(c, a, v)
  <2>1. a \in o..(o + n - 1) /\ v = d[a - o + 1]
    BY <1>1, <1>12, <1>11 DEF Has, Cells
  <2>2. PICK i : i = a - (o + lo) + 1
    OBVIOUS
  <2>3. i \in 1..(hi - lo) /\ lo + i = a - o + 1 /\ a \in (o + lo)..(o + lo + (hi - lo) - 1)
    BY <1>11, <1>13, <2>1, <2>2, Zenon
  <2>4. v = e[a - (o + lo) + 1]
    BY <1>4, <2>1, <2>2, <2>3
  <2> QED BY <1>4, <1>7, <2>3, <2>4 DEF Has, Cells
<1> QED BY <1>1, <1>7, <1>8, <1>9, <1>10, <1>11

\* The chunks of a range are as many as it takes.
LEMMA ChunksOf ==
  ASSUME NEW r \in Part, NEW op, op = "write" \/ op = "read"
  PROVE  /\ Chunks(op, r) \in Seq(Planned)
         /\ \A k \in DOMAIN Chunks(op, r) : /\ Chunks(op, r)[k].op = op /\ Chunks(op, r)[k].data # <<>>
                                            /\ \A a, v : Has(Chunks(op, r)[k], a, v) => Has(r, a, v)
         /\ \A a, v : Has(r, a, v) => \E k \in DOMAIN Chunks(op, r) : Has(Chunks(op, r)[k], a, v)
<1>1. PICK n, w, last : n = Len(r.data) /\ w = WRITE_CHUNK /\ last = (n + w - 1) \div w
  OBVIOUS
<1>2. n \in Nat /\ w \in Nat /\ w > 0 /\ r.addr \in Nat /\ r.data \in Seq(Nat)
  BY <1>1, Numbers DEF Part
<1>3. last \in Nat /\ last * w <= n + w - 1 /\ n + w - 1 < last * w + w
  <2>1. n + w - 1 \in Nat
    BY <1>2
  <2>2. PICK x : x = n + w - 1
    OBVIOUS
  <2>3. x \div w \in Nat /\ x = (x \div w) * w + (x % w) /\ x % w \in 0..(w - 1)
    BY <1>2, <2>1, <2>2
  <2>4. PICK y, z : y = (x \div w) * w /\ z = x % w
    OBVIOUS
  <2>5. y <= x /\ x < y + w
    BY <1>2, <2>1, <2>2, <2>3, <2>4
  <2> QED BY <1>1, <2>2, <2>3, <2>4, <2>5
<1> DEFINE lo(k) == (k - 1) * w
<1> DEFINE hi(k) == IF k * w < n THEN k * w ELSE n
<1>4. ASSUME NEW k \in 1..last
      PROVE  lo(k) \in Nat /\ hi(k) \in Nat /\ lo(k) < hi(k) /\ hi(k) <= n /\ (hi(k) = n \/ hi(k) = lo(k) + w)
  <2>1. k <= last /\ k \in Nat /\ k - 1 \in Nat
    BY <1>3
  <2>2. k * w <= last * w /\ (k - 1) * w + w = k * w /\ (k - 1) * w \in Nat
    BY <1>2, <1>3, <2>1
  <2>3. PICK x, y, z : x = k * w /\ y = last * w /\ z = (k - 1) * w
    OBVIOUS
  <2>4. x <= y /\ z + w = x /\ z \in Nat /\ y <= n + w - 1 /\ y \in Int
    BY <1>2, <1>3, <2>2, <2>3
  <2>5. z < n
    BY <1>2, <2>4
  <2> QED BY <1>2, <2>3, <2>4, <2>5
<1>5. Chunks(op, r) = [k \in 1..last |-> Command(op, r.addr + lo(k), SubSeq(r.data, lo(k) + 1, hi(k)))]
  BY <1>1 DEF Chunks
<1> HIDE DEF lo, hi
<1>6. ASSUME NEW k \in 1..last
      PROVE  /\ Chunks(op, r)[k] \in Planned /\ Chunks(op, r)[k].op = op /\ Chunks(op, r)[k].data # <<>>
             /\ \A a, v : Has(Chunks(op, r)[k], a, v) => Has(r, a, v)
             /\ \A a, v : Has(r, a, v) /\ a >= r.addr + lo(k) /\ a < r.addr + hi(k) => Has(Chunks(op, r)[k], a, v)
  <2>1. PICK x, y : x = lo(k) /\ y = hi(k) /\ x \in Nat /\ y \in Nat /\ x < y /\ y <= Len(r.data)
    BY <1>1, <1>4
  <2>2. Chunks(op, r)[k] = Command(op, r.addr + x, SubSeq(r.data, x + 1, y))
    BY <1>5, <2>1
  <2>3. PICK c : c = Chunks(op, r)[k]
    OBVIOUS
  <2>4. Slice(c, op, r, x, y)
    BY <2>1, <2>2, <2>3 DEF Slice
  <2>5. /\ c \in Planned /\ c.op = op /\ c.data # <<>>
        /\ \A a, v : Has(c, a, v) => Has(r, a, v)
        /\ \A a, v : Has(r, a, v) /\ a >= r.addr + x /\ a < r.addr + y => Has(c, a, v)
    BY <2>4, SliceOf
  <2> QED BY <2>1, <2>3, <2>5
<1>7. ASSUME NEW a, NEW v, Has(r, a, v) PROVE \E k \in 1..last : Has(Chunks(op, r)[k], a, v)
  <2>1. a \in r.addr..(r.addr + n - 1)
    BY <1>1, <1>7 DEF Has, Cells
  <2>2. PICK i, o : i = a - r.addr /\ o = r.addr
    OBVIOUS
  <2>3. i \in Nat /\ i < n /\ a = o + i /\ o \in Nat
    BY <1>2, <2>1, <2>2
  <2>4. i \div w \in Nat /\ i = (i \div w) * w + (i % w) /\ i % w \in 0..(w - 1)
    BY <1>2, <2>3
  <2>5. PICK q, m : q = i \div w /\ m = i % w
    OBVIOUS
  <2>6. q \in Nat /\ q * w <= i /\ i < q * w + w
    <3>1. PICK y : y = q * w
      OBVIOUS
    <3>2. i = y + m /\ m \in 0..(w - 1) /\ q \in Nat /\ y \in Nat
      <4>0. q \in Nat /\ w \in Nat
        BY <1>2, <2>4, <2>5
      <4>1. q * w \in Nat
        BY <4>0
      <4> QED BY <2>4, <2>5, <3>1, <4>1
    <3>3. y <= i /\ i < y + w
      BY <1>2, <2>3, <3>2
    <3> QED BY <3>1, <3>2, <3>3
  <2>7. q * w < last * w
    <3>1. PICK x, y : x = q * w /\ y = last * w
      OBVIOUS
    <3>2. x <= i /\ n + w - 1 < y + w
      BY <1>3, <2>6, <3>1
    <3>3. x \in Int /\ y \in Int
      BY <1>2, <1>3, <2>6, <3>1
    <3>4. x < y
      BY <1>2, <2>3, <3>2, <3>3
    <3> QED BY <3>1, <3>4
  <2>8. q < last
    BY <1>2, <1>3, <2>6, <2>7
  <2>9. PICK k : k = q + 1
    OBVIOUS
  <2>10. k \in 1..last /\ k - 1 = q
    BY <1>3, <2>6, <2>8, <2>9
  <2>11. lo(k) <= i /\ i < hi(k)
    <3>1. PICK x : x = lo(k)
      OBVIOUS
    <3>2. x = q * w
      BY <2>10, <3>1 DEF lo
    <3>3. x <= i /\ i < x + w
      BY <2>6, <3>2
    <3>4. hi(k) = n \/ hi(k) = x + w
      BY <1>4, <2>10, <3>1
    <3> QED BY <2>3, <3>1, <3>3, <3>4
  <2>12. a >= r.addr + lo(k) /\ a < r.addr + hi(k)
    <3>1. lo(k) \in Nat /\ hi(k) \in Nat
      BY <1>4, <2>10
    <3>2. PICK x, y : x = lo(k) /\ y = hi(k)
      OBVIOUS
    <3>3. a >= o + x /\ a < o + y
      BY <2>3, <2>11, <3>1, <3>2
    <3> QED BY <2>2, <3>2, <3>3
  <2>13. Has(Chunks(op, r)[k], a, v)
    BY <1>6, <1>7, <2>10, <2>12
  <2> QED BY <2>10, <2>13
<1>8. Chunks(op, r) \in Seq(Planned) /\ DOMAIN Chunks(op, r) = 1..last
  <2>1. DOMAIN Chunks(op, r) = 1..last
    BY <1>5
  <2>2. Chunks(op, r) = [k \in 1..last |-> Chunks(op, r)[k]]
    BY <1>5
  <2> QED BY <1>3, <1>6, <2>1, <2>2
<1> QED BY <1>6, <1>7, <1>8

\* What is q times n divides by n.
LEMMA Multiple == ASSUME NEW q \in Nat, NEW n \in Nat, n > 0 PROVE (q * n) % n = 0
<1>1. PICK y : y = q * n /\ y \in Nat
  OBVIOUS
<1>2. y \div n \in Nat /\ y = (y \div n) * n + (y % n) /\ y % n \in 0..(n - 1)
  BY <1>1
<1>3. PICK p, m : p = y \div n /\ m = y % n
  OBVIOUS
<1>4. p \in Nat /\ m \in 0..(n - 1) /\ y = p * n + m
  BY <1>2, <1>3
<1>5. ASSUME p < q PROVE FALSE
  <2>1. p + 1 <= q
    BY <1>4, <1>5
  <2>2. (p + 1) * n <= q * n /\ (p + 1) * n = p * n + n /\ p * n \in Nat
    BY <1>4, <2>1
  <2>3. PICK x : x = p * n
    OBVIOUS
  <2>4. x \in Nat /\ x + n <= y /\ y = x + m
    BY <1>1, <1>4, <2>2, <2>3
  <2> QED BY <1>4, <2>4
<1>6. ASSUME p > q PROVE FALSE
  <2>1. q + 1 <= p
    BY <1>4, <1>6
  <2>2. (q + 1) * n <= p * n /\ (q + 1) * n = q * n + n /\ p * n \in Nat
    BY <1>4, <2>1
  <2>3. PICK x : x = p * n
    OBVIOUS
  <2>4. x \in Nat /\ y + n <= x /\ y = x + m
    BY <1>1, <1>4, <2>2, <2>3
  <2> QED BY <1>1, <1>4, <2>4
<1>7. p = q
  BY <1>4, <1>5, <1>6
<1>8. y = y + m
  BY <1>1, <1>4, <1>7
<1>9. m = 0
  BY <1>1, <1>4, <1>8
<1> QED BY <1>1, <1>3, <1>9

\* Sectors covers the pages of a range with whole sectors, in each of which the
\* range lies or begins.
LEMMA SectorsOf ==
  ASSUME NEW r \in Part
  PROVE  /\ Sectors(r) \subseteq Nat /\ IsFiniteSet(Sectors(r))
         /\ \A x \in Sectors(r) : x % SECTOR = 0 /\ \E a \in Span(r) : a \in x..(x + SECTOR - 1)
         /\ \A a \in Cells(r) : \E x \in Sectors(r) : a \in x..(x + SECTOR - 1)
<1>1. PICK n, o, len, q, m, y : n = SECTOR /\ o = r.addr /\ len = Len(r.data) /\ q = o \div n /\ m = o % n /\ y = q * n
  OBVIOUS
<1>2. n \in Nat /\ n > 0 /\ o \in Nat /\ len \in Nat
  BY <1>1, Numbers DEF Part
<1>3. q \in Nat /\ m \in 0..(n - 1) /\ y \in Nat /\ o = y + m
  <2>1. o \div n \in Nat /\ o = (o \div n) * n + (o % n) /\ o % n \in 0..(n - 1)
    BY <1>2
  <2>2. q \in Nat /\ m \in 0..(n - 1) /\ o = q * n + m
    BY <1>1, <2>1
  <2>3. q * n \in Nat
    BY <1>2, <2>2
  <2> QED BY <1>1, <2>2, <2>3
<1>4. Cells(r) = o..(o + len - 1) /\ Span(r) = Cells(r) \cup {o} /\ Sectors(r) = {a \in y..(o + len - 1) : a % n = 0}
  BY <1>1 DEF Cells, Span, Sectors
<1>5. Sectors(r) \in SUBSET (0..(o + len))
  BY <1>2, <1>3, <1>4
<1>6. IsFiniteSet(Sectors(r))
  <2>1. 0 \in Int /\ o + len \in Int
    BY <1>2
  <2>2. IsFiniteSet(0..(o + len))
    BY <2>1, FS_Interval
  <2> QED BY <1>5, <2>2, FS_Subset
<1>7. ASSUME NEW x \in Sectors(r) PROVE x % n = 0 /\ \E a \in Span(r) : a \in x..(x + n - 1)
  <2>1. x \in y..(o + len - 1) /\ x % n = 0
    BY <1>4
  <2>2. CASE x < o
    <3>1. o \in x..(x + n - 1)
      BY <1>2, <1>3, <2>1, <2>2
    <3> QED BY <1>4, <2>1, <3>1
  <2>3. CASE x >= o
    <3>1. x \in o..(o + len - 1) /\ x \in x..(x + n - 1)
      BY <1>2, <1>3, <2>1, <2>3
    <3> QED BY <1>4, <2>1, <3>1
  <2> QED BY <1>2, <1>3, <2>1, <2>2, <2>3
<1>8. ASSUME NEW a \in Cells(r) PROVE \E x \in Sectors(r) : a \in x..(x + n - 1)
  <2>1. a \in Nat /\ o <= a /\ a <= o + len - 1
    BY <1>2, <1>4
  <2>2. a \div n \in Nat /\ a = (a \div n) * n + (a % n) /\ a % n \in 0..(n - 1)
    BY <1>2, <2>1
  <2>3. PICK p, l : p = a \div n /\ l = a % n
    OBVIOUS
  <2>4. p \in Nat /\ l \in 0..(n - 1) /\ a = p * n + l
    BY <2>2, <2>3
  <2>5. (p * n) % n = 0 /\ p * n \in Nat
    <3>1. p \in Nat /\ n \in Nat /\ n > 0
      BY <1>2, <2>4
    <3>2. (p * n) % n = 0
      BY <3>1, Multiple
    <3>3. p * n \in Nat
      BY <3>1
    <3> QED BY <3>2, <3>3
  <2>6. ASSUME p < q PROVE FALSE
    <3>1. p + 1 <= q
      BY <1>3, <2>4, <2>6
    <3>2. (p + 1) * n <= q * n /\ (p + 1) * n = p * n + n
      BY <1>2, <1>3, <2>4, <3>1
    <3>3. PICK z : z = p * n /\ z \in Nat
      BY <2>5
    <3>4. z + n <= y /\ a = z + l
      BY <1>1, <2>4, <3>2, <3>3
    <3> QED BY <1>2, <1>3, <2>1, <2>4, <3>3, <3>4
  <2>7. q * n <= p * n
    BY <1>2, <1>3, <2>4, <2>6
  <2>8. PICK x : x = p * n /\ x \in Nat
    BY <2>5
  <2>9. y <= x /\ a = x + l /\ x % n = 0
    BY <1>1, <2>4, <2>5, <2>7, <2>8
  <2>10. x \in y..(o + len - 1) /\ a \in x..(x + n - 1)
    BY <1>2, <1>3, <2>1, <2>4, <2>8, <2>9
  <2> QED BY <1>4, <2>9, <2>10
<1> QED BY <1>1, <1>5, <1>6, <1>7, <1>8

\* A rank is a number.
LEMMA Ranks == \A op : Rank(op) \in Nat
BY DEF Rank

\* A function on 1..n is a sequence.
LEMMA AsSeq == ASSUME NEW S, NEW n \in Nat, NEW p \in [1..n -> S] PROVE p \in Seq(S) /\ Len(p) = n
OBVIOUS

\* The commands of a plan.
Every(p) == {p[j] : j \in 1..Len(p)}

\* The phases of a plan follow each other.
LEMMA Joined ==
  ASSUME NEW p \in Seq(Planned), NEW q \in Seq(Planned), InOrder(p), InOrder(q),
         \A c \in Every(p) : \A d \in Every(q) : Rank(c.op) <= Rank(d.op)
  PROVE  /\ p \o q \in Seq(Planned) /\ InOrder(p \o q) /\ Every(p \o q) = Every(p) \cup Every(q)
         /\ Len(p \o q) = Len(p) + Len(q) /\ Len(p) \in Nat /\ Len(q) \in Nat
         /\ \A j \in 1..Len(p) : (p \o q)[j] = p[j]
         /\ \A j \in 1..Len(q) : (p \o q)[Len(p) + j] = q[j]
<1>0. Len(p) \in Nat /\ Len(q) \in Nat
  OBVIOUS
<1>2. PICK x, y, pq : x = Len(p) /\ y = Len(q) /\ pq = p \o q /\ x \in Nat /\ y \in Nat
  BY <1>0
<1>3. pq \in Seq(Planned) /\ Len(pq) = x + y
  BY <1>2, ConcatProperties
<1>11. \A i \in 1..Len(pq) : i > x => \E l \in 1..y : i = x + l
  <2>1. \A i \in 1..(x + y) : i > x => \E l \in 1..y : i = x + l
    BY <1>2, Sums, Zenon
  <2> QED BY <1>3, <2>1
<1>4. \A i \in 1..(x + y) : pq[i] = IF i <= x THEN p[i] ELSE q[i - x]
  BY <1>2, ConcatProperties, Zenon
<1>5. \A j \in 1..x : j \in 1..Len(pq) /\ pq[j] = p[j]
  BY <1>2, <1>3, <1>4
<1>6. \A j \in 1..y : x + j \in 1..Len(pq) /\ pq[x + j] = q[j]
  BY <1>2, <1>3, <1>4
<1>7. \A i \in 1..Len(pq) : i \in 1..x \/ i > x
  BY <1>2, <1>3
<1>8. Every(pq) = Every(p) \cup Every(q)
  <2>1. ASSUME NEW c \in Every(pq) PROVE c \in Every(p) \cup Every(q)
    <3>1. PICK i \in 1..Len(pq) : c = pq[i]
      BY DEF Every
    <3>2. CASE i \in 1..x
      BY <1>2, <1>5, <3>1, <3>2 DEF Every
    <3>3. CASE i > x
      <4>1. PICK l \in 1..y : i = x + l
        BY <1>11, <3>1, <3>3
      <4>2. c = q[l]
        BY <1>6, <3>1, <4>1
      <4> QED BY <1>2, <4>1, <4>2 DEF Every
    <3> QED BY <1>7, <3>2, <3>3
  <2>2. ASSUME NEW c \in Every(p) PROVE c \in Every(pq)
    BY <1>2, <1>5 DEF Every
  <2>3. ASSUME NEW c \in Every(q) PROVE c \in Every(pq)
    <3>1. PICK j \in 1..Len(q) : c = q[j]
      BY DEF Every
    <3> QED BY <1>2, <1>6, <3>1 DEF Every
  <2> QED BY <2>1, <2>2, <2>3
<1>9. ASSUME NEW i \in 1..Len(pq), NEW j \in 1..Len(pq), i < j PROVE Rank(pq[i].op) <= Rank(pq[j].op)
  <2>1. CASE i \in 1..x /\ j \in 1..x
    <3>1. Rank(p[i].op) <= Rank(p[j].op)
      BY <1>2, <1>9, <2>1 DEF InOrder
    <3> QED BY <1>5, <2>1, <3>1
  <2>2. CASE i \in 1..x /\ j > x
    <3>1. PICK k \in 1..y : j = x + k
      BY <1>11, <2>2
    <3>2. p[i] \in Every(p) /\ q[k] \in Every(q)
      BY <1>2, <2>2 DEF Every
    <3> QED BY <1>5, <1>6, <2>2, <3>1, <3>2
  <2>3. CASE i > x
    <3>1. PICK k1 \in 1..y : i = x + k1
      BY <1>11, <2>3
    <3>2. PICK k2 \in 1..y : j = x + k2
      <4>1. j > x
        BY <1>2, <1>9, <2>3
      <4> QED BY <1>11, <4>1
    <3>3. k1 < k2
      BY <1>2, <1>9, <3>1, <3>2
    <3>4. Rank(q[k1].op) <= Rank(q[k2].op)
      BY <1>2, <3>1, <3>2, <3>3 DEF InOrder
    <3> QED BY <1>6, <3>1, <3>2, <3>4
  <2> QED BY <1>7, <2>1, <2>2, <2>3
<1>10. InOrder(pq)
  BY <1>9 DEF InOrder
<1> QED BY <1>2, <1>3, <1>5, <1>6, <1>8, <1>10

\* A plan of one phase is in order.
LEMMA OneRank ==
  ASSUME NEW p, NEW op, \A c \in Every(p) : c.op = op PROVE InOrder(p)
<1>1. \A j \in 1..Len(p) : p[j] \in Every(p)
  BY DEF Every
<1>2. \A j \in 1..Len(p) : Rank(p[j].op) = Rank(op) /\ Rank(op) \in Nat
  BY <1>1, Ranks
<1> QED BY <1>2 DEF InOrder

\* All chunks of all ranges.
Chunked(op, ranges) == FlattenSeq([k \in 1..Len(ranges) |-> Chunks(op, ranges[k])])

\* The writes (or reads) of all ranges have their values, all of them and no others.
LEMMA AllOf ==
  ASSUME NEW ranges \in Seq(Part), NEW op, op = "write" \/ op = "read"
  PROVE  /\ Chunked(op, ranges) \in Seq(Planned) /\ InOrder(Chunked(op, ranges))
         /\ \A c \in Every(Chunked(op, ranges)) :
              /\ c.op = op /\ c.data # <<>>
              /\ \A a, v : Has(c, a, v) => \E k \in DOMAIN ranges : Has(ranges[k], a, v)
         /\ \A k \in DOMAIN ranges : \A a, v :
              Has(ranges[k], a, v) => \E c \in Every(Chunked(op, ranges)) : Has(c, a, v)
<1>1. PICK ss, p : ss = [k \in 1..Len(ranges) |-> Chunks(op, ranges[k])] /\ p = Chunked(op, ranges)
  OBVIOUS
<1>2. Len(ranges) \in Nat /\ DOMAIN ranges = 1..Len(ranges) /\ \A k \in 1..Len(ranges) : ranges[k] \in Part
  OBVIOUS
<1>3. \A k \in 1..Len(ranges) :
        /\ ss[k] \in Seq(Planned)
        /\ \A l \in DOMAIN ss[k] : /\ ss[k][l].op = op /\ ss[k][l].data # <<>>
                                   /\ \A a, v : Has(ss[k][l], a, v) => Has(ranges[k], a, v)
        /\ \A a, v : Has(ranges[k], a, v) => \E l \in DOMAIN ss[k] : Has(ss[k][l], a, v)
  BY <1>1, <1>2, ChunksOf
<1>4. ss \in Seq(Seq(Planned)) /\ Len(ss) = Len(ranges)
  BY <1>1, <1>2, <1>3
<1>8. p = FlattenSeq(ss)
  BY <1>1 DEF Chunked
<1>5. p \in Seq(Planned)
  BY <1>4, <1>8, FlatAt
<1>6. PICK off : Offsets(ss, off)
  BY <1>4, FlatAt
<1>7. \A k \in 1..Len(ranges) : DOMAIN ss[k] = 1..Len(ss[k])
  BY <1>3
<1>9. \A k \in 1..Len(ranges) : \A l \in 1..Len(ss[k]) : ss[k][l] \in Every(p)
  <2> SUFFICES ASSUME NEW k \in 1..Len(ranges), NEW l \in 1..Len(ss[k]) PROVE ss[k][l] \in Every(p)
    OBVIOUS
  <2>1. off[k] + l \in 1..Len(p) /\ p[off[k] + l] = ss[k][l]
    BY <1>4, <1>6, <1>8 DEF Offsets
  <2> QED BY <2>1 DEF Every
<1>10. \A c \in Every(p) : \E k \in 1..Len(ranges) : \E l \in 1..Len(ss[k]) : c = ss[k][l]
  <2> SUFFICES ASSUME NEW j \in 1..Len(p) PROVE \E k \in 1..Len(ranges) : \E l \in 1..Len(ss[k]) : p[j] = ss[k][l]
    BY DEF Every
  <2>1. PICK k \in 1..Len(ranges) : \E l \in 1..Len(ss[k]) : j = off[k] + l
    BY <1>4, <1>6, <1>8 DEF Offsets
  <2>2. PICK l \in 1..Len(ss[k]) : j = off[k] + l
    BY <2>1
  <2>3. p[off[k] + l] = ss[k][l]
    BY <1>4, <1>6, <1>8 DEF Offsets
  <2> QED BY <2>2, <2>3
<1>11. ASSUME NEW c \in Every(p)
       PROVE  /\ c.op = op /\ c.data # <<>>
              /\ \A a, v : Has(c, a, v) => \E k \in DOMAIN ranges : Has(ranges[k], a, v)
  <2>1. PICK k \in 1..Len(ranges) : \E l \in 1..Len(ss[k]) : c = ss[k][l]
    BY <1>10
  <2>2. PICK l \in 1..Len(ss[k]) : c = ss[k][l]
    BY <2>1
  <2> QED BY <1>2, <1>3, <1>7, <2>2
<1>12. ASSUME NEW k \in DOMAIN ranges, NEW a, NEW v, Has(ranges[k], a, v) PROVE \E c \in Every(p) : Has(c, a, v)
  <2>1. PICK l \in 1..Len(ss[k]) : Has(ss[k][l], a, v)
    BY <1>2, <1>3, <1>7, <1>12
  <2> QED BY <1>2, <1>9, <2>1
<1>13. InOrder(p)
  BY <1>11, OneRank
<1> QED BY <1>1, <1>5, <1>11, <1>12, <1>13

\* The erases of all sectors.
SectorsIn(ranges) == UNION {Sectors(ranges[k]) : k \in DOMAIN ranges}
Erasing(ranges) ==
  [k \in 1..Cardinality(SectorsIn(ranges)) |-> Command("erase", Ascending(SectorsIn(ranges))[k], <<>>)]

\* The erasures are of the sectors of the ranges, all of them and no others.
LEMMA ErasesOf ==
  ASSUME NEW ranges \in Seq(Part)
  PROVE  /\ Erasing(ranges) \in Seq(Planned) /\ InOrder(Erasing(ranges))
         /\ \A c \in Every(Erasing(ranges)) : c.op = "erase" /\ c.addr \in SectorsIn(ranges)
         /\ \A x \in SectorsIn(ranges) : \E c \in Every(Erasing(ranges)) : c.op = "erase" /\ c.addr = x
<1>0. PICK sectors, p : sectors = SectorsIn(ranges) /\ p = Erasing(ranges)
  OBVIOUS
<1>1. Len(ranges) \in Nat /\ DOMAIN ranges = 1..Len(ranges) /\ \A k \in DOMAIN ranges : ranges[k] \in Part
  OBVIOUS
<1>2. \A k \in DOMAIN ranges : Sectors(ranges[k]) \subseteq Nat /\ IsFiniteSet(Sectors(ranges[k]))
  BY <1>1, SectorsOf
<1>3. IsFiniteSet(sectors)
  <2>1. PICK f, D, S : f = [k \in DOMAIN ranges |-> Sectors(ranges[k])] /\ D = DOMAIN ranges
                       /\ S = {Sectors(ranges[k]) : k \in DOMAIN ranges}
    OBVIOUS
  <2>2. IsFiniteSet(D)
    BY <1>1, <2>1, FS_Interval
  <2>3. f \in Surjection(D, S)
    BY <2>1 DEF Surjection
  <2>4. IsFiniteSet(S)
    BY <2>2, <2>3, FS_Surjection
  <2>5. \A T \in S : IsFiniteSet(T)
    BY <1>2, <2>1
  <2>6. IsFiniteSet(UNION S)
    BY <2>4, <2>5, FS_UNION
  <2> QED BY <1>0, <2>1, <2>6 DEF SectorsIn
<1>4. sectors \in SUBSET Nat
  BY <1>0, <1>2 DEF SectorsIn
<1>5. PICK n, A : n = Cardinality(sectors) /\ A = Ascending(sectors)
  OBVIOUS
<1>6. n \in Nat /\ A \in [1..n -> sectors] /\ \A x \in sectors : \E k \in 1..n : A[k] = x
  BY <1>3, <1>4, <1>5, AscendingOf
<1>7. p = [k \in 1..n |-> Command("erase", A[k], <<>>)]
  BY <1>0, <1>5 DEF Erasing
<1>8. \A k \in 1..n : p[k] = [op |-> "erase", addr |-> A[k], data |-> <<>>] /\ A[k] \in sectors /\ A[k] \in Nat
  BY <1>4, <1>6, <1>7 DEF Command
<1>9. ASSUME NEW k \in 1..n PROVE p[k] \in Planned /\ p[k].op = "erase" /\ p[k].addr = A[k] /\ A[k] \in sectors
  <2>1. <<>> \in Seq(Nat)
    BY EmptySeq
  <2>2. PICK x : x = A[k] /\ x \in Nat /\ p[k] = [op |-> "erase", addr |-> x, data |-> <<>>]
    BY <1>8
  <2>3. [op |-> "erase", addr |-> x, data |-> <<>>] \in Planned
    BY <2>1, <2>2 DEF Planned
  <2>4. p[k].op = "erase" /\ p[k].addr = x
    BY <2>2
  <2> QED BY <1>8, <2>2, <2>3, <2>4
<1>10. p \in Seq(Planned) /\ Len(p) = n
  <2>1. \A k \in 1..n : p[k] \in Planned
    BY <1>9
  <2>2. DOMAIN p = 1..n /\ p = [k \in 1..n |-> p[k]]
    BY <1>7
  <2>3. p \in [1..n -> Planned]
    BY <2>1, <2>2
  <2> QED BY <1>6, <2>3, AsSeq
<1>11. ASSUME NEW c \in Every(p) PROVE c.op = "erase" /\ c.addr \in sectors
  <2>1. PICK k \in 1..n : c = p[k]
    BY <1>10 DEF Every
  <2> QED BY <1>9, <2>1
<1>12. ASSUME NEW x \in sectors PROVE \E c \in Every(p) : c.op = "erase" /\ c.addr = x
  <2>1. PICK k \in 1..n : A[k] = x
    BY <1>6
  <2>2. p[k] \in Every(p)
    BY <1>10 DEF Every
  <2> QED BY <1>9, <2>1, <2>2
<1>13. InOrder(p)
  BY <1>11, OneRank
<1> QED BY <1>0, <1>10, <1>11, <1>12, <1>13

\* Plans of one command and of two.
LEMMA PairOf ==
  ASSUME NEW c \in Planned, NEW d \in Planned
  PROVE  /\ <<c>> \in Seq(Planned) /\ InOrder(<<c>>) /\ Every(<<c>>) = {c} /\ Len(<<c>>) = 1
         /\ <<c, d>> \in Seq(Planned) /\ Every(<<c, d>>) = {c, d}
         /\ Rank(c.op) <= Rank(d.op) => InOrder(<<c, d>>)
<1>1. <<c>> \in Seq(Planned) /\ Len(<<c>>) = 1 /\ <<c>>[1] = c
  OBVIOUS
<1>2. <<c, d>> \in Seq(Planned) /\ Len(<<c, d>>) = 2 /\ <<c, d>>[1] = c /\ <<c, d>>[2] = d
  OBVIOUS
<1>3. 1..1 = {1} /\ 1..2 = {1, 2}
  OBVIOUS
<1>4. Every(<<c>>) = {c} /\ Every(<<c, d>>) = {c, d}
  BY <1>1, <1>2, <1>3 DEF Every
<1>5. InOrder(<<c>>)
  BY <1>1 DEF InOrder
<1>6. ASSUME Rank(c.op) <= Rank(d.op) PROVE InOrder(<<c, d>>)
  <2>1. \A i, j \in {1, 2} : i < j => i = 1 /\ j = 2
    OBVIOUS
  <2> QED BY <1>2, <1>3, <1>6, <2>1 DEF InOrder
<1> QED BY <1>1, <1>2, <1>4, <1>5, <1>6

\* A plan for ranges: everything in it, in its order.
LEMMA PlanOf ==
  ASSUME NEW ranges \in Seq(Part)
  PROVE  WellPlanned(FlashRanges(ranges), ranges)
<1>1. PICK p, erases, writes, reads : p = FlashRanges(ranges) /\ erases = Erasing(ranges)
                                      /\ writes = Chunked("write", ranges) /\ reads = Chunked("read", ranges)
  OBVIOUS
<1>2. PICK excl, exit, enter, reboot : excl = Command("exclusive", 0, <<>>) /\ exit = Command("exitXip", 0, <<>>)
                                       /\ enter = Command("enterCmdXip", 0, <<>>) /\ reboot = Command("reboot", 0, <<>>)
  OBVIOUS
<1>3. /\ excl \in Planned /\ excl.op = "exclusive" /\ excl.addr = 0
      /\ exit \in Planned /\ exit.op = "exitXip" /\ exit.addr = 0
      /\ enter \in Planned /\ enter.op = "enterCmdXip" /\ enter.addr = 0
      /\ reboot \in Planned /\ reboot.op = "reboot" /\ reboot.addr = 0
  <2>1. <<>> \in Seq(Nat)
    BY EmptySeq
  <2>2. excl \in Planned /\ exit \in Planned
    BY <1>2, <2>1 DEF Command, Planned
  <2>3. enter \in Planned /\ reboot \in Planned
    BY <1>2, <2>1 DEF Command, Planned
  <2> QED BY <1>2, <2>2, <2>3 DEF Command
<1>4. PICK a, b, c : a = <<excl, exit>> /\ b = <<enter>> /\ c = <<reboot>>
  OBVIOUS
<1>5. p = a \o erases \o writes \o b \o reads \o c
  BY <1>1, <1>2, <1>4 DEF FlashRanges, Erasing, SectorsIn, Chunked
<1>6. /\ Rank("exclusive") = 1 /\ Rank("exitXip") = 2 /\ Rank("erase") = 3 /\ Rank("write") = 4
      /\ Rank("enterCmdXip") = 5 /\ Rank("read") = 6 /\ Rank("reboot") = 7
  BY DEF Rank
<1>7. /\ a \in Seq(Planned) /\ InOrder(a) /\ Every(a) = {excl, exit}
      /\ b \in Seq(Planned) /\ InOrder(b) /\ Every(b) = {enter}
      /\ c \in Seq(Planned) /\ InOrder(c) /\ Every(c) = {reboot} /\ Len(c) = 1 /\ c[1] = reboot
  <2>1. Rank(excl.op) <= Rank(exit.op)
    BY <1>3, <1>6
  <2> QED BY <1>3, <1>4, <2>1, PairOf
<1>9. /\ erases \in Seq(Planned) /\ InOrder(erases)
      /\ \A x \in Every(erases) : x.op = "erase" /\ x.addr \in SectorsIn(ranges)
      /\ \A x \in SectorsIn(ranges) : \E y \in Every(erases) : y.op = "erase" /\ y.addr = x
  BY <1>1, ErasesOf
<1>10. /\ writes \in Seq(Planned) /\ InOrder(writes)
       /\ \A x \in Every(writes) : /\ x.op = "write" /\ x.data # <<>>
                                   /\ \A u, v : Has(x, u, v) => \E k \in DOMAIN ranges : Has(ranges[k], u, v)
       /\ \A k \in DOMAIN ranges : \A u, v : Has(ranges[k], u, v) => \E x \in Every(writes) : Has(x, u, v)
  BY <1>1, AllOf
<1>11. /\ reads \in Seq(Planned) /\ InOrder(reads)
       /\ \A x \in Every(reads) : /\ x.op = "read" /\ x.data # <<>>
                                  /\ \A u, v : Has(x, u, v) => \E k \in DOMAIN ranges : Has(ranges[k], u, v)
       /\ \A k \in DOMAIN ranges : \A u, v : Has(ranges[k], u, v) => \E x \in Every(reads) : Has(x, u, v)
  BY <1>1, AllOf
<1>13. PICK s1, s2, s3, s4 : s1 = a \o erases /\ s2 = s1 \o writes /\ s3 = s2 \o b /\ s4 = s3 \o reads
  OBVIOUS
<1>14. s1 \in Seq(Planned) /\ InOrder(s1) /\ Every(s1) = Every(a) \cup Every(erases)
  <2>1. \A x \in Every(a) : \A y \in Every(erases) : Rank(x.op) <= Rank(y.op)
    BY <1>3, <1>6, <1>7, <1>9
  <2> QED BY <1>7, <1>9, <1>13, <2>1, Joined
<1>15. s2 \in Seq(Planned) /\ InOrder(s2) /\ Every(s2) = Every(s1) \cup Every(writes)
  <2>1. \A x \in Every(s1) : \A y \in Every(writes) : Rank(x.op) <= Rank(y.op)
    BY <1>3, <1>6, <1>7, <1>9, <1>10, <1>14
  <2> QED BY <1>10, <1>13, <1>14, <2>1, Joined
<1>16. s3 \in Seq(Planned) /\ InOrder(s3) /\ Every(s3) = Every(s2) \cup Every(b)
  <2>1. \A x \in Every(s2) : \A y \in Every(b) : Rank(x.op) <= Rank(y.op)
    BY <1>3, <1>6, <1>7, <1>9, <1>10, <1>14, <1>15
  <2> QED BY <1>7, <1>13, <1>15, <2>1, Joined
<1>17. s4 \in Seq(Planned) /\ InOrder(s4) /\ Every(s4) = Every(s3) \cup Every(reads)
  <2>1. \A x \in Every(s3) : \A y \in Every(reads) : Rank(x.op) <= Rank(y.op)
    BY <1>3, <1>6, <1>7, <1>9, <1>10, <1>11, <1>14, <1>15, <1>16
  <2> QED BY <1>11, <1>13, <1>16, <2>1, Joined
<1>18. \A x \in Every(s4) : x.op # "reboot" /\ Rank(x.op) <= Rank("reboot")
  BY <1>3, <1>6, <1>7, <1>9, <1>10, <1>11, <1>14, <1>15, <1>16, <1>17
<1>19. /\ p \in Seq(Planned) /\ InOrder(p) /\ Every(p) = Every(s4) \cup Every(c)
       /\ Len(p) = Len(s4) + 1 /\ Len(s4) \in Nat /\ \A j \in 1..Len(s4) : p[j] = s4[j]
       /\ p[Len(s4) + 1] = reboot
  <2>1. \A x \in Every(s4) : \A y \in Every(c) : Rank(x.op) <= Rank(y.op)
    BY <1>3, <1>7, <1>18
  <2>2. p = s4 \o c
    BY <1>5, <1>13
  <2>3. p \in Seq(Planned) /\ InOrder(p) /\ Every(p) = Every(s4) \cup Every(c)
    BY <1>7, <1>17, <2>1, <2>2, Joined
  <2>4. Len(s4) \in Nat /\ Len(s4 \o c) = Len(s4) + Len(c) /\ \A j \in 1..Len(s4) : (s4 \o c)[j] = s4[j]
    BY <1>7, <1>17, <2>1, Joined
  <2>5. \A j \in 1..Len(c) : (s4 \o c)[Len(s4) + j] = c[j]
    BY <1>7, <1>17, <2>1, Joined
  <2>6. PICK n : n = Len(s4)
    OBVIOUS
  <2>7. n \in Nat /\ Len(p) = n + 1 /\ \A j \in 1..n : p[j] = s4[j]
    BY <1>7, <2>2, <2>4, <2>6
  <2>8. 1 \in 1..1
    OBVIOUS
  <2>9. p[n + 1] = c[1]
    BY <1>7, <2>2, <2>5, <2>6, <2>8
  <2> QED BY <1>7, <2>3, <2>6, <2>7, <2>9
<1>21. Every(p) = {excl, exit, enter, reboot} \cup Every(erases) \cup Every(writes) \cup Every(reads)
  BY <1>7, <1>14, <1>15, <1>16, <1>17, <1>19
<1>22. Len(p) > 0 /\ \A j \in 1..Len(p) : p[j].op = "reboot" <=> j = Len(p)
  <2>1. ASSUME NEW j \in 1..Len(s4) PROVE p[j].op # "reboot"
    BY <1>18, <1>19 DEF Every
  <2> QED BY <1>3, <1>19, <2>1
<1>23. \A j \in 1..Len(p) : p[j] \in Every(p)
  BY DEF Every
<1>24. \A x \in Every(p) : \E j \in 1..Len(p) : p[j] = x
  BY DEF Every
<1>25. /\ \A x \in Every(p) : x.op = "erase" => x \in Every(erases)
       /\ \A x \in Every(p) : x.op = "write" => x \in Every(writes)
       /\ \A x \in Every(p) : x.op = "read" => x \in Every(reads)
  BY <1>3, <1>9, <1>10, <1>11, <1>21
<1>26. Erases(p, ranges)
  <2>1. ASSUME NEW j \in 1..Len(p), p[j].op = "erase"
        PROVE  p[j].addr % SECTOR = 0 /\ \E k \in DOMAIN ranges : \E x \in Span(ranges[k]) : x \in Sector(p[j])
    <3>1. p[j].addr \in SectorsIn(ranges)
      BY <1>9, <1>23, <1>25, <2>1
    <3>2. PICK k \in DOMAIN ranges : p[j].addr \in Sectors(ranges[k])
      BY <3>1 DEF SectorsIn
    <3>3. ranges[k] \in Part
      OBVIOUS
    <3> QED BY <3>2, <3>3, SectorsOf DEF Sector
  <2>2. ASSUME NEW k \in DOMAIN ranges, NEW x \in Cells(ranges[k])
        PROVE  \E j \in 1..Len(p) : p[j].op = "erase" /\ x \in Sector(p[j])
    <3>1. ranges[k] \in Part
      OBVIOUS
    <3>2. PICK y \in Sectors(ranges[k]) : x \in y..(y + SECTOR - 1)
      BY <3>1, SectorsOf
    <3>3. y \in SectorsIn(ranges)
      BY DEF SectorsIn
    <3>4. PICK e \in Every(erases) : e.op = "erase" /\ e.addr = y
      BY <1>9, <3>3
    <3>5. PICK j \in 1..Len(p) : p[j] = e
      BY <1>21, <1>24
    <3> QED BY <3>2, <3>4, <3>5 DEF Sector
  <2> QED BY <2>1, <2>2 DEF Erases
<1>27. Only(p, "write", ranges) /\ Only(p, "read", ranges)
  BY <1>10, <1>11, <1>23, <1>25 DEF Only
<1>28. All(p, "write", ranges) /\ All(p, "read", ranges)
  <2>1. \A k \in DOMAIN ranges : \A u, v : Has(ranges[k], u, v) =>
          (\E x \in Every(p) : x.op = "write" /\ Has(x, u, v)) /\ (\E x \in Every(p) : x.op = "read" /\ Has(x, u, v))
    BY <1>10, <1>11, <1>21
  <2> QED BY <1>24, <2>1 DEF All
<1>29. \A j \in 1..Len(p) : p[j].op \in {"exclusive", "exitXip", "enterCmdXip", "reboot"} => p[j].addr = 0
  BY <1>3, <1>9, <1>10, <1>11, <1>21, <1>23
<1>30. (\E j \in 1..Len(p) : p[j].op = "exitXip") /\ (\E j \in 1..Len(p) : p[j].op = "enterCmdXip")
  BY <1>3, <1>21, <1>24
<1> QED BY <1>1, <1>19, <1>22, <1>26, <1>27, <1>28, <1>29, <1>30 DEF WellPlanned

\* The plan of every file erases, writes and reads what the file has for the chip.
THEOREM PlansFlashTheirFiles == \A f \in Files : WellPlanned(Plans[f], Blocks[f])
<1> SUFFICES ASSUME NEW f \in Files PROVE WellPlanned(Plans[f], Blocks[f])
  OBVIOUS
<1>1. PICK blocks, ranges, p : blocks = Blocks[f] /\ ranges = Coalesce(blocks) /\ p = FlashRanges(ranges)
  OBVIOUS
<1>2. blocks \in Seq(Block) /\ Plans[f] = p
  BY <1>1, BlocksOf DEF Plans, Ranges
<1>3. /\ ranges \in Seq(Part)
      /\ \A r \in DOMAIN ranges : \A a, v : Has(ranges[r], a, v) => \E k \in DOMAIN blocks : Has(blocks[k], a, v)
      /\ \A k \in DOMAIN blocks : \A a, v : Has(blocks[k], a, v) => \E r \in DOMAIN ranges : Has(ranges[r], a, v)
      /\ \A r \in DOMAIN ranges : \E k \in DOMAIN blocks : ranges[r].addr = blocks[k].addr
  BY <1>1, <1>2, CoalesceOf
<1>4. WellPlanned(p, ranges)
  BY <1>1, <1>3, PlanOf
<1>5. Erases(p, blocks)
  <2>1. \A r \in DOMAIN ranges : \A c \in Span(ranges[r]) : \E k \in DOMAIN blocks : c \in Span(blocks[k])
    <3>1. ASSUME NEW r \in DOMAIN ranges, NEW c \in Cells(ranges[r]) PROVE \E k \in DOMAIN blocks : c \in Cells(blocks[k])
      BY <1>3 DEF Has
    <3> QED BY <1>3, <3>1 DEF Span
  <2>2. \A k \in DOMAIN blocks : \A c \in Cells(blocks[k]) : \E r \in DOMAIN ranges : c \in Cells(ranges[r])
    BY <1>3 DEF Has
  <2>3. ASSUME NEW j \in 1..Len(p), p[j].op = "erase"
        PROVE  p[j].addr % SECTOR = 0 /\ \E k \in DOMAIN blocks : \E c \in Span(blocks[k]) : c \in Sector(p[j])
    BY <1>4, <2>1, <2>3 DEF WellPlanned, Erases
  <2>4. ASSUME NEW k \in DOMAIN blocks, NEW c \in Cells(blocks[k])
        PROVE  \E j \in 1..Len(p) : p[j].op = "erase" /\ c \in Sector(p[j])
    BY <1>4, <2>2 DEF WellPlanned, Erases
  <2> QED BY <2>3, <2>4 DEF Erases
<1>6. Only(p, "write", blocks) /\ Only(p, "read", blocks)
  <2>1. Only(p, "write", ranges) /\ Only(p, "read", ranges)
    BY <1>4 DEF WellPlanned
  <2>2. Only(p, "write", blocks)
    BY <1>3, <2>1 DEF Only
  <2>3. Only(p, "read", blocks)
    BY <1>3, <2>1 DEF Only
  <2> QED BY <2>2, <2>3
<1>7. All(p, "write", blocks) /\ All(p, "read", blocks)
  BY <1>3, <1>4 DEF WellPlanned, All
<1> QED BY <1>1, <1>2, <1>4, <1>5, <1>6, <1>7 DEF WellPlanned

-----------------------------------------------------------------------------
(* What the page and the board know.                                        *)

\* The commands that are done: acked, or executed with the ack to come.
Done(j) == j \in 1..Len(plan) /\ (j < step \/ (j = step /\ wire = "executed" /\ pc = "run"))

\* The types of the state.
Typed ==
  /\ DOMAIN flash = 0..(Size - 1) /\ file \in Files /\ step \in Nat
  /\ pc \in {"idle", "select", "run", "finish", "closing"}
  /\ wire \in {"idle", "sent", "executed", "stalled"}
  /\ image \in Seq(Block)

\* A flash is under way, or the last one is done.
Flashing == pc \in {"run", "finish", "closing"} \/ (pc = "idle" /\ status = "done")

\* The flash follows the plan for its file.
Following ==
  /\ image # <<>> => WellPlanned(plan, image)
  /\ Flashing => image # <<>> /\ step >= 1
  /\ pc = "select" => image = <<>>
  /\ pc = "run" => step <= Len(plan)
  /\ pc \in {"finish", "closing"} \/ (pc = "idle" /\ status = "done") => step >= Len(plan)
  /\ wire # "idle" => pc = "run" /\ ~cut

\* What was written was within the flash; the flash was readable when it was
\* read, and has not changed since.
Verified ==
  Flashing =>
    \A j \in 1..Len(plan) : Done(j) =>
      /\ plan[j].op = "write" => plan[j].addr + Len(plan[j].data) <= Size
      /\ plan[j].op = "enterCmdXip" => xip
      /\ plan[j].op = "read" /\ j < step => \A a, v : Has(plan[j], a, v) => flash[a] = v

\* The inductive invariant of DoneIsFlashed.
DoneInv == Typed /\ Following /\ Verified

\* Nothing went wrong since the button was pressed.
Undisturbed == ~excuse /\ pc # "idle"

\* What is erased and written stays, for blocks that agree with each other.
Holding ==
  \A j \in 1..Len(plan) : Done(j) =>
    /\ plan[j].op = "erase" =>
         \A a \in Sector(plan[j]) :
           flash[a] = Erased \/ \E k \in DOMAIN image : Has(image[k], a, flash[a])
    /\ plan[j].op = "write" => \A a, v : Has(plan[j], a, v) => flash[a] = v

\* exitXip holds until the verification.
Writable ==
  (\E j \in 1..Len(plan) : Done(j) /\ plan[j].op = "exitXip") =>
    (\E j \in 1..Len(plan) : j <= step /\ plan[j].op = "enterCmdXip") \/ ~xip

\* With DoneInv, the inductive invariant of SoundFilesFlash.
SoundInv ==
  /\ cut => pc \in {"run", "closing"}
  /\ pc = "closing" => status = "done"
  /\ Undisturbed => attached /\ boot /\ ~cut
  /\ Undisturbed /\ Flashing /\ Sound(image) => Holding /\ Writable /\ wire # "stalled"
  /\ SoundFilesFlash

-----------------------------------------------------------------------------
(* What a step does to the flash.                                           *)

\* The pages of a sector have the same quotient.
LEMMA InSector ==
  ASSUME NEW b \in Nat, b % SECTOR = 0, NEW c \in b..(b + SECTOR - 1), NEW d \in b..(b + SECTOR - 1)
  PROVE  c \div SECTOR = d \div SECTOR
<1>1. SECTOR \in Nat /\ SECTOR > 0
  BY Numbers
<1>2. b \div SECTOR \in Nat /\ b = (b \div SECTOR) * SECTOR + (b % SECTOR)
  BY <1>1
<1>3. PICK q, n : q = b \div SECTOR /\ n = SECTOR
  OBVIOUS
<1>4. ASSUME NEW x \in b..(b + SECTOR - 1) PROVE x \div SECTOR = q
  <2>1. q * n <= x /\ x < q * n + n /\ x \in Nat /\ q \in Nat /\ n \in Nat /\ n > 0
    BY <1>1, <1>2, <1>3, <1>4
  <2>2. x \div n = q
    BY <2>1
  <2> QED BY <1>3, <2>2
<1> QED BY <1>4

\* A sector that begins in the flash ends in it.
LEMMA WholeSectors == ASSUME NEW b \in Nat, b % SECTOR = 0, b < Size PROVE b + SECTOR <= Size
<1>1. SECTOR \in Nat /\ SECTOR > 0 /\ Size \in Nat /\ Size % SECTOR = 0
  BY Numbers
<1>2. /\ b \div SECTOR \in Nat /\ b = (b \div SECTOR) * SECTOR + (b % SECTOR)
      /\ Size \div SECTOR \in Nat /\ Size = (Size \div SECTOR) * SECTOR + (Size % SECTOR)
  BY <1>1
<1>3. PICK q, r, n : q = b \div SECTOR /\ r = Size \div SECTOR /\ n = SECTOR
  OBVIOUS
<1>4. q \in Nat /\ r \in Nat /\ n \in Nat /\ n > 0 /\ b = q * n /\ Size = r * n /\ q * n < r * n
  BY <1>1, <1>2, <1>3
<1>5. q + 1 <= r
  BY <1>4
<1>6. (q + 1) * n <= r * n
  BY <1>4, <1>5
<1> QED BY <1>3, <1>4, <1>6

\* A flash that runs is at a command of a plan for its blocks.
LEMMA Running ==
  ASSUME Typed, Following, pc = "run"
  PROVE  /\ WellPlanned(plan, image) /\ image # <<>> /\ Flashing
         /\ step \in 1..Len(plan) /\ Len(plan) \in Nat /\ Now \in Planned /\ Now = plan[step]
<1>1. Flashing /\ image # <<>> /\ step >= 1 /\ step <= Len(plan)
  BY DEF Following, Flashing
<1>2. WellPlanned(plan, image)
  BY <1>1 DEF Following
<1>3. plan \in Seq(Planned) /\ Len(plan) \in Nat
  BY <1>2 DEF WellPlanned
<1>4. step \in 1..Len(plan)
  BY <1>1, <1>3 DEF Typed
<1> QED BY <1>1, <1>2, <1>3, <1>4 DEF Now

\* The pages and the fields of a command.
LEMMA PagesOf ==
  ASSUME NEW c \in Planned
  PROVE  /\ Pages(c) \in Nat /\ c.addr \in Nat /\ c.data \in Seq(Nat) /\ Len(c.data) \in Nat
         /\ c.op = "erase" => Pages(c) = SECTOR
         /\ c.op = "write" => Pages(c) = Len(c.data)
         /\ c.op # "erase" /\ c.op # "write" => Pages(c) = 0
<1>1. c.addr \in Nat /\ c.data \in Seq(Nat) /\ Len(c.data) \in Nat
  BY DEF Planned
<1> QED BY <1>1, Numbers DEF Pages

\* What the flash holds after k pages of a command.
LEMMA AfterIs ==
  ASSUME NEW c \in Planned, NEW k \in 0..Pages(c), DOMAIN flash = 0..(Size - 1)
  PROVE  /\ DOMAIN After(c, k) = 0..(Size - 1)
         /\ \A a \in 0..(Size - 1) :
              /\ a < c.addr \/ a >= c.addr + k => After(c, k)[a] = flash[a]
              /\ a >= c.addr /\ a < c.addr + k /\ c.op = "erase" => After(c, k)[a] = Erased
              /\ a >= c.addr /\ a < c.addr + k /\ c.op = "write" =>
                   /\ flash[a] = Erased \/ flash[a] = c.data[a - c.addr + 1] =>
                        After(c, k)[a] = c.data[a - c.addr + 1]
<1>1. c.addr \in Nat /\ k \in Nat /\ Size \in Nat
  BY PagesOf, Numbers
<1>2. DOMAIN After(c, k) = 0..(Size - 1)
  BY DEF After
<1>3. ASSUME NEW a \in 0..(Size - 1), a < c.addr \/ a >= c.addr + k PROVE After(c, k)[a] = flash[a]
  BY <1>1, <1>3 DEF After
<1>4. ASSUME NEW a \in 0..(Size - 1), a >= c.addr, a < c.addr + k, c.op = "erase" PROVE After(c, k)[a] = Erased
  BY <1>1, <1>4 DEF After
<1>5. ASSUME NEW a \in 0..(Size - 1), a >= c.addr, a < c.addr + k, c.op = "write",
             flash[a] = Erased \/ flash[a] = c.data[a - c.addr + 1]
      PROVE  After(c, k)[a] = c.data[a - c.addr + 1]
  BY <1>1, <1>5 DEF After
<1> QED BY <1>2, <1>3, <1>4, <1>5

\* The pages a step may change: those of the command that is sent.
LEMMA Touched ==
  ASSUME Typed, Following, [Next]_vars
  PROVE  /\ DOMAIN flash' = 0..(Size - 1)
         /\ \A a \in 0..(Size - 1) : flash'[a] # flash[a] =>
              /\ pc = "run" /\ wire = "sent" /\ a >= Now.addr /\ a < Now.addr + Pages(Now)
              /\ Now.op = "erase" \/ Now.op = "write"
<1>1. CASE UNCHANGED flash
  BY <1>1 DEF Typed
<1> DEFINE Sent == pc = "run" /\ wire = "sent" /\ Now \in Planned
<1>2. wire = "sent" => Sent
  BY Running DEF Following
<1>3. ASSUME Sent, NEW k \in 0..Pages(Now), flash' = After(Now, k)
      PROVE  /\ DOMAIN flash' = 0..(Size - 1)
             /\ \A a \in 0..(Size - 1) : flash'[a] # flash[a] => a >= Now.addr /\ a < Now.addr + Pages(Now)
  <2>1. DOMAIN flash = 0..(Size - 1) /\ Pages(Now) \in Nat /\ Now.addr \in Nat
    BY <1>3, PagesOf DEF Typed
  <2>2. ASSUME NEW a \in 0..(Size - 1), flash'[a] # flash[a] PROVE a >= Now.addr /\ a < Now.addr + Pages(Now)
    <3>1. ~(a < Now.addr \/ a >= Now.addr + k)
      BY <1>3, <2>1, <2>2, AfterIs
    <3> QED BY <2>1, <3>1, Numbers
  <2> QED BY <1>3, <2>1, <2>2, AfterIs
<1>4. ASSUME Sent PROVE Pages(Now) \in 0..Pages(Now) /\ (Pages(Now) > 0 => Now.op = "erase" \/ Now.op = "write")
                        /\ Pages(Now) \in Nat /\ Now.addr \in Nat
  BY <1>4, PagesOf
<1>5. CASE Interrupted
  BY <1>1, <1>2, <1>3, <1>4, <1>5, Numbers DEF Interrupted
<1>6. CASE Execute
  <2>1. UNCHANGED flash \/ flash' = After(Now, Pages(Now))
    BY <1>6 DEF Execute, board
  <2>2. CASE flash' = After(Now, Pages(Now))
    <3>1. Sent
      BY <1>2, <1>6 DEF Execute
    <3>2. /\ DOMAIN flash' = 0..(Size - 1)
          /\ \A a \in 0..(Size - 1) : flash'[a] # flash[a] => a >= Now.addr /\ a < Now.addr + Pages(Now)
      BY <1>3, <1>4, <2>2, <3>1
    <3>3. ASSUME NEW a \in 0..(Size - 1), flash'[a] # flash[a] PROVE Pages(Now) > 0
      BY <1>4, <3>1, <3>2, <3>3, Numbers
    <3> QED BY <1>4, <1>6, <3>1, <3>2, <3>3 DEF Execute
  <2> QED BY <1>1, <2>1, <2>2
<1>7. CASE WriteLost
  <2>1. Sent /\ Now.op = "write" /\ flash' = [After(Now, Pages(Now)) EXCEPT ![Now.addr] = Junk]
    BY <1>2, <1>7 DEF WriteLost
  <2>2. Now.data # <<>> /\ Pages(Now) = Len(Now.data) /\ Len(Now.data) \in Nat
    BY <2>1, Running, PagesOf DEF WellPlanned, Only
  <2>3. Pages(Now) > 0
    BY <1>4, <2>1, <2>2, PagesOf
  <2>4. /\ DOMAIN After(Now, Pages(Now)) = 0..(Size - 1)
        /\ \A a \in 0..(Size - 1) : After(Now, Pages(Now))[a] # flash[a] => a >= Now.addr /\ a < Now.addr + Pages(Now)
    BY <1>4, <2>1, AfterIs, Numbers DEF Typed
  <2> QED BY <1>4, <2>1, <2>3, <2>4
<1>8. UNCHANGED flash \/ Interrupted \/ Execute \/ WriteLost
  BY DEF Next, vars, board, page, job, PickFile, Click, Handler, Select, Send, Ack, Throw, Finish, Closed,
         CloseOld, Open, DisconnectEvent, Stall, Unplug, DropOff, Replug
<1> QED BY <1>1, <1>5, <1>6, <1>7, <1>8

-----------------------------------------------------------------------------
(* What "done" says.                                                        *)

\* Every step keeps the types.
LEMMA TypedStep == Typed /\ Following /\ [Next]_vars => Typed'
<1> SUFFICES ASSUME Typed, Following, [Next]_vars PROVE Typed'
  OBVIOUS
<1>1. DOMAIN flash' = 0..(Size - 1)
  BY Touched
<1>2. file' \in Files
  <2>1. file' = file \/ \E f \in Files : file' = IF f.bad THEN NoFile ELSE f
    BY DEF Next, vars, page, PickFile, Click, Handler, Select, Send, Execute, Ack, Throw, Finish, Closed,
           CloseOld, Open, DisconnectEvent, Stall, WriteLost, Unplug, DropOff, Replug
  <2> QED BY <2>1, Numbers DEF Typed
<1>3. step' \in Nat
  <2>1. step' = step \/ step' = 0 \/ step' = 1 \/ step' = step + 1
    BY DEF Next, vars, page, job, PickFile, Click, Handler, Select, Send, Execute, Ack, Throw, Finish, Closed,
           CloseOld, Open, DisconnectEvent, Stall, WriteLost, Unplug, DropOff, Replug
  <2> QED BY <2>1 DEF Typed
<1>4. pc' \in {"idle", "select", "run", "finish", "closing"} /\ wire' \in {"idle", "sent", "executed", "stalled"}
  BY DEF Typed, Next, vars, page, job, PickFile, Click, Handler, Select, Send, Execute, Ack, Throw, Finish, Closed,
         CloseOld, Open, DisconnectEvent, Stall, WriteLost, Unplug, DropOff, Replug, Failed, Idle, Cut
<1>5. image' \in Seq(Block)
  <2>1. image' = image \/ image' = <<>> \/ (Select /\ image' = Blocks[file])
    BY DEF Next, vars, page, job, PickFile, Click, Handler, Select, Send, Execute, Ack, Throw, Finish, Closed,
           CloseOld, Open, DisconnectEvent, Stall, WriteLost, Unplug, DropOff, Replug
  <2>2. <<>> \in Seq(Block) /\ Blocks[file] \in Seq(Block)
    BY BlocksOf DEF Typed
  <2> QED BY <2>1, <2>2 DEF Typed
<1> QED BY <1>1, <1>2, <1>3, <1>4, <1>5 DEF Typed

\* What a step does to the handler.
LEMMA Moves ==
  ASSUME Typed, Following, [Next]_vars
  PROVE  \/ UNCHANGED <<pc, image, plan, step>> /\ (pc # "idle" \/ UNCHANGED status)
         \/ pc' = "select" /\ image' = <<>>
         \/ pc = "select" /\ pc' = "run" /\ image' = Blocks[file] /\ image' # <<>> /\ plan' = Plans[file] /\ step' = 1
         \/ pc' = "idle" /\ status' = "failed" /\ UNCHANGED <<image, plan, step>>
         \/ pc = "run" /\ pc' = "run" /\ wire = "executed" /\ step < Len(plan) /\ step' = step + 1 /\ UNCHANGED <<image, plan>>
         \/ pc = "run" /\ pc' = "finish" /\ wire = "executed" /\ step = Len(plan) /\ step' = step + 1 /\ UNCHANGED <<image, plan>>
         \/ pc = "run" /\ pc' = "finish" /\ Now.op = "reboot" /\ UNCHANGED <<image, plan, step>>
         \/ pc = "finish" /\ pc' = "closing" /\ UNCHANGED <<image, plan, step>>
         \/ pc = "closing" /\ pc' = "idle" /\ UNCHANGED <<image, plan, step>>
<1>1. CASE Select
  BY <1>1 DEF Select, Failed, Idle
<1>2. CASE Ack
  <2>1. step \in Nat /\ Len(plan) \in Nat /\ step <= Len(plan)
    BY <1>2, Running DEF Ack
  <2> QED BY <1>2, <2>1 DEF Ack, Failed, Idle
<1>3. CASE Throw
  BY <1>3 DEF Throw, Failed, Idle
<1>4. CASE Finish
  BY <1>4 DEF Finish, Failed, Idle
<1>5. CASE Closed \/ Click
  BY <1>5 DEF Closed, Click
<1>6. CASE UNCHANGED <<pc, image, plan, step>> /\ UNCHANGED status
  BY <1>6
<1>7. \/ Select \/ Ack \/ Throw \/ Finish \/ Closed \/ Click
      \/ UNCHANGED <<pc, image, plan, step>> /\ UNCHANGED status
  BY DEF Next, vars, page, job, PickFile, Handler, Send, Execute,
         CloseOld, Open, DisconnectEvent, Stall, WriteLost, Unplug, DropOff, Replug
<1> QED BY <1>1, <1>2, <1>3, <1>4, <1>5, <1>6, <1>7

\* Every step keeps to the plan.
LEMMA FollowingStep == Typed /\ Following /\ [Next]_vars => Following'
<1> SUFFICES ASSUME Typed, Following, [Next]_vars PROVE Following'
  OBVIOUS
<1>1. image' # <<>> => WellPlanned(plan', image')
  <2>1. \/ UNCHANGED <<image, plan>>
        \/ image' = <<>>
        \/ image' = Blocks[file] /\ plan' = Plans[file]
    BY Moves
  <2> QED BY <2>1, PlansFlashTheirFiles DEF Following, Typed
<1>2. pc' = "run" => step' <= Len(plan')
  <2>1. ASSUME pc = "select", pc' = "run", image' = Blocks[file], image' # <<>>, plan' = Plans[file], step' = 1
        PROVE  step' <= Len(plan')
    <3>1. Len(Plans[file]) > 0 /\ Plans[file] \in Seq(Planned)
      BY PlansFlashTheirFiles DEF Typed, WellPlanned
    <3> QED BY <2>1, <3>1
  <2>2. ASSUME pc = "run", step < Len(plan), step' = step + 1, plan' = plan PROVE step' <= Len(plan')
    BY <2>2, Running
  <2> QED BY <2>1, <2>2, Moves DEF Following
<1>3. pc' \in {"finish", "closing"} \/ (pc' = "idle" /\ status' = "done") => step' >= Len(plan')
  <2>1. ASSUME pc = "run", Now.op = "reboot", UNCHANGED <<plan, step>> PROVE step' >= Len(plan')
    BY <2>1, Running DEF WellPlanned
  <2>2. ASSUME pc = "run", step = Len(plan), step' = step + 1, UNCHANGED plan PROVE step' >= Len(plan')
    BY <2>2, Running
  <2> QED BY <2>1, <2>2, Moves DEF Following
<1>4. Flashing' => image' # <<>> /\ step' >= 1
  BY Moves DEF Following, Flashing, Typed
<1>5. pc' = "select" => image' = <<>>
  BY Moves DEF Following
<1>6. wire' # "idle" => pc' = "run" /\ ~cut'
  BY DEF Following, Next, vars, page, job, PickFile, Click, Handler, Select, Send, Execute, Ack, Throw, Finish, Closed,
         CloseOld, Open, DisconnectEvent, Stall, WriteLost, Unplug, DropOff, Replug, Failed, Idle, Cut
<1> QED BY <1>1, <1>2, <1>3, <1>4, <1>5, <1>6 DEF Following

\* A command that is newly done has been executed, and one that is newly acked
\* has passed its check.
LEMMA Progress ==
  ASSUME Typed, Following, [Next]_vars, Flashing', NEW j \in 1..Len(plan'), Done(j)'
  PROVE  /\ plan' = plan /\ image' = image /\ Flashing
         /\ Done(j) \/ (pc = "run" /\ j = step /\ (Execute \/ WriteLost) /\ wire' = "executed")
         /\ j < step' => j < step \/ (j = step /\ Ack /\ pc = "run" /\ (Now.op = "read" => Reads(Now) = Now.data))
<1>1. ASSUME pc = "select", pc' = "run", step' = 1 PROVE FALSE
  <2>1. wire' = "idle"
    BY <1>1 DEF Following, Next, vars, page, job, PickFile, Click, Handler, Select, Send, Execute, Ack, Throw,
           Finish, Closed, CloseOld, Open, DisconnectEvent, Stall, WriteLost, Unplug, DropOff, Replug, Failed, Idle, Cut
  <2>2. j \in Nat /\ j >= 1
    OBVIOUS
  <2> QED BY <1>1, <2>1, <2>2 DEF Done
<1>2. UNCHANGED <<image, plan>> /\ Flashing
  BY <1>1, Moves DEF Flashing
<1>3. \/ UNCHANGED step
      \/ pc = "run" /\ wire = "executed" /\ step' = step + 1
  BY <1>1, Moves DEF Flashing
<1>4. j \in Nat /\ step \in Nat
  BY DEF Typed
<1>5. CASE step' = step + 1 /\ pc = "run" /\ wire = "executed"
  <2>1. Ack /\ wire' = "idle" /\ (Now.op = "read" => Reads(Now) = Now.data)
    <3>1. step' # step
      BY <1>4, <1>5
    <3>2. pc' # "idle" \/ status' # "failed"
      BY DEF Flashing
    <3>3. Ack
      BY <1>5, <3>1 DEF Next, vars, page, job, PickFile, Click, Handler, Select, Send, Execute, Throw,
           Finish, Closed, CloseOld, Open, DisconnectEvent, Stall, WriteLost, Unplug, DropOff, Replug
    <3> QED BY <3>1, <3>2, <3>3 DEF Ack, Failed, Idle
  <2>2. j < step \/ j = step
    BY <1>2, <1>4, <1>5, <2>1 DEF Done
  <2>3. Done(j)
    BY <1>2, <1>5, <2>2 DEF Done
  <2> QED BY <1>2, <1>5, <2>1, <2>2, <2>3
<1>6. CASE UNCHANGED step
  <2>1. CASE j < step
    BY <1>2, <1>6, <2>1 DEF Done
  <2>2. CASE j = step /\ wire' = "executed" /\ pc' = "run"
    <3>1. pc = "run"
      BY <1>1, <2>2, Moves DEF Following
    <3>2. wire = "executed" \/ Execute \/ WriteLost
      BY <2>2 DEF Next, vars, page, job, PickFile, Click, Handler, Select, Send, Ack, Throw, Failed, Idle, Cut,
           Finish, Closed, CloseOld, Open, DisconnectEvent, Stall, Unplug, DropOff, Replug
    <3> QED BY <1>2, <1>4, <1>6, <2>2, <3>1, <3>2 DEF Done
  <2> QED BY <1>4, <1>6, <2>1, <2>2 DEF Done
<1> QED BY <1>3, <1>5, <1>6

\* Once commands to read have begun, nothing is written.
LEMMA Later ==
  ASSUME Typed, Following, pc = "run", NEW j \in 1..Len(plan), Done(j)
  PROVE  Rank(plan[j].op) <= Rank(Now.op)
<1>1. InOrder(plan) /\ Now = plan[step] /\ step \in 1..Len(plan) /\ j <= step
  BY Running DEF WellPlanned, Done, Typed
<1>2. CASE j < step
  BY <1>1, <1>2 DEF InOrder
<1>3. CASE j = step
  BY <1>1, <1>3 DEF Rank
<1> QED BY <1>1, <1>2, <1>3

\* By the time a page is read back it is within the flash, which is readable.
LEMMA Readable ==
  ASSUME Typed, Following, Verified, Flashing, NEW j \in 1..Len(plan), plan[j].op = "read", j <= step,
         NEW a, NEW v, Has(plan[j], a, v)
  PROVE  xip /\ a \in 0..(Size - 1)
<1>1. WellPlanned(plan, image) /\ step \in Nat
  BY DEF Following, Typed
<1>2. InOrder(plan) /\ Len(plan) \in Nat /\ \A i \in 1..Len(plan) : plan[i] \in Planned
  BY <1>1 DEF WellPlanned
<1>3. ASSUME NEW i \in 1..Len(plan), Rank(plan[i].op) < 6, Rank(plan[i].op) \in Nat PROVE Done(i)
  <2>1. Rank(plan[j].op) = 6
    BY DEF Rank
  <2>2. ~(j < i) /\ j # i
    BY <1>2, <1>3, <2>1 DEF InOrder
  <2> QED BY <1>1, <1>2, <2>2 DEF Done
<1>4. PICK e \in 1..Len(plan) : plan[e].op = "enterCmdXip"
  BY <1>1 DEF WellPlanned
<1>5. xip
  BY <1>3, <1>4 DEF Verified, Rank
<1>6. PICK k \in DOMAIN image : Has(image[k], a, v)
  BY <1>1 DEF WellPlanned, Only
<1>7. PICK i \in 1..Len(plan) : plan[i].op = "write" /\ Has(plan[i], a, v)
  BY <1>1, <1>6 DEF WellPlanned, All
<1>8. plan[i].addr + Len(plan[i].data) <= Size
  BY <1>3, <1>7 DEF Verified, Rank
<1>9. plan[i].addr \in Nat /\ Len(plan[i].data) \in Nat
  BY <1>2, PagesOf
<1>10. a \in plan[i].addr..(plan[i].addr + Len(plan[i].data) - 1)
  BY <1>7 DEF Has, Cells
<1> QED BY <1>5, <1>8, <1>9, <1>10, Numbers

\* Every step keeps what was verified true.
LEMMA VerifiedStep == Typed /\ Following /\ Verified /\ [Next]_vars => Verified'
<1> SUFFICES ASSUME Typed, Following, Verified, [Next]_vars, Flashing', NEW j \in 1..Len(plan'), Done(j)'
             PROVE  /\ plan'[j].op = "write" => plan'[j].addr + Len(plan'[j].data) <= Size
                    /\ plan'[j].op = "enterCmdXip" => xip'
                    /\ plan'[j].op = "read" /\ j < step' => \A a, v : Has(plan'[j], a, v) => flash'[a] = v
  BY DEF Verified
<1>1. /\ plan' = plan /\ image' = image /\ Flashing /\ j \in 1..Len(plan)
      /\ Done(j) \/ (pc = "run" /\ j = step /\ (Execute \/ WriteLost) /\ wire' = "executed")
      /\ j < step' => j < step \/ (j = step /\ Ack /\ pc = "run" /\ (Now.op = "read" => Reads(Now) = Now.data))
  BY Progress
<1>2. WellPlanned(plan, image) /\ plan[j] \in Planned
  <2>1. image # <<>>
    BY <1>1 DEF Following
  <2> QED BY <1>1, <2>1 DEF Following, WellPlanned
<1>3. ASSUME plan[j].op = "write" PROVE plan[j].addr + Len(plan[j].data) <= Size
  <2>1. CASE Done(j)
    BY <1>1, <1>3, <2>1 DEF Verified
  <2>2. CASE pc = "run" /\ j = step /\ (Execute \/ WriteLost) /\ wire' = "executed"
    <3>1. ~Refuses(Now) /\ Now = plan[j]
      BY <2>2 DEF Execute, WriteLost, Now
    <3>2. Pages(Now) = Len(plan[j].data) /\ plan[j].addr \in Nat /\ Len(plan[j].data) \in Nat
      BY <1>2, <1>3, <3>1, PagesOf
    <3> QED BY <3>1, <3>2, Numbers DEF Refuses
  <2> QED BY <1>1, <2>1, <2>2
<1>4. ASSUME plan[j].op = "enterCmdXip" PROVE xip'
  <2>1. CASE Done(j)
    <3>1. xip
      BY <1>1, <1>4, <2>1 DEF Verified
    <3>2. ASSUME Execute, ~Refuses(Now) PROVE Now.op # "exitXip"
      <4>1. pc = "run"
        BY <3>2 DEF Execute, Following
      <4>2. Rank("enterCmdXip") <= Rank(Now.op)
        BY <1>1, <1>4, <2>1, <4>1, Later
      <4> QED BY <4>2 DEF Rank
    <3>3. CASE Execute
      BY <3>1, <3>2, <3>3 DEF Execute, board
    <3>4. CASE ~Execute
      BY <3>1, <3>4 DEF Next, vars, board, PickFile, Click, Handler, Select, Send, Ack, Throw,
           Finish, Closed, CloseOld, Open, DisconnectEvent, Stall, WriteLost, Unplug, DropOff, Replug
    <3> QED BY <3>3, <3>4
  <2>2. CASE pc = "run" /\ j = step /\ (Execute \/ WriteLost) /\ wire' = "executed"
    BY <1>4, <2>2 DEF Execute, WriteLost, Now
  <2> QED BY <1>1, <2>1, <2>2
<1>5. ASSUME plan[j].op = "read", j < step', NEW a, NEW v, Has(plan[j], a, v) PROVE flash'[a] = v
  <2>1. CASE j < step
    <3>1. flash[a] = v /\ Done(j)
      BY <1>1, <1>5, <2>1 DEF Verified, Done
    <3>2. ASSUME pc = "run" PROVE Now.op # "erase" /\ Now.op # "write"
      BY <1>1, <1>5, <3>1, <3>2, Later DEF Rank
    <3>3. a \in 0..(Size - 1)
      <4>1. j <= step
        BY <2>1 DEF Typed
      <4>2. Has(plan[j], a, v) /\ plan[j].op = "read"
        BY <1>1, <1>5
      <4> QED BY <1>1, <4>1, <4>2, Readable
    <3> QED BY <3>1, <3>2, <3>3, Touched
  <2>2. CASE j = step /\ Ack /\ pc = "run" /\ Reads(Now) = Now.data
    <3>1. flash' = flash /\ Now = plan[j]
      BY <2>2 DEF Ack, board, Now
    <3>2. xip
      BY <1>1, <1>5, <2>2, Readable DEF Typed
    <3>3. PICK c : c = plan[j]
      OBVIOUS
    <3>4. c.addr \in Nat /\ c.data \in Seq(Nat) /\ Len(c.data) \in Nat
      BY <1>2, <3>3, PagesOf
    <3>5. a \in c.addr..(c.addr + Len(c.data) - 1) /\ v = c.data[a - c.addr + 1]
      BY <1>5, <3>3 DEF Has, Cells
    <3>6. PICK k : k = a - c.addr + 1
      OBVIOUS
    <3>7. k \in 1..Len(c.data) /\ a = c.addr + k - 1
      BY <3>4, <3>5, <3>6, Offset
    <3>8. Reads(c)[k] = flash[c.addr + k - 1]
      BY <3>2, <3>7 DEF Reads
    <3> QED BY <2>2, <3>1, <3>3, <3>5, <3>6, <3>7, <3>8
  <2> QED BY <1>1, <1>5, <2>1, <2>2 DEF Now
<1> QED BY <1>1, <1>3, <1>4, <1>5

\* The invariant of DoneIsFlashed holds at the start.
LEMMA DoneInit == Init => DoneInv
<1> SUFFICES ASSUME Init PROVE DoneInv
  OBVIOUS
<1>1. Typed
  <2>1. DOMAIN flash = 0..(Size - 1) /\ file \in Files /\ step \in Nat
    BY Numbers DEF Init
  <2>2. image \in Seq(Block)
    BY EmptySeq DEF Init
  <2> QED BY <2>1, <2>2 DEF Init, Typed
<1>2. Following /\ Verified
  BY DEF Init, Following, Verified, Flashing
<1> QED BY <1>1, <1>2 DEF DoneInv

\* The invariant of DoneIsFlashed is kept by every step.
LEMMA DoneStep == DoneInv /\ [Next]_vars => DoneInv'
BY TypedStep, FollowingStep, VerifiedStep DEF DoneInv

\* What the page shows as done is in the flash, page by page, until the user
\* starts again: it was within the flash, read back after the last write, and
\* nothing writes after that, whatever happens to board and connection.
THEOREM DoneIsTrue == Spec => []DoneIsFlashed
<1>1. DoneInv => DoneIsFlashed
  <2> SUFFICES ASSUME DoneInv, status = "done", pc \in {"idle", "closing"}
               PROVE  image # <<>> /\ Holds(image)
    BY DEF DoneIsFlashed
  <2>1. Flashing /\ image # <<>> /\ WellPlanned(plan, image) /\ step >= Len(plan) /\ step \in Nat
    BY DEF DoneInv, Following, Flashing, Typed
  <2>2. ASSUME NEW k \in DOMAIN image, NEW a \in Cells(image[k])
        PROVE  a < Size /\ flash[a] = image[k].data[a - image[k].addr + 1]
    <3>1. PICK v : Has(image[k], a, v) /\ v = image[k].data[a - image[k].addr + 1]
      BY <2>2 DEF Has
    <3>2. PICK j \in 1..Len(plan) : plan[j].op = "read" /\ Has(plan[j], a, v)
      BY <2>1, <3>1 DEF WellPlanned, All
    <3>3. plan \in Seq(Planned) /\ Len(plan) \in Nat /\ j # Len(plan)
      BY <2>1, <3>2 DEF WellPlanned
    <3>4. j < step
      BY <2>1, <3>3
    <3>5. flash[a] = v
      BY <2>1, <3>2, <3>4 DEF DoneInv, Verified, Done
    <3>6. a \in 0..(Size - 1)
      BY <2>1, <3>2, <3>4, Readable DEF DoneInv
    <3> QED BY <3>1, <3>5, <3>6, Numbers
  <2> QED BY <2>1, <2>2 DEF Holds
<1> QED BY <1>1, DoneInit, DoneStep, PTL DEF Spec

\* Flashing changes no page outside the sectors of the file: no erase and no
\* write, also one that is interrupted or loses its bits.
THEOREM OtherSectors == Spec => OthersKept
<1>1. ASSUME DoneInv, [Next]_vars
      PROVE  \A a \in DOMAIN flash : flash'[a] # flash[a] =>
               \E k \in DOMAIN image : \E c \in Span(image[k]) : c \div SECTOR = a \div SECTOR
  <2> SUFFICES ASSUME NEW a \in DOMAIN flash, flash'[a] # flash[a]
               PROVE  \E k \in DOMAIN image : \E c \in Span(image[k]) : c \div SECTOR = a \div SECTOR
    OBVIOUS
  <2>1. /\ a \in 0..(Size - 1) /\ pc = "run" /\ a >= Now.addr /\ a < Now.addr + Pages(Now)
        /\ Now.op = "erase" \/ Now.op = "write"
    BY <1>1, Touched DEF DoneInv, Typed
  <2>2. WellPlanned(plan, image) /\ step \in 1..Len(plan) /\ Now \in Planned /\ Now = plan[step]
    BY <1>1, <2>1, Running DEF DoneInv
  <2>3. CASE Now.op = "write"
    <3>1. a \in Cells(Now)
      BY <2>1, <2>2, <2>3, PagesOf, Numbers DEF Cells
    <3>2. PICK v : Has(Now, a, v)
      BY <3>1 DEF Has
    <3>3. PICK k \in DOMAIN image : Has(image[k], a, v)
      BY <2>2, <2>3, <3>2 DEF WellPlanned, Only
    <3> QED BY <3>3 DEF Has, Span
  <2>4. CASE Now.op = "erase"
    <3>1. PICK k \in DOMAIN image : \E c \in Span(image[k]) : c \in Sector(Now)
      BY <2>2, <2>4 DEF WellPlanned, Erases
    <3>2. Now.addr \in Nat /\ Now.addr % SECTOR = 0 /\ Pages(Now) = SECTOR
      BY <2>2, <2>4, PagesOf DEF WellPlanned, Erases
    <3>3. PICK c \in Span(image[k]) : c \in Sector(Now)
      BY <3>1
    <3>4. c \in Now.addr..(Now.addr + SECTOR - 1) /\ a \in Now.addr..(Now.addr + SECTOR - 1)
      BY <2>1, <3>2, <3>3, Numbers DEF Sector
    <3>5. PICK n : n = Now.addr
      OBVIOUS
    <3>6. c \div SECTOR = a \div SECTOR
      BY <3>2, <3>4, <3>5, InSector
    <3> QED BY <3>6
  <2> QED BY <2>1, <2>3, <2>4
<1>2. DoneInv /\ [Next]_vars =>
        [\A a \in DOMAIN flash : flash'[a] # flash[a] =>
           \E k \in DOMAIN image : \E c \in Span(image[k]) : c \div SECTOR = a \div SECTOR]_vars
  BY <1>1
<1> QED BY <1>2, DoneInit, DoneStep, PTL DEF Spec, OthersKept
-----------------------------------------------------------------------------
(* Files that are within the flash and do not contradict themselves.        *)

\* The blocks of a sound file agree on a page, and lie in the flash.
LEMMA Agree ==
  ASSUME Sound(image), NEW k \in DOMAIN image, NEW l \in DOMAIN image, NEW a, NEW v, NEW w,
         Has(image[k], a, v), Has(image[l], a, w)
  PROVE  v = w /\ a \in 0..(Size - 1)
BY DEF Sound, Has, Span

\* A command of the plan about some page is about pages of the flash only.
LEMMA Fits ==
  ASSUME Typed, WellPlanned(plan, image), Sound(image), NEW j \in 1..Len(plan)
  PROVE  /\ plan[j].addr + Pages(plan[j]) <= Size
         /\ plan[j].op = "erase" => \A a \in Sector(plan[j]) : a \in 0..(Size - 1)
         /\ plan[j].op = "write" => \A a, v : Has(plan[j], a, v) => a \in 0..(Size - 1)
<1> DEFINE c == plan[j]
<1>1. /\ c \in Planned /\ c.addr \in Nat /\ c.data \in Seq(Nat) /\ Len(c.data) \in Nat /\ Pages(c) \in Nat
      /\ c.op = "erase" => Pages(c) = SECTOR
      /\ c.op = "write" => Pages(c) = Len(c.data)
      /\ c.op # "erase" /\ c.op # "write" => Pages(c) = 0
  <2>1. c \in Planned
    BY DEF WellPlanned
  <2> QED BY <2>1, PagesOf
<1>2. ASSUME c.op = "erase" PROVE c.addr + SECTOR <= Size
  <2>1. PICK k \in DOMAIN image : \E a \in Span(image[k]) : a \in Sector(c)
    BY <1>2 DEF WellPlanned, Erases
  <2>2. PICK a \in Span(image[k]) : a \in Sector(c)
    BY <2>1
  <2>3. a \in 0..(Size - 1) /\ a >= c.addr /\ c.addr % SECTOR = 0
    BY <1>1, <1>2, <2>1, <2>2, Numbers DEF Sound, Sector, WellPlanned, Erases
  <2>4. c.addr < Size
    BY <1>1, <2>3, Numbers
  <2> QED BY <1>1, <2>3, <2>4, WholeSectors
<1>3. ASSUME c.op \in {"write", "read"}, NEW a, NEW v, Has(c, a, v) PROVE a \in 0..(Size - 1)
  <2>1. PICK k \in DOMAIN image : Has(image[k], a, v)
    BY <1>3 DEF WellPlanned, Only
  <2> QED BY <2>1, Agree
<1>4. ASSUME c.op \in {"write", "read"} PROVE c.addr + Len(c.data) <= Size
  <2>1. c.data # <<>>
    BY <1>4 DEF WellPlanned, Only
  <2>2. PICK a : a = c.addr + Len(c.data) - 1
    OBVIOUS
  <2>3. Len(c.data) > 0
    BY <1>1, <2>1
  <2>4. a \in Cells(c)
    BY <1>1, <2>2, <2>3 DEF Cells
  <2>5. Has(c, a, c.data[a - c.addr + 1])
    BY <2>4 DEF Has
  <2>6. a \in 0..(Size - 1)
    BY <1>3, <1>4, <2>5
  <2> QED BY <1>1, <2>2, <2>6, Numbers
<1>5. c.op \in {"exclusive", "exitXip", "enterCmdXip", "reboot"} => c.addr = 0
  BY DEF WellPlanned
<1>6. c.op \in {"exclusive", "exitXip", "erase", "write", "enterCmdXip", "read", "reboot"}
  BY <1>1 DEF Planned
<1>7. c.addr + Pages(c) <= Size
  BY <1>1, <1>2, <1>4, <1>5, <1>6, Numbers
<1>8. c.op = "erase" => \A a \in Sector(c) : a \in 0..(Size - 1)
  BY <1>1, <1>2, Numbers DEF Sector
<1> QED BY <1>3, <1>7, <1>8

\* What is due in an undisturbed flash.
Due == Typed /\ Following /\ Sound(image) /\ Holding /\ Writable /\ pc = "run"

\* While a command is issued, those of the phases before it are done.
LEMMA Earlier ==
  ASSUME Typed, Following, pc = "run", NEW j \in 1..Len(plan), Rank(plan[j].op) < Rank(Now.op)
  PROVE  j < step /\ Done(j)
<1>1. InOrder(plan) /\ Now = plan[step] /\ step \in 1..Len(plan) /\ Len(plan) \in Nat
  BY Running DEF WellPlanned
<1>2. Rank(plan[j].op) \in Nat /\ Rank(Now.op) \in Nat
  BY DEF Rank
<1>3. ~(step < j) /\ j # step
  BY <1>1, <1>2 DEF InOrder
<1> QED BY <1>1, <1>3 DEF Done

\* The board refuses no command of a sound file.
LEMMA NotRefused == ASSUME Due PROVE ~Refuses(Now)
<1>1. /\ WellPlanned(plan, image) /\ step \in 1..Len(plan) /\ Now = plan[step] /\ Now \in Planned
      /\ Len(plan) \in Nat
  BY Running DEF Due
<1>2. Now.addr + Pages(Now) <= Size
  BY <1>1, Fits DEF Due
<1>3. ASSUME Pages(Now) > 0 PROVE ~xip
  <2>1. Now.op = "erase" \/ Now.op = "write"
    BY <1>1, <1>3, PagesOf
  <2>2. PICK e \in 1..Len(plan) : plan[e].op = "exitXip"
    BY <1>1 DEF WellPlanned
  <2>3. Done(e)
    BY <2>1, <2>2, Earlier DEF Due, Rank
  <2>4. ASSUME NEW j \in 1..Len(plan), j <= step, plan[j].op = "enterCmdXip" PROVE FALSE
    <3>1. Rank(plan[j].op) <= Rank(Now.op)
      <4>1. CASE j < step
        BY <1>1, <4>1 DEF WellPlanned, InOrder
      <4>2. CASE j = step
        BY <1>1, <2>1, <2>4, <4>2
      <4> QED BY <1>1, <2>4, <4>1, <4>2
    <3> QED BY <2>1, <2>4, <3>1 DEF Rank
  <2> QED BY <2>2, <2>3, <2>4 DEF Due, Writable
<1>4. Now.addr + Pages(Now) \in Nat /\ Size \in Nat /\ Pages(Now) \in Nat
  BY <1>1, PagesOf, Numbers
<1> QED BY <1>2, <1>3, <1>4 DEF Refuses

\* A page that is written was erased, or already has its value.
LEMMA Blank ==
  ASSUME Due, Now.op = "write", NEW a, NEW v, Has(Now, a, v)
  PROVE  /\ a \in 0..(Size - 1) /\ (flash[a] = Erased \/ flash[a] = v)
         /\ After(Now, Pages(Now))[a] = v
         /\ \E k \in DOMAIN image : Has(image[k], a, v)
<1>1. /\ WellPlanned(plan, image) /\ step \in 1..Len(plan) /\ Now = plan[step] /\ Now \in Planned
      /\ Len(plan) \in Nat
  BY Running DEF Due
<1>2. PICK k \in DOMAIN image : Has(image[k], a, v)
  BY <1>1 DEF WellPlanned, Only
<1>3. a \in 0..(Size - 1)
  BY <1>2, Agree DEF Due
<1>4. PICK e \in 1..Len(plan) : plan[e].op = "erase" /\ a \in Sector(plan[e])
  BY <1>1, <1>2 DEF WellPlanned, Erases, Has
<1>5. Done(e)
  BY <1>4, Earlier DEF Due, Rank
<1>6. flash[a] = Erased \/ flash[a] = v
  <2>1. flash[a] = Erased \/ \E l \in DOMAIN image : Has(image[l], a, flash[a])
    BY <1>4, <1>5 DEF Due, Holding
  <2> QED BY <1>2, <2>1, Agree DEF Due
<1>7. Pages(Now) \in Nat /\ Now.addr \in Nat /\ Pages(Now) = Len(Now.data)
  BY <1>1, PagesOf
<1>8. a >= Now.addr /\ a < Now.addr + Pages(Now) /\ v = Now.data[a - Now.addr + 1]
  BY <1>3, <1>7 DEF Has, Cells
<1>9. After(Now, Pages(Now))[a] = v
  <2>1. PICK c, n : c = Now /\ n = Pages(Now)
    OBVIOUS
  <2>2. n \in 0..Pages(c) /\ c \in Planned /\ DOMAIN flash = 0..(Size - 1) /\ c.op = "write"
    BY <1>1, <1>7, <2>1 DEF Due, Typed
  <2>3. \A b \in 0..(Size - 1) :
          b >= c.addr /\ b < c.addr + n /\ c.op = "write" =>
            (flash[b] = Erased \/ flash[b] = c.data[b - c.addr + 1] => After(c, n)[b] = c.data[b - c.addr + 1])
    BY <2>2, AfterIs
  <2>4. a >= c.addr /\ a < c.addr + n /\ v = c.data[a - c.addr + 1]
    BY <1>8, <2>1
  <2>5. After(c, n)[a] = v
    BY <1>3, <1>6, <2>2, <2>3, <2>4
  <2> QED BY <2>1, <2>5
<1> QED BY <1>2, <1>3, <1>6, <1>9

\* What is read back is what was to be written.
LEMMA ReadsBack == ASSUME Due, Verified, Now.op = "read" PROVE Reads(Now) = Now.data
<1>1. /\ WellPlanned(plan, image) /\ step \in 1..Len(plan) /\ Now = plan[step] /\ Now \in Planned
      /\ Len(plan) \in Nat /\ Flashing
  BY Running DEF Due
<1>2. Now.addr \in Nat /\ Now.data \in Seq(Nat) /\ Len(Now.data) \in Nat
  BY <1>1, PagesOf
<1>3. ASSUME NEW n \in 1..Len(Now.data) PROVE Reads(Now)[n] = Now.data[n]
  <2>1. PICK a, v : a = Now.addr + n - 1 /\ v = Now.data[n]
    OBVIOUS
  <2>2. Has(Now, a, v)
    BY <1>2, <1>3, <2>1 DEF Has, Cells
  <2>3. xip
    BY <1>1, <2>2, Readable DEF Due
  <2>4. PICK k \in DOMAIN image : Has(image[k], a, v)
    BY <1>1, <2>2 DEF WellPlanned, Only
  <2>5. PICK i \in 1..Len(plan) : plan[i].op = "write" /\ Has(plan[i], a, v)
    BY <1>1, <2>4 DEF WellPlanned, All
  <2>6. Rank(plan[i].op) < Rank(Now.op)
    BY <2>5 DEF Rank
  <2>7. Done(i)
    BY <2>6, Earlier DEF Due
  <2>8. flash[a] = v
    BY <2>5, <2>7 DEF Due, Holding
  <2> QED BY <1>2, <1>3, <2>1, <2>3, <2>8 DEF Reads
<1>4. Now.data = [n \in 1..Len(Now.data) |-> Now.data[n]]
  BY <1>2
<1> QED BY <1>3, <1>4 DEF Reads

\* A step that leaves a flash undisturbed.
LEMMA Calm ==
  ASSUME Typed, Following, SoundInv, [Next]_vars, Undisturbed'
  PROVE  \/ Click /\ attached /\ pc = "idle"
         \/ /\ Undisturbed /\ attached /\ boot /\ ~cut
            /\ ~Stall /\ ~WriteLost /\ ~Unplug /\ ~DropOff /\ ~CloseOld /\ ~Open /\ ~DisconnectEvent /\ ~Replug
<1>1. CASE Click
  BY <1>1 DEF Click, Undisturbed
<1>2. CASE ~Click
  <2>1. pc # "idle"
    BY <1>2 DEF Undisturbed, Following, Next, vars, page, job, PickFile, Handler, Select, Send, Execute, Ack, Throw,
           Finish, Closed, CloseOld, Open, DisconnectEvent, Stall, WriteLost, Unplug, DropOff, Replug
  <2>2. ~excuse'
    BY DEF Undisturbed
  <2>3. ~Stall /\ ~WriteLost /\ ~Unplug /\ ~DropOff /\ ~CloseOld
    BY <2>2 DEF Stall, WriteLost, Unplug, DropOff, CloseOld, Fault
  <2>4. ~excuse
    BY <1>2, <2>2, <2>3 DEF Next, vars, PickFile, Handler, Select, Send, Execute, Ack, Throw,
           Finish, Closed, Open, DisconnectEvent, Replug
  <2>5. attached /\ boot /\ ~cut /\ Undisturbed
    BY <2>1, <2>4 DEF Undisturbed, SoundInv
  <2> QED BY <2>3, <2>5 DEF Open, DisconnectEvent, Replug
<1> QED BY <1>1, <1>2

\* What an undisturbed step does to the flash.
LEMMA Change ==
  ASSUME Due, Execute, wire' # "stalled"
  PROVE  /\ wire' = "executed" /\ flash' = After(Now, Pages(Now))
         /\ Now.op = "erase" => \A a \in Sector(Now) : a \in 0..(Size - 1) /\ flash'[a] = Erased
         /\ Now.op = "write" => \A a, v : Has(Now, a, v) =>
              a \in 0..(Size - 1) /\ flash'[a] = v /\ \E k \in DOMAIN image : Has(image[k], a, v)
<1>1. /\ WellPlanned(plan, image) /\ step \in 1..Len(plan) /\ Now = plan[step] /\ Now \in Planned
      /\ DOMAIN flash = 0..(Size - 1)
  BY Running DEF Due, Typed
<1>2. wire' = "executed" /\ flash' = After(Now, Pages(Now))
  BY DEF Execute
<1>3. ASSUME Now.op = "erase", NEW a \in Sector(Now) PROVE a \in 0..(Size - 1) /\ flash'[a] = Erased
  <2>1. PICK c, n : c = Now /\ n = Pages(Now)
    OBVIOUS
  <2>2. c.addr \in Nat /\ n = SECTOR /\ n \in 0..Pages(c) /\ c \in Planned /\ c.op = "erase"
    <3>1. Pages(Now) = SECTOR /\ Now.addr \in Nat /\ SECTOR \in 0..SECTOR
      BY <1>1, <1>3, PagesOf, Numbers
    <3> QED BY <1>1, <1>3, <2>1, <3>1
  <2>3. a \in 0..(Size - 1)
    BY <1>1, <1>3, Fits DEF Due
  <2>4. a >= c.addr /\ a < c.addr + n
    BY <1>3, <2>1, <2>2, Numbers DEF Sector
  <2>5. After(c, n)[a] = Erased
    BY <1>1, <2>2, <2>3, <2>4, AfterIs
  <2> QED BY <1>2, <2>1, <2>3, <2>5
<1>4. ASSUME Now.op = "write", NEW a, NEW v, Has(Now, a, v)
      PROVE  a \in 0..(Size - 1) /\ flash'[a] = v /\ \E k \in DOMAIN image : Has(image[k], a, v)
  BY <1>2, <1>4, Blank
<1> QED BY <1>2, <1>3, <1>4

\* A page that changes is in the command.
LEMMA Changed ==
  ASSUME Due, Execute, wire' # "stalled", [Next]_vars, NEW a \in 0..(Size - 1), flash'[a] # flash[a]
  PROVE  \/ Now.op = "erase" /\ flash'[a] = Erased
         \/ /\ Now.op = "write" /\ Has(Now, a, flash'[a])
            /\ \E k \in DOMAIN image : Has(image[k], a, flash'[a])
<1>1. a >= Now.addr /\ a < Now.addr + Pages(Now) /\ (Now.op = "erase" \/ Now.op = "write")
  BY Touched DEF Due
<1>2. Now \in Planned
  BY Running DEF Due
<1>3. CASE Now.op = "erase"
  <2>1. a \in Sector(Now)
    BY <1>1, <1>2, <1>3, PagesOf, Numbers DEF Sector
  <2> QED BY <1>3, <2>1, Change
<1>4. CASE Now.op = "write"
  <2>1. a \in Cells(Now)
    BY <1>1, <1>2, <1>4, PagesOf, Numbers DEF Cells
  <2>2. PICK v : Has(Now, a, v)
    BY <2>1 DEF Has
  <2>3. flash'[a] = v /\ \E k \in DOMAIN image : Has(image[k], a, v)
    BY <1>4, <2>2, Change
  <2> QED BY <1>4, <2>2, <2>3
<1> QED BY <1>1, <1>3, <1>4

\* Every step keeps what the flash holds of a sound file.
LEMMA HoldingStep ==
  ASSUME DoneInv, Due, [Next]_vars, Flashing', wire' # "stalled", UNCHANGED flash \/ Execute, ~WriteLost
  PROVE  Holding'
<1>0. Typed /\ Following /\ WellPlanned(plan, image)
  BY Running DEF Due
<1> SUFFICES ASSUME NEW j \in 1..Len(plan'), Done(j)'
             PROVE  /\ plan'[j].op = "erase" => \A a \in Sector(plan'[j]) :
                         flash'[a] = Erased \/ \E k \in DOMAIN image' : Has(image'[k], a, flash'[a])
                    /\ plan'[j].op = "write" => \A a, v : Has(plan'[j], a, v) => flash'[a] = v
  BY DEF Holding
<1>1. /\ plan' = plan /\ image' = image /\ j \in 1..Len(plan)
      /\ Done(j) \/ (pc = "run" /\ j = step /\ Execute /\ wire' = "executed")
  BY <1>0, Progress
<1>2. ASSUME plan[j].op = "erase", NEW a \in Sector(plan[j])
      PROVE  flash'[a] = Erased \/ \E k \in DOMAIN image : Has(image[k], a, flash'[a])
  <2>1. a \in 0..(Size - 1)
    BY <1>0, <1>1, <1>2, Fits DEF Due
  <2>2. CASE Done(j)
    <3>1. flash[a] = Erased \/ \E k \in DOMAIN image : Has(image[k], a, flash[a])
      BY <1>1, <1>2, <2>2 DEF Due, Holding
    <3>2. CASE flash'[a] = flash[a]
      BY <3>1, <3>2
    <3>3. CASE flash'[a] # flash[a]
      <4>1. Execute
        BY <3>3
      <4> QED BY <2>1, <3>3, <4>1, Changed
    <3> QED BY <3>2, <3>3
  <2>3. CASE j = step /\ Execute
    <3>1. Now = plan[j]
      BY <2>3 DEF Now
    <3> QED BY <1>2, <2>3, <3>1, Change
  <2> QED BY <1>1, <2>2, <2>3
<1>3. ASSUME plan[j].op = "write", NEW a, NEW v, Has(plan[j], a, v) PROVE flash'[a] = v
  <2>1. a \in 0..(Size - 1)
    BY <1>0, <1>1, <1>3, Fits DEF Due
  <2>2. CASE Done(j)
    <3>1. flash[a] = v
      BY <1>1, <1>3, <2>2 DEF Due, Holding
    <3>2. ASSUME flash'[a] # flash[a] PROVE FALSE
      <4>1. Execute
        BY <3>2
      <4>2. Rank("write") <= Rank(Now.op)
        BY <1>0, <1>1, <1>3, <2>2, Later DEF Due
      <4>3. Now.op # "erase"
        BY <4>2 DEF Rank
      <4>4. PICK k \in DOMAIN image : Has(image[k], a, flash'[a])
        BY <2>1, <3>2, <4>1, <4>3, Changed
      <4>5. PICK l \in DOMAIN image : Has(image[l], a, v)
        BY <1>0, <1>1, <1>3 DEF WellPlanned, Only
      <4>6. flash'[a] = v
        BY <4>4, <4>5, Agree DEF Due
      <4> QED BY <3>1, <3>2, <4>6
    <3> QED BY <3>1, <3>2
  <2>3. CASE j = step /\ Execute
    <3>1. Now = plan[j]
      BY <2>3 DEF Now
    <3> QED BY <1>3, <2>3, <3>1, Change
  <2> QED BY <1>1, <2>2, <2>3
<1> QED BY <1>1, <1>2, <1>3

\* Every step keeps the flash writable until it is verified.
LEMMA WritableStep ==
  ASSUME Due, DoneInv, [Next]_vars, Flashing', wire' # "stalled", ~WriteLost, ~Replug PROVE Writable'
<1>0. Typed /\ Following /\ step \in 1..Len(plan) /\ Now = plan[step]
  BY Running DEF Due
<1> SUFFICES ASSUME NEW j \in 1..Len(plan'), Done(j)', plan'[j].op = "exitXip",
                    \A e \in 1..Len(plan') : ~(e <= step' /\ plan'[e].op = "enterCmdXip")
             PROVE  ~xip'
  BY DEF Writable
<1>1. /\ plan' = plan /\ j \in 1..Len(plan) /\ (Done(j) \/ (j = step /\ Execute /\ wire' = "executed"))
  BY <1>0, Progress
<1>2. step \in Nat /\ (step' = step \/ step' = step + 1)
  BY <1>0, Moves DEF Due, Flashing
<1>3. \A e \in 1..Len(plan) : e <= step => plan[e].op # "enterCmdXip"
  BY <1>1, <1>2
<1>4. CASE Done(j)
  <2>1. ~xip
    BY <1>1, <1>3, <1>4 DEF Due, Writable
  <2>2. Now.op # "enterCmdXip"
    BY <1>0, <1>2, <1>3
  <2> QED BY <2>1, <2>2 DEF Next, vars, board, PickFile, Click, Handler, Select, Send, Execute, Ack, Throw,
           Finish, Closed, CloseOld, Open, DisconnectEvent, Stall, Unplug, DropOff
<1>5. CASE j = step /\ Execute /\ wire' = "executed"
  BY <1>0, <1>1, <1>5 DEF Execute
<1> QED BY <1>1, <1>4, <1>5

\* The invariant of SoundFilesFlash is kept by every step.
LEMMA SoundStep == DoneInv /\ SoundInv /\ [Next]_vars => SoundInv'
<1> SUFFICES ASSUME DoneInv, SoundInv, [Next]_vars PROVE SoundInv'
  OBVIOUS
<1>0. Typed /\ Following /\ Verified
  BY DEF DoneInv
<1>1. ASSUME cut' PROVE pc' = "run" \/ pc' = "closing"
  <2>1. CASE UNCHANGED <<cut, pc>>
    BY <1>1, <2>1 DEF SoundInv
  <2>2. CASE Unplug \/ DropOff \/ CloseOld
    BY <1>1, <2>2 DEF Unplug, DropOff, CloseOld, Cut, job
  <2>3. CASE Handler \/ Click
    BY <1>1, <2>3 DEF SoundInv, Handler, Click, Select, Send, Execute, Ack, Throw, Finish, Closed, Failed, Idle, job
  <2>4. UNCHANGED <<cut, pc>> \/ Unplug \/ DropOff \/ CloseOld \/ Handler \/ Click
    BY DEF Next, vars, job, PickFile, Open, DisconnectEvent, Stall, WriteLost, Replug
  <2> QED BY <2>1, <2>2, <2>3, <2>4
<1>2. pc' = "closing" => status' = "done"
  BY DEF SoundInv, Next, vars, page, job, PickFile, Click, Handler, Select, Send, Execute, Ack, Throw, Finish, Closed,
         CloseOld, Open, DisconnectEvent, Stall, WriteLost, Unplug, DropOff, Replug, Failed, Idle
<1>3. Undisturbed' => attached' /\ boot' /\ ~cut'
  <2> SUFFICES ASSUME Undisturbed' PROVE attached' /\ boot' /\ ~cut'
    OBVIOUS
  <2>1. CASE Click /\ attached /\ pc = "idle"
    BY <2>1 DEF Click, board, SoundInv
  <2>2. CASE /\ Undisturbed /\ attached /\ boot /\ ~cut
             /\ ~Stall /\ ~WriteLost /\ ~Unplug /\ ~DropOff /\ ~CloseOld /\ ~Open /\ ~DisconnectEvent /\ ~Replug
    <3>1. ~Closed
      BY DEF Closed, Undisturbed
    <3>2. UNCHANGED <<attached, boot>>
      BY <2>2, <3>1 DEF Undisturbed, Next, vars, page, board, PickFile, Click, Handler, Select, Send, Execute,
                Ack, Throw, Finish, Failed, Idle
    <3>3. ~cut'
      <4>1. CASE Handler
        BY <2>2, <3>1, <4>1 DEF Handler, Select, Send, Execute, Ack, Throw, Finish, Failed, Idle
      <4>2. CASE ~Handler
        BY <2>2, <4>2 DEF Next, vars, PickFile, Click
      <4> QED BY <4>1, <4>2
    <3> QED BY <2>2, <3>2, <3>3
  <2> QED BY <1>0, <2>1, <2>2, Calm
<1>4. ASSUME Undisturbed', Flashing', Sound(image') PROVE Holding' /\ Writable' /\ wire' # "stalled"
  <2>1. /\ attached /\ boot /\ ~cut /\ Undisturbed
        /\ ~Stall /\ ~WriteLost /\ ~Unplug /\ ~DropOff /\ ~CloseOld /\ ~Open /\ ~DisconnectEvent /\ ~Replug
    <3>1. ~Click
      BY <1>4 DEF Click, Flashing
    <3> QED BY <1>0, <1>4, <3>1, Calm
  <2>2. CASE pc = "select" /\ pc' = "run" /\ step' = 1
    <3>1. wire' = "idle"
      BY <1>0, <2>2 DEF Following, Next, vars, page, job, PickFile, Click, Handler, Select, Send, Execute, Ack, Throw,
           Finish, Closed, CloseOld, Open, DisconnectEvent, Stall, WriteLost, Unplug, DropOff, Replug, Failed, Idle, Cut
    <3>2. \A j \in 1..Len(plan') : ~Done(j)'
      BY <2>2, <3>1 DEF Done
    <3> QED BY <3>1, <3>2 DEF Holding, Writable
  <2>3. CASE ~(pc = "select" /\ pc' = "run" /\ step' = 1)
    <3>1. Flashing /\ image' = image /\ plan' = plan
      BY <1>0, <1>4, <2>3, Moves DEF Flashing
    <3>2. Holding /\ Writable /\ wire # "stalled" /\ Sound(image)
      BY <1>4, <2>1, <3>1 DEF SoundInv
    <3>3. pc = "run" => Due
      BY <1>0, <3>2 DEF Due
    <3>4. wire' # "stalled"
      <4>1. Execute => Due
        BY <1>0, <3>3 DEF Execute, Following
      <4>2. Execute => wire' = "executed"
        BY <4>1, NotRefused DEF Execute
      <4> QED BY <2>1, <3>2, <4>2 DEF Next, vars, PickFile, Click, Handler, Select, Send, Ack, Throw,
           Finish, Closed, Failed, Idle
    <3>5. CASE pc = "run"
      <4>1. UNCHANGED flash \/ Execute
        BY <2>1 DEF Next, vars, board, PickFile, Click, Handler, Select, Send, Ack, Throw, Finish, Closed
      <4> QED BY <1>4, <2>1, <3>3, <3>4, <3>5, <4>1, HoldingStep, WritableStep
    <3>6. CASE pc # "run"
      <4>1. UNCHANGED <<step, plan, image>> /\ pc' # "run"
        BY <1>0, <1>4, <2>3, <3>6, Moves DEF Flashing
      <4>2. UNCHANGED <<flash, xip>>
        BY <1>0, <2>1, <3>6 DEF Following, Next, vars, board, PickFile, Click, Handler, Select, Send, Execute,
           Ack, Throw, Finish, Closed
      <4>3. \A j \in 1..Len(plan) : Done(j)' <=> Done(j)
        BY <3>6, <4>1 DEF Done
      <4>4. Holding'
        BY <3>2, <4>1, <4>2, <4>3 DEF Holding
      <4>5. Writable'
        BY <3>2, <4>1, <4>2, <4>3 DEF Writable
      <4> QED BY <3>4, <4>4, <4>5
    <3> QED BY <3>5, <3>6
  <2> QED BY <2>2, <2>3
<1>5. SoundFilesFlash'
  <2> SUFFICES ASSUME pc' = "idle", status' = "failed", image' # <<>>, Sound(image'), ~excuse' PROVE FALSE
    BY DEF SoundFilesFlash
  <2>1. ~Click /\ ~Stall /\ ~WriteLost /\ ~Unplug /\ ~DropOff /\ ~CloseOld
    BY DEF Click, Stall, WriteLost, Unplug, DropOff, CloseOld, Fault
  <2>2. ~excuse
    BY <2>1 DEF Next, vars, PickFile, Handler, Select, Send, Execute, Ack, Throw,
           Finish, Closed, Open, DisconnectEvent, Replug
  <2>3. image' = image /\ image # <<>> /\ Sound(image) /\ pc # "select"
    <3>1. image' = image
      BY <1>0, Moves
    <3> QED BY <1>0, <3>1 DEF Following
  <2>4. CASE pc = "idle"
    <3>1. status = "failed"
      BY <1>0, <2>4, Moves DEF Next, vars, page, job, PickFile, Handler, Select, Send, Execute, Ack, Throw,
           Finish, Closed, CloseOld, Open, DisconnectEvent, Stall, WriteLost, Unplug, DropOff, Replug, Click
    <3> QED BY <2>2, <2>3, <2>4, <3>1 DEF SoundInv, SoundFilesFlash
  <2>5. CASE pc # "idle"
    <3>1. attached /\ boot /\ ~cut /\ Undisturbed
      BY <2>2, <2>5 DEF SoundInv, Undisturbed
    <3>2. pc = "run" => Due /\ wire # "stalled"
      BY <1>0, <2>3, <3>1 DEF SoundInv, Due, Flashing
    <3>3. ~Throw
      BY <3>1, <3>2 DEF Throw
    <3>4. ~(Finish /\ ~boot) /\ ~Closed
      BY <3>1 DEF Closed, SoundInv
    <3>5. ~(Ack /\ Now.op = "read" /\ Reads(Now) # Now.data)
      BY <1>0, <3>2, ReadsBack DEF Ack
    <3>6. ~Ack
      BY <3>5 DEF Ack
    <3> QED BY <2>1, <2>3, <2>5, <3>3, <3>4, <3>6, <3>1 DEF Next, vars, job, PickFile, Handler, Select, Send, Execute,
           Finish, Open, DisconnectEvent, Replug
  <2> QED BY <2>4, <2>5
<1> QED BY <1>1, <1>2, <1>3, <1>4, <1>5 DEF SoundInv

\* A file that fits the flash and does not contradict itself is flashed, unless
\* the board or its connection has a fault: no command of it is refused, none
\* undoes another, and all reads back.
THEOREM SoundFilesAreFlashed == Spec => []SoundFilesFlash
<1>1. Init => SoundInv
  BY DEF Init, SoundInv, Undisturbed, Flashing, SoundFilesFlash
<1>2. SoundInv => SoundFilesFlash
  BY DEF SoundInv
<1> QED BY <1>1, <1>2, DoneInit, DoneStep, SoundStep, PTL DEF Spec
=============================================================================
