----------------------------- MODULE PioProofs -----------------------------
(***************************************************************************)
(* Proofs about PioSwd for every FIFO depth, block length, turn and set of *)
(* transfer parameters.  First what every plan looks like to the program   *)
(* that executes it: each word of data follows a write command, each write *)
(* command is followed by its word, and there are as many words to pull as *)
(* read commands that push one.  Then what the FIFOs hold, and the turns.  *)
(***************************************************************************)
EXTENDS PioSwd, FiniteSetTheorems, TLAPS

\* What the program does with an entry, or "pull" and "data".
Kind(e) == IF e.k = "cmd" THEN e.r ELSE e.k

Values == {"", "packet", "zero", "word", "bits"}

Entries ==
       [k : {"cmd"}, r : {"write", "read", "skip"},
        drive : BOOLEAN, n : Int, v : Values, i : Int]
  \cup [k : {"data", "pull"}, r : {""}, drive : BOOLEAN, n : Int, v : Values, i : Int]

\* The kind of the last entry of s, or p when it has none.
Prev(s, p) == IF s = <<>> THEN p ELSE Kind(s[Len(s)])

\* After an entry of kind p, s has a word of data where one is due and nowhere else.
Fits(s, p) ==
  \A k \in 1..Len(s) :
    Kind(s[k]) = "data" <=> (IF k = 1 THEN p ELSE Kind(s[k - 1])) = "write"

At(s, c) == {k \in 1..Len(s) : Kind(s[k]) = c}
Cnt(s, c) == Cardinality(At(s, c))

-----------------------------------------------------------------------------
LEMMA CntNat ==
  ASSUME NEW s \in Seq(Entries), NEW c
  PROVE  IsFiniteSet(At(s, c)) /\ Cnt(s, c) \in Nat
<1>1. IsFiniteSet(1..Len(s)) /\ At(s, c) \in SUBSET (1..Len(s))
  BY FS_Interval DEF At
<1> QED BY <1>1, FS_Subset, FS_CardinalityType DEF Cnt

LEMMA CntEmpty == \A c : Cnt(<<>>, c) = 0
<1> TAKE c
<1>1. At(<<>>, c) = {}
  BY DEF At
<1> QED BY <1>1, FS_EmptySet DEF Cnt

LEMMA CntZero ==
  ASSUME NEW s \in Seq(Entries), NEW c, Cnt(s, c) = 0
  PROVE  \A k \in 1..Len(s) : Kind(s[k]) # c
<1>1. At(s, c) = {}
  BY CntNat, FS_EmptySet DEF Cnt
<1> QED BY <1>1 DEF At

LEMMA CntAppend ==
  ASSUME NEW s \in Seq(Entries), NEW e \in Entries, NEW c
  PROVE  Cnt(Append(s, e), c) = Cnt(s, c) + (IF Kind(e) = c THEN 1 ELSE 0)
<1>1. /\ Len(Append(s, e)) = Len(s) + 1 /\ Len(s) \in Nat
      /\ \A k \in 1..Len(s) : Append(s, e)[k] = s[k]
      /\ Append(s, e)[Len(s) + 1] = e
  OBVIOUS
<1>2. Len(s) + 1 \notin At(s, c)
  BY <1>1 DEF At
<1>3. CASE Kind(e) = c
  <2>1. At(Append(s, e), c) = At(s, c) \cup {Len(s) + 1}
    BY <1>1, <1>3 DEF At
  <2> QED BY <1>2, <1>3, <2>1, CntNat, FS_AddElement DEF Cnt
<1>4. CASE Kind(e) # c
  <2>1. At(Append(s, e), c) = At(s, c)
    BY <1>1, <1>4 DEF At
  <2> QED BY <1>4, <2>1, CntNat DEF Cnt
<1> QED BY <1>3, <1>4

\* Moving a set of positions does not change its size.
LEMMA Shifted ==
  ASSUME NEW S \in SUBSET Int, IsFiniteSet(S), NEW d \in Int
  PROVE  /\ IsFiniteSet({k + d : k \in S})
         /\ Cardinality({k + d : k \in S}) = Cardinality(S)
<1> DEFINE T == {k + d : k \in S}
           f == [k \in S |-> k + d]
<1>1. f \in Bijection(S, T)
  BY DEF Bijection, Injection, Surjection, IsInjective
<1>2. ExistsBijection(S, T)
  BY <1>1 DEF ExistsBijection
<1> QED BY <1>2, FS_Bijection

LEMMA CntConcat ==
  ASSUME NEW a \in Seq(Entries), NEW b \in Seq(Entries), NEW c
  PROVE  Cnt(a \o b, c) = Cnt(a, c) + Cnt(b, c)
<1> DEFINE B == {k + Len(a) : k \in At(b, c)}
<1>1. /\ Len(a \o b) = Len(a) + Len(b) /\ Len(a) \in Nat /\ Len(b) \in Nat
      /\ \A k \in 1..Len(a) : (a \o b)[k] = a[k]
      /\ \A k \in 1..Len(b) : (a \o b)[k + Len(a)] = b[k]
  OBVIOUS
<1>2. At(a \o b, c) = At(a, c) \cup B
  <2>1. ASSUME NEW k \in At(a \o b, c) PROVE k \in At(a, c) \cup B
    <3>1. CASE k <= Len(a)
      BY <1>1, <2>1, <3>1 DEF At
    <3>2. CASE k > Len(a)
      <4>1. k - Len(a) \in 1..Len(b) /\ k = (k - Len(a)) + Len(a)
        BY <1>1, <2>1, <3>2 DEF At
      <4>2. k - Len(a) \in At(b, c)
        BY <1>1, <2>1, <4>1 DEF At
      <4> QED BY <4>1, <4>2
    <3> QED BY <1>1, <2>1, <3>1, <3>2 DEF At
  <2>2. At(a, c) \cup B \subseteq At(a \o b, c)
    BY <1>1 DEF At
  <2> QED BY <2>1, <2>2
<1>3. At(a, c) \cap B = {}
  BY <1>1 DEF At
<1>4. IsFiniteSet(B) /\ Cardinality(B) = Cnt(b, c)
  <2>1. At(b, c) \in SUBSET Int
    BY DEF At
  <2>2. IsFiniteSet(At(b, c)) /\ Len(a) \in Int
    BY <1>1, CntNat
  <2> QED BY <2>1, <2>2, Shifted DEF Cnt
<1>5. /\ Cardinality(At(a, c) \cup B) = Cnt(a, c) + Cnt(b, c) - Cardinality({})
      /\ Cnt(a, c) \in Nat /\ Cnt(b, c) \in Nat
  BY <1>3, <1>4, CntNat, FS_Union DEF Cnt
<1> QED BY <1>2, <1>5, FS_EmptySet DEF Cnt

LEMMA CntTail ==
  ASSUME NEW s \in Seq(Entries), s # <<>>, NEW c
  PROVE  Cnt(s, c) = Cnt(Tail(s), c) + (IF Kind(Head(s)) = c THEN 1 ELSE 0)
<1>1. Head(s) \in Entries /\ Tail(s) \in Seq(Entries) /\ s = <<Head(s)>> \o Tail(s)
  OBVIOUS
<1>2. Cnt(<<Head(s)>>, c) = IF Kind(Head(s)) = c THEN 1 ELSE 0
  <2>1. Append(<<>>, Head(s)) = <<Head(s)>> /\ <<>> \in Seq(Entries)
    BY <1>1
  <2>2. Cnt(Append(<<>>, Head(s)), c) = Cnt(<<>>, c) + (IF Kind(Head(s)) = c THEN 1 ELSE 0)
    BY <1>1, <2>1, CntAppend
  <2> QED BY <2>1, <2>2, CntEmpty
<1>3. <<Head(s)>> \in Seq(Entries)
  BY <1>1
<1>4. Cnt(<<Head(s)>> \o Tail(s), c) = Cnt(<<Head(s)>>, c) + Cnt(Tail(s), c)
  BY <1>1, <1>3, CntConcat
<1>5. Cnt(Tail(s), c) \in Nat /\ Cnt(<<Head(s)>>, c) \in Nat
  BY <1>1, <1>3, CntNat
<1>6. Cnt(s, c) = Cnt(<<Head(s)>> \o Tail(s), c)
  BY <1>1, Zenon
<1> QED BY <1>2, <1>4, <1>5, <1>6

-----------------------------------------------------------------------------
\* Words that the program will push less words that the driver will pull.
Balance(s) == Cnt(s, "read") - Cnt(s, "pull")

\* A sequence of entries that may follow anything but a write command.
Shaped(s) == s \in Seq(Entries) /\ Fits(s, "none") /\ Prev(s, "none") # "write"

Weight(e) == IF Kind(e) = "read" THEN 1 ELSE IF Kind(e) = "pull" THEN -1 ELSE 0

LEMMA FitsAfter ==
  ASSUME NEW s, NEW p, NEW q, p = "write" <=> q = "write"
  PROVE  /\ Fits(s, p) <=> Fits(s, q)
         /\ Prev(s, p) = "write" <=> Prev(s, q) = "write"
BY DEF Fits, Prev

LEMMA FitsTail ==
  ASSUME NEW s \in Seq(Entries), s # <<>>, NEW p, Fits(s, p)
  PROVE  /\ Fits(Tail(s), Kind(s[1]))
         /\ Prev(Tail(s), Kind(s[1])) = Prev(s, p)
         /\ Kind(s[1]) = "data" <=> p = "write"
<1> DEFINE t == Tail(s)
<1>1. /\ Len(s) \in Nat \ {0} /\ Len(t) = Len(s) - 1
      /\ \A k \in 1..Len(t) : t[k] = s[k + 1]
  OBVIOUS
<1>2. ASSUME NEW k \in 1..Len(t)
      PROVE  Kind(t[k]) = "data" <=> (IF k = 1 THEN Kind(s[1]) ELSE Kind(t[k - 1])) = "write"
  <2>1. k + 1 \in 1..Len(s) /\ k + 1 # 1 /\ (k + 1) - 1 = k /\ t[k] = s[k + 1]
    BY <1>1
  <2>2. Kind(s[k + 1]) = "data" <=> Kind(s[k]) = "write"
    BY <2>1 DEF Fits
  <2>3. k # 1 => t[k - 1] = s[k]
    BY <1>1
  <2> QED BY <2>1, <2>2, <2>3
<1>3. Fits(t, Kind(s[1]))
  BY <1>2 DEF Fits
<1>4. Prev(t, Kind(s[1])) = Prev(s, p)
  <2>1. CASE t = <<>>
    <3>1. Len(s) = 1
      BY <1>1, <2>1
    <3> QED BY <2>1, <3>1 DEF Prev
  <2>2. CASE t # <<>>
    <3>1. Len(t) \in 1..Len(t)
      BY <1>1, <2>2
    <3>2. t[Len(t)] = s[Len(s)]
      BY <1>1, <3>1
    <3> QED BY <2>2, <3>2 DEF Prev
  <2> QED BY <2>1, <2>2
<1>5. Kind(s[1]) = "data" <=> p = "write"
  BY <1>1 DEF Fits
<1> QED BY <1>3, <1>4, <1>5

LEMMA ShapedEmpty == Shaped(<<>>) /\ Balance(<<>>) = 0
<1>1. Shaped(<<>>)
  BY DEF Shaped, Fits, Prev
<1> QED BY <1>1, CntEmpty DEF Balance

LEMMA Singleton ==
  ASSUME NEW e \in Entries
  PROVE  /\ Balance(<<e>>) = Weight(e)
         /\ Kind(e) \notin {"write", "data"} => Shaped(<<e>>)
<1>1. Append(<<>>, e) = <<e>> /\ <<>> \in Seq(Entries)
  OBVIOUS
<1>2. \A c : Cnt(<<e>>, c) = IF Kind(e) = c THEN 1 ELSE 0
  <2> TAKE c
  <2>1. Cnt(Append(<<>>, e), c) = Cnt(<<>>, c) + (IF Kind(e) = c THEN 1 ELSE 0)
    BY <1>1, CntAppend
  <2> QED BY <1>1, <2>1, CntEmpty
<1>3. Balance(<<e>>) = Weight(e)
  BY <1>2 DEF Balance, Weight
<1>4. Kind(e) \notin {"write", "data"} => Shaped(<<e>>)
  BY DEF Shaped, Fits, Prev
<1> QED BY <1>3, <1>4

LEMMA Concat ==
  ASSUME NEW a, NEW b, Shaped(a), Shaped(b)
  PROVE  Shaped(a \o b) /\ Balance(a \o b) = Balance(a) + Balance(b)
<1>1. a \in Seq(Entries) /\ b \in Seq(Entries) /\ a \o b \in Seq(Entries)
  BY DEF Shaped
<1>2. /\ Len(a \o b) = Len(a) + Len(b) /\ Len(a) \in Nat /\ Len(b) \in Nat
      /\ \A k \in 1..Len(a) : (a \o b)[k] = a[k]
      /\ \A k \in 1..Len(b) : (a \o b)[k + Len(a)] = b[k]
  BY <1>1
<1>3. Fits(a \o b, "none")
  <2> SUFFICES ASSUME NEW k \in 1..Len(a \o b)
               PROVE  Kind((a \o b)[k]) = "data"
                        <=> (IF k = 1 THEN "none" ELSE Kind((a \o b)[k - 1])) = "write"
    BY DEF Fits
  <2>1. CASE k <= Len(a)
    BY <1>2, <2>1 DEF Shaped, Fits
  <2>2. CASE k = Len(a) + 1
    <3>1. (a \o b)[k] = b[1] /\ 1 \in 1..Len(b)
      BY <1>2, <2>2
    <3>2. Kind(b[1]) # "data"
      BY <3>1 DEF Shaped, Fits
    <3>3. k # 1 => (a \o b)[k - 1] = a[Len(a)] /\ Kind(a[Len(a)]) # "write"
      BY <1>1, <1>2, <2>2 DEF Shaped, Prev
    <3> QED BY <3>1, <3>2, <3>3
  <2>3. CASE k > Len(a) + 1
    <3>1. /\ k - Len(a) \in 1..Len(b) /\ k - Len(a) - 1 \in 1..Len(b) /\ k - Len(a) # 1
          /\ k = (k - Len(a)) + Len(a) /\ k - 1 = (k - Len(a) - 1) + Len(a)
      BY <1>2, <2>3
    <3>2. (a \o b)[k] = b[k - Len(a)] /\ (a \o b)[k - 1] = b[k - Len(a) - 1]
      BY <1>2, <3>1
    <3> QED BY <1>2, <2>3, <3>1, <3>2 DEF Shaped, Fits
  <2> QED BY <1>2, <2>1, <2>2, <2>3
<1>4. Prev(a \o b, "none") # "write"
  <2>1. CASE b = <<>>
    <3>1. a \o b = a
      BY <1>1, <2>1
    <3> QED BY <3>1 DEF Shaped
  <2>2. CASE b # <<>>
    <3>1. Len(b) \in 1..Len(b) /\ a \o b # <<>>
      BY <1>1, <1>2, <2>2
    <3>2. (a \o b)[Len(a \o b)] = b[Len(b)]
      BY <1>2, <3>1
    <3> QED BY <2>2, <3>1, <3>2 DEF Shaped, Prev
  <2> QED BY <2>1, <2>2
<1>5. Balance(a \o b) = Balance(a) + Balance(b)
  <2>1. \A c : Cnt(a \o b, c) = Cnt(a, c) + Cnt(b, c)
    BY <1>1, CntConcat
  <2>2. \A c : Cnt(a, c) \in Nat /\ Cnt(b, c) \in Nat
    BY <1>1, CntNat
  <2> QED BY <2>1, <2>2 DEF Balance
<1> QED BY <1>1, <1>3, <1>4, <1>5 DEF Shaped

LEMMA Pair ==
  ASSUME NEW e \in Entries, NEW f \in Entries
  PROVE  /\ Balance(<<e, f>>) = Weight(e) + Weight(f)
         /\ (Kind(e) = "write" <=> Kind(f) = "data") /\ Kind(e) # "data" /\ Kind(f) # "write"
              => Shaped(<<e, f>>)
<1>1. <<e>> \in Seq(Entries)
  OBVIOUS
<1>2. <<e, f>> = Append(<<e>>, f)
  OBVIOUS
<1>3. Balance(<<e, f>>) = Weight(e) + Weight(f)
  <2>1. \A c : /\ Cnt(Append(<<e>>, f), c) = Cnt(<<e>>, c) + (IF Kind(f) = c THEN 1 ELSE 0)
               /\ Cnt(<<e>>, c) \in Nat
    BY <1>1, CntAppend, CntNat
  <2>2. Balance(Append(<<e>>, f)) = Balance(<<e>>) + Weight(f)
    <3> HIDE DEF Cnt
    <3> QED BY <2>1 DEF Balance, Weight
  <2>3. Balance(<<e>>) = Weight(e)
    BY Singleton
  <2> QED BY <1>2, <2>2, <2>3
<1>4. (Kind(e) = "write" <=> Kind(f) = "data") /\ Kind(e) # "data" /\ Kind(f) # "write"
        => Shaped(<<e, f>>)
  BY DEF Shaped, Fits, Prev
<1> QED BY <1>3, <1>4

-----------------------------------------------------------------------------
(* The plans of a transfer and of the cold paths.                           *)

Plan(s, b) == Shaped(s) /\ Balance(s) = b

LEMMA PlanConcat ==
  ASSUME NEW s, NEW t, NEW b \in Int, NEW c \in Int, Plan(s, b), Plan(t, c)
  PROVE  Plan(s \o t, b + c)
BY Concat DEF Plan

LEMMA CommandEntries ==
  ASSUME NEW n \in Int
  PROVE  /\ WriteCmd(n) \in Entries /\ Kind(WriteCmd(n)) = "write"
         /\ HizCmd(n) \in Entries /\ Kind(HizCmd(n)) = "write"
         /\ ReadCmd(n) \in Entries /\ Kind(ReadCmd(n)) = "read"
         /\ Pull \in Entries /\ Kind(Pull) = "pull"
         /\ \A drive \in BOOLEAN : DirCmd(drive) \in Entries /\ Kind(DirCmd(drive)) = "skip"
<1>1. WriteCmd(n) \in Entries /\ Kind(WriteCmd(n)) = "write"
  BY DEF Entries, Values, WriteCmd, Entry, Kind
<1>2. HizCmd(n) \in Entries /\ Kind(HizCmd(n)) = "write"
  BY DEF Entries, Values, HizCmd, Entry, Kind
<1>3. ReadCmd(n) \in Entries /\ Kind(ReadCmd(n)) = "read"
  BY DEF Entries, Values, ReadCmd, Entry, Kind
<1>4. Pull \in Entries /\ Kind(Pull) = "pull"
  BY DEF Entries, Values, Pull, Entry, Kind
<1>5. ASSUME NEW drive \in BOOLEAN
      PROVE  DirCmd(drive) \in Entries /\ Kind(DirCmd(drive)) = "skip"
  BY DEF Entries, Values, DirCmd, Entry, Kind
<1> QED BY <1>1, <1>2, <1>3, <1>4, <1>5

LEMMA DataEntries ==
  ASSUME NEW i \in Int
  PROVE  /\ Bits("packet", i) \in Entries /\ Kind(Bits("packet", i)) = "data"
         /\ Bits("zero", i) \in Entries /\ Kind(Bits("zero", i)) = "data"
         /\ Bits("word", i) \in Entries /\ Kind(Bits("word", i)) = "data"
         /\ Bits("bits", i) \in Entries /\ Kind(Bits("bits", i)) = "data"
<1>1. Bits("packet", i) \in Entries /\ Bits("zero", i) \in Entries
  BY DEF Entries, Values, Bits, Entry
<1>2. Bits("word", i) \in Entries /\ Bits("bits", i) \in Entries
  BY DEF Entries, Values, Bits, Entry
<1>3. \A v : Kind(Bits(v, i)) = "data"
  BY DEF Bits, Entry, Kind
<1> QED BY <1>1, <1>2, <1>3

LEMMA PairPlan ==
  ASSUME NEW e \in Entries, NEW f \in Entries, Kind(e) = "write", Kind(f) = "data"
  PROVE  Plan(<<e, f>>, 0)
BY Pair DEF Plan, Weight

\* The pieces that plans are put together from.
LEMMA Pieces ==
  /\ Plan(<<>>, 0) /\ Plan(<<Pull>>, -1)
  /\ Plan(<<Pull, Pull>>, -2)
  /\ \A n \in Int : Plan(<<ReadCmd(n)>>, 1)
  /\ Plan(<<ReadCmd(32), ReadCmd(1)>>, 2)
  /\ \A n, i \in Int : Plan(<<WriteCmd(n), Bits("packet", i)>>, 0)
  /\ \A n, i \in Int : Plan(<<WriteCmd(n), Bits("zero", i)>>, 0)
  /\ \A n, i \in Int : Plan(<<WriteCmd(n), Bits("word", i)>>, 0)
  /\ \A n, i \in Int : Plan(<<WriteCmd(n), Bits("bits", i)>>, 0)
  /\ \A n, i \in Int : Plan(<<HizCmd(n), Bits("zero", i)>>, 0)
  /\ \A drive \in BOOLEAN : Plan(<<DirCmd(drive)>>, 0)
<1>1. Plan(<<>>, 0)
  BY ShapedEmpty DEF Plan
<1>2. Pull \in Entries /\ Kind(Pull) = "pull"
  <2>1. 0 \in Int
    OBVIOUS
  <2> QED BY <2>1, CommandEntries
<1>3. Plan(<<Pull>>, -1)
  BY <1>2, Singleton DEF Plan, Weight
<1>4. Plan(<<Pull, Pull>>, -2)
  BY <1>2, Pair DEF Plan, Weight
<1>5. Plan(<<ReadCmd(32), ReadCmd(1)>>, 2)
  BY CommandEntries, Pair DEF Plan, Weight
<1>6. ASSUME NEW n \in Int PROVE Plan(<<ReadCmd(n)>>, 1)
  BY CommandEntries, Singleton DEF Plan, Weight
<1>7. ASSUME NEW n \in Int, NEW i \in Int
      PROVE  /\ Plan(<<WriteCmd(n), Bits("packet", i)>>, 0)
             /\ Plan(<<WriteCmd(n), Bits("zero", i)>>, 0)
             /\ Plan(<<WriteCmd(n), Bits("word", i)>>, 0)
             /\ Plan(<<WriteCmd(n), Bits("bits", i)>>, 0)
             /\ Plan(<<HizCmd(n), Bits("zero", i)>>, 0)
  BY CommandEntries, DataEntries, PairPlan
<1>8. ASSUME NEW drive \in BOOLEAN PROVE Plan(<<DirCmd(drive)>>, 0)
  <2>1. 0 \in Int
    OBVIOUS
  <2>2. DirCmd(drive) \in Entries /\ Kind(DirCmd(drive)) = "skip"
    BY <1>8, <2>1, CommandEntries
  <2> QED BY <2>2, Singleton DEF Plan, Weight
<1> QED BY <1>1, <1>3, <1>4, <1>5, <1>6, <1>7, <1>8

LEMMA Turnarounds ==
  ASSUME params \in Params
  PROVE  Trn \in Int /\ Plan(Hiz, 0) /\ Plan(Idle, 0)
<1>1. params.trn \in Int /\ params.idle \in Int
  BY PioAssumption
<1>3. \A n \in Int : Plan(<<WriteCmd(n), Bits("zero", 0)>>, 0) /\ Plan(<<HizCmd(n), Bits("zero", 0)>>, 0)
  BY Pieces
<1>4. Plan(<<>>, 0)
  BY Pieces
<1> QED BY <1>1, <1>3, <1>4 DEF Trn, Hiz, Idle

LEMMA WordPlan == \A i \in Int : Plan(WriteWord("word", i), 0) /\ Plan(WriteWord("zero", i), 0)
<1> TAKE i \in Int
<1>1. /\ Plan(<<WriteCmd(32), Bits("word", i)>>, 0)
      /\ Plan(<<WriteCmd(32), Bits("zero", i)>>, 0)
      /\ Plan(<<WriteCmd(1), Bits("zero", 0)>>, 0)
  BY Pieces
<1>2. /\ WriteWord("word", i) = <<WriteCmd(32), Bits("word", i)>> \o <<WriteCmd(1), Bits("zero", 0)>>
      /\ WriteWord("zero", i) = <<WriteCmd(32), Bits("zero", i)>> \o <<WriteCmd(1), Bits("zero", 0)>>
  BY DEF WriteWord
<1>3. /\ Plan(<<WriteCmd(32), Bits("word", i)>> \o <<WriteCmd(1), Bits("zero", 0)>>, 0)
      /\ Plan(<<WriteCmd(32), Bits("zero", i)>> \o <<WriteCmd(1), Bits("zero", 0)>>, 0)
  BY <1>1, PlanConcat
<1> QED BY <1>2, <1>3, Zenon

\* The plan of a request, for every turnaround.
LEMMA RequestPlan ==
  ASSUME params \in Params, NEW rnw
  PROVE  Plan(PlanRequest(rnw), 0)
<1> DEFINE i == IF rnw THEN 1 ELSE 0
<1>1. /\ Plan(<<WriteCmd(8), Bits("packet", i)>>, 0)
      /\ Plan(<<ReadCmd(Trn + 3)>>, 1) /\ Plan(<<Pull>>, -1)
  BY Turnarounds, Pieces
<1>2. Plan(<<WriteCmd(8), Bits("packet", i)>> \o <<ReadCmd(Trn + 3)>>, 0 + 1)
  BY <1>1, PlanConcat
<1>3. Plan((<<WriteCmd(8), Bits("packet", i)>> \o <<ReadCmd(Trn + 3)>>) \o <<Pull>>, 0 + 1 + (-1))
  BY <1>1, <1>2, PlanConcat
<1>4. PlanRequest(rnw) = (<<WriteCmd(8), Bits("packet", i)>> \o <<ReadCmd(Trn + 3)>>) \o <<Pull>>
  BY DEF PlanRequest
<1> QED BY <1>3, <1>4

\* The plan of a data phase, for every acknowledge, turnaround and number of
\* idle cycles, with and without a data phase after a refusal.
LEMMA DataPlan ==
  ASSUME params \in Params, NEW a, NEW rnw, NEW i \in Int
  PROVE  Plan(PlanData(a, rnw, i), 0)
<1>1. Plan(Hiz, 0) /\ Plan(Idle, 0) /\ Trn \in Int
  BY Turnarounds
<1>2. Plan(DataOK(rnw, i), 0)
  <2>1. CASE rnw
    <3>1. Plan(<<ReadCmd(32), ReadCmd(1)>> \o Hiz, 2)
      BY <1>1, Pieces, PlanConcat
    <3>2. Plan(<<ReadCmd(32), ReadCmd(1)>> \o Hiz \o Idle, 2)
      BY <1>1, <3>1, PlanConcat
    <3>3. Plan(<<ReadCmd(32), ReadCmd(1)>> \o Hiz \o Idle \o <<Pull, Pull>>, 0)
      BY <3>2, Pieces, PlanConcat
    <3> QED BY <2>1, <3>3 DEF DataOK
  <2>2. CASE ~rnw
    <3>1. Plan(Hiz \o WriteWord("word", i), 0)
      BY <1>1, WordPlan, PlanConcat
    <3>2. Plan(Hiz \o WriteWord("word", i) \o Idle, 0)
      BY <1>1, <3>1, PlanConcat
    <3> QED BY <2>2, <3>2 DEF DataOK
  <2> QED BY <2>1, <2>2
<1>3. Plan(DataRefused(rnw), 0)
  <2> DEFINE r == IF params.phase /\ rnw THEN <<ReadCmd(33), Pull>> ELSE <<>>
             w == IF params.phase /\ ~rnw THEN WriteWord("zero", 0) ELSE <<>>
  <2>1. Plan(<<ReadCmd(33), Pull>>, 0)
    BY CommandEntries, Pair DEF Plan, Weight
  <2>2. Plan(r, 0) /\ Plan(w, 0)
    BY <2>1, WordPlan, Pieces
  <2>3. Plan(r \o Hiz, 0)
    BY <1>1, <2>2, PlanConcat
  <2>4. Plan(r \o Hiz \o w, 0)
    BY <2>2, <2>3, PlanConcat
  <2> QED BY <2>4 DEF DataRefused
<1>4. Plan(<<ReadCmd(Trn + 33), Pull>>, 0)
  BY <1>1, CommandEntries, Pair DEF Plan, Weight
<1> QED BY <1>2, <1>3, <1>4 DEF PlanData

-----------------------------------------------------------------------------
Stages == {"Start", "Request", "Data", "Exec", "Stalled"}
Executing == {"Request", "Data", "Exec"}

Typed ==
  /\ params \in Params /\ next \in Int
  /\ tx \in Seq(Entries) /\ plan \in Seq(Entries)
  /\ \E S : rx \in Seq(S)
  /\ sm = [pc |-> sm.pc, drive |-> sm.drive, n |-> sm.n, isr |-> sm.isr]
  /\ sm.pc \in {"cmd", "write", "read", "push"}
  /\ stage \in Stages
  /\ plan # <<>> => stage \in Executing

\* The driver pulls, the program does not.
NoPulls == \A k \in 1..Len(tx) : tx[k].k # "pull"

\* What is queued and what is still planned make one stream, in which every
\* write command has its word.
Stream ==
  /\ Fits(tx, sm.pc)
  /\ Fits(plan, Prev(tx, sm.pc))
  /\ Prev(plan, Prev(tx, sm.pc)) # "write"

Shifting == IF sm.pc \in {"read", "push"} THEN 1 ELSE 0

\* Words received, being shifted in, or asked for are the words still to pull.
Balanced == Len(rx) + Shifting + Cnt(tx, "read") + Balance(plan) = 0

IInv == Typed /\ NoPulls /\ Stream /\ Balanced

LEMMA BalanceInt == ASSUME NEW s \in Seq(Entries) PROVE Balance(s) \in Int
<1>1. Cnt(s, "read") \in Nat /\ Cnt(s, "pull") \in Nat
  BY CntNat
<1> QED BY <1>1 DEF Balance

LEMMA Initially == Init => IInv
<1> SUFFICES ASSUME Init PROVE IInv
  OBVIOUS
<1>1. Typed
  <2>1. rx \in Seq({})
    BY DEF Init
  <2> QED BY <2>1 DEF Init, Typed, Stages
<1>2. NoPulls /\ Stream
  BY DEF Init, NoPulls, Stream, Fits, Prev
<1>3. Balanced
  BY CntEmpty, ShapedEmpty DEF Init, Balanced, Shifting
<1> QED BY <1>1, <1>2, <1>3 DEF IInv

\* Steps that leave the FIFOs, the plan and the program alone.
LEMMA Quiet ==
  ASSUME IInv, UNCHANGED <<tx, rx, plan, sm, params>>, next' \in Int, stage' \in Stages,
         plan = <<>> \/ stage' = stage
  PROVE  IInv'
BY DEF IInv, Typed, NoPulls, Stream, Fits, Prev, Balanced, Shifting, Balance, Cnt, At

\* Steps that make the next plan.
LEMMA NewPlan ==
  ASSUME IInv, UNCHANGED <<tx, rx, sm, params, next>>, plan = <<>>, Plan(plan', 0),
         stage' \in Executing
  PROVE  IInv'
<1>1. plan' \in Seq(Entries) /\ Fits(plan', "none") /\ Prev(plan', "none") # "write"
  BY DEF Plan, Shaped
<1>2. Typed'
  BY <1>1 DEF IInv, Typed, Stages, Executing
<1>3. Prev(tx, sm.pc) # "write"
  BY DEF IInv, Stream, Prev
<1>4. Fits(plan', Prev(tx, sm.pc)) /\ Prev(plan', Prev(tx, sm.pc)) # "write"
  BY <1>1, <1>3, FitsAfter
<1>5. NoPulls' /\ Stream'
  BY <1>4 DEF IInv, NoPulls, Stream, Fits, Prev
<1>6. Balance(plan) = 0 /\ Balance(plan') = 0
  BY ShapedEmpty DEF Plan
<1>7. Balanced'
  BY <1>6 DEF IInv, Balanced, Shifting, Cnt, At
<1> QED BY <1>2, <1>5, <1>7 DEF IInv

\* The driver queues the next entry of its plan.
LEMMA PushKeeps == IInv /\ Push /\ UNCHANGED params => IInv'
<1> SUFFICES ASSUME IInv, Push, UNCHANGED params PROVE IInv'
  OBVIOUS
<1>1. /\ tx \in Seq(Entries) /\ plan \in Seq(Entries) /\ plan # <<>>
      /\ Head(plan) \in Entries /\ Head(plan) = plan[1] /\ Head(plan).k # "pull"
      /\ tx' = Append(tx, Head(plan)) /\ plan' = Tail(plan)
      /\ UNCHANGED <<rx, sm, stage, params>> /\ next' = next
  BY DEF Push, IInv, Typed, block, wire
<1>2. /\ Len(tx) \in Nat /\ Len(tx') = Len(tx) + 1
      /\ \A k \in 1..Len(tx) : tx'[k] = tx[k]
      /\ tx'[Len(tx) + 1] = plan[1]
      /\ Len(plan) \in Nat \ {0} /\ Len(plan') = Len(plan) - 1
      /\ \A k \in 1..Len(plan') : plan'[k] = plan[k + 1]
  BY <1>1
<1>3. Typed'
  BY <1>1 DEF IInv, Typed
<1>4. NoPulls'
  BY <1>1, <1>2 DEF IInv, NoPulls
<1>5. /\ Kind(plan[1]) = "data" <=> Prev(tx, sm.pc) = "write"
      /\ Fits(plan', Kind(plan[1])) /\ Prev(plan', Kind(plan[1])) # "write"
  BY <1>1, FitsTail DEF IInv, Stream
<1>6. Fits(tx', sm.pc)
  BY <1>1, <1>2, <1>5 DEF IInv, Stream, Fits, Prev
<1>7. Prev(tx', sm.pc) = Kind(plan[1])
  BY <1>2 DEF Prev
<1>8. Stream'
  BY <1>1, <1>5, <1>6, <1>7 DEF Stream
<1>9. Balanced'
  <2>1. \A c : Cnt(tx', c) = Cnt(tx, c) + (IF Kind(plan[1]) = c THEN 1 ELSE 0)
    BY <1>1, CntAppend
  <2>2. \A c : Cnt(plan, c) = Cnt(plan', c) + (IF Kind(plan[1]) = c THEN 1 ELSE 0)
    BY <1>1, CntTail
  <2>3. Kind(plan[1]) # "pull"
    BY <1>1 DEF Kind, Entries
  <2>4. Cnt(tx, "read") \in Nat /\ Cnt(plan', "read") \in Nat /\ Cnt(plan', "pull") \in Nat
    BY <1>1, <1>3, CntNat DEF Typed
  <2>5. Shifting' = Shifting /\ Shifting \in Nat
    BY <1>1 DEF Shifting
  <2>6. Balance(plan) = Balance(plan') + (IF Kind(plan[1]) = "read" THEN 1 ELSE 0)
    BY <2>2, <2>3, <2>4 DEF Balance
  <2>7. Balance(plan') \in Int /\ Len(rx) \in Nat
    BY <2>4 DEF Balance, IInv, Typed
  <2> QED BY <1>1, <2>1, <2>4, <2>5, <2>6, <2>7 DEF IInv, Balanced
<1> QED BY <1>3, <1>4, <1>8, <1>9 DEF IInv

\* The driver takes a received word.
LEMMA PullKeeps == IInv /\ PullWord /\ UNCHANGED params => IInv'
<1> SUFFICES ASSUME IInv, PullWord, UNCHANGED params PROVE IInv'
  OBVIOUS
<1>1. /\ plan \in Seq(Entries) /\ plan # <<>> /\ Head(plan) = plan[1]
      /\ Head(plan).k = "pull" /\ rx # <<>>
      /\ rx' = Tail(rx) /\ plan' = Tail(plan)
      /\ UNCHANGED <<tx, sm, stage, params>> /\ next' = next
  BY DEF PullWord, IInv, Typed, block, wire
<1>2. /\ Len(plan) \in Nat \ {0} /\ Len(plan') = Len(plan) - 1
      /\ \A k \in 1..Len(plan') : plan'[k] = plan[k + 1]
      /\ plan' \in Seq(Entries)
  BY <1>1
<1>3. /\ \E S : rx' \in Seq(S)
      /\ Len(rx') = Len(rx) - 1 /\ Len(rx) \in Nat
  <2>1. PICK S : rx \in Seq(S)
    BY DEF IInv, Typed
  <2>2. Tail(rx) \in Seq(S) /\ Len(Tail(rx)) = Len(rx) - 1 /\ Len(rx) \in Nat
    BY <1>1, <2>1
  <2> QED BY <1>1, <2>2
<1>4. Typed' /\ NoPulls'
  BY <1>1, <1>2, <1>3 DEF IInv, Typed, NoPulls
<1>5. Kind(plan[1]) = "pull"
  BY <1>1 DEF Kind
<1>6. /\ Prev(tx, sm.pc) # "write"
      /\ Fits(plan', "pull") /\ Prev(plan', "pull") # "write"
  BY <1>1, <1>5, FitsTail DEF IInv, Stream
<1>7. Fits(plan', Prev(tx, sm.pc)) /\ Prev(plan', Prev(tx, sm.pc)) # "write"
  BY <1>6, FitsAfter
<1>8. Stream'
  BY <1>1, <1>7 DEF IInv, Stream, Fits, Prev
<1>9. Balanced'
  <2>1. \A c : Cnt(plan, c) = Cnt(plan', c) + (IF Kind(plan[1]) = c THEN 1 ELSE 0)
    BY <1>1, CntTail
  <2>2. Cnt(tx, "read") \in Nat /\ Cnt(plan', "read") \in Nat /\ Cnt(plan', "pull") \in Nat
    BY <1>2, CntNat DEF IInv, Typed
  <2>3. Shifting' = Shifting /\ Shifting \in Nat
    BY <1>1 DEF Shifting
  <2>4. Balance(plan) = Balance(plan') - 1 /\ Balance(plan') \in Int
    BY <1>5, <2>1, <2>2 DEF Balance
  <2>5. Cnt(tx', "read") = Cnt(tx, "read")
    BY <1>1
  <2> QED BY <1>3, <2>2, <2>3, <2>4, <2>5 DEF IInv, Balanced
<1> QED BY <1>4, <1>8, <1>9 DEF IInv

-----------------------------------------------------------------------------
(* The steps of the program.                                                *)

\* The program takes an entry off the queue and goes on at pc.
LEMMA TakeKeeps ==
  ASSUME IInv, tx # <<>>, tx' = Tail(tx), UNCHANGED <<rx, plan, stage, next, params>>,
         sm' = [pc |-> sm'.pc, drive |-> sm'.drive, n |-> sm'.n, isr |-> sm'.isr],
         sm.pc \in {"cmd", "write"},
         sm'.pc = IF Kind(tx[1]) \in {"write", "read"} THEN Kind(tx[1]) ELSE "cmd"
  PROVE  IInv'
<1>1. tx \in Seq(Entries) /\ plan \in Seq(Entries) /\ Fits(tx, sm.pc)
  BY DEF IInv, Typed, Stream
<1>2. /\ Len(tx) \in Nat \ {0} /\ Len(tx') = Len(tx) - 1
      /\ \A k \in 1..Len(tx') : tx'[k] = tx[k + 1]
  BY <1>1
<1>3. Typed'
  BY <1>1 DEF IInv, Typed
<1>4. NoPulls'
  BY <1>2 DEF IInv, NoPulls
<1>5. Kind(tx[1]) = "write" <=> sm'.pc = "write"
  OBVIOUS
<1>6. Fits(tx', Kind(tx[1])) /\ Prev(tx', Kind(tx[1])) = Prev(tx, sm.pc)
  BY <1>1, FitsTail
<1>7. Fits(tx', sm'.pc) /\ (Prev(tx', sm'.pc) = "write" <=> Prev(tx, sm.pc) = "write")
  BY <1>5, <1>6, FitsAfter
<1>8. /\ Fits(plan, Prev(tx', sm'.pc))
      /\ Prev(plan, Prev(tx', sm'.pc)) # "write"
  BY <1>7, FitsAfter DEF IInv, Stream
<1>9. Stream'
  BY <1>7, <1>8 DEF Stream
<1>10. Balanced'
  <2>1. Cnt(tx, "read") = Cnt(tx', "read") + (IF Kind(Head(tx)) = "read" THEN 1 ELSE 0)
    BY <1>1, CntTail
  <2>2. Cnt(tx', "read") \in Nat /\ Head(tx) = tx[1]
    <3>1. tx' \in Seq(Entries)
      BY <1>3 DEF Typed
    <3>2. Cnt(tx', "read") \in Nat
      BY <3>1, CntNat
    <3> QED BY <1>1, <3>2
  <2>3. Shifting = 0 /\ Shifting' = IF Kind(tx[1]) = "read" THEN 1 ELSE 0
    BY DEF Shifting
  <2>4. Balance(plan') = Balance(plan) /\ Balance(plan) \in Int /\ Len(rx) \in Nat
    BY <1>1, BalanceInt DEF IInv, Typed
  <2> QED BY <2>1, <2>2, <2>3, <2>4 DEF IInv, Balanced
<1> QED BY <1>3, <1>4, <1>9, <1>10 DEF IInv

\* The program shifts a word in, and then has it to push.
LEMMA ReadKeeps == IInv /\ SmRead /\ UNCHANGED <<plan, stage, next, params>> => IInv'
<1> SUFFICES ASSUME IInv, SmRead, UNCHANGED <<plan, stage, next, params>> PROVE IInv'
  OBVIOUS
<1>1. /\ sm.pc = "read" /\ sm'.pc = "push" /\ UNCHANGED <<tx, rx>>
      /\ sm' = [pc |-> sm'.pc, drive |-> sm'.drive, n |-> sm'.n, isr |-> sm'.isr]
  BY DEF SmRead, fifos, IInv, Typed
<1>2. Typed' /\ NoPulls'
  BY <1>1 DEF IInv, Typed, NoPulls
<1>3. Fits(tx, "push") /\ (Prev(tx, "push") = "write" <=> Prev(tx, sm.pc) = "write")
  BY <1>1, FitsAfter DEF IInv, Stream
<1>4. Fits(plan, Prev(tx, "push")) /\ Prev(plan, Prev(tx, "push")) # "write"
  BY <1>3, FitsAfter DEF IInv, Stream
<1>5. Stream'
  BY <1>1, <1>3, <1>4 DEF Stream
<1>6. Balanced'
  BY <1>1 DEF IInv, Balanced, Shifting, Balance, Cnt, At
<1> QED BY <1>2, <1>5, <1>6 DEF IInv

LEMMA PushWordKeeps == IInv /\ SmPush /\ UNCHANGED <<plan, stage, next, params>> => IInv'
<1> SUFFICES ASSUME IInv, SmPush, UNCHANGED <<plan, stage, next, params>> PROVE IInv'
  OBVIOUS
<1>1. /\ sm.pc = "push" /\ sm'.pc = "cmd" /\ UNCHANGED tx /\ rx' = Append(rx, sm.isr)
      /\ sm' = [pc |-> sm'.pc, drive |-> sm'.drive, n |-> sm'.n, isr |-> sm'.isr]
  BY DEF SmPush, IInv, Typed
<1>2. (\E S : rx' \in Seq(S)) /\ Len(rx') = Len(rx) + 1 /\ Len(rx) \in Nat
  <2>1. PICK S : rx \in Seq(S)
    BY DEF IInv, Typed
  <2> DEFINE T == S \cup {sm.isr}
  <2>2. rx \in Seq(T) /\ sm.isr \in T
    BY <2>1
  <2>3. Append(rx, sm.isr) \in Seq(T) /\ Len(Append(rx, sm.isr)) = Len(rx) + 1 /\ Len(rx) \in Nat
    <3> HIDE DEF T
    <3> QED BY <2>2
  <2> QED BY <1>1, <2>3
<1>3. Typed' /\ NoPulls'
  BY <1>1, <1>2 DEF IInv, Typed, NoPulls
<1>4. Fits(tx, "cmd") /\ (Prev(tx, "cmd") = "write" <=> Prev(tx, sm.pc) = "write")
  BY <1>1, FitsAfter DEF IInv, Stream
<1>5. Fits(plan, Prev(tx, "cmd")) /\ Prev(plan, Prev(tx, "cmd")) # "write"
  BY <1>4, FitsAfter DEF IInv, Stream
<1>6. Stream'
  BY <1>1, <1>4, <1>5 DEF Stream
<1>7. Balanced'
  <2>1. Cnt(tx, "read") \in Nat /\ Balance(plan) \in Int
    BY CntNat, BalanceInt DEF IInv, Typed
  <2>2. Cnt(tx', "read") = Cnt(tx, "read") /\ Balance(plan') = Balance(plan)
    BY <1>1
  <2> QED BY <1>1, <1>2, <2>1, <2>2 DEF IInv, Balanced, Shifting
<1> QED BY <1>3, <1>6, <1>7 DEF IInv

LEMMA SmKeeps == IInv /\ Sm => IInv'
<1> SUFFICES ASSUME IInv, Sm PROVE IInv'
  OBVIOUS
<1>1. UNCHANGED <<plan, stage, next, params>>
  BY DEF Sm, block, xfer
<1>2. CASE SmCommand \/ SmWrite
  <2>1. /\ tx # <<>> /\ tx' = Tail(tx) /\ UNCHANGED rx
        /\ sm' = [pc |-> sm'.pc, drive |-> sm'.drive, n |-> sm'.n, isr |-> sm'.isr]
        /\ sm.pc \in {"cmd", "write"}
    BY <1>2 DEF SmCommand, SmWrite, IInv, Typed
  <2>2. tx[1] \in Entries /\ Head(tx) = tx[1]
    BY <2>1 DEF IInv, Typed
  <2>3. sm'.pc = IF Kind(tx[1]) \in {"write", "read"} THEN Kind(tx[1]) ELSE "cmd"
    <3>1. CASE SmCommand
      <4>1. /\ tx[1].k = "cmd" /\ sm'.pc = IF tx[1].r = "skip" THEN "cmd" ELSE tx[1].r
        BY <2>2, <3>1 DEF SmCommand, IInv, Typed
      <4>2. tx[1].r \in {"write", "read", "skip"}
        BY <2>2, <4>1 DEF Entries
      <4> QED BY <4>1, <4>2 DEF Kind
    <3>2. CASE SmWrite
      BY <2>2, <3>2 DEF SmWrite, Kind, IInv, Typed
    <3> QED BY <1>2, <3>1, <3>2
  <2> QED BY <1>1, <2>1, <2>3, TakeKeeps
<1>3. CASE SmRead
  BY <1>1, <1>3, ReadKeeps
<1>4. CASE SmPush
  BY <1>1, <1>4, PushWordKeeps
<1>5. CASE SmStall
  BY <1>1, <1>5, Quiet DEF SmStall, Sm, fifos, IInv, Typed
<1> QED BY <1>2, <1>3, <1>4, <1>5 DEF Sm

\* The next word of a call is counted, whatever the target answered.
LEMMA ReadyNext == ASSUME next \in Int, NEW a, NEW d, Ready(a, d) PROVE next' \in Int
BY DEF Ready, SingleReady, ReadReady, WriteReady, Leave

LEMMA PollKeeps == IInv /\ Poll /\ UNCHANGED params => IInv'
<1> SUFFICES ASSUME IInv, Poll, UNCHANGED params PROVE IInv'
  OBVIOUS
<1>0. params \in Params /\ next \in Int /\ stage \in Stages
  BY DEF IInv, Typed
<1>1. CASE Push
  BY <1>1, PushKeeps
<1>2. CASE PullWord
  BY <1>2, PullKeeps
<1>3. CASE Blocked \/ YieldTurn
  BY <1>0, <1>3, Quiet DEF Blocked, YieldTurn, block, xfer, fifos, wire
<1>4. CASE Request
  <2>1. plan = <<>>
    BY <1>4 DEF Request, AtStart, IInv, Typed, Executing
  <2>2. Plan(plan', 0)
    BY <1>0, <1>4, RequestPlan DEF Request
  <2> QED BY <1>4, <2>1, <2>2, NewPlan DEF Request, block, fifos, wire, Executing
<1>5. CASE RequestDone
  <2>1. (IF call.op = "write" THEN next + 1 ELSE 0) \in Int
    BY <1>0
  <2>2. Plan(plan', 0)
    BY <1>0, <1>5, <2>1, DataPlan DEF RequestDone
  <2> QED BY <1>5, <2>2, NewPlan DEF RequestDone, block, fifos, wire, Executing
<1>6. CASE DataDone
  <2>1. next' \in Int
    BY <1>0, <1>6, ReadyNext DEF DataDone
  <2> QED BY <1>6, <2>1, Quiet DEF DataDone, fifos, wire, Stages
<1>7. CASE Chunk
  <2>1. plan = <<>>
    BY <1>7 DEF Chunk, IInv, Typed, Executing
  <2>2. Plan(<<WriteCmd(8), Bits("bits", 0)>>, 0)
    BY Pieces
  <2>3. Plan(<<ReadCmd(8), Pull>>, 0)
    BY CommandEntries, Pair DEF Plan, Weight
  <2>4. Plan(plan', 0)
    BY <1>7, <2>2, <2>3 DEF Chunk
  <2> QED BY <1>7, <2>1, <2>4, NewPlan DEF Chunk, block, fifos, wire, Executing
<1>8. CASE ChunkDone
  BY <1>0, <1>8, Quiet DEF ChunkDone, fifos, wire, Stages
<1>9. CASE SetDir
  <2>1. plan = <<>>
    BY <1>9 DEF SetDir, IInv, Typed, Executing
  <2>2. (call.op = "connect") \in BOOLEAN
    OBVIOUS
  <2>3. Plan(plan', 0)
    BY <1>9, <2>2, Pieces DEF SetDir
  <2> QED BY <1>9, <2>1, <2>3, NewPlan DEF SetDir, block, fifos, wire, Executing
<1>10. CASE DropStale
  BY <1>0, <1>10, Quiet DEF DropStale, block, fifos, Stages
<1>11. CASE AwaitStall
  <2>1. plan = <<>>
    BY <1>11 DEF AwaitStall, IInv, Typed, Executing
  <2> QED BY <1>0, <1>11, <2>1, Quiet DEF AwaitStall, fifos, Stages
<1>12. CASE SetReset
  BY <1>0, <1>12, Quiet DEF SetReset, xfer, fifos, wire
<1> QED BY <1>1, <1>2, <1>3, <1>4, <1>5, <1>6, <1>7, <1>8, <1>9, <1>10, <1>11, <1>12 DEF Poll

LEMMA Step == IInv /\ [Next]_vars => IInv'
<1> SUFFICES ASSUME IInv, [Next]_vars PROVE IInv'
  OBVIOUS
<1>0. next \in Int /\ stage \in Stages
  BY DEF IInv, Typed
<1>1. CASE UNCHANGED vars \/ ((Resume \/ OtherLanes) /\ UNCHANGED params)
  BY <1>0, <1>1, Quiet DEF Resume, OtherLanes, vars, block, xfer, fifos, wire
<1>2. ASSUME NEW c, Begin(c), UNCHANGED params PROVE IInv'
  <2>1. next' \in Int
    BY <1>0, <1>2 DEF Begin
  <2> QED BY <1>0, <1>2, <2>1, Quiet DEF Begin, xfer, fifos
<1> QED BY <1>1, <1>2, PollKeeps, SmKeeps DEF Next

LEMMA Inductive == Spec => []IInv
BY Initially, Step, PTL DEF Spec

\* The program never takes data for a command or a command for data, and no
\* word of one transfer is left for the next: for every turnaround, idle count,
\* data-phase option and FIFO depth (dap.rs's plans, swd.rs's program).
THEOREM DriverAndProgramInStep == Spec => []FifosInStep
<1>1. IInv => StreamAligned
  <2> SUFFICES ASSUME IInv, tx # <<>>
               PROVE  Head(tx).k = (IF sm.pc = "write" THEN "data" ELSE "cmd")
    BY DEF StreamAligned
  <2>1. /\ tx[1] \in Entries /\ Head(tx) = tx[1] /\ tx[1].k # "pull"
        /\ Kind(tx[1]) = "data" <=> sm.pc = "write"
    BY DEF IInv, Typed, NoPulls, Stream, Fits
  <2> QED BY <2>1 DEF Entries, Kind
<1>2. IInv => NoStaleWord
  <2> SUFFICES ASSUME IInv, stage = "Start"
               PROVE  /\ rx = <<>> /\ sm.pc \notin {"read", "push"}
                      /\ \A k \in 1..Len(tx) : tx[k].r # "read"
    BY DEF NoStaleWord
  <2>1. plan = <<>>
    BY DEF IInv, Typed, Executing
  <2>2. Cnt(tx, "read") \in Nat /\ Len(rx) \in Nat /\ (Len(rx) = 0 => rx = <<>>)
    BY CntNat DEF IInv, Typed
  <2>3. Len(rx) = 0 /\ Shifting = 0 /\ Cnt(tx, "read") = 0
    BY <2>1, <2>2, ShapedEmpty DEF IInv, Balanced, Shifting
  <2>4. \A k \in 1..Len(tx) : Kind(tx[k]) # "read" /\ tx[k] \in Entries
    BY <2>3, CntZero DEF IInv, Typed
  <2>5. \A e \in Entries : Kind(e) # "read" => e.r # "read"
    BY DEF Kind, Entries
  <2>6. \A k \in 1..Len(tx) : tx[k].r # "read"
    BY <2>4, <2>5
  <2> QED BY <2>2, <2>3, <2>6 DEF Shifting
<1> QED BY <1>1, <1>2, Inductive, PTL DEF FifosInStep

-----------------------------------------------------------------------------
(* The turn a lane takes on the core it shares.                             *)

TurnInv ==
  /\ hog \in Nat /\ run \in Nat
  /\ hog <= run /\ run <= YieldEvery
  /\ lanes = 1 => hog = 0
  /\ stage \in {"Request", "Data"} => run < YieldEvery

LEMMA TurnInit == Init => TurnInv
BY PioAssumption DEF Init, TurnInv

LEMMA TurnPoll == TurnInv /\ Poll => TurnInv'
<1> SUFFICES ASSUME TurnInv, Poll PROVE TurnInv'
  OBVIOUS
<1>1. CASE Push \/ PullWord
  BY <1>1 DEF Push, PullWord, turn, TurnInv
<1>2. CASE Blocked \/ YieldTurn
  BY <1>2, PioAssumption DEF Blocked, YieldTurn, xfer, AtStart, TurnInv
<1>3. CASE Request
  BY <1>3, PioAssumption DEF Request, TurnOver, TurnInv
<1>4. CASE RequestDone
  BY <1>4 DEF RequestDone, turn, TurnInv
<1>5. CASE DataDone
  BY <1>5, PioAssumption DEF DataDone, TurnInv
<1>6. CASE Chunk \/ ChunkDone \/ SetDir
  BY <1>6 DEF Chunk, ChunkDone, SetDir, turn, TurnInv
<1>7. CASE DropStale
  BY <1>7 DEF DropStale, turn, TurnInv
<1>8. CASE AwaitStall
  <2>1. /\ UNCHANGED <<run, lanes>>
        /\ stage' \in {stage, "Start"} /\ hog' \in {hog, 0}
    BY <1>8 DEF AwaitStall
  <2> QED BY <2>1 DEF TurnInv
<1>9. CASE SetReset
  BY <1>9 DEF SetReset, turn, xfer, TurnInv
<1> QED BY <1>1, <1>2, <1>3, <1>4, <1>5, <1>6, <1>7, <1>8, <1>9 DEF Poll

LEMMA TurnStep == TurnInv /\ [Next]_vars => TurnInv'
<1> SUFFICES ASSUME TurnInv, [Next]_vars PROVE TurnInv'
  OBVIOUS
<1>1. CASE UNCHANGED vars
  BY <1>1 DEF vars, turn, xfer, TurnInv
<1>2. CASE Resume \/ OtherLanes
  BY <1>2 DEF Resume, OtherLanes, xfer, TurnInv
<1>3. ASSUME NEW c, Begin(c) PROVE TurnInv'
  BY <1>3 DEF Begin, turn, xfer, TurnInv
<1>4. CASE Sm
  BY <1>4 DEF Sm, turn, xfer, TurnInv
<1> QED BY <1>1, <1>2, <1>3, <1>4, TurnPoll DEF Next

\* A lane that shares its core runs at most YIELD_EVERY transfers between two
\* yields, whatever its transfers, retries and FIFO waits (dap.rs, yield_turn).
THEOREM LanesTakeTurns == Spec => []TurnsBounded
<1>1. TurnInv => TurnsBounded
  BY PioAssumption DEF TurnInv, TurnsBounded
<1> QED BY <1>1, TurnInit, TurnStep, PTL DEF Spec

-----------------------------------------------------------------------------
(***************************************************************************)
(* Driver and target in step on the wire.  A command that the driver       *)
(* queues is clocked much later, so what is queued is related to what the  *)
(* target does by the positions the host passes through: every entry of    *)
(* FIFO and plan leads from one position to the next, the first position   *)
(* is that of the target, and the last is the end of the current stage.    *)
(***************************************************************************)

\* A frame of the host: the part of a transfer the driver is in, the direction of
\* its request, turnaround and data phase; then the data stage of this transfer
\* or of the one before: the ACK received ("BAD" for none), the direction, and
\* the number of the word written.
Frame(part, req, trn, phase, a, rnw, i) ==
  [part |-> part, req |-> req, trn |-> trn, phase |-> phase, ack |-> a, rnw |-> rnw, i |-> i]

Carries(f) == f.ack = "OK" \/ f.phase

\* Positions: out of a frame, the request sent, the ACK read, and after it
\* the number of clocks left in the frame.
Out == 0
Asked == -1
Acked == -2

\* A position, and the write command whose word is due, if there is one.
Pos(l) == [left |-> l, pc |-> "cmd", n |-> 0, drive |-> FALSE]
Due(l, n, drive) == [left |-> l, pc |-> "write", n |-> n, drive |-> drive]

\* A read of n clocks leads from l to m: of a sequence, of an ACK, after an
\* ACK that was none, and of the data of a frame.
Reads(f, l, n, m) ==
  \/ f.part = "Cold" /\ l = Out /\ m = Out
  \/ f.part = "Request" /\ n = f.trn + 3 /\ l = Asked /\ m = Acked
  \/ f.part = "Data" /\ f.ack = "BAD" /\ n = f.trn + 33 /\ l = n /\ m = Out
  \/ /\ f.part = "Data" /\ f.ack # "BAD" /\ f.rnw /\ m = l - n
     /\ \/ l = f.trn + 33 /\ n = 32 /\ f.ack = "OK"
        \/ l = f.trn + 1 /\ n = 1 /\ f.ack = "OK"
        \/ l = f.trn + 33 /\ n = 33 /\ f.ack # "OK"

\* A write of n clocks may begin at l: out of a frame, to turn around, or for
\* the data and its parity.
Writes(f, l, n, drive) ==
  \/ l = Out
  \/ /\ f.ack # "BAD" /\ ~drive /\ n = f.trn
     /\ l = f.trn + (IF Carries(f) /\ ~f.rnw THEN 33 ELSE 0)
  \/ /\ f.ack # "BAD" /\ drive /\ ~f.rnw /\ Carries(f)
     /\ \/ l = 33 /\ n = 32
        \/ l = 1 /\ n = 1

\* The word v, i that is due at h leads to m.
Sends(f, h, v, i, m) ==
  \/ v = "packet" /\ f.part = "Request" /\ h.left = Out /\ i \in {0, 1} /\ (i = 1 <=> f.req) /\ m = Asked
  \/ v \in {"zero", "bits"} /\ h.left = Out /\ m = Out
  \/ v = "zero" /\ h.left > 0 /\ m = h.left - h.n /\ m >= 0
  \/ v = "word" /\ h.left = 33 /\ h.drive /\ f.ack = "OK" /\ ~f.rnw /\ i = f.i /\ m = 1

\* The entry e leads from position h to position g.
Leads(f, e, h, g) ==
  \/ /\ e.k # "data" /\ e.v = "" /\ h.pc = "cmd"
     /\ \/ e.k = "pull" /\ g = h
        \/ e.k = "cmd" /\ e.r = "skip" /\ h.left = Out /\ g = h
        \/ /\ e.k = "cmd" /\ e.r = "read" /\ ~e.drive
           /\ \E m \in Int : Reads(f, h.left, e.n, m) /\ g = Pos(m)
        \/ /\ e.k = "cmd" /\ e.r = "write"
           /\ Writes(f, h.left, e.n, e.drive) /\ g = Due(h.left, e.n, e.drive)
  \/ /\ e.k = "data" /\ h.pc = "write"
     /\ \E m \in Int : Sends(f, h, e.v, e.i, m) /\ g = Pos(m)

\* The entries of s lead from h to g, by the positions w.
Path(f, s, h, g) ==
  \E w : /\ w[1] = h /\ w[Len(s) + 1] = g
         /\ \A k \in 1..Len(s) : Leads(f, s[k], w[k], w[k + 1])

-----------------------------------------------------------------------------
LEMMA PathNone == ASSUME NEW f, NEW h, NEW g PROVE Path(f, <<>>, h, g) <=> h = g
<1>1. ASSUME Path(f, <<>>, h, g) PROVE h = g
  BY <1>1 DEF Path
<1>2. ASSUME h = g PROVE Path(f, <<>>, h, g)
  <2> DEFINE w == [k \in 1..1 |-> h]
  <2>1. w[1] = h /\ w[Len(<<>>) + 1] = g /\ 1..Len(<<>>) = {}
    BY <1>2
  <2> HIDE DEF w
  <2> QED BY <2>1 DEF Path
<1> QED BY <1>1, <1>2

LEMMA PathOne ==
  ASSUME NEW f, NEW e, NEW h, NEW g, Leads(f, e, h, g)
  PROVE  Path(f, <<e>>, h, g)
<1> DEFINE w == <<h, g>>
<1>1. w[1] = h /\ w[Len(<<e>>) + 1] = g
  OBVIOUS
<1>2. \A k \in 1..Len(<<e>>) : Leads(f, <<e>>[k], w[k], w[k + 1])
  <2> SUFFICES ASSUME NEW k \in 1..Len(<<e>>) PROVE Leads(f, <<e>>[k], w[k], w[k + 1])
    OBVIOUS
  <2>1. k = 1 /\ <<e>>[k] = e /\ w[k] = h /\ w[k + 1] = g
    OBVIOUS
  <2> QED BY <2>1
<1> QED BY <1>1, <1>2 DEF Path

LEMMA PathConcat ==
  ASSUME NEW f, NEW a \in Seq(Entries), NEW b \in Seq(Entries), NEW h, NEW m, NEW g,
         Path(f, a, h, m), Path(f, b, m, g)
  PROVE  Path(f, a \o b, h, g)
<1>1. PICK u : /\ u[1] = h /\ u[Len(a) + 1] = m
               /\ \A k \in 1..Len(a) : Leads(f, a[k], u[k], u[k + 1])
  BY DEF Path
<1>2. PICK v : /\ v[1] = m /\ v[Len(b) + 1] = g
               /\ \A k \in 1..Len(b) : Leads(f, b[k], v[k], v[k + 1])
  BY DEF Path
<1> DEFINE n == Len(a)
           w == [k \in 1..(Len(a \o b) + 1) |-> IF k <= n THEN u[k] ELSE v[k - n]]
<1>3. /\ n \in Nat /\ Len(b) \in Nat /\ Len(a \o b) = n + Len(b)
      /\ \A k \in 1..n : (a \o b)[k] = a[k]
      /\ \A k \in 1..Len(b) : (a \o b)[k + n] = b[k]
  OBVIOUS
<1>4. /\ \A k \in 1..(n + 1) : w[k] = u[k]
      /\ \A k \in 1..(Len(b) + 1) : w[k + n] = v[k]
  <2>1. \A k \in 1..(n + Len(b) + 1) : w[k] = IF k <= n THEN u[k] ELSE v[k - n]
    BY <1>3
  <2> HIDE DEF w
  <2>2. \A k \in 1..n : w[k] = u[k]
    BY <1>3, <2>1
  <2>3. ASSUME NEW k \in 1..(Len(b) + 1) PROVE w[k + n] = v[k]
    <3>1. k + n \in 1..(n + Len(b) + 1) /\ ~(k + n <= n) /\ (k + n) - n = k
      BY <1>3
    <3> QED BY <2>1, <3>1
  <2>4. w[n + 1] = v[1]
    BY <1>3, <2>3
  <2> QED BY <1>1, <1>2, <1>3, <2>2, <2>3, <2>4
<1> HIDE DEF w
<1>5. w[1] = h /\ w[Len(a \o b) + 1] = g
  <2>1. 1 \in 1..(n + 1) /\ Len(b) + 1 \in 1..(Len(b) + 1) /\ Len(a \o b) + 1 = (Len(b) + 1) + n
    BY <1>3
  <2> QED BY <1>1, <1>2, <1>4, <2>1
<1>6. ASSUME NEW k \in 1..Len(a \o b) PROVE Leads(f, (a \o b)[k], w[k], w[k + 1])
  <2>1. CASE k <= n
    <3>1. k \in 1..n /\ k \in 1..(n + 1) /\ k + 1 \in 1..(n + 1)
      BY <1>3, <2>1
    <3> QED BY <1>1, <1>3, <1>4, <3>1
  <2>2. CASE k > n
    <3> DEFINE j == k - n
    <3>1. /\ j \in 1..Len(b) /\ j \in 1..(Len(b) + 1) /\ j + 1 \in 1..(Len(b) + 1)
          /\ k = j + n /\ k + 1 = (j + 1) + n
      BY <1>3, <2>2
    <3>2. (a \o b)[k] = b[j] /\ w[k] = v[j] /\ w[k + 1] = v[j + 1]
      BY <1>3, <1>4, <3>1
    <3> QED BY <1>2, <3>1, <3>2
  <2> QED BY <1>3, <2>1, <2>2
<1> QED BY <1>5, <1>6 DEF Path

LEMMA PathHead ==
  ASSUME NEW f, NEW s \in Seq(Entries), s # <<>>, NEW h, NEW g, Path(f, s, h, g)
  PROVE  \E m : Leads(f, s[1], h, m) /\ Path(f, Tail(s), m, g)
<1>1. PICK w : /\ w[1] = h /\ w[Len(s) + 1] = g
               /\ \A k \in 1..Len(s) : Leads(f, s[k], w[k], w[k + 1])
  BY DEF Path
<1> DEFINE t == Tail(s)
           v == [k \in 1..(Len(t) + 1) |-> w[k + 1]]
<1>2. /\ Len(s) \in Nat \ {0} /\ Len(t) = Len(s) - 1
      /\ \A k \in 1..Len(t) : t[k] = s[k + 1]
  OBVIOUS
<1>3. \A k \in 1..(Len(t) + 1) : v[k] = w[k + 1]
  OBVIOUS
<1> HIDE DEF v, t
<1>4. v[1] = w[2] /\ v[Len(t) + 1] = g
  BY <1>1, <1>2, <1>3
<1>5. ASSUME NEW k \in 1..Len(t) PROVE Leads(f, t[k], v[k], v[k + 1])
  <2>1. k + 1 \in 1..Len(s) /\ k \in 1..(Len(t) + 1) /\ k + 1 \in 1..(Len(t) + 1)
    BY <1>2
  <2> QED BY <1>1, <1>2, <1>3, <2>1
<1>6. Path(f, t, w[2], g)
  BY <1>4, <1>5 DEF Path
<1>7. Leads(f, s[1], h, w[2])
  <2>1. 1 \in 1..Len(s) /\ 1 + 1 = 2
    BY <1>2
  <2> QED BY <1>1, <2>1
<1> QED BY <1>6, <1>7 DEF t

LEMMA PathAppend ==
  ASSUME NEW f, NEW s \in Seq(Entries), NEW e \in Entries, NEW h, NEW m, NEW g,
         Path(f, s, h, m), Leads(f, e, m, g)
  PROVE  Path(f, Append(s, e), h, g)
<1>1. Path(f, <<e>>, m, g)
  BY PathOne
<1>2. <<e>> \in Seq(Entries) /\ Append(s, e) = s \o <<e>>
  OBVIOUS
<1>3. Path(f, s \o <<e>>, h, g)
  BY <1>1, <1>2, PathConcat
<1> QED BY <1>2, <1>3

-----------------------------------------------------------------------------
LEMMA Codes ==
  /\ Out \in Int /\ Out = 0 /\ Asked \in Int /\ Asked < 0 /\ Acked \in Int /\ Acked < 0
  /\ Asked # Acked
BY DEF Out, Asked, Acked

-----------------------------------------------------------------------------
(* Where every plan leads.                                                  *)

Way(f, s, l, m) == s \in Seq(Entries) /\ Path(f, s, Pos(l), Pos(m))

LEMMA WayConcat ==
  ASSUME NEW f, NEW a, NEW b, NEW l, NEW m, NEW n, Way(f, a, l, m), Way(f, b, m, n)
  PROVE  Way(f, a \o b, l, n)
<1>1. a \in Seq(Entries) /\ b \in Seq(Entries) /\ a \o b \in Seq(Entries)
  BY DEF Way
<1> QED BY <1>1, PathConcat DEF Way

LEMMA WayNone == ASSUME NEW f, NEW l PROVE Way(f, <<>>, l, l)
BY PathNone DEF Way

LEMMA WayPull == ASSUME NEW f, NEW l PROVE Way(f, <<Pull>>, l, l)
<1>1. Pull \in Entries
  BY CommandEntries
<1>2. Leads(f, Pull, Pos(l), Pos(l))
  BY DEF Leads, Pull, Entry, Pos
<1> QED BY <1>1, <1>2, PathOne DEF Way

LEMMA WayRead ==
  ASSUME NEW f, NEW l, NEW n \in Int, NEW m \in Int, Reads(f, l, n, m)
  PROVE  Way(f, <<ReadCmd(n)>>, l, m)
<1>1. ReadCmd(n) \in Entries
  BY CommandEntries
<1>2. Leads(f, ReadCmd(n), Pos(l), Pos(m))
  <2>1. /\ ReadCmd(n).k = "cmd" /\ ReadCmd(n).r = "read" /\ ReadCmd(n).n = n
        /\ ReadCmd(n).drive = FALSE /\ ReadCmd(n).v = "" /\ Pos(l).pc = "cmd" /\ Pos(l).left = l
    BY DEF ReadCmd, Entry, Pos
  <2> QED BY <2>1 DEF Leads
<1> QED BY <1>1, <1>2, PathOne DEF Way

LEMMA Two ==
  ASSUME NEW a \in Entries, NEW b \in Entries
  PROVE  <<a>> \o <<b>> = <<a, b>> /\ <<a, b>> \in Seq(Entries) /\ <<a>> \in Seq(Entries)
<1>1. <<a>> \in Seq(Entries) /\ Append(<<a>>, b) \in Seq(Entries)
  OBVIOUS
<1>2. <<a, b>> = Append(<<a>>, b)
  OBVIOUS
<1>3. \A s \in Seq(Entries) : Append(s, b) = s \o <<b>>
  OBVIOUS
<1> QED BY <1>1, <1>2, <1>3, Zenon

\* A write command and its word.
LEMMA WayWrite ==
  ASSUME NEW f, NEW l, NEW e \in Entries, e.k = "cmd", e.r = "write", e.v = "",
         NEW d \in Entries, d.k = "data", NEW m \in Int,
         Writes(f, l, e.n, e.drive), Sends(f, Due(l, e.n, e.drive), d.v, d.i, m)
  PROVE  Way(f, <<e, d>>, l, m)
<1>1. Leads(f, e, Pos(l), Due(l, e.n, e.drive))
  <2>1. Pos(l).pc = "cmd" /\ Pos(l).left = l
    BY DEF Pos
  <2> QED BY <2>1 DEF Leads
<1>2. Leads(f, d, Due(l, e.n, e.drive), Pos(m))
  <2>1. Due(l, e.n, e.drive).pc = "write"
    BY DEF Due
  <2> QED BY <2>1 DEF Leads
<1>3. Path(f, <<e>>, Pos(l), Due(l, e.n, e.drive)) /\ Path(f, <<d>>, Due(l, e.n, e.drive), Pos(m))
  BY <1>1, <1>2, PathOne
<1>4. <<e>> \in Seq(Entries) /\ <<d>> \in Seq(Entries)
  BY Two
<1>5. Path(f, <<e>> \o <<d>>, Pos(l), Pos(m))
  BY <1>3, <1>4, PathConcat
<1> QED BY <1>5, Two DEF Way

LEMMA WayWriteCmd ==
  ASSUME NEW f, NEW l, NEW n \in Int, NEW v, NEW i, Bits(v, i) \in Entries, NEW m \in Int,
         Writes(f, l, n, TRUE), Sends(f, Due(l, n, TRUE), v, i, m)
  PROVE  Way(f, <<WriteCmd(n), Bits(v, i)>>, l, m)
<1> DEFINE e == WriteCmd(n)
           d == Bits(v, i)
<1>1. e \in Entries
  BY CommandEntries
<1>2. e.k = "cmd" /\ e.r = "write" /\ e.v = "" /\ e.n = n /\ e.drive = TRUE /\ d.k = "data" /\ d.v = v /\ d.i = i
  BY DEF WriteCmd, HizCmd, Bits, Entry
<1> HIDE DEF e, d
<1>3. Writes(f, l, e.n, e.drive) /\ Sends(f, Due(l, e.n, e.drive), d.v, d.i, m) /\ d \in Entries
  <2>1. d \in Entries
    BY DEF d
  <2> QED BY <1>2, <2>1, Zenon
<1>4. Way(f, <<e, d>>, l, m)
  BY <1>1, <1>2, <1>3, WayWrite
<1> QED BY <1>4 DEF e, d

LEMMA WayHizCmd ==
  ASSUME NEW f, NEW l, NEW n \in Int, NEW v, NEW i, Bits(v, i) \in Entries, NEW m \in Int,
         Writes(f, l, n, FALSE), Sends(f, Due(l, n, FALSE), v, i, m)
  PROVE  Way(f, <<HizCmd(n), Bits(v, i)>>, l, m)
<1> DEFINE e == HizCmd(n)
           d == Bits(v, i)
<1>1. e \in Entries
  BY CommandEntries
<1>2. e.k = "cmd" /\ e.r = "write" /\ e.v = "" /\ e.n = n /\ e.drive = FALSE /\ d.k = "data" /\ d.v = v /\ d.i = i
  BY DEF WriteCmd, HizCmd, Bits, Entry
<1> HIDE DEF e, d
<1>3. Writes(f, l, e.n, e.drive) /\ Sends(f, Due(l, e.n, e.drive), d.v, d.i, m) /\ d \in Entries
  <2>1. d \in Entries
    BY DEF d
  <2> QED BY <1>2, <2>1, Zenon
<1>4. Way(f, <<e, d>>, l, m)
  BY <1>1, <1>2, <1>3, WayWrite
<1> QED BY <1>4 DEF e, d

\* The turnaround after the ACK of a write or the data of a read.
LEMMA WayHiz ==
  ASSUME params \in Params, NEW f, f.trn = Trn, f.ack # "BAD",
         NEW l \in Int, l = Trn + (IF Carries(f) /\ ~f.rnw THEN 33 ELSE 0),
         NEW m \in Nat, m = l - Trn
  PROVE  Way(f, Hiz, l, m)
<1>1. Trn \in 1..4
  BY PioAssumption DEF Trn
<1>2. Bits("zero", 0) \in Entries
  BY DataEntries
<1>3. Writes(f, l, Trn, FALSE)
  BY DEF Writes
<1>4. Sends(f, Due(l, Trn, FALSE), "zero", 0, m)
  BY <1>1 DEF Sends, Due
<1>5. Way(f, <<HizCmd(Trn), Bits("zero", 0)>>, l, m)
  <2>1. Trn \in Int /\ m \in Int
    BY <1>1
  <2> QED BY <1>2, <1>3, <1>4, <2>1, WayHizCmd
<1> QED BY <1>1, <1>5 DEF Hiz

LEMMA WayIdle == ASSUME params \in Params, NEW f PROVE Way(f, Idle, Out, Out)
<1>1. params.idle \in Int /\ Bits("zero", 0) \in Entries
  BY PioAssumption, DataEntries
<1>2. Writes(f, Out, params.idle, TRUE)
  BY DEF Writes
<1>3. Sends(f, Due(Out, params.idle, TRUE), "zero", 0, Out) /\ Out \in Int
  BY DEF Sends, Due, Out
<1>4. Way(f, <<WriteCmd(params.idle), Bits("zero", 0)>>, Out, Out)
  BY <1>1, <1>2, <1>3, WayWriteCmd
<1> QED BY <1>4, WayNone DEF Idle

\* The data of a write, and what stands for it after a refusal.
LEMMA WayWord ==
  ASSUME NEW f, f.ack # "BAD", ~f.rnw, Carries(f), NEW i \in Int
  PROVE  /\ f.ack = "OK" /\ i = f.i => Way(f, WriteWord("word", i), 33, Out)
         /\ Way(f, WriteWord("zero", i), 33, Out)
<1>1. /\ Bits("zero", 0) \in Entries /\ Bits("word", i) \in Entries /\ Bits("zero", i) \in Entries
  BY DataEntries
<1>2. Writes(f, 33, 32, TRUE) /\ Writes(f, 1, 1, TRUE)
  BY DEF Writes
<1>3. /\ f.ack = "OK" /\ i = f.i => Sends(f, Due(33, 32, TRUE), "word", i, 1)
      /\ Sends(f, Due(33, 32, TRUE), "zero", i, 1)
      /\ Sends(f, Due(1, 1, TRUE), "zero", 0, Out)
  BY DEF Sends, Due, Out
<1>4. Way(f, <<WriteCmd(1), Bits("zero", 0)>>, 1, Out)
  <2>1. Out \in Int
    BY DEF Out
  <2>2. 1 \in Int
    OBVIOUS
  <2> QED BY <1>1, <1>2, <1>3, <2>1, <2>2, WayWriteCmd, Zenon
<1>5. ASSUME NEW v, Bits(v, i) \in Entries, Sends(f, Due(33, 32, TRUE), v, i, 1)
      PROVE  Way(f, WriteWord(v, i), 33, Out)
  <2>1. Way(f, <<WriteCmd(32), Bits(v, i)>>, 33, 1)
    <3>1. 32 \in Int /\ 1 \in Int
      OBVIOUS
    <3> QED BY <1>2, <1>5, <3>1, WayWriteCmd, Zenon
  <2>2. Way(f, <<WriteCmd(32), Bits(v, i)>> \o <<WriteCmd(1), Bits("zero", 0)>>, 33, Out)
    BY <1>4, <2>1, WayConcat
  <2>3. WriteCmd(32) \in Entries /\ WriteCmd(1) \in Entries
    BY CommandEntries
  <2>4. WriteWord(v, i) = <<WriteCmd(32), Bits(v, i)>> \o <<WriteCmd(1), Bits("zero", 0)>>
    BY DEF WriteWord
  <2> QED BY <2>2, <2>4
<1> QED BY <1>1, <1>3, <1>5

LEMMA WayRequest ==
  ASSUME params \in Params, NEW f, f.part = "Request", f.trn = Trn, NEW rnw \in BOOLEAN, rnw <=> f.req
  PROVE  Way(f, PlanRequest(rnw), Out, Acked)
<1> DEFINE i == IF rnw THEN 1 ELSE 0
<1>1. Trn \in Int /\ Bits("packet", i) \in Entries
  BY PioAssumption, DataEntries DEF Trn
<1>2. Asked \in Int /\ Acked \in Int /\ (i = 1 <=> f.req) /\ i \in {0, 1}
  BY Codes
<1>3. Writes(f, Out, 8, TRUE) /\ Sends(f, Due(Out, 8, TRUE), "packet", i, Asked)
  BY <1>2 DEF Writes, Sends, Due
<1>4. Way(f, <<WriteCmd(8), Bits("packet", i)>>, Out, Asked)
  <2>1. 8 \in Int
    OBVIOUS
  <2> QED BY <1>1, <1>2, <1>3, <2>1, WayWriteCmd, Zenon
<1>5. Reads(f, Asked, Trn + 3, Acked)
  BY DEF Reads
<1>6. Way(f, <<ReadCmd(Trn + 3)>>, Asked, Acked)
  BY <1>1, <1>2, <1>5, WayRead
<1>7. Way(f, <<WriteCmd(8), Bits("packet", i)>> \o <<ReadCmd(Trn + 3)>>, Out, Acked)
  BY <1>4, <1>6, WayConcat
<1>8. Way(f, (<<WriteCmd(8), Bits("packet", i)>> \o <<ReadCmd(Trn + 3)>>) \o <<Pull>>, Out, Acked)
  BY <1>7, WayPull, WayConcat
<1>9. PlanRequest(rnw) = (<<WriteCmd(8), Bits("packet", i)>> \o <<ReadCmd(Trn + 3)>>) \o <<Pull>>
  BY DEF PlanRequest
<1> QED BY <1>8, <1>9

\* What is left of a frame once its ACK is read.
Rest(f) == f.trn + (IF f.ack = "BAD" \/ Carries(f) THEN 33 ELSE 0)

LEMMA WayData ==
  ASSUME params \in Params, NEW rnw \in BOOLEAN, NEW i \in Int, NEW j,
         NEW a, a = "OK" \/ a = "WAIT" \/ a = "FAULT" \/ a = "BAD",
         a = "OK" /\ ~rnw => j = i
  PROVE  Way(Frame("Data", rnw, Trn, params.phase, a, rnw, j), PlanData(a, rnw, i),
             Rest(Frame("Data", rnw, Trn, params.phase, a, rnw, j)), Out)
<1> DEFINE f == Frame("Data", rnw, Trn, params.phase, a, rnw, j)
<1>0. /\ f.part = "Data" /\ f.trn = Trn /\ f.phase = params.phase /\ f.ack = a /\ f.rnw = rnw /\ f.i = j
      /\ Trn \in 1..4 /\ params.phase \in BOOLEAN /\ Out \in Int /\ Out = 0
  BY PioAssumption DEF Frame, Trn, Out
<1>1. Carries(f) <=> (a = "OK" \/ params.phase)
  BY <1>0 DEF Carries
<1> HIDE DEF f
<1>2. a = "BAD" => Way(f, PlanData(a, rnw, i), Rest(f), Out)
  <2> SUFFICES ASSUME a = "BAD" PROVE Way(f, PlanData(a, rnw, i), Rest(f), Out)
    OBVIOUS
  <2>1. PlanData(a, rnw, i) = <<ReadCmd(Trn + 33), Pull>> /\ Rest(f) = Trn + 33
    BY <1>0 DEF PlanData, Rest
  <2>2. Reads(f, Trn + 33, Trn + 33, Out)
    BY <1>0 DEF Reads
  <2>3. Way(f, <<ReadCmd(Trn + 33)>>, Trn + 33, Out)
    BY <1>0, <2>2, WayRead
  <2>4. Way(f, <<ReadCmd(Trn + 33)>> \o <<Pull>>, Trn + 33, Out)
    BY <2>3, WayPull, WayConcat
  <2>5. ReadCmd(Trn + 33) \in Entries /\ Pull \in Entries
    BY <1>0, CommandEntries
  <2> QED BY <2>1, <2>4, <2>5, Two
<1>3. a = "OK" /\ rnw => Way(f, PlanData(a, rnw, i), Rest(f), Out)
  <2> SUFFICES ASSUME a = "OK", rnw PROVE Way(f, PlanData(a, rnw, i), Rest(f), Out)
    OBVIOUS
  <2>1. PlanData(a, rnw, i) = <<ReadCmd(32), ReadCmd(1)>> \o Hiz \o Idle \o <<Pull, Pull>>
    BY DEF PlanData, DataOK
  <2>2. Rest(f) = Trn + 33
    BY <1>0, <1>1 DEF Rest
  <2>3. Way(f, <<ReadCmd(32)>>, Trn + 33, Trn + 1)
    <3>1. Reads(f, Trn + 33, 32, Trn + 1)
      BY <1>0 DEF Reads
    <3> QED BY <1>0, <3>1, WayRead
  <2>4. Way(f, <<ReadCmd(1)>>, Trn + 1, Trn)
    <3>1. Reads(f, Trn + 1, 1, Trn)
      BY <1>0 DEF Reads
    <3> QED BY <1>0, <3>1, WayRead
  <2>5. Way(f, <<ReadCmd(32)>> \o <<ReadCmd(1)>>, Trn + 33, Trn)
    BY <2>3, <2>4, WayConcat
  <2>6. Way(f, <<ReadCmd(32), ReadCmd(1)>>, Trn + 33, Trn)
    <3>1. ReadCmd(32) \in Entries /\ ReadCmd(1) \in Entries
      BY CommandEntries
    <3> QED BY <2>5, <3>1, Two
  <2>7. Way(f, Hiz, Trn, Out)
    <3>1. /\ Trn = Trn + (IF Carries(f) /\ ~f.rnw THEN 33 ELSE 0) /\ Out = Trn - Trn
          /\ Trn \in Int /\ Out \in Nat /\ f.ack # "BAD"
      BY <1>0
    <3> QED BY <1>0, <3>1, WayHiz, Zenon
  <2>8. Way(f, <<ReadCmd(32), ReadCmd(1)>> \o Hiz \o Idle, Trn + 33, Out)
    BY <2>6, <2>7, WayIdle, WayConcat
  <2>9. Way(f, <<Pull, Pull>>, Out, Out)
    <3>1. Way(f, <<Pull>> \o <<Pull>>, Out, Out)
      BY WayPull, WayConcat
    <3>2. Pull \in Entries
      BY CommandEntries
    <3> QED BY <3>1, <3>2, Two
  <2>10. Way(f, <<ReadCmd(32), ReadCmd(1)>> \o Hiz \o Idle \o <<Pull, Pull>>, Trn + 33, Out)
    BY <2>8, <2>9, WayConcat
  <2> QED BY <2>1, <2>2, <2>10
<1>4. a = "OK" /\ ~rnw => Way(f, PlanData(a, rnw, i), Rest(f), Out)
  <2> SUFFICES ASSUME a = "OK", ~rnw PROVE Way(f, PlanData(a, rnw, i), Rest(f), Out)
    OBVIOUS
  <2>1. PlanData(a, rnw, i) = Hiz \o WriteWord("word", i) \o Idle
    BY DEF PlanData, DataOK
  <2>2. Rest(f) = Trn + 33
    BY <1>0, <1>1 DEF Rest
  <2>3. Way(f, Hiz, Trn + 33, 33)
    <3>1. Trn + 33 = Trn + (IF Carries(f) /\ ~f.rnw THEN 33 ELSE 0) /\ (Trn + 33) - Trn = 33
      BY <1>0, <1>1
    <3> QED BY <1>0, <3>1, WayHiz
  <2>4. ~f.rnw /\ f.i = i /\ Carries(f)
    BY <1>0, <1>1
  <2>5. Way(f, WriteWord("word", i), 33, Out)
    BY <1>0, <2>4, WayWord
  <2> QED BY <2>1, <2>2, <2>3, <2>5, WayIdle, WayConcat
<1>5. (a = "WAIT" \/ a = "FAULT") /\ rnw => Way(f, PlanData(a, rnw, i), Rest(f), Out)
  <2> SUFFICES ASSUME a = "WAIT" \/ a = "FAULT", rnw PROVE Way(f, PlanData(a, rnw, i), Rest(f), Out)
    OBVIOUS
  <2> DEFINE r == IF params.phase THEN <<ReadCmd(33), Pull>> ELSE <<>>
  <2>1. PlanData(a, rnw, i) = r \o Hiz \o <<>>
    BY DEF PlanData, DataRefused
  <2>2. Way(f, r, Rest(f), Trn)
    <3>1. CASE params.phase
      <4>1. Rest(f) = Trn + 33 /\ a # "OK" /\ a # "BAD"
        BY <1>0, <1>1, <3>1 DEF Rest
      <4>2. Reads(f, Trn + 33, 33, Trn)
        BY <1>0, <4>1 DEF Reads
      <4>3. Way(f, <<ReadCmd(33)>>, Trn + 33, Trn)
        BY <1>0, <4>2, WayRead
      <4>4. Way(f, <<ReadCmd(33)>> \o <<Pull>>, Trn + 33, Trn)
        BY <4>3, WayPull, WayConcat
      <4>5. ReadCmd(33) \in Entries /\ Pull \in Entries
        BY CommandEntries
      <4> QED BY <3>1, <4>1, <4>4, <4>5, Two
    <3>2. CASE ~params.phase
      <4>1. Rest(f) = Trn
        BY <1>0, <1>1, <3>2 DEF Rest
      <4> QED BY <3>2, <4>1, WayNone
    <3> QED BY <3>1, <3>2
  <2>3. Way(f, Hiz, Trn, Out)
    <3>1. /\ Trn = Trn + (IF Carries(f) /\ ~f.rnw THEN 33 ELSE 0) /\ Out = Trn - Trn
          /\ Trn \in Int /\ Out \in Nat /\ f.ack # "BAD"
      BY <1>0
    <3> QED BY <1>0, <3>1, WayHiz, Zenon
  <2> HIDE DEF r
  <2>4. Way(f, r \o Hiz, Rest(f), Out)
    BY <2>2, <2>3, WayConcat
  <2> QED BY <2>1, <2>4, WayNone, WayConcat
<1>6. (a = "WAIT" \/ a = "FAULT") /\ ~rnw => Way(f, PlanData(a, rnw, i), Rest(f), Out)
  <2> SUFFICES ASSUME a = "WAIT" \/ a = "FAULT", ~rnw PROVE Way(f, PlanData(a, rnw, i), Rest(f), Out)
    OBVIOUS
  <2> DEFINE w == IF params.phase THEN WriteWord("zero", 0) ELSE <<>>
  <2>1. PlanData(a, rnw, i) = <<>> \o Hiz \o w
    BY DEF PlanData, DataRefused
  <2>2. Way(f, Hiz, Rest(f), Rest(f) - Trn)
    <3>1. Rest(f) = Trn + (IF Carries(f) /\ ~f.rnw THEN 33 ELSE 0) /\ f.ack # "BAD" /\ Rest(f) \in Int
      BY <1>0 DEF Rest
    <3> QED BY <1>0, <3>1, WayHiz
  <2>3. Way(f, w, Rest(f) - Trn, Out)
    <3>1. CASE params.phase
      <4>1. Rest(f) - Trn = 33 /\ Carries(f) /\ f.ack # "BAD" /\ ~f.rnw
        BY <1>0, <1>1, <3>1 DEF Rest
      <4>2. Way(f, WriteWord("zero", 0), 33, Out)
        BY <4>1, WayWord
      <4> QED BY <3>1, <4>1, <4>2
    <3>2. CASE ~params.phase
      <4>1. Rest(f) - Trn = Out
        BY <1>0, <1>1, <3>2 DEF Rest
      <4> QED BY <3>2, <4>1, WayNone
    <3> QED BY <3>1, <3>2
  <2> HIDE DEF w
  <2>4. Way(f, <<>> \o Hiz, Rest(f), Rest(f) - Trn)
    BY <2>2, WayNone, WayConcat
  <2> QED BY <2>1, <2>3, <2>4, WayConcat
<1> QED BY <1>2, <1>3, <1>4, <1>5, <1>6 DEF f

\* The plans of the cold paths stay out of a frame.
LEMMA WayCold ==
  ASSUME NEW f, f.part = "Cold"
  PROVE  /\ Way(f, <<WriteCmd(8), Bits("bits", 0)>>, Out, Out)
         /\ Way(f, <<ReadCmd(8), Pull>>, Out, Out)
         /\ \A drive \in BOOLEAN : Way(f, <<DirCmd(drive)>>, Out, Out)
<1>1. Way(f, <<WriteCmd(8), Bits("bits", 0)>>, Out, Out)
  <2>1. Bits("bits", 0) \in Entries /\ 8 \in Int /\ Out \in Int
    BY DataEntries DEF Out
  <2>2. Writes(f, Out, 8, TRUE) /\ Sends(f, Due(Out, 8, TRUE), "bits", 0, Out)
    BY DEF Writes, Sends, Due
  <2> QED BY <2>1, <2>2, WayWriteCmd, Zenon
<1>2. Way(f, <<ReadCmd(8), Pull>>, Out, Out)
  <2>1. ReadCmd(8) \in Entries /\ Pull \in Entries /\ Out \in Int
    BY CommandEntries DEF Out
  <2>2. Reads(f, Out, 8, Out)
    BY DEF Reads
  <2>3. Way(f, <<ReadCmd(8)>>, Out, Out)
    BY <2>1, <2>2, WayRead
  <2>4. Way(f, <<ReadCmd(8)>> \o <<Pull>>, Out, Out)
    BY <2>3, WayPull, WayConcat
  <2> QED BY <2>1, <2>4, Two
<1>3. ASSUME NEW drive \in BOOLEAN PROVE Way(f, <<DirCmd(drive)>>, Out, Out)
  <2>1. DirCmd(drive) \in Entries
    <3>1. 0 \in Int
      OBVIOUS
    <3> QED BY <1>3, <3>1, CommandEntries
  <2>2. Leads(f, DirCmd(drive), Pos(Out), Pos(Out))
    BY DEF Leads, DirCmd, Entry, Pos
  <2>3. <<DirCmd(drive)>> \in Seq(Entries)
    BY <2>1
  <2> QED BY <2>2, <2>3, PathOne DEF Way
<1> QED BY <1>1, <1>2, <1>3

\* Without reads and requests the part of the transfer does not matter.
LEMMA PathPart ==
  ASSUME NEW s \in Seq(Entries), NEW h, NEW g, NEW f, NEW e, Path(f, s, h, g),
         f.part # "Request", \A k \in 1..Len(s) : s[k].r # "read",
         e.trn = f.trn, e.phase = f.phase, e.ack = f.ack, e.rnw = f.rnw, e.i = f.i
  PROVE  Path(e, s, h, g)
<1>1. PICK w : /\ w[1] = h /\ w[Len(s) + 1] = g
               /\ \A k \in 1..Len(s) : Leads(f, s[k], w[k], w[k + 1])
  BY DEF Path
<1>2. ASSUME NEW k \in 1..Len(s) PROVE Leads(e, s[k], w[k], w[k + 1])
  <2>1. Leads(f, s[k], w[k], w[k + 1]) /\ s[k].r # "read"
    BY <1>1
  <2>2. Carries(e) <=> Carries(f)
    BY DEF Carries
  <2>3. \A l, n, drive : Writes(f, l, n, drive) => Writes(e, l, n, drive)
    BY <2>2 DEF Writes
  <2>4. \A v, i, m : Sends(f, w[k], v, i, m) => Sends(e, w[k], v, i, m)
    BY DEF Sends
  <2> QED BY <2>1, <2>3, <2>4 DEF Leads
<1> QED BY <1>1, <1>2 DEF Path

\* Once nothing is to be read, a path that ends with the ACK read is at its end.
LEMMA PathAcked ==
  ASSUME NEW s \in Seq(Entries), NEW h, NEW f, Path(f, s, h, Pos(Acked)),
         \A k \in 1..Len(s) : s[k].r # "read" /\ s[k].k # "pull"
  PROVE  s = <<>> /\ h = Pos(Acked)
<1>1. PICK w : /\ w[1] = h /\ w[Len(s) + 1] = Pos(Acked)
               /\ \A k \in 1..Len(s) : Leads(f, s[k], w[k], w[k + 1])
  BY DEF Path
<1>2. s = <<>>
  <2> SUFFICES ASSUME s # <<>> PROVE FALSE
    OBVIOUS
  <2> DEFINE e == s[Len(s)]
             u == w[Len(s)]
  <2>1. Len(s) \in 1..Len(s)
    OBVIOUS
  <2>2. Leads(f, e, u, Pos(Acked)) /\ e.r # "read" /\ e.k # "pull"
    BY <1>1, <2>1
  <2> HIDE DEF e, u
  <2>3. Pos(Acked).left < 0 /\ Pos(Acked).left # Asked /\ Pos(Acked).pc = "cmd"
    BY Codes DEF Pos
  <2>4. ASSUME e.k = "data", NEW m \in Int, Sends(f, u, e.v, e.i, m), Pos(Acked) = Pos(m)
        PROVE  FALSE
    <3>1. Pos(m).left = m
      BY DEF Pos
    <3>2. m >= 0 \/ m = Asked
      BY <2>4, Codes DEF Sends
    <3> QED BY <2>3, <2>4, <3>1, <3>2
  <2>5. \A n, drive : Pos(Acked) # Due(u.left, n, drive)
    BY DEF Pos, Due
  <2>6. u.left = Out => Pos(Acked) # u
    BY <2>3 DEF Out
  <2> QED BY <2>2, <2>4, <2>5, <2>6 DEF Leads
<1> QED BY <1>1, <1>2, PathNone

-----------------------------------------------------------------------------
(* The invariant.                                                           *)

\* The calls of the command processor and the cold ones.
Good(c) ==
  /\ c.rnw \in BOOLEAN /\ c.ap \in BOOLEAN /\ c.n \in Nat /\ c.retries \in Nat
  /\ \/ c.op = "single" /\ c.n = 1 /\ ~c.ap
     \/ c.op = "read" /\ c.rnw
     \/ c.op = "write" /\ ~c.rnw /\ ~c.ap
     \/ /\ ~c.rnw /\ ~c.ap /\ c.retries = 0
        /\ c.op \notin {"single", "read", "write"}

\* How far a call is, and what it has stored.
CallInv ==
  /\ Good(call) /\ (call.op = "none" => call = NoCall)
  /\ call # NoCall => call.n > 0
  /\ retry \in Nat /\ (~OnWire => retry = 0)
  /\ call.op # "read" => words = <<>>
  /\ call.op \notin {"read", "write"} /\ ~InSequence => next = 0
  /\ call.op = "write" => next \in 0..call.n
  /\ call.op = "read" => next \in -1..(call.n - 1) /\ (next = -1 => call.ap)

StageInv ==
  /\ stage \in {"Request", "Data"} => OnWire
  /\ stage = "Exec" => InSequence \/ InSetDir
  /\ stage = "Stalled" => InSetDir

\* The direction of SWDIO is the last that connect and disconnect queue, and
\* the flag they await says that it is executed.
Direction ==
  /\ InSetDir /\ stage \in {"Exec", "Stalled"} =>
       /\ plan # <<>> => plan = <<DirCmd(call.op = "connect")>>
       /\ plan = <<>> /\ tx # <<>> => tx[Len(tx)] = DirCmd(call.op = "connect")
       /\ plan = <<>> /\ tx = <<>> => sm.drive = (call.op = "connect")
  /\ stage = "Stalled" /\ txstall => tx = <<>>

TargetInv ==
  /\ tgt = [mode |-> tgt.mode, pos |-> tgt.pos, rnw |-> tgt.rnw, ans |-> tgt.ans, cnt |-> tgt.cnt]
  /\ tgt.pos \in Int /\ tgt.cnt \in Int
  /\ tgt.mode = "frame" => tgt.ans = "OK" \/ tgt.ans = "WAIT" \/ tgt.ans = "FAULT"

HeldInv == sm.n \in Int /\ \E S : out \in Seq(S)

\* The part of a transfer that the driver is in, and where it leads to.
Part == IF stage = "Request" \/ stage = "Data" THEN stage ELSE "Cold"
End == IF stage = "Request" THEN Acked ELSE Out

\* f is the frame of the transfer in its data stage, or of the one before.
Framed(f) ==
  /\ f.part = Part /\ (stage = "Request" => f.req = Rnw) /\ f.trn = Trn /\ f.phase = params.phase
  /\ stage = "Data" =>
       /\ f.ack = ack /\ f.rnw = Rnw
       /\ f.i = IF ack = "OK" /\ call.op = "write" /\ ~RdBuff THEN next + 1 ELSE 0
       /\ ack = "OK" \/ ack = "WAIT" \/ ack = "FAULT" \/ ack = "BAD"
  /\ f.i # 0 => call.op = "write"

\* The target awaits an ACK's read, or nothing any more.
Answering(rnw, p) ==
  tgt.mode = "lost" \/ (tgt.mode = "frame" /\ (tgt.rnw <=> rnw) /\ tgt.pos = p)

\* What is known of the target at position l.
Knows(f, l) ==
  /\ l = Out => tgt.mode # "frame"
  /\ l = Asked => Answering(f.req, 8)
  /\ l = Acked => Answering(f.req, 11 + Trn)
  /\ l > 0 /\ f.ack # "BAD" =>
       /\ tgt.mode = "frame" /\ (tgt.rnw <=> f.rnw) /\ tgt.ans = f.ack
       /\ FrameLen - tgt.pos = l
       /\ f.i # 0 => tgt.cnt = f.i
  /\ l > 0 /\ f.ack = "BAD" /\ tgt.mode = "frame" => FrameLen - tgt.pos <= l

\* The position h from which the queue leads on: the command in execution is
\* a step of its own, from the position l of the target.
Current(f, l, h) ==
  /\ sm.pc = "write" => h = Due(l, sm.n, sm.drive) /\ Writes(f, l, sm.n, sm.drive)
  /\ sm.pc = "read" => ~sm.drive /\ \E m \in Int : Reads(f, l, sm.n, m) /\ h = Pos(m)
  /\ sm.pc \in {"cmd", "push"} => h = Pos(l)

\* Transfers of this call that the target has accepted before this one.
Accepted == IF call.ap THEN next + 1 ELSE next

Accepts(a) == IF a = "OK" THEN 1 ELSE 0

Counts(l) ==
  /\ OnWire /\ stage = "Start" => tgt.cnt = Accepted
  /\ stage = "Request" /\ l >= 0 => tgt.cnt = Accepted
  /\ stage = "Request" /\ l < 0 /\ tgt.mode = "frame" => tgt.cnt = Accepted + Accepts(tgt.ans)
  /\ stage = "Data" /\ ack # "BAD" => tgt.cnt = Accepted + Accepts(ack)

\* The words received in this stage: pulled, in the FIFO, about to be pushed.
Got == Len(out) + Len(rx) + (IF sm.pc = "push" THEN 1 ELSE 0)

Taken(k) ==
  IF k <= Len(out) THEN out[k] ELSE IF k <= Len(out) + Len(rx) THEN rx[k - Len(out)] ELSE sm.isr

Answers(l) ==
  /\ stage = "Request" /\ l # Acked => Got = 0
  /\ stage = "Request" /\ l = Acked =>
       /\ Got = 1
       /\ \/ Taken(1).ack = "BAD"
          \/ tgt.mode = "frame" /\ Taken(1).ack = tgt.ans
  /\ stage = "Data" /\ ack = "OK" /\ Rnw =>
       /\ l = Trn + 33 \/ l = Trn + 1 \/ l \in 0..Trn
       /\ l = Trn + 33 => Got = 0
       /\ l = Trn + 1 => Got = 1
       /\ l <= Trn => Got = 2 /\ (Taken(2).ack = "OK" \/ Taken(2).ack = "ERROR")
       /\ l <= Trn + 1 => Taken(1).data = tgt.cnt

WireAt(f, l, h, g) ==
  /\ l \in Int /\ (l < 0 => stage = "Request")
  /\ Framed(f) /\ Knows(f, l) /\ Current(f, l, h)
  /\ Path(f, tx, h, g) /\ Path(f, plan, g, Pos(End))
  /\ Counts(l) /\ Answers(l)

Wire == \E f, l, h, g : WireAt(f, l, h, g)

WInv == IInv /\ CallInv /\ StageInv /\ Direction /\ TargetInv /\ HeldInv /\ Wire

-----------------------------------------------------------------------------
(* What the clocks of one command do to the target.                         *)

LEMMA ClockAway ==
  ASSUME TargetInv, NEW v, NEW i, Clock(v, i), tgt.mode # "frame", v # "packet"
  PROVE  TargetInv' /\ tgt'.mode # "frame" /\ tgt'.cnt = tgt.cnt
<1>1. \/ tgt' = [tgt EXCEPT !.mode = "idle"]
      \/ tgt' = [tgt EXCEPT !.mode = "lost"]
      \/ tgt' = tgt
  BY DEF Clock
<1> QED BY <1>1 DEF TargetInv

LEMMA ClockPacket ==
  ASSUME TargetInv, NEW i \in {0, 1}, Clock("packet", i), tgt.mode # "frame"
  PROVE  /\ TargetInv'
         /\ \/ tgt'.mode = "lost" /\ tgt'.cnt = tgt.cnt
            \/ /\ tgt'.mode = "frame" /\ tgt'.pos = 8 /\ tgt'.rnw = (i = 1)
               /\ tgt'.cnt = tgt.cnt + Accepts(tgt'.ans)
<1>1. \/ tgt' = [tgt EXCEPT !.mode = "lost"]
      \/ \E a \in {"OK", "WAIT", "FAULT"} :
           tgt' = [tgt EXCEPT !.mode = "frame", !.pos = 8, !.rnw = (i = 1), !.ans = a,
                              !.cnt = IF a = "OK" THEN @ + 1 ELSE @]
  BY DEF Clock
<1>2. CASE tgt' = [tgt EXCEPT !.mode = "lost"]
  BY <1>2 DEF TargetInv
<1>3. ASSUME NEW a, a = "OK" \/ a = "WAIT" \/ a = "FAULT",
             tgt' = [tgt EXCEPT !.mode = "frame", !.pos = 8, !.rnw = (i = 1), !.ans = a,
                                !.cnt = IF a = "OK" THEN @ + 1 ELSE @]
      PROVE  /\ TargetInv' /\ tgt'.mode = "frame" /\ tgt'.pos = 8 /\ tgt'.rnw = (i = 1)
             /\ tgt'.cnt = tgt.cnt + Accepts(tgt'.ans)
  <2>1. /\ tgt'.mode = "frame" /\ tgt'.pos = 8 /\ tgt'.rnw = (i = 1) /\ tgt'.ans = a
        /\ tgt'.cnt = IF a = "OK" THEN tgt.cnt + 1 ELSE tgt.cnt
        /\ tgt' = [mode |-> tgt'.mode, pos |-> tgt'.pos, rnw |-> tgt'.rnw, ans |-> tgt'.ans,
                   cnt |-> tgt'.cnt]
    BY <1>3 DEF TargetInv
  <2>2. tgt'.cnt = tgt.cnt + Accepts(a) /\ tgt'.cnt \in Int
    BY <2>1 DEF Accepts, TargetInv
  <2>3. TargetInv'
    BY <1>3, <2>1, <2>2 DEF TargetInv
  <2> QED BY <2>1, <2>2, <2>3
<1> QED BY <1>1, <1>2, <1>3

\* In a frame the target counts the clocks, up to its own end.
LEMMA ClockFrame ==
  ASSUME TargetInv, NEW v, NEW i, Clock(v, i), tgt.mode = "frame", params \in Params,
         UNCHANGED params, sm.n \in Int
  PROVE  /\ TargetInv' /\ tgt'.cnt = tgt.cnt
         /\ tgt.pos + sm.n < FrameLen =>
              /\ tgt'.mode = "frame" /\ tgt'.pos = tgt.pos + sm.n
              /\ tgt'.rnw = tgt.rnw /\ tgt'.ans = tgt.ans /\ FrameLen' = FrameLen
         /\ tgt.pos + sm.n = FrameLen => tgt'.mode = "idle"
         /\ tgt.pos + sm.n > FrameLen => tgt'.mode = "lost"
<1> DEFINE pos == tgt.pos + sm.n
<1>1. tgt' = IF pos < FrameLen THEN [tgt EXCEPT !.pos = pos]
             ELSE [Silent EXCEPT !.mode = IF pos = FrameLen THEN "idle" ELSE "lost", !.cnt = tgt.cnt]
  BY DEF Clock
<1>2. pos \in Int /\ FrameLen \in Int
  BY PioAssumption DEF TargetInv, FrameLen, Trn
<1>3. CASE pos < FrameLen
  <2>1. tgt' = [tgt EXCEPT !.pos = pos]
    BY <1>1, <1>3
  <2>2. /\ tgt'.mode = "frame" /\ tgt'.pos = pos /\ tgt'.rnw = tgt.rnw /\ tgt'.ans = tgt.ans
        /\ tgt'.cnt = tgt.cnt /\ TargetInv'
    BY <1>2, <2>1 DEF TargetInv
  <2>3. FrameLen' = FrameLen
    BY <2>2 DEF FrameLen, HasData, Trn
  <2> QED BY <1>2, <1>3, <2>2, <2>3
<1>4. CASE ~(pos < FrameLen)
  <2>1. tgt' = [Silent EXCEPT !.mode = IF pos = FrameLen THEN "idle" ELSE "lost", !.cnt = tgt.cnt]
    BY <1>1, <1>4
  <2>2. /\ tgt'.mode = (IF pos = FrameLen THEN "idle" ELSE "lost")
        /\ tgt'.cnt = tgt.cnt /\ TargetInv'
    <3> DEFINE mode == IF pos = FrameLen THEN "idle" ELSE "lost"
    <3>1. tgt' = [mode |-> mode, pos |-> 0, rnw |-> FALSE, ans |-> "none", cnt |-> tgt.cnt]
      BY <2>1 DEF Silent
    <3>2. mode # "frame"
      OBVIOUS
    <3> HIDE DEF mode
    <3>3. tgt'.mode = mode /\ tgt'.cnt = tgt.cnt /\ TargetInv'
      BY <3>1, <3>2 DEF TargetInv
    <3> QED BY <3>3 DEF mode
  <2> QED BY <1>2, <1>4, <2>2
<1> QED BY <1>3, <1>4

\* A step of the host along its frame is a step of the target along its own.
LEMMA KnowsReads ==
  ASSUME TargetInv, params \in Params, UNCHANGED params, sm.n \in Int, Clock("none", 0),
         NEW f, f.trn = Trn, f.phase = params.phase, NEW l \in Int, NEW m \in Int,
         Knows(f, l), Reads(f, l, sm.n, m)
  PROVE  /\ TargetInv' /\ Knows(f, m)' /\ tgt'.cnt = tgt.cnt
         /\ tgt'.mode = "frame" => tgt.mode = "frame" /\ tgt'.ans = tgt.ans
<1>0. Trn \in 1..4 /\ Trn' = Trn
  BY PioAssumption DEF Trn
<1>1. FrameLen = 11 + 2 * Trn + (IF HasData THEN 33 ELSE 0) /\ FrameLen \in Int
  BY <1>0 DEF FrameLen
<1>2. CASE tgt.mode # "frame"
  <2>1. TargetInv' /\ tgt'.mode # "frame" /\ tgt'.cnt = tgt.cnt
    BY <1>2, ClockAway
  <2>2. tgt.mode = "lost" => tgt'.mode = "lost"
    BY DEF Clock, TargetInv
  <2>3. m > 0 => f.ack = "BAD" \/ l > 0
    BY <1>0, Codes DEF Reads
  <2>4. m # Asked /\ (m = Acked => l = Asked)
    BY <1>0, Codes DEF Reads
  <2>5. m = Acked => tgt.mode = "lost"
    BY <1>2, <2>4 DEF Knows, Answering
  <2>6. ~(m > 0 /\ f.ack # "BAD")
    BY <1>2, <2>3 DEF Knows
  <2> QED BY <2>1, <2>2, <2>4, <2>5, <2>6 DEF Knows, Answering
<1>3. CASE tgt.mode = "frame"
  <2>1. l # Out
    BY <1>3 DEF Knows
  <2>2. CASE l = Asked /\ m = Acked /\ sm.n = Trn + 3
    <3>1. (tgt.rnw <=> f.req) /\ tgt.pos = 8
      BY <1>3, <2>2 DEF Knows, Answering
    <3>2. tgt.pos + sm.n = 11 + Trn /\ tgt.pos + sm.n < FrameLen
      BY <1>0, <1>1, <2>2, <3>1
    <3>3. /\ TargetInv' /\ tgt'.cnt = tgt.cnt /\ tgt'.ans = tgt.ans
          /\ tgt'.mode = "frame" /\ tgt'.pos = 11 + Trn /\ (tgt'.rnw <=> f.req)
      BY <1>3, <3>1, <3>2, ClockFrame
    <3>4. Knows(f, m)'
      BY <1>0, <2>2, <3>3, Codes DEF Knows, Answering
    <3> QED BY <1>3, <3>3, <3>4
  <2>3. CASE f.ack = "BAD" /\ sm.n = Trn + 33 /\ l = sm.n /\ m = Out
    <3>1. tgt.pos + sm.n >= FrameLen
      BY <1>0, <1>1, <1>3, <2>3 DEF Knows, TargetInv
    <3>2. TargetInv' /\ tgt'.cnt = tgt.cnt /\ tgt'.mode # "frame"
      BY <1>1, <1>3, <3>1, ClockFrame DEF TargetInv
    <3>3. Knows(f, m)'
      BY <2>3, <3>2, Codes DEF Knows
    <3> QED BY <3>2, <3>3
  <2>4. CASE f.ack # "BAD" /\ l > 0 /\ m = l - sm.n /\ m > 0
    <3>1. /\ (tgt.rnw <=> f.rnw) /\ tgt.ans = f.ack /\ FrameLen - tgt.pos = l
          /\ f.i # 0 => tgt.cnt = f.i
      BY <2>4 DEF Knows
    <3>2. tgt.pos + sm.n < FrameLen
      BY <1>1, <2>4, <3>1 DEF TargetInv
    <3>3. /\ TargetInv' /\ tgt'.cnt = tgt.cnt /\ tgt'.mode = "frame" /\ tgt'.pos = tgt.pos + sm.n
          /\ tgt'.rnw = tgt.rnw /\ tgt'.ans = tgt.ans /\ FrameLen' = FrameLen
      BY <1>3, <3>2, ClockFrame
    <3>4. FrameLen' - tgt'.pos = m
      BY <1>1, <2>4, <3>1, <3>3 DEF TargetInv
    <3>5. m # Out /\ m # Asked /\ m # Acked
      BY <2>4, Codes
    <3>6. Knows(f, m)'
      BY <2>4, <3>1, <3>3, <3>4, <3>5 DEF Knows
    <3> QED BY <1>3, <3>3, <3>6
  <2> QED BY <1>0, <2>1, <2>2, <2>3, <2>4 DEF Reads
<1> QED BY <1>2, <1>3

LEMMA KnowsSends ==
  ASSUME TargetInv, params \in Params, UNCHANGED params, sm.n \in Int, NEW v, NEW i, Clock(v, i),
         NEW f, f.trn = Trn, f.phase = params.phase, NEW l \in Int, NEW m \in Int, NEW drive,
         Knows(f, l), Writes(f, l, sm.n, drive), Sends(f, Due(l, sm.n, drive), v, i, m)
  PROVE  /\ TargetInv' /\ Knows(f, m)'
         /\ v # "packet" => tgt'.cnt = tgt.cnt
         /\ v = "packet" /\ tgt'.mode = "frame" => tgt'.cnt = tgt.cnt + Accepts(tgt'.ans)
         /\ v = "packet" => l = Out
<1>0. /\ Trn \in 1..4 /\ Trn' = Trn /\ Out = 0
      /\ FrameLen = 11 + 2 * Trn + (IF HasData THEN 33 ELSE 0) /\ FrameLen \in Int
      /\ Due(l, sm.n, drive).left = l /\ Due(l, sm.n, drive).n = sm.n
      /\ Due(l, sm.n, drive).drive = drive
  BY PioAssumption DEF Trn, Out, FrameLen, Due
<1>1. CASE v = "packet"
  <2>1. l = Out /\ i \in {0, 1} /\ (i = 1 <=> f.req) /\ m = Asked
    BY <1>0, <1>1 DEF Sends
  <2>2. tgt.mode # "frame" /\ Clock("packet", i)
    BY <1>1, <2>1 DEF Knows
  <2>3. /\ TargetInv'
        /\ \/ tgt'.mode = "lost" /\ tgt'.cnt = tgt.cnt
           \/ /\ tgt'.mode = "frame" /\ tgt'.pos = 8 /\ tgt'.rnw = (i = 1)
              /\ tgt'.cnt = tgt.cnt + Accepts(tgt'.ans)
    BY <2>1, <2>2, ClockPacket
  <2>4. tgt'.mode = "frame" => (tgt'.rnw <=> f.req)
    BY <2>1, <2>3
  <2>5. Knows(f, m)'
    BY <2>1, <2>3, <2>4, Codes DEF Knows, Answering
  <2> QED BY <1>1, <2>1, <2>3, <2>5
<1>2. CASE v # "packet" /\ l = 0
  <2>1. m = 0 /\ v # "packet"
    BY <1>0, <1>2 DEF Sends
  <2>2. tgt.mode # "frame"
    BY <1>0, <1>2 DEF Knows
  <2>3. TargetInv' /\ tgt'.mode # "frame" /\ tgt'.cnt = tgt.cnt
    BY <2>1, <2>2, ClockAway
  <2>4. m # Asked /\ m # Acked
    BY <2>1, Codes
  <2>5. Knows(f, m)'
    BY <1>0, <2>1, <2>3, <2>4 DEF Knows
  <2> QED BY <2>1, <2>3, <2>5
<1>3. CASE v # "packet" /\ l # 0
  <2>1. f.ack # "BAD" /\ l > 0 /\ m = l - sm.n /\ m >= 0
    <3>1. f.ack # "BAD" /\ l > 0
      BY <1>0, <1>3 DEF Writes
    <3>2. CASE v = "word"
      BY <1>0, <1>3, <3>1, <3>2 DEF Sends, Writes
    <3>3. CASE v # "word"
      BY <1>0, <1>3, <3>1, <3>3 DEF Sends
    <3> QED BY <3>1, <3>2, <3>3
  <2>2. /\ tgt.mode = "frame" /\ (tgt.rnw <=> f.rnw) /\ tgt.ans = f.ack /\ FrameLen - tgt.pos = l
        /\ f.i # 0 => tgt.cnt = f.i
    BY <2>1 DEF Knows
  <2>3. m # Asked /\ m # Acked
    BY <2>1, Codes
  <2>4. CASE m = 0
    <3>1. tgt.pos + sm.n = FrameLen
      BY <1>0, <2>1, <2>2, <2>4 DEF TargetInv
    <3>2. TargetInv' /\ tgt'.cnt = tgt.cnt /\ tgt'.mode # "frame"
      BY <2>2, <3>1, ClockFrame
    <3>3. Knows(f, m)'
      BY <1>0, <2>3, <2>4, <3>2 DEF Knows
    <3> QED BY <1>3, <3>2, <3>3
  <2>5. CASE m > 0
    <3>1. tgt.pos + sm.n < FrameLen
      BY <1>0, <2>1, <2>2, <2>5 DEF TargetInv
    <3>2. /\ TargetInv' /\ tgt'.cnt = tgt.cnt /\ tgt'.mode = "frame" /\ tgt'.pos = tgt.pos + sm.n
          /\ tgt'.rnw = tgt.rnw /\ tgt'.ans = tgt.ans /\ FrameLen' = FrameLen
      BY <2>2, <3>1, ClockFrame
    <3>3. FrameLen' - tgt'.pos = m
      BY <1>0, <2>1, <2>2, <3>2 DEF TargetInv
    <3>4. Knows(f, m)'
      BY <1>0, <2>1, <2>2, <2>3, <2>5, <3>2, <3>3 DEF Knows
    <3> QED BY <1>3, <3>2, <3>4
  <2> QED BY <2>1, <2>4, <2>5
<1> QED BY <1>1, <1>2, <1>3

\* Whatever the plan asked for has been pulled once it is empty.
LEMMA Drained ==
  ASSUME IInv, plan = <<>>
  PROVE  /\ rx = <<>> /\ sm.pc \notin {"read", "push"}
         /\ \A k \in 1..Len(tx) : tx[k].r # "read" /\ tx[k].k # "pull"
<1>1. Cnt(tx, "read") \in Nat /\ Len(rx) \in Nat /\ (Len(rx) = 0 => rx = <<>>)
  BY CntNat DEF IInv, Typed
<1>2. Len(rx) = 0 /\ Shifting = 0 /\ Cnt(tx, "read") = 0
  BY <1>1, ShapedEmpty DEF IInv, Balanced, Shifting
<1>3. \A k \in 1..Len(tx) : Kind(tx[k]) # "read" /\ tx[k] \in Entries
  BY <1>2, CntZero DEF IInv, Typed
<1>4. \A e \in Entries : Kind(e) # "read" => e.r # "read"
  BY DEF Kind, Entries
<1>5. \A k \in 1..Len(tx) : tx[k].r # "read" /\ tx[k].k # "pull"
  BY <1>3, <1>4 DEF IInv, NoPulls
<1> QED BY <1>1, <1>2, <1>5 DEF Shifting

-----------------------------------------------------------------------------
(* The calls.                                                               *)

LEMMA GoodCalls == \A c \in Contract!Calls \cup ColdCalls : Good(c) /\ c.op # "none"
<1> SUFFICES ASSUME NEW c \in Contract!Calls \cup ColdCalls PROVE Good(c) /\ c.op # "none"
  OBVIOUS
<1>1. c.rnw \in BOOLEAN /\ c.ap \in BOOLEAN
  BY DEF Contract!Calls, ColdCalls
<1>2. /\ c.n \in 0..MaxWords \/ c.n = 1 \/ c.n \in 1..2
      /\ c.retries \in 0..MaxRetries \/ c.retries = 0
  BY DEF Contract!Calls, ColdCalls
<1>3. c.n \in Nat /\ c.retries \in Nat
  BY <1>2, PioAssumption
<1>4. \/ c.op = "single" /\ c.n = 1 /\ ~c.ap
      \/ c.op = "read" /\ c.rnw
      \/ c.op = "write" /\ ~c.rnw /\ ~c.ap
      \/ /\ ~c.rnw /\ ~c.ap /\ c.retries = 0
         /\ \/ c.op = "write_sequence" \/ c.op = "read_sequence" \/ c.op = "connect"
            \/ c.op = "disconnect" \/ c.op = "assert" \/ c.op = "release"
  BY DEF Contract!Calls, ColdCalls
<1> QED BY <1>1, <1>3, <1>4 DEF Good

\* A step of Ready ends the call, or goes on with it.
LEMMA ReadyStep ==
  ASSUME CallInv, next \in Int, NEW a, NEW d, Ready(a, d)
  PROVE  CallInv' /\ (call' = call \/ call' = NoCall)
<1>1. CASE a = "WAIT" /\ retry > 0
  <2>1. retry' = retry - 1 /\ UNCHANGED <<call, next, words>>
    BY <1>1 DEF Ready
  <2> QED BY <1>1, <2>1 DEF CallInv, OnWire, InSequence
<1>2. CASE ~(a = "WAIT" /\ retry > 0)
  <2>1. (SingleReady(a, d) \/ ReadReady(a, d) \/ WriteReady(a)) /\ Refill
    BY <1>2 DEF Ready
  <2>2. CASE call' = NoCall /\ next' = 0 /\ words' = <<>>
    <3>1. retry' = 0
      BY <2>1, <2>2 DEF Refill
    <3> QED BY <2>2, <3>1 DEF CallInv, OnWire, InSequence, NoCall, Good
  <2>3. CASE call' = call /\ OnWire
    <3>1. call # NoCall
      BY <2>3 DEF OnWire, NoCall
    <3>2. retry' = call.retries /\ retry' \in Nat
      BY <2>1, <2>3, <3>1 DEF Refill, CallInv, Good
    <3>3. call.op # "single" /\ (call.op # "read" => words' = <<>>)
          /\ (call.op = "write" => next' \in 0..call.n)
          /\ (call.op = "read" => next' \in -1..(call.n - 1) /\ (next' = -1 => call.ap))
      BY <2>1, <2>3, <3>1 DEF SingleReady, ReadReady, WriteReady, Leave, CallInv, RdBuff, Good
    <3> QED BY <2>3, <3>2, <3>3 DEF CallInv, OnWire, InSequence
  <2> QED BY <2>1, <2>2, <2>3 DEF SingleReady, ReadReady, WriteReady, Leave, OnWire
<1> QED BY <1>1, <1>2

LEMMA CallPoll == CallInv /\ StageInv /\ next \in Int /\ Poll => CallInv' /\ StageInv'
<1> SUFFICES ASSUME CallInv, StageInv, next \in Int, Poll PROVE CallInv' /\ StageInv'
  OBVIOUS
<1>1. CASE Push \/ PullWord \/ Blocked \/ YieldTurn
  <2>1. UNCHANGED <<call, next, retry, words, stage>>
    BY <1>1 DEF Push, PullWord, Blocked, YieldTurn, block, xfer
  <2> QED BY <2>1 DEF CallInv, StageInv, OnWire, InSequence, InSetDir
<1>2. CASE Request \/ RequestDone \/ Chunk \/ SetDir \/ DropStale
  <2>1. UNCHANGED <<call, next, retry, words>>
    BY <1>2 DEF Request, RequestDone, Chunk, SetDir, DropStale, block
  <2>2. CallInv'
    BY <2>1 DEF CallInv, OnWire, InSequence
  <2>3. \/ stage' = "Request" /\ OnWire
        \/ stage' = "Data" /\ OnWire
        \/ stage' = "Exec" /\ (InSequence \/ InSetDir)
        \/ stage' = "Stalled" /\ InSetDir
    BY <1>2 DEF Request, RequestDone, Chunk, SetDir, DropStale, AtStart, StageInv
  <2> QED BY <2>1, <2>2, <2>3 DEF StageInv, OnWire, InSequence, InSetDir
<1>3. CASE DataDone
  <2>1. PICK a, d : Ready(a, d)
    BY <1>3 DEF DataDone
  <2> QED BY <1>3, <2>1, ReadyStep DEF DataDone, StageInv
<1>4. CASE ChunkDone
  <2>1. /\ InSequence /\ stage' = "Start" /\ UNCHANGED <<retry, words>>
        /\ \/ call' = NoCall /\ next' = 0
           \/ next' = next + 1 /\ UNCHANGED call
    BY <1>4 DEF ChunkDone
  <2>2. words = <<>> /\ retry = 0 /\ ~OnWire
    BY <2>1 DEF CallInv, InSequence, OnWire
  <2>3. CASE call' = NoCall /\ next' = 0
    BY <2>1, <2>2, <2>3 DEF CallInv, StageInv, OnWire, InSequence, Good, NoCall
  <2>4. CASE next' = next + 1 /\ UNCHANGED call
    BY <2>1, <2>2, <2>4 DEF CallInv, StageInv, OnWire, InSequence
  <2> QED BY <2>1, <2>3, <2>4
<1>5. CASE AwaitStall \/ SetReset
  <2>1. /\ UNCHANGED <<next, retry, words>>
        /\ \/ UNCHANGED <<call, stage>>
           \/ /\ call' = NoCall /\ (InSetDir \/ InPins)
              /\ stage' = "Start" \/ (InPins /\ UNCHANGED stage)
    BY <1>5 DEF AwaitStall, SetReset, xfer, StageInv
  <2>2. CASE UNCHANGED <<call, stage>>
    BY <2>1, <2>2 DEF CallInv, StageInv, OnWire, InSequence, InSetDir
  <2>3. CASE /\ call' = NoCall /\ (InSetDir \/ InPins)
             /\ stage' = "Start" \/ (InPins /\ UNCHANGED stage)
    <3>1. next = 0 /\ retry = 0 /\ words = <<>> /\ ~OnWire /\ ~InSequence
      BY <2>3 DEF CallInv, InSetDir, InPins, OnWire, InSequence
    <3>2. CallInv'
      BY <2>1, <2>3, <3>1 DEF CallInv, OnWire, InSequence, Good, NoCall
    <3> QED BY <2>3, <3>1, <3>2 DEF StageInv, InSetDir, InPins
  <2> QED BY <2>1, <2>2, <2>3
<1> QED BY <1>1, <1>2, <1>3, <1>4, <1>5 DEF Poll

LEMMA CallStep == IInv /\ CallInv /\ StageInv /\ [Next]_vars => CallInv' /\ StageInv'
<1> SUFFICES ASSUME IInv, CallInv, StageInv, [Next]_vars PROVE CallInv' /\ StageInv'
  OBVIOUS
<1>0. next \in Int
  BY DEF IInv, Typed
<1>1. CASE UNCHANGED <<call, next, retry, words, stage>>
  BY <1>1 DEF CallInv, StageInv, OnWire, InSequence, InSetDir
<1>2. ASSUME NEW c \in Contract!Calls \cup ColdCalls, Begin(c) PROVE CallInv' /\ StageInv'
  <2>1. call = NoCall /\ UNCHANGED <<words, stage>> /\ words = <<>>
    BY <1>2 DEF Begin, xfer, CallInv, NoCall
  <2>2. ~OnWire /\ ~InSequence /\ ~InSetDir
    BY <2>1 DEF NoCall, OnWire, InSequence, InSetDir
  <2>3. StageInv'
    BY <2>1, <2>2 DEF StageInv
  <2>4. CASE c.n = 0
    BY <1>1, <1>2, <2>1, <2>4 DEF Begin
  <2>5. CASE c.n # 0
    <3>1. call' = c /\ next' = (IF c.ap THEN -1 ELSE 0) /\ retry' = c.retries
      BY <1>2, <2>5 DEF Begin
    <3>2. CallInv'
      BY <2>1, <2>5, <3>1, GoodCalls DEF CallInv, Good, OnWire, InSequence
    <3> QED BY <2>3, <3>2
  <2> QED BY <2>4, <2>5
<1>3. CASE Resume \/ OtherLanes \/ Sm \/ UNCHANGED vars
  BY <1>1, <1>3 DEF Resume, OtherLanes, Sm, vars, block, xfer
<1> QED BY <1>0, <1>2, <1>3, CallPoll DEF Next

-----------------------------------------------------------------------------
(* The direction of SWDIO, and what is held.                                *)

LEMMA HeldStep == IInv /\ HeldInv /\ [Next]_vars => HeldInv'
<1> SUFFICES ASSUME IInv, HeldInv, [Next]_vars PROVE HeldInv'
  OBVIOUS
<1>1. sm'.n \in Int
  <2>1. UNCHANGED sm \/ SmCommand \/ SmWrite \/ SmRead \/ SmPush
    BY DEF Next, Poll, Push, PullWord, Blocked, YieldTurn, Request, RequestDone, DataDone, Chunk,
           ChunkDone, SetDir, DropStale, AwaitStall, SetReset, Resume, OtherLanes, Begin, Sm,
           SmStall, vars, wire
  <2>2. CASE SmCommand
    <3>1. Head(tx) \in Entries
      BY <2>2 DEF SmCommand, IInv, Typed
    <3>2. Head(tx).n \in Int
      BY <3>1 DEF Entries
    <3> QED BY <2>2, <3>2 DEF SmCommand, IInv, Typed
  <2>3. CASE SmWrite \/ SmPush
    <3>1. sm'.n = 0
      BY <2>3, Zenon DEF SmWrite, SmPush, IInv, Typed
    <3> QED BY <3>1
  <2>4. CASE SmRead
    BY <2>4 DEF SmRead, IInv, Typed, HeldInv
  <2> QED BY <2>1, <2>2, <2>3, <2>4 DEF HeldInv
<1>2. \E S : out' \in Seq(S)
  <2>1. PICK S : out \in Seq(S)
    BY DEF HeldInv
  <2>2. UNCHANGED out \/ out' = <<>> \/ PullWord
    BY DEF Next, Poll, Push, Blocked, YieldTurn, Request, RequestDone, DataDone, Chunk, ChunkDone,
           SetDir, DropStale, AwaitStall, SetReset, Resume, OtherLanes, Begin, Sm, vars, xfer
  <2>3. CASE out' = <<>>
    BY <2>3
  <2>4. CASE PullWord
    <3>1. PICK R : rx \in Seq(R)
      BY DEF IInv, Typed
    <3> DEFINE T == S \cup R
    <3>2. rx # <<>> /\ out' = Append(out, Head(rx))
      BY <2>4 DEF PullWord
    <3>3. out \in Seq(T) /\ Head(rx) \in T
      BY <2>1, <3>1, <3>2
    <3> HIDE DEF T
    <3>4. Append(out, Head(rx)) \in Seq(T)
      BY <3>3
    <3> QED BY <3>2, <3>4
  <2> QED BY <2>1, <2>2, <2>3, <2>4
<1> QED BY <1>1, <1>2 DEF HeldInv

\* The command that sets the direction, as connect and disconnect queue it.
Turning == <<DirCmd(call.op = "connect")>>

LEMMA DirEntry ==
  \A d : DirCmd(d).k = "cmd" /\ DirCmd(d).r = "skip" /\ DirCmd(d).drive = d /\ DirCmd(d).v = ""
BY DEF DirCmd, Entry

LEMMA DirectionSm ==
  ASSUME IInv, Direction, Sm
  PROVE  Direction'
<1>0. UNCHANGED <<call, stage, plan>> /\ tx \in Seq(Entries)
  BY DEF Sm, block, xfer, IInv, Typed
<1>1. CASE SmCommand \/ SmWrite
  <2>1. tx # <<>> /\ tx' = Tail(tx) /\ Head(tx) = tx[1] /\ UNCHANGED txstall
    BY <1>1 DEF SmCommand, SmWrite
  <2>2. /\ Len(tx) \in Nat \ {0} /\ Len(tx') = Len(tx) - 1 /\ (Len(tx) = 1 => tx' = <<>>)
        /\ tx' # <<>> => Len(tx') \in 1..Len(tx') /\ tx'[Len(tx')] = tx[Len(tx)]
    BY <1>0, <2>1
  <2>3. CASE tx' # <<>>
    BY <1>0, <2>1, <2>2, <2>3 DEF Direction, InSetDir
  <2>4. CASE tx' = <<>>
    <3>1. Len(tx) = 1
      BY <2>2, <2>4
    <3>2. InSetDir /\ stage \in {"Exec", "Stalled"} /\ plan = <<>> => tx[1] = DirCmd(call.op = "connect")
      BY <2>1, <3>1 DEF Direction
    <3>3. tx[1] = DirCmd(call.op = "connect") => sm'.drive = (call.op = "connect")
      <4>1. CASE SmCommand
        <5>1. sm'.drive = tx[1].drive
          BY <2>1, <4>1 DEF SmCommand, IInv, Typed
        <5> QED BY <5>1, DirEntry
      <4>2. CASE SmWrite
        <5>1. tx[1].k = "data"
          BY <2>1, <4>2 DEF SmWrite
        <5> QED BY <5>1, DirEntry
      <4> QED BY <1>1, <4>1, <4>2
    <3>4. stage = "Stalled" => ~txstall \/ tx = <<>>
      BY DEF Direction
    <3> QED BY <1>0, <2>1, <2>4, <3>2, <3>3, <3>4 DEF Direction, InSetDir
  <2> QED BY <2>3, <2>4
<1>2. CASE SmRead \/ SmPush \/ SmStall
  <2>1. UNCHANGED tx /\ sm'.drive = sm.drive /\ (UNCHANGED txstall \/ tx = <<>>)
    BY <1>2 DEF SmRead, SmPush, SmStall, fifos, IInv, Typed
  <2> QED BY <1>0, <2>1 DEF Direction, InSetDir
<1> QED BY <1>1, <1>2 DEF Sm

LEMMA DirectionStep ==
  IInv /\ CallInv /\ StageInv /\ Direction /\ [Next]_vars => Direction'
<1> SUFFICES ASSUME IInv, CallInv, StageInv, Direction, [Next]_vars PROVE Direction'
  OBVIOUS
<1>1. CASE Sm
  BY <1>1, DirectionSm
<1>2. CASE Push
  <2>1. plan # <<>> /\ plan' = Tail(plan) /\ tx' = Append(tx, Head(plan))
        /\ UNCHANGED <<call, stage, sm, txstall>> /\ tx \in Seq(Entries) /\ stage # "Stalled"
    BY <1>2 DEF Push, block, wire, IInv, Typed, Executing
  <2>2. CASE InSetDir /\ stage = "Exec"
    <3>1. plan = Turning
      BY <2>1, <2>2 DEF Direction, Turning
    <3>2. plan' = <<>> /\ Head(plan) = DirCmd(call.op = "connect")
      BY <2>1, <3>1 DEF Turning
    <3>3. tx' # <<>> /\ tx'[Len(tx')] = DirCmd(call.op = "connect")
      BY <2>1, <3>2
    <3> QED BY <2>1, <3>2, <3>3 DEF Direction, InSetDir
  <2> QED BY <2>1, <2>2 DEF Direction, InSetDir
<1>3. CASE PullWord
  <2>1. plan # <<>> /\ Head(plan).k = "pull" /\ plan' = Tail(plan)
        /\ UNCHANGED <<call, stage, sm, tx, txstall>> /\ stage # "Stalled"
    BY <1>3 DEF PullWord, block, wire, IInv, Typed, Executing
  <2>2. ~(InSetDir /\ stage = "Exec")
    <3>1. plan = Turning => Head(plan) = DirCmd(call.op = "connect")
      BY DEF Turning
    <3>2. plan # Turning
      BY <2>1, <3>1, DirEntry, Zenon
    <3> QED BY <2>1, <3>2 DEF Direction, Turning
  <2> QED BY <2>1, <2>2 DEF Direction, InSetDir
<1>4. CASE Request \/ RequestDone \/ DataDone \/ ChunkDone \/ Chunk
  BY <1>4 DEF Request, RequestDone, DataDone, ChunkDone, Chunk, Direction, InSequence, InSetDir, block
<1>5. CASE SetDir
  BY <1>5 DEF SetDir, Direction, InSetDir, block
<1>6. CASE DropStale
  BY <1>6 DEF DropStale, Direction, InSetDir, block, fifos
<1>7. CASE AwaitStall
  <2>1. \/ stage' = "Start"
        \/ stage' = stage /\ call' = call /\ txstall' = txstall
    BY <1>7 DEF AwaitStall
  <2>2. UNCHANGED <<plan, tx, sm>>
    BY <1>7 DEF AwaitStall, fifos
  <2>3. CASE stage' = "Start"
    BY <2>3 DEF Direction
  <2>4. CASE stage' = stage /\ call' = call /\ txstall' = txstall
    BY <2>2, <2>4 DEF Direction, InSetDir
  <2> QED BY <2>1, <2>3, <2>4
<1>8. CASE SetReset
  BY <1>8 DEF SetReset, Direction, InSetDir, NoCall, xfer, fifos, wire
<1>9. CASE Blocked \/ YieldTurn \/ Resume \/ OtherLanes \/ UNCHANGED vars
  BY <1>9 DEF Blocked, YieldTurn, Resume, OtherLanes, vars, block, xfer, fifos, wire, Direction, InSetDir
<1>10. ASSUME NEW c, Begin(c) PROVE Direction'
  <2>1. stage # "Stalled" /\ stage # "Exec" /\ UNCHANGED stage
    BY <1>10 DEF Begin, StageInv, NoCall, InSequence, InSetDir, xfer
  <2> QED BY <2>1 DEF Direction
<1> QED BY <1>1, <1>2, <1>3, <1>4, <1>5, <1>6, <1>7, <1>8, <1>9, <1>10 DEF Next, Poll

-----------------------------------------------------------------------------
(* The steps of the driver.                                                 *)

\* Steps that leave the queue, the program, the target and the transfer alone.
LEMMA WireQuiet ==
  ASSUME Wire, UNCHANGED <<tx, rx, plan, sm, tgt, out, ack, params, stage, next, call>>
  PROVE  Wire'
<1>1. PICK f, l, h, g : WireAt(f, l, h, g)
  BY DEF Wire
<1>2. Framed(f)' /\ Knows(f, l)' /\ Current(f, l, h)'
  <2>1. Framed(f)'
    BY <1>1 DEF WireAt, Framed, Part, Trn, Rnw, RdBuff
  <2>2. Knows(f, l)'
    BY <1>1 DEF WireAt, Knows, Answering, Trn, FrameLen, HasData
  <2>3. Current(f, l, h)'
    BY <1>1 DEF WireAt, Current
  <2> QED BY <2>1, <2>2, <2>3
<1>3. Counts(l)' /\ Answers(l)'
  <2>1. Counts(l)'
    BY <1>1 DEF WireAt, Counts, OnWire, Accepted
  <2>2. Got' = Got /\ (\A k : Taken(k)' = Taken(k)) /\ Rnw' = Rnw /\ Trn' = Trn
    BY DEF Got, Taken, Rnw, RdBuff, Trn
  <2>3. Answers(l)'
    BY <1>1, <2>2 DEF WireAt, Answers
  <2> QED BY <2>1, <2>3
<1>4. WireAt(f, l, h, g)'
  BY <1>1, <1>2, <1>3 DEF WireAt, End
<1> QED BY <1>4 DEF Wire

\* Between transfers the driver goes on to another plan, or to none.
LEMMA WireCold ==
  ASSUME Wire, UNCHANGED <<tx, rx, sm, params>>, stage \notin {"Request", "Data"},
         stage' \notin {"Request", "Data"},
         tgt'.mode = tgt.mode, tgt'.pos = tgt.pos, tgt'.rnw = tgt.rnw, tgt'.ans = tgt.ans,
         call.op = "write" => call'.op = "write" /\ tgt'.cnt = tgt.cnt,
         OnWire' /\ stage' = "Start" => tgt'.cnt = Accepted',
         plan' = plan \/ (plan = <<>> /\ \A f : f.part = "Cold" => Way(f, plan', Out, Out))
  PROVE  Wire'
<1>1. PICK f, l, h, g : WireAt(f, l, h, g)
  BY DEF Wire
<1>2. f.part = "Cold" /\ End = Out /\ End' = Out /\ Part' = "Cold"
  BY <1>1 DEF WireAt, Framed, Part, End
<1>3. Framed(f)'
  BY <1>1, <1>2 DEF WireAt, Framed, Trn
<1>4. Knows(f, l)'
  BY <1>1 DEF WireAt, Framed, Knows, Answering, Trn, FrameLen, HasData
<1>5. Current(f, l, h)'
  BY <1>1 DEF WireAt, Current
<1>6. Path(f, plan', g, Pos(Out))
  <2>1. CASE plan' = plan
    BY <1>1, <1>2, <2>1 DEF WireAt
  <2>2. CASE plan = <<>> /\ \A e : e.part = "Cold" => Way(e, plan', Out, Out)
    <3>1. g = Pos(Out)
      BY <1>1, <1>2, <2>2, PathNone DEF WireAt
    <3> QED BY <1>2, <2>2, <3>1 DEF Way
  <2> QED BY <2>1, <2>2
<1>7. Counts(l)' /\ Answers(l)'
  BY DEF Counts, Answers
<1>8. WireAt(f, l, h, g)'
  BY <1>1, <1>2, <1>3, <1>4, <1>5, <1>6, <1>7 DEF WireAt
<1> QED BY <1>8 DEF Wire

\* The driver queues the next entry of its plan.
LEMMA WirePush ==
  ASSUME IInv, Wire, Push, UNCHANGED params
  PROVE  Wire'
<1>1. PICK f, l, h, g : WireAt(f, l, h, g)
  BY DEF Wire
<1>2. /\ plan # <<>> /\ tx' = Append(tx, Head(plan)) /\ plan' = Tail(plan) /\ Head(plan) = plan[1]
      /\ UNCHANGED <<rx, sm, tgt, out, ack, stage, next, call, params>>
      /\ tx \in Seq(Entries) /\ plan \in Seq(Entries) /\ plan[1] \in Entries
  BY DEF Push, IInv, Typed, block, wire
<1>3. PICK m : Leads(f, plan[1], g, m) /\ Path(f, plan', m, Pos(End))
  BY <1>1, <1>2, PathHead DEF WireAt
<1>4. Path(f, tx', h, m)
  BY <1>1, <1>2, <1>3, PathAppend DEF WireAt
<1>5. Framed(f)' /\ End' = End
  BY <1>1, <1>2 DEF WireAt, Framed, Part, Trn, Rnw, RdBuff, End
<1>6. Knows(f, l)' /\ Current(f, l, h)'
  BY <1>1, <1>2 DEF WireAt, Knows, Answering, Trn, FrameLen, HasData, Current
<1>7. Counts(l)' /\ Answers(l)'
  <2>1. Counts(l)'
    BY <1>1, <1>2 DEF WireAt, Counts, OnWire, Accepted
  <2>2. Got' = Got /\ (\A k : Taken(k)' = Taken(k)) /\ Rnw' = Rnw /\ Trn' = Trn
    BY <1>2 DEF Got, Taken, Rnw, RdBuff, Trn
  <2>3. Answers(l)'
    BY <1>1, <1>2, <2>2 DEF WireAt, Answers
  <2> QED BY <2>1, <2>3
<1>8. WireAt(f, l, h, m)'
  BY <1>1, <1>2, <1>3, <1>4, <1>5, <1>6, <1>7 DEF WireAt
<1> QED BY <1>8 DEF Wire

\* What was received stays what it is, wherever it is held.
LEMMA SameAnswers ==
  ASSUME params \in Params, NEW l \in Int, Answers(l), Got \in Nat, Got' = Got, \A k \in 1..Got : Taken(k)' = Taken(k),
         UNCHANGED <<call, next, stage, ack, params, tgt>>
  PROVE  Answers(l)'
<1>1. Rnw' = Rnw /\ Trn' = Trn /\ Trn \in 1..4
  BY PioAssumption DEF Rnw, RdBuff, Trn
<1>2. CASE stage = "Request"
  <2>1. l # Acked => Got' = 0
    BY <1>2 DEF Answers
  <2>2. l = Acked => Got' = 1 /\ Taken(1)' = Taken(1)
    BY <1>2 DEF Answers
  <2>3. l = Acked => Taken(1).ack = "BAD" \/ (tgt.mode = "frame" /\ Taken(1).ack = tgt.ans)
    BY <1>2 DEF Answers
  <2> QED BY <1>2, <2>1, <2>2, <2>3 DEF Answers
<1>3. CASE stage = "Data" /\ ack = "OK" /\ Rnw
  <2>1. /\ l = Trn + 33 \/ l = Trn + 1 \/ l \in 0..Trn
        /\ l = Trn + 33 => Got = 0
        /\ l = Trn + 1 => Got = 1
        /\ l <= Trn => Got = 2 /\ (Taken(2).ack = "OK" \/ Taken(2).ack = "ERROR")
        /\ l <= Trn + 1 => Taken(1).data = tgt.cnt
    BY <1>3 DEF Answers
  <2>2. l <= Trn + 1 => Taken(1)' = Taken(1)
    BY <1>1, <2>1
  <2>3. l <= Trn => Taken(2)' = Taken(2)
    BY <1>1, <2>1
  <2> QED BY <1>1, <1>3, <2>1, <2>2, <2>3 DEF Answers
<1> QED BY <1>1, <1>2, <1>3 DEF Answers

LEMMA WirePull ==
  ASSUME IInv, HeldInv, Wire, PullWord, UNCHANGED params
  PROVE  Wire'
<1>1. PICK f, l, h, g : WireAt(f, l, h, g)
  BY DEF Wire
<1>2. /\ plan # <<>> /\ plan' = Tail(plan) /\ Head(plan) = plan[1] /\ plan[1].k = "pull"
      /\ rx # <<>> /\ out' = Append(out, Head(rx)) /\ rx' = Tail(rx)
      /\ UNCHANGED <<tx, sm, tgt, ack, stage, next, call, params>>
      /\ plan \in Seq(Entries)
  BY DEF PullWord, IInv, Typed, block, wire
<1>3. Path(f, plan', g, Pos(End))
  <2>1. PICK m : Leads(f, plan[1], g, m) /\ Path(f, plan', m, Pos(End))
    BY <1>1, <1>2, PathHead DEF WireAt
  <2>2. m = g
    BY <1>2, <2>1 DEF Leads
  <2> QED BY <2>1, <2>2
<1>4. Framed(f)' /\ End' = End
  BY <1>1, <1>2 DEF WireAt, Framed, Part, Trn, Rnw, RdBuff, End
<1>5. Knows(f, l)' /\ Current(f, l, h)'
  BY <1>1, <1>2 DEF WireAt, Knows, Answering, Trn, FrameLen, HasData, Current
<1>6. Counts(l)'
  BY <1>1, <1>2 DEF WireAt, Counts, OnWire, Accepted
<1>7. PICK S, R : out \in Seq(S) /\ rx \in Seq(R)
  BY DEF IInv, Typed, HeldInv
<1>8. /\ Len(out) \in Nat /\ Len(out') = Len(out) + 1 /\ Len(rx) \in Nat \ {0} /\ Len(rx') = Len(rx) - 1
      /\ out'[Len(out) + 1] = rx[1]
      /\ \A k \in 1..Len(out) : out'[k] = out[k]
      /\ \A k \in 1..Len(rx') : rx'[k] = rx[k + 1]
  <2>1. out \in Seq(S \cup R) /\ Head(rx) \in S \cup R /\ Head(rx) = rx[1]
    BY <1>2, <1>7
  <2>2. Len(rx) \in Nat \ {0} /\ Len(rx') = Len(rx) - 1 /\ \A k \in 1..Len(rx') : rx'[k] = rx[k + 1]
    BY <1>2, <1>7
  <2> DEFINE T == S \cup R
  <2> HIDE DEF T
  <2>3. /\ Len(out) \in Nat /\ Len(out') = Len(out) + 1 /\ out'[Len(out) + 1] = rx[1]
        /\ \A k \in 1..Len(out) : out'[k] = out[k]
    BY <1>2, <2>1 DEF T
  <2> QED BY <2>2, <2>3
<1>9. Got \in Nat /\ Got' = Got
  BY <1>2, <1>8 DEF Got
<1>10. ASSUME NEW k \in 1..Got PROVE Taken(k)' = Taken(k)
  <2>1. CASE k <= Len(out)
    BY <1>8, <1>10, <2>1 DEF Taken
  <2>2. CASE k = Len(out) + 1
    <3>1. Taken(k) = rx[1] /\ Taken(k)' = out'[k]
      BY <1>8, <2>2 DEF Taken
    <3> QED BY <1>8, <2>2, <3>1
  <2>3. CASE k > Len(out) + 1 /\ k <= Len(out) + Len(rx)
    <3> DEFINE j == k - Len(out) - 1
    <3>1. j \in 1..Len(rx') /\ j + 1 = k - Len(out) /\ j = k - Len(out')
      BY <1>8, <1>9, <2>3
    <3>2. Taken(k) = rx[k - Len(out)] /\ Taken(k)' = rx'[k - Len(out')]
      BY <1>8, <1>9, <2>3 DEF Taken
    <3> QED BY <1>8, <3>1, <3>2
  <2>4. CASE k > Len(out) + Len(rx)
    <3>1. Taken(k) = sm.isr /\ Taken(k)' = sm'.isr
      BY <1>8, <1>9, <2>4 DEF Taken
    <3> QED BY <1>2, <3>1
  <2> QED BY <1>8, <1>9, <2>1, <2>2, <2>3, <2>4
<1>11. Answers(l)'
  BY <1>1, <1>2, <1>9, <1>10, SameAnswers DEF WireAt, IInv, Typed
<1>12. WireAt(f, l, h, g)'
  BY <1>1, <1>2, <1>3, <1>4, <1>5, <1>6, <1>11 DEF WireAt
<1> QED BY <1>12 DEF Wire

LEMMA WirePushWord ==
  ASSUME IInv, HeldInv, Wire, SmPush,
         UNCHANGED <<block, xfer, params>>
  PROVE  Wire'
<1>1. PICK f, l, h, g : WireAt(f, l, h, g)
  BY DEF Wire
<1>2. /\ sm.pc = "push" /\ sm'.pc = "cmd" /\ rx' = Append(rx, sm.isr)
      /\ UNCHANGED <<tx, plan, out, tgt, ack, stage, next, call, params>>
  BY DEF SmPush, IInv, Typed, block, xfer
<1>3. Framed(f)' /\ End' = End
  BY <1>1, <1>2 DEF WireAt, Framed, Part, Trn, Rnw, RdBuff, End
<1>4. Knows(f, l)' /\ Current(f, l, h)'
  BY <1>1, <1>2 DEF WireAt, Knows, Answering, Trn, FrameLen, HasData, Current
<1>5. Counts(l)'
  BY <1>1, <1>2 DEF WireAt, Counts, OnWire, Accepted
<1>6. PICK S, R : out \in Seq(S) /\ rx \in Seq(R)
  BY DEF IInv, Typed, HeldInv
<1>7. /\ Len(out) \in Nat /\ Len(rx) \in Nat /\ Len(rx') = Len(rx) + 1 /\ rx'[Len(rx) + 1] = sm.isr
      /\ \A k \in 1..Len(rx) : rx'[k] = rx[k]
  <2> DEFINE T == R \cup {sm.isr}
  <2>1. rx \in Seq(T) /\ sm.isr \in T
    BY <1>6
  <2> HIDE DEF T
  <2> QED BY <1>2, <1>6, <2>1
<1>8. Got \in Nat /\ Got' = Got /\ Got = Len(out) + Len(rx) + 1
  BY <1>2, <1>7 DEF Got
<1>9. ASSUME NEW k \in 1..Got PROVE Taken(k)' = Taken(k)
  <2>1. CASE k <= Len(out)
    BY <1>2, <2>1 DEF Taken
  <2>2. CASE k > Len(out) /\ k <= Len(out) + Len(rx)
    <3>1. k - Len(out) \in 1..Len(rx)
      BY <1>7, <1>8, <2>2
    <3>2. Taken(k) = rx[k - Len(out)] /\ Taken(k)' = rx'[k - Len(out)]
      BY <1>2, <1>7, <1>8, <2>2 DEF Taken
    <3> QED BY <1>7, <3>1, <3>2
  <2>3. CASE k = Len(out) + Len(rx) + 1
    <3>1. Taken(k) = sm.isr /\ Taken(k)' = rx'[k - Len(out)] /\ k - Len(out) = Len(rx) + 1
      BY <1>2, <1>7, <2>3 DEF Taken
    <3> QED BY <1>7, <3>1
  <2> QED BY <1>7, <1>8, <2>1, <2>2, <2>3
<1>10. Answers(l)'
  BY <1>1, <1>2, <1>8, <1>9, SameAnswers DEF WireAt, IInv, Typed
<1>11. WireAt(f, l, h, g)'
  BY <1>1, <1>2, <1>3, <1>4, <1>5, <1>10 DEF WireAt
<1> QED BY <1>11 DEF Wire

-----------------------------------------------------------------------------
(* The steps of the program.                                                *)

LEMMA WireCommand ==
  ASSUME IInv, HeldInv, Wire, SmCommand, UNCHANGED <<block, xfer, params>>
  PROVE  Wire'
<1>1. PICK f, l, h, g : WireAt(f, l, h, g)
  BY DEF Wire
<1> DEFINE e == tx[1]
<1>2. /\ sm.pc = "cmd" /\ tx # <<>> /\ tx' = Tail(tx) /\ e.k = "cmd" /\ e \in Entries
      /\ sm'.pc = (IF e.r = "skip" THEN "cmd" ELSE e.r) /\ sm'.drive = e.drive
      /\ sm'.n = (IF e.r = "skip" THEN 0 ELSE e.n) /\ sm'.isr = sm.isr
      /\ UNCHANGED <<plan, rx, out, tgt, ack, stage, next, call, params>>
      /\ tx \in Seq(Entries)
  BY DEF SmCommand, IInv, Typed, block, xfer
<1>3. PICK m : Leads(f, e, h, m) /\ Path(f, tx', m, g)
  BY <1>1, <1>2, PathHead DEF WireAt
<1> HIDE DEF e
<1>4. h = Pos(l) /\ h.left = l
  BY <1>1, <1>2 DEF WireAt, Current, Pos
<1>5. Current(f, l, m)' /\ sm'.pc # "push"
  <2>1. CASE e.r = "skip"
    BY <1>2, <1>3, <1>4, <2>1 DEF Leads, Current
  <2>2. CASE e.r = "read"
    BY <1>2, <1>3, <1>4, <2>2 DEF Leads, Current
  <2>3. CASE e.r = "write"
    BY <1>2, <1>3, <1>4, <2>3 DEF Leads, Current
  <2>4. e.r = "skip" \/ e.r = "read" \/ e.r = "write"
    BY <1>2, <1>3 DEF Leads
  <2> QED BY <2>1, <2>2, <2>3, <2>4
<1>6. Framed(f)' /\ End' = End
  BY <1>1, <1>2 DEF WireAt, Framed, Part, Trn, Rnw, RdBuff, End
<1>7. Knows(f, l)'
  BY <1>1, <1>2 DEF WireAt, Knows, Answering, Trn, FrameLen, HasData
<1>8. Counts(l)'
  BY <1>1, <1>2 DEF WireAt, Counts, OnWire, Accepted
<1>9. Answers(l)'
  <2>1. Got' = Got /\ (\A k : Taken(k)' = Taken(k)) /\ Rnw' = Rnw /\ Trn' = Trn
    BY <1>2, <1>5 DEF Got, Taken, Rnw, RdBuff, Trn
  <2> QED BY <1>1, <1>2, <2>1 DEF WireAt, Answers
<1>10. WireAt(f, l, m, g)'
  BY <1>1, <1>2, <1>3, <1>5, <1>6, <1>7, <1>8, <1>9 DEF WireAt
<1> QED BY <1>10 DEF Wire

LEMMA WireWrite ==
  ASSUME IInv, HeldInv, TargetInv, Wire, SmWrite, UNCHANGED <<block, xfer, params>>
  PROVE  TargetInv' /\ Wire'
<1>1. PICK f, l, h, g : WireAt(f, l, h, g)
  BY DEF Wire
<1> DEFINE e == tx[1]
<1>2. /\ sm.pc = "write" /\ tx # <<>> /\ tx' = Tail(tx) /\ e.k = "data" /\ Clock(e.v, e.i)
      /\ sm'.pc = "cmd" /\ sm'.isr = sm.isr
      /\ UNCHANGED <<plan, rx, out, ack, stage, next, call, params>>
      /\ tx \in Seq(Entries) /\ params \in Params /\ sm.n \in Int
  BY DEF SmWrite, IInv, Typed, HeldInv, block, xfer
<1>3. PICK x : Leads(f, e, h, x) /\ Path(f, tx', x, g)
  BY <1>1, <1>2, PathHead DEF WireAt
<1> HIDE DEF e
<1>4. h = Due(l, sm.n, sm.drive) /\ Writes(f, l, sm.n, sm.drive) /\ l \in Int
  BY <1>1, <1>2 DEF WireAt, Current
<1>5. PICK m \in Int : Sends(f, h, e.v, e.i, m) /\ x = Pos(m)
  BY <1>2, <1>3 DEF Leads
<1>6. f.trn = Trn /\ f.phase = params.phase /\ f.part = Part /\ Trn \in 1..4
  BY <1>1, <1>2, PioAssumption DEF WireAt, Framed, Trn
<1>7. /\ TargetInv' /\ Knows(f, m)'
      /\ e.v # "packet" => tgt'.cnt = tgt.cnt
      /\ e.v = "packet" /\ tgt'.mode = "frame" => tgt'.cnt = tgt.cnt + Accepts(tgt'.ans)
      /\ e.v = "packet" => l = Out
  BY <1>1, <1>2, <1>4, <1>5, <1>6, KnowsSends DEF WireAt
<1>8. Framed(f)' /\ End' = End /\ Rnw' = Rnw /\ Trn' = Trn
  BY <1>1, <1>2 DEF WireAt, Framed, Part, Trn, Rnw, RdBuff, End
<1>9. Current(f, m, x)'
  BY <1>2, <1>5 DEF Current
<1>10. /\ l >= 0 /\ m # Acked
       /\ m < 0 => e.v = "packet"
       /\ e.v = "packet" => stage = "Request" /\ m < 0
  <2>1. l >= 0
    BY <1>4, <1>6, Codes DEF Writes, Carries
  <2>2. m < 0 => e.v = "packet"
    BY <1>5, Codes DEF Sends
  <2>3. e.v = "packet" => stage = "Request" /\ m < 0 /\ m = Asked
    BY <1>5, <1>6, Codes DEF Sends, Part
  <2> QED BY <2>1, <2>2, <2>3, Codes
<1>11. Counts(m)'
  <2>1. UNCHANGED <<OnWire, Accepted, stage, ack>>
    BY <1>2 DEF OnWire, Accepted
  <2>2. CASE e.v = "packet"
    <3>1. stage = "Request" /\ tgt.cnt = Accepted
      BY <1>1, <1>10, <2>2 DEF WireAt, Counts
    <3>2. tgt'.mode = "frame" => tgt'.cnt = Accepted + Accepts(tgt'.ans)
      BY <1>7, <2>2, <3>1
    <3> QED BY <1>10, <2>1, <2>2, <3>1, <3>2 DEF Counts
  <2>3. CASE e.v # "packet"
    BY <1>1, <1>7, <1>10, <2>1, <2>3 DEF WireAt, Counts
  <2> QED BY <2>2, <2>3
<1>12. Got' = Got /\ \A k : Taken(k)' = Taken(k)
  BY <1>2 DEF Got, Taken
<1>13. Answers(m)'
  <2>1. CASE stage = "Request"
    <3>1. Got = 0
      BY <1>1, <1>10, <2>1, Codes DEF WireAt, Answers
    <3> QED BY <1>2, <1>10, <1>12, <2>1, <3>1 DEF Answers
  <2>2. CASE stage = "Data" /\ ack = "OK" /\ Rnw
    <3>1. f.part = "Data" /\ f.rnw /\ e.v # "packet"
      BY <1>1, <1>6, <1>10, <2>2 DEF WireAt, Framed, Part
    <3>2. l \in 0..Trn /\ m = 0
      <4>1. l = Out \/ (l = Trn /\ sm.n = Trn)
        BY <1>4, <1>6, <3>1 DEF Writes
      <4>2. h.left = l /\ h.n = sm.n
        BY <1>4 DEF Due
      <4>3. m = 0
        BY <1>5, <1>6, <3>1, <4>1, <4>2, Codes DEF Sends
      <4> QED BY <1>6, <4>1, <4>3, Codes
    <3>3. Got = 2 /\ (Taken(2).ack = "OK" \/ Taken(2).ack = "ERROR") /\ Taken(1).data = tgt.cnt
      BY <1>1, <1>4, <1>6, <2>2, <3>2 DEF WireAt, Answers
    <3> QED BY <1>2, <1>6, <1>7, <1>8, <1>12, <2>2, <3>1, <3>2, <3>3 DEF Answers
  <2> QED BY <1>2, <1>8, <2>1, <2>2 DEF Answers
<1>14. WireAt(f, m, x, g)'
  BY <1>1, <1>2, <1>3, <1>7, <1>8, <1>9, <1>10, <1>11, <1>13 DEF WireAt
<1> QED BY <1>7, <1>14 DEF Wire

\* What is shifted in at the position of the ACK, of the data and of the parity.
LEMMA SampledWord ==
  ASSUME params \in Params, TargetInv, NEW w \in Sampled, sm.n \in Int
  PROVE  /\ tgt.mode # "frame" => w.ack = "BAD"
         /\ tgt.mode = "frame" /\ tgt.pos = 8 /\ sm.n = Trn + 3 => w.ack = "BAD" \/ w.ack = tgt.ans
         /\ tgt.mode = "frame" /\ tgt.rnw /\ tgt.ans = "OK" /\ FrameLen - tgt.pos = Trn + 33 /\ sm.n = 32
              => w.data = tgt.cnt
         /\ tgt.mode = "frame" /\ tgt.rnw /\ tgt.ans = "OK" /\ FrameLen - tgt.pos = Trn + 1 /\ sm.n = 1
              => w.ack = "OK" \/ w.ack = "ERROR"
<1>0. Trn \in 1..4 /\ tgt.pos \in Int
  BY PioAssumption DEF Trn, TargetInv
<1>1. tgt.mode # "frame" => w.ack = "BAD"
  BY DEF Sampled, Word
<1>2. tgt.mode = "frame" /\ tgt.pos = 8 /\ sm.n = Trn + 3 => w.ack = "BAD" \/ w.ack = tgt.ans
  BY DEF Sampled, Word
<1>3. ASSUME tgt.mode = "frame", tgt.rnw, tgt.ans = "OK"
      PROVE  HasData /\ DataFrom = 11 + Trn /\ FrameLen = 11 + 2 * Trn + 33
  BY <1>0, <1>3 DEF HasData, DataFrom, FrameLen
<1>4. ASSUME tgt.mode = "frame", tgt.rnw, tgt.ans = "OK", FrameLen - tgt.pos = Trn + 33, sm.n = 32
      PROVE  w.data = tgt.cnt
  <2>1. tgt.pos = 11 + Trn
    BY <1>0, <1>3, <1>4
  <2> QED BY <1>0, <1>3, <1>4, <2>1 DEF Sampled, Word
<1>5. ASSUME tgt.mode = "frame", tgt.rnw, tgt.ans = "OK", FrameLen - tgt.pos = Trn + 1, sm.n = 1
      PROVE  w.ack = "OK" \/ w.ack = "ERROR"
  <2>1. tgt.pos = 11 + Trn + 32
    BY <1>0, <1>3, <1>5
  <2>2. w \in {Word("parity", "OK", 0), Word("parity", "ERROR", 0)}
    BY <1>0, <1>3, <1>5, <2>1 DEF Sampled
  <2> QED BY <2>2 DEF Word
<1> QED BY <1>1, <1>2, <1>4, <1>5

LEMMA WireRead ==
  ASSUME IInv, HeldInv, TargetInv, Wire, SmRead, UNCHANGED <<block, xfer, params>>
  PROVE  TargetInv' /\ Wire'
<1>1. PICK f, l, h, g : WireAt(f, l, h, g)
  BY DEF Wire
<1>2. /\ sm.pc = "read" /\ sm'.pc = "push" /\ Clock("none", 0) /\ sm'.isr \in Sampled
      /\ UNCHANGED <<tx, rx, plan, out, ack, stage, next, call, params>>
      /\ params \in Params /\ sm.n \in Int
  BY DEF SmRead, IInv, Typed, HeldInv, block, xfer, fifos
<1>3. PICK m \in Int : Reads(f, l, sm.n, m) /\ h = Pos(m)
  BY <1>1, <1>2 DEF WireAt, Current
<1>4. l \in Int /\ f.trn = Trn /\ f.phase = params.phase /\ f.part = Part /\ Trn \in 1..4 /\ Knows(f, l)
  BY <1>1, <1>2, PioAssumption DEF WireAt, Framed, Trn
<1>5. /\ TargetInv' /\ Knows(f, m)' /\ tgt'.cnt = tgt.cnt
      /\ tgt'.mode = "frame" => tgt.mode = "frame" /\ tgt'.ans = tgt.ans
  BY <1>2, <1>3, <1>4, KnowsReads
<1>6. Framed(f)' /\ End' = End /\ Rnw' = Rnw /\ Trn' = Trn
  BY <1>1, <1>2 DEF WireAt, Framed, Part, Trn, Rnw, RdBuff, End
<1>7. Current(f, m, h)'
  BY <1>2, <1>3 DEF Current
<1>8. /\ stage = "Request" => l = Asked /\ m = Acked /\ sm.n = Trn + 3
      /\ m < 0 => stage = "Request"
  <2>1. stage = "Request" => f.part = "Request"
    BY <1>4 DEF Part
  <2>2. m < 0 => f.part = "Request"
    BY <1>3, <1>4, Codes DEF Reads
  <2>3. f.part = "Request" => stage = "Request"
    BY <1>4 DEF Part
  <2> QED BY <1>3, <1>4, <2>1, <2>2, <2>3 DEF Reads
<1>9. Counts(m)'
  <2>1. UNCHANGED <<OnWire, Accepted, stage, ack>>
    BY <1>2 DEF OnWire, Accepted
  <2>2. CASE stage = "Request"
    BY <1>1, <1>5, <1>8, <2>1, <2>2, Codes DEF WireAt, Counts
  <2>3. CASE stage # "Request"
    BY <1>1, <1>5, <2>1, <2>3 DEF WireAt, Counts
  <2> QED BY <2>2, <2>3
<1>10. /\ Len(out) \in Nat /\ Len(rx) \in Nat
       /\ Got = Len(out) + Len(rx) /\ Got' = Got + 1
       /\ \A k \in Nat : k = Got + 1 => Taken(k)' = sm'.isr
       /\ \A k \in 1..Got : Taken(k)' = Taken(k)
  <2>1. Len(out) \in Nat /\ Len(rx) \in Nat
    BY DEF IInv, Typed, HeldInv
  <2> QED BY <1>2, <2>1 DEF Got, Taken
<1>11. Answers(m)'
  <2>1. CASE stage = "Request"
    <3>1. Got = 0 /\ l = Asked /\ m = Acked /\ sm.n = Trn + 3
      BY <1>1, <1>8, <2>1, Codes DEF WireAt, Answers
    <3>2. Got' = 1 /\ Taken(1)' = sm'.isr
      BY <1>10, <3>1
    <3>3. sm'.isr.ack = "BAD" \/ (tgt'.mode = "frame" /\ sm'.isr.ack = tgt'.ans)
      <4>1. CASE tgt.mode # "frame"
        BY <1>2, <4>1, SampledWord
      <4>2. CASE tgt.mode = "frame"
        <5>1. tgt.pos = 8
          BY <1>4, <3>1, <4>2 DEF Knows, Answering
        <5>2. sm'.isr.ack = "BAD" \/ sm'.isr.ack = tgt.ans
          BY <1>2, <3>1, <4>2, <5>1, SampledWord
        <5>3. tgt.pos + sm.n < FrameLen
          BY <1>4, <3>1, <5>1 DEF FrameLen
        <5>4. tgt'.mode = "frame"
          BY <1>2, <4>2, <5>3, ClockFrame
        <5> QED BY <1>5, <5>2, <5>4
      <4> QED BY <4>1, <4>2
    <3> QED BY <1>2, <2>1, <3>1, <3>2, <3>3 DEF Answers
  <2>2. CASE stage = "Data" /\ ack = "OK" /\ Rnw
    <3>1. f.part = "Data" /\ f.rnw /\ f.ack = "OK"
      BY <1>1, <1>4, <2>2 DEF WireAt, Framed, Part
    <3>2. \/ l = Trn + 33 /\ sm.n = 32 /\ m = Trn + 1
          \/ l = Trn + 1 /\ sm.n = 1 /\ m = Trn
      BY <1>3, <1>4, <3>1 DEF Reads
    <3>3. tgt.mode = "frame" /\ tgt.rnw /\ tgt.ans = "OK" /\ FrameLen - tgt.pos = l
      BY <1>4, <3>1, <3>2 DEF Knows
    <3>4. CASE l = Trn + 33 /\ sm.n = 32 /\ m = Trn + 1
      <4>1. Got = 0
        BY <1>1, <2>2, <3>4 DEF WireAt, Answers
      <4>2. sm'.isr.data = tgt.cnt
        BY <1>2, <3>3, <3>4, SampledWord
      <4>3. Got' = 1 /\ Taken(1)' = sm'.isr
        BY <1>10, <4>1
      <4> QED BY <1>2, <1>4, <1>5, <1>6, <2>2, <3>4, <4>2, <4>3 DEF Answers
    <3>5. CASE l = Trn + 1 /\ sm.n = 1 /\ m = Trn
      <4>1. Got = 1 /\ Taken(1).data = tgt.cnt
        BY <1>1, <1>4, <2>2, <3>5 DEF WireAt, Answers
      <4>2. sm'.isr.ack = "OK" \/ sm'.isr.ack = "ERROR"
        BY <1>2, <3>3, <3>5, SampledWord
      <4>3. Got' = 2 /\ Taken(2)' = sm'.isr /\ Taken(1)' = Taken(1)
        BY <1>10, <4>1
      <4> QED BY <1>2, <1>4, <1>5, <1>6, <2>2, <3>5, <4>1, <4>2, <4>3 DEF Answers
    <3> QED BY <3>2, <3>4, <3>5
  <2> QED BY <1>2, <1>6, <2>1, <2>2 DEF Answers
<1>12. WireAt(f, m, h, g)'
  BY <1>1, <1>2, <1>5, <1>6, <1>7, <1>8, <1>9, <1>11 DEF WireAt
<1> QED BY <1>5, <1>12 DEF Wire

-----------------------------------------------------------------------------
(* The stages of a transfer.                                                *)

LEMMA WireRequest ==
  ASSUME IInv, HeldInv, CallInv, Wire, Request, UNCHANGED params
  PROVE  Wire'
<1>1. PICK f, l, h, g : WireAt(f, l, h, g)
  BY DEF Wire
<1>2. /\ OnWire /\ stage = "Start" /\ plan = <<>>
      /\ plan' = PlanRequest(Rnw) /\ out' = <<>> /\ stage' = "Request"
      /\ UNCHANGED <<call, next, ack, tx, rx, sm, tgt, params>>
      /\ tx \in Seq(Entries) /\ params \in Params
  BY DEF Request, AtStart, IInv, Typed, Executing, block, fifos, wire
<1>3. rx = <<>> /\ sm.pc \notin {"read", "push"} /\ \A k \in 1..Len(tx) : tx[k].r # "read"
  BY <1>2, Drained
<1>4. f.part = "Cold" /\ End = Out /\ End' = Acked /\ Part' = "Request"
  BY <1>1, <1>2 DEF WireAt, Framed, Part, End
<1>5. UNCHANGED <<Rnw, OnWire, Accepted, Trn>> /\ Rnw \in BOOLEAN
  BY <1>2 DEF Rnw, RdBuff, OnWire, Accepted, Trn, CallInv, Good
<1>6. PICK e : e = Frame("Request", Rnw, f.trn, f.phase, f.ack, f.rnw, f.i)
  OBVIOUS
<1>7. /\ e.part = "Request" /\ e.req = Rnw /\ e.trn = f.trn /\ e.phase = f.phase
      /\ e.ack = f.ack /\ e.rnw = f.rnw /\ e.i = f.i
  BY <1>6 DEF Frame
<1>8. g = Pos(Out)
  BY <1>1, <1>2, <1>4, PathNone DEF WireAt
<1>9. Path(e, tx, h, Pos(Out))
  BY <1>1, <1>2, <1>3, <1>4, <1>7, <1>8, PathPart DEF WireAt
<1>10. Path(e, plan', Pos(Out), Pos(Acked))
  <2>1. e.trn = Trn
    BY <1>1, <1>7 DEF WireAt, Framed
  <2>2. Way(e, PlanRequest(Rnw), Out, Acked)
    BY <1>2, <1>5, <1>7, <2>1, WayRequest
  <2> QED BY <1>2, <2>2 DEF Way
<1>11. l \in Int /\ l >= 0
  BY <1>1, <1>2 DEF WireAt
<1>12. Framed(e)'
  BY <1>1, <1>2, <1>4, <1>5, <1>7 DEF WireAt, Framed
<1>13. Knows(e, l)'
  BY <1>1, <1>2, <1>7, <1>11, Codes DEF WireAt, Knows, Answering, Trn, FrameLen, HasData
<1>14. Current(e, l, h)'
  <2>1. \A n, drive : Writes(f, l, n, drive) => Writes(e, l, n, drive)
    BY <1>7 DEF Writes, Carries
  <2> QED BY <1>1, <1>2, <1>3, <2>1 DEF WireAt, Current
<1>15. Counts(l)'
  BY <1>1, <1>2, <1>5, <1>11 DEF WireAt, Counts
<1>16. Answers(l)'
  <2>1. Got' = 0
    BY <1>2, <1>3 DEF Got
  <2> QED BY <1>2, <1>11, <2>1, Codes DEF Answers
<1>17. WireAt(e, l, h, Pos(Out))'
  BY <1>2, <1>4, <1>9, <1>10, <1>11, <1>12, <1>13, <1>14, <1>15, <1>16 DEF WireAt
<1> QED BY <1>17 DEF Wire

\* Once the ACK is pulled the queue is empty, and what was pulled is the answer
\* of the target, or nothing that can be told.
LEMMA Acknowledged ==
  ASSUME IInv, HeldInv, stage = "Request", plan = <<>>, NEW f, NEW l, NEW h, NEW g, WireAt(f, l, h, g)
  PROVE  /\ tx = <<>> /\ rx = <<>> /\ sm.pc = "cmd" /\ l = Acked
         /\ out[1].ack = "BAD" \/ (tgt.mode = "frame" /\ out[1].ack = tgt.ans)
<1>1. /\ rx = <<>> /\ sm.pc \notin {"read", "push"}
      /\ \A k \in 1..Len(tx) : tx[k].r # "read" /\ tx[k].k # "pull"
  BY Drained
<1>2. g = Pos(Acked)
  BY PathNone DEF WireAt, End
<1>3. tx = <<>> /\ h = Pos(Acked)
  BY <1>1, <1>2, PathAcked DEF WireAt, IInv, Typed
<1>4. sm.pc = "cmd"
  <2>1. sm.pc = "write" => h = Due(l, sm.n, sm.drive)
    BY DEF WireAt, Current
  <2>2. \A n, drive : Due(l, n, drive) # Pos(Acked)
    BY DEF Due, Pos
  <2>3. sm.pc # "write"
    BY <1>3, <2>1, <2>2
  <2> QED BY <1>1, <2>3 DEF IInv, Typed
<1>5. l = Acked
  <2>1. Pos(l) = Pos(Acked)
    BY <1>3, <1>4 DEF WireAt, Current
  <2>2. Pos(l).left = l /\ Pos(Acked).left = Acked
    BY DEF Pos
  <2> QED BY <2>1, <2>2
<1>6. Got = 1 /\ (Taken(1).ack = "BAD" \/ (tgt.mode = "frame" /\ Taken(1).ack = tgt.ans))
  BY <1>5 DEF WireAt, Answers
<1>7. Len(out) = 1 /\ Taken(1) = out[1]
  <2>1. Len(out) \in Nat /\ Len(rx) = 0
    BY <1>1 DEF HeldInv
  <2> QED BY <1>4, <1>6, <2>1 DEF Got, Taken
<1> QED BY <1>1, <1>3, <1>4, <1>5, <1>6, <1>7

LEMMA WireRequestDone ==
  ASSUME IInv, HeldInv, CallInv, TargetInv, Wire, RequestDone, UNCHANGED params
  PROVE  Wire'
<1>1. PICK f, l, h, g : WireAt(f, l, h, g)
  BY DEF Wire
<1> DEFINE i == IF call.op = "write" THEN next + 1 ELSE 0
<1>2. /\ stage = "Request" /\ plan = <<>> /\ ack' = out[1].ack
      /\ plan' = PlanData(ack', Rnw, i) /\ out' = <<>> /\ stage' = "Data"
      /\ UNCHANGED <<call, next, tx, rx, sm, tgt, params>>
      /\ params \in Params /\ Trn \in 1..4 /\ next \in Int
  BY PioAssumption DEF RequestDone, IInv, Typed, block, fifos, wire, Trn
<1>3. /\ tx = <<>> /\ rx = <<>> /\ sm.pc = "cmd" /\ l = Acked
      /\ ack' = "BAD" \/ (tgt.mode = "frame" /\ ack' = tgt.ans)
  BY <1>1, <1>2, Acknowledged
<1>4. ack' = "OK" \/ ack' = "WAIT" \/ ack' = "FAULT" \/ ack' = "BAD"
  BY <1>3 DEF TargetInv
<1>5. UNCHANGED <<Rnw, RdBuff, OnWire, Accepted, Trn, FrameLen>> /\ Rnw \in BOOLEAN
  BY <1>2 DEF Rnw, RdBuff, OnWire, Accepted, Trn, FrameLen, HasData, CallInv, Good
<1> DEFINE j == IF ack' = "OK" /\ call.op = "write" /\ ~RdBuff THEN next + 1 ELSE 0
<1>6. PICK a, q, w, n, t, p : a = ack' /\ q = Rnw /\ w = j /\ n = i /\ t = Trn /\ p = params.phase
  OBVIOUS
<1>7. n \in Int /\ (a = "OK" /\ ~q => w = n)
  <2>1. i \in Int
    BY <1>2
  <2>2. ack' = "OK" /\ ~Rnw => j = i
    BY DEF Rnw
  <2> HIDE DEF i, j
  <2> QED BY <1>6, <2>1, <2>2
<1> HIDE DEF i, j
<1>8. PICK e : e = Frame("Data", q, t, p, a, q, w)
  OBVIOUS
<1>9. /\ e.part = "Data" /\ e.req = q /\ e.trn = t /\ e.phase = p /\ e.ack = a /\ e.rnw = q /\ e.i = w
  BY <1>8 DEF Frame
<1>10. PICK r : r = Rest(e)
  OBVIOUS
<1>11. /\ r = (IF a = "BAD" \/ a = "OK" \/ params.phase THEN Trn + 33 ELSE Trn) /\ r \in Int /\ r > 0
  BY <1>2, <1>6, <1>9, <1>10 DEF Rest, Carries
<1>12. Path(e, plan', Pos(r), Pos(Out))
  <2>1. q \in BOOLEAN /\ (a = "OK" \/ a = "WAIT" \/ a = "FAULT" \/ a = "BAD")
    BY <1>4, <1>5, <1>6
  <2>2. Way(Frame("Data", q, Trn, params.phase, a, q, w), PlanData(a, q, n),
            Rest(Frame("Data", q, Trn, params.phase, a, q, w)), Out)
    BY <1>2, <1>7, <2>1, WayData
  <2>3. Way(e, plan', r, Out)
    BY <1>2, <1>6, <1>8, <1>10, <2>2
  <2> QED BY <2>3 DEF Way
<1>13. Path(e, tx', Pos(r), Pos(r))
  BY <1>2, <1>3, PathNone
<1>14. Framed(e)'
  <2>1. e.ack = ack' /\ e.rnw = Rnw' /\ e.i = j /\ e.trn = Trn' /\ e.phase = params'.phase
    BY <1>2, <1>5, <1>6, <1>9
  <2> QED BY <1>2, <1>4, <1>5, <1>9, <2>1 DEF Framed, Part, j
<1>15. tgt.mode = "frame" => (tgt.rnw <=> Rnw) /\ tgt.pos = 11 + Trn /\ tgt.cnt = Accepted + Accepts(tgt.ans)
  <2>1. tgt.mode = "frame" => (tgt.rnw <=> f.req) /\ tgt.pos = 11 + Trn
    BY <1>1, <1>3 DEF WireAt, Knows, Answering
  <2>2. f.req = Rnw
    BY <1>1, <1>2 DEF WireAt, Framed
  <2>3. tgt.mode = "frame" => tgt.cnt = Accepted + Accepts(tgt.ans)
    BY <1>1, <1>2, <1>3, Codes DEF WireAt, Counts
  <2> QED BY <2>1, <2>2, <2>3
<1>16. Knows(e, r)'
  <2>1. r # Out /\ r # Asked /\ r # Acked
    BY <1>11, Codes
  <2>2. CASE a = "BAD"
    <3>1. tgt.mode = "frame" => FrameLen - tgt.pos <= r
      BY <1>2, <1>11, <1>15, <2>2 DEF FrameLen
    <3> QED BY <1>2, <1>5, <1>9, <2>1, <2>2, <3>1 DEF Knows
  <2>3. CASE a # "BAD"
    <3>1. tgt.mode = "frame" /\ a = tgt.ans
      BY <1>3, <1>6, <2>3
    <3>2. FrameLen - tgt.pos = r
      BY <1>2, <1>11, <1>15, <2>3, <3>1 DEF FrameLen, HasData
    <3>3. w # 0 => tgt.cnt = w
      <4>1. w # 0 => ack' = "OK" /\ call.op = "write" /\ w = next + 1
        BY <1>6 DEF j
      <4>2. w # 0 => Accepted = next /\ tgt.cnt = Accepted + 1
        BY <1>6, <1>15, <3>1, <4>1 DEF Accepted, Accepts, CallInv, Good
      <4> QED BY <4>1, <4>2
    <3> QED BY <1>2, <1>5, <1>6, <1>9, <1>15, <2>1, <2>3, <3>1, <3>2, <3>3 DEF Knows
  <2> QED BY <2>2, <2>3
<1>17. Current(e, r, Pos(r))'
  BY <1>2, <1>3 DEF Current
<1>18. Counts(r)'
  BY <1>2, <1>3, <1>5, <1>15 DEF Counts
<1>19. Answers(r)'
  <2>1. Got' = 0
    BY <1>2, <1>3 DEF Got
  <2>2. ack' = "OK" => r = Trn' + 33
    BY <1>5, <1>6, <1>11
  <2> QED BY <1>2, <1>5, <2>1, <2>2 DEF Answers
<1>20. WireAt(e, r, Pos(r), Pos(r))'
  <2>1. End' = Out
    BY <1>2 DEF End
  <2> QED BY <1>11, <1>12, <1>13, <1>14, <1>16, <1>17, <1>18, <1>19, <2>1 DEF WireAt
<1> QED BY <1>20 DEF Wire

\* Once the data of an accepted read is pulled, it is the target's.
LEMMA Received ==
  ASSUME IInv, HeldInv, stage = "Data", plan = <<>>, ack = "OK", Rnw,
         NEW f, NEW l, NEW h, NEW g, WireAt(f, l, h, g)
  PROVE  (out[2].ack = "OK" \/ out[2].ack = "ERROR") /\ out[1].data = tgt.cnt
<1>1. /\ rx = <<>> /\ sm.pc \notin {"read", "push"}
      /\ \A k \in 1..Len(tx) : tx[k].r # "read" /\ tx[k].k # "pull"
  BY Drained
<1>2. f.part = "Data" /\ f.rnw /\ f.ack = "OK" /\ f.trn = Trn /\ Trn \in 1..4 /\ l \in Int
  BY PioAssumption DEF WireAt, Framed, Part, Trn, IInv, Typed
<1>3. g = Pos(Out)
  BY PathNone DEF WireAt, End
<1>4. l <= Trn
  <2> SUFFICES ASSUME l > Trn PROVE FALSE
    BY <1>2
  <2>1. \A n, drive : ~Writes(f, l, n, drive)
    BY <1>2, Codes DEF Writes
  <2>2. sm.pc = "cmd"
    BY <1>1, <2>1 DEF WireAt, Current, IInv, Typed
  <2>3. h = Pos(l) /\ h.left = l /\ h # Pos(Out)
    <3>1. h = Pos(l)
      BY <2>2 DEF WireAt, Current
    <3>2. \A n : Pos(n).left = n
      BY DEF Pos
    <3>3. l # Out
      BY <1>2, Codes
    <3> QED BY <3>1, <3>2, <3>3
  <2>4. tx # <<>> /\ tx \in Seq(Entries)
    BY <1>3, <2>3, PathNone DEF WireAt, IInv, Typed
  <2>5. PICK m : Leads(f, tx[1], h, m)
    BY <2>4, PathHead DEF WireAt
  <2>6. tx[1].r # "read" /\ tx[1].k # "pull"
    BY <1>1, <2>4
  <2>7. h.pc = "cmd" /\ h.left # Out
    BY <1>2, <2>3, Codes DEF Pos
  <2> QED BY <2>1, <2>3, <2>5, <2>6, <2>7 DEF Leads
<1>5. Got = 2 /\ (Taken(2).ack = "OK" \/ Taken(2).ack = "ERROR") /\ Taken(1).data = tgt.cnt
  BY <1>2, <1>4 DEF WireAt, Answers
<1>6. Len(out) = 2 /\ Taken(1) = out[1] /\ Taken(2) = out[2]
  <2>1. Len(out) \in Nat /\ Len(rx) = 0
    BY <1>1 DEF HeldInv
  <2> QED BY <1>1, <1>5, <2>1 DEF Got, Taken
<1> QED BY <1>5, <1>6

\* A call that goes on counts what the target has accepted.
LEMMA ReadyCounts ==
  ASSUME CallInv, next \in Int, OnWire, NEW a, NEW d, Ready(a, d), tgt.cnt \in Int,
         a = "OK" \/ a = "WAIT" => tgt.cnt = Accepted + Accepts(a), UNCHANGED tgt
  PROVE  OnWire' => tgt'.cnt = Accepted'
<1>1. CASE a = "WAIT" /\ retry > 0
  <2>1. UNCHANGED <<call, next>>
    BY <1>1 DEF Ready
  <2>2. tgt.cnt = Accepted
    BY <1>1 DEF Accepts, Accepted
  <2> QED BY <2>1, <2>2 DEF Accepted
<1>2. CASE ~(a = "WAIT" /\ retry > 0)
  <2>1. SingleReady(a, d) \/ ReadReady(a, d) \/ WriteReady(a)
    BY <1>2 DEF Ready
  <2>2. CASE call' = NoCall
    BY <2>2 DEF OnWire, NoCall
  <2>3. CASE call' # NoCall
    <3>1. a = "OK" /\ call' = call /\ next' = next + 1
      BY <2>1, <2>3 DEF SingleReady, ReadReady, WriteReady, Leave
    <3> QED BY <3>1 DEF Accepted, Accepts
  <2> QED BY <2>2, <2>3
<1> QED BY <1>1, <1>2

LEMMA WireDataDone ==
  ASSUME IInv, HeldInv, CallInv, StageInv, TargetInv, Wire, DataDone, UNCHANGED params
  PROVE  Wire'
<1>1. PICK f, l, h, g : WireAt(f, l, h, g)
  BY DEF Wire
<1>2. /\ stage = "Data" /\ plan = <<>> /\ stage' = "Start" /\ OnWire
      /\ UNCHANGED <<plan, tx, rx, sm, tgt, params>>
      /\ tx \in Seq(Entries) /\ next \in Int /\ tgt.cnt \in Int
  BY DEF DataDone, fifos, wire, StageInv, IInv, Typed, TargetInv
<1>3. /\ sm.pc \notin {"read", "push"} /\ \A k \in 1..Len(tx) : tx[k].r # "read"
  BY <1>2, Drained
<1>4. /\ f.part = "Data" /\ f.ack = ack /\ End = Out /\ End' = Out /\ Part' = "Cold" /\ f.trn = Trn
      /\ f.i = (IF ack = "OK" /\ call.op = "write" /\ ~RdBuff THEN next + 1 ELSE 0)
      /\ f.phase = params.phase /\ g = Pos(Out)
  BY <1>1, <1>2, PathNone DEF WireAt, Framed, Part, End
<1>5. PICK e : e = Frame("Cold", f.req, f.trn, f.phase, f.ack, f.rnw, f.i)
  OBVIOUS
<1>6. /\ e.part = "Cold" /\ e.req = f.req /\ e.trn = f.trn /\ e.phase = f.phase
      /\ e.ack = f.ack /\ e.rnw = f.rnw /\ e.i = f.i
  BY <1>5 DEF Frame
<1>7. Path(e, tx, h, g) /\ Path(e, plan, g, Pos(Out))
  BY <1>1, <1>2, <1>3, <1>4, <1>6, PathPart, PathNone DEF WireAt
<1>8. l \in Int /\ l >= 0
  BY <1>1, <1>2 DEF WireAt
<1>9. Framed(e)'
  <2>1. f.i # 0 => call'.op = "write"
    <3> SUFFICES ASSUME ack = "OK", call.op = "write", ~RdBuff PROVE call'.op = "write"
      BY <1>4
    <3>1. ~Rnw
      BY DEF Rnw, CallInv, Good
    <3>2. Ready("OK", 0)
      BY <3>1 DEF DataDone
    <3>3. WriteReady("OK")
      BY <3>2 DEF Ready, SingleReady, ReadReady
    <3> QED BY <3>3 DEF WriteReady
  <2> QED BY <1>2, <1>4, <1>6, <2>1 DEF Framed, Trn
<1>10. Knows(e, l)'
  BY <1>1, <1>2, <1>6, <1>8 DEF WireAt, Knows, Answering, Trn, FrameLen, HasData
<1>11. Current(e, l, h)'
  <2>1. \A n, drive : Writes(f, l, n, drive) => Writes(e, l, n, drive)
    BY <1>6 DEF Writes, Carries
  <2> QED BY <1>1, <1>2, <1>3, <2>1 DEF WireAt, Current
<1>12. Counts(l)'
  <2>1. ack # "BAD" => tgt.cnt = Accepted + Accepts(ack)
    BY <1>1, <1>2 DEF WireAt, Counts
  <2>2. CASE ack = "OK" /\ Rnw
    <3>1. PICK a, d : a = out[2].ack /\ d = out[1].data
      OBVIOUS
    <3>2. a = "OK" \/ a = "ERROR"
      BY <1>1, <1>2, <2>2, <3>1, Received
    <3>3. Ready(a, d)
      BY <2>2, <3>1 DEF DataDone
    <3>4. OnWire' => tgt'.cnt = Accepted'
      BY <1>2, <2>1, <2>2, <3>2, <3>3, ReadyCounts
    <3> QED BY <1>2, <3>4 DEF Counts
  <2>3. CASE ~(ack = "OK" /\ Rnw)
    <3>1. PICK a : a = ack
      OBVIOUS
    <3>2. Ready(a, 0)
      BY <2>3, <3>1 DEF DataDone
    <3>3. OnWire' => tgt'.cnt = Accepted'
      BY <1>2, <2>1, <3>1, <3>2, ReadyCounts
    <3> QED BY <1>2, <3>3 DEF Counts
  <2> QED BY <2>2, <2>3
<1>13. Answers(l)'
  BY <1>2 DEF Answers
<1>14. WireAt(e, l, h, g)'
  BY <1>1, <1>2, <1>4, <1>7, <1>8, <1>9, <1>10, <1>11, <1>12, <1>13 DEF WireAt
<1> QED BY <1>14 DEF Wire

-----------------------------------------------------------------------------
(* The invariant is inductive.                                              *)

LEMMA WireBegin ==
  ASSUME IInv, CallInv, StageInv, TargetInv, Wire, NEW c \in Contract!Calls \cup ColdCalls, Begin(c),
         UNCHANGED params
  PROVE  TargetInv' /\ Wire'
<1>1. /\ call = NoCall /\ UNCHANGED <<tx, rx, sm, params, plan, stage, out, ack>>
      /\ stage \notin {"Request", "Data"} /\ call.op # "write"
  BY DEF Begin, xfer, fifos, StageInv, NoCall, OnWire
<1>2. CASE c.n = 0
  <2>1. UNCHANGED <<call, next, tgt>>
    BY <1>2 DEF Begin
  <2> QED BY <1>1, <2>1, WireQuiet DEF TargetInv
<1>3. CASE c.n # 0
  <2>1. /\ call' = c /\ next' = (IF c.ap THEN -1 ELSE 0) /\ tgt' = [tgt EXCEPT !.cnt = 0]
    BY <1>3 DEF Begin
  <2>2. /\ tgt'.mode = tgt.mode /\ tgt'.pos = tgt.pos /\ tgt'.rnw = tgt.rnw /\ tgt'.ans = tgt.ans
        /\ tgt'.cnt = 0 /\ TargetInv'
    BY <2>1 DEF TargetInv
  <2>3. Accepted' = 0
    BY <2>1 DEF Accepted
  <2> QED BY <1>1, <2>1, <2>2, <2>3, WireCold
<1> QED BY <1>2, <1>3

LEMMA WireColdPoll ==
  ASSUME IInv, CallInv, StageInv, Wire, UNCHANGED params,
         Chunk \/ ChunkDone \/ SetDir \/ DropStale \/ AwaitStall \/ SetReset
  PROVE  tgt' = tgt /\ Wire'
<1>1. UNCHANGED <<tx, rx, sm, tgt>>
  BY DEF Chunk, ChunkDone, SetDir, DropStale, AwaitStall, SetReset, fifos, wire
<1>2. (InSequence \/ InSetDir \/ InPins) /\ (call' = call \/ call' = NoCall)
  BY DEF Chunk, ChunkDone, SetDir, DropStale, AwaitStall, SetReset, StageInv, block
<1>3. ~OnWire /\ call.op # "write" /\ stage \notin {"Request", "Data"}
  BY <1>2 DEF InSequence, InSetDir, InPins, OnWire, StageInv
<1>4. ~OnWire'
  BY <1>2, <1>3 DEF OnWire, NoCall
<1>5. stage' \notin {"Request", "Data"}
  BY <1>3 DEF Chunk, ChunkDone, SetDir, DropStale, AwaitStall, SetReset, xfer
<1>6. plan' = plan \/ (plan = <<>> /\ \A f : f.part = "Cold" => Way(f, plan', Out, Out))
  <2>1. CASE Chunk
    BY <2>1, WayCold DEF Chunk, IInv, Typed, Executing
  <2>2. CASE SetDir
    <3>1. (call.op = "connect") \in BOOLEAN
      OBVIOUS
    <3> QED BY <2>2, <3>1, WayCold DEF SetDir, IInv, Typed, Executing
  <2>3. CASE ChunkDone \/ DropStale \/ AwaitStall \/ SetReset
    BY <2>3 DEF ChunkDone, DropStale, AwaitStall, SetReset, xfer
  <2> QED BY <2>1, <2>2, <2>3
<1> QED BY <1>1, <1>3, <1>4, <1>5, <1>6, WireCold

LEMMA WireStep == WInv /\ [Next]_vars => WInv'
<1> SUFFICES ASSUME WInv, [Next]_vars PROVE WInv'
  OBVIOUS
<1>0. IInv /\ CallInv /\ StageInv /\ Direction /\ TargetInv /\ HeldInv /\ Wire
  BY DEF WInv
<1>1. TargetInv' /\ Wire'
  <2>1. CASE UNCHANGED vars \/ ((Blocked \/ YieldTurn \/ Resume \/ OtherLanes) /\ UNCHANGED params)
    <3>1. UNCHANGED <<tx, rx, plan, sm, tgt, out, ack, params, stage, next, call>>
      BY <2>1 DEF vars, Blocked, YieldTurn, Resume, OtherLanes, block, xfer, fifos, wire
    <3> QED BY <1>0, <3>1, WireQuiet DEF TargetInv
  <2>2. CASE (Push \/ PullWord \/ Request \/ RequestDone \/ DataDone) /\ UNCHANGED params
    <3>1. tgt' = tgt
      BY <2>2 DEF Push, PullWord, Request, RequestDone, DataDone, wire
    <3> QED BY <1>0, <2>2, <3>1, WirePush, WirePull, WireRequest, WireRequestDone, WireDataDone
            DEF TargetInv
  <2>3. CASE (Chunk \/ ChunkDone \/ SetDir \/ DropStale \/ AwaitStall \/ SetReset) /\ UNCHANGED params
    BY <1>0, <2>3, WireColdPoll DEF TargetInv
  <2>4. CASE (\E c \in Contract!Calls \cup ColdCalls : Begin(c)) /\ UNCHANGED params
    BY <1>0, <2>4, WireBegin
  <2>5. CASE Sm
    <3>1. UNCHANGED <<block, xfer, params>>
      BY <2>5 DEF Sm
    <3>2. CASE SmStall
      <4>1. UNCHANGED <<tx, rx, plan, sm, tgt, out, ack, params, stage, next, call>>
        BY <3>1, <3>2 DEF SmStall, block, xfer, fifos
      <4> QED BY <1>0, <4>1, WireQuiet DEF TargetInv
    <3>3. CASE SmCommand \/ SmPush
      <4>1. tgt' = tgt
        BY <3>3 DEF SmCommand, SmPush
      <4> QED BY <1>0, <3>1, <3>3, <4>1, WireCommand, WirePushWord DEF TargetInv
    <3> QED BY <1>0, <2>5, <3>1, <3>2, <3>3, WireWrite, WireRead DEF Sm
  <2> QED BY <2>1, <2>2, <2>3, <2>4, <2>5 DEF Next, Poll
<1> QED BY <1>0, <1>1, Step, CallStep, DirectionStep, HeldStep DEF WInv

LEMMA WireInit == Init => WInv
<1> SUFFICES ASSUME Init PROVE WInv
  OBVIOUS
<1>1. CallInv /\ StageInv /\ Direction
  BY DEF Init, CallInv, StageInv, Direction, Good, NoCall, OnWire, InSequence, InSetDir
<1>2. TargetInv /\ HeldInv
  <2>1. out \in Seq({})
    BY DEF Init
  <2> QED BY <2>1 DEF Init, TargetInv, HeldInv, Silent
<1>3. Wire
  <2>1. PICK f : f = Frame("Cold", FALSE, Trn, params.phase, "BAD", FALSE, 0)
    OBVIOUS
  <2>2. Framed(f)
    BY <2>1 DEF Framed, Frame, Part, Init
  <2>3. Knows(f, Out)
    BY Codes DEF Init, Knows, Silent
  <2>4. Current(f, Out, Pos(Out))
    BY DEF Init, Current
  <2>5. Path(f, tx, Pos(Out), Pos(Out)) /\ Path(f, plan, Pos(Out), Pos(End))
    BY PathNone DEF Init, End
  <2>6. Counts(Out) /\ Answers(Out)
    BY DEF Init, Counts, Answers, OnWire, NoCall
  <2>7. WireAt(f, Out, Pos(Out), Pos(Out))
    BY <2>2, <2>3, <2>4, <2>5, <2>6, Codes DEF WireAt
  <2> QED BY <2>7 DEF Wire
<1> QED BY <1>1, <1>2, <1>3, Initially DEF WInv

LEMMA WireInductive == Spec => []WInv
BY WireInit, WireStep, PTL DEF Spec

-----------------------------------------------------------------------------
(* What the invariant says.                                                 *)

\* Every request and every sequence starts out of a frame, host and target
\* never drive the line together, and a word is sent where the target takes it:
\* for every turnaround, idle count, ACK and FIFO depth, with and without a
\* data phase (the plans of dap.rs against the frame of the debug port).
THEOREM HostAndTargetInStep == Spec => []WireInStep
<1>1. ASSUME WInv PROVE FramesInSync /\ LineExclusive
  <2>0. IInv /\ HeldInv /\ TargetInv
    BY <1>1 DEF WInv
  <2>1. PICK f, l, h, g : WireAt(f, l, h, g)
    BY <1>1 DEF WInv, Wire
  <2>2. Trn \in 1..4 /\ sm.n \in Int /\ l \in Int /\ FrameLen \in Int /\ tgt.pos \in Int
        /\ f.trn = Trn /\ f.phase = params.phase
        /\ FrameLen = 11 + 2 * Trn + (IF HasData THEN 33 ELSE 0)
    <3>1. Trn \in 1..4 /\ sm.n \in Int /\ tgt.pos \in Int
      BY <2>0, PioAssumption DEF IInv, Typed, HeldInv, TargetInv, Trn
    <3>2. l \in Int /\ f.trn = Trn /\ f.phase = params.phase
      BY <2>1 DEF WireAt, Framed
    <3> QED BY <3>1, <3>2 DEF FrameLen
  <2>3. l = Out => tgt.mode # "frame"
    BY <2>1 DEF WireAt, Knows
  <2>4. ASSUME l > 0, f.ack # "BAD"
        PROVE  /\ tgt.mode = "frame" /\ (tgt.rnw <=> f.rnw) /\ tgt.ans = f.ack /\ FrameLen - tgt.pos = l
               /\ f.i # 0 => tgt.cnt = f.i
               /\ HasData <=> Carries(f)
    BY <2>1, <2>2, <2>4 DEF WireAt, Knows, HasData, Carries
  <2>5. ASSUME sm.pc = "write", tx # <<>>
        PROVE  \E m \in Int : Sends(f, Due(l, sm.n, sm.drive), Head(tx).v, Head(tx).i, m)
    <3>1. h = Due(l, sm.n, sm.drive) /\ tx \in Seq(Entries)
      BY <2>0, <2>1, <2>5 DEF WireAt, Current, IInv, Typed
    <3>2. PICK x : Leads(f, tx[1], h, x)
      BY <2>1, <2>5, <3>1, PathHead DEF WireAt
    <3>3. h.pc = "write" /\ Head(tx) = tx[1]
      BY <2>5, <3>1 DEF Due
    <3> QED BY <3>1, <3>2, <3>3 DEF Leads
  <2>6. FramesInSync
    <3> SUFFICES ASSUME sm.pc = "write", tx # <<>>, Head(tx).v \in {"packet", "bits"}
                 PROVE  tgt.mode # "frame"
      BY DEF FramesInSync
    <3>1. l = Out
      BY <2>5 DEF Sends, Due
    <3> QED BY <2>3, <3>1
  <2>7. ASSUME sm.pc \in {"write", "read"}, sm.drive, NEW q \in tgt.pos..(tgt.pos + sm.n - 1)
        PROVE  ~TargetDrives(q)
    <3>1. sm.pc = "write" /\ Writes(f, l, sm.n, sm.drive)
      BY <2>1, <2>7 DEF WireAt, Current
    <3>2. CASE l = Out
      BY <2>3, <3>2 DEF TargetDrives
    <3>3. CASE l # Out
      <4>1. f.ack # "BAD" /\ ~f.rnw /\ Carries(f) /\ (l = 33 \/ l = 1)
        BY <2>7, <3>1, <3>3 DEF Writes
      <4>2. ~tgt.rnw /\ q >= tgt.pos /\ FrameLen - tgt.pos = l /\ HasData
        BY <2>2, <2>4, <2>7, <4>1
      <4>3. q > 10 + Trn
        BY <2>2, <2>7, <4>1, <4>2
      <4> QED BY <2>2, <2>7, <4>2, <4>3 DEF TargetDrives
    <3> QED BY <3>2, <3>3
  <2>8. ASSUME sm.pc = "write", tx # <<>>, Head(tx).v = "word"
        PROVE  /\ tgt.mode = "frame" /\ tgt.ans = "OK" /\ ~tgt.rnw
               /\ tgt.pos = DataFrom /\ sm.drive /\ sm.n = 32
               /\ Head(tx).i # 0 => Head(tx).i = tgt.cnt
    <3>1. l = 33 /\ sm.drive /\ f.ack = "OK" /\ ~f.rnw /\ Head(tx).i = f.i
      BY <2>5, <2>8 DEF Sends, Due
    <3>2. Writes(f, l, sm.n, sm.drive)
      BY <2>1, <2>8 DEF WireAt, Current
    <3>3. sm.n = 32
      BY <3>1, <3>2, Codes DEF Writes
    <3>4. /\ tgt.mode = "frame" /\ tgt.ans = "OK" /\ ~tgt.rnw /\ FrameLen - tgt.pos = 33 /\ HasData
          /\ f.i # 0 => tgt.cnt = f.i
      BY <2>4, <3>1 DEF Carries
    <3>5. tgt.pos = DataFrom
      BY <2>2, <3>4 DEF DataFrom
    <3> QED BY <3>1, <3>3, <3>4, <3>5
  <2> QED BY <2>6, <2>7, <2>8 DEF LineExclusive
<1> QED BY <1>1, WireInductive, PTL DEF WireInStep

\* connect and disconnect return once all that was queued is clocked and SWDIO
\* has its direction, write_block returns OK once the target took every word and
\* checked the last: whatever was still queued when the call began (set_dir_inner
\* and write_block of dap.rs).
THEOREM ReturnsAreSettled == Spec => ReturnsSettled
<1> DEFINE Settled == call' = NoCall =>
       /\ InSetDir => tx = <<>> /\ sm.pc = "cmd" /\ sm.drive = (call.op = "connect")
       /\ call.op = "write" /\ result'.ack = "OK" =>
            /\ tgt.cnt = call.n + 1
            /\ \A k \in 1..Len(tx) : tx[k].v # "word"
<1>1. ASSUME WInv, [Next]_vars PROVE [Settled]_vars
  <2> SUFFICES ASSUME call' = NoCall, InSetDir \/ call.op = "write", Next
               PROVE  Settled
    BY <1>1 DEF InSetDir
  <2>0. IInv /\ CallInv /\ StageInv /\ Direction /\ HeldInv /\ Wire
    BY <1>1 DEF WInv
  <2>1. call # NoCall
    BY DEF InSetDir, NoCall
  <2>2. DataDone \/ ChunkDone \/ AwaitStall \/ SetReset
    BY <2>1 DEF Next, Poll, Push, PullWord, Blocked, YieldTurn, Request, RequestDone, Chunk, SetDir,
           DropStale, Resume, OtherLanes, Begin, Sm, block
  <2>3. CASE DataDone
    <3>1. stage = "Data" /\ plan = <<>> /\ OnWire /\ ~InSetDir /\ call.op = "write"
      BY <2>0, <2>3 DEF DataDone, StageInv, OnWire, InSetDir
    <3> SUFFICES ASSUME result'.ack = "OK"
                 PROVE  /\ tgt.cnt = call.n + 1
                        /\ \A k \in 1..Len(tx) : tx[k].v # "word"
      BY <3>1
    <3>2. ASSUME NEW a, NEW d, Ready(a, d) PROVE a = "OK" /\ RdBuff
      <4>1. WriteReady(a)
        BY <2>1, <3>1, <3>2 DEF Ready, SingleReady, ReadReady
      <4>2. Leave(next, a, words) /\ (a # "OK" \/ RdBuff)
        BY <2>1, <4>1 DEF WriteReady
      <4>3. result'.ack = a
        BY <4>2 DEF Leave, Contract!Result
      <4> QED BY <4>2, <4>3
    <3>3. ack = "OK" /\ RdBuff /\ Rnw
      BY <2>3, <3>2 DEF DataDone, Rnw
    <3>4. PICK f, l, h, g : WireAt(f, l, h, g)
      BY <2>0 DEF Wire
    <3>5. tgt.cnt = call.n + 1
      <4>1. tgt.cnt = Accepted + Accepts(ack)
        BY <3>1, <3>3, <3>4 DEF WireAt, Counts
      <4> QED BY <2>0, <3>1, <3>3, <4>1 DEF Accepted, Accepts, RdBuff, CallInv, Good
    <3>6. ASSUME NEW k \in 1..Len(tx) PROVE tx[k].v # "word"
      <4>1. PICK w : Leads(f, tx[k], w[k], w[k + 1])
        BY <3>4, <3>6 DEF WireAt, Path
      <4>2. f.rnw
        BY <3>1, <3>3, <3>4 DEF WireAt, Framed
      <4> QED BY <4>1, <4>2 DEF Leads, Sends
    <3> QED BY <3>5, <3>6
  <2>4. CASE ChunkDone \/ SetReset
    BY <2>4 DEF ChunkDone, SetReset, InSequence, InPins, InSetDir
  <2>5. CASE AwaitStall
    <3>1. stage = "Stalled" /\ InSetDir /\ call.op # "write" /\ txstall /\ plan = <<>>
      BY <2>0, <2>1, <2>5 DEF AwaitStall, StageInv, InSetDir, IInv, Typed, Executing
    <3>2. tx = <<>> /\ sm.drive = (call.op = "connect")
      BY <2>0, <3>1 DEF Direction
    <3>3. sm.pc # "write"
      BY <2>0, <3>1, <3>2 DEF IInv, Stream, Prev
    <3>4. sm.pc = "cmd"
      BY <2>0, <3>1, <3>3, Drained DEF IInv, Typed
    <3> QED BY <3>1, <3>2, <3>4
  <2> QED BY <2>2, <2>3, <2>4, <2>5
<1>2. ReturnsSettled <=> [][Settled]_vars
  BY PTL DEF ReturnsSettled
<1> QED BY <1>1, <1>2, WireInductive, PTL DEF Spec

-----------------------------------------------------------------------------
(* The driver implements its contract.                                      *)

\* A step that the contract does not see.
LEMMA ContractStutters ==
  ASSUME UNCHANGED <<retry, words, result>>, UNCHANGED <<call, next>> \/ (~OnWire /\ ~OnWire')
  PROVE  UNCHANGED Contract!cvars
<1>1. CASE UNCHANGED <<call, next>>
  BY <1>1 DEF Contract!cvars, OnWire
<1>2. CASE ~OnWire /\ ~OnWire'
  BY <1>2 DEF Contract!cvars
<1> QED BY <1>1, <1>2

LEMMA ContractBegins ==
  ASSUME CallInv, NEW c \in Contract!Calls \cup ColdCalls, Begin(c)
  PROVE  \E b \in Contract!Calls : Contract!Begin(b)
<1>1. /\ call = NoCall /\ result' = Contract!Result(0, "none", <<>>) /\ UNCHANGED words
      /\ ~OnWire /\ retry = 0 /\ Contract!NoCall = NoCall
  BY DEF Begin, OnWire, NoCall, CallInv, Contract!NoCall
<1>2. PICK z \in Contract!Calls : z.n = 0
  <2>1. 0 \in 0..MaxWords /\ 0 \in 0..MaxRetries
    BY PioAssumption
  <2>2. [op |-> "write", rnw |-> FALSE, ap |-> FALSE, n |-> 0, retries |-> 0] \in Contract!Calls
    BY <2>1 DEF Contract!Calls
  <2> QED BY <2>2
<1>3. CASE c.n = 0
  <2>1. UNCHANGED <<call, next, retry>> /\ ~OnWire'
    BY <1>1, <1>3 DEF Begin, OnWire
  <2>2. Contract!Begin(z)
    BY <1>1, <1>2, <2>1 DEF Contract!Begin
  <2> QED BY <1>2, <2>2
<1>4. CASE c.n # 0 /\ c.op \in {"single", "read", "write"}
  <2>1. call' = c /\ next' = (IF c.ap THEN -1 ELSE 0) /\ retry' = c.retries /\ OnWire'
    BY <1>4 DEF Begin, OnWire
  <2>2. c \in Contract!Calls
    BY <1>4 DEF ColdCalls
  <2>3. Contract!Begin(c)
    BY <1>1, <1>4, <2>1 DEF Contract!Begin
  <2> QED BY <2>2, <2>3
<1>5. CASE c.n # 0 /\ c.op \notin {"single", "read", "write"}
  <2>1. call' = c /\ retry' = 0 /\ ~OnWire'
    BY <1>5, GoodCalls DEF Begin, OnWire, Good
  <2>2. Contract!Begin(z)
    BY <1>1, <1>2, <2>1 DEF Contract!Begin
  <2> QED BY <1>2, <2>2
<1> QED BY <1>3, <1>4, <1>5

\* The end of a transfer with ACK a and data d is one attempt of the contract.
LEMMA ContractAttempts ==
  ASSUME CallInv, next \in Int, OnWire, NEW a \in Contract!Acks, NEW d, Ready(a, d),
         a = "OK" /\ Rnw => d = Accepted + 1
  PROVE  Contract!Attempt(a)
<1>1. /\ call # NoCall /\ Contract!NoCall = NoCall /\ (call' = call => OnWire') /\ (call' = NoCall => ~OnWire')
      /\ call' = call \/ call' = NoCall
  <2>1. call' = call \/ call' = NoCall
    BY ReadyStep
  <2> QED BY <2>1 DEF OnWire, NoCall, Contract!NoCall
<1>2. CASE a = "WAIT" /\ retry > 0
  <2>1. retry' = retry - 1 /\ UNCHANGED <<call, next, words, result>> /\ OnWire'
    BY <1>1, <1>2 DEF Ready
  <2> QED BY <1>1, <1>2, <2>1 DEF Contract!Attempt, Contract!Again
<1>3. CASE ~(a = "WAIT" /\ retry > 0)
  <2>1. (SingleReady(a, d) \/ ReadReady(a, d) \/ WriteReady(a)) /\ Refill
    BY <1>3 DEF Ready
  <2>2. ASSUME NEW n, NEW ws, Leave(n, a, ws) PROVE Contract!Return(n, a, ws) /\ call' = NoCall
    BY <1>1, <2>2 DEF Leave, Contract!Return, Contract!Result
  <2>3. Contract!Answered(a)
    <3>1. CASE SingleReady(a, d)
      <4>1. call.op = "single" /\ call.n = 1 /\ ~call.ap /\ next = 0 /\ words = <<>>
        BY <3>1 DEF SingleReady, CallInv, Good, InSequence
      <4>2. CASE a # "OK"
        <5>1. Leave(0, a, <<>>)
          BY <3>1, <4>2 DEF SingleReady
        <5>2. Contract!Done = 0
          BY <4>1 DEF Contract!Done
        <5> QED BY <2>2, <4>1, <4>2, <5>1, <5>2 DEF Contract!Answered, Contract!Failed
      <4>3. CASE a = "OK" /\ call.rnw
        <5>1. Leave(1, a, <<d>>) /\ d = 1
          BY <3>1, <4>1, <4>3 DEF SingleReady, Rnw, Accepted
        <5>2. Contract!Datum = 1 /\ Append(words, 1) = <<1>>
          BY <4>1 DEF Contract!Datum
        <5>3. Contract!Return(call.n, "OK", Append(words, Contract!Datum))
          BY <2>2, <4>1, <4>3, <5>1, <5>2
        <5> QED BY <4>1, <4>3, <5>3 DEF Contract!Answered, Contract!Stored
      <4>4. CASE a = "OK" /\ ~call.rnw
        <5>1. Leave(1, a, <<>>)
          BY <3>1, <4>4 DEF SingleReady
        <5>2. Contract!Return(call.n, "OK", words)
          BY <2>2, <4>1, <4>4, <5>1
        <5> QED BY <4>1, <4>4, <5>2 DEF Contract!Answered, Contract!Written
      <4> QED BY <4>2, <4>3, <4>4
    <3>2. CASE ReadReady(a, d)
      <4>1. call.op = "read" /\ call.rnw /\ call.n > 0 /\ call.n \in Int /\ call.ap \in BOOLEAN
            /\ next \in -1..(call.n - 1)
        BY <1>1, <3>2 DEF ReadReady, CallInv, Good
      <4>2. CASE a # "OK"
        <5>1. Leave(Contract!Done, a, words)
          BY <3>2, <4>2 DEF ReadReady, Contract!Done
        <5> QED BY <2>2, <4>2, <5>1 DEF Contract!Answered, Contract!Failed
      <4>3. CASE a = "OK" /\ next = -1
        <5>1. next' = 0 /\ UNCHANGED <<call, words, result>>
          BY <3>2, <4>1, <4>3 DEF ReadReady
        <5> QED BY <1>1, <4>3, <5>1 DEF Contract!Answered, Contract!Posted
      <4>4. CASE a = "OK" /\ next # -1
        <5>1. d = Contract!Datum
          BY <4>1, <4>4 DEF Rnw, Accepted, Contract!Datum
        <5>2. \/ next + 1 = call.n /\ Leave(call.n, a, Append(words, d))
              \/ /\ next + 1 < call.n /\ next' = next + 1 /\ words' = Append(words, d)
                 /\ UNCHANGED <<call, result>>
          BY <3>2, <4>1, <4>4 DEF ReadReady
        <5>3. Contract!Stored
          BY <1>1, <2>2, <4>1, <4>4, <5>1, <5>2 DEF Contract!Stored
        <5> QED BY <4>4, <5>3 DEF Contract!Answered
      <4> QED BY <4>2, <4>3, <4>4
    <3>3. CASE WriteReady(a)
      <4>1. call.op = "write" /\ ~call.rnw /\ call.n \in Int /\ next \in 0..call.n
        BY <3>3 DEF WriteReady, CallInv, Good
      <4>2. CASE a # "OK"
        <5>1. Leave(Contract!Done, a, words)
          BY <3>3, <4>1, <4>2 DEF WriteReady, Contract!Done
        <5> QED BY <2>2, <4>2, <5>1 DEF Contract!Answered, Contract!Failed
      <4>3. CASE a = "OK" /\ next = call.n
        <5>1. Leave(call.n, a, words)
          BY <3>3, <4>1, <4>3 DEF WriteReady, RdBuff
        <5>2. Contract!Return(call.n, "OK", words)
          BY <2>2, <4>3, <5>1
        <5> QED BY <4>1, <4>3, <5>2 DEF Contract!Answered, Contract!Written
      <4>4. CASE a = "OK" /\ next # call.n
        <5>1. next' = next + 1 /\ UNCHANGED <<call, words, result>> /\ next < call.n
          BY <3>3, <4>1, <4>4 DEF WriteReady, RdBuff
        <5> QED BY <1>1, <4>1, <4>4, <5>1 DEF Contract!Answered, Contract!Written
      <4> QED BY <4>2, <4>3, <4>4
    <3> QED BY <2>1, <3>1, <3>2, <3>3
  <2>4. retry' = IF (IF OnWire THEN call ELSE NoCall)' = Contract!NoCall THEN 0 ELSE call.retries
    BY <1>1, <2>1 DEF Refill
  <2> QED BY <1>1, <1>3, <2>3, <2>4 DEF Contract!Attempt
<1> QED BY <1>2, <1>3

\* Which step of the contract each step of the driver is: the start of a call
\* begins it, the end of a transfer is an attempt, and what goes on between
\* them on the wire, and on the cold paths, the contract does not see.
LEMMA ContractStep == WInv /\ [Next]_vars => [Contract!Next]_(Contract!cvars)
<1> SUFFICES ASSUME WInv, [Next]_vars PROVE [Contract!Next]_(Contract!cvars)
  OBVIOUS
<1>0. IInv /\ CallInv /\ StageInv /\ HeldInv /\ Wire /\ next \in Int
  BY DEF WInv, IInv, Typed
<1>1. CASE UNCHANGED vars
  BY <1>1, ContractStutters DEF vars, block
<1>2. ASSUME NEW c \in Contract!Calls \cup ColdCalls, Begin(c) PROVE Contract!Next
  <2>1. PICK b \in Contract!Calls : Contract!Begin(b)
    BY <1>0, <1>2, ContractBegins
  <2> QED BY <2>1 DEF Contract!Next
<1>3. CASE DataDone
  <2>1. stage = "Data" /\ plan = <<>> /\ OnWire
    BY <1>0, <1>3 DEF DataDone, StageInv
  <2>2. PICK f, l, h, g : WireAt(f, l, h, g)
    BY <1>0 DEF Wire
  <2>3. PICK a, d : IF ack = "OK" /\ Rnw THEN a = out[2].ack /\ d = out[1].data ELSE a = ack /\ d = 0
    OBVIOUS
  <2>4. Ready(a, d)
    BY <1>3, <2>3 DEF DataDone
  <2>5. CASE ack = "OK" /\ Rnw
    <3>1. (a = "OK" \/ a = "ERROR") /\ d = tgt.cnt
      BY <1>0, <2>1, <2>2, <2>3, <2>5, Received
    <3>2. d = Accepted + 1
      BY <2>1, <2>2, <2>5, <3>1 DEF WireAt, Counts, Accepts
    <3>3. Contract!Attempt(a) /\ a \in Contract!Acks
      BY <1>0, <2>1, <2>4, <3>1, <3>2, ContractAttempts DEF Contract!Acks
    <3> QED BY <3>3 DEF Contract!Next
  <2>6. CASE ~(ack = "OK" /\ Rnw)
    <3>1. a = "OK" \/ a = "WAIT" \/ a = "FAULT" \/ a = "BAD"
      BY <2>1, <2>2, <2>3, <2>6 DEF WireAt, Framed
    <3>2. Contract!Attempt(a) /\ a \in Contract!Acks
      BY <1>0, <2>1, <2>3, <2>4, <2>6, <3>1, ContractAttempts DEF Contract!Acks
    <3> QED BY <3>2 DEF Contract!Next
  <2> QED BY <2>5, <2>6
<1>4. CASE ChunkDone \/ AwaitStall \/ SetReset
  <2>1. UNCHANGED <<retry, words, result>> /\ (call' = call \/ call' = NoCall)
    BY <1>4 DEF ChunkDone, AwaitStall, SetReset
  <2>2. InSequence \/ InSetDir \/ InPins
    BY <1>0, <1>4 DEF ChunkDone, AwaitStall, SetReset, StageInv
  <2>3. ~OnWire /\ ~OnWire'
    BY <2>1, <2>2 DEF InSequence, InSetDir, InPins, OnWire, NoCall
  <2> QED BY <2>1, <2>3, ContractStutters
<1>5. CASE Push \/ PullWord \/ Blocked \/ YieldTurn \/ Request \/ RequestDone
           \/ Chunk \/ SetDir \/ DropStale \/ Resume \/ OtherLanes \/ Sm
  <2>1. UNCHANGED block
    BY <1>5 DEF Push, PullWord, Blocked, YieldTurn, Request, RequestDone, Chunk, SetDir, DropStale,
                Resume, OtherLanes, Sm
  <2> QED BY <2>1, ContractStutters DEF block
<1> QED BY <1>1, <1>2, <1>3, <1>4, <1>5 DEF Next, Poll

\* The hand-written futures of the driver implement the default bodies of the
\* trait Driver: every call returns the count, the ACK and the words that one
\* atomic transfer after another would have given it.
THEOREM Implementation == Spec => ImplementsContract
<1>1. Init => Contract!Init
  BY DEF Init, Contract!Init, OnWire, NoCall, Contract!NoCall
<1> QED BY <1>1, ContractStep, WireInductive, PTL DEF Spec, ImplementsContract, Contract!Spec
=============================================================================
