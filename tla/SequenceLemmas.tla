--------------------------- MODULE SequenceLemmas ---------------------------
(***************************************************************************)
(* Facts about numbers and sequences that several proofs need: induction   *)
(* for a set of numbers, from its least counterexample, and where a        *)
(* flattened sequence has the elements of its parts.                       *)
(***************************************************************************)
EXTENDS Integers, Sequences, SequencesExt, SequenceTheorems, WellFoundedInduction, TLAPS

\* A set of numbers has a smallest one.
LEMMA Smallest == ASSUME NEW S, S \subseteq Nat, S # {} PROVE \E x \in S : \A y \in S : x <= y
<1>1. PICK x \in S : \A y \in S : ~(<<y, x>> \in OpToRel(<, Nat))
  BY NatLessThanWellFounded, WFMin, ZenonT(60)
<1>2. \A y \in S : x <= y
  <2> SUFFICES ASSUME NEW y \in S, y < x PROVE FALSE
    OBVIOUS
  <2>1. <<y, x>> \in Nat \X Nat /\ <<y, x>>[1] < <<y, x>>[2]
    OBVIOUS
  <2>2. <<y, x>> \in OpToRel(<, Nat)
    BY <2>1, ZenonT(60) DEF OpToRel
  <2> QED BY <1>1, <2>2
<1> QED BY <1>2

\* Induction, for a set.
LEMMA UpTo ==
  ASSUME NEW S, NEW n \in Nat, n >= 1 => 1 \in S, \A k \in 1..n : k < n /\ k \in S => k + 1 \in S
  PROVE  \A k \in 1..n : k \in S
<1> SUFFICES ASSUME {k \in 1..n : k \notin S} # {} PROVE FALSE
  OBVIOUS
<1>0. PICK B : B = {k \in 1..n : k \notin S}
  OBVIOUS
<1>1. PICK m \in B : \A y \in B : m <= y
  BY <1>0, Smallest
<1>2. m # 1 /\ m - 1 \in 1..n /\ m - 1 < n
  BY <1>0, <1>1
<1>3. m - 1 \in S
  BY <1>0, <1>1, <1>2
<1>4. (m - 1) + 1 \in S
  BY <1>2, <1>3
<1> QED BY <1>0, <1>1, <1>4

\* FlattenSeq by its recursion.
LEMMA Flattened ==
  ASSUME NEW T, NEW ss \in Seq(Seq(T)), Len(ss) > 0
  PROVE  \E f : /\ f[1] = ss[1] /\ \A i \in 1..(Len(ss) - 1) : f[i + 1] = f[i] \o ss[i + 1]
                /\ FlattenSeq(ss) = f[Len(ss)]
<1> DEFINE G(n, f) == f = [i \in 1..n |-> IF i = 1 THEN ss[i] ELSE f[i - 1] \o ss[i]]
<1>0. Len(ss) \in Nat /\ DOMAIN ss = 1..Len(ss)
  OBVIOUS
<1>1. PICK S : S = {n \in Nat : \E f : G(n, f)}
  OBVIOUS
<1>2. 1 \in S
  <2>1. G(1, [i \in 1..1 |-> ss[i]])
    OBVIOUS
  <2> QED BY <1>1, <2>1
<1>3. ASSUME NEW k \in 1..Len(ss), k < Len(ss), k \in S PROVE k + 1 \in S
  <2>1. PICK f : G(k, f)
    BY <1>1, <1>3
  <2>2. PICK g : g = [i \in 1..(k + 1) |-> IF i <= k THEN f[i] ELSE f[k] \o ss[i]]
    OBVIOUS
  <2>3. ASSUME NEW i \in 1..(k + 1) PROVE g[i] = IF i = 1 THEN ss[i] ELSE g[i - 1] \o ss[i]
    <3>1. k \in Nat /\ k >= 1 /\ i \in Nat
      BY <1>0
    <3>2. CASE i <= k
      <4>1. i \in 1..k /\ (i # 1 => i - 1 \in 1..k)
        BY <3>1, <3>2
      <4>2. f[i] = IF i = 1 THEN ss[i] ELSE f[i - 1] \o ss[i]
        BY <2>1, <4>1
      <4> QED BY <2>2, <3>1, <3>2, <4>1, <4>2
    <3>3. CASE i = k + 1
      <4>1. i - 1 = k /\ i # 1 /\ ~(i <= k) /\ k <= k /\ k \in 1..(k + 1)
        BY <3>1, <3>3
      <4> QED BY <2>2, <4>1
    <3> QED BY <3>1, <3>2, <3>3
  <2>4. G(k + 1, g)
    BY <2>2, <2>3
  <2>5. k + 1 \in Nat
    BY <1>0
  <2> HIDE DEF G
  <2> QED BY <1>1, <2>4, <2>5
<1>4. \A k \in 1..Len(ss) : k \in S
  BY <1>0, <1>2, <1>3, UpTo
<1>5. PICK f : G(Len(ss), f)
  <2>1. Len(ss) \in S
    BY <1>0, <1>4
  <2> HIDE DEF G
  <2> QED BY <1>1, <2>1
<1>6. PICK h : h = CHOOSE f2 : G(Len(ss), f2)
  OBVIOUS
<1>7. G(Len(ss), h)
  BY <1>5, <1>6
<1>8. FlattenSeq(ss) = h[Len(ss)]
  BY <1>0, <1>6 DEF FlattenSeq
<1>9. h[1] = ss[1]
  BY <1>0, <1>7
<1>10. ASSUME NEW i \in 1..(Len(ss) - 1) PROVE h[i + 1] = h[i] \o ss[i + 1]
  <2>1. i + 1 \in 1..Len(ss) /\ i + 1 # 1 /\ (i + 1) - 1 = i
    BY <1>0
  <2> QED BY <1>7, <2>1
<1> QED BY <1>8, <1>9, <1>10

\* Positions in a sequence of length a + b.
LEMMA Sums ==
  ASSUME NEW a \in Nat, NEW b \in Nat
  PROVE  /\ \A m \in 1..a : m \in 1..(a + b)
         /\ \A m \in 1..b : a + m \in 1..(a + b)
         /\ \A m \in 1..(a + b) : m > a => \E l \in 1..b : m = a + l
<1>1. ASSUME NEW m \in 1..(a + b), m > a PROVE \E l \in 1..b : m = a + l
  <2>1. m - a \in 1..b /\ m = a + (m - a)
    BY <1>1
  <2> QED BY <2>1
<1> QED BY <1>1

\* Where the elements of the parts are in the whole: off[i] come before part i.
Offsets(ss, off) ==
  /\ off \in [1..Len(ss) -> Nat]
  /\ Len(ss) > 0 => off[1] = 0 /\ Len(FlattenSeq(ss)) = off[Len(ss)] + Len(ss[Len(ss)])
  /\ \A i \in 1..(Len(ss) - 1) : off[i + 1] = off[i] + Len(ss[i])
  /\ \A i \in 1..Len(ss) : \A l \in 1..Len(ss[i]) :
       off[i] + l \in 1..Len(FlattenSeq(ss)) /\ FlattenSeq(ss)[off[i] + l] = ss[i][l]
  /\ \A j \in 1..Len(FlattenSeq(ss)) : \E i \in 1..Len(ss) : \E l \in 1..Len(ss[i]) : j = off[i] + l

\* A flattened sequence is made of its parts, each at its offset.
LEMMA FlatAt ==
  ASSUME NEW T, NEW ss \in Seq(Seq(T))
  PROVE  FlattenSeq(ss) \in Seq(T) /\ \E off : Offsets(ss, off)
<1>0. Len(ss) \in Nat /\ \A i \in 1..Len(ss) : ss[i] \in Seq(T) /\ Len(ss[i]) \in Nat
  OBVIOUS
<1>1. CASE Len(ss) = 0
  <2>1. FlattenSeq(ss) = <<>>
    BY <1>0, <1>1 DEF FlattenSeq
  <2>2. 1..Len(ss) = {} /\ 1..(Len(ss) - 1) = {} /\ 1..Len(FlattenSeq(ss)) = {} /\ ~(Len(ss) > 0)
    BY <1>1, <2>1
  <2>3. FlattenSeq(ss) \in Seq(T)
    BY <2>1, EmptySeq
  <2>4. PICK off : off \in [1..Len(ss) -> Nat]
    <3>1. [i \in 1..Len(ss) |-> 0] \in [1..Len(ss) -> Nat]
      OBVIOUS
    <3> QED BY <3>1
  <2>5. Offsets(ss, off)
    BY <2>2, <2>4, Zenon DEF Offsets
  <2> QED BY <2>3, <2>5
<1>2. CASE Len(ss) > 0
  <2>1. PICK f : /\ f[1] = ss[1] /\ \A i \in 1..(Len(ss) - 1) : f[i + 1] = f[i] \o ss[i + 1]
                 /\ FlattenSeq(ss) = f[Len(ss)]
    BY <1>2, Flattened
  <2>2. PICK off : off = [i \in 1..Len(ss) |-> IF i = 1 THEN 0 ELSE Len(f[i - 1])]
    OBVIOUS
  <2>3. PICK A : A = {n \in Nat : f[n] \in Seq(T)}
    OBVIOUS
  <2>4. 1 \in A
    BY <1>0, <1>2, <2>1, <2>3
  <2>5. ASSUME NEW k \in 1..Len(ss), k < Len(ss), k \in A PROVE k + 1 \in A
    <3>1. k \in 1..(Len(ss) - 1) /\ k + 1 \in 1..Len(ss) /\ k + 1 \in Nat
      BY <1>0, <2>5
    <3>2. f[k] \in Seq(T) /\ ss[k + 1] \in Seq(T)
      BY <1>0, <2>3, <2>5, <3>1
    <3>3. f[k] \o ss[k + 1] \in Seq(T)
      BY <3>2, ConcatProperties
    <3> QED BY <2>1, <2>3, <3>1, <3>3
  <2>6. \A i \in 1..Len(ss) : i \in A
    BY <1>0, <2>4, <2>5, UpTo
  <2>7. \A i \in 1..Len(ss) : f[i] \in Seq(T) /\ Len(f[i]) \in Nat
    BY <2>3, <2>6
  <2>8. ASSUME NEW i \in 1..(Len(ss) - 1)
        PROVE  /\ i \in 1..Len(ss) /\ i + 1 \in 1..Len(ss) /\ off[i + 1] = Len(f[i])
               /\ Len(f[i + 1]) = Len(f[i]) + Len(ss[i + 1])
               /\ \A l \in 1..Len(f[i]) : f[i + 1][l] = f[i][l]
               /\ \A l \in 1..Len(ss[i + 1]) : f[i + 1][Len(f[i]) + l] = ss[i + 1][l]
    <3>1. i \in 1..Len(ss) /\ i + 1 \in 1..Len(ss) /\ i + 1 # 1 /\ (i + 1) - 1 = i
      BY <1>0
    <3>2. PICK x, y : x = f[i] /\ y = ss[i + 1] /\ x \in Seq(T) /\ y \in Seq(T)
      BY <1>0, <2>7, <3>1
    <3>0. \A l \in 1..(Len(x) + Len(y)) : (x \o y)[l] = IF l <= Len(x) THEN x[l] ELSE y[l - Len(x)]
      BY <3>2, ConcatProperties, Zenon
    <3>3. Len(x \o y) = Len(x) + Len(y) /\ Len(x) \in Nat /\ Len(y) \in Nat
      BY <3>2, ConcatProperties, LenProperties
    <3>4. \A l \in 1..Len(x) : (x \o y)[l] = x[l]
      BY <3>0, <3>3
    <3>5. \A l \in 1..Len(y) : (x \o y)[Len(x) + l] = y[l]
      BY <3>0, <3>3
    <3>6. f[i + 1] = x \o y
      BY <2>1, <3>2
    <3> QED BY <2>2, <3>1, <3>2, <3>3, <3>4, <3>5, <3>6
  <2>9. off \in [1..Len(ss) -> Nat] /\ off[1] = 0
    <3>1. \A i \in 1..Len(ss) : i # 1 => i - 1 \in 1..Len(ss)
      BY <1>0
    <3> QED BY <1>0, <1>2, <2>2, <2>7, <3>1
  <2>10. \A i \in 1..Len(ss) : Len(f[i]) = off[i] + Len(ss[i])
    <3> SUFFICES ASSUME NEW i \in 1..Len(ss) PROVE Len(f[i]) = off[i] + Len(ss[i])
      OBVIOUS
    <3>1. CASE i = 1
      BY <1>0, <2>1, <2>9, <3>1
    <3>2. CASE i # 1
      <4>1. PICK k : k = i - 1 /\ k \in 1..(Len(ss) - 1) /\ i = k + 1
        BY <1>0, <3>2
      <4>2. Len(f[k + 1]) = Len(f[k]) + Len(ss[k + 1]) /\ off[k + 1] = Len(f[k])
        BY <2>8, <4>1
      <4> QED BY <4>1, <4>2
    <3> QED BY <3>1, <3>2
  <2>11. \A i \in 1..(Len(ss) - 1) : off[i + 1] = off[i] + Len(ss[i])
    BY <2>8, <2>10
  <2> DEFINE In(n) == \A i \in 1..n : \A l \in 1..Len(ss[i]) : off[i] + l \in 1..Len(f[n]) /\ f[n][off[i] + l] = ss[i][l]
  <2> DEFINE From(n) == \A j \in 1..Len(f[n]) : \E i \in 1..n : \E l \in 1..Len(ss[i]) : j = off[i] + l
  <2>12. PICK B : B = {n \in Nat : In(n) /\ From(n)}
    OBVIOUS
  <2>13. 1 \in B
    <3>1. 1..1 = {1} /\ f[1] = ss[1] /\ off[1] = 0 /\ \A l \in 1..Len(ss[1]) : off[1] + l = l
      BY <1>0, <2>1, <2>9
    <3>2. In(1)
      BY <3>1
    <3>3. From(1)
      BY <3>1
    <3> HIDE DEF In, From
    <3> QED BY <2>12, <3>2, <3>3
  <2>14. ASSUME NEW k \in 1..Len(ss), k < Len(ss), k \in B PROVE k + 1 \in B
    <3>1. /\ k \in 1..(Len(ss) - 1) /\ k + 1 \in 1..Len(ss) /\ k + 1 \in Nat
          /\ \A i \in 1..(k + 1) : i \in 1..k \/ i = k + 1
          /\ \A i \in 1..k : i \in 1..(k + 1)
      BY <1>0, <2>14
    <3>2. In(k) /\ From(k)
      BY <2>12, <2>14
    <3>3. Len(f[k]) \in Nat /\ Len(ss[k + 1]) \in Nat /\ Len(f[k + 1]) = Len(f[k]) + Len(ss[k + 1]) /\ off[k + 1] = Len(f[k])
      BY <1>0, <2>7, <2>8, <3>1
    <3> PICK n1, n2 : n1 = Len(f[k]) /\ n2 = Len(ss[k + 1])
      OBVIOUS
    <3>6. n1 \in Nat /\ n2 \in Nat /\ Len(f[k + 1]) = n1 + n2
      BY <3>3
    <3>7. (\A m \in 1..n1 : m \in 1..Len(f[k + 1])) /\ (\A m \in 1..n2 : n1 + m \in 1..Len(f[k + 1]))
      BY <3>6, Sums, Zenon
    <3>4. In(k + 1)
      <4> SUFFICES ASSUME NEW i \in 1..(k + 1), NEW l \in 1..Len(ss[i])
                   PROVE  off[i] + l \in 1..Len(f[k + 1]) /\ f[k + 1][off[i] + l] = ss[i][l]
        OBVIOUS
      <4>1. CASE i \in 1..k
        <5>1. off[i] + l \in 1..Len(f[k]) /\ f[k][off[i] + l] = ss[i][l]
          BY <3>2, <4>1
        <5>2. PICK m : m = off[i] + l
          OBVIOUS
        <5>3. f[k + 1][m] = f[k][m]
          BY <2>8, <3>1, <5>1, <5>2
        <5>4. m \in 1..Len(f[k + 1])
          BY <3>7, <5>1, <5>2
        <5> QED BY <5>1, <5>2, <5>3, <5>4
      <4>2. CASE i = k + 1
        <5>1. f[k + 1][Len(f[k]) + l] = ss[k + 1][l]
          BY <2>8, <3>1, <4>2
        <5>2. l \in 1..Len(ss[k + 1])
          BY <4>2
        <5>3. Len(f[k]) + l \in 1..Len(f[k + 1])
          BY <3>7, <5>2
        <5> QED BY <3>3, <4>2, <5>1, <5>3
      <4> QED BY <3>1, <4>1, <4>2
    <3>5. From(k + 1)
      <4> SUFFICES ASSUME NEW j \in 1..Len(f[k + 1]) PROVE \E i \in 1..(k + 1) : \E l \in 1..Len(ss[i]) : j = off[i] + l
        OBVIOUS
      <4>1. CASE j <= Len(f[k])
        <5>1. j \in 1..Len(f[k])
          BY <3>3, <4>1
        <5> QED BY <3>1, <3>2, <5>1
      <4>2. CASE j > Len(f[k])
        <5>3. j \in 1..(n1 + n2) /\ j > n1
          BY <3>6, <4>2
        <5>4. PICK l \in 1..n2 : j = n1 + l
          BY <3>6, <5>3, Sums
        <5>1. l \in 1..Len(ss[k + 1]) /\ j = off[k + 1] + l
          BY <3>3, <5>4
        <5>2. k + 1 \in 1..(k + 1)
          BY <3>1
        <5> QED BY <5>1, <5>2
      <4> QED BY <3>3, <4>1, <4>2
    <3> HIDE DEF In, From
    <3> QED BY <2>12, <3>1, <3>4, <3>5
  <2>15. \A n \in 1..Len(ss) : n \in B
    BY <1>0, <2>13, <2>14, UpTo
  <2>16. In(Len(ss)) /\ From(Len(ss))
    <3>1. Len(ss) \in B
      BY <1>0, <1>2, <2>15
    <3> HIDE DEF In, From
    <3> QED BY <2>12, <3>1
  <2>17. FlattenSeq(ss) = f[Len(ss)] /\ FlattenSeq(ss) \in Seq(T)
    BY <1>0, <1>2, <2>1, <2>7
  <2>18. /\ \A i \in 1..Len(ss) : \A l \in 1..Len(ss[i]) :
              off[i] + l \in 1..Len(FlattenSeq(ss)) /\ FlattenSeq(ss)[off[i] + l] = ss[i][l]
         /\ \A j \in 1..Len(FlattenSeq(ss)) : \E i \in 1..Len(ss) : \E l \in 1..Len(ss[i]) : j = off[i] + l
    BY <2>16, <2>17, Zenon
  <2>20. off[1] = 0 /\ Len(FlattenSeq(ss)) = off[Len(ss)] + Len(ss[Len(ss)])
    BY <1>0, <1>2, <2>9, <2>10, <2>17
  <2>19. Offsets(ss, off)
    BY <2>9, <2>11, <2>18, <2>20, Zenon DEF Offsets
  <2> QED BY <2>17, <2>19
<1>3. Len(ss) = 0 \/ Len(ss) > 0
  BY <1>0
<1> QED BY <1>1, <1>2, <1>3
\* The same with an offset behind the last part, which is the length of the whole.
Bounds(ss, end) ==
  /\ end \in [1..(Len(ss) + 1) -> Nat]
  /\ end[1] = 0
  /\ \A k \in 1..Len(ss) : end[k + 1] = end[k] + Len(ss[k])
  /\ \A k \in 1..Len(ss) : \A l \in 1..Len(ss[k]) :
       end[k] + l \in 1..Len(FlattenSeq(ss)) /\ FlattenSeq(ss)[end[k] + l] = ss[k][l]
  /\ Len(FlattenSeq(ss)) = end[Len(ss) + 1]

LEMMA BoundsOf ==
  ASSUME NEW T, NEW ss \in Seq(Seq(T))
  PROVE  FlattenSeq(ss) \in Seq(T) /\ \E end : Bounds(ss, end)
<1>1. FlattenSeq(ss) \in Seq(T)
  BY FlatAt
<1>2. PICK off : Offsets(ss, off)
  BY FlatAt
<1> PICK n : n = Len(ss)
  OBVIOUS
<1>3. n \in Nat /\ \A k \in 1..n : ss[k] \in Seq(T) /\ Len(ss[k]) \in Nat
  OBVIOUS
<1>4. /\ off \in [1..n -> Nat]
      /\ n > 0 => off[1] = 0 /\ Len(FlattenSeq(ss)) = off[n] + Len(ss[n])
      /\ \A i \in 1..(n - 1) : off[i + 1] = off[i] + Len(ss[i])
      /\ \A i \in 1..n : \A l \in 1..Len(ss[i]) :
           off[i] + l \in 1..Len(FlattenSeq(ss)) /\ FlattenSeq(ss)[off[i] + l] = ss[i][l]
  BY <1>2 DEF Offsets
<1>5. Len(FlattenSeq(ss)) \in Nat /\ (n = 0 => Len(FlattenSeq(ss)) = 0)
  <2>1. n = 0 => FlattenSeq(ss) = ss /\ Len(ss) = 0
    BY DEF FlattenSeq
  <2> QED BY <1>1, <2>1
<1>6. PICK end : end = [k \in 1..(n + 1) |-> IF k <= n THEN off[k] ELSE Len(FlattenSeq(ss))]
  OBVIOUS
<1>7. end \in [1..(n + 1) -> Nat]
  BY <1>3, <1>4, <1>5, <1>6
<1>8. /\ \A k \in 1..n : end[k] = off[k]
      /\ end[n + 1] = Len(FlattenSeq(ss))
  BY <1>3, <1>6
<1>9. end[1] = 0
  BY <1>3, <1>4, <1>5, <1>8
<1>10. ASSUME NEW k \in 1..n PROVE end[k + 1] = end[k] + Len(ss[k])
  <2>1. CASE k < n
    <3>1. k \in 1..(n - 1) /\ k + 1 \in 1..n
      BY <1>3, <2>1
    <3> QED BY <1>4, <1>8, <3>1
  <2>2. CASE k = n
    BY <1>3, <1>4, <1>8, <2>2
  <2> QED BY <1>3, <2>1, <2>2
<1>11. Bounds(ss, end)
  BY <1>4, <1>7, <1>8, <1>9, <1>10 DEF Bounds
<1> QED BY <1>1, <1>11

\* The elements of a concatenation.
LEMMA Concatenated ==
  ASSUME NEW T, NEW s \in Seq(T), NEW t \in Seq(T)
  PROVE  /\ s \o t \in Seq(T) /\ Len(s) \in Nat /\ Len(t) \in Nat /\ Len(s \o t) = Len(s) + Len(t)
         /\ \A i \in 1..Len(s) : (s \o t)[i] = s[i]
         /\ \A i \in 1..Len(t) : (s \o t)[Len(s) + i] = t[i]
<1>1. \A l \in 1..(Len(s) + Len(t)) : (s \o t)[l] = IF l <= Len(s) THEN s[l] ELSE t[l - Len(s)]
  BY ConcatProperties, Zenon
<1>2. s \o t \in Seq(T) /\ Len(s \o t) = Len(s) + Len(t) /\ Len(s) \in Nat /\ Len(t) \in Nat
  BY ConcatProperties, LenProperties
<1>3. \A l \in 1..Len(s) : (s \o t)[l] = s[l]
  BY <1>1, <1>2
<1>4. \A l \in 1..Len(t) : (s \o t)[Len(s) + l] = t[l]
  BY <1>1, <1>2
<1> QED BY <1>2, <1>3, <1>4

\* Offsets never fall.
LEMMA Rising ==
  ASSUME NEW m \in Nat, NEW off \in [1..m -> Nat], \A k \in 1..(m - 1) : off[k] <= off[k + 1]
  PROVE  \A k \in 1..m : \A j \in 1..k : off[j] <= off[k]
<1>1. PICK S : S = {k \in Nat : \A j \in 1..k : off[j] <= off[k]}
  OBVIOUS
<1>2. m >= 1 => 1 \in S
  <2> SUFFICES ASSUME m >= 1 PROVE 1 \in S
    OBVIOUS
  <2>1. 1 \in 1..m /\ off[1] \in Nat /\ \A j \in 1..1 : j = 1
    OBVIOUS
  <2> QED BY <1>1, <2>1
<1>3. ASSUME NEW k \in 1..m, k < m, k \in S PROVE k + 1 \in S
  <2>1. k \in 1..(m - 1) /\ k + 1 \in 1..m /\ k + 1 \in Nat
    BY <1>3
  <2>2. off[k] <= off[k + 1] /\ off[k] \in Nat /\ off[k + 1] \in Nat
    BY <2>1
  <2>3. ASSUME NEW j \in 1..(k + 1) PROVE off[j] <= off[k + 1]
    <3>1. CASE j = k + 1
      BY <2>2, <3>1
    <3>2. CASE j \in 1..k
      <4>1. off[j] <= off[k] /\ off[j] \in Nat
        BY <1>1, <1>3, <2>1, <3>2
      <4> QED BY <2>2, <4>1
    <3> QED BY <2>1, <3>1, <3>2
  <2> QED BY <1>1, <2>1, <2>3
<1>4. \A k \in 1..m : k \in S
  BY <1>2, <1>3, UpTo
<1> QED BY <1>1, <1>4

=============================================================================
